---------------------------- MODULE BalanceSync ----------------------------
(***************************************************************************)
(* The executor quota_sync.py in balance mode.  When an account enters a    *)
(* new cycle, the balance of every active user is set to the value of one   *)
(* of his attributes, his quota.  A run reads the active users when it      *)
(* starts, works off the open events, looks at the accounts and works off   *)
(* the open events again; the attributes are read anew for each event and   *)
(* each run.  Meanwhile users spend and administrators edit attributes.     *)
(*                                                                         *)
(* Cycles are numbered.  An account's row is the number of the cycle it     *)
(* confirmed last, for that decide queues each cycle at most once, under a  *)
(* key of its own, is what CycleDetector promises.  Of the statuses of a    *)
(* target, pending, processing and failed are one, "open": nothing reads    *)
(* the difference.                                                          *)
(***************************************************************************)
EXTENDS Naturals, Sequences, FiniteSets

CONSTANTS AccountIds,       \* the selected accounts, in configuration order
          Users,            \* user ids, numbers
          Amounts,          \* what an attribute may say that is a positive number
          Unset,            \* an attribute that is missing or not a positive number
          DryRuns,          \* values dry_run may have when a run starts
          MaxCycle,         \* bound on the cycles of an account
          MaxEdits,         \* bound on the administrators' edits
          MaxFaults         \* bound on lost messages, failed reads and crashes

Accounts == {AccountIds[i] : i \in DOMAIN AccountIds}

ASSUME BalanceAssumption ==
  /\ AccountIds \in Seq(Accounts) /\ AccountIds # <<>>
  /\ IsFiniteSet(Users) /\ Users \subseteq Nat
  /\ Amounts \subseteq Nat \ {0} /\ Unset \notin Amounts
  /\ DryRuns \subseteq BOOLEAN /\ DryRuns # {}
  /\ MaxCycle \in Nat /\ MaxEdits \in Nat /\ MaxFaults \in Nat

VARIABLES account, users, defined,      \* the host: cycles, users, the attribute is defined
          rows, events,                 \* SQLite: account_state, reset_events + balance_targets
          run,                          \* the executor, Idle between runs
          late,                         \* sets given up on that the host has yet to see
          edits, faults,                \* how many of each happened
          sets, offered                 \* history, per event and user: the first two amounts
                                        \* set, the quotas the user had since the event

world == <<account, users, defined, edits>>
history == <<sets, offered>>
vars == <<account, users, defined, edits, rows, events, run, late, faults, sets, offered>>

Quota == Amounts \union {Unset}

Settled == {"done", "skipped"}

\* Between two runs; process memory holds nothing.
Idle == [at |-> "idle"]

-----------------------------------------------------------------------------
(* The host *)

RollOver(a) ==
  /\ account[a] < MaxCycle
  /\ account' = [account EXCEPT ![a] = @ + 1]
  /\ UNCHANGED <<users, defined, edits, offered>>

Spend(u) ==
  /\ \E rest \in Amounts \union {0} :
       rest < users[u].balance /\ users' = [users EXCEPT ![u].balance = rest]
  /\ UNCHANGED <<account, defined, edits, offered>>

Edited == edits < MaxEdits /\ edits' = edits + 1 /\ UNCHANGED account

\* An administrator edits the attribute of a user, disables, enables or deletes
\* him, or disables, enables or removes the definition of the attribute.
EditQuota(u, quota) ==
  /\ Edited /\ users[u].status # "gone" /\ quota # users[u].quota
  /\ users' = [users EXCEPT ![u].quota = quota]
  /\ offered' = [e \in DOMAIN offered |-> [offered[e] EXCEPT ![u] = @ \union ({quota} \ {Unset})]]
  /\ UNCHANGED defined

EditStatus(u, status) ==
  /\ Edited /\ users[u].status \notin {"gone", status}
  /\ users' = [users EXCEPT ![u].status = status, ![u].quota = IF status = "gone" THEN Unset ELSE @]
  /\ UNCHANGED <<defined, offered>>

EditDefinition == Edited /\ defined' = ~defined /\ UNCHANGED <<users, offered>>

World ==
  /\ \/ \E a \in Accounts : RollOver(a)
     \/ \E u \in Users : \/ Spend(u)
                         \/ \E quota \in Quota : EditQuota(u, quota)
                         \/ \E status \in {"active", "disabled", "gone"} : EditStatus(u, status)
     \/ EditDefinition
  /\ UNCHANGED <<rows, events, run, late, faults, sets>>

Faulty == faults < MaxFaults /\ faults' = faults + 1

\* The host sets the balance for event e and answers; a user who is gone is a 404.
HostSets(e, u, amount, answer) ==
  IF users[u].status = "gone"
  THEN answer = "gone" /\ UNCHANGED <<users, sets>>
  ELSE /\ answer = "set"
       /\ users' = [users EXCEPT ![u].balance = amount]
       /\ sets' = [sets EXCEPT ![e][u] = IF Len(@) = 2 THEN @ ELSE Append(@, amount)]

-----------------------------------------------------------------------------
(* One run of the executor *)

OpenEvents(evs) == {e \in DOMAIN evs : evs[e].open}

PendingTargets(event) == {u \in Users : event.status[u] = "open"}

\* pending_events and pending_balance_targets are worked off in id order.
First(ids) == CHOOSE i \in ids : \A j \in ids : i <= j

\* On to the next event, then to the accounts (first pass) or the end (second).
Advance(r, evs) ==
  IF r.queue # {} THEN [r EXCEPT !.at = "event"]
  ELSE IF r.pass = 1 THEN [r EXCEPT !.at = "account"]
  ELSE Idle

NoQuotas == [u \in Users |-> Unset]

\* main up to the first process_pending_events: the active users are read once.
Start(dry) ==
  /\ run = Idle
  /\ LET r == [at |-> "account", dry |-> dry, pass |-> 1, next |-> 1, queue |-> {}, todo |-> {},
               present |-> {u \in Users : users[u].status = "active"},
               quotas |-> NoQuotas, reply |-> "none"]
     IN run' = IF dry THEN r ELSE Advance([r EXCEPT !.queue = OpenEvents(events)], events)
  /\ UNCHANGED <<world, rows, events, late, faults, history>>

Event == First(run.queue)
Target == First(run.todo)

\* The quotas of the pending targets are read anew.  Without an enabled definition,
\* or when a read fails, every target fails and stays open.
ReadQuotas ==
  /\ run.at = "event"
  /\ run' = [run EXCEPT !.at = "target",
                        !.todo = IF defined THEN PendingTargets(events[Event]) ELSE {},
                        !.quotas = [u \in Users |-> users[u].quota]]
  /\ UNCHANGED <<world, rows, events, late, faults, history>>

ReadFails ==
  /\ run.at = "event" /\ PendingTargets(events[Event]) # {} /\ Faulty
  /\ run' = [run EXCEPT !.at = "target", !.todo = {}]
  /\ UNCHANGED <<world, rows, events, late, history>>

\* Mutant of Prepare: whatever the attribute says now becomes the amount.
PrepareAnything ==
  /\ run.at = "target" /\ run.todo # {}
  /\ LET fresh == run.quotas[Target]
     IN events' = [events EXCEPT ![Event].goal[Target] = IF fresh = Unset THEN 0 ELSE fresh]
  /\ run' = [run EXCEPT !.at = "post"]
  /\ UNCHANGED <<world, rows, late, faults, history>>

\* retarget_balance, unless the attribute has become missing or invalid: then the
\* amount stays what it was.
Prepare ==
  /\ run.at = "target" /\ run.todo # {}
  /\ LET fresh == run.quotas[Target]
     IN events' = [events EXCEPT ![Event].goal[Target] = IF fresh = Unset THEN @ ELSE fresh]
  /\ run' = [run EXCEPT !.at = "post"]
  /\ UNCHANGED <<world, rows, late, faults, history>>

Amount == events[Event].goal[Target]

Answers == {"set", "gone", "error"}

Post ==
  /\ run.at = "post"
  /\ \E answer \in Answers :
       /\ HostSets(Event, Target, Amount, answer)
       /\ run' = [run EXCEPT !.at = "reply", !.reply = answer]
  /\ UNCHANGED <<account, defined, edits, rows, events, late, faults, offered>>

\* The executor sees an error: the request is lost, or carried out and the answer
\* lost, or it times out and is carried out later.
PostFails ==
  /\ run.at = "post" /\ Faulty
  /\ \/ UNCHANGED <<users, sets, late>>
     \/ \E answer \in Answers : HostSets(Event, Target, Amount, answer) /\ UNCHANGED late
     \/ late' = late \union {<<Event, Target, Amount>>} /\ UNCHANGED <<users, sets>>
  /\ run' = [run EXCEPT !.at = "reply", !.reply = "error"]
  /\ UNCHANGED <<account, defined, edits, rows, events, offered>>

LatePost ==
  \E p \in late :
    /\ \E answer \in Answers : HostSets(p[1], p[2], p[3], answer)
    /\ late' = late \ {p}
    /\ UNCHANGED <<account, defined, edits, rows, events, run, faults, offered>>

\* Mutant of StatusAfter: a failed request is not kept apart from a successful one.
StatusAfterAnything(reply) == IF reply = "gone" THEN "skipped" ELSE "done"

\* Mutant of StatusAfter: a set that was answered is not noted.
StatusAfterUnnoted(reply) == IF reply = "gone" THEN "skipped" ELSE "open"

\* Mutant of StatusAfter: a deleted user is a failure like any other.
StatusAfterGoneFails(reply) == IF reply = "set" THEN "done" ELSE "open"

StatusAfter(reply) ==
  CASE reply = "set" -> "done" [] reply = "gone" -> "skipped" [] reply = "error" -> "open"

HandleReply ==
  /\ run.at = "reply"
  /\ events' = [events EXCEPT ![Event].status[Target] = StatusAfter(run.reply)]
  /\ run' = [run EXCEPT !.at = "target", !.todo = @ \ {Target}, !.reply = "none"]
  /\ UNCHANGED <<world, rows, late, faults, history>>

\* Mutant of FinishEvent: the event is complete once each target was tried.
FinishEventAlways ==
  /\ run.at = "target" /\ run.todo = {}
  /\ events' = [events EXCEPT ![Event].open = FALSE]
  /\ run' = Advance([run EXCEPT !.queue = @ \ {Event}, !.quotas = NoQuotas], events')
  /\ UNCHANGED <<world, rows, late, faults, history>>

\* finish_balance_event; an event without balance targets ends in finish_event,
\* which comes to the same.
FinishEvent ==
  /\ run.at = "target" /\ run.todo = {}
  /\ events' = [events EXCEPT ![Event].open = PendingTargets(events[Event]) # {}]
  /\ run' = Advance([run EXCEPT !.queue = @ \ {Event}, !.quotas = NoQuotas], events')
  /\ UNCHANGED <<world, rows, late, faults, history>>

\* Mutant of NewTargets: every user found at the start of the run is a target.
NewTargetsAll == run.present

\* collect_balance_targets: the users found active when the run started whose
\* attribute is a positive number now.
NewTargets == {u \in run.present : users[u].quota # Unset}

NewEvent(a) ==
  [account |-> a, cycle |-> account[a], open |-> TRUE,
   status |-> [u \in Users |-> IF u \in NewTargets THEN "open" ELSE "none"],
   goal |-> [u \in Users |-> IF u \in NewTargets THEN users[u].quota ELSE Unset]]

\* Mutant of CreateEvent: the row is committed before the event, which fails when
\* nobody is to be set.
CreateEventIfTargets(a) ==
  /\ rows' = [rows EXCEPT ![a] = account[a]]
  /\ IF NewTargets = {} THEN UNCHANGED <<events, sets, offered>>
     ELSE /\ events' = Append(events, NewEvent(a))
          /\ sets' = Append(sets, [u \in Users |-> <<>>])
          /\ offered' = Append(offered, [u \in Users |-> {users[u].quota} \ {Unset}])

\* create_balance_event: the event, its targets and the row in one transaction.
CreateEvent(a) ==
  /\ rows' = [rows EXCEPT ![a] = account[a]]
  /\ events' = Append(events, NewEvent(a))
  /\ sets' = Append(sets, [u \in Users |-> <<>>])
  /\ offered' = Append(offered, [u \in Users |-> {users[u].quota} \ {Unset}])

\* The first look is the baseline.  A new cycle is confirmed as soon as the figures
\* show it; a dry run, or a missing definition of the attribute, leaves it to a
\* later run.
CheckAccount ==
  LET a == AccountIds[run.next] IN
  /\ run.at = "account"
  /\ \/ rows[a] = 0 /\ rows' = [rows EXCEPT ![a] = account[a]] /\ UNCHANGED <<events, history>>
     \/ rows[a] # 0 /\ UNCHANGED <<rows, events, history>>
     \/ rows[a] # 0 /\ account[a] > rows[a] /\ ~run.dry /\ defined /\ CreateEvent(a)
  /\ run' = IF run.next < Len(AccountIds) THEN [run EXCEPT !.next = @ + 1]
            ELSE IF run.dry THEN Idle
            ELSE Advance([run EXCEPT !.pass = 2, !.queue = OpenEvents(events')], events')
  /\ UNCHANGED <<world, late, faults>>

\* A read of the account or of the attributes that fails here ends the run.
CheckFails ==
  /\ run.at = "account" /\ Faulty /\ run' = Idle
  /\ UNCHANGED <<world, rows, events, late, history>>

\* The process is killed, by TimeoutStartSec or with the machine.
Crash ==
  /\ run # Idle /\ Faulty /\ run' = Idle
  /\ UNCHANGED <<world, rows, events, late, history>>

-----------------------------------------------------------------------------

Init ==
  /\ account = [a \in Accounts |-> 1]
  /\ users \in [Users -> [status : {"active"}, quota : Quota, balance : {0}]]
  /\ defined \in BOOLEAN
  /\ rows = [a \in Accounts |-> 0]
  /\ events = <<>> /\ sets = <<>> /\ offered = <<>>
  /\ run = Idle
  /\ late = {}
  /\ edits = 0 /\ faults = 0

\* What the executor does when nothing goes wrong.
Progress ==
  \/ \E dry \in DryRuns : Start(dry)
  \/ ReadQuotas \/ Prepare \/ Post \/ HandleReply \/ FinishEvent \/ CheckAccount

Next == World \/ Progress \/ ReadFails \/ PostFails \/ LatePost \/ CheckFails \/ Crash

Spec == Init /\ [][Next]_vars

\* The timer starts runs and a started run is carried on.
FairSpec == Spec /\ WF_vars(Progress)

-----------------------------------------------------------------------------

EventRecords == [account : Accounts, cycle : Nat, open : BOOLEAN,
                 status : [Users -> Settled \union {"open", "none"}], goal : [Users -> Quota]]

Runs == [at : {"event", "target", "post", "reply", "account"}, dry : BOOLEAN, pass : {1, 2},
         next : 1..Len(AccountIds), queue : SUBSET Nat, todo : SUBSET Users,
         present : SUBSET Users, quotas : [Users -> Quota], reply : Answers \union {"none"}]

TypeOK ==
  /\ account \in [Accounts -> Nat] /\ rows \in [Accounts -> Nat]
  /\ users \in [Users -> [status : {"active", "disabled", "gone"}, quota : Quota,
                          balance : Amounts \union {0}]]
  /\ defined \in BOOLEAN /\ edits \in 0..MaxEdits /\ faults \in 0..MaxFaults
  /\ events \in Seq(EventRecords)
  /\ run \in Runs \union {Idle}
  /\ run # Idle => run.queue \subseteq DOMAIN events
  /\ run.at \in {"event", "target", "post", "reply"} => run.queue # {}
  /\ run.at \in {"post", "reply"} => run.todo # {}
  /\ late \subseteq (DOMAIN events) \X Users \X Amounts
  /\ sets \in Seq([Users -> Seq(Amounts)]) /\ Len(sets) = Len(events)
  /\ offered \in Seq([Users -> SUBSET Amounts]) /\ Len(offered) = Len(events)

\* An event is complete only when each of its targets was done or skipped, whatever
\* failed, was killed or could not be read in between.
CompleteMeansSettled ==
  \A e \in DOMAIN events : ~events[e].open => PendingTargets(events[e]) = {}

\* A target is done only if the host really set the balance for this event, skipped
\* only if the user was deleted, and nobody who is not a target is ever set.
StatusIsTrue ==
  \A e \in DOMAIN events, u \in Users :
    /\ events[e].status[u] = "done" => sets[e][u] # <<>>
    /\ events[e].status[u] = "skipped" => users[u].status = "gone"
    /\ events[e].status[u] = "none" => sets[e][u] = <<>>

\* README: "未填写或不是正数的用户会被跳过并告警，不会被清零".  Whatever the attribute becomes
\* while an event is open, lost or late, a balance is only set to a quota that the
\* user really had at some time since the event, never to 0 or to another's.
OnlyQuotasAreSet ==
  \A e \in DOMAIN events, u \in Users :
    \A i \in DOMAIN sets[e][u] : sets[e][u][i] \in offered[e][u]

\* As long as every request is answered, the host sets a user once per event, though
\* two passes and any number of runs come by.
SetOnceIfAnswered ==
  faults = 0 => \A e \in DOMAIN events, u \in Users : Len(sets[e][u]) <= 1

\* process_balance_event: "set 操作天然幂等，重跑安全"; README: "API 响应丢失时根据额度窗口或目标
\* 余额变化恢复，避免重复重置".  Doing a set again would have to be without effect: it must not
\* give back what the user has spent since.
SpentStaysSpent ==
  [][\A e \in DOMAIN events, u \in Users :
       sets[e][u] # <<>> /\ sets'[e][u] # sets[e][u] => users'[u].balance <= users[u].balance]_vars

\* No cycle slips by: a row moves past the baseline only together with an event for
\* the cycle it moves to (main: "本次不创建重置事件，下一分钟重试").
RowMovesWithEvent ==
  [][\A a \in Accounts :
       rows[a] # 0 /\ rows'[a] # rows[a]
         => \E e \in DOMAIN events' : events'[e].account = a /\ events'[e].cycle = rows'[a]]_vars

\* If the definition of the attribute is there in the end and the executor is not
\* left in dry-run mode, every event is worked off: lost messages, crashes, edits
\* and deleted users only delay it.
EventsSettle ==
  (<>[]defined /\ []<>(run # Idle /\ ~run.dry)) =>
    \A e \in 1..MaxCycle : e \in DOMAIN events ~> (e \in DOMAIN events /\ ~events[e].open)
=============================================================================
