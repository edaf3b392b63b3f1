----------------------------- MODULE QuotaSync -----------------------------
(***************************************************************************)
(* The executor quota_sync.py in subscription mode, the host it talks to    *)
(* and the accounts it watches.  systemd starts a run every minute; flock   *)
(* lets one run exist at a time, and a run may be killed anywhere.  A run   *)
(* reads the eligible subscriptions, works off the events left open, looks  *)
(* at each selected account, and works off the open events again.           *)
(*                                                                         *)
(* SQLite (rows, events) survives a crash; the run itself does not.  A read *)
(* of the host and the local write that follows it are one step; a POST and *)
(* what is done with its reply are two, for the host, the clock and a crash *)
(* may come in between.                                                     *)
(***************************************************************************)
EXTENDS CycleDecision, Sequences, FiniteSets

CONSTANTS AccountIds,       \* the selected accounts, in configuration order
          Subs,             \* subscription ids of the target groups, numbers
          Windows,          \* the periodic windows to reset
          Month,            \* how long a monthly window runs on its own, 30 days
          Aligns,           \* the host has the cycle_reset_at patch
          DryRuns,          \* values dry_run may have when a run starts
          Watched,          \* any selected account, for the refinement
          Cards,            \* an administrator may end a cycle early
          MaxTime,          \* bound on the clock
          MaxEvents,        \* how many events the liveness property names
          MaxFaults         \* bound on lost messages, failed reads and crashes

Accounts == {AccountIds[i] : i \in DOMAIN AccountIds}

ASSUME SyncAssumption ==
  /\ AccountIds \in Seq(Accounts) /\ AccountIds # <<>>
  /\ IsFiniteSet(Subs) /\ Subs \subseteq Nat
  /\ Windows \subseteq {"weekly", "monthly"} /\ Windows # {}
  /\ Month \in Nat /\ Month >= Week /\ Aligns \in BOOLEAN /\ DryRuns \subseteq BOOLEAN /\ DryRuns # {}
  /\ Watched \in Accounts /\ Cards \in BOOLEAN
  /\ MaxTime \in Nat /\ MaxFaults \in Nat /\ MaxEvents \in Nat

VARIABLES now, account, subs,           \* the world: clock, accounts, subscriptions
          rows, events,                 \* SQLite: account_state, reset_events + reset_targets
          run,                          \* the executor, Idle between runs
          late,                         \* POSTs given up on that the host has yet to see
          faults,                       \* how many faults happened
          clears                        \* history: host clears per event and subscription,
                                        \* counted up to two

vars == <<now, account, subs, rows, events, run, late, faults, clears>>

TargetStatus == {"pending", "processing", "failed", "done", "skipped"}

\* Target statuses that pending_targets and finish_event leave out.
Settled == {"done", "skipped"}

HighUsed == LowUsed + MinDrop

\* Between two runs; process memory holds nothing.
Idle == [at |-> "idle"]

-----------------------------------------------------------------------------
(* The world *)

\* codex_* of an account as of the last response in its cycle.
Published(a) ==
  LET reset == account[a].start + Week
      sampled == IF now <= reset THEN now ELSE reset
  IN [resetAt |-> reset, sampleAt |-> sampled, used |-> account[a].used,
      resetAfter |-> reset - sampled, cost |-> Absent]

PublishedSnapshots ==
  {s \in [resetAt: Week..(MaxTime + Week), sampleAt: 0..(MaxTime + Week), used: {0, HighUsed},
          resetAfter: 0..Week, cost: {Absent}] : s.resetAfter = s.resetAt - s.sampleAt}

\* cycle_windows_applied for the windows of one subscription.
Applied(window, resetAt) ==
  \A w \in Windows : window[w] # Absent /\ (window[w] = resetAt - Week \/ window[w] >= resetAt)

Eligible(s) == subs[s].status = "active"

\* Mutant of ResetBy: the host clears again when the windows are aligned already.
ResetByAlways(sub, resetAt) ==
  [sub EXCEPT !.spent = FALSE,
              !.window = [w \in Windows |-> IF Aligns THEN resetAt - Week ELSE now]]

\* What AdminResetQuotaForCycle makes of a subscription that it accepts.  A host
\* without the patch ignores cycle_reset_at and starts the windows now.
ResetBy(sub, resetAt) ==
  IF Aligns /\ Applied(sub.window, resetAt) THEN sub
  ELSE [sub EXCEPT !.spent = FALSE,
                   !.window = [w \in Windows |-> IF Aligns THEN resetAt - Week ELSE now]]

Accepts(s, resetAt) ==
  /\ Eligible(s)
  /\ Aligns => resetAt > now /\ resetAt <= now + Week + Tolerance

Tick == now < MaxTime /\ now' = now + 1 /\ UNCHANGED <<account, subs>>

\* The account is used, and rolls over when its seven days are up or a reset card
\* is used on it.
Spend(a) ==
  /\ account[a].used < HighUsed /\ now < account[a].start + Week
  /\ account' = [account EXCEPT ![a].used = HighUsed]
  /\ UNCHANGED <<now, subs>>

RollOver(a) ==
  /\ now >= account[a].start + Week \/ (Cards /\ now > account[a].start)
  /\ account' = [account EXCEPT ![a] = [start |-> now, used |-> 0]]
  /\ UNCHANGED <<now, subs>>

\* A user spends quota; the host starts a window that is not running.
Consume(s) ==
  LET Running(w) == subs[s].window[w] # Absent /\ now < subs[s].window[w] + (IF w = "weekly" THEN Week ELSE Month)
  IN /\ Eligible(s)
     /\ ~subs[s].spent \/ \E w \in Windows : ~Running(w)
     /\ subs' = [subs EXCEPT ![s].spent = TRUE,
                             ![s].window = [w \in Windows |-> IF Running(w) THEN @[w] ELSE now]]
     /\ UNCHANGED <<now, account>>

\* Subscriptions expire or leave the groups, are renewed, or are deleted.
ChangeStatus(s, status) ==
  /\ subs[s].status # "gone" /\ subs[s].status # status
  /\ subs' = [subs EXCEPT ![s].status = status]
  /\ UNCHANGED <<now, account>>

World ==
  /\ \/ Tick
     \/ \E a \in Accounts : Spend(a) \/ RollOver(a)
     \/ \E s \in Subs : Consume(s) \/ \E st \in {"active", "inactive", "gone"} : ChangeStatus(s, st)
  /\ UNCHANGED <<rows, events, run, late, faults, clears>>

Faulty == faults < MaxFaults /\ faults' = faults + 1

-----------------------------------------------------------------------------
(* One run of the executor *)

OpenEvents(evs) == {e \in DOMAIN evs : evs[e].open}

PendingTargets(event) == {s \in Subs : event.targets[s] \notin Settled \union {"none"}}

\* pending_events and pending_targets are worked off in id order.
First(ids) == CHOOSE i \in ids : \A j \in ids : i <= j

\* Mutant of Advance: settled targets are worked off again.
AdvanceOverAll(r, evs) ==
  IF r.queue # {}
  THEN [r EXCEPT !.at = "target", !.todo = {s \in Subs : evs[First(r.queue)].targets[s] # "none"}]
  ELSE IF r.pass = 1 THEN [r EXCEPT !.at = "account"]
  ELSE Idle

\* The run goes on to its next event, and after the last one to the accounts
\* (first pass) or to its end (second pass).
Advance(r, evs) ==
  IF r.queue # {} THEN [r EXCEPT !.at = "target", !.todo = PendingTargets(evs[First(r.queue)])]
  ELSE IF r.pass = 1 THEN [r EXCEPT !.at = "account"]
  ELSE Idle

\* main up to the first process_pending_events: dry_run and the eligible
\* subscriptions are read once; a dry run works off no events.
Start(dry) ==
  /\ run = Idle
  /\ LET r == [at |-> "account", dry |-> dry, eligible |-> {s \in Subs : Eligible(s)},
               pass |-> 1, queue |-> {}, todo |-> {}, reply |-> "none", next |-> 1]
     IN run' = IF dry THEN r ELSE Advance([r EXCEPT !.queue = OpenEvents(events)], events)
  /\ UNCHANGED <<now, account, subs, rows, events, late, faults, clears>>

Event == First(run.queue)
Target == First(run.todo)

Mark(status) == events' = [events EXCEPT ![Event].targets[Target] = status]

NextTarget == run' = [run EXCEPT !.at = "target", !.todo = @ \ {Target}, !.reply = "none"]

\* Mutant of FetchTarget: a subscription that is no longer active counts as done.
FetchTargetExpiredDone ==
  /\ run.at = "target" /\ run.todo # {}
  /\ IF Eligible(Target) /\ ~Applied(subs[Target].window, events[Event].resetAt)
     THEN Mark("processing") /\ run' = [run EXCEPT !.at = "post"]
     ELSE Mark("done") /\ NextTarget
  /\ UNCHANGED <<now, account, subs, rows, late, faults, clears>>

\* Mutant of FetchTarget: a subscription that is no longer active counts as failed.
FetchTargetExpiredFails ==
  /\ run.at = "target" /\ run.todo # {}
  /\ IF Eligible(Target) /\ ~Applied(subs[Target].window, events[Event].resetAt)
     THEN Mark("processing") /\ run' = [run EXCEPT !.at = "post"]
     ELSE Mark(IF Eligible(Target) THEN "done" ELSE "failed") /\ NextTarget
  /\ UNCHANGED <<now, account, subs, rows, late, faults, clears>>

\* GET the subscription: it is skipped, found aligned already, or marked for a POST.
FetchTarget ==
  /\ run.at = "target" /\ run.todo # {}
  /\ IF Eligible(Target) /\ ~Applied(subs[Target].window, events[Event].resetAt)
     THEN Mark("processing") /\ run' = [run EXCEPT !.at = "post"]
     ELSE Mark(IF Eligible(Target) THEN "done" ELSE "skipped") /\ NextTarget
  /\ UNCHANGED <<now, account, subs, rows, late, faults, clears>>

FetchFails ==
  /\ run.at = "target" /\ run.todo # {}
  /\ Faulty /\ Mark("failed") /\ NextTarget
  /\ UNCHANGED <<now, account, subs, rows, late, clears>>

\* The host carries out a POST for event e in one transaction and answers with
\* the row.
HostResets(e, s, answer) ==
  LET resetAt == events[e].resetAt
      sub == ResetBy(subs[s], resetAt)
  IN IF Accepts(s, resetAt)
     THEN /\ subs' = [subs EXCEPT ![s] = sub]
          /\ clears' = [clears EXCEPT ![e][s] = IF sub = subs[s] \/ @ = 2 THEN @ ELSE @ + 1]
          /\ answer = IF Applied(sub.window, resetAt) THEN "aligned" ELSE "unaligned"
     ELSE /\ UNCHANGED <<subs, clears>>
          /\ answer = IF subs[s].status = "gone" THEN "gone" ELSE "error"

Answers == {"aligned", "unaligned", "gone", "error"}

Post ==
  /\ run.at = "post"
  /\ \E answer \in Answers :
       /\ HostResets(Event, Target, answer)
       /\ run' = [run EXCEPT !.at = "reply", !.reply = answer]
  /\ UNCHANGED <<now, account, rows, events, late, faults>>

\* The executor sees an error: the request is lost, or it is carried out and the
\* answer lost (also when the host fails after its commit, invalidating caches),
\* or it times out and the host carries it out later.
PostFails ==
  /\ run.at = "post" /\ Faulty
  /\ \/ UNCHANGED <<subs, clears, late>>
     \/ \E answer \in Answers : HostResets(Event, Target, answer) /\ UNCHANGED late
     \/ late' = late \union {<<Event, Target>>} /\ UNCHANGED <<subs, clears>>
  /\ run' = [run EXCEPT !.at = "reply", !.reply = "error"]
  /\ UNCHANGED <<now, account, rows, events>>

LatePost ==
  \E p \in late :
    /\ \E answer \in Answers : HostResets(p[1], p[2], answer)
    /\ late' = late \ {p}
    /\ UNCHANGED <<now, account, rows, events, run, faults>>

\* Mutant of HandleReply: an answer is taken for success without looking at it.
HandleReplyUnverified ==
  /\ run.at = "reply"
  /\ Mark(IF run.reply = "gone" THEN "skipped"
          ELSE IF run.reply = "error" THEN "failed" ELSE "done")
  /\ NextTarget
  /\ UNCHANGED <<now, account, subs, rows, late, faults, clears>>

\* A reply that does not show the windows aligned is looked up once more.
HandleReply ==
  /\ run.at = "reply"
  /\ LET applied == run.reply = "unaligned" /\ Applied(subs[Target].window, events[Event].resetAt)
         gone == run.reply = "gone" \/ (run.reply = "unaligned" /\ subs[Target].status = "gone")
     IN Mark(IF gone THEN "skipped"
             ELSE IF run.reply = "aligned" \/ applied THEN "done"
             ELSE "failed")
  /\ NextTarget
  /\ UNCHANGED <<now, account, subs, rows, late, faults, clears>>

\* Mutant of FinishEvent: only targets that were never tried keep an event open.
FinishEventUntried ==
  /\ run.at = "target" /\ run.todo = {}
  /\ events' = [events EXCEPT ![Event].open = \E s \in Subs : events[Event].targets[s] = "pending"]
  /\ run' = Advance([run EXCEPT !.queue = @ \ {Event}], events')
  /\ UNCHANGED <<now, account, subs, rows, late, faults, clears>>

\* finish_event: complete when every target is settled.
FinishEvent ==
  /\ run.at = "target" /\ run.todo = {}
  /\ events' = [events EXCEPT ![Event].open = PendingTargets(events[Event]) # {}]
  /\ run' = Advance([run EXCEPT !.queue = @ \ {Event}], events')
  /\ UNCHANGED <<now, account, subs, rows, late, faults, clears>>

EventKeys(a) == {events[e].resetAt : e \in {i \in DOMAIN events : events[i].account = a}}

\* Mutant of NewEvent: the subscriptions that are not eligible have no status.
NewEventNoStatus(a, s) ==
  [account |-> a, resetAt |-> s.resetAt, open |-> TRUE,
   targets |-> [x \in Subs |-> IF x \in run.eligible THEN "pending" ELSE Absent]]

NewEvent(a, s) ==
  [account |-> a, resetAt |-> s.resetAt, open |-> TRUE,
   targets |-> [x \in Subs |-> IF x \in run.eligible THEN "pending" ELSE "none"]]

\* Mutant of CreateEvent: the row is not confirmed with the event.
CreateEventAlone(a, s) ==
  /\ UNCHANGED rows
  /\ IF s.resetAt \in EventKeys(a) THEN UNCHANGED <<events, clears>>
     ELSE events' = Append(events, NewEvent(a, s)) /\ clears' = Append(clears, [x \in Subs |-> 0])

\* create_event: the event, its targets and the row in one transaction, or just
\* an observation if the key exists.
CreateEvent(a, s) ==
  IF s.resetAt \in EventKeys(a)
  THEN rows' = [rows EXCEPT ![a] = ObservedRow(@, s, TRUE)] /\ UNCHANGED <<events, clears>>
  ELSE /\ rows' = [rows EXCEPT ![a] = ConfirmedRow(@, s)]
       /\ events' = Append(events, NewEvent(a, s))
       /\ clears' = Append(clears, [x \in Subs |-> 0])

\* Another account, or the second pass over the open events.
NextAccount(evs) ==
  run' = IF run.next < Len(AccountIds) THEN [run EXCEPT !.next = @ + 1]
         ELSE IF run.dry THEN Idle
         ELSE Advance([run EXCEPT !.pass = 2, !.queue = OpenEvents(evs)], evs)

CheckAccount ==
  LET a == AccountIds[run.next]
      s == Published(a)
      decision == Decide(rows[a], s)
  IN /\ run.at = "account"
     /\ \/ decision = "reset" /\ ~run.dry /\ CreateEvent(a, s)
        \/ /\ decision = "stale" \/ (decision = "reset" /\ run.dry)
           /\ UNCHANGED <<rows, events, clears>>
        \/ /\ decision \notin {"reset", "stale"}
           /\ rows' = [rows EXCEPT ![a] = ObservedRow(@, s, decision = "baseline")]
           /\ UNCHANGED <<events, clears>>
     /\ NextAccount(events')
     /\ UNCHANGED <<now, account, subs, late, faults>>

\* An exception from load_snapshot ends the run: later accounts and the second
\* pass have to wait for another one.
SnapshotFails ==
  /\ run.at = "account" /\ Faulty
  /\ run' = Idle
  /\ UNCHANGED <<now, account, subs, rows, events, late, clears>>

\* The process is killed, by TimeoutStartSec or with the machine.
Crash ==
  /\ run # Idle /\ Faulty
  /\ run' = Idle
  /\ UNCHANGED <<now, account, subs, rows, events, late, clears>>

-----------------------------------------------------------------------------

Init ==
  /\ now = 0
  /\ account = [a \in Accounts |-> [start |-> 0, used |-> 0]]
  /\ subs = [s \in Subs |-> [status |-> "active", spent |-> FALSE,
                             window |-> [w \in Windows |-> Absent]]]
  /\ rows = [a \in Accounts |-> NoRow]
  /\ events = <<>>
  /\ run = Idle
  /\ late = {}
  /\ faults = 0
  /\ clears = <<>>

\* What the executor does when nothing goes wrong.
Progress ==
  \/ \E dry \in DryRuns : Start(dry)
  \/ FetchTarget \/ Post \/ HandleReply \/ FinishEvent \/ CheckAccount

Next == World \/ Progress \/ FetchFails \/ PostFails \/ LatePost \/ SnapshotFails \/ Crash

Spec == Init /\ [][Next]_vars

\* The timer starts runs and a started run is carried on.  Faults are bounded, so
\* a request retried often enough is answered and an account is readable in the
\* end; nothing is assumed of the accounts' use, the users or the clock.
FairSpec == Spec /\ WF_vars(Progress)

-----------------------------------------------------------------------------

NewRuns == [at : {"target", "post", "reply", "account"}, dry : BOOLEAN, eligible : SUBSET Subs,
            pass : {1, 2}, queue : SUBSET Nat, todo : SUBSET Subs,
            reply : Answers \union {"none"}, next : 1..Len(AccountIds)]

EventRecords == [account : Accounts, resetAt : Int, open : BOOLEAN,
                 targets : [Subs -> TargetStatus \union {"none"}]]

TypeOK ==
  /\ now \in 0..MaxTime
  /\ account \in [Accounts -> [start : 0..MaxTime, used : {0, HighUsed}]]
  /\ subs \in [Subs -> [status : {"active", "inactive", "gone"}, spent : BOOLEAN,
                        window : [Windows -> Int \union {Absent}]]]
  /\ rows \in [Accounts -> Row \union {NoRow}]
  /\ events \in Seq(EventRecords)
  /\ run \in NewRuns \union {Idle}
  /\ run # Idle => run.queue \subseteq DOMAIN events
  /\ run.at \in {"target", "post", "reply"} => run.queue # {}
  /\ run.at \in {"post", "reply"} => run.todo # {}
  /\ late \subseteq (DOMAIN events) \X Subs
  /\ faults \in 0..MaxFaults
  /\ clears \in Seq([Subs -> 0..2]) /\ Len(clears) = Len(events)

\* finish_event reads the targets the loop before it wrote: an event is complete
\* only when each of its targets was done or skipped, whatever failed or crashed
\* in between, and no later pass ever misses a target that still needs work.
CompleteMeansSettled ==
  \A e \in DOMAIN events : ~events[e].open => PendingTargets(events[e]) = {}

\* README: "相同周期重试不会再次清空已产生的用量" - however often requests, replies and
\* runs are lost or late, the host clears a subscription once per event.
ClearedAtMostOnce == \A e \in DOMAIN clears, s \in Subs : clears[e][s] <= 1

\* A target is marked done only while the host really has its windows on the
\* cycle of the event, or already past it (cycle_windows_applied).
DoneMeansAligned ==
  [][\A e \in DOMAIN events, s \in Subs :
       events'[e].targets[s] = "done" /\ events[e].targets[s] # "done"
         => Applied(subs[s].window, events[e].resetAt)]_vars

\* What was decided about a target or an event stays decided: retries touch only
\* what is not settled, and a new event never changes an older one's targets.
SettledIsFinal ==
  [][\A e \in DOMAIN events :
       /\ e \in DOMAIN events'
       /\ ~events[e].open => ~events'[e].open
       /\ \A s \in Subs : events[e].targets[s] \in Settled \union {"none"}
                            => events'[e].targets[s] = events[e].targets[s]]_vars

\* Subscriptions stop expiring and being renewed sooner or later.
StatusesSettle == <>[][\A s \in Subs : subs'[s].status = subs[s].status]_vars

\* Neither is the executor left in dry-run mode.
RealRuns == []<>(run # Idle /\ ~run.dry)

\* Every event is worked off, unless the cycle it belongs to ends first: lost
\* messages and crashes, and dry runs in between, only delay it.
EventsSettle ==
  StatusesSettle /\ RealRuns =>
    \A e \in 1..MaxEvents :
      e \in DOMAIN events ~> (e \in DOMAIN events /\ (~events[e].open \/ now >= events[e].resetAt))

\* Whatever happens to requests and runs, the rows and events of each account are
\* those of a detector: every step of the executor is a step of the account's
\* CycleDetector or leaves its row and its event keys alone.
Detector ==
  INSTANCE CycleDetector WITH row <- rows[Watched], keys <- EventKeys(Watched),
                              Snapshots <- PublishedSnapshots

ImplementsDetector == Detector!Spec
=============================================================================
