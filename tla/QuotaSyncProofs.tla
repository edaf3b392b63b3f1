-------------------------- MODULE QuotaSyncProofs --------------------------
(***************************************************************************)
(* What the executor promises for any number of accounts, subscriptions,    *)
(* windows, faults and runs.  Statuses are decided by a run that works from *)
(* copies it took earlier (queue and todo), so the invariant that carries   *)
(* the proofs says that what is still in the copies is still unfinished in  *)
(* the store: queued events are open, targets to do are not settled.        *)
(***************************************************************************)
EXTENDS QuotaSync, SequenceTheorems, WellFoundedInduction, TLAPS

Working == run.at \in {"target", "post", "reply"}

\* A cycle never starts in the future.
Started == \A a \in Accounts : account[a].start <= now

QueueIsOpen == run # Idle => run.queue \subseteq OpenEvents(events)

TodoIsPending == Working => run.todo \subseteq PendingTargets(events[Event])

IInv == TypeOK /\ Started /\ QueueIsOpen /\ TodoIsPending /\ CompleteMeansSettled

-----------------------------------------------------------------------------
(* The operators the model is built from *)

\* The least member of a set of ids is a member of it.
LEMMA FirstIsMember ==
  ASSUME NEW ids, ids \subseteq Nat, ids # {}
  PROVE  First(ids) \in ids
<1>1. PICK m \in ids : \A k \in ids : <<k, m>> \notin OpToRel(<, Nat)
  BY WFMin, NatLessThanWellFounded, Zenon
<1>2. \A k \in ids : ~(k < m)
  BY <1>1, Zenon DEF OpToRel
<1>3. \A k \in ids : m <= k
  BY <1>2
<1> QED
  BY <1>3 DEF First

\* A sequence stays one when an element of it is replaced.
LEMMA Replaced ==
  ASSUME NEW S, NEW seq \in Seq(S), NEW i \in DOMAIN seq, NEW e \in S,
         NEW new, new = [seq EXCEPT ![i] = e]
  PROVE  /\ new \in Seq(S) /\ Len(new) = Len(seq) /\ DOMAIN new = DOMAIN seq
         /\ new[i] = e /\ \A j \in DOMAIN seq : j # i => new[j] = seq[j]
<1>1. i \in 1..Len(seq) /\ DOMAIN seq = 1..Len(seq)
  BY LenProperties
<1>2. [seq EXCEPT ![i] = e] \in Seq(S) /\ Len([seq EXCEPT ![i] = e]) = Len(seq)
  BY <1>1, ExceptSeq
<1> QED
  BY <1>1, <1>2, LenProperties

\* What is known of the constants.
LEMMA Parameters ==
  /\ Week \in Nat /\ LowUsed \in Nat /\ MinDrop \in Nat /\ MaxTime \in Nat
  /\ HighUsed \in Nat /\ Subs \subseteq Nat /\ Watched \in Accounts
  /\ MaxFaults \in Nat /\ Absent \notin Int
BY ThresholdAssumption, AbsentAssumption, SyncAssumption DEF HighUsed

\* What the host publishes of an account is one of PublishedSnapshots.
LEMMA PublishedIsSnapshot ==
  ASSUME TypeOK, Started, NEW a \in Accounts
  PROVE  Published(a) \in PublishedSnapshots /\ Published(a) \in Snapshot
<1>1. account[a].start \in 0..MaxTime /\ account[a].used \in {0, HighUsed}
  BY DEF TypeOK
<1>2. now \in 0..MaxTime /\ account[a].start <= now
  BY DEF TypeOK, Started
<1>3. PICK reset \in Int : reset = account[a].start + Week
  BY <1>1, Parameters
<1>4. PICK sampled \in Int : sampled = IF now <= reset THEN now ELSE reset
  BY <1>2
<1>5. PICK left \in 0..Week : left = reset - sampled
  BY <1>1, <1>2, <1>3, <1>4, Parameters
<1>6. Published(a) = [resetAt |-> reset, sampleAt |-> sampled, used |-> account[a].used,
                      resetAfter |-> left, cost |-> Absent]
  BY <1>3, <1>4, <1>5, Zenon DEF Published
<1>7. reset \in Week..(MaxTime + Week) /\ sampled \in 0..(MaxTime + Week)
  BY <1>1, <1>2, <1>3, <1>4, Parameters
<1>8. Published(a) \in PublishedSnapshots
  BY <1>1, <1>5, <1>6, <1>7 DEF PublishedSnapshots
<1>9. left \in Nat /\ account[a].used \in Reading /\ Absent \in Reading
  BY <1>1, <1>5, Parameters DEF Reading
<1> QED
  BY <1>6, <1>8, <1>9 DEF Snapshot

\* The run's current event and target are an open event and a pending target.
LEMMA CurrentEvent ==
  ASSUME IInv, Working
  PROVE  /\ run \in NewRuns /\ run # Idle
         /\ Event \in run.queue /\ Event \in DOMAIN events /\ events[Event].open
         /\ run.todo # {} => Target \in run.todo /\ Target \in Subs
                             /\ Target \in PendingTargets(events[Event])
<1>1. run # Idle
  BY DEF Working, Idle
<1>2. run \in NewRuns /\ run.queue # {} /\ run.queue \subseteq DOMAIN events
  BY <1>1 DEF IInv, TypeOK, Working
<1>3. run.queue \subseteq Nat /\ run.todo \subseteq Subs /\ run.todo \subseteq Nat
  BY <1>2, Parameters DEF NewRuns
<1>4. Event \in run.queue
  BY <1>2, <1>3, FirstIsMember DEF Event
<1>5. events[Event].open
  BY <1>1, <1>4 DEF IInv, QueueIsOpen, OpenEvents
<1>6. ASSUME run.todo # {} PROVE Target \in run.todo
  BY <1>3, <1>6, FirstIsMember DEF Target
<1> QED
  BY <1>1, <1>2, <1>3, <1>4, <1>5, <1>6 DEF IInv, TodoIsPending
-----------------------------------------------------------------------------
(* mark_target *)

\* Marking a target changes its status and nothing else in the store.
LEMMA MarkEffect ==
  ASSUME IInv, Working, run.todo # {}, NEW status \in TargetStatus, Mark(status)
  PROVE  /\ events' \in Seq(EventRecords) /\ Len(events') = Len(events)
         /\ DOMAIN events' = DOMAIN events
         /\ \A e \in DOMAIN events : e # Event => events'[e] = events[e]
         /\ events'[Event] = [events[Event] EXCEPT !.targets[Target] = status]
<1>1. Event \in DOMAIN events /\ Target \in Subs /\ events \in Seq(EventRecords)
  BY CurrentEvent DEF IInv, TypeOK
<1>2. events[Event] \in EventRecords
  BY <1>1
<1> DEFINE marked == [events[Event] EXCEPT !.targets[Target] = status]
<1>3. marked \in EventRecords
  BY <1>1, <1>2 DEF EventRecords
<1>4. events' = [events EXCEPT ![Event] = marked]
  BY DEF Mark
<1> QED
  BY <1>1, <1>3, <1>4, Replaced

\* So the invariant's parts about the store survive, and only a pending target of
\* an open event is touched.
LEMMA MarkKeeps ==
  ASSUME IInv, Working, run.todo # {}, NEW status \in TargetStatus, Mark(status)
  PROVE  /\ CompleteMeansSettled'
         /\ OpenEvents(events') = OpenEvents(events)
         /\ PendingTargets(events[Event]) \ {Target} \subseteq PendingTargets(events'[Event])
         /\ status \notin Settled => PendingTargets(events[Event]) \subseteq PendingTargets(events'[Event])
         /\ \A e \in DOMAIN events : /\ events'[e].account = events[e].account
                                     /\ events'[e].resetAt = events[e].resetAt
                                     /\ events'[e].open = events[e].open
         /\ \A e \in DOMAIN events, s \in Subs :
              events[e].targets[s] \in Settled \union {"none"}
                => events'[e].targets[s] = events[e].targets[s]
<1>1. /\ Event \in DOMAIN events /\ Target \in Subs /\ events[Event].open
      /\ Target \in PendingTargets(events[Event])
      /\ events \in Seq(EventRecords) /\ events[Event] \in EventRecords
  BY CurrentEvent DEF IInv, TypeOK
<1>2. /\ DOMAIN events' = DOMAIN events
      /\ \A e \in DOMAIN events : e # Event => events'[e] = events[e]
      /\ events'[Event] = [events[Event] EXCEPT !.targets[Target] = status]
  BY MarkEffect
<1>3. /\ events'[Event].account = events[Event].account
      /\ events'[Event].resetAt = events[Event].resetAt
      /\ events'[Event].open = events[Event].open
      /\ events'[Event].targets = [events[Event].targets EXCEPT ![Target] = status]
      /\ events[Event].targets \in [Subs -> TargetStatus \union {"none"}]
  BY <1>1, <1>2 DEF EventRecords
<1>4. \A s \in Subs : events'[Event].targets[s] = IF s = Target THEN status ELSE events[Event].targets[s]
  BY <1>3
<1>5. \A e \in DOMAIN events : events'[e].open = events[e].open
  BY <1>2, <1>3
<1>6. OpenEvents(events') = OpenEvents(events)
  BY <1>2, <1>5 DEF OpenEvents
<1>7. CompleteMeansSettled'
  BY <1>1, <1>2, <1>3 DEF IInv, CompleteMeansSettled, PendingTargets
<1>8. PendingTargets(events[Event]) \ {Target} \subseteq PendingTargets(events'[Event])
  BY <1>4 DEF PendingTargets
<1>9. status \notin Settled => PendingTargets(events[Event]) \subseteq PendingTargets(events'[Event])
  BY <1>4 DEF PendingTargets, TargetStatus
<1>10. ASSUME NEW e \in DOMAIN events, NEW s \in Subs, events[e].targets[s] \in Settled \union {"none"}
       PROVE  events'[e].targets[s] = events[e].targets[s]
  BY <1>1, <1>2, <1>4, <1>10 DEF PendingTargets
<1> QED
  BY <1>2, <1>3, <1>5, <1>6, <1>7, <1>8, <1>9, <1>10
-----------------------------------------------------------------------------
(* Steps that leave the store alone *)

\* The world moves on.
LEMMA WorldInv ==
  ASSUME IInv, World
  PROVE  IInv'
<1>1. UNCHANGED <<rows, events, run, late, faults, clears>>
  BY DEF World
<1>2. /\ now' \in 0..MaxTime /\ Started'
      /\ account' \in [Accounts -> [start : 0..MaxTime, used : {0, HighUsed}]]
  <2> USE Parameters DEF IInv, TypeOK, Started
  <2>1. CASE Tick
    BY <2>1 DEF Tick
  <2>2. CASE \E a \in Accounts : Spend(a)
    BY <2>2 DEF Spend
  <2>3. CASE \E a \in Accounts : RollOver(a)
    BY <2>3 DEF RollOver
  <2>4. CASE UNCHANGED <<now, account>>
    BY <2>4
  <2> QED
    BY <2>1, <2>2, <2>3, <2>4 DEF World, Consume, ChangeStatus
<1>3. subs' \in [Subs -> [status : {"active", "inactive", "gone"}, spent : BOOLEAN,
                         window : [Windows -> Int \union {Absent}]]]
  <2> DEFINE Sub == [status : {"active", "inactive", "gone"}, spent : BOOLEAN,
                     window : [Windows -> Int \union {Absent}]]
  <2>1. subs \in [Subs -> Sub] /\ now \in Int
    BY DEF IInv, TypeOK
  <2>2. ASSUME NEW s \in Subs, Consume(s) PROVE subs' \in [Subs -> Sub]
    <3> DEFINE Running(w) == subs[s].window[w] # Absent
                  /\ now < subs[s].window[w] + (IF w = "weekly" THEN Week ELSE Month)
               started == [w \in Windows |-> IF Running(w) THEN subs[s].window[w] ELSE now]
    <3>1. started \in [Windows -> Int \union {Absent}]
      BY <2>1
    <3>2. subs' = [subs EXCEPT ![s].spent = TRUE, ![s].window = started]
      BY <2>2 DEF Consume
    <3> HIDE DEF started
    <3> QED
      BY <2>1, <3>1, <3>2
  <2>3. ASSUME NEW s \in Subs, NEW st \in {"active", "inactive", "gone"}, ChangeStatus(s, st)
        PROVE  subs' \in [Subs -> Sub]
    BY <2>1, <2>3 DEF ChangeStatus
  <2>4. CASE UNCHANGED subs
    BY <2>1, <2>4
  <2> QED
    BY <2>2, <2>3, <2>4 DEF World, Tick, Spend, RollOver
<1>4. TypeOK'
  BY <1>1, <1>2, <1>3 DEF IInv, TypeOK
<1> QED
  BY <1>1, <1>2, <1>4 DEF IInv, QueueIsOpen, TodoIsPending, CompleteMeansSettled, Working, Event

\* A run ends, in whatever state it was.
LEMMA AbortInv ==
  ASSUME IInv, SnapshotFails \/ Crash
  PROVE  IInv'
<1>1. run' = Idle /\ UNCHANGED <<now, account, subs, rows, events, late, clears>>
  BY DEF SnapshotFails, Crash
<1>2. faults' \in 0..MaxFaults
  BY Parameters DEF SnapshotFails, Crash, Faulty, IInv, TypeOK
<1>3. Idle.at = "idle"
  BY DEF Idle
<1> QED
  BY <1>1, <1>2, <1>3 DEF IInv, TypeOK, Started, QueueIsOpen, TodoIsPending, CompleteMeansSettled, Working
-----------------------------------------------------------------------------
(* Going from event to event *)

\* What Advance takes up is open and has only pending targets to do.
LEMMA AdvanceResult ==
  ASSUME NEW r \in NewRuns, NEW evs \in Seq(EventRecords), r.queue \subseteq OpenEvents(evs),
         NEW new, new = Advance(r, evs)
  PROVE  /\ new \in NewRuns \union {Idle}
         /\ new # Idle => new.queue \subseteq OpenEvents(evs)
         /\ new.at \notin {"post", "reply"}
         /\ new.at = "target" => new.queue # {} /\ new.todo = PendingTargets(evs[First(new.queue)])
<1>1. Idle.at = "idle"
  BY DEF Idle
<1>2. CASE r.queue # {}
  <2>1. PendingTargets(evs[First(r.queue)]) \in SUBSET Subs
    BY DEF PendingTargets
  <2>2. new = [r EXCEPT !.at = "target", !.todo = PendingTargets(evs[First(r.queue)])]
    BY <1>2 DEF Advance
  <2> QED
    BY <1>1, <1>2, <2>1, <2>2 DEF NewRuns
<1>3. CASE r.queue = {} /\ r.pass = 1
  BY <1>1, <1>3 DEF Advance, NewRuns
<1>4. CASE r.queue = {} /\ r.pass # 1
  BY <1>1, <1>4 DEF Advance
<1> QED
  BY <1>2, <1>3, <1>4

\* A run that has just been advanced satisfies what the invariant says of runs.
LEMMA AdvancedRun ==
  ASSUME NEW r \in NewRuns, events' \in Seq(EventRecords), r.queue \subseteq OpenEvents(events'),
         run' = Advance(r, events')
  PROVE  /\ run' \in NewRuns \union {Idle}
         /\ run' # Idle => run'.queue \subseteq DOMAIN events'
         /\ run'.at \in {"target", "post", "reply"} => run'.queue # {}
         /\ run'.at \in {"post", "reply"} => run'.todo # {}
         /\ QueueIsOpen' /\ TodoIsPending'
<1>1. /\ run' \in NewRuns \union {Idle}
      /\ run' # Idle => run'.queue \subseteq OpenEvents(events')
      /\ run'.at \notin {"post", "reply"}
      /\ run'.at = "target" => run'.queue # {} /\ run'.todo = PendingTargets(events'[First(run'.queue)])
  BY AdvanceResult
<1>2. OpenEvents(events') \subseteq DOMAIN events'
  BY DEF OpenEvents
<1> QED
  BY <1>1, <1>2 DEF QueueIsOpen, TodoIsPending, Working, Event

\* A run starts.
LEMMA StartInv ==
  ASSUME IInv, NEW dry \in DryRuns, Start(dry)
  PROVE  IInv'
<1> DEFINE r == [at |-> "account", dry |-> dry, eligible |-> {s \in Subs : Eligible(s)},
                 pass |-> 1, queue |-> {}, todo |-> {}, reply |-> "none", next |-> 1]
           q == [r EXCEPT !.queue = OpenEvents(events)]
<1>1. UNCHANGED <<now, account, subs, rows, events, late, faults, clears>>
  BY DEF Start
<1>2. AccountIds # <<>> /\ AccountIds \in Seq(Accounts) /\ dry \in BOOLEAN
  BY SyncAssumption
<1>3. events \in Seq(EventRecords) /\ OpenEvents(events) \subseteq Nat
  BY DEF IInv, TypeOK, OpenEvents
<1>4. 1 \in 1..Len(AccountIds)
  BY <1>2, EmptySeq, LenProperties
<1>5. r \in NewRuns /\ q \in NewRuns /\ q.queue = OpenEvents(events)
  BY <1>2, <1>3, <1>4 DEF NewRuns
<1>6. run' = IF dry THEN r ELSE Advance(q, events)
  BY DEF Start
<1>7. /\ run' \in NewRuns \union {Idle}
      /\ run' # Idle => run'.queue \subseteq DOMAIN events'
      /\ run'.at \in {"target", "post", "reply"} => run'.queue # {}
      /\ run'.at \in {"post", "reply"} => run'.todo # {}
      /\ QueueIsOpen' /\ TodoIsPending'
  <2>1. CASE dry
    BY <1>5, <1>6, <2>1 DEF QueueIsOpen, TodoIsPending, Working
  <2>2. CASE ~dry
    <3>1. run' = Advance(q, events') /\ events' \in Seq(EventRecords) /\ q.queue \subseteq OpenEvents(events')
      BY <1>1, <1>3, <1>5, <1>6, <2>2
    <3> HIDE DEF q
    <3> QED
      BY <1>5, <3>1, AdvancedRun
  <2> QED
    BY <2>1, <2>2
<1> QED
  BY <1>1, <1>7 DEF IInv, TypeOK, Started, CompleteMeansSettled

\* The last target of an event has been worked off.
LEMMA FinishEventInv ==
  ASSUME IInv, FinishEvent
  PROVE  /\ IInv'
         /\ DOMAIN events' = DOMAIN events
         /\ \A e \in DOMAIN events : /\ events'[e].account = events[e].account
                                     /\ events'[e].resetAt = events[e].resetAt
                                     /\ events'[e].targets = events[e].targets
         /\ \A e \in DOMAIN events : ~events[e].open => ~events'[e].open
<1>1. Working /\ UNCHANGED <<now, account, subs, rows, late, faults, clears>>
  BY DEF FinishEvent, Working
<1>2. /\ run \in NewRuns /\ run # Idle
      /\ Event \in run.queue /\ Event \in DOMAIN events /\ events[Event].open
      /\ events \in Seq(EventRecords)
  BY <1>1, CurrentEvent DEF IInv, TypeOK
<1>3. PICK unfinished \in BOOLEAN : unfinished = (PendingTargets(events[Event]) # {})
  BY Zenon
<1> DEFINE finished == [events[Event] EXCEPT !.open = unfinished]
<1>4. events[Event] \in EventRecords
  BY <1>2
<1>5. finished \in EventRecords
  BY <1>4 DEF EventRecords
<1>6. events' = [events EXCEPT ![Event] = finished]
  BY <1>3, Zenon DEF FinishEvent
<1>7. /\ events' \in Seq(EventRecords) /\ Len(events') = Len(events) /\ DOMAIN events' = DOMAIN events
      /\ events'[Event] = finished /\ \A e \in DOMAIN events : e # Event => events'[e] = events[e]
  <2> HIDE DEF finished
  <2> QED
    BY <1>2, <1>5, <1>6, Replaced
<1>8. \A e \in DOMAIN events : /\ events'[e].account = events[e].account
                              /\ events'[e].resetAt = events[e].resetAt
                              /\ events'[e].targets = events[e].targets
  BY <1>4, <1>7 DEF EventRecords
<1>9. events'[Event].open = unfinished
  BY <1>4, <1>7 DEF EventRecords
<1>10. \A e \in DOMAIN events : ~events[e].open => ~events'[e].open
  BY <1>2, <1>7
<1>11. CompleteMeansSettled'
  <2>1. ASSUME NEW e \in DOMAIN events, e # Event, ~events'[e].open
        PROVE  PendingTargets(events'[e]) = {}
    BY <1>7, <2>1 DEF IInv, CompleteMeansSettled
  <2>2. ASSUME ~events'[Event].open
        PROVE  PendingTargets(events'[Event]) = {}
    <3>1. PendingTargets(events[Event]) = {}
      BY <1>3, <1>9, <2>2, Zenon
    <3> QED
      BY <1>2, <1>8, <3>1 DEF PendingTargets
  <2> QED
    BY <1>7, <2>1, <2>2 DEF CompleteMeansSettled
<1> DEFINE r == [run EXCEPT !.queue = @ \ {Event}]
<1>12. r \in NewRuns /\ r.queue \subseteq OpenEvents(events')
  BY <1>2, <1>7 DEF NewRuns, IInv, QueueIsOpen, OpenEvents
<1>13. run' = Advance(r, events')
  BY DEF FinishEvent
<1>14. /\ run' \in NewRuns \union {Idle}
       /\ run' # Idle => run'.queue \subseteq DOMAIN events'
       /\ run'.at \in {"target", "post", "reply"} => run'.queue # {}
       /\ run'.at \in {"post", "reply"} => run'.todo # {}
       /\ QueueIsOpen' /\ TodoIsPending'
  <2> HIDE DEF r
  <2> QED
    BY <1>7, <1>12, <1>13, AdvancedRun
<1>15. TypeOK' /\ Started'
  BY <1>1, <1>7, <1>14 DEF IInv, TypeOK, Started
<1>16. IInv'
  BY <1>11, <1>14, <1>15 DEF IInv
<1> QED
  BY <1>7, <1>8, <1>10, <1>16
-----------------------------------------------------------------------------
(* One target *)

\* Marking the target and going on to the next one.
LEMMA MarkAndNext ==
  ASSUME IInv, Working, run.todo # {}, NEW status \in TargetStatus, Mark(status), NextTarget,
         UNCHANGED <<now, account, rows, late>>,
         subs' \in [Subs -> [status : {"active", "inactive", "gone"}, spent : BOOLEAN,
                           window : [Windows -> Int \union {Absent}]]],
         faults' \in 0..MaxFaults, UNCHANGED clears
  PROVE  IInv'
<1>1. /\ run \in NewRuns /\ run # Idle /\ Event \in run.queue /\ Event \in DOMAIN events
      /\ run.todo \subseteq PendingTargets(events[Event])
      /\ run.queue \subseteq OpenEvents(events) /\ run.queue \subseteq DOMAIN events
  BY CurrentEvent DEF IInv, TodoIsPending, QueueIsOpen, OpenEvents
<1>2. /\ events' \in Seq(EventRecords) /\ Len(events') = Len(events) /\ DOMAIN events' = DOMAIN events
  BY MarkEffect
<1>3. /\ CompleteMeansSettled' /\ OpenEvents(events') = OpenEvents(events)
      /\ PendingTargets(events[Event]) \ {Target} \subseteq PendingTargets(events'[Event])
  BY MarkKeeps
<1>4. /\ run' \in NewRuns /\ run'.queue = run.queue /\ run'.at = "target"
      /\ run'.todo = run.todo \ {Target}
  BY <1>1 DEF NextTarget, NewRuns
<1>5. Event' = Event
  BY <1>4 DEF Event
<1>6. QueueIsOpen' /\ TodoIsPending'
  BY <1>1, <1>3, <1>4, <1>5 DEF QueueIsOpen, TodoIsPending
<1>7. TypeOK' /\ Started'
  BY <1>1, <1>2, <1>4 DEF IInv, TypeOK, Started
<1> QED
  BY <1>3, <1>6, <1>7 DEF IInv

\* GET, and what follows from it.
LEMMA FetchTargetInv ==
  ASSUME IInv, FetchTarget
  PROVE  IInv'
<1>1. /\ Working /\ run.todo # {} /\ run.at = "target"
      /\ UNCHANGED <<now, account, subs, rows, late, faults, clears>>
  BY DEF FetchTarget, Working
<1>2. CASE Mark("processing") /\ run' = [run EXCEPT !.at = "post"]
  <2>1. /\ run \in NewRuns /\ run # Idle /\ Event \in run.queue /\ Event \in DOMAIN events
        /\ run.todo \subseteq PendingTargets(events[Event])
        /\ run.queue \subseteq OpenEvents(events) /\ run.queue \subseteq DOMAIN events
    BY <1>1, CurrentEvent DEF IInv, TodoIsPending, QueueIsOpen, OpenEvents
  <2>2. "processing" \in TargetStatus /\ "processing" \notin Settled
    BY DEF TargetStatus, Settled
  <2>3. events' \in Seq(EventRecords) /\ Len(events') = Len(events) /\ DOMAIN events' = DOMAIN events
    BY <1>1, <1>2, <2>2, MarkEffect
  <2>4. /\ CompleteMeansSettled' /\ OpenEvents(events') = OpenEvents(events)
        /\ PendingTargets(events[Event]) \subseteq PendingTargets(events'[Event])
    BY <1>1, <1>2, <2>2, MarkKeeps
  <2>5. /\ run' \in NewRuns /\ run'.queue = run.queue /\ run'.at = "post" /\ run'.todo = run.todo
    BY <1>2, <2>1 DEF NewRuns
  <2>6. Event' = Event
    BY <2>5 DEF Event
  <2>7. QueueIsOpen' /\ TodoIsPending'
    BY <2>1, <2>4, <2>5, <2>6 DEF QueueIsOpen, TodoIsPending
  <2>8. TypeOK' /\ Started'
    BY <1>1, <2>1, <2>3, <2>5 DEF IInv, TypeOK, Started
  <2> QED
    BY <2>4, <2>7, <2>8 DEF IInv
<1>3. CASE \E status \in {"done", "skipped"} : Mark(status) /\ NextTarget
  <2>1. PICK status \in {"done", "skipped"} : Mark(status) /\ NextTarget
    BY <1>3
  <2>2. status \in TargetStatus
    BY DEF TargetStatus
  <2>3. subs' \in [Subs -> [status : {"active", "inactive", "gone"}, spent : BOOLEAN,
                           window : [Windows -> Int \union {Absent}]]] /\ faults' \in 0..MaxFaults
    BY <1>1 DEF IInv, TypeOK
  <2> QED
    BY <1>1, <2>1, <2>2, <2>3, MarkAndNext
<1> QED
  BY <1>2, <1>3 DEF FetchTarget

\* A GET that fails marks the target and leaves it for a later run.
LEMMA FetchFailsInv ==
  ASSUME IInv, FetchFails
  PROVE  IInv'
<1>1. /\ Working /\ run.todo # {} /\ Mark("failed") /\ NextTarget
      /\ UNCHANGED <<now, account, subs, rows, late, clears>>
  BY DEF FetchFails, Working
<1>2. "failed" \in TargetStatus
  BY DEF TargetStatus
<1>3. subs' \in [Subs -> [status : {"active", "inactive", "gone"}, spent : BOOLEAN,
                         window : [Windows -> Int \union {Absent}]]] /\ faults' \in 0..MaxFaults
  BY <1>1, Parameters DEF FetchFails, Faulty, IInv, TypeOK
<1> QED
  BY <1>1, <1>2, <1>3, MarkAndNext

\* Whatever the answer was, the target is marked once.
LEMMA HandleReplyInv ==
  ASSUME IInv, HandleReply
  PROVE  IInv'
<1>1. /\ Working /\ run.todo # {} /\ NextTarget
      /\ UNCHANGED <<now, account, subs, rows, late, faults, clears>>
  BY DEF HandleReply, Working, IInv, TypeOK
<1>2. PICK status \in {"skipped", "done", "failed"} : Mark(status)
  BY DEF HandleReply
<1>3. status \in TargetStatus
  BY DEF TargetStatus
<1>4. subs' \in [Subs -> [status : {"active", "inactive", "gone"}, spent : BOOLEAN,
                         window : [Windows -> Int \union {Absent}]]] /\ faults' \in 0..MaxFaults
  BY <1>1 DEF IInv, TypeOK
<1> QED
  BY <1>1, <1>2, <1>3, <1>4, MarkAndNext
-----------------------------------------------------------------------------
(* The host's side of a POST *)

\* A POST the host carries out leaves subscriptions and counts well-formed.
LEMMA HostEffect ==
  ASSUME IInv, NEW e \in DOMAIN events, NEW s \in Subs, NEW answer, HostResets(e, s, answer)
  PROVE  /\ subs' \in [Subs -> [status : {"active", "inactive", "gone"}, spent : BOOLEAN,
                              window : [Windows -> Int \union {Absent}]]]
         /\ clears' \in Seq([Subs -> 0..2]) /\ Len(clears') = Len(clears)
<1> DEFINE Sub == [status : {"active", "inactive", "gone"}, spent : BOOLEAN,
                   window : [Windows -> Int \union {Absent}]]
           resetAt == events[e].resetAt
           sub == ResetBy(subs[s], resetAt)
<1>1. /\ subs \in [Subs -> Sub] /\ now \in Int /\ Week \in Nat
      /\ clears \in Seq([Subs -> 0..2]) /\ Len(clears) = Len(events) /\ events \in Seq(EventRecords)
  BY Parameters DEF IInv, TypeOK
<1>2. resetAt \in Int
  <2>1. events[e] \in EventRecords
    BY <1>1
  <2> QED
    BY <2>1 DEF EventRecords
<1>3. sub \in Sub
  <2> DEFINE anchors == [w \in Windows |-> IF Aligns THEN resetAt - Week ELSE now]
  <2>1. anchors \in [Windows -> Int \union {Absent}]
    BY <1>1, <1>2
  <2>2. sub = subs[s] \/ sub = [subs[s] EXCEPT !.spent = FALSE, !.window = anchors]
    BY DEF ResetBy
  <2> HIDE DEF anchors
  <2> QED
    BY <1>1, <2>1, <2>2
<1>4. CASE Accepts(s, resetAt)
  <2>1. subs' = [subs EXCEPT ![s] = sub]
    BY <1>4 DEF HostResets
  <2>2. e \in DOMAIN clears /\ clears[e] \in [Subs -> 0..2]
    BY <1>1
  <2>3. PICK count \in 0..2 : clears' = [clears EXCEPT ![e] = [clears[e] EXCEPT ![s] = count]]
    <3>1. clears[e][s] \in 0..2
      BY <2>2
    <3>2. clears' = [clears EXCEPT ![e] = [clears[e] EXCEPT ![s] =
                       IF sub = subs[s] \/ clears[e][s] = 2 THEN clears[e][s] ELSE clears[e][s] + 1]]
      BY <1>4 DEF HostResets
    <3>3. (IF sub = subs[s] \/ clears[e][s] = 2 THEN clears[e][s] ELSE clears[e][s] + 1) \in 0..2
      BY <3>1
    <3> HIDE DEF sub
    <3> QED
      BY <3>2, <3>3
  <2>4. [clears[e] EXCEPT ![s] = count] \in [Subs -> 0..2]
    BY <2>2
  <2>5. clears' \in Seq([Subs -> 0..2]) /\ Len(clears') = Len(clears)
    BY <1>1, <2>2, <2>3, <2>4, Replaced
  <2> HIDE DEF sub
  <2> QED
    BY <1>1, <1>3, <2>1, <2>5
<1>5. CASE ~Accepts(s, resetAt)
  BY <1>1, <1>5 DEF HostResets
<1> QED
  BY <1>4, <1>5

\* Going from one step of a target to the next, with the store left alone.
LEMMA PostStep ==
  ASSUME IInv, Working, run.todo # {}, NEW answer \in Answers,
         run' = [run EXCEPT !.at = "reply", !.reply = answer],
         UNCHANGED <<now, account, rows, events>>,
         subs' \in [Subs -> [status : {"active", "inactive", "gone"}, spent : BOOLEAN,
                           window : [Windows -> Int \union {Absent}]]],
         clears' \in Seq([Subs -> 0..2]), Len(clears') = Len(clears),
         faults' \in 0..MaxFaults, late' \subseteq (DOMAIN events) \X Subs
  PROVE  IInv'
<1>1. /\ run \in NewRuns /\ run # Idle /\ Event \in run.queue
      /\ run.todo \subseteq PendingTargets(events[Event])
      /\ run.queue \subseteq OpenEvents(events) /\ run.queue \subseteq DOMAIN events
  BY CurrentEvent DEF IInv, TodoIsPending, QueueIsOpen, OpenEvents
<1>2. /\ run' \in NewRuns /\ run'.queue = run.queue /\ run'.at = "reply" /\ run'.todo = run.todo
  BY <1>1 DEF NewRuns
<1>3. Event' = Event
  BY <1>2 DEF Event
<1>4. QueueIsOpen' /\ TodoIsPending'
  BY <1>1, <1>2, <1>3 DEF QueueIsOpen, TodoIsPending
<1>5. TypeOK' /\ Started'
  BY <1>1, <1>2 DEF IInv, TypeOK, Started
<1> QED
  BY <1>4, <1>5 DEF IInv, CompleteMeansSettled

\* A POST that is answered: the host changes, the store does not.
LEMMA PostInv ==
  ASSUME IInv, Post
  PROVE  IInv'
<1>1. Working /\ run.todo # {} /\ UNCHANGED <<now, account, rows, events, late, faults>>
  BY DEF Post, Working, IInv, TypeOK
<1>2. PICK answer \in Answers : /\ HostResets(Event, Target, answer)
                               /\ run' = [run EXCEPT !.at = "reply", !.reply = answer]
  BY DEF Post
<1>3. Event \in DOMAIN events /\ Target \in Subs
  BY <1>1, CurrentEvent
<1>4. /\ subs' \in [Subs -> [status : {"active", "inactive", "gone"}, spent : BOOLEAN,
                           window : [Windows -> Int \union {Absent}]]]
      /\ clears' \in Seq([Subs -> 0..2]) /\ Len(clears') = Len(clears)
  BY <1>2, <1>3, HostEffect
<1>5. faults' \in 0..MaxFaults /\ late' \subseteq (DOMAIN events) \X Subs
  BY <1>1 DEF IInv, TypeOK
<1> QED
  BY <1>1, <1>2, <1>4, <1>5, PostStep

\* A POST whose answer is lost, with or without effect, now or later.
LEMMA PostFailsInv ==
  ASSUME IInv, PostFails
  PROVE  IInv'
<1>1. /\ Working /\ run.todo # {} /\ UNCHANGED <<now, account, rows, events>>
      /\ "error" \in Answers /\ run' = [run EXCEPT !.at = "reply", !.reply = "error"]
  BY DEF PostFails, Working, Answers, IInv, TypeOK
<1>2. Event \in DOMAIN events /\ Target \in Subs
  BY <1>1, CurrentEvent
<1>3. faults' \in 0..MaxFaults
  BY Parameters DEF PostFails, Faulty, IInv, TypeOK
<1>4. /\ subs' \in [Subs -> [status : {"active", "inactive", "gone"}, spent : BOOLEAN,
                           window : [Windows -> Int \union {Absent}]]]
      /\ clears' \in Seq([Subs -> 0..2]) /\ Len(clears') = Len(clears)
      /\ late' \subseteq (DOMAIN events) \X Subs
  <2>1. CASE UNCHANGED <<subs, clears, late>>
    BY <2>1 DEF IInv, TypeOK
  <2>2. CASE \E answer \in Answers : HostResets(Event, Target, answer) /\ UNCHANGED late
    <3>1. PICK answer \in Answers : HostResets(Event, Target, answer) /\ UNCHANGED late
      BY <2>2
    <3>2. late' \subseteq (DOMAIN events) \X Subs
      BY <3>1 DEF IInv, TypeOK
    <3> QED
      BY <1>2, <3>1, <3>2, HostEffect
  <2>3. CASE late' = late \union {<<Event, Target>>} /\ UNCHANGED <<subs, clears>>
    BY <1>2, <2>3 DEF IInv, TypeOK
  <2> QED
    BY <2>1, <2>2, <2>3 DEF PostFails
<1> QED
  BY <1>1, <1>3, <1>4, PostStep

\* A request that was given up on arrives.
LEMMA LatePostInv ==
  ASSUME IInv, LatePost
  PROVE  IInv'
<1>1. UNCHANGED <<now, account, rows, events, run, faults>> /\ late' \subseteq late
  BY DEF LatePost
<1>2. PICK p \in late : \E answer \in Answers : HostResets(p[1], p[2], answer)
  BY DEF LatePost
<1>3. p[1] \in DOMAIN events /\ p[2] \in Subs
  BY DEF IInv, TypeOK
<1>4. /\ subs' \in [Subs -> [status : {"active", "inactive", "gone"}, spent : BOOLEAN,
                           window : [Windows -> Int \union {Absent}]]]
      /\ clears' \in Seq([Subs -> 0..2]) /\ Len(clears') = Len(clears)
  BY <1>2, <1>3, HostEffect
<1>5. TypeOK' /\ Started'
  BY <1>1, <1>4 DEF IInv, TypeOK, Started
<1> QED
  BY <1>1, <1>5 DEF IInv, QueueIsOpen, TodoIsPending, CompleteMeansSettled, Working, Event
-----------------------------------------------------------------------------
(* Looking at an account *)

\* What write_observation and _upsert_state write is a row.
LEMMA RowsWritten ==
  ASSUME NEW r \in Row \union {NoRow}, NEW s \in Snapshot, NEW u
  PROVE  ObservedRow(r, s, u) \in Row /\ ConfirmedRow(r, s) \in Row
<1>1. s.resetAt \in Int /\ s.sampleAt \in Int /\ s.used \in Reading /\ s.cost \in Reading
  BY DEF Snapshot
<1>2. r # NoRow => r.resetAt \in Int /\ r.cost \in Reading
  BY DEF Row
<1> QED
  BY <1>1, <1>2 DEF ObservedRow, ConfirmedRow, Row, KeptCost, Later

\* What looking at an account does to the store: it adds to it, and writes a row.
LEMMA CheckEffect ==
  ASSUME IInv, CheckAccount
  PROVE  /\ rows' \in [Accounts -> Row \union {NoRow}]
         /\ events' \in Seq(EventRecords)
         /\ clears' \in Seq([Subs -> 0..2]) /\ Len(clears') = Len(events')
         /\ DOMAIN events \subseteq DOMAIN events'
         /\ \A e \in DOMAIN events : events'[e] = events[e]
         /\ OpenEvents(events) \subseteq OpenEvents(events')
         /\ CompleteMeansSettled'
<1> DEFINE a == AccountIds[run.next]
           s == Published(a)
<1>1. /\ run \in NewRuns /\ rows \in [Accounts -> Row \union {NoRow}]
      /\ events \in Seq(EventRecords) /\ clears \in Seq([Subs -> 0..2]) /\ Len(clears) = Len(events)
  <2>1. run # Idle
    BY DEF CheckAccount, Idle
  <2> QED
    BY <2>1 DEF IInv, TypeOK
<1>2. a \in Accounts
  BY <1>1, SyncAssumption DEF NewRuns, Accounts
<1>3. s \in Snapshot /\ s.resetAt \in Int
  BY <1>2, PublishedIsSnapshot DEF IInv, Snapshot
<1>4. rows[a] \in Row \union {NoRow}
  BY <1>1, <1>2
<1>5. rows' \in [Accounts -> Row \union {NoRow}]
  <2>1. PICK new \in Row \union {NoRow} : rows' = [rows EXCEPT ![a] = new] \/ rows' = rows
    <3>1. /\ \A u : ObservedRow(rows[a], s, u) \in Row
          /\ ConfirmedRow(rows[a], s) \in Row
      BY <1>3, <1>4, RowsWritten
    <3>2. \/ \E u : rows' = [rows EXCEPT ![a] = ObservedRow(rows[a], s, u)]
          \/ rows' = [rows EXCEPT ![a] = ConfirmedRow(rows[a], s)]
          \/ rows' = rows
      BY DEF CheckAccount, CreateEvent
    <3> HIDE DEF s, a
    <3> QED
      BY <3>1, <3>2
  <2> QED
    BY <1>1, <1>2, <2>1
<1>6. \/ UNCHANGED <<events, clears>>
      \/ events' = Append(events, NewEvent(a, s)) /\ clears' = Append(clears, [x \in Subs |-> 0])
  BY DEF CheckAccount, CreateEvent
<1>7. NewEvent(a, s) \in EventRecords /\ NewEvent(a, s).open
  <2>1. [x \in Subs |-> IF x \in run.eligible THEN "pending" ELSE "none"]
          \in [Subs -> TargetStatus \union {"none"}]
    BY DEF TargetStatus
  <2> HIDE DEF a, s
  <2> QED
    BY <1>2, <1>3, <2>1 DEF NewEvent, EventRecords
<1>8. [x \in Subs |-> 0] \in [Subs -> 0..2]
  OBVIOUS
<1>9. CASE UNCHANGED <<events, clears>>
  BY <1>1, <1>5, <1>9 DEF IInv, CompleteMeansSettled
<1>10. CASE events' = Append(events, NewEvent(a, s)) /\ clears' = Append(clears, [x \in Subs |-> 0])
  <2> HIDE DEF a, s
  <2>1. /\ events' \in Seq(EventRecords) /\ Len(events') = Len(events) + 1
        /\ \A e \in 1..Len(events) : events'[e] = events[e]
        /\ events'[Len(events) + 1] = NewEvent(a, s)
    BY <1>1, <1>7, <1>10, AppendProperties
  <2>2. clears' \in Seq([Subs -> 0..2]) /\ Len(clears') = Len(clears) + 1
    BY <1>1, <1>8, <1>10, AppendProperties
  <2>3. DOMAIN events = 1..Len(events) /\ DOMAIN events' = 1..(Len(events) + 1) /\ Len(events) \in Nat
    BY <1>1, <2>1, LenProperties
  <2>4. DOMAIN events' = DOMAIN events \union {Len(events) + 1}
    BY <2>3
  <2>5. CompleteMeansSettled'
    BY <1>7, <2>1, <2>3, <2>4 DEF IInv, CompleteMeansSettled
  <2>6. OpenEvents(events) \subseteq OpenEvents(events')
    BY <2>1, <2>3, <2>4 DEF OpenEvents
  <2> QED
    BY <1>1, <1>5, <2>1, <2>2, <2>3, <2>4, <2>5, <2>6
<1> QED
  BY <1>6, <1>9, <1>10

\* One account looked at, and the next one or the second pass after it.
LEMMA CheckAccountInv ==
  ASSUME IInv, CheckAccount
  PROVE  IInv'
<1>1. /\ rows' \in [Accounts -> Row \union {NoRow}]
      /\ events' \in Seq(EventRecords)
      /\ clears' \in Seq([Subs -> 0..2]) /\ Len(clears') = Len(events')
      /\ DOMAIN events \subseteq DOMAIN events'
      /\ OpenEvents(events) \subseteq OpenEvents(events')
      /\ CompleteMeansSettled'
  BY CheckEffect
<1>2. /\ run \in NewRuns /\ run # Idle /\ run.at = "account"
      /\ run.queue \subseteq DOMAIN events /\ run.queue \subseteq OpenEvents(events)
  <2>1. run.at = "account" /\ run # Idle
    BY DEF CheckAccount, Idle
  <2> QED
    BY <2>1 DEF IInv, TypeOK, QueueIsOpen
<1>3. /\ run' \in NewRuns \union {Idle}
      /\ run' # Idle => run'.queue \subseteq DOMAIN events'
      /\ run'.at \in {"target", "post", "reply"} => run'.queue # {}
      /\ run'.at \in {"post", "reply"} => run'.todo # {}
      /\ QueueIsOpen' /\ TodoIsPending'
  <2>1. NextAccount(events')
    BY DEF CheckAccount
  <2>2. CASE run.next < Len(AccountIds)
    <3>1. Len(AccountIds) \in Nat /\ run' = [run EXCEPT !.next = run.next + 1]
      BY <2>1, <2>2, SyncAssumption, LenProperties DEF NextAccount
    <3>2. /\ run' \in NewRuns /\ run'.at = "account" /\ run'.queue = run.queue
      BY <1>2, <2>2, <3>1 DEF NewRuns
    <3> QED
      BY <1>1, <1>2, <3>2 DEF QueueIsOpen, TodoIsPending, Working
  <2>3. CASE ~(run.next < Len(AccountIds)) /\ run.dry
    <3>1. run' = Idle /\ Idle.at = "idle"
      BY <2>1, <2>3 DEF NextAccount, Idle
    <3> QED
      BY <3>1 DEF QueueIsOpen, TodoIsPending, Working
  <2>4. CASE ~(run.next < Len(AccountIds)) /\ ~run.dry
    <3> DEFINE r == [run EXCEPT !.pass = 2, !.queue = OpenEvents(events')]
    <3>1. run' = Advance(r, events')
      BY <2>1, <2>4 DEF NextAccount
    <3>2. OpenEvents(events') \subseteq Nat
      BY <1>1 DEF OpenEvents
    <3>3. r \in NewRuns /\ r.queue = OpenEvents(events')
      BY <1>2, <3>2 DEF NewRuns
    <3> HIDE DEF r
    <3> QED
      BY <1>1, <3>1, <3>3, AdvancedRun
  <2> QED
    BY <2>2, <2>3, <2>4
<1>4. UNCHANGED <<now, account, subs, late, faults>>
  BY DEF CheckAccount
<1>5. late \subseteq (DOMAIN events') \X Subs
  BY <1>1 DEF IInv, TypeOK
<1>6. TypeOK' /\ Started'
  BY <1>1, <1>3, <1>4, <1>5 DEF IInv, TypeOK, Started
<1> QED
  BY <1>1, <1>3, <1>6 DEF IInv
-----------------------------------------------------------------------------
(* The invariant, and what follows from it *)

\* The invariant holds of an empty store and no run.
LEMMA InitInv == Init => IInv
<1> SUFFICES ASSUME Init PROVE IInv
  OBVIOUS
<1>1. Idle.at = "idle" /\ run = Idle
  BY DEF Init, Idle
<1>2. events = <<>> /\ clears = <<>> /\ Len(events) = 0 /\ DOMAIN events = {}
  BY DEF Init
<1>3. events \in Seq(EventRecords) /\ clears \in Seq([Subs -> 0..2])
  BY <1>2, EmptySeq
<1>4. TypeOK
  BY <1>1, <1>2, <1>3, Parameters DEF Init, TypeOK
<1> QED
  BY <1>1, <1>2, <1>4, Parameters
     DEF Init, IInv, Started, QueueIsOpen, TodoIsPending, CompleteMeansSettled, Working

\* Every action preserves the invariant.
LEMMA NextInv == IInv /\ [Next]_vars => IInv'
<1> SUFFICES ASSUME IInv, [Next]_vars PROVE IInv'
  OBVIOUS
<1>1. CASE World
  BY <1>1, WorldInv
<1>2. CASE \E dry \in DryRuns : Start(dry)
  BY <1>2, StartInv
<1>3. CASE FetchTarget \/ FetchFails
  BY <1>3, FetchTargetInv, FetchFailsInv
<1>4. CASE Post \/ PostFails \/ LatePost
  BY <1>4, PostInv, PostFailsInv, LatePostInv
<1>5. CASE HandleReply \/ FinishEvent
  BY <1>5, HandleReplyInv, FinishEventInv
<1>6. CASE CheckAccount
  BY <1>6, CheckAccountInv
<1>7. CASE SnapshotFails \/ Crash
  BY <1>7, AbortInv
<1>8. CASE UNCHANGED vars
  BY <1>8 DEF vars, IInv, TypeOK, Started, QueueIsOpen, TodoIsPending, CompleteMeansSettled,
              Working, Event
<1> QED
  BY <1>1, <1>2, <1>3, <1>4, <1>5, <1>6, <1>7, <1>8 DEF Next, Progress

\* At any time what a run still holds in its copies is unfinished in the store, and
\* complete events have only settled targets.
THEOREM Invariance == Spec => []IInv
<1> QED
  BY InitInv, NextInv, PTL DEF Spec

\* Every variable keeps its type; a run that is under way always has an event and,
\* while a POST is outstanding, a target.
THEOREM TypeCorrect == Spec => []TypeOK
<1>1. IInv => TypeOK
  BY DEF IInv
<1> QED
  BY <1>1, Invariance, PTL

\* finish_event completes an event only when each of its targets was done or
\* skipped, whatever was lost, failed or killed on the way.
THEOREM CompleteIsSettled == Spec => []CompleteMeansSettled
<1>1. IInv => CompleteMeansSettled
  BY DEF IInv
<1> QED
  BY <1>1, Invariance, PTL

-----------------------------------------------------------------------------
(* What is decided stays decided *)

\* The step predicate of SettledIsFinal.
Final ==
  \A e \in DOMAIN events :
    /\ e \in DOMAIN events'
    /\ ~events[e].open => ~events'[e].open
    /\ \A s \in Subs : events[e].targets[s] \in Settled \union {"none"}
                         => events'[e].targets[s] = events[e].targets[s]

\* A step that marks a target is final.
LEMMA MarkIsFinal ==
  ASSUME IInv, Working, run.todo # {}, NEW status \in TargetStatus, Mark(status)
  PROVE  Final
<1>1. DOMAIN events' = DOMAIN events
  BY MarkEffect
<1>2. \A e \in DOMAIN events : events'[e].open = events[e].open
  BY MarkKeeps
<1>3. \A e \in DOMAIN events, s \in Subs :
        events[e].targets[s] \in Settled \union {"none"} => events'[e].targets[s] = events[e].targets[s]
  BY MarkKeeps
<1> QED
  BY <1>1, <1>2, <1>3 DEF Final

\* No action reopens what is settled.
LEMMA NextIsFinal == IInv /\ [Next]_vars => Final
<1> SUFFICES ASSUME IInv, [Next]_vars PROVE Final
  OBVIOUS
<1>1. CASE UNCHANGED events
  BY <1>1 DEF Final
<1>2. CASE FetchTarget \/ FetchFails \/ HandleReply
  <2>1. Working /\ run.todo # {}
    BY <1>2 DEF FetchTarget, FetchFails, HandleReply, Working, IInv, TypeOK
  <2>2. PICK status \in {"processing", "failed", "done", "skipped"} : Mark(status)
    BY <1>2 DEF FetchTarget, FetchFails, HandleReply
  <2>3. status \in TargetStatus
    BY DEF TargetStatus
  <2> QED
    BY <2>1, <2>2, <2>3, MarkIsFinal
<1>3. CASE FinishEvent
  <2>1. /\ DOMAIN events' = DOMAIN events
        /\ \A e \in DOMAIN events : events'[e].targets = events[e].targets
    BY <1>3, FinishEventInv
  <2>2. \A e \in DOMAIN events : ~events[e].open => ~events'[e].open
    BY <1>3, FinishEventInv
  <2> QED
    BY <2>1, <2>2 DEF Final
<1>4. CASE CheckAccount
  <2>1. DOMAIN events \subseteq DOMAIN events' /\ \A e \in DOMAIN events : events'[e] = events[e]
    BY <1>4, CheckEffect
  <2> QED
    BY <2>1 DEF Final
<1> QED
  BY <1>1, <1>2, <1>3, <1>4
     DEF Next, Progress, World, Start, Post, PostFails, LatePost, SnapshotFails, Crash, vars

\* A target that was done or skipped and an event that was completed stay so, and
\* no later event changes the targets of an earlier one.
THEOREM DecisionsAreFinal == Spec => SettledIsFinal
<1>1. IInv /\ [Next]_vars => [Final]_vars
  BY NextIsFinal
<1>2. Spec => [][Final]_vars
  BY <1>1, Invariance, PTL DEF Spec
<1> QED
  BY <1>2 DEF SettledIsFinal, Final
-----------------------------------------------------------------------------
(* Where a POST has put the windows they stay *)

\* One account whose cycles last their seven days, and a host with the patch: the
\* event whose boundary is ahead is the one of the running cycle.
OneCycle == Aligns /\ Len(AccountIds) = 1 /\ ~Cards

\* An event is of its account's running cycle or of one that is over.
CurrentOrOver ==
  \A e \in DOMAIN events :
    LET start == account[events[e].account].start
    IN events[e].resetAt = start + Week \/ events[e].resetAt <= start

\* An answer that shows the windows aligned stays true until it is noted.
ReplyIsTrue ==
  run.at = "reply" /\ run.reply = "aligned" => Applied(subs[Target].window, events[Event].resetAt)

\* What the host cleared once shows it.
ClearsShow ==
  \A e \in DOMAIN clears, s \in Subs :
    clears[e][s] # 0 => clears[e][s] = 1 /\ Applied(subs[s].window, events[e].resetAt)

\* A record of the store and of the host, with the types arithmetic needs.
LEMMA StoreTypes ==
  ASSUME IInv
  PROVE  /\ now \in Int /\ Week \in Nat /\ Month \in Nat /\ Month >= Week
         /\ \A a \in Accounts : account[a].start \in Int /\ account[a].start <= now
         /\ \A e \in DOMAIN events : events[e].account \in Accounts /\ events[e].resetAt \in Int
         /\ \A s \in Subs, w \in Windows : subs[s].window[w] \in Int \union {Absent}
         /\ DOMAIN clears = DOMAIN events
<1>1. /\ now \in 0..MaxTime /\ events \in Seq(EventRecords)
      /\ account \in [Accounts -> [start : 0..MaxTime, used : {0, HighUsed}]]
      /\ subs \in [Subs -> [status : {"active", "inactive", "gone"}, spent : BOOLEAN,
                            window : [Windows -> Int \union {Absent}]]]
      /\ clears \in Seq([Subs -> 0..2]) /\ Len(clears) = Len(events)
  BY DEF IInv, TypeOK
<1>2. \A e \in DOMAIN events : events[e] \in EventRecords
  BY <1>1
<1>3. DOMAIN clears = DOMAIN events
  BY <1>1, LenProperties
<1> QED
  BY <1>1, <1>2, <1>3, Parameters, SyncAssumption DEF EventRecords, IInv, Started

\* A window aligned with a boundary runs until that boundary, and one that starts on
\* its own starts later still: using a subscription leaves it aligned.
LEMMA WorldKeepsApplied ==
  ASSUME IInv, World, NEW s \in Subs, NEW resetAt \in Int, Applied(subs[s].window, resetAt)
  PROVE  Applied(subs'[s].window, resetAt)
<1>1. subs \in [Subs -> [status : {"active", "inactive", "gone"}, spent : BOOLEAN,
                         window : [Windows -> Int \union {Absent}]]]
  BY DEF IInv, TypeOK
<1>2. ASSUME NEW x \in Subs, Consume(x)
      PROVE  Applied(subs'[s].window, resetAt)
  <2> DEFINE Running(w) == subs[x].window[w] # Absent
                /\ now < subs[x].window[w] + (IF w = "weekly" THEN Week ELSE Month)
             started == [w \in Windows |-> IF Running(w) THEN subs[x].window[w] ELSE now]
  <2>1. subs' = [subs EXCEPT ![x].spent = TRUE, ![x].window = started]
    BY <1>2 DEF Consume
  <2>2. CASE s # x
    BY <1>1, <2>1, <2>2
  <2>3. CASE s = x
    <3>1. subs'[s].window = started
      BY <1>1, <2>1, <2>3
    <3>2. SUFFICES ASSUME NEW w \in Windows
                   PROVE  started[w] # Absent /\ (started[w] = resetAt - Week \/ started[w] >= resetAt)
      BY <3>1 DEF Applied
    <3>3. /\ subs[x].window[w] # Absent
          /\ subs[x].window[w] = resetAt - Week \/ subs[x].window[w] >= resetAt
      BY <2>3 DEF Applied
    <3>4. PICK start \in Int : start = subs[x].window[w]
      BY <3>3, StoreTypes
    <3>5. PICK length \in Int : length = (IF w = "weekly" THEN Week ELSE Month) /\ length >= Week
      BY StoreTypes
    <3>6. CASE now < start + length
      BY <3>3, <3>4, <3>5, <3>6
    <3>7. CASE ~(now < start + length)
      <4>1. started[w] = now
        BY <3>4, <3>5, <3>7
      <4>2. now >= resetAt /\ now # Absent
        BY <3>3, <3>4, <3>5, <3>7, StoreTypes, Parameters
      <4> QED
        BY <4>1, <4>2
    <3> QED
      BY <3>6, <3>7
  <2> QED
    BY <2>2, <2>3
<1>3. ASSUME NEW x \in Subs, NEW st \in {"active", "inactive", "gone"}, ChangeStatus(x, st)
      PROVE  Applied(subs'[s].window, resetAt)
  BY <1>1, <1>3 DEF ChangeStatus
<1>4. CASE UNCHANGED subs
  BY <1>4
<1> QED
  BY <1>2, <1>3, <1>4 DEF World, Tick, Spend, RollOver

\* What a POST does to the one subscription it is for, and to its count.
LEMMA HostClears ==
  ASSUME IInv, NEW e \in DOMAIN events, NEW s \in Subs, NEW answer, HostResets(e, s, answer)
  PROVE  /\ \A x \in Subs : x # s => subs'[x] = subs[x]
         /\ DOMAIN clears' = DOMAIN clears
         /\ \A d \in DOMAIN clears, x \in Subs : d # e \/ x # s => clears'[d][x] = clears[d][x]
         /\ answer = "aligned" => Applied(subs'[s].window, events[e].resetAt)
         /\ Accepts(s, events[e].resetAt) /\ Applied(subs'[s].window, events[e].resetAt)
              => answer = "aligned"
         /\ \/ subs'[s] = subs[s] /\ clears'[e][s] = clears[e][s]
            \/ /\ Accepts(s, events[e].resetAt)
               /\ Aligns => /\ ~Applied(subs[s].window, events[e].resetAt)
                            /\ \A w \in Windows : subs'[s].window[w] = events[e].resetAt - Week
               /\ clears[e][s] = 0 => clears'[e][s] = 1
<1> DEFINE resetAt == events[e].resetAt
<1>1. PICK sub : sub = ResetBy(subs[s], resetAt)
  OBVIOUS
<1>2. /\ subs \in [Subs -> [status : {"active", "inactive", "gone"}, spent : BOOLEAN,
                            window : [Windows -> Int \union {Absent}]]]
      /\ clears \in Seq([Subs -> 0..2]) /\ e \in DOMAIN clears
  BY StoreTypes DEF IInv, TypeOK
<1>3. clears[e] \in [Subs -> 0..2]
  BY <1>2
<1>4. CASE ~Accepts(s, resetAt)
  BY <1>4 DEF HostResets
<1>5. CASE Accepts(s, resetAt)
  <2>1. /\ subs' = [subs EXCEPT ![s] = sub]
        /\ clears' = [clears EXCEPT ![e][s] = IF sub = subs[s] \/ @ = 2 THEN @ ELSE @ + 1]
        /\ answer = IF Applied(sub.window, resetAt) THEN "aligned" ELSE "unaligned"
    BY <1>1, <1>5 DEF HostResets
  <2>2. subs'[s] = sub /\ \A x \in Subs : x # s => subs'[x] = subs[x]
    BY <1>2, <2>1
  <2>3. /\ DOMAIN clears' = DOMAIN clears
        /\ \A d \in DOMAIN clears, x \in Subs : d # e \/ x # s => clears'[d][x] = clears[d][x]
        /\ sub = subs[s] => clears'[e][s] = clears[e][s]
        /\ sub # subs[s] /\ clears[e][s] = 0 => clears'[e][s] = 1
    BY <1>2, <1>3, <2>1
  <2>4. answer = "aligned" <=> Applied(sub.window, resetAt)
    BY <2>1
  <2>5. sub # subs[s] /\ Aligns => /\ ~Applied(subs[s].window, resetAt)
                                   /\ \A w \in Windows : sub.window[w] = resetAt - Week
    BY <1>1, <1>2 DEF ResetBy
  <2> QED
    BY <1>5, <2>2, <2>3, <2>4, <2>5
<1> QED
  BY <1>4, <1>5

\* An event keeps its account and boundary.
LEMMA EventsKept ==
  ASSUME IInv, [Next]_vars
  PROVE  /\ DOMAIN events \subseteq DOMAIN events'
         /\ \A e \in DOMAIN events : /\ events'[e].account = events[e].account
                                     /\ events'[e].resetAt = events[e].resetAt
<1>1. CASE FetchTarget \/ FetchFails \/ HandleReply
  <2>1. Working /\ run.todo # {}
    BY <1>1 DEF FetchTarget, FetchFails, HandleReply, Working, IInv, TypeOK
  <2>2. PICK status \in TargetStatus : Mark(status)
    BY <1>1 DEF FetchTarget, FetchFails, HandleReply, TargetStatus
  <2> QED
    BY <2>1, <2>2, MarkEffect, MarkKeeps
<1>2. CASE FinishEvent
  BY <1>2, FinishEventInv
<1>3. CASE CheckAccount
  BY <1>3, CheckEffect
<1>4. CASE UNCHANGED events
  BY <1>4
<1> QED
  BY <1>1, <1>2, <1>3, <1>4
     DEF Next, Progress, World, Start, Post, PostFails, LatePost, SnapshotFails, Crash, vars

\* A new event is for the cycle its account is in, and nothing was cleared for it.
LEMMA NewEventsAreCurrent ==
  ASSUME IInv, CheckAccount, NEW e \in DOMAIN events', e \notin DOMAIN events
  PROVE  /\ events'[e].account \in Accounts
         /\ events'[e].resetAt = account[events'[e].account].start + Week
<1> DEFINE a == AccountIds[run.next]
<1>1. run \in NewRuns
  BY DEF CheckAccount, Idle, IInv, TypeOK
<1>2. a \in Accounts
  BY <1>1, SyncAssumption DEF NewRuns, Accounts
<1>3. events \in Seq(EventRecords)
  BY DEF IInv, TypeOK
<1>4. PICK new : new = NewEvent(a, Published(a))
  OBVIOUS
<1>5. new.account = a /\ new.resetAt = account[a].start + Week
  BY <1>4 DEF NewEvent, Published
<1>6. events' = events \/ events' = Append(events, new)
  BY <1>4 DEF CheckAccount, CreateEvent
<1>7. events'[e] = new
  BY <1>3, <1>6, AppendProperties, LenProperties
<1> QED
  BY <1>2, <1>5, <1>7

\* While cycles are not ended early, a cycle that rolls over leaves its boundary behind.
LEMMA CurrentOrOverKept ==
  ASSUME IInv, CurrentOrOver, ~Cards, [Next]_vars
  PROVE  CurrentOrOver'
<1>1. CASE World
  <2>1. UNCHANGED events
    BY <1>1 DEF World
  <2>2. ASSUME NEW a \in Accounts
        PROVE  \/ account'[a].start = account[a].start
               \/ account'[a].start >= account[a].start + Week
    <3>1. ASSUME NEW b \in Accounts, RollOver(b)
          PROVE  \/ account'[a].start = account[a].start
                 \/ account'[a].start >= account[a].start + Week
      <4>1. now >= account[b].start + Week /\ account' = [account EXCEPT ![b] = [start |-> now, used |-> 0]]
        BY <3>1 DEF RollOver
      <4> QED
        BY <4>1 DEF IInv, TypeOK
    <3>2. ASSUME NEW b \in Accounts, Spend(b)
          PROVE  account'[a].start = account[a].start
      BY <3>2 DEF Spend, IInv, TypeOK
    <3>3. CASE UNCHANGED account
      BY <3>3
    <3> QED
      BY <1>1, <3>1, <3>2, <3>3 DEF World, Tick, Consume, ChangeStatus
  <2>3. TypeOK'
    BY <1>1, WorldInv DEF IInv
  <2>4. \A a \in Accounts : account'[a].start \in Int
    BY <2>3 DEF TypeOK
  <2> SUFFICES ASSUME NEW e \in DOMAIN events, NEW start, NEW begins,
                      start = account[events[e].account].start, begins = account'[events[e].account].start
               PROVE  events[e].resetAt = begins + Week \/ events[e].resetAt <= begins
    BY <2>1 DEF CurrentOrOver
  <2>5. /\ start \in Int /\ begins \in Int /\ events[e].resetAt \in Int /\ Week \in Nat
        /\ begins = start \/ begins >= start + Week
    BY <2>2, <2>4, StoreTypes
  <2>6. events[e].resetAt = start + Week \/ events[e].resetAt <= start
    BY DEF CurrentOrOver
  <2> QED
    BY <2>5, <2>6
<1>2. CASE UNCHANGED account
  <2> SUFFICES ASSUME NEW e \in DOMAIN events'
               PROVE  LET start == account[events'[e].account].start
                      IN events'[e].resetAt = start + Week \/ events'[e].resetAt <= start
    BY <1>2 DEF CurrentOrOver
  <2>1. CASE e \in DOMAIN events
    BY <2>1, EventsKept DEF CurrentOrOver
  <2>2. CASE e \notin DOMAIN events
    <3>1. CheckAccount
      <4>1. CASE FetchTarget \/ FetchFails \/ HandleReply
        <5>1. Working /\ run.todo # {}
          BY <4>1 DEF FetchTarget, FetchFails, HandleReply, Working, IInv, TypeOK
        <5>2. PICK status \in TargetStatus : Mark(status)
          BY <4>1 DEF FetchTarget, FetchFails, HandleReply, TargetStatus
        <5> QED
          BY <2>2, <5>1, <5>2, MarkEffect
      <4>2. CASE FinishEvent
        BY <2>2, <4>2, FinishEventInv
      <4> QED
        BY <2>2, <4>1, <4>2
           DEF Next, Progress, World, Start, Post, PostFails, LatePost, SnapshotFails, Crash, vars
    <3> QED
      BY <2>2, <3>1, NewEventsAreCurrent
  <2> QED
    BY <2>1, <2>2
<1> QED
  BY <1>1, <1>2 DEF Next, Progress, Start, FetchTarget, FetchFails, Post, PostFails, LatePost,
                    HandleReply, FinishEvent, CheckAccount, SnapshotFails, Crash, vars

\* A POST for one event leaves aligned what is aligned with another: the host accepts
\* the running cycle only, and that begins no earlier than the boundaries behind it.
LEMMA PostKeepsApplied ==
  ASSUME IInv, CurrentOrOver, OneCycle,
         NEW e \in DOMAIN events, NEW s \in Subs, NEW answer, HostResets(e, s, answer),
         NEW d \in DOMAIN events, NEW x \in Subs, Applied(subs[x].window, events[d].resetAt)
  PROVE  Applied(subs'[x].window, events[d].resetAt)
<1>1. CASE x # s \/ subs'[s] = subs[s]
  BY <1>1, HostClears
<1>2. CASE x = s /\ subs'[s] # subs[s]
  <2>1. /\ Accepts(s, events[e].resetAt) /\ ~Applied(subs[s].window, events[e].resetAt)
        /\ \A w \in Windows : subs'[s].window[w] = events[e].resetAt - Week
    BY <1>2, HostClears DEF OneCycle
  <2>2. events[e].account = events[d].account
    <3>1. AccountIds \in Seq(Accounts) /\ Len(AccountIds) = 1
      BY SyncAssumption DEF OneCycle
    <3>2. DOMAIN AccountIds = {1}
      BY <3>1, LenProperties
    <3>3. Accounts = {AccountIds[1]}
      BY <3>2 DEF Accounts
    <3> QED
      BY <3>3, StoreTypes
  <2>3. PICK start \in Int : start = account[events[e].account].start /\ start <= now
    BY StoreTypes
  <2>4. /\ events[e].resetAt \in Int /\ events[d].resetAt \in Int /\ Week \in Nat /\ now \in Int
    BY StoreTypes
  <2>5. events[e].resetAt > now
    BY <2>1 DEF Accepts, OneCycle
  <2>6. events[e].resetAt = start + Week
    BY <2>3, <2>4, <2>5 DEF CurrentOrOver
  <2>7. events[d].resetAt = start + Week \/ events[d].resetAt <= start
    BY <2>2, <2>3 DEF CurrentOrOver
  <2>8. events[d].resetAt <= start
    BY <1>2, <2>1, <2>6, <2>7
  <2>9. events[e].resetAt - Week >= events[d].resetAt /\ events[e].resetAt - Week # Absent
    BY <2>3, <2>4, <2>6, <2>8, Parameters
  <2> QED
    BY <1>2, <2>1, <2>9 DEF Applied
<1> QED
  BY <1>1, <1>2

\* Marking a target leaves every other status as it was.
LEMMA MarkOnly ==
  ASSUME IInv, Working, run.todo # {}, NEW status \in TargetStatus, Mark(status),
         NEW e \in DOMAIN events, NEW s \in Subs
  PROVE  events'[e].targets[s] = IF e = Event /\ s = Target THEN status ELSE events[e].targets[s]
<1>1. Event \in DOMAIN events /\ events \in Seq(EventRecords) /\ events[Event] \in EventRecords
  BY CurrentEvent DEF IInv, TypeOK
<1>2. /\ e # Event => events'[e] = events[e]
      /\ events'[Event] = [events[Event] EXCEPT !.targets[Target] = status]
  BY MarkEffect
<1>3. events[Event].targets \in [Subs -> TargetStatus \union {"none"}]
  BY <1>1 DEF EventRecords
<1>4. events'[Event].targets = [events[Event].targets EXCEPT ![Target] = status]
  BY <1>1, <1>2 DEF EventRecords
<1> QED
  BY <1>2, <1>3, <1>4

\* An answer is in hand only between a POST and the note of it.
LEMMA NoAnswerInHand ==
  ASSUME IInv,
         \/ \E dry \in DryRuns : Start(dry)
         \/ FetchTarget \/ FetchFails \/ HandleReply \/ FinishEvent
         \/ CheckAccount \/ SnapshotFails \/ Crash
  PROVE  run'.at # "reply"
<1>1. CASE \E dry \in DryRuns : Start(dry)
  <2>1. PICK dry \in DryRuns : Start(dry)
    BY <1>1
  <2>2. PICK r : /\ r = [at |-> "account", dry |-> dry, eligible |-> {s \in Subs : Eligible(s)},
                         pass |-> 1, queue |-> {}, todo |-> {}, reply |-> "none", next |-> 1]
                 /\ run' = IF dry THEN r ELSE Advance([r EXCEPT !.queue = OpenEvents(events)], events)
    BY <2>1 DEF Start
  <2> QED
    BY <2>2 DEF Advance, Idle
<1>2. ASSUME run # Idle PROVE run \in NewRuns
  BY <1>2 DEF IInv, TypeOK
<1>3. CASE FetchTarget \/ FetchFails \/ HandleReply
  <2>1. run # Idle
    BY <1>3 DEF FetchTarget, FetchFails, HandleReply, Idle
  <2> QED
    BY <1>2, <1>3, <2>1 DEF FetchTarget, FetchFails, HandleReply, NextTarget, NewRuns
<1>4. CASE FinishEvent
  <2>1. run # Idle
    BY <1>4 DEF FinishEvent, Idle
  <2>2. PICK r : r = [run EXCEPT !.queue = @ \ {Event}] /\ run' = Advance(r, events')
    BY <1>4 DEF FinishEvent
  <2> QED
    BY <1>2, <2>1, <2>2 DEF Advance, Idle, NewRuns
<1>5. CASE CheckAccount
  <2>1. run # Idle /\ run.at = "account" /\ NextAccount(events')
    BY <1>5 DEF CheckAccount, Idle
  <2>2. run \in NewRuns
    BY <1>2, <2>1
  <2>3. CASE run' = [run EXCEPT !.next = @ + 1]
    BY <2>1, <2>2, <2>3 DEF NewRuns
  <2>4. CASE run' = Idle
    BY <2>4 DEF Idle
  <2>5. CASE run' = Advance([run EXCEPT !.pass = 2, !.queue = OpenEvents(events')], events')
    <3>1. PICK r : r = [run EXCEPT !.pass = 2, !.queue = OpenEvents(events')] /\ run' = Advance(r, events')
      BY <2>5
    <3> QED
      BY <2>2, <3>1 DEF Advance, Idle, NewRuns
  <2> QED
    BY <2>1, <2>3, <2>4, <2>5 DEF NextAccount
<1>6. CASE SnapshotFails \/ Crash
  BY <1>6 DEF SnapshotFails, Crash, Idle
<1> QED
  BY <1>1, <1>3, <1>4, <1>5, <1>6

\* An answer in hand stays true while the world moves on, and past a late request
\* when there is only one cycle such a request could be accepted for.
LEMMA ReplyStaysTrue ==
  ASSUME IInv, ReplyIsTrue, late = {} \/ (OneCycle /\ CurrentOrOver), [Next]_vars
  PROVE  ReplyIsTrue'
<1>1. CASE UNCHANGED <<run, events>>
  <2> SUFFICES ASSUME run.at = "reply", run.reply = "aligned"
               PROVE  Applied(subs'[Target].window, events[Event].resetAt)
    BY <1>1 DEF ReplyIsTrue, Event, Target
  <2>1. Applied(subs[Target].window, events[Event].resetAt)
    BY DEF ReplyIsTrue
  <2>2. Event \in DOMAIN events /\ Target \in Subs /\ events[Event].resetAt \in Int
    <3>1. Working /\ run.todo # {}
      BY DEF Working, IInv, TypeOK
    <3> QED
      BY <3>1, CurrentEvent, StoreTypes
  <2>3. CASE World
    BY <2>1, <2>2, <2>3, WorldKeepsApplied
  <2>4. CASE LatePost
    <3>1. PICK p \in late : \E answer \in Answers : HostResets(p[1], p[2], answer)
      BY <2>4 DEF LatePost
    <3>2. PICK answer \in Answers : HostResets(p[1], p[2], answer)
      BY <3>1
    <3>3. p[1] \in DOMAIN events /\ p[2] \in Subs /\ OneCycle /\ CurrentOrOver
      BY <3>1 DEF IInv, TypeOK
    <3> QED
      BY <2>1, <2>2, <3>2, <3>3, PostKeepsApplied
  <2>5. CASE UNCHANGED subs
    BY <2>1, <2>5
  <2>6. CASE Post \/ PostFails
    BY <2>6 DEF Post, PostFails
  <2> QED
    BY <2>3, <2>4, <2>5, <2>6
       DEF Next, Progress, Start, FetchTarget, FetchFails, HandleReply, FinishEvent,
           CheckAccount, SnapshotFails, Crash, vars
<1>2. CASE Post
  <2>1. PICK answer \in Answers : /\ HostResets(Event, Target, answer)
                                 /\ run' = [run EXCEPT !.at = "reply", !.reply = answer]
    BY <1>2 DEF Post
  <2>2. Working /\ run.todo # {} /\ UNCHANGED events
    BY <1>2 DEF Post, Working, IInv, TypeOK
  <2>3. run \in NewRuns /\ Event \in DOMAIN events /\ Target \in Subs
    BY <2>2, CurrentEvent
  <2>4. run'.reply = answer /\ Event' = Event /\ Target' = Target
    BY <2>1, <2>3 DEF NewRuns, Event, Target
  <2> QED
    BY <2>1, <2>2, <2>3, <2>4, HostClears DEF ReplyIsTrue
<1>3. CASE PostFails
  <2>1. run # Idle /\ run' = [run EXCEPT !.at = "reply", !.reply = "error"]
    BY <1>3 DEF PostFails, Idle
  <2> QED
    BY <2>1 DEF ReplyIsTrue, IInv, TypeOK, NewRuns
<1>4. CASE run'.at # "reply"
  BY <1>4 DEF ReplyIsTrue
<1> QED
  BY <1>1, <1>2, <1>3, <1>4, NoAnswerInHand DEF Next, Progress, World, LatePost, vars

\* The step predicate of DoneMeansAligned.
DoneAligned ==
  \A e \in DOMAIN events, s \in Subs :
    events'[e].targets[s] = "done" /\ events[e].targets[s] # "done"
      => Applied(subs[s].window, events[e].resetAt)

\* A target is marked done on a GET, on an answer or on a second look that shows its
\* windows aligned, and nowhere else.
LEMMA NextIsAligned ==
  ASSUME IInv, ReplyIsTrue, [Next]_vars
  PROVE  DoneAligned
<1> SUFFICES ASSUME NEW e \in DOMAIN events, NEW s \in Subs,
                    events'[e].targets[s] = "done", events[e].targets[s] # "done"
             PROVE  Applied(subs[s].window, events[e].resetAt)
  BY DEF DoneAligned
<1>1. CASE FetchTarget \/ FetchFails \/ HandleReply
  <2>1. Working /\ run.todo # {}
    BY <1>1 DEF FetchTarget, FetchFails, HandleReply, Working, IInv, TypeOK
  <2>2. ASSUME NEW status \in TargetStatus, Mark(status)
        PROVE  status = "done" /\ e = Event /\ s = Target
    BY <2>1, <2>2, MarkOnly
  <2>3. CASE FetchTarget
    <3>1. PICK status \in TargetStatus :
               /\ Mark(status)
               /\ status = "done" => Applied(subs[Target].window, events[Event].resetAt)
      BY <2>3 DEF FetchTarget, TargetStatus
    <3> QED
      BY <2>2, <3>1
  <2>4. CASE FetchFails
    BY <2>2, <2>4 DEF FetchFails, TargetStatus
  <2>5. CASE HandleReply
    <3>1. PICK status \in TargetStatus :
               /\ Mark(status)
               /\ status = "done" =>
                    \/ run.reply = "aligned"
                    \/ Applied(subs[Target].window, events[Event].resetAt)
      BY <2>5 DEF HandleReply, TargetStatus
    <3>2. run.at = "reply"
      BY <2>5 DEF HandleReply
    <3> QED
      BY <2>2, <3>1, <3>2 DEF ReplyIsTrue
  <2> QED
    BY <1>1, <2>3, <2>4, <2>5
<1>2. CASE FinishEvent
  BY <1>2, FinishEventInv
<1>3. CASE CheckAccount
  BY <1>3, CheckEffect
<1>4. CASE UNCHANGED events
  BY <1>4
<1> QED
  BY <1>1, <1>2, <1>3, <1>4
     DEF Next, Progress, World, Start, Post, PostFails, LatePost, SnapshotFails, Crash, vars

\* Windows that start at the beginning of the event's cycle are aligned with it.
LEMMA SetIsApplied ==
  ASSUME NEW window, NEW resetAt \in Int, \A w \in Windows : window[w] = resetAt - Week
  PROVE  Applied(window, resetAt)
<1>1. resetAt - Week \in Int /\ resetAt - Week # Absent
  BY Parameters
<1> QED
  BY <1>1 DEF Applied

\* Counts of an older event do not change when an account is looked at, and those of
\* a new one start at zero.
LEMMA CheckClears ==
  ASSUME IInv, CheckAccount, NEW e \in DOMAIN clears', NEW s \in Subs, clears'[e][s] # 0
  PROVE  e \in DOMAIN clears /\ clears'[e][s] = clears[e][s]
<1>1. clears \in Seq([Subs -> 0..2])
  BY DEF IInv, TypeOK
<1>2. PICK zeros : zeros = [x \in Subs |-> 0]
  OBVIOUS
<1>3. zeros \in [Subs -> 0..2] /\ zeros[s] = 0
  BY <1>2
<1>4. clears' = clears \/ clears' = Append(clears, zeros)
  BY <1>2 DEF CheckAccount, CreateEvent
<1>5. CASE clears' = clears
  BY <1>5
<1>6. CASE clears' = Append(clears, zeros)
  <2>1. /\ Len(clears') = Len(clears) + 1 /\ clears' \in Seq([Subs -> 0..2])
        /\ \A i \in 1..Len(clears) : clears'[i] = clears[i]
        /\ clears'[Len(clears) + 1] = zeros
    BY <1>1, <1>3, <1>6, AppendProperties
  <2>2. DOMAIN clears = 1..Len(clears) /\ DOMAIN clears' = 1..(Len(clears) + 1) /\ Len(clears) \in Nat
    BY <1>1, <2>1, LenProperties
  <2>3. e # Len(clears) + 1
    BY <1>3, <2>1
  <2>4. e \in 1..Len(clears)
    BY <2>2, <2>3
  <2> QED
    BY <2>1, <2>2, <2>4
<1> QED
  BY <1>4, <1>5, <1>6

\* When each cycle ends by itself, whatever the host does for a request, it clears a
\* subscription for an event once and what it cleared stays aligned.
LEMMA HostKeepsShown ==
  ASSUME IInv, CurrentOrOver, OneCycle, ClearsShow, UNCHANGED events,
         NEW e \in DOMAIN events, NEW s \in Subs, NEW answer, HostResets(e, s, answer)
  PROVE  ClearsShow'
<1> SUFFICES ASSUME NEW d \in DOMAIN clears', NEW x \in Subs, clears'[d][x] # 0
             PROVE  clears'[d][x] = 1 /\ Applied(subs'[x].window, events[d].resetAt)
  BY DEF ClearsShow
<1>1. d \in DOMAIN clears /\ d \in DOMAIN events /\ e \in DOMAIN clears
      /\ events[e].resetAt \in Int
  BY HostClears, StoreTypes
<1>2. CASE clears'[d][x] = clears[d][x]
  <2>1. clears[d][x] = 1 /\ Applied(subs[x].window, events[d].resetAt)
    BY <1>1, <1>2 DEF ClearsShow
  <2> QED
    BY <1>1, <1>2, <2>1, PostKeepsApplied
<1>3. CASE clears'[d][x] # clears[d][x]
  <2>1. d = e /\ x = s
    BY <1>1, <1>3, HostClears
  <2>2. /\ ~Applied(subs[s].window, events[e].resetAt)
        /\ \A w \in Windows : subs'[s].window[w] = events[e].resetAt - Week
        /\ clears[e][s] = 0 => clears'[e][s] = 1
    BY <1>3, <2>1, HostClears DEF OneCycle
  <2>3. clears[e][s] = 0
    BY <1>1, <2>2 DEF ClearsShow
  <2> QED
    BY <1>1, <2>1, <2>2, <2>3, SetIsApplied
<1> QED
  BY <1>2, <1>3

\* Steps that leave the host alone keep what it shows.
LEMMA ClearsShowKept ==
  ASSUME IInv, CurrentOrOver, OneCycle, ClearsShow, [Next]_vars
  PROVE  ClearsShow'
<1>1. CASE World
  <2>1. UNCHANGED <<events, clears>> /\ DOMAIN clears = DOMAIN events
    BY <1>1, StoreTypes DEF World
  <2>2. \A e \in DOMAIN events : events[e].resetAt \in Int
    BY StoreTypes
  <2> QED
    BY <1>1, <2>1, <2>2, WorldKeepsApplied DEF ClearsShow
<1>2. CASE \E e \in DOMAIN events, s \in Subs, answer \in Answers :
             HostResets(e, s, answer) /\ UNCHANGED events
  BY <1>2, HostKeepsShown
<1>3. CASE CheckAccount
  <2> SUFFICES ASSUME NEW e \in DOMAIN clears', NEW s \in Subs, clears'[e][s] # 0
               PROVE  clears'[e][s] = 1 /\ Applied(subs'[s].window, events'[e].resetAt)
    BY DEF ClearsShow
  <2>1. e \in DOMAIN clears /\ clears'[e][s] = clears[e][s]
    BY <1>3, CheckClears
  <2>2. events'[e].resetAt = events[e].resetAt /\ UNCHANGED subs
    BY <1>3, <2>1, EventsKept, StoreTypes DEF CheckAccount
  <2> QED
    BY <2>1, <2>2 DEF ClearsShow
<1>4. CASE UNCHANGED <<subs, clears>>
  <2>1. \A e \in DOMAIN clears : events'[e].resetAt = events[e].resetAt
    BY EventsKept, StoreTypes
  <2> QED
    BY <1>4, <2>1 DEF ClearsShow
<1>5. CASE Post \/ PostFails
  <2>1. Event \in DOMAIN events /\ Target \in Subs /\ UNCHANGED events
    <3>1. Working /\ run.todo # {}
      BY <1>5 DEF Post, PostFails, Working, IInv, TypeOK
    <3> QED
      BY <1>5, <3>1, CurrentEvent DEF Post, PostFails
  <2> QED
    BY <1>2, <1>4, <1>5, <2>1 DEF Post, PostFails
<1>6. CASE LatePost
  <2>1. PICK p \in late : \E answer \in Answers : HostResets(p[1], p[2], answer)
    BY <1>6 DEF LatePost
  <2>2. p[1] \in DOMAIN events /\ p[2] \in Subs /\ UNCHANGED events
    BY <1>6, <2>1 DEF IInv, TypeOK, LatePost
  <2> QED
    BY <1>2, <2>1, <2>2
<1> QED
  BY <1>1, <1>3, <1>4, <1>5, <1>6
     DEF Next, Progress, Start, FetchTarget, FetchFails, HandleReply, FinishEvent,
         SnapshotFails, Crash, vars

\* Without faults, a subscription is cleared in the one POST after which its target
\* is done.
ClearedNoted ==
  \A e \in DOMAIN clears, s \in Subs :
    clears[e][s] # 0 =>
      /\ clears[e][s] = 1
      /\ \/ events[e].targets[s] = "done"
         \/ run.at = "reply" /\ run.reply = "aligned" /\ Event = e /\ Target = s

LEMMA ClearedNotedKept ==
  ASSUME IInv, ClearedNoted, MaxFaults = 0, late = {}, Aligns, [Next]_vars
  PROVE  ClearedNoted'
<1>1. DOMAIN clears = DOMAIN events
  BY StoreTypes
<1>2. ~FetchFails /\ ~PostFails /\ ~SnapshotFails /\ ~Crash /\ ~LatePost
  <2>1. ~Faulty
    BY DEF Faulty, IInv, TypeOK
  <2> QED
    BY <2>1 DEF FetchFails, PostFails, SnapshotFails, Crash, LatePost
<1>3. ASSUME NEW e \in DOMAIN clears, NEW s \in Subs, events[e].targets[s] = "done"
      PROVE  events'[e].targets[s] = "done"
  <2>1. Final
    BY NextIsFinal
  <2> QED
    BY <1>1, <1>3, <2>1 DEF Final, Settled
<1>4. CASE World \/ UNCHANGED vars
  BY <1>4 DEF ClearedNoted, World, vars, Event, Target
<1>5. CASE Post
  <2>1. PICK answer \in Answers : /\ HostResets(Event, Target, answer)
                                 /\ run' = [run EXCEPT !.at = "reply", !.reply = answer]
    BY <1>5 DEF Post
  <2>2. Working /\ run.todo # {} /\ UNCHANGED events /\ run.at # "reply"
    BY <1>5 DEF Post, Working, IInv, TypeOK
  <2>3. /\ run \in NewRuns /\ Event \in DOMAIN events /\ Target \in Subs
        /\ Target \in PendingTargets(events[Event]) /\ events[Event].resetAt \in Int
    BY <2>2, CurrentEvent, StoreTypes
  <2>4. run'.at = "reply" /\ run'.reply = answer /\ Event' = Event /\ Target' = Target
    BY <2>1, <2>3 DEF NewRuns, Event, Target
  <2>5. clears[Event][Target] = 0
    BY <1>1, <2>2, <2>3 DEF ClearedNoted, PendingTargets, Settled
  <2> SUFFICES ASSUME NEW e \in DOMAIN clears', NEW s \in Subs, clears'[e][s] # 0
               PROVE  /\ clears'[e][s] = 1
                      /\ events[e].targets[s] = "done" \/ (answer = "aligned" /\ Event = e /\ Target = s)
    BY <2>2, <2>4 DEF ClearedNoted
  <2>6. e \in DOMAIN clears
    BY <2>1, <2>3, HostClears
  <2>7. CASE e # Event \/ s # Target
    <3>1. clears'[e][s] = clears[e][s]
      BY <2>1, <2>3, <2>6, <2>7, HostClears
    <3> QED
      BY <2>2, <2>6, <3>1 DEF ClearedNoted
  <2>8. CASE e = Event /\ s = Target
    <3>1. /\ Accepts(s, events[e].resetAt) /\ clears'[e][s] = 1
          /\ \A w \in Windows : subs'[s].window[w] = events[e].resetAt - Week
      BY <2>1, <2>3, <2>5, <2>8, HostClears
    <3>2. answer = "aligned"
      BY <2>1, <2>3, <2>8, <3>1, SetIsApplied, HostClears
    <3> QED
      BY <2>8, <3>1, <3>2
  <2> QED
    BY <2>7, <2>8
<1>6. CASE HandleReply
  <2>1. Working /\ run.todo # {} /\ UNCHANGED clears
    BY <1>6 DEF HandleReply, Working, IInv, TypeOK
  <2>2. run.reply = "aligned" => Mark("done")
    BY <1>6 DEF HandleReply
  <2>3. Event \in DOMAIN events /\ Target \in Subs /\ "done" \in TargetStatus
    BY <2>1, CurrentEvent DEF TargetStatus
  <2>4. run.reply = "aligned" => events'[Event].targets[Target] = "done"
    BY <2>1, <2>2, <2>3, MarkOnly
  <2> QED
    BY <1>3, <2>1, <2>4 DEF ClearedNoted
<1>7. CASE CheckAccount
  <2>1. run.at # "reply"
    BY <1>7 DEF CheckAccount
  <2> QED
    BY <1>3, <1>7, <2>1, CheckClears DEF ClearedNoted
<1>8. CASE (\E dry \in DryRuns : Start(dry)) \/ FetchTarget \/ FinishEvent
  <2>1. run.at # "reply" /\ UNCHANGED clears
    <3>1. CASE \E dry \in DryRuns : Start(dry)
      BY <3>1 DEF Start, Idle
    <3>2. CASE FetchTarget \/ FinishEvent
      BY <3>2 DEF FetchTarget, FinishEvent
    <3> QED
      BY <1>8, <3>1, <3>2
  <2> QED
    BY <1>3, <2>1 DEF ClearedNoted
<1> QED
  BY <1>2, <1>4, <1>5, <1>6, <1>7, <1>8 DEF Next, Progress

\* What holds when cycles do not overlap, whatever is lost, late or killed.
OneCycleInv == IInv /\ CurrentOrOver /\ ReplyIsTrue /\ ClearsShow

LEMMA OneCycleInvariance ==
  ASSUME OneCycle
  PROVE  Spec => []OneCycleInv
<1>1. Init => OneCycleInv
  <2> SUFFICES ASSUME Init PROVE OneCycleInv
    OBVIOUS
  <2>1. IInv
    BY InitInv
  <2>2. CurrentOrOver /\ ReplyIsTrue /\ ClearsShow
    BY DEF Init, Idle, CurrentOrOver, ReplyIsTrue, ClearsShow
  <2> QED
    BY <2>1, <2>2 DEF OneCycleInv
<1>2. OneCycleInv /\ [Next]_vars => OneCycleInv'
  <2> SUFFICES ASSUME OneCycleInv, [Next]_vars PROVE OneCycleInv'
    OBVIOUS
  <2>1. IInv'
    BY NextInv DEF OneCycleInv
  <2>2. CurrentOrOver'
    BY CurrentOrOverKept DEF OneCycleInv, OneCycle
  <2>3. ReplyIsTrue'
    BY ReplyStaysTrue DEF OneCycleInv
  <2>4. ClearsShow'
    BY ClearsShowKept DEF OneCycleInv
  <2> QED
    BY <2>1, <2>2, <2>3, <2>4 DEF OneCycleInv
<1> QED
  BY <1>1, <1>2, PTL DEF Spec

\* What holds of any accounts as long as nothing is lost, late or killed.
NoFaultInv == IInv /\ late = {} /\ ReplyIsTrue /\ (Aligns => ClearedNoted)

LEMMA NoFaultInvariance ==
  ASSUME MaxFaults = 0
  PROVE  Spec => []NoFaultInv
<1>1. Init => NoFaultInv
  <2> SUFFICES ASSUME Init PROVE NoFaultInv
    OBVIOUS
  <2>1. IInv
    BY InitInv
  <2>2. late = {} /\ ReplyIsTrue /\ ClearedNoted
    BY DEF Init, Idle, ReplyIsTrue, ClearedNoted
  <2> QED
    BY <2>1, <2>2 DEF NoFaultInv
<1>2. NoFaultInv /\ [Next]_vars => NoFaultInv'
  <2> SUFFICES ASSUME NoFaultInv, [Next]_vars PROVE NoFaultInv'
    OBVIOUS
  <2>1. IInv'
    BY NextInv DEF NoFaultInv
  <2>2. ReplyIsTrue'
    BY ReplyStaysTrue DEF NoFaultInv
  <2>3. Aligns => ClearedNoted'
    BY ClearedNotedKept DEF NoFaultInv
  <2>4. late' = {}
    <3>1. ~Faulty
      BY DEF Faulty, NoFaultInv, IInv, TypeOK
    <3> QED
      BY <3>1 DEF NoFaultInv, Next, Progress, World, Start, FetchTarget, FetchFails, Post, PostFails,
                  LatePost, HandleReply, FinishEvent, CheckAccount, SnapshotFails, Crash, vars
  <2> QED
    BY <2>1, <2>2, <2>3, <2>4 DEF NoFaultInv
<1> QED
  BY <1>1, <1>2, PTL DEF Spec

\* A target is marked done only while the host has its windows on the event's cycle
\* or past it: with one account and the patched host however often requests, answers
\* and runs are lost or late, and on any host and for any accounts while none is.
THEOREM DoneIsAligned ==
  ASSUME OneCycle \/ MaxFaults = 0
  PROVE  Spec => DoneMeansAligned
<1>1. IInv /\ ReplyIsTrue /\ [Next]_vars => [DoneAligned]_vars
  BY NextIsAligned
<1>2. CASE OneCycle
  <2>1. Spec => []OneCycleInv
    BY <1>2, OneCycleInvariance
  <2>2. OneCycleInv => IInv /\ ReplyIsTrue
    BY DEF OneCycleInv
  <2>3. Spec => [][DoneAligned]_vars
    BY <1>1, <2>1, <2>2, PTL DEF Spec
  <2> QED
    BY <2>3 DEF DoneMeansAligned, DoneAligned
<1>3. CASE MaxFaults = 0
  <2>1. Spec => []NoFaultInv
    BY <1>3, NoFaultInvariance
  <2>2. NoFaultInv => IInv /\ ReplyIsTrue
    BY DEF NoFaultInv
  <2>3. Spec => [][DoneAligned]_vars
    BY <1>1, <2>1, <2>2, PTL DEF Spec
  <2> QED
    BY <2>3 DEF DoneMeansAligned, DoneAligned
<1> QED
  BY <1>2, <1>3

\* However often a request for an event is repeated, lost or late, the patched host
\* clears a subscription once for it, so that usage since the reset is not given
\* back - for one account whose cycles run their seven days, and while nothing is
\* lost or late for any number of accounts and with reset cards.
THEOREM ClearedOnce ==
  ASSUME OneCycle \/ (Aligns /\ MaxFaults = 0)
  PROVE  Spec => []ClearedAtMostOnce
<1>1. CASE OneCycle
  <2>1. Spec => []OneCycleInv
    BY <1>1, OneCycleInvariance
  <2>2. OneCycleInv => ClearedAtMostOnce
    <3> SUFFICES ASSUME OneCycleInv, NEW e \in DOMAIN clears, NEW s \in Subs
                 PROVE  clears[e][s] <= 1
      BY DEF ClearedAtMostOnce
    <3>1. clears[e][s] = 0 \/ clears[e][s] = 1
      BY DEF OneCycleInv, ClearsShow
    <3> QED
      BY <3>1
  <2> QED
    BY <2>1, <2>2, PTL
<1>2. CASE Aligns /\ MaxFaults = 0
  <2>1. Spec => []NoFaultInv
    BY <1>2, NoFaultInvariance
  <2>2. NoFaultInv => ClearedAtMostOnce
    <3> SUFFICES ASSUME NoFaultInv, NEW e \in DOMAIN clears, NEW s \in Subs
                 PROVE  clears[e][s] <= 1
      BY DEF ClearedAtMostOnce
    <3>1. clears[e][s] = 0 \/ clears[e][s] = 1
      BY <1>2 DEF NoFaultInv, ClearedNoted
    <3> QED
      BY <3>1
  <2> QED
    BY <2>1, <2>2, PTL
<1> QED
  BY <1>1, <1>2
-----------------------------------------------------------------------------
(* The rows and events of an account are those of a detector *)

\* The instance takes the same decisions and writes the same rows.
LEMMA SameDecisions ==
  ASSUME NEW r, NEW s, NEW u
  PROVE  /\ Detector!Decide(r, s) = Decide(r, s)
         /\ Detector!ObservedRow(r, s, u) = ObservedRow(r, s, u)
         /\ Detector!ConfirmedRow(r, s) = ConfirmedRow(r, s)
         /\ Detector!NoRow = NoRow
BY DEF Detector!Decide, Decide, Detector!Shift, Shift, Detector!Noise, Noise,
       Detector!Remaining, Remaining, Detector!FitsWeek, FitsWeek, Detector!Rearmed, Rearmed,
       Detector!UsageReset, UsageReset, Detector!FreshCycle, FreshCycle,
       Detector!CostDropped, CostDropped, Detector!BoundaryAhead, BoundaryAhead,
       Detector!EarlyReset, EarlyReset, Detector!DriftFollow, DriftFollow,
       Detector!KeptCost, KeptCost, Detector!Later, Later, Detector!ObservedRow, ObservedRow,
       Detector!ConfirmedRow, ConfirmedRow, Detector!NoRow, NoRow

\* Keys depend on the accounts and boundaries of the events only.
LEMMA SameKeys ==
  ASSUME DOMAIN events' = DOMAIN events, NEW a,
         \A e \in DOMAIN events : /\ events'[e].account = events[e].account
                                 /\ events'[e].resetAt = events[e].resetAt
  PROVE  EventKeys(a)' = EventKeys(a)
BY DEF EventKeys

\* Looking at the watched account is a step of its detector or changes nothing of it.
LEMMA CheckIsDetector ==
  ASSUME IInv, CheckAccount
  PROVE  [Detector!Next]_(Detector!vars)
<1> DEFINE a == AccountIds[run.next]
           s == Published(a)
<1>1. /\ run \in NewRuns /\ rows \in [Accounts -> Row \union {NoRow}] /\ events \in Seq(EventRecords)
  <2>1. run # Idle
    BY DEF CheckAccount, Idle
  <2> QED
    BY <2>1 DEF IInv, TypeOK
<1>2. a \in Accounts /\ Watched \in Accounts
  BY <1>1, SyncAssumption DEF NewRuns, Accounts
<1>3. s \in PublishedSnapshots
  BY <1>2, PublishedIsSnapshot DEF IInv
<1> HIDE DEF a, s
<1>4. CASE /\ Decide(rows[a], s) = "reset" /\ s.resetAt \in EventKeys(a)
           /\ rows' = [rows EXCEPT ![a] = ObservedRow(rows[a], s, TRUE)] /\ UNCHANGED events
  <2>1. \A b : EventKeys(b)' = EventKeys(b)
    BY <1>4 DEF EventKeys
  <2>2. CASE a = Watched
    <3>1. Detector!Queue(s)
      BY <1>1, <1>2, <1>4, <2>1, <2>2, SameDecisions DEF Detector!Queue
    <3> QED
      BY <1>3, <3>1 DEF Detector!Next
  <2>3. CASE a # Watched
    BY <1>1, <1>2, <1>4, <2>1, <2>3 DEF Detector!vars
  <2> QED
    BY <2>2, <2>3
<1>5. CASE /\ Decide(rows[a], s) = "reset" /\ s.resetAt \notin EventKeys(a)
           /\ rows' = [rows EXCEPT ![a] = ConfirmedRow(rows[a], s)]
           /\ events' = Append(events, NewEvent(a, s))
  <2>1. /\ DOMAIN events' = DOMAIN events \union {Len(events) + 1} /\ Len(events) + 1 \notin DOMAIN events
        /\ \A e \in DOMAIN events : events'[e] = events[e]
        /\ events'[Len(events) + 1].account = a /\ events'[Len(events) + 1].resetAt = s.resetAt
    BY <1>1, <1>5 DEF NewEvent
  <2>2. \A b : EventKeys(b)' = EventKeys(b) \union (IF b = a THEN {s.resetAt} ELSE {})
    BY <2>1 DEF EventKeys
  <2>3. CASE a = Watched
    <3>1. Detector!Queue(s)
      BY <1>1, <1>2, <1>5, <2>2, <2>3, SameDecisions DEF Detector!Queue
    <3> QED
      BY <1>3, <3>1 DEF Detector!Next
  <2>4. CASE a # Watched
    BY <1>1, <1>2, <1>5, <2>2, <2>4 DEF Detector!vars
  <2> QED
    BY <2>3, <2>4
<1>6. CASE UNCHANGED <<rows, events>>
  BY <1>6 DEF Detector!vars, EventKeys
<1>7. CASE /\ Decide(rows[a], s) \notin {"reset", "stale"} /\ UNCHANGED events
           /\ rows' = [rows EXCEPT ![a] = ObservedRow(rows[a], s, Decide(rows[a], s) = "baseline")]
  <2>1. \A b : EventKeys(b)' = EventKeys(b)
    BY <1>7 DEF EventKeys
  <2>2. CASE a = Watched
    <3>1. Detector!Observe(s)
      BY <1>1, <1>2, <1>7, <2>1, <2>2, SameDecisions DEF Detector!Observe
    <3> QED
      BY <1>3, <3>1 DEF Detector!Next
  <2>3. CASE a # Watched
    BY <1>1, <1>2, <1>7, <2>1, <2>3 DEF Detector!vars
  <2> QED
    BY <2>2, <2>3
<1> QED
  BY <1>4, <1>5, <1>6, <1>7 DEF CheckAccount, CreateEvent, a, s

\* Every action is a step of the watched account's detector or leaves it alone.
LEMMA NextIsDetector == IInv /\ [Next]_vars => [Detector!Next]_(Detector!vars)
<1> SUFFICES ASSUME IInv, [Next]_vars PROVE [Detector!Next]_(Detector!vars)
  OBVIOUS
<1>1. CASE UNCHANGED <<rows, events>>
  BY <1>1 DEF Detector!vars, EventKeys
<1>2. CASE FetchTarget \/ FetchFails \/ HandleReply
  <2>1. Working /\ run.todo # {} /\ UNCHANGED rows
    BY <1>2 DEF FetchTarget, FetchFails, HandleReply, Working, IInv, TypeOK
  <2>2. PICK status \in {"processing", "failed", "done", "skipped"} : Mark(status)
    BY <1>2 DEF FetchTarget, FetchFails, HandleReply
  <2>3. status \in TargetStatus
    BY DEF TargetStatus
  <2>4. DOMAIN events' = DOMAIN events
    BY <2>1, <2>2, <2>3, MarkEffect
  <2>5. \A e \in DOMAIN events : /\ events'[e].account = events[e].account
                                /\ events'[e].resetAt = events[e].resetAt
    BY <2>1, <2>2, <2>3, MarkKeeps
  <2> QED
    BY <2>1, <2>4, <2>5, SameKeys DEF Detector!vars
<1>3. CASE FinishEvent
  <2>1. DOMAIN events' = DOMAIN events
    BY <1>3, FinishEventInv
  <2>2. \A e \in DOMAIN events : /\ events'[e].account = events[e].account
                                /\ events'[e].resetAt = events[e].resetAt
    BY <1>3, FinishEventInv
  <2>3. UNCHANGED rows
    BY <1>3 DEF FinishEvent
  <2> QED
    BY <2>1, <2>2, <2>3, SameKeys DEF Detector!vars
<1>4. CASE CheckAccount
  BY <1>4, CheckIsDetector
<1> QED
  BY <1>1, <1>2, <1>3, <1>4
     DEF Next, Progress, World, Start, Post, PostFails, LatePost, SnapshotFails, Crash, vars

\* For every account the executor watches, however its runs are cut short and
\* whatever else they do, the rows and event keys go through the steps of
\* CycleDetector, fed with what the host can publish.
THEOREM Refinement == Spec => ImplementsDetector
<1>1. Init => Detector!Init
  BY Parameters, SameDecisions DEF Init, Detector!Init, EventKeys
<1>2. Spec => [][Detector!Next]_(Detector!vars)
  BY NextIsDetector, Invariance, PTL DEF Spec
<1>3. Spec => Init
  BY DEF Spec
<1> QED
  BY <1>1, <1>2, <1>3 DEF ImplementsDetector, Detector!Spec
-----------------------------------------------------------------------------
(* So what is proved of the detector holds in the executor *)

Proved == INSTANCE CycleDetectorProofs WITH row <- rows[Watched], keys <- EventKeys(Watched),
                                            Snapshots <- PublishedSnapshots

\* The constants satisfy what the theorems about CycleDetector assume.
LEMMA ProvedAssumptions ==
  /\ PublishedSnapshots \subseteq Proved!Snapshot
  /\ Absent \notin Int /\ Proved!NoRow \notin Proved!Row
<1>1. {0, HighUsed} \subseteq Reading /\ Absent \in Reading
  BY Parameters DEF Reading
<1>2. PublishedSnapshots \subseteq Snapshot
  BY <1>1, Parameters DEF PublishedSnapshots, Snapshot
<1> QED
  BY <1>2, AbsentAssumption
     DEF Proved!Snapshot, Proved!NoRow, Proved!Row, Proved!Reading, Snapshot, NoRow, Row, Reading

\* The two instances of CycleDetector are the same state machine.
LEMMA SameMachine ==
  /\ Detector!Init => Proved!Init
  /\ [Detector!Next]_(Detector!vars) => [Proved!Next]_(Proved!vars)
<1>1. ASSUME NEW r, NEW s, NEW u
      PROVE  /\ Proved!Decide(r, s) = Decide(r, s)
             /\ Proved!ObservedRow(r, s, u) = ObservedRow(r, s, u)
             /\ Proved!ConfirmedRow(r, s) = ConfirmedRow(r, s)
  BY DEF Proved!Decide, Decide, Proved!Shift, Shift, Proved!Noise, Noise,
         Proved!Remaining, Remaining, Proved!FitsWeek, FitsWeek, Proved!Rearmed, Rearmed,
         Proved!UsageReset, UsageReset, Proved!FreshCycle, FreshCycle,
         Proved!CostDropped, CostDropped, Proved!BoundaryAhead, BoundaryAhead,
         Proved!EarlyReset, EarlyReset, Proved!DriftFollow, DriftFollow,
         Proved!KeptCost, KeptCost, Proved!Later, Later, Proved!ObservedRow, ObservedRow,
         Proved!ConfirmedRow, ConfirmedRow, Proved!NoRow, NoRow
<1>2. Detector!Init => Proved!Init
  BY DEF Detector!Init, Proved!Init, Detector!NoRow, Proved!NoRow
<1>3. ASSUME NEW s, Detector!Observe(s) PROVE Proved!Observe(s)
  BY <1>1, <1>3, SameDecisions DEF Detector!Observe, Proved!Observe
<1>4. ASSUME NEW s, Detector!Queue(s) PROVE Proved!Queue(s)
  <2>1. /\ Proved!Decide(rows[Watched], s) = Detector!Decide(rows[Watched], s)
        /\ Proved!ObservedRow(rows[Watched], s, TRUE) = Detector!ObservedRow(rows[Watched], s, TRUE)
        /\ Proved!ConfirmedRow(rows[Watched], s) = Detector!ConfirmedRow(rows[Watched], s)
    <3>1. /\ Proved!Decide(rows[Watched], s) = Decide(rows[Watched], s)
          /\ Proved!ObservedRow(rows[Watched], s, TRUE) = ObservedRow(rows[Watched], s, TRUE)
          /\ Proved!ConfirmedRow(rows[Watched], s) = ConfirmedRow(rows[Watched], s)
      BY <1>1, Zenon
    <3>2. /\ Detector!Decide(rows[Watched], s) = Decide(rows[Watched], s)
          /\ Detector!ObservedRow(rows[Watched], s, TRUE) = ObservedRow(rows[Watched], s, TRUE)
          /\ Detector!ConfirmedRow(rows[Watched], s) = ConfirmedRow(rows[Watched], s)
      BY SameDecisions, Zenon
    <3> QED
      BY <3>1, <3>2, Zenon
  <2> QED
    BY <1>4, <2>1, Zenon DEF Detector!Queue, Proved!Queue
<1>5. Detector!Next => Proved!Next
  BY <1>3, <1>4, Zenon DEF Detector!Next, Proved!Next
<1>6. Detector!vars = Proved!vars /\ Detector!vars' = Proved!vars'
  BY DEF Detector!vars, Proved!vars
<1> QED
  BY <1>2, <1>5, <1>6

\* In every behaviour of the executor, two events of one account are for boundaries
\* further apart than the noise of the estimate, or at least the minimal shift.
THEOREM EventsOfAccountSpaced == Spec => []Detector!EventsSpaced
<1>1. Proved!Spec => []Proved!EventsSpaced
  BY ProvedAssumptions, ThresholdAssumption, Proved!Spaced, Zenon
<1>2. Spec => Proved!Spec
  BY Refinement, SameMachine, PTL DEF ImplementsDetector, Detector!Spec, Proved!Spec
<1>3. Proved!EventsSpaced => Detector!EventsSpaced
  BY DEF Proved!EventsSpaced, Detector!EventsSpaced, Proved!Spacing, Detector!Spacing,
         Proved!Noise, Detector!Noise
<1> QED
  BY <1>1, <1>2, <1>3, PTL
=============================================================================
