-------------------------- MODULE AccountCycleProofs --------------------------
(***************************************************************************)
(* What the detector makes of an account that really has cycles, for every   *)
(* length of a week, threshold, jitter within the tolerances, slide of the   *)
(* window and use of reset cards, and without a bound on the clock.  The     *)
(* detector knows boundaries and sample times only; the invariant says which *)
(* window a boundary is of, up to the jitter, and that a cycle the detector  *)
(* has not been shown yet began no earlier than its last sample.             *)
(***************************************************************************)
EXTENDS AccountCycle, CycleDetectorProofs

Typed ==
  /\ now \in Nat
  /\ account \in [start : Nat, cycle : Nat, used : Nat, cost : Nat]
  /\ codex \in Published \union {NoRow}
  /\ seen \in [confirmed : Nat, start : Nat, latest : Nat]

\* Up to the jitter, the published reset time is that of the window it was published
\* in, and the row's boundary that of the window last confirmed.
OfWindow(resetAt, start) == \E e \in Errors : resetAt = start + Week + e

BoundariesOfWindows ==
  /\ codex # NoRow => OfWindow(codex.figures.resetAt, codex.start)
  /\ row # NoRow => OfWindow(row.resetAt, seen.start)

\* A cycle begins after all that was published in the one before it.
PublishedInOrder ==
  /\ account.start <= now
  /\ codex # NoRow => /\ codex.figures.sampleAt <= now
                      /\ codex.cycle <= account.cycle
                      /\ codex.cycle < account.cycle => codex.figures.sampleAt <= account.start

\* A cycle not shown yet began no earlier than the row's sample, and what is
\* published of it is later.
ShownInOrder ==
  row # NoRow =>
    /\ codex # NoRow
    /\ row.sampleAt <= codex.figures.sampleAt
    /\ seen.latest <= codex.cycle
    /\ seen.latest < codex.cycle => /\ row.sampleAt <= codex.start
                                    /\ row.sampleAt < codex.figures.sampleAt
    /\ seen.latest < account.cycle => row.sampleAt <= account.start

AccountInv == Inv /\ Typed /\ BoundariesOfWindows /\ PublishedInOrder /\ ShownInOrder

-----------------------------------------------------------------------------
(* What the executor reads *)

\* What is known of the constants.
LEMMA AccountParameters ==
  /\ Week \in Nat /\ Week > 0 /\ Tolerance \in Nat /\ Noise \in Nat /\ Spacing \in Nat
  /\ JitterTolerance \in Nat /\ JitterTolerance <= Noise
  /\ Absent \notin Int /\ Errors \subseteq Int /\ Slides \subseteq Nat /\ Bills \subseteq BOOLEAN
  /\ \A d, e \in Errors : -Tolerance <= e /\ e - d < Spacing
<1>1. /\ Week \in Nat \ {0} /\ Tolerance \in Nat /\ JitterTolerance \in Nat /\ MinCycleShift \in Nat
      /\ Absent \notin Int
  BY ThresholdAssumption, AbsentAssumption
<1>2. Noise \in Nat /\ JitterTolerance <= Noise
  BY <1>1 DEF Noise
<1>3. Spacing \in Nat
  BY <1>1, <1>2 DEF Spacing
<1> QED
  BY <1>1, <1>2, <1>3, AccountAssumption, ErrorsAssumption

\* The reset time and the sample time are the published ones, whatever the bill.
LEMMA ShownIsPublished ==
  ASSUME Typed, codex # NoRow, NEW billed
  PROVE  /\ codex \in Published
         /\ Shown(billed) \in Snapshot
         /\ Shown(billed).resetAt = codex.figures.resetAt
         /\ Shown(billed).sampleAt = codex.figures.sampleAt
         /\ codex.figures.resetAt \in Int /\ codex.figures.sampleAt \in Int
<1>1. codex \in Published
  BY DEF Typed
<1>2. codex.figures \in Snapshot
  BY <1>1 DEF Published
<1>3. PICK c \in Reading : c = IF billed THEN account.cost ELSE Absent
  BY DEF Typed, Reading
<1>4. Shown(billed) = [codex.figures EXCEPT !.cost = c]
  BY <1>3 DEF Shown
<1> QED
  BY <1>1, <1>2, <1>4 DEF Snapshot

\* A run of the executor leaves the row with the sample it was shown.  A boundary it
\* moves, because it is the first or because a reset is due, becomes the published one.
LEMMA CheckEffect ==
  ASSUME AccountInv, NEW billed, Check(billed)
  PROVE  LET s == Shown(billed) IN
         /\ Inv'
         /\ row' \in Row /\ row'.sampleAt = s.sampleAt
         /\ row # NoRow => s.sampleAt > row.sampleAt
         /\ Decide(row, s) \in {"baseline", "reset"} => row'.resetAt = s.resetAt
         /\ Decide(row, s) \notin {"baseline", "reset"} => row # NoRow /\ row'.resetAt = row.resetAt
         /\ Decide(row, s) = "reset" => row # NoRow /\ s.resetAt >= row.resetAt + Spacing
         /\ keys' # keys => Decide(row, s) = "reset"
<1>1. PICK s \in Snapshot : s = Shown(billed)
  BY ShownIsPublished DEF AccountInv, Check
<1>2. row \in Row \union {NoRow}
  BY DEF AccountInv, Inv, TypeOK
<1>3. Inv
  BY DEF AccountInv
<1>4. ASSUME Observe(s)
      PROVE  /\ Inv' /\ row' \in Row /\ row'.sampleAt = s.sampleAt /\ keys' = keys
             /\ row # NoRow => s.sampleAt > row.sampleAt
             /\ Decide(row, s) # "reset"
             /\ Decide(row, s) = "baseline" => row'.resetAt = s.resetAt
             /\ Decide(row, s) # "baseline" => row # NoRow /\ row'.resetAt = row.resetAt
  <2> DEFINE u == Decide(row, s) = "baseline"
  <2>1. u \in BOOLEAN /\ row' = ObservedRow(row, s, u) /\ keys' = keys /\ Decide(row, s) \notin {"stale", "reset"}
    BY <1>4 DEF Observe
  <2>2. u <=> row = NoRow
    BY DEF Decide
  <2>3. /\ row' \in Row /\ row'.sampleAt = s.sampleAt
        /\ row # NoRow /\ ~u => row'.resetAt = row.resetAt
    BY <1>2, <2>1, ObservedRowType
  <2>4. row = NoRow => row'.resetAt = s.resetAt
    BY <2>1 DEF ObservedRow
  <2>5. row # NoRow => s.sampleAt > row.sampleAt
    BY <1>2, <2>1 DEF Decide, Row, Snapshot
  <2> QED
    BY <1>3, <1>4, <2>1, <2>2, <2>3, <2>4, <2>5, ObserveInv
<1>5. ASSUME Queue(s)
      PROVE  /\ Inv' /\ row' \in Row /\ row'.sampleAt = s.sampleAt /\ row'.resetAt = s.resetAt
             /\ Decide(row, s) = "reset" /\ row # NoRow
             /\ s.sampleAt > row.sampleAt /\ s.resetAt >= row.resetAt + Spacing
  <2>1. Decide(row, s) = "reset"
    BY <1>5 DEF Queue
  <2>2. row' = ConfirmedRow(row, s)
    BY <1>3, <1>5, <2>1, FreshKey DEF Queue
  <2> QED
    BY <1>2, <1>3, <1>5, <2>1, <2>2, QueueInv, ConfirmedRowType, ResetMovesBoundary
<1>6. Observe(s) \/ Queue(s)
  BY <1>1 DEF Check
<1> QED
  BY <1>1, <1>4, <1>5, <1>6

-----------------------------------------------------------------------------
(* The invariant, action by action *)

\* What the upstream does leaves the detector as it is.
LEMMA DetectorKept ==
  ASSUME Inv, UNCHANGED <<row, keys>>
  PROVE  Inv'
BY DEF Inv, TypeOK, BoundaryIsConfirmed, EventsSpaced

\* Time only puts more between a sample and the next.
LEMMA ElapseInv ==
  ASSUME AccountInv, Elapse
  PROVE  AccountInv'
<1>1. now' = now + 1 /\ UNCHANGED <<row, keys, account, codex, seen>>
  BY DEF Elapse
<1>2. Inv' /\ Typed'
  BY <1>1, DetectorKept DEF AccountInv, Typed
<1>3. BoundariesOfWindows' /\ ShownInOrder'
  BY <1>1 DEF AccountInv, BoundariesOfWindows, ShownInOrder
<1>4. PublishedInOrder'
  BY <1>1 DEF AccountInv, PublishedInOrder, Typed, Published, Snapshot
<1> QED
  BY <1>2, <1>3, <1>4 DEF AccountInv

\* A response publishes the window it falls in, at a time later than all samples.
LEMMA RequestInv ==
  ASSUME AccountInv, NEW e \in Errors, NEW burn \in 0..1, NEW told, Request(e, burn, told)
  PROVE  AccountInv'
<1>1. PICK a :
        /\ a = IF now >= account.start + Week
               THEN [start |-> now, cycle |-> account.cycle + 1, used |-> burn, cost |-> burn]
               ELSE [account EXCEPT !.used = @ + burn, !.cost = @ + burn]
        /\ account' = a
        /\ codex' = [cycle |-> a.cycle, start |-> a.start, figures |-> Figures(a, e, told)]
        /\ codex # NoRow => now > codex.figures.sampleAt
        /\ a.start + Week + e >= now
        /\ UNCHANGED <<row, keys, now, seen>>
  BY DEF Request
<1>2. /\ now \in Nat /\ account.start \in Nat /\ account.cycle \in Nat
      /\ account.used \in Nat /\ account.cost \in Nat
      /\ account.start <= now /\ Week \in Nat /\ e \in Int
  BY AccountParameters DEF AccountInv, Typed, PublishedInOrder
<1>3. /\ a \in [start : Nat, cycle : Nat, used : Nat, cost : Nat]
      /\ a.start <= now
      /\ \/ a.start = account.start /\ a.cycle = account.cycle
         \/ a.start = now /\ a.cycle = account.cycle + 1
  <2>1. CASE now >= account.start + Week
    BY <1>1, <1>2, <2>1
  <2>2. CASE ~(now >= account.start + Week)
    <3>1. PICK u \in Nat, c \in Nat : u = account.used + burn /\ c = account.cost + burn
      BY <1>2
    <3>2. a = [account EXCEPT !.used = u, !.cost = c]
      BY <1>1, <2>2, <3>1
    <3>3. account \in [start : Nat, cycle : Nat, used : Nat, cost : Nat]
      BY DEF AccountInv, Typed
    <3> QED
      BY <1>2, <3>2, <3>3
  <2> QED
    BY <2>1, <2>2
<1>4. /\ Figures(a, e, told) \in Snapshot
      /\ Figures(a, e, told).resetAt = a.start + Week + e
      /\ Figures(a, e, told).sampleAt = now
  BY <1>1, <1>2, <1>3 DEF Figures, Snapshot, Reading
<1>5. /\ codex' \in Published /\ codex' # NoRow
      /\ codex'.cycle = a.cycle /\ codex'.start = a.start
      /\ codex'.figures.resetAt = a.start + Week + e /\ codex'.figures.sampleAt = now
  <2>1. PICK f \in Snapshot : f = Figures(a, e, told)
    BY <1>4
  <2>2. codex' = [cycle |-> a.cycle, start |-> a.start, figures |-> f]
    BY <1>1, <2>1
  <2>3. a.cycle \in Nat /\ a.start \in Nat
    BY <1>3
  <2>4. codex' \in Published
    BY <2>2, <2>3 DEF Published
  <2> QED
    BY <1>4, <2>1, <2>2, <2>4, NoRowAssumption
<1>6. Inv' /\ Typed'
  BY <1>1, <1>3, <1>5, DetectorKept DEF AccountInv, Typed
<1>7. BoundariesOfWindows'
  <2>1. OfWindow(codex'.figures.resetAt, codex'.start)
    BY <1>5 DEF OfWindow
  <2> QED
    BY <1>1, <2>1 DEF AccountInv, BoundariesOfWindows
<1>8. PublishedInOrder'
  BY <1>1, <1>2, <1>3, <1>5 DEF PublishedInOrder
<1>9. ShownInOrder'
  <2> SUFFICES ASSUME row # NoRow
               PROVE  /\ row.sampleAt <= now
                      /\ seen.latest <= a.cycle
                      /\ seen.latest < a.cycle => row.sampleAt <= a.start /\ row.sampleAt < now
    BY <1>1, <1>5 DEF ShownInOrder
  <2>1. /\ codex # NoRow /\ row.sampleAt <= codex.figures.sampleAt /\ codex.figures.sampleAt < now
        /\ seen.latest <= codex.cycle /\ codex.cycle <= account.cycle
        /\ seen.latest < account.cycle => row.sampleAt <= account.start
    BY <1>1 DEF AccountInv, ShownInOrder, PublishedInOrder, Typed, Published, Snapshot
  <2>2. /\ row.sampleAt \in Int /\ codex.figures.sampleAt \in Int
        /\ seen.latest \in Nat /\ codex.cycle \in Nat
    BY <2>1 DEF AccountInv, Inv, TypeOK, Row, Typed, Published, Snapshot
  <2> QED
    BY <1>2, <1>3, <2>1, <2>2
<1> QED
  BY <1>6, <1>7, <1>8, <1>9 DEF AccountInv

\* A card begins a cycle now, after all that was published.
LEMMA UseCardInv ==
  ASSUME AccountInv, UseCard
  PROVE  AccountInv'
<1>1. /\ account' = [start |-> now, cycle |-> account.cycle + 1, used |-> 0, cost |-> 0]
      /\ UNCHANGED <<row, keys, now, codex, seen>>
  BY DEF UseCard
<1>2. Inv' /\ Typed'
  BY <1>1, DetectorKept DEF AccountInv, Typed
<1>3. BoundariesOfWindows'
  BY <1>1 DEF AccountInv, BoundariesOfWindows
<1>4. PublishedInOrder'
  BY <1>1 DEF AccountInv, PublishedInOrder, Typed, Published
<1>5. ShownInOrder'
  <2> SUFFICES ASSUME row # NoRow
               PROVE  row.sampleAt <= now
    BY <1>1 DEF AccountInv, ShownInOrder
  <2>1. codex # NoRow /\ row.sampleAt <= codex.figures.sampleAt /\ codex.figures.sampleAt <= now
    BY DEF AccountInv, ShownInOrder, PublishedInOrder
  <2>2. row.sampleAt \in Int /\ codex.figures.sampleAt \in Int /\ now \in Int
    BY <2>1 DEF AccountInv, Inv, TypeOK, Row, Typed, Published, Snapshot
  <2> QED
    BY <2>1, <2>2
<1> QED
  BY <1>2, <1>3, <1>4, <1>5 DEF AccountInv

\* A window that slides only begins later.
LEMMA SlideInv ==
  ASSUME AccountInv, NEW d \in Slides, Slide(d)
  PROVE  AccountInv'
<1>1. PICK c \in 0..account.cost :
        /\ account' = [account EXCEPT !.start = @ + d, !.cost = c]
        /\ account.start + d <= now /\ UNCHANGED <<row, keys, now, codex, seen>>
  BY DEF Slide
<1>2. /\ d \in Nat /\ account.start \in Nat /\ account.cost \in Nat
  BY AccountParameters DEF AccountInv, Typed
<1>0. account.start + d \in Nat /\ c \in Nat /\ account \in [start : Nat, cycle : Nat, used : Nat, cost : Nat]
  BY <1>2 DEF AccountInv, Typed
<1>3. /\ account' \in [start : Nat, cycle : Nat, used : Nat, cost : Nat]
      /\ account'.cycle = account.cycle /\ account'.start >= account.start /\ account'.start <= now
  <2>1. PICK begins \in Nat : begins = account.start + d
    BY <1>0
  <2>2. account' = [account EXCEPT !.start = begins, !.cost = c]
    BY <1>1, <2>1
  <2>3. /\ account' \in [start : Nat, cycle : Nat, used : Nat, cost : Nat]
        /\ account'.cycle = account.cycle /\ account'.start = begins
    BY <1>0, <2>2
  <2>4. begins >= account.start /\ begins <= now
    BY <1>1, <1>2, <2>1
  <2> QED
    BY <2>3, <2>4
<1>4. Inv' /\ Typed'
  BY <1>1, <1>3, DetectorKept DEF AccountInv, Typed
<1>5. BoundariesOfWindows'
  BY <1>1 DEF AccountInv, BoundariesOfWindows
<1>6. PublishedInOrder'
  BY <1>1, <1>2, <1>3 DEF AccountInv, PublishedInOrder, Typed, Published, Snapshot
<1>7. ShownInOrder'
  BY <1>1, <1>2, <1>3 DEF AccountInv, ShownInOrder, Inv, TypeOK, Row
<1> QED
  BY <1>4, <1>5, <1>6, <1>7 DEF AccountInv

\* A run of the executor is shown the cycle published last, and a boundary it
\* confirms is that cycle's.
LEMMA CheckInv ==
  ASSUME AccountInv, NEW billed, Check(billed)
  PROVE  AccountInv'
<1>1. PICK s : s = Shown(billed)
  OBVIOUS
<1> DEFINE confirms == Decide(row, s) \in {"baseline", "reset"}
<1>2. /\ codex # NoRow /\ UNCHANGED <<now, account, codex>>
      /\ seen' = [confirmed |-> IF confirms THEN codex.cycle ELSE seen.confirmed,
                  start |-> IF confirms THEN codex.start ELSE seen.start,
                  latest |-> codex.cycle]
  BY <1>1 DEF Check
<1>3. /\ codex \in Published /\ s.resetAt = codex.figures.resetAt
      /\ s.sampleAt = codex.figures.sampleAt /\ codex.figures.sampleAt \in Int
  BY <1>1, <1>2, ShownIsPublished DEF AccountInv
<1>4. /\ Inv' /\ row' \in Row /\ row'.sampleAt = s.sampleAt
      /\ confirms => row'.resetAt = s.resetAt
      /\ ~confirms => row # NoRow /\ row'.resetAt = row.resetAt
  BY <1>1, CheckEffect
<1>5. Typed'
  BY <1>2, <1>3 DEF AccountInv, Typed, Published
<1>6. BoundariesOfWindows'
  <2>1. OfWindow(row'.resetAt, seen'.start)
    BY <1>2, <1>3, <1>4 DEF AccountInv, BoundariesOfWindows
  <2> QED
    BY <1>2, <2>1 DEF AccountInv, BoundariesOfWindows
<1>7. PublishedInOrder'
  BY <1>2 DEF AccountInv, PublishedInOrder
<1>8. ShownInOrder'
  BY <1>2, <1>3, <1>4 DEF AccountInv, ShownInOrder, PublishedInOrder, Published
<1> QED
  BY <1>4, <1>5, <1>6, <1>7, <1>8 DEF AccountInv

\* Nothing is published and nothing known to begin with.
LEMMA AccountInitInv == AccountInit => AccountInv
<1> SUFFICES ASSUME AccountInit PROVE AccountInv
  OBVIOUS
<1>1. Inv
  BY InitInv DEF AccountInit
<1>2. Typed /\ BoundariesOfWindows /\ PublishedInOrder /\ ShownInOrder
  BY DEF AccountInit, Init, Typed, BoundariesOfWindows, PublishedInOrder, ShownInOrder
<1> QED
  BY <1>1, <1>2 DEF AccountInv

\* Every step keeps the invariant.
LEMMA AccountNextInv == AccountInv /\ [AccountNext]_allVars => AccountInv'
<1> SUFFICES ASSUME AccountInv, [AccountNext]_allVars PROVE AccountInv'
  OBVIOUS
<1>1. CASE UpstreamNext
  BY <1>1, ElapseInv, RequestInv, UseCardInv, SlideInv DEF UpstreamNext
<1>2. CASE \E billed \in Bills : Check(billed)
  BY <1>2, CheckInv
<1>3. CASE UNCHANGED allVars
  <2>1. UNCHANGED <<row, keys, now, account, codex, seen>>
    BY <1>3 DEF allVars
  <2>2. Inv'
    BY <2>1, DetectorKept DEF AccountInv
  <2> QED
    BY <2>1, <2>2 DEF AccountInv, Typed, BoundariesOfWindows, PublishedInOrder, ShownInOrder
<1> QED
  BY <1>1, <1>2, <1>3 DEF AccountNext

-----------------------------------------------------------------------------

\* In every behaviour of account and detector the invariant holds.
THEOREM AccountInvariance == AccountSpec => []AccountInv
<1> QED
  BY AccountInitInv, AccountNextInv, PTL DEF AccountSpec

\* The boundary compared with is that of the latest event for the simulated account
\* too, and its events are spaced: it is one of the accounts the detector may watch.
THEOREM AccountEventsSpaced == AccountSpec => [](BoundaryIsConfirmed /\ EventsSpaced)
<1>1. AccountInv => BoundaryIsConfirmed /\ EventsSpaced
  BY DEF AccountInv, Inv
<1> QED
  BY <1>1, AccountInvariance, PTL

\* Nor does the row of the simulated account ever go back, or its boundary move by
\* less than Spacing: what slides, jitters and cards do to the published figures
\* reaches the row only as a whole step forward.
THEOREM AccountNeverRetreats == AccountSpec => NeverRetreats
<1>1. ASSUME AccountInv, [AccountNext]_allVars, row # NoRow, ~UNCHANGED vars
      PROVE  /\ row' # NoRow
             /\ row'.sampleAt > row.sampleAt
             /\ row'.resetAt = row.resetAt \/ row'.resetAt >= row.resetAt + Spacing
  <2>1. PICK billed \in Bills : Check(billed)
    BY <1>1 DEF AccountNext, UpstreamNext, Elapse, Request, UseCard, Slide, allVars, vars
  <2>2. PICK s : s = Shown(billed)
    OBVIOUS
  <2>3. /\ row' \in Row /\ row'.sampleAt = s.sampleAt /\ s.sampleAt > row.sampleAt
        /\ Decide(row, s) \in {"baseline", "reset"} => row'.resetAt = s.resetAt
        /\ Decide(row, s) \notin {"baseline", "reset"} => row'.resetAt = row.resetAt
        /\ Decide(row, s) = "reset" => s.resetAt >= row.resetAt + Spacing
    BY <1>1, <2>1, <2>2, CheckEffect
  <2>4. Decide(row, s) # "baseline"
    BY <1>1 DEF Decide
  <2> QED
    BY <2>3, <2>4, AbsentAssumption
<1> QED
  BY <1>1, AccountInvariance, PTL DEF AccountSpec, NeverRetreats

\* A reset is only ever queued for a window that really begins later than the one last
\* confirmed.  The boundary moved by Spacing or more, of which the jitter of the two
\* published times is less, so the window moved too.
THEOREM ResetsFollowWindows == AccountSpec => ResetFollowsWindow
<1>1. ASSUME AccountInv, [AccountNext]_allVars, keys' # keys
      PROVE  codex.start > seen.start
  <2>1. PICK billed \in Bills : Check(billed)
    BY <1>1 DEF AccountNext, UpstreamNext, Elapse, Request, UseCard, Slide, allVars
  <2>2. codex # NoRow
    BY <2>1 DEF Check
  <2>3. row # NoRow /\ codex.figures.resetAt >= row.resetAt + Spacing
    BY <1>1, <2>1, <2>2, CheckEffect, ShownIsPublished DEF AccountInv
  <2>4. PICK e \in Errors : codex.figures.resetAt = codex.start + Week + e
    BY <1>1, <2>2 DEF AccountInv, BoundariesOfWindows, OfWindow
  <2>5. PICK d \in Errors : row.resetAt = seen.start + Week + d
    BY <1>1, <2>3 DEF AccountInv, BoundariesOfWindows, OfWindow
  <2>6. codex.start \in Nat /\ seen.start \in Nat
    BY <1>1, <2>2 DEF AccountInv, Typed, Published
  <2>7. d \in Int /\ e \in Int /\ e - d < Spacing /\ Week \in Nat /\ Spacing \in Nat
    BY AccountParameters
  <2> QED
    BY <2>3, <2>4, <2>5, <2>6, <2>7
<1> QED
  BY <1>1, AccountInvariance, PTL DEF AccountSpec, ResetFollowsWindow

\* The first look at a later cycle that shows the usage dropped is the one that queues
\* the reset.  The cycle began after the row's sample, so whatever the bill it passes
\* for a fresh one (EarlyReset), and no earlier branch of decide gets in the way.
THEOREM RefreshesDetected == AccountSpec => []DetectsRefresh
<1>1. ASSUME AccountInv, codex # NoRow, row # NoRow, NEW billed \in Bills, NEW s, s = Shown(billed),
             codex.cycle > seen.latest, UsageReset(row, s), Rearmed(s), Shift(row, s) > Noise
      PROVE  Decide(row, s) = "reset"
  <2>1. /\ s \in Snapshot /\ codex \in Published
        /\ s.resetAt = codex.figures.resetAt /\ s.sampleAt = codex.figures.sampleAt
    BY <1>1, ShownIsPublished DEF AccountInv
  <2>2. s.resetAt \in Int /\ s.sampleAt \in Int /\ codex.start \in Nat /\ codex.cycle \in Nat
    BY <2>1 DEF Snapshot, Published
  <2>3. row.resetAt \in Int /\ row.sampleAt \in Int /\ seen.latest \in Nat
    BY <1>1 DEF AccountInv, Inv, TypeOK, Row, Typed
  <2>4. row.sampleAt < s.sampleAt /\ row.sampleAt <= codex.start
    BY <1>1, <2>1, <2>2, <2>3 DEF AccountInv, ShownInOrder
  <2>5. PICK e \in Errors : s.resetAt = codex.start + Week + e
    BY <1>1, <2>1 DEF AccountInv, BoundariesOfWindows, OfWindow
  <2>6. e \in Int /\ -Tolerance <= e /\ Week \in Nat /\ Tolerance \in Nat
    BY AccountParameters
  <2>7. row.sampleAt - Tolerance <= s.resetAt - Week
    BY <2>2, <2>3, <2>4, <2>5, <2>6
  <2>8. s.resetAt - Week <= s.sampleAt + Tolerance
    BY <1>1, <2>2, <2>6 DEF Rearmed, FitsWeek, Remaining
  <2>9. EarlyReset(row, s)
    BY <1>1, <2>7, <2>8 DEF EarlyReset, FreshCycle
  <2>10. ~(s.sampleAt <= row.sampleAt) /\ ~(Shift(row, s) < -JitterTolerance)
    BY <1>1, <2>2, <2>3, <2>4, AccountParameters DEF Shift
  <2> QED
    BY <1>1, <2>9, <2>10 DEF Decide
<1>2. AccountInv => DetectsRefresh
  BY <1>1 DEF DetectsRefresh
<1> QED
  BY <1>2, AccountInvariance, PTL
=============================================================================
