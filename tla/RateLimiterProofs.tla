------------------------- MODULE RateLimiterProofs -------------------------
(***************************************************************************)
(* Proofs about RateLimiter, for any senders, threads, limits, windows and   *)
(* delays.  The deque of a sender is compared with the times at which his    *)
(* requests were really admitted: it holds the readings of the last ones,    *)
(* each off by at most the delay, and what it no longer holds was admitted   *)
(* at least a window less the delay ago.                                     *)
(***************************************************************************)
EXTENDS RateLimiter, WellFoundedInduction, SequenceTheorems, TLAPS

\* A reading is not older than MaxDelay when it is compared.
ReadingsAreRecent ==
  \A t \in Threads :
    asking[t] # None => asking[t].now <= clock /\ clock - asking[t].now <= MaxDelay

\* Admissions are logged in order.
LogIsSorted ==
  \A s \in Senders :
    /\ \A i \in DOMAIN log[s] : log[s][i] <= clock
    /\ \A i, j \in DOMAIN log[s] : i <= j => log[s][i] <= log[s][j]

\* The admissions of a sender that are no longer in his deque.
Forgotten(s) == Len(log[s]) - Len(events[s])

\* The deque holds the readings of the last admissions.
DequeIsSuffix ==
  \A s \in Senders :
    /\ Forgotten(s) >= 0
    /\ \A k \in 1..Len(events[s]) :
         events[s][k] <= log[s][Forgotten(s) + k] /\ log[s][Forgotten(s) + k] <= events[s][k] + MaxDelay

\* What the deque no longer holds is old.
ForgottenAreOld ==
  \A s \in Senders : \A k \in 1..Forgotten(s) : log[s][k] <= clock - Window + MaxDelay

IInv ==
  /\ TypeOK
  /\ ReadingsAreRecent
  /\ LogIsSorted
  /\ DequeIsSuffix
  /\ ForgottenAreOld
  /\ AdmitsAtMostLimit

\* A set of naturals has a least member.
LEMMA Least ==
  ASSUME NEW ids, ids \subseteq Nat, ids # {}
  PROVE  \E i \in ids : \A j \in ids : i <= j
<1>1. PICK i \in ids : \A j \in ids : <<j, i>> \notin OpToRel(<, Nat)
  BY WFMin, NatLessThanWellFounded, Zenon
<1>2. \A j \in ids : ~(j < i)
  BY <1>1, Zenon DEF OpToRel
<1> QED
  BY <1>2

\* The d oldest readings are dropped and the others kept.
Drops(live, readings, now, d) ==
  /\ Len(live) = Len(readings) - d
  /\ \A k \in 1..(Len(readings) - d) : live[k] = readings[d + k]
  /\ \A k \in 1..d : readings[k] <= now - Window
  /\ d < Len(readings) => readings[d + 1] > now - Window

\* Dropping from the head leaves a suffix: all that was dropped is out of the
\* window, and the new head is not.
LEMMA LiveIsSuffix ==
  ASSUME NEW readings \in Seq(Nat), NEW now \in Nat
  PROVE  /\ Live(readings, now) \in Seq(Nat)
         /\ \E d \in 0..Len(readings) : Drops(Live(readings, now), readings, now, d)
<1> DEFINE fresh == {i \in DOMAIN readings : readings[i] > now - Window}
<1>1. Len(readings) \in Nat /\ DOMAIN readings = 1..Len(readings)
      /\ \A i \in 1..Len(readings) : readings[i] \in Nat
  BY LenProperties, ElementOfSeq
<1>2. Window \in Nat
  BY RateLimiterAssumption
<1>3. ASSUME NEW k \in 1..Len(readings), k \notin fresh
      PROVE  readings[k] <= now - Window
  BY <1>1, <1>2, <1>3
<1>4. CASE fresh = {}
  <2>1. Live(readings, now) = <<>>
    BY <1>4 DEF Live
  <2>2. \A k \in 1..Len(readings) : readings[k] <= now - Window
    BY <1>3, <1>4
  <2>3. Drops(<<>>, readings, now, Len(readings))
    BY <2>2, <1>1 DEF Drops
  <2> QED
    BY <2>1, <2>3, <1>1
<1>5. CASE fresh # {}
  <2> DEFINE h == CHOOSE i \in fresh : \A j \in fresh : i <= j
  <2>1. h \in fresh /\ \A j \in fresh : h <= j
    <3>1. fresh \subseteq Nat
      BY <1>1
    <3>2. \E i \in fresh : \A j \in fresh : i <= j
      BY <3>1, <1>5, Least, Zenon
    <3> QED
      BY <3>2
  <2>2. Live(readings, now) = SubSeq(readings, h, Len(readings))
    BY <1>5 DEF Live
  <2> HIDE DEF h
  <2>3. h \in 1..Len(readings) /\ readings[h] > now - Window
    BY <1>1, <2>1
  <2>4. ASSUME NEW k \in 1..(h - 1)
        PROVE  readings[k] <= now - Window
    <3>1. k \in 1..Len(readings) /\ ~(h <= k)
      BY <1>1, <2>3
    <3> QED
      BY <3>1, <2>1, <1>3
  <2>5. /\ SubSeq(readings, h, Len(readings)) \in Seq(Nat)
        /\ Len(SubSeq(readings, h, Len(readings))) = Len(readings) - h + 1
        /\ \A k \in 1..(Len(readings) - h + 1) :
             SubSeq(readings, h, Len(readings))[k] = readings[h + k - 1]
    BY <1>1, <2>3, SubSeqProperties
  <2>6. Drops(Live(readings, now), readings, now, h - 1)
    BY <1>1, <2>2, <2>3, <2>4, <2>5 DEF Drops
  <2>7. h - 1 \in 0..Len(readings)
    BY <1>1, <2>3
  <2> QED
    BY <2>2, <2>5, <2>6, <2>7
<1> QED
  BY <1>4, <1>5

\* A deque of the readings of the last admissions, all others being old.
Suffix(readings, times) ==
  LET f == Len(times) - Len(readings) IN
  /\ f >= 0
  /\ \A k \in 1..Len(readings) :
       readings[k] <= times[f + k] /\ times[f + k] <= readings[k] + MaxDelay
  /\ \A k \in 1..f : times[k] <= clock - Window + MaxDelay

LEMMA SuffixIs ==
  DequeIsSuffix /\ ForgottenAreOld <=> \A s \in Senders : Suffix(events[s], log[s])
BY DEF DequeIsSuffix, ForgottenAreOld, Suffix, Forgotten

\* Dropping at a reading that has come about keeps a deque one of the last
\* admissions, and its head then is fresh.
LEMMA DroppingKeepsSuffix ==
  ASSUME NEW readings \in Seq(Nat), NEW times \in Seq(Nat), NEW now \in Nat, clock \in Nat,
         now <= clock, Suffix(readings, times)
  PROVE  LET live == Live(readings, now) IN
         /\ live \in Seq(Nat)
         /\ Suffix(live, times)
         /\ Len(live) # 0 => live[1] > now - Window
<1> DEFINE live == Live(readings, now)
<1>1. PICK d \in 0..Len(readings) : Drops(live, readings, now, d)
  BY LiveIsSuffix
<1>2. live \in Seq(Nat) /\ Len(live) \in Nat
  BY LiveIsSuffix, LenProperties
<1> HIDE DEF live
<1>3. /\ Len(readings) \in Nat /\ Len(times) \in Nat /\ Window \in Nat /\ MaxDelay \in Nat
      /\ \A k \in 1..Len(readings) : readings[k] \in Nat
      /\ \A k \in 1..Len(times) : times[k] \in Nat
  BY LenProperties, ElementOfSeq, RateLimiterAssumption
<1> DEFINE e == Len(times) - Len(readings)
           f == Len(times) - Len(live)
<1>4. f = e + d /\ e \in Nat /\ f \in Nat
  BY <1>1, <1>2, <1>3 DEF Drops, Suffix
<1>5. ASSUME NEW k \in 1..Len(live)
      PROVE  live[k] <= times[f + k] /\ times[f + k] <= live[k] + MaxDelay
  <2>1. d + k \in 1..Len(readings) /\ f + k = e + (d + k) /\ live[k] = readings[d + k]
    BY <1>1, <1>2, <1>3, <1>4 DEF Drops
  <2> QED
    BY <2>1 DEF Suffix
<1>6. ASSUME NEW k \in 1..f
      PROVE  times[k] <= clock - Window + MaxDelay
  <2>1. CASE k <= e
    BY <2>1, <1>4 DEF Suffix
  <2>2. CASE k > e
    <3> HIDE DEF f
    <3>0. d \in Nat /\ d <= Len(readings)
      BY <1>1, <1>3
    <3>1. k - e \in 1..d /\ k - e \in 1..Len(readings) /\ e + (k - e) = k /\ k \in 1..Len(times)
      <4> HIDE DEF e
      <4>1. k \in Nat /\ k <= e + d /\ k > e /\ e \in Nat
        BY <2>2, <1>4
      <4>2. e + d <= Len(times)
        BY <3>0, <1>3 DEF e
      <4> QED
        BY <4>1, <4>2, <3>0, <1>3
    <3>2. readings[k - e] <= now - Window
      BY <3>1, <1>1 DEF Drops
    <3>3. times[k] <= readings[k - e] + MaxDelay
      BY <3>1 DEF Suffix
    <3>4. times[k] \in Nat /\ readings[k - e] \in Nat
      BY <3>1, <1>3
    <3> QED
      BY <3>2, <3>3, <3>4, <1>3
  <2> QED
    BY <2>1, <2>2, <1>4
<1>7. ASSUME Len(live) # 0
      PROVE  live[1] > now - Window
  <2>1. d < Len(readings) /\ 1 \in 1..(Len(readings) - d)
    <3>1. Len(live) = Len(readings) - d
      BY <1>1 DEF Drops
    <3> QED
      BY <3>1, <1>2, <1>3, <1>7
  <2>2. live[1] = readings[d + 1]
    BY <2>1, <1>1 DEF Drops
  <2> QED
    BY <2>1, <2>2, <1>1 DEF Drops
<1>8. Suffix(live, times)
  BY <1>4, <1>5, <1>6 DEF Suffix
<1> QED
  BY <1>2, <1>7, <1>8 DEF live

-----------------------------------------------------------------------------
(* The inductive invariant *)

LEMMA InitIInv == Init => IInv
<1> SUFFICES ASSUME Init PROVE IInv
  OBVIOUS
<1> USE DEF Init
<1>1. TypeOK
  BY RateLimiterAssumption, EmptySeq DEF TypeOK
<1>2. ReadingsAreRecent /\ LogIsSorted /\ AdmitsAtMostLimit
  BY DEF ReadingsAreRecent, LogIsSorted, AdmitsAtMostLimit
<1>3. DequeIsSuffix /\ ForgottenAreOld
  BY DEF DequeIsSuffix, ForgottenAreOld, Forgotten
<1> QED
  BY <1>1, <1>2, <1>3 DEF IInv

\* What the types tell about a sender.
LEMMA Typed ==
  ASSUME TypeOK, NEW s \in Senders
  PROVE  /\ events[s] \in Seq(Nat) /\ log[s] \in Seq(Nat) /\ clock \in Nat
         /\ Len(events[s]) \in Nat /\ Len(log[s]) \in Nat
         /\ DOMAIN log[s] = 1..Len(log[s])
         /\ \A i \in 1..Len(log[s]) : log[s][i] \in Nat
         /\ \A i \in 1..Len(events[s]) : events[s][i] \in Nat
BY LenProperties, ElementOfSeq DEF TypeOK

LEMMA TickStep == IInv /\ Tick => IInv'
<1> SUFFICES ASSUME IInv, Tick PROVE IInv'
  OBVIOUS
<1> USE DEF IInv
<1>1. /\ clock \in Nat /\ clock' = clock + 1 /\ events' = events /\ asking' = asking /\ log' = log
      /\ Window \in Nat /\ MaxDelay \in Nat
  BY RateLimiterAssumption DEF Tick, TypeOK
<1>2. TypeOK'
  BY <1>1 DEF TypeOK
<1>3. ReadingsAreRecent'
  BY <1>1 DEF ReadingsAreRecent, Tick, TypeOK
<1>4. LogIsSorted'
  BY <1>1, Typed DEF LogIsSorted
<1>5. DequeIsSuffix' /\ AdmitsAtMostLimit'
  BY <1>1 DEF DequeIsSuffix, AdmitsAtMostLimit, Forgotten
<1>6. ForgottenAreOld'
  <2>1. ASSUME NEW s \in Senders, NEW k \in 1..(Len(log[s]) - Len(events[s]))
        PROVE  log[s][k] <= clock' - Window + MaxDelay
    <3>1. log[s][k] <= clock - Window + MaxDelay
      BY DEF ForgottenAreOld, Forgotten
    <3>2. log[s][k] \in Nat
      BY Typed
    <3> QED
      BY <3>1, <3>2, <1>1
  <2> QED
    BY <2>1, <1>1 DEF ForgottenAreOld, Forgotten
<1> QED
  BY <1>2, <1>3, <1>4, <1>5, <1>6

LEMMA AskStep ==
  ASSUME IInv, NEW t \in Threads, NEW s \in Senders, Ask(t, s)
  PROVE  IInv'
<1> USE DEF IInv
<1>1. /\ asking' = [asking EXCEPT ![t] = [sender |-> s, now |-> clock]]
      /\ clock \in Nat /\ clock' = clock /\ events' = events /\ log' = log /\ MaxDelay \in Nat
  BY RateLimiterAssumption DEF Ask, TypeOK
<1>2. TypeOK'
  BY <1>1 DEF TypeOK
<1>3. ReadingsAreRecent'
  BY <1>1 DEF ReadingsAreRecent, TypeOK
<1>4. LogIsSorted' /\ DequeIsSuffix' /\ ForgottenAreOld' /\ AdmitsAtMostLimit'
  BY <1>1 DEF LogIsSorted, DequeIsSuffix, ForgottenAreOld, AdmitsAtMostLimit, Forgotten
<1> QED
  BY <1>2, <1>3, <1>4

\* What a thread finds when it has the lock.
LEMMA Found ==
  ASSUME IInv, NEW t \in Threads, asking[t] # None
  PROVE  LET s == asking[t].sender
             live == Live(events[s], asking[t].now)
         IN /\ s \in Senders /\ asking[t].now \in Nat
            /\ asking[t].now <= clock /\ clock - asking[t].now <= MaxDelay
            /\ live \in Seq(Nat) /\ Len(live) \in Nat
            /\ Suffix(live, log[s])
            /\ Len(live) # 0 => live[1] > asking[t].now - Window
<1> USE DEF IInv
<1> DEFINE s == asking[t].sender
<1>1. s \in Senders /\ asking[t].now \in Nat
  BY DEF TypeOK
<1>2. asking[t].now <= clock /\ clock - asking[t].now <= MaxDelay
  BY DEF ReadingsAreRecent
<1>3. events[s] \in Seq(Nat) /\ log[s] \in Seq(Nat) /\ clock \in Nat
  BY <1>1, Typed
<1>4. Suffix(events[s], log[s])
  BY <1>1, SuffixIs
<1> QED
  BY <1>1, <1>2, <1>3, <1>4, DroppingKeepsSuffix, LenProperties

LEMMA RefuseStep ==
  ASSUME IInv, NEW t \in Threads, Refuse(t)
  PROVE  IInv'
<1> USE DEF IInv
<1> DEFINE s == asking[t].sender
           live == Live(events[s], asking[t].now)
<1>1. /\ asking[t] # None /\ asking' = [asking EXCEPT ![t] = None]
      /\ events' = [events EXCEPT ![s] = live] /\ clock' = clock /\ log' = log
  BY DEF Refuse
<1>2. s \in Senders /\ live \in Seq(Nat) /\ Suffix(live, log[s])
  BY <1>1, Found
<1>3. Len(live) <= Len(events[s])
  <2>1. PICK d \in 0..Len(events[s]) : Drops(live, events[s], asking[t].now, d)
    BY <1>1, <1>2, Found, Typed, LiveIsSuffix
  <2> QED
    BY <2>1, <1>2, Typed DEF Drops
<1> HIDE DEF live, s
<1>4. TypeOK'
  <2>1. Len(live) <= Limit
    BY <1>2, <1>3, Typed, LenProperties, RateLimiterAssumption DEF TypeOK
  <2>2. \A r \in Senders : events'[r] = IF r = s THEN live ELSE events[r]
    BY <1>1, <1>2 DEF TypeOK
  <2> QED
    BY <2>1, <2>2, <1>1, <1>2 DEF TypeOK
<1>5. ReadingsAreRecent'
  BY <1>1 DEF ReadingsAreRecent, TypeOK
<1>6. LogIsSorted' /\ AdmitsAtMostLimit'
  BY <1>1 DEF LogIsSorted, AdmitsAtMostLimit
<1>7. \A r \in Senders : Suffix(events'[r], log[r])
  BY <1>1, <1>2, SuffixIs DEF TypeOK
<1>8. DequeIsSuffix' /\ ForgottenAreOld'
  BY <1>1, <1>7 DEF Suffix, DequeIsSuffix, ForgottenAreOld, Forgotten
<1> QED
  BY <1>4, <1>5, <1>6, <1>8

\* Adding the reading and the time of an admission keeps a deque one of the last
\* admissions.
LEMMA AdmittingKeepsSuffix ==
  ASSUME NEW live \in Seq(Nat), NEW times \in Seq(Nat), NEW now \in Nat, clock \in Nat,
         now <= clock, clock - now <= MaxDelay, Suffix(live, times)
  PROVE  Suffix(Append(live, now), Append(times, clock))
<1>1. /\ Len(live) \in Nat /\ Len(times) \in Nat /\ MaxDelay \in Nat
      /\ Len(Append(live, now)) = Len(live) + 1 /\ Len(Append(times, clock)) = Len(times) + 1
      /\ \A k \in 1..Len(live) : Append(live, now)[k] = live[k]
      /\ \A k \in 1..Len(times) : Append(times, clock)[k] = times[k]
      /\ Append(live, now)[Len(live) + 1] = now
      /\ Append(times, clock)[Len(times) + 1] = clock
  BY LenProperties, AppendProperties, RateLimiterAssumption
<1> DEFINE f == Len(times) - Len(live)
<1>2. f \in Nat
  BY <1>1 DEF Suffix
<1>3. ASSUME NEW k \in 1..(Len(live) + 1)
      PROVE  /\ Append(live, now)[k] <= Append(times, clock)[f + k]
             /\ Append(times, clock)[f + k] <= Append(live, now)[k] + MaxDelay
  <2>1. CASE k \in 1..Len(live)
    <3>1. f + k \in 1..Len(times)
      BY <1>1, <1>2, <2>1
    <3> QED
      BY <3>1, <2>1, <1>1 DEF Suffix
  <2>2. CASE k = Len(live) + 1
    <3>1. f + k = Len(times) + 1
      BY <1>1, <2>2
    <3> QED
      BY <3>1, <2>2, <1>1
  <2>3. k \in 1..Len(live) \/ k = Len(live) + 1
    BY <1>1
  <2> QED
    BY <2>1, <2>2, <2>3
<1>4. ASSUME NEW k \in 1..f
      PROVE  Append(times, clock)[k] <= clock - Window + MaxDelay
  <2>1. k \in 1..Len(times)
    BY <1>1, <1>2
  <2> QED
    BY <2>1, <1>1 DEF Suffix
<1>5. Len(Append(times, clock)) - Len(Append(live, now)) = f
  BY <1>1
<1> HIDE DEF f
<1>6. f >= 0
  BY <1>2
<1> QED
  BY <1>1, <1>3, <1>4, <1>5, <1>6 DEF Suffix

LEMMA AdmitStep ==
  ASSUME IInv, NEW t \in Threads, Admit(t)
  PROVE  IInv'
<1> USE DEF IInv
<1> DEFINE s == asking[t].sender
           now == asking[t].now
           live == Live(events[s], now)
<1>1. /\ asking[t] # None /\ asking' = [asking EXCEPT ![t] = None] /\ ~Full(live)
      /\ events' = [events EXCEPT ![s] = Append(live, now)] /\ clock' = clock
      /\ log' = [log EXCEPT ![s] = Append(@, clock)]
  BY DEF Admit
<1>2. /\ s \in Senders /\ live \in Seq(Nat) /\ Len(live) \in Nat /\ Suffix(live, log[s])
      /\ now \in Nat /\ now <= clock /\ clock - now <= MaxDelay
  BY <1>1, Found
<1>3. /\ Len(live) + 1 <= Limit /\ Limit \in Nat \ {0} /\ Window \in Nat /\ MaxDelay \in Nat
  BY <1>1, <1>2, RateLimiterAssumption DEF Full
<1> HIDE DEF live, s, now
<1> DEFINE times == log[s]
           n == Len(times)
<1>4. /\ times \in Seq(Nat) /\ clock \in Nat /\ n \in Nat
      /\ \A k \in 1..n : times[k] \in Nat
      /\ Append(times, clock) \in Seq(Nat) /\ Append(live, now) \in Seq(Nat)
      /\ Len(Append(times, clock)) = n + 1 /\ Len(Append(live, now)) = Len(live) + 1
      /\ DOMAIN Append(times, clock) = 1..(n + 1)
      /\ \A k \in 1..n : Append(times, clock)[k] = times[k]
      /\ Append(times, clock)[n + 1] = clock
  BY <1>2, Typed, AppendProperties, LenProperties
<1>5. \A r \in Senders : /\ events'[r] = IF r = s THEN Append(live, now) ELSE events[r]
                         /\ log'[r] = IF r = s THEN Append(times, clock) ELSE log[r]
  BY <1>1, <1>2 DEF TypeOK
<1>6. TypeOK'
  <2>1. events' \in [Senders -> Seq(Nat)] /\ log' \in [Senders -> Seq(Nat)]
    BY <1>1, <1>2, <1>4 DEF TypeOK
  <2>2. \A r \in Senders : Len(events'[r]) <= Limit
    BY <1>3, <1>4, <1>5 DEF TypeOK
  <2> QED
    BY <2>1, <2>2, <1>1 DEF TypeOK
<1>7. ReadingsAreRecent'
  BY <1>1 DEF ReadingsAreRecent, TypeOK
<1>8. LogIsSorted'
  <2>1. \A i \in 1..(n + 1) : Append(times, clock)[i] <= clock
    <3>1. \A i \in 1..n : times[i] <= clock
      BY <1>2, Typed DEF LogIsSorted
    <3> QED
      BY <3>1, <1>4
  <2>2. \A i, j \in 1..(n + 1) : i <= j => Append(times, clock)[i] <= Append(times, clock)[j]
    <3>1. \A i, j \in 1..n : i <= j => times[i] <= times[j]
      BY <1>2, Typed DEF LogIsSorted
    <3>2. ASSUME NEW i \in 1..(n + 1), NEW j \in 1..(n + 1), i <= j
          PROVE  Append(times, clock)[i] <= Append(times, clock)[j]
      <4>1. CASE j = n + 1
        BY <4>1, <2>1, <1>4
      <4>2. CASE j # n + 1
        <5>1. i \in 1..n /\ j \in 1..n
          BY <4>2, <3>2, <1>4
        <5> QED
          BY <5>1, <3>1, <3>2, <1>4
      <4> QED
        BY <4>1, <4>2
    <3> QED
      BY <3>2
  <2> QED
    BY <1>1, <1>4, <1>5, <2>1, <2>2 DEF LogIsSorted
<1>9. \A r \in Senders : Suffix(events'[r], log'[r])
  <2>1. Suffix(Append(live, now), Append(times, clock))
    BY <1>2, <1>4, AdmittingKeepsSuffix
  <2> QED
    BY <2>1, <1>5, SuffixIs
<1>10. DequeIsSuffix' /\ ForgottenAreOld'
  BY <1>1, <1>9 DEF Suffix, DequeIsSuffix, ForgottenAreOld, Forgotten
<1>11. AdmitsAtMostLimit'
  <2>1. ASSUME NEW i \in 1..(n + 1), NEW j \in 1..(n + 1), j = i + Limit
        PROVE  Append(times, clock)[j] - Append(times, clock)[i] >= Window - MaxDelay
    <3>1. CASE j \in 1..n
      <4>1. i \in 1..n
        BY <2>1, <3>1, <1>3, <1>4
      <4>2. times[j] - times[i] >= Window - MaxDelay
        BY <4>1, <3>1, <2>1, <1>2, Typed DEF AdmitsAtMostLimit
      <4> QED
        BY <4>1, <4>2, <3>1, <1>4
    <3>2. CASE j = n + 1
      <4>1. i \in 1..n /\ i \in 1..(n - Len(live))
        BY <2>1, <3>2, <1>2, <1>3, <1>4
      <4>2. times[i] <= clock - Window + MaxDelay
        BY <4>1, <1>2 DEF Suffix
      <4> QED
        BY <4>1, <4>2, <3>2, <1>3, <1>4
    <3>3. j \in 1..n \/ j = n + 1
      BY <1>4
    <3> QED
      BY <3>1, <3>2, <3>3
  <2> QED
    BY <2>1, <1>4, <1>5 DEF AdmitsAtMostLimit
<1> QED
  BY <1>6, <1>7, <1>8, <1>10, <1>11

LEMMA StepIInv == IInv /\ [Next]_vars => IInv'
<1> SUFFICES ASSUME IInv, [Next]_vars PROVE IInv'
  OBVIOUS
<1>1. CASE UNCHANGED vars
  BY <1>1 DEF vars, IInv, TypeOK, ReadingsAreRecent, LogIsSorted, DequeIsSuffix, ForgottenAreOld,
              Forgotten, AdmitsAtMostLimit
<1>2. CASE Tick
  BY <1>2, TickStep
<1>3. ASSUME NEW t \in Threads, NEW s \in Senders, Ask(t, s)
      PROVE  IInv'
  BY <1>3, AskStep
<1>4. ASSUME NEW t \in Threads, Admit(t) \/ Refuse(t)
      PROVE  IInv'
  BY <1>4, AdmitStep, RefuseStep
<1> QED
  BY <1>1, <1>2, <1>3, <1>4 DEF Next

LEMMA Invariance == Spec => []IInv
<1> QED
  BY InitIInv, StepIInv, PTL DEF Spec

\* For any limit, window and delay: more than Limit transfers of a sender take at
\* least the window, less what a thread may wait for the lock.
THEOREM LimitHolds == Spec => []AdmitsAtMostLimit
<1>1. IInv => AdmitsAtMostLimit
  BY DEF IInv
<1> QED
  BY <1>1, Invariance, PTL

\* A thread that is told it is too early: the deque was full.
LEMMA RefusedWhenFull ==
  ASSUME IInv, NEW t \in Threads, Refuse(t)
  PROVE  LET past == log[asking[t].sender] IN
         Len(past) >= Limit /\ clock - past[Len(past) - Limit + 1] < Window + MaxDelay
<1> USE DEF IInv
<1> DEFINE s == asking[t].sender
           now == asking[t].now
           live == Live(events[s], now)
           past == log[s]
<1>1. asking[t] # None /\ Full(live)
  BY DEF Refuse
<1>2. /\ s \in Senders /\ live \in Seq(Nat) /\ Len(live) \in Nat /\ Suffix(live, past)
      /\ now \in Nat /\ now <= clock /\ clock - now <= MaxDelay
      /\ Len(live) # 0 => live[1] > now - Window
  BY <1>1, Found
<1>3. /\ Len(live) >= Limit /\ Limit \in Nat \ {0} /\ Window \in Nat /\ MaxDelay \in Nat
  BY <1>1, RateLimiterAssumption DEF Full
<1> HIDE DEF live, s, now
<1>4. clock \in Nat /\ Len(past) \in Nat /\ DOMAIN past = 1..Len(past)
      /\ (\A i \in 1..Len(past) : past[i] \in Nat) /\ (\A i \in 1..Len(live) : live[i] \in Nat)
  BY <1>2, Typed, ElementOfSeq
<1> DEFINE f == Len(past) - Len(live)
           i == Len(past) - Limit + 1
<1>5. f >= 0 /\ f + 1 \in 1..Len(past) /\ i \in 1..Len(past) /\ f + 1 <= i /\ 1 \in 1..Len(live)
  BY <1>2, <1>3, <1>4 DEF Suffix
<1>6. live[1] <= past[f + 1]
  BY <1>2, <1>5 DEF Suffix
<1>7. past[f + 1] <= past[i]
  BY <1>2, <1>4, <1>5 DEF LogIsSorted
<1>8. past[i] \in Nat /\ past[f + 1] \in Nat /\ live[1] \in Nat /\ live[1] > now - Window
  BY <1>2, <1>4, <1>5
<1> HIDE DEF f, i, past
<1>9. clock - past[i] < Window + MaxDelay
  BY <1>2, <1>3, <1>4, <1>6, <1>7, <1>8
<1>10. Len(past) >= Limit
  BY <1>2, <1>3, <1>4, <1>5 DEF f
<1> QED
  BY <1>9, <1>10 DEF s, past, i

\* Nobody is turned away beyond the window and the delay, however readings of
\* threads that overtook each other block the head of the deque.
THEOREM RefusalsJustified == Spec => RefusesOnlyWhenFull
<1> DEFINE Justified ==
      \A t \in Threads :
        asking[t] # None /\ asking'[t] = None /\ log' = log =>
          LET past == log[asking[t].sender] IN
          Len(past) >= Limit /\ clock - past[Len(past) - Limit + 1] < Window + MaxDelay
<1>1. IInv /\ [Next]_vars => [Justified]_vars
  <2> SUFFICES ASSUME IInv, Next, NEW t \in Threads,
                      asking[t] # None, asking'[t] = None, log' = log
               PROVE  Refuse(t)
    BY RefusedWhenFull
  <2>1. CASE Tick
    BY <2>1 DEF Tick
  <2>2. ASSUME NEW u \in Threads, NEW s \in Senders, Ask(u, s)
        PROVE  FALSE
    <3>1. asking' = [asking EXCEPT ![u] = [sender |-> s, now |-> clock]] /\ clock \in Nat
      BY <2>2 DEF Ask, IInv, TypeOK
    <3>2. [sender |-> s, now |-> clock] # None
      BY <3>1, RateLimiterAssumption
    <3> QED
      BY <3>1, <3>2 DEF IInv, TypeOK
  <2>3. ASSUME NEW u \in Threads, Admit(u)
        PROVE  FALSE
    <3>1. asking[u].sender \in Senders
      BY <2>3, Found DEF Admit
    <3>2. log'[asking[u].sender] = Append(log[asking[u].sender], clock)
      BY <2>3, <3>1 DEF Admit, IInv, TypeOK
    <3>3. Len(Append(log[asking[u].sender], clock)) = Len(log[asking[u].sender]) + 1
      BY <3>1, Typed, AppendProperties DEF IInv
    <3> QED
      BY <3>1, <3>2, <3>3, Typed DEF IInv
  <2>4. ASSUME NEW u \in Threads, Refuse(u)
        PROVE  u = t
    BY <2>4 DEF Refuse, IInv, TypeOK
  <2> QED
    BY <2>1, <2>2, <2>3, <2>4 DEF Next
<1> QED
  BY <1>1, Invariance, PTL DEF Spec, RefusesOnlyWhenFull
=============================================================================
