---------------------------- MODULE RateLimiter ----------------------------
(***************************************************************************)
(* RateLimiter of transfer_server.py: each sender may start so many          *)
(* transfers per window.  Every request asks from a thread of its own: it    *)
(* reads the clock first and takes the lock afterwards, so its reading may   *)
(* be old by the time it is compared, and readings enter the deque out of    *)
(* order.  MaxDelay bounds how old; nothing in the code does, and what is    *)
(* promised below depends on it.                                             *)
(***************************************************************************)
EXTENDS Integers, Sequences

CONSTANTS Senders,
          Threads,
          Limit,            \* transfers per window
          Window,           \* its length
          MaxDelay,         \* the longest a thread waits between clock and lock
          MaxTime,          \* bound on the clock
          None              \* a thread that is not asking

ASSUME RateLimiterAssumption ==
  /\ Limit \in Nat \ {0} /\ Window \in Nat \ {0} /\ MaxDelay \in Nat /\ MaxTime \in Nat
  /\ None \notin [sender : Senders, now : Nat]

VARIABLES clock,            \* time.monotonic
          events,           \* per sender, the deque of readings
          asking,           \* the threads waiting for the lock
          log               \* history: per sender, when each request was admitted

vars == <<clock, events, asking, log>>

\* Mutant of Live: a reading exactly one window old still counts.
LiveTooLong(readings, now) ==
  LET fresh == {i \in DOMAIN readings : readings[i] >= now - Window}
  IN IF fresh = {} THEN <<>>
     ELSE SubSeq(readings, CHOOSE i \in fresh : \A j \in fresh : i <= j, Len(readings))

\* What is left of the readings when those at the head that are out of the window
\* have been dropped; behind one that is not, nothing is dropped.
Live(readings, now) ==
  LET fresh == {i \in DOMAIN readings : readings[i] > now - Window}
  IN IF fresh = {} THEN <<>>
     ELSE SubSeq(readings, CHOOSE i \in fresh : \A j \in fresh : i <= j, Len(readings))

\* Time passes, but no thread is kept from the lock for longer than MaxDelay.
Tick ==
  /\ clock < MaxTime /\ clock' = clock + 1
  /\ \A t \in Threads : asking[t] # None => clock' - asking[t].now <= MaxDelay
  /\ UNCHANGED <<events, asking, log>>

Ask(t, sender) ==
  /\ asking[t] = None
  /\ asking' = [asking EXCEPT ![t] = [sender |-> sender, now |-> clock]]
  /\ UNCHANGED <<clock, events, log>>

\* Mutant of Full: one more than the limit is let through.
FullOneMore(live) == Len(live) > Limit

Full(live) == Len(live) >= Limit

\* The rest of allow, under the lock.
Admit(t) ==
  /\ asking[t] # None
  /\ LET sender == asking[t].sender
         live == Live(events[sender], asking[t].now)
     IN /\ ~Full(live)
        /\ events' = [events EXCEPT ![sender] = Append(live, asking[t].now)]
        /\ log' = [log EXCEPT ![sender] = Append(@, clock)]
  /\ asking' = [asking EXCEPT ![t] = None]
  /\ UNCHANGED clock

Refuse(t) ==
  /\ asking[t] # None
  /\ LET sender == asking[t].sender
         live == Live(events[sender], asking[t].now)
     IN Full(live) /\ events' = [events EXCEPT ![sender] = live]
  /\ asking' = [asking EXCEPT ![t] = None]
  /\ UNCHANGED <<clock, log>>

Init ==
  /\ clock = 0
  /\ events = [s \in Senders |-> <<>>]
  /\ asking = [t \in Threads |-> None]
  /\ log = [s \in Senders |-> <<>>]

Next ==
  \/ Tick
  \/ \E t \in Threads : (\E s \in Senders : Ask(t, s)) \/ Admit(t) \/ Refuse(t)

Spec == Init /\ [][Next]_vars

-----------------------------------------------------------------------------

TypeOK ==
  /\ clock \in Nat
  /\ events \in [Senders -> Seq(Nat)] /\ log \in [Senders -> Seq(Nat)]
  /\ asking \in [Threads -> [sender : Senders, now : Nat] \union {None}]
  /\ \A s \in Senders : Len(events[s]) <= Limit

\* README: "每用户每分钟 5 次".  However the threads overtake each other between the clock and
\* the lock, more than Limit admissions take at least the window, less the delay.
AdmitsAtMostLimit ==
  \A s \in Senders : \A i, j \in DOMAIN log[s] :
    j = i + Limit => log[s][j] - log[s][i] >= Window - MaxDelay

\* "操作过于频繁" is only said to a sender of whom Limit requests were admitted within the
\* window and the delay: readings stuck behind a later one, and what the other
\* senders do, count no further.
RefusesOnlyWhenFull ==
  [][\A t \in Threads :
       asking[t] # None /\ asking'[t] = None /\ log' = log =>
         LET past == log[asking[t].sender] IN
         Len(past) >= Limit /\ clock - past[Len(past) - Limit + 1] < Window + MaxDelay]_vars
=============================================================================
