--------------------------- MODULE MCAccountCycle ---------------------------
(* Values for AccountCycle.                                                  *)
EXTENDS AccountCycle

NoErrors == {0}
SmallErrors == {0, 1}
NoSlides == {}
DaySlides == {2, 3}

\* Everything Request can publish within the bounds.
PublishedSnapshots ==
  [resetAt : 0..(MaxTime + Week + 1), sampleAt : 0..MaxTime, used : 0..MaxUsed \union {Absent},
   resetAfter : 0..(Week + 1), cost : 0..MaxUsed \union {Absent}]
=============================================================================
