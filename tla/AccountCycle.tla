---------------------------- MODULE AccountCycle ----------------------------
(***************************************************************************)
(* CycleDetector watching an account that really has 7d cycles.  The        *)
(* account serves requests, its cycle rolls over at the first request after *)
(* the seven days, an administrator may end it early with a reset card, and *)
(* the upstream may slide the whole window.  The host keeps the figures of  *)
(* the latest response (the codex_* extras) and the bill of the window; the *)
(* executor reads them whenever it runs.                                    *)
(***************************************************************************)
EXTENDS CycleDetector

CONSTANTS MaxTime,          \* bound on the clock
          MaxUsed,          \* bound on the usage of one cycle
          Errors,           \* by how much a published reset time is off
          Percentages,      \* {TRUE}, or BOOLEAN if the percentage may be missing
          Bills,            \* {TRUE}, or BOOLEAN if the window's cost may be missing
          Slides,           \* by how much the upstream may slide a running window
          Cards             \* whether reset cards are used

ASSUME AccountAssumption ==
  /\ MaxTime \in Nat /\ MaxUsed \in Nat /\ Errors \subseteq Int
  /\ Percentages \subseteq BOOLEAN /\ Bills \subseteq BOOLEAN
  /\ Slides \subseteq Nat /\ Cards \in BOOLEAN

\* A published reset time is early by no more than the boundary tolerance, and two of
\* them differ by less than what moves a boundary: that is all that the tolerances
\* of the configuration can do for an upstream estimate.
ASSUME ErrorsAssumption ==
  \A d, e \in Errors : -Tolerance <= e /\ e - d < Spacing

\* The published figures, with the cycle and the start of the window they are of.
Published == [cycle : Nat, start : Nat, figures : Snapshot]

ASSUME NoRowAssumption == NoRow \notin Published

VARIABLES now,
          account,          \* the real cycle: [start, cycle, used, cost]
          codex,            \* the published figures, NoRow before the first response
          seen              \* history: the cycle last confirmed and its start, the cycle last shown

accountVars == <<now, account, codex, seen>>

allVars == <<row, keys, now, account, codex, seen>>

\* What the executor would read now.  Without window_stats the cost is missing.
Shown(billed) == [codex.figures EXCEPT !.cost = IF billed THEN account.cost ELSE Absent]

AccountInit ==
  /\ Init
  /\ now = 0
  /\ account = [start |-> 0, cycle |-> 1, used |-> 0, cost |-> 0]
  /\ codex = NoRow
  /\ seen = [confirmed |-> 0, start |-> 0, latest |-> 0]

Elapse == now < MaxTime /\ now' = now + 1 /\ UNCHANGED <<row, keys, account, codex, seen>>

\* What a response publishes: the reset time is off by e, the percentage may be missing.
Figures(a, e, told) ==
  [resetAt |-> a.start + Week + e, sampleAt |-> now, used |-> IF told THEN a.used ELSE Absent,
   resetAfter |-> a.start + Week + e - now, cost |-> Absent]

\* A request rolls the cycle over if its seven days are up, uses some quota, and
\* its response refreshes the published figures, off by e.  Ticks are finer than
\* responses: two of them carry different sample times.
Request(e, burn, told) ==
  LET over == now >= account.start + Week
      a == IF over THEN [start |-> now, cycle |-> account.cycle + 1, used |-> burn, cost |-> burn]
           ELSE [account EXCEPT !.used = @ + burn, !.cost = @ + burn]
  IN /\ codex # NoRow => now > codex.figures.sampleAt
     /\ a.used <= MaxUsed
     /\ a.start + Week + e >= now
     /\ account' = a
     /\ codex' = [cycle |-> a.cycle, start |-> a.start, figures |-> Figures(a, e, told)]
     /\ UNCHANGED <<row, keys, now, seen>>

UseCard ==
  /\ Cards
  /\ now > account.start /\ now < account.start + Week
  /\ account' = [start |-> now, cycle |-> account.cycle + 1, used |-> 0, cost |-> 0]
  /\ UNCHANGED <<row, keys, now, codex, seen>>

\* The window moves on without the usage being reset; old requests leave the bill.
Slide(d) ==
  /\ account.start + d <= now
  /\ now < account.start + Week
  /\ \E c \in 0..account.cost :
       account' = [account EXCEPT !.start = @ + d, !.cost = c]
  /\ UNCHANGED <<row, keys, now, codex, seen>>

\* One run of the executor on this account: load_snapshot, decide, write.
Check(billed) ==
  LET s == Shown(billed)
      confirms == Decide(row, s) \in {"baseline", "reset"}
  IN /\ codex # NoRow
     /\ Observe(s) \/ Queue(s)
     /\ seen' = [confirmed |-> IF confirms THEN codex.cycle ELSE seen.confirmed,
                 start |-> IF confirms THEN codex.start ELSE seen.start,
                 latest |-> codex.cycle]
     /\ UNCHANGED <<now, account, codex>>

UpstreamNext ==
  \/ Elapse
  \/ \E e \in Errors, burn \in 0..1, told \in Percentages : Request(e, burn, told)
  \/ UseCard
  \/ \E d \in Slides : Slide(d)

AccountNext == UpstreamNext \/ \E billed \in Bills : Check(billed)

AccountSpec == AccountInit /\ [][AccountNext]_allVars

-----------------------------------------------------------------------------

\* A reset is queued only if the account's window really starts later than the
\* one last confirmed (by the baseline or an event), be it a new cycle, natural or
\* by a card, or a window the upstream slid on.  The published reset time may be
\* off within the jitter tolerance, percentages and costs may be missing: none of
\* that ever clears anything, nor does a cycle that was reset for already.
\* README: "首次运行只建立基线，不追溯重置", "秒级/分钟级倒计时变化不会单独刷新额度".
ResetFollowsWindow == [][keys' # keys => codex.start > seen.start]_allVars

\* When the executor is first shown a later cycle while its quota is back to low,
\* still almost whole, and the boundary moved by more than noise, it queues the
\* reset at once; there is no second chance, for the next sample shows no drop.
DetectsRefresh ==
  codex # NoRow /\ row # NoRow =>
    \A billed \in Bills :
      LET s == Shown(billed) IN
      /\ codex.cycle > seen.latest
      /\ UsageReset(row, s) /\ Rearmed(s) /\ Shift(row, s) > Noise
      => Decide(row, s) = "reset"

\* README: "所有自动重置都必须确认账号 7d 用量刷新 ... 缺少百分比或没有下降时不清零".
ResetsOnlyOnUsageRefresh ==
  [][keys' # keys => \E billed \in Bills : UsageReset(row, Shown(billed))]_allVars
=============================================================================
