---------------------------- MODULE TransferBook ----------------------------
(***************************************************************************)
(* What transfer_server.py promises to those whose money it moves, without   *)
(* the threads, calls, answers and faults it takes: every request goes into   *)
(* the journal once and has one end, its amount is taken once from the sender, *)
(* and is given once to the receiver or back, never before it was taken.      *)
(* Money may move after the end of a request is written down, but only in a    *)
(* way that end leaves open.                                                  *)
(***************************************************************************)
EXTENDS Integers

CONSTANTS Users, Keys, Amounts, Deposit, None

VARIABLES balance,          \* the host's balances
          journal,          \* the transfers table
          moved             \* which of its three moves each request has made

vars == <<balance, journal, moved>>

Requests == Users \X Keys

Init ==
  /\ balance = [u \in Users |-> Deposit]
  /\ journal = [r \in Requests |-> None]
  /\ moved = [r \in Requests |-> {}]

\* A request is recorded under its sender and key.
Open(r, amount) ==
  /\ journal[r] = None
  /\ journal' = [journal EXCEPT ![r] = [status |-> "pending", amount |-> amount, receiver |-> None]]
  /\ UNCHANGED <<balance, moved>>

\* Its receiver is found.
Address(r, to) ==
  /\ journal[r] # None /\ journal[r].status = "pending" /\ to # r[1] /\ moved[r] = {}
  /\ journal' = [journal EXCEPT ![r].receiver = to]
  /\ UNCHANGED <<balance, moved>>

\* A move is made that was not made before.
Move(r, move, user, change) ==
  /\ move \notin moved[r] /\ balance[user] + change >= 0
  /\ balance' = [balance EXCEPT ![user] = @ + change]
  /\ moved' = [moved EXCEPT ![r] = @ \union {move}]
  /\ UNCHANGED journal

\* The sender is charged first, and not for a request that ended otherwise.
Charge(r) ==
  /\ journal[r] # None /\ journal[r].receiver # None /\ moved[r] = {}
  /\ journal[r].status \in {"pending", "failed"}
  /\ Move(r, "charge", r[1], -journal[r].amount)

\* The receiver is paid from what was taken, and not once the request failed.
Credit(r) ==
  /\ "charge" \in moved[r] /\ journal[r].status \notin {"failed", "succeeded"}
  /\ Move(r, "credit", journal[r].receiver, journal[r].amount)

\* The sender gets back what was taken, and not once the request succeeded.
Refund(r) ==
  /\ "charge" \in moved[r] /\ journal[r].status \in {"pending", "needs_attention"}
  /\ Move(r, "refund", r[1], journal[r].amount)

\* The end of a request is written down after what it tells.
Close(r, status) ==
  /\ journal[r] # None /\ journal[r].status = "pending"
  /\ CASE status = "succeeded"       -> moved[r] = {"charge", "credit"}
       [] status = "failed"          -> moved[r] \subseteq {"charge"}
       [] status = "compensated"     -> {"charge", "refund"} \subseteq moved[r]
       [] status = "needs_attention" -> "charge" \in moved[r]
  /\ journal' = [journal EXCEPT ![r].status = status]
  /\ UNCHANGED <<balance, moved>>

Next ==
  \E r \in Requests :
    \/ \E amount \in Amounts : Open(r, amount)
    \/ \E to \in Users : Address(r, to)
    \/ Charge(r) \/ Credit(r) \/ Refund(r)
    \/ \E status \in {"succeeded", "failed", "compensated", "needs_attention"} : Close(r, status)

Spec == Init /\ [][Next]_vars
=============================================================================
