----------------------------- MODULE Transfer ------------------------------
(***************************************************************************)
(* transfer_server.py: users move balance to each other.  Every HTTP request *)
(* is served by a thread of its own, which records it in the journal (SQLite) *)
(* under sender and idempotency key, takes the amount from the sender, gives  *)
(* it to the receiver and, if that fails, back to the sender: up to three     *)
(* calls to the host, none of them idempotent.  The service may die anywhere, *)
(* an answer may be lost, and a call given up on may still be carried out.    *)
(***************************************************************************)
EXTENDS Integers, FiniteSets

CONSTANTS Users,
          Keys,             \* idempotency keys
          Amounts,          \* amounts that pass validate_amount, in cents
          Threads,          \* handler threads
          Deposit,          \* every user's balance at the start
          MaxFaults,        \* bound on lost answers, failed searches and crashes
          Crashes,          \* whether the service may die at work
          None              \* no journal record, no thread at work, no receiver yet

Requests == Users \X Keys

Record == [status : {"pending", "succeeded", "failed", "compensated", "needs_attention"},
           amount : Amounts, receiver : Users \union {None}]

Calls == {"charge", "credit", "refund"}

Handlers == [at : {"insert", "resolve", "finish"} \union Calls, request : Requests,
             to : Users, amount : Amounts, seen : Int,
             outcome : {"none", "succeeded", "failed", "compensated", "needs_attention"}]

ASSUME TransferAssumption ==
  /\ Amounts \subseteq Nat \ {0} /\ Deposit \in Nat /\ MaxFaults \in Nat /\ Crashes \in BOOLEAN
  /\ None \notin Users /\ None \notin Record /\ None \notin Handlers

VARIABLES balance,          \* the host's balances
          journal,          \* the transfers table
          threads,          \* the handlers at work
          late,             \* calls given up on that the host has yet to see
          faults,
          did               \* history: how often the host carried out each call, up to two

vars == <<balance, journal, threads, late, faults, did>>

Request(t) == threads[t].request

Faulty == faults < MaxFaults /\ faults' = faults + 1

-----------------------------------------------------------------------------
(* The host *)

\* Mutant of Beneficiary: the compensation goes to the receiver.
BeneficiaryAlwaysReceiver(r, call) == IF call = "charge" THEN r[1] ELSE journal[r].receiver

Beneficiary(r, call) == IF call = "credit" THEN journal[r].receiver ELSE r[1]

\* The host changes a balance or refuses to; it never lets one become negative.
HostAdjusts(r, call, granted) ==
  LET user == Beneficiary(r, call)
      change == IF call = "charge" THEN -journal[r].amount ELSE journal[r].amount
  IN IF granted
     THEN /\ balance[user] + change >= 0
          /\ balance' = [balance EXCEPT ![user] = @ + change]
          /\ did' = [did EXCEPT ![r][call] = IF @ = 2 THEN 2 ELSE @ + 1]
     ELSE UNCHANGED <<balance, did>>

LateCall ==
  \E p \in late, granted \in BOOLEAN :
    /\ HostAdjusts(p[1], p[2], granted)
    /\ late' = late \ {p}
    /\ UNCHANGED <<journal, threads, faults>>

-----------------------------------------------------------------------------
(* The service *)

\* transfer up to the journal: user_profile tells who asks and his balance.  The
\* refusals before this point (credentials, rate limit, format) change nothing.
Enter(t, r, to, amount) ==
  /\ threads[t] = None /\ to # r[1]
  /\ threads' = [threads EXCEPT ![t] =
       [at |-> "insert", request |-> r, to |-> to, amount |-> amount,
        seen |-> balance[r[1]], outcome |-> "none"]]
  /\ UNCHANGED <<balance, journal, late, faults, did>>

\* Mutant of Insert: a request that is still pending is taken up again.
InsertUnlessSettled(t) ==
  /\ threads[t] # None /\ threads[t].at = "insert"
  /\ \/ /\ journal[Request(t)] = None
        /\ journal' = [journal EXCEPT ![Request(t)] =
             [status |-> "pending", amount |-> threads[t].amount, receiver |-> None]]
        /\ threads' = [threads EXCEPT ![t].at = "resolve"]
     \/ /\ journal[Request(t)] # None
        /\ threads' = [threads EXCEPT ![t] =
             IF journal[Request(t)].status = "pending" THEN [@ EXCEPT !.at = "resolve"] ELSE None]
        /\ UNCHANGED journal
  /\ UNCHANGED <<balance, late, faults, did>>

\* create_pending: the UNIQUE request_id makes every later request with the key a
\* replay, which is answered from the record.
Insert(t) ==
  /\ threads[t] # None /\ threads[t].at = "insert"
  /\ IF journal[Request(t)] = None
     THEN /\ journal' = [journal EXCEPT ![Request(t)] =
               [status |-> "pending", amount |-> threads[t].amount, receiver |-> None]]
          /\ threads' = [threads EXCEPT ![t].at = "resolve"]
     ELSE threads' = [threads EXCEPT ![t] = None] /\ UNCHANGED journal
  /\ UNCHANGED <<balance, late, faults, did>>

\* The balance seen at the start has to suffice, and the recipient has to be found
\* by his address, unambiguous and not the sender.
Resolve(t) ==
  /\ threads[t] # None /\ threads[t].at = "resolve"
  /\ \/ /\ threads[t].seen >= threads[t].amount
        /\ journal' = [journal EXCEPT ![Request(t)].receiver = threads[t].to]
        /\ threads' = [threads EXCEPT ![t].at = "charge"]
     \/ /\ journal' = [journal EXCEPT ![Request(t)].status = "failed"]
        /\ threads' = [threads EXCEPT ![t] = None]
  /\ UNCHANGED <<balance, late, faults, did>>

\* A failed search that is not an HttpError leaves the handler through _call_api,
\* and the record as it is.
SearchFails(t) ==
  /\ threads[t] # None /\ threads[t].at = "resolve" /\ threads[t].seen >= threads[t].amount
  /\ Faulty
  /\ threads' = [threads EXCEPT ![t] = None]
  /\ UNCHANGED <<balance, journal, late, did>>

\* Mutant of After: a refund that fails counts as one.
AfterRefundIgnored(handler, ok) ==
  CASE handler.at = "charge" /\ ok  -> [handler EXCEPT !.at = "credit"]
    [] handler.at = "charge" /\ ~ok -> [handler EXCEPT !.at = "finish", !.outcome = "failed"]
    [] handler.at = "credit" /\ ok  -> [handler EXCEPT !.at = "finish", !.outcome = "succeeded"]
    [] handler.at = "credit" /\ ~ok -> [handler EXCEPT !.at = "refund"]
    [] OTHER -> [handler EXCEPT !.at = "finish", !.outcome = "compensated"]

\* Mutant of After: a success is not noted down.
AfterSuccessUnnoted(handler, ok) ==
  CASE handler.at = "charge" /\ ok  -> [handler EXCEPT !.at = "credit"]
    [] handler.at = "charge" /\ ~ok -> [handler EXCEPT !.at = "finish", !.outcome = "failed"]
    [] handler.at = "credit" /\ ok  -> [handler EXCEPT !.at = "finish"]
    [] handler.at = "credit" /\ ~ok -> [handler EXCEPT !.at = "refund"]
    [] handler.at = "refund" /\ ok  -> [handler EXCEPT !.at = "finish", !.outcome = "compensated"]
    [] OTHER -> [handler EXCEPT !.at = "finish", !.outcome = "needs_attention"]

\* Where the answer to a call, or the lack of one, takes the handler.
After(handler, ok) ==
  CASE handler.at = "charge" /\ ok  -> [handler EXCEPT !.at = "credit"]
    [] handler.at = "charge" /\ ~ok -> [handler EXCEPT !.at = "finish", !.outcome = "failed"]
    [] handler.at = "credit" /\ ok  -> [handler EXCEPT !.at = "finish", !.outcome = "succeeded"]
    [] handler.at = "credit" /\ ~ok -> [handler EXCEPT !.at = "refund"]
    [] handler.at = "refund" /\ ok  -> [handler EXCEPT !.at = "finish", !.outcome = "compensated"]
    [] OTHER -> [handler EXCEPT !.at = "finish", !.outcome = "needs_attention"]

Calling(t) == threads[t] # None /\ threads[t].at \in Calls

Answered(t) ==
  /\ Calling(t)
  /\ \E granted \in BOOLEAN :
       /\ HostAdjusts(Request(t), threads[t].at, granted)
       /\ threads' = [threads EXCEPT ![t] = After(@, granted)]
  /\ UNCHANGED <<journal, late, faults>>

\* The request is lost, or its answer is and the host carries it out all the same.
Unanswered(t) ==
  /\ Calling(t) /\ Faulty
  /\ late' \in {late, late \union {<<Request(t), threads[t].at>>}}
  /\ threads' = [threads EXCEPT ![t] = After(@, FALSE)]
  /\ UNCHANGED <<balance, journal, did>>

Finish(t) ==
  /\ threads[t] # None /\ threads[t].at = "finish"
  /\ journal' = [journal EXCEPT ![Request(t)].status = threads[t].outcome]
  /\ threads' = [threads EXCEPT ![t] = None]
  /\ UNCHANGED <<balance, late, faults, did>>

\* The process dies with all its threads and is started again (Restart=on-failure);
\* calls under way may still reach the host, and nothing looks at the journal.
Crash ==
  /\ Crashes /\ \E t \in Threads : threads[t] # None
  /\ Faulty
  /\ \E sent \in SUBSET {t \in Threads : Calling(t)} :
       late' = late \union {<<Request(t), threads[t].at>> : t \in sent}
  /\ threads' = [t \in Threads |-> None]
  /\ UNCHANGED <<balance, journal, did>>

-----------------------------------------------------------------------------

Init ==
  /\ balance = [u \in Users |-> Deposit]
  /\ journal = [r \in Requests |-> None]
  /\ threads = [t \in Threads |-> None]
  /\ late = {}
  /\ faults = 0
  /\ did = [r \in Requests |-> [c \in Calls |-> 0]]

Step(t) ==
  \/ \E r \in Requests, to \in Users, amount \in Amounts : Enter(t, r, to, amount)
  \/ Insert(t) \/ Resolve(t) \/ SearchFails(t)
  \/ Answered(t) \/ Unanswered(t) \/ Finish(t)

Next == LateCall \/ Crash \/ \E t \in Threads : Step(t)

Spec == Init /\ [][Next]_vars

-----------------------------------------------------------------------------

TypeOK ==
  /\ balance \in [Users -> Int]
  /\ journal \in [Requests -> Record \union {None}]
  /\ threads \in [Threads -> Handlers \union {None}]
  /\ late \subseteq Requests \X Calls
  /\ faults \in 0..MaxFaults
  /\ did \in [Requests -> [Calls -> 0..2]]
  /\ \A t \in Threads : threads[t] # None /\ threads[t].at = "finish" => threads[t].outcome # "none"

\* README: "幂等键防重" - however often, in parallel or across restarts, a request
\* is sent with one key, each of its calls is carried out at most once.
ExecutedOnce == \A r \in Requests, c \in Calls : did[r][c] <= 1

Status(r) == IF journal[r] = None THEN "none" ELSE journal[r].status

\* What a status tells is so, whatever was lost: a success moved the amount, a
\* failure gave nobody anything, a compensated one was charged and refunded, and
\* what needs attention was charged.  What a status can not tell, because the host
\* did not, is whether a failed charge or credit was carried out after all.
JournalIsTrue ==
  \A r \in Requests :
    /\ Status(r) = "succeeded" =>
         did[r]["charge"] = 1 /\ did[r]["credit"] = 1 /\ did[r]["refund"] = 0
    /\ Status(r) = "failed" => did[r]["credit"] = 0 /\ did[r]["refund"] = 0
    /\ Status(r) = "compensated" => did[r]["charge"] = 1 /\ did[r]["refund"] = 1
    /\ Status(r) = "needs_attention" => did[r]["charge"] = 1

\* The cents that requests are about, each of them by request and number, and how
\* many that is.
Cents(rs) == UNION {{r} \X (1..journal[r].amount) : r \in rs}

AmountOf(rs) == Cardinality(Cents(rs))

\* While every call was answered, the journal accounts for every balance: once no
\* handler is at work a user has what he had, less what he sent (or what needs
\* attention), plus what he received.  This is what an administrator settles by.
BooksBalance ==
  faults = 0 /\ (\A t \in Threads : threads[t] = None) =>
    \A u \in Users :
      balance[u] = Deposit
        - AmountOf({r \in Requests : r[1] = u /\ Status(r) \in {"succeeded", "needs_attention"}})
        + AmountOf({r \in Requests : Status(r) = "succeeded" /\ journal[r].receiver = u})

\* The outcome, the amount and the receiver of a finished request never change:
\* a replay finds what the first answer said.
OutcomeIsFinal ==
  [][\A r \in Requests : Status(r) \notin {"none", "pending"} => journal'[r] = journal[r]]_vars

\* _replay tells a client "相同请求正在处理中，请稍候" of every pending record: some
\* thread is still at work on it.
PendingIsProcessed ==
  \A r \in Requests :
    Status(r) = "pending" => \E t \in Threads : threads[t] # None /\ Request(t) = r

\* Threads, lost answers, late calls and deaths of the service do not show: of the
\* balances, the journal and the calls carried out, every step is one of TransferBook.
Book == INSTANCE TransferBook WITH moved <- [r \in Requests |-> {c \in Calls : did[r][c] # 0}]

ImplementsBook == Book!Spec
=============================================================================
