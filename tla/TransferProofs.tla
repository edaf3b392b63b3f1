--------------------------- MODULE TransferProofs ---------------------------
(***************************************************************************)
(* What the journal of the transfer service is worth, for any users, keys,   *)
(* amounts, threads, faults and crashes.  A status is written only after the *)
(* calls it tells of, and what makes it true is what the handler at work has *)
(* posted so far, so the invariant follows the handler from call to call:    *)
(* at each of them it says which calls were carried out and which were not   *)
(* even posted, and that no second handler works on the same request.        *)
(***************************************************************************)
EXTENDS Transfer, FiniteSetTheorems, TLAPS

AtWork(t) == threads[t] # None /\ threads[t].at # "insert"

\* The host has carried the call out, or may still do so.
Posted(r, c) == did[r][c] # 0 \/ <<r, c>> \in late

OneHandler ==
  \A t, u \in Threads : AtWork(t) /\ AtWork(u) /\ Request(t) = Request(u) => t = u

NeverTwice ==
  \A r \in Requests, c \in Calls : did[r][c] <= 1 /\ (<<r, c>> \in late => did[r][c] = 0)

Unrecorded == \A r \in Requests : journal[r] = None => \A c \in Calls : ~Posted(r, c)

\* What a status tells of the calls.
Told(r, status) ==
  /\ status = "succeeded" => did[r]["charge"] = 1 /\ did[r]["credit"] = 1 /\ ~Posted(r, "refund")
  /\ status = "failed" => ~Posted(r, "credit") /\ ~Posted(r, "refund")
  /\ status = "compensated" => did[r]["charge"] = 1 /\ did[r]["refund"] = 1
  /\ status = "needs_attention" => did[r]["charge"] = 1

Telling == \A r \in Requests : Told(r, Status(r))

\* What has been posted where a handler stands.
Progressed(r, h) ==
  /\ journal[r] # None /\ journal[r].status = "pending"
  /\ h.at \in {"resolve", "charge"} => \A c \in Calls : ~Posted(r, c)
  /\ h.at = "charge" => journal[r].receiver # None
  /\ h.at = "credit" => /\ did[r]["charge"] = 1 /\ journal[r].receiver # None
                        /\ ~Posted(r, "credit") /\ ~Posted(r, "refund")
  /\ h.at = "refund" => did[r]["charge"] = 1 /\ ~Posted(r, "refund")
  /\ h.at = "finish" => Told(r, h.outcome)

Working == \A t \in Threads : AtWork(t) => Progressed(Request(t), threads[t])

IInv == TypeOK /\ OneHandler /\ NeverTwice /\ Unrecorded /\ Telling /\ Working

-----------------------------------------------------------------------------
(* The operators the model is built from *)

\* A record of the journal is a record.
LEMMA Recorded ==
  ASSUME TypeOK, NEW r \in Requests, journal[r] # None
  PROVE  journal[r] \in Record /\ journal[r].amount \in Int
<1>1. journal[r] \in Record
  BY DEF TypeOK
<1>2. journal[r].amount \in Amounts
  BY <1>1 DEF Record
<1>3. Amounts \subseteq Int
  BY TransferAssumption
<1> QED
  BY <1>1, <1>2, <1>3

\* The host changes at most one balance and one count.
LEMMA AdjustEffect ==
  ASSUME TypeOK, NEW r \in Requests, NEW c \in Calls, journal[r] # None,
         NEW granted \in BOOLEAN, HostAdjusts(r, c, granted)
  PROVE  /\ balance' \in [Users -> Int]
         /\ did' \in [Requests -> [Calls -> 0..2]]
         /\ \A q \in Requests, d \in Calls : q # r \/ d # c => did'[q][d] = did[q][d]
         /\ granted /\ did[r][c] = 0 => did'[r][c] = 1
         /\ ~granted => did'[r][c] = did[r][c]
<1>1. journal[r].amount \in Int
  BY Recorded
<1>2. CASE granted
  <2>1. balance' = [balance EXCEPT ![Beneficiary(r, c)] =
                      @ + (IF c = "charge" THEN -journal[r].amount ELSE journal[r].amount)]
    BY <1>2 DEF HostAdjusts
  <2>2. balance' \in [Users -> Int]
    <3> DEFINE user == Beneficiary(r, c)
               change == IF c = "charge" THEN -journal[r].amount ELSE journal[r].amount
    <3>1. change \in Int /\ balance' = [balance EXCEPT ![user] = @ + change]
      BY <1>1, <2>1
    <3> HIDE DEF user, change
    <3>2. CASE user \in Users
      <4>1. balance[user] + change \in Int
        BY <3>1, <3>2 DEF TypeOK
      <4> QED
        BY <3>1, <3>2, <4>1 DEF TypeOK
    <3>3. CASE user \notin Users
      BY <3>1, <3>3 DEF TypeOK
    <3> QED
      BY <3>2, <3>3
  <2>3. did' = [did EXCEPT ![r][c] = IF @ = 2 THEN 2 ELSE @ + 1]
    BY <1>2 DEF HostAdjusts
  <2> QED
    BY <1>2, <2>2, <2>3 DEF TypeOK
<1>3. CASE ~granted
  BY <1>3 DEF HostAdjusts, TypeOK
<1> QED
  BY <1>2, <1>3

\* Where a handler can be after a call.
LEMMA AfterEffect ==
  ASSUME NEW h \in Handlers, h.at \in Calls, NEW ok \in BOOLEAN
  PROVE  /\ After(h, ok) \in Handlers
         /\ After(h, ok).request = h.request
         /\ After(h, ok).at \in {"credit", "refund", "finish"}
         /\ After(h, ok).at = "credit" <=> h.at = "charge" /\ ok
         /\ After(h, ok).at = "refund" <=> h.at = "credit" /\ ~ok
         /\ After(h, ok).at = "finish" =>
              /\ After(h, ok).outcome # "none"
              /\ After(h, ok).outcome = "succeeded" <=> h.at = "credit" /\ ok
              /\ After(h, ok).outcome = "failed" <=> h.at = "charge" /\ ~ok
              /\ After(h, ok).outcome = "compensated" <=> h.at = "refund" /\ ok
              /\ After(h, ok).outcome = "needs_attention" <=> h.at = "refund" /\ ~ok
<1>1. CASE h.at = "charge"
  BY <1>1 DEF After, Handlers, Calls
<1>2. CASE h.at = "credit"
  BY <1>2 DEF After, Handlers, Calls
<1>3. CASE h.at = "refund"
  BY <1>3 DEF After, Handlers, Calls
<1> QED
  BY <1>1, <1>2, <1>3 DEF Calls

\* What holds of a request goes on to hold while its record stays, no call of it is
\* posted and none that was carried out once is carried out again.
LEMMA Untouched ==
  ASSUME NEW q, NEW h, journal'[q] = journal[q],
         \A c \in Calls : /\ Posted(q, c)' => Posted(q, c)
                          /\ did[q][c] = 1 => did'[q][c] = 1
  PROVE  /\ Progressed(q, h) => Progressed(q, h)'
         /\ \A s : Told(q, s) => Told(q, s)'
<1>1. \A s : Told(q, s) => Told(q, s)'
  BY DEF Told, Calls
<1>2. Progressed(q, h) => Progressed(q, h)'
  BY <1>1 DEF Progressed, Calls
<1> QED
  BY <1>1, <1>2

\* A step of the one handler of a request: what it leaves behind has to be right for
\* that request, and everything else stays as it was.
LEMMA HandlerStep ==
  ASSUME IInv, NEW t \in Threads, NEW r \in Requests, NEW new,
         \A u \in Threads : u # t /\ AtWork(u) => Request(u) # r,
         threads' = [threads EXCEPT ![t] = new],
         new # None => /\ new \in Handlers /\ new.request = r /\ new.at # "insert"
                       /\ new.at = "finish" => new.outcome # "none",
         balance' \in [Users -> Int],
         journal' \in [Requests -> Record \union {None}],
         late' \subseteq Requests \X Calls,
         faults' \in 0..MaxFaults,
         did' \in [Requests -> [Calls -> 0..2]],
         \A q \in Requests : q # r =>
           /\ journal'[q] = journal[q]
           /\ \A c \in Calls : did'[q][c] = did[q][c] /\ (<<q, c>> \in late' <=> <<q, c>> \in late),
         \A c \in Calls : did'[r][c] <= 1 /\ (<<r, c>> \in late' => did'[r][c] = 0),
         journal'[r] # None,
         Told(r, Status(r))',
         new # None => Progressed(r, new)'
  PROVE  IInv'
<1>1. threads' \in [Threads -> Handlers \union {None}]
  BY DEF IInv, TypeOK
<1>2. threads'[t] = new /\ \A u \in Threads : u # t => threads'[u] = threads[u]
  BY DEF IInv, TypeOK
<1>3. TypeOK'
  BY <1>1, <1>2 DEF IInv, TypeOK
<1>0. \A q \in Requests, c \in Calls : q # r =>
        /\ Posted(q, c)' => Posted(q, c)
        /\ did[q][c] = 1 => did'[q][c] = 1
  BY DEF Posted
<1>4. OneHandler'
  <2>1. \A u \in Threads : u # t /\ AtWork(u)' => AtWork(u) /\ Request(u)' = Request(u) /\ Request(u) # r
    BY <1>2 DEF AtWork, Request
  <2>2. AtWork(t)' => Request(t)' = r
    BY <1>2 DEF AtWork, Request
  <2> QED
    BY <2>1, <2>2 DEF IInv, OneHandler
<1>5. NeverTwice'
  <2> SUFFICES ASSUME NEW q \in Requests, NEW c \in Calls
               PROVE  did'[q][c] <= 1 /\ (<<q, c>> \in late' => did'[q][c] = 0)
    BY DEF NeverTwice
  <2>1. CASE q = r
    BY <2>1
  <2>2. CASE q # r
    BY <2>2 DEF IInv, NeverTwice
  <2> QED
    BY <2>1, <2>2
<1>6. Unrecorded'
  <2> SUFFICES ASSUME NEW q \in Requests, journal'[q] = None, NEW c \in Calls
               PROVE  ~Posted(q, c)'
    BY DEF Unrecorded
  <2>1. q # r
    OBVIOUS
  <2> QED
    BY <2>1 DEF IInv, Unrecorded, Posted
<1>7. Telling'
  <2> SUFFICES ASSUME NEW q \in Requests, q # r
               PROVE  Told(q, Status(q))'
    BY DEF Telling
  <2>1. PICK s : s = Status(q)
    OBVIOUS
  <2>2. Status(q)' = s
    BY <2>1 DEF Status
  <2>3. Told(q, s)
    BY <2>1 DEF IInv, Telling
  <2>4. Told(q, s)'
    BY <1>0, <2>3, Untouched
  <2> QED
    BY <2>2, <2>4
<1>8. Working'
  <2> SUFFICES ASSUME NEW u \in Threads, AtWork(u)'
               PROVE  Progressed(Request(u), threads[u])'
    BY DEF Working
  <2>1. CASE u = t
    <3>1. new # None /\ threads'[u] = new /\ Request(u)' = r
      BY <1>2, <2>1 DEF AtWork, Request
    <3> QED
      BY <3>1
  <2>2. CASE u # t
    <3>1. PICK h, q : h = threads[u] /\ q = Request(u)
      OBVIOUS
    <3>2. threads'[u] = h /\ Request(u)' = q /\ AtWork(u) /\ q # r
      BY <1>2, <2>2, <3>1 DEF AtWork, Request
    <3>3. q \in Requests
      BY <3>1, <3>2 DEF IInv, TypeOK, AtWork, Request, Handlers
    <3>4. Progressed(q, h)
      BY <3>1, <3>2 DEF IInv, Working
    <3>5. Progressed(q, h)'
      BY <1>0, <3>2, <3>3, <3>4, Untouched
    <3> QED
      BY <3>2, <3>5
  <2> QED
    BY <2>1, <2>2
<1> QED
  BY <1>3, <1>4, <1>5, <1>6, <1>7, <1>8 DEF IInv

\* A step after which a thread is not at work and nothing else has changed.
LEMMA IdleStep ==
  ASSUME IInv, NEW t \in Threads, NEW new,
         threads' = [threads EXCEPT ![t] = new],
         new # None => new \in Handlers /\ new.at = "insert",
         faults' \in 0..MaxFaults,
         UNCHANGED <<balance, journal, late, did>>
  PROVE  IInv'
<1>1. threads' \in [Threads -> Handlers \union {None}]
  BY DEF IInv, TypeOK
<1>2. threads'[t] = new /\ \A u \in Threads : u # t => threads'[u] = threads[u]
  BY DEF IInv, TypeOK
<1>3. TypeOK'
  BY <1>1, <1>2 DEF IInv, TypeOK
<1>4. \A u \in Threads : AtWork(u)' =>
        AtWork(u) /\ threads'[u] = threads[u] /\ Request(u)' = Request(u)
  BY <1>2 DEF AtWork, Request
<1>5. OneHandler'
  BY <1>4 DEF IInv, OneHandler
<1>6. NeverTwice' /\ Unrecorded' /\ Telling'
  BY DEF IInv, NeverTwice, Unrecorded, Telling, Told, Posted, Status
<1>7. Working'
  <2> SUFFICES ASSUME NEW u \in Threads, AtWork(u)'
               PROVE  Progressed(Request(u), threads[u])'
    BY DEF Working
  <2>1. PICK h, q : h = threads[u] /\ q = Request(u)
    OBVIOUS
  <2>2. Progressed(q, h) /\ threads'[u] = h /\ Request(u)' = q
    BY <1>4, <2>1 DEF IInv, Working
  <2>3. Progressed(q, h)'
    BY <2>2 DEF Progressed, Told, Posted
  <2> QED
    BY <2>2, <2>3
<1> QED
  BY <1>3, <1>5, <1>6, <1>7 DEF IInv

\* What the invariant says of a handler at work.
LEMMA AtWorkFacts ==
  ASSUME IInv, NEW t \in Threads, AtWork(t)
  PROVE  /\ threads[t] \in Handlers /\ Request(t) \in Requests
         /\ Progressed(Request(t), threads[t])
         /\ journal[Request(t)] \in Record
         /\ \A u \in Threads : u # t /\ AtWork(u) => Request(u) # Request(t)
<1>1. threads[t] \in Handlers
  BY DEF IInv, TypeOK, AtWork
<1>2. Request(t) \in Requests
  BY <1>1 DEF Request, Handlers
<1>3. Progressed(Request(t), threads[t])
  BY DEF IInv, Working
<1>4. journal[Request(t)] \in Record
  BY <1>2, <1>3, Recorded DEF Progressed, IInv
<1>5. \A u \in Threads : u # t /\ AtWork(u) => Request(u) # Request(t)
  BY DEF IInv, OneHandler
<1> QED
  BY <1>1, <1>2, <1>3, <1>4, <1>5

-----------------------------------------------------------------------------
(* The invariant, action by action *)

\* Enter keeps the invariant: the new handler is not at work before its insert.
LEMMA EnterInv ==
  ASSUME IInv, NEW t \in Threads, NEW r \in Requests, NEW to \in Users,
         NEW amount \in Amounts, Enter(t, r, to, amount)
  PROVE  IInv'
<1> DEFINE new == [at |-> "insert", request |-> r, to |-> to, amount |-> amount,
                   seen |-> balance[r[1]], outcome |-> "none"]
<1>1. r[1] \in Users
  BY DEF Requests
<1>2. new \in Handlers /\ new.at = "insert"
  BY <1>1 DEF Handlers, Calls, IInv, TypeOK
<1>3. threads' = [threads EXCEPT ![t] = new]
  BY DEF Enter
<1>4. faults' \in 0..MaxFaults /\ UNCHANGED <<balance, journal, late, did>>
  BY DEF Enter, IInv, TypeOK
<1> HIDE DEF new
<1> QED
  BY <1>2, <1>3, <1>4, IdleStep

\* Insert keeps the invariant: the UNIQUE key lets one handler go to work, on a
\* request nothing has been posted for.
LEMMA InsertInv ==
  ASSUME IInv, NEW t \in Threads, Insert(t)
  PROVE  IInv'
<1>0. PICK r : r = Request(t)
  OBVIOUS
<1>1. threads[t] \in Handlers /\ r \in Requests /\ threads[t].amount \in Amounts
  BY <1>0 DEF Insert, IInv, TypeOK, Handlers, Request
<1>2. CASE journal[r] = None
  <2>0. PICK new, record :
          /\ new = [threads[t] EXCEPT !.at = "resolve"]
          /\ record = [status |-> "pending", amount |-> threads[t].amount, receiver |-> None]
    OBVIOUS
  <2>1. /\ threads' = [threads EXCEPT ![t] = new]
        /\ journal' = [journal EXCEPT ![r] = record]
        /\ UNCHANGED <<balance, late, faults, did>>
    BY <1>0, <1>2, <2>0 DEF Insert
  <2>2. new \in Handlers /\ new.request = r /\ new.at = "resolve"
    BY <1>0, <1>1, <2>0 DEF Handlers, Request
  <2>3. record \in Record /\ record # None
    BY <1>1, <2>0, TransferAssumption DEF Record
  <2>4. \A u \in Threads : u # t /\ AtWork(u) => Request(u) # r
    BY <1>2 DEF IInv, Working, Progressed
  <2>5. \A c \in Calls : ~Posted(r, c)
    BY <1>1, <1>2 DEF IInv, Unrecorded
  <2>6. /\ journal' \in [Requests -> Record \union {None}] /\ journal'[r] = record
        /\ \A q \in Requests : q # r => journal'[q] = journal[q]
    BY <1>1, <2>1, <2>3 DEF IInv, TypeOK
  <2>7. Told(r, Status(r))'
    BY <2>0, <2>3, <2>6 DEF Told, Status
  <2>8. Progressed(r, new)'
    BY <2>0, <2>1, <2>2, <2>3, <2>5, <2>6 DEF Progressed, Posted
  <2>9. \A c \in Calls : did'[r][c] <= 1 /\ (<<r, c>> \in late' => did'[r][c] = 0)
    BY <1>1, <2>1 DEF IInv, NeverTwice
  <2>10. /\ balance' \in [Users -> Int] /\ late' \subseteq Requests \X Calls
         /\ faults' \in 0..MaxFaults /\ did' \in [Requests -> [Calls -> 0..2]]
    BY <2>1 DEF IInv, TypeOK
  <2>11. threads' = [threads EXCEPT ![t] = new] /\ did' = did /\ late' = late
    BY <2>1
  <2>12. new # None => /\ new \in Handlers /\ new.request = r /\ new.at # "insert"
                       /\ new.at = "finish" => new.outcome # "none"
    BY <2>2
  <2>13. journal'[r] # None
    BY <2>3, <2>6
  <2> QED
    BY <1>1, <2>4, <2>6, <2>7, <2>8, <2>9, <2>10, <2>11, <2>12, <2>13, HandlerStep
<1>3. CASE journal[r] # None
  <2>1. threads' = [threads EXCEPT ![t] = None] /\ UNCHANGED <<balance, journal, late, faults, did>>
    BY <1>0, <1>3 DEF Insert
  <2>2. faults' \in 0..MaxFaults
    BY <2>1 DEF IInv, TypeOK
  <2> QED
    BY <2>1, <2>2, IdleStep
<1> QED
  BY <1>2, <1>3

\* Resolve keeps the invariant: until the receiver is known nothing is posted, so a
\* refusal may call the request failed.
LEMMA ResolveInv ==
  ASSUME IInv, NEW t \in Threads, Resolve(t)
  PROVE  IInv'
<1>0. PICK r : r = Request(t)
  OBVIOUS
<1>1. AtWork(t) /\ threads[t].at = "resolve"
  BY DEF Resolve, AtWork
<1>2. /\ threads[t] \in Handlers /\ r \in Requests /\ Progressed(r, threads[t])
      /\ journal[r] \in Record
      /\ \A u \in Threads : u # t /\ AtWork(u) => Request(u) # r
  BY <1>0, <1>1, AtWorkFacts
<1>3. \A c \in Calls : ~Posted(r, c)
  BY <1>1, <1>2 DEF Progressed
<1>4. \A c \in Calls : did'[r][c] <= 1 /\ (<<r, c>> \in late' => did'[r][c] = 0)
  BY <1>2 DEF Resolve, IInv, NeverTwice
<1>5. /\ balance' \in [Users -> Int] /\ late' \subseteq Requests \X Calls
      /\ faults' \in 0..MaxFaults /\ did' \in [Requests -> [Calls -> 0..2]]
      /\ UNCHANGED <<late, did>>
  BY DEF Resolve, IInv, TypeOK
<1>6. CASE /\ journal' = [journal EXCEPT ![r].receiver = threads[t].to]
           /\ threads' = [threads EXCEPT ![t].at = "charge"]
  <2>0. PICK new, record : /\ new = [threads[t] EXCEPT !.at = "charge"]
                            /\ record = [journal[r] EXCEPT !.receiver = threads[t].to]
    OBVIOUS
  <2>1. new \in Handlers /\ new.request = r /\ new.at = "charge"
    BY <1>0, <1>2, <2>0 DEF Handlers, Calls, Request
  <2>2. record \in Record /\ record # None /\ record.receiver # None /\ record.status = "pending"
    BY <1>1, <1>2, <2>0, TransferAssumption DEF Record, Handlers, Progressed
  <2>3. /\ journal' \in [Requests -> Record \union {None}] /\ journal'[r] = record
        /\ \A q \in Requests : q # r => journal'[q] = journal[q]
    BY <1>2, <1>6, <2>0, <2>2 DEF IInv, TypeOK
  <2>4. threads' = [threads EXCEPT ![t] = new]
    BY <1>6, <2>0
  <2>5. Told(r, Status(r))'
    BY <2>2, <2>3 DEF Told, Status
  <2>6. Progressed(r, new)'
    BY <1>3, <1>5, <2>1, <2>2, <2>3 DEF Progressed, Posted
  <2> QED
    BY <1>2, <1>4, <1>5, <2>1, <2>2, <2>3, <2>4, <2>5, <2>6, HandlerStep
<1>7. CASE /\ journal' = [journal EXCEPT ![r].status = "failed"]
           /\ threads' = [threads EXCEPT ![t] = None]
  <2>0. PICK record : record = [journal[r] EXCEPT !.status = "failed"]
    OBVIOUS
  <2>1. record \in Record /\ record # None /\ record.status = "failed"
    BY <1>2, <2>0, TransferAssumption DEF Record
  <2>2. /\ journal' \in [Requests -> Record \union {None}] /\ journal'[r] = record
        /\ \A q \in Requests : q # r => journal'[q] = journal[q]
    BY <1>2, <1>7, <2>0, <2>1 DEF IInv, TypeOK
  <2>3. Told(r, Status(r))'
    BY <1>3, <1>5, <2>1, <2>2 DEF Told, Status, Posted, Calls
  <2> QED
    BY <1>2, <1>4, <1>5, <1>7, <2>1, <2>2, <2>3, HandlerStep
<1> QED
  BY <1>0, <1>6, <1>7 DEF Resolve

\* SearchFails keeps the invariant: the handler leaves and nothing else happens.
LEMMA SearchFailsInv ==
  ASSUME IInv, NEW t \in Threads, SearchFails(t)
  PROVE  IInv'
<1>1. threads' = [threads EXCEPT ![t] = None] /\ UNCHANGED <<balance, journal, late, did>>
  BY DEF SearchFails
<1>2. faults' \in 0..MaxFaults
  BY TransferAssumption DEF SearchFails, Faulty, IInv, TypeOK
<1> QED
  BY <1>1, <1>2, IdleStep

\* A call a handler is about to make is not posted, and its journal record names
\* both parties.
LEMMA AboutToCall ==
  ASSUME IInv, NEW t \in Threads, Calling(t)
  PROVE  /\ AtWork(t) /\ threads[t].at \in Calls /\ Status(Request(t)) = "pending"
         /\ ~Posted(Request(t), threads[t].at)
         /\ threads[t].at = "credit" => did[Request(t)]["charge"] = 1
         /\ threads[t].at = "refund" => did[Request(t)]["charge"] = 1
         /\ threads[t].at = "charge" => \A c \in Calls : ~Posted(Request(t), c)
         /\ threads[t].at # "refund" =>
              ~Posted(Request(t), "refund") /\ journal[Request(t)].receiver # None
<1>1. AtWork(t)
  BY DEF Calling, AtWork, Calls
<1>2. Progressed(Request(t), threads[t])
  BY <1>1, AtWorkFacts
<1> QED
  BY <1>1, <1>2 DEF Progressed, Calling, Calls, Status

\* Answered keeps the invariant: an answer tells what the host did, so each outcome
\* is noted down by what was carried out.
LEMMA AnsweredInv ==
  ASSUME IInv, NEW t \in Threads, Answered(t)
  PROVE  IInv'
<1>0. PICK h, r, c : h = threads[t] /\ r = Request(t) /\ c = threads[t].at
  OBVIOUS
<1>1. PICK ok \in BOOLEAN : HostAdjusts(r, c, ok) /\ threads' = [threads EXCEPT ![t] = After(h, ok)]
  BY <1>0 DEF Answered
<1>2. /\ AtWork(t) /\ c \in Calls /\ ~Posted(r, c)
      /\ c = "credit" => did[r]["charge"] = 1
      /\ c = "refund" => did[r]["charge"] = 1
      /\ c = "charge" => \A d \in Calls : ~Posted(r, d)
      /\ c # "refund" => ~Posted(r, "refund") /\ journal[r].receiver # None
  BY <1>0, AboutToCall DEF Answered
<1>3. /\ h \in Handlers /\ h.request = r /\ h.at = c /\ r \in Requests
      /\ journal[r] \in Record /\ journal[r] # None /\ journal[r].status = "pending"
      /\ \A u \in Threads : u # t /\ AtWork(u) => Request(u) # r
  BY <1>0, <1>2, AtWorkFacts DEF Progressed, Request
<1>4. /\ balance' \in [Users -> Int]
      /\ did' \in [Requests -> [Calls -> 0..2]]
      /\ \A q \in Requests, d \in Calls : q # r \/ d # c => did'[q][d] = did[q][d]
      /\ ok => did'[r][c] = 1
      /\ ~ok => did'[r][c] = 0
  BY <1>1, <1>2, <1>3, AdjustEffect DEF IInv, Posted
<1>5. journal' = journal /\ late' = late /\ faults' = faults
  BY DEF Answered
<1>6. PICK new : new = After(h, ok)
  OBVIOUS
<1>7. /\ new \in Handlers /\ new.request = r /\ new.at \in {"credit", "refund", "finish"}
      /\ new.at = "credit" <=> c = "charge" /\ ok
      /\ new.at = "refund" <=> c = "credit" /\ ~ok
      /\ new.at = "finish" =>
           /\ new.outcome # "none"
           /\ new.outcome = "succeeded" <=> c = "credit" /\ ok
           /\ new.outcome = "failed" <=> c = "charge" /\ ~ok
           /\ new.outcome = "compensated" <=> c = "refund" /\ ok
           /\ new.outcome = "needs_attention" <=> c = "refund" /\ ~ok
  BY <1>2, <1>3, <1>6, AfterEffect
<1>8. \A d \in Calls : d # c => (Posted(r, d)' <=> Posted(r, d)) /\ did'[r][d] = did[r][d]
  BY <1>3, <1>4, <1>5 DEF Posted
<1>9. ~ok => ~Posted(r, c)'
  BY <1>2, <1>4, <1>5 DEF Posted
<1>10. Told(r, new.outcome)' \/ new.at # "finish"
  BY <1>2, <1>4, <1>7, <1>8, <1>9 DEF Told, Calls
<1>11. Progressed(r, new)'
  BY <1>2, <1>3, <1>4, <1>5, <1>7, <1>8, <1>9, <1>10 DEF Progressed, Calls
<1>12. Told(r, Status(r))'
  BY <1>3, <1>5 DEF Told, Status
<1>13. \A d \in Calls : did'[r][d] <= 1 /\ (<<r, d>> \in late' => did'[r][d] = 0)
  <2> SUFFICES ASSUME NEW d \in Calls
               PROVE  did'[r][d] <= 1 /\ (<<r, d>> \in late' => did'[r][d] = 0)
    OBVIOUS
  <2>1. CASE d = c
    BY <1>2, <1>4, <1>5, <2>1 DEF Posted
  <2>2. CASE d # c
    BY <1>3, <1>4, <1>5, <2>2 DEF IInv, NeverTwice
  <2> QED
    BY <2>1, <2>2
<1>14. /\ journal' \in [Requests -> Record \union {None}] /\ late' \subseteq Requests \X Calls
       /\ faults' \in 0..MaxFaults /\ journal'[r] # None
       /\ threads' = [threads EXCEPT ![t] = new]
  BY <1>1, <1>3, <1>5, <1>6 DEF IInv, TypeOK
<1>15. new # None => /\ new \in Handlers /\ new.request = r /\ new.at # "insert"
                     /\ new.at = "finish" => new.outcome # "none"
  BY <1>7
<1> QED
  BY <1>3, <1>4, <1>5, <1>11, <1>12, <1>13, <1>14, <1>15, HandlerStep

\* Unanswered keeps the invariant: what the handler gives up on may still be carried
\* out, once, and it goes on as if it were not.
LEMMA UnansweredInv ==
  ASSUME IInv, NEW t \in Threads, Unanswered(t)
  PROVE  IInv'
<1>0. PICK h, r, c : h = threads[t] /\ r = Request(t) /\ c = threads[t].at
  OBVIOUS
<1>1. /\ late' \in {late, late \union {<<r, c>>}}
      /\ threads' = [threads EXCEPT ![t] = After(h, FALSE)]
      /\ UNCHANGED <<balance, journal, did>>
  BY <1>0 DEF Unanswered
<1>2. /\ AtWork(t) /\ c \in Calls /\ ~Posted(r, c)
      /\ c = "credit" => did[r]["charge"] = 1
      /\ c = "refund" => did[r]["charge"] = 1
      /\ c = "charge" => \A d \in Calls : ~Posted(r, d)
      /\ c # "refund" => ~Posted(r, "refund") /\ journal[r].receiver # None
  BY <1>0, AboutToCall DEF Unanswered
<1>3. /\ h \in Handlers /\ h.request = r /\ h.at = c /\ r \in Requests
      /\ journal[r] # None /\ journal[r].status = "pending"
      /\ \A u \in Threads : u # t /\ AtWork(u) => Request(u) # r
  BY <1>0, <1>2, AtWorkFacts DEF Progressed, Request
<1>4. PICK new : new = After(h, FALSE)
  OBVIOUS
<1>5. /\ new \in Handlers /\ new.request = r /\ new.at \in {"refund", "finish"}
      /\ new.at = "refund" <=> c = "credit"
      /\ new.at = "finish" =>
           /\ new.outcome \notin {"none", "succeeded", "compensated"}
           /\ new.outcome = "failed" <=> c = "charge"
           /\ new.outcome = "needs_attention" <=> c = "refund"
  <2>1. PICK ok \in BOOLEAN : ok = FALSE
    OBVIOUS
  <2>2. new = After(h, ok)
    BY <1>4, <2>1
  <2>3. /\ new \in Handlers /\ new.request = r /\ new.at \in {"credit", "refund", "finish"}
        /\ new.at = "credit" <=> c = "charge" /\ ok
        /\ new.at = "refund" <=> c = "credit" /\ ~ok
        /\ new.at = "finish" =>
             /\ new.outcome # "none"
             /\ new.outcome = "succeeded" <=> c = "credit" /\ ok
             /\ new.outcome = "failed" <=> c = "charge" /\ ~ok
             /\ new.outcome = "compensated" <=> c = "refund" /\ ok
             /\ new.outcome = "needs_attention" <=> c = "refund" /\ ~ok
    BY <1>2, <1>3, <2>2, AfterEffect
  <2> QED
    BY <2>1, <2>3
<1>6. \A d \in Calls : d # c => (Posted(r, d)' <=> Posted(r, d))
  BY <1>1 DEF Posted
<1>7. Told(r, new.outcome)' \/ new.at # "finish"
  BY <1>1, <1>2, <1>5, <1>6 DEF Told, Calls
<1>8. Progressed(r, new)'
  BY <1>1, <1>2, <1>3, <1>5, <1>6, <1>7 DEF Progressed, Calls
<1>9. Told(r, Status(r))'
  BY <1>1, <1>3 DEF Told, Status
<1>10. \A d \in Calls : did'[r][d] <= 1 /\ (<<r, d>> \in late' => did'[r][d] = 0)
  BY <1>1, <1>2, <1>3 DEF IInv, NeverTwice, Posted
<1>11. \A q \in Requests : q # r =>
         /\ journal'[q] = journal[q]
         /\ \A d \in Calls : did'[q][d] = did[q][d] /\ (<<q, d>> \in late' <=> <<q, d>> \in late)
  BY <1>1
<1>12. faults' \in 0..MaxFaults
  BY TransferAssumption DEF Unanswered, Faulty, IInv, TypeOK
<1>13. /\ balance' \in [Users -> Int] /\ journal' \in [Requests -> Record \union {None}]
       /\ late' \subseteq Requests \X Calls /\ did' \in [Requests -> [Calls -> 0..2]]
       /\ journal'[r] # None /\ threads' = [threads EXCEPT ![t] = new]
  BY <1>1, <1>2, <1>3, <1>4 DEF IInv, TypeOK
<1>14. new # None => /\ new \in Handlers /\ new.request = r /\ new.at # "insert"
                     /\ new.at = "finish" => new.outcome # "none"
  BY <1>5
<1> QED
  BY <1>3, <1>8, <1>9, <1>10, <1>11, <1>12, <1>13, <1>14, HandlerStep

\* Finish keeps the invariant: what is written is what the handler can tell.
LEMMA FinishInv ==
  ASSUME IInv, NEW t \in Threads, Finish(t)
  PROVE  IInv'
<1>0. PICK h, r, record : /\ h = threads[t] /\ r = Request(t)
                          /\ record = [journal[Request(t)] EXCEPT !.status = threads[t].outcome]
  OBVIOUS
<1>1. AtWork(t) /\ h.at = "finish"
  BY <1>0 DEF Finish, AtWork
<1>2. /\ h \in Handlers /\ r \in Requests /\ journal[r] \in Record /\ Told(r, h.outcome)
      /\ \A u \in Threads : u # t /\ AtWork(u) => Request(u) # r
  BY <1>0, <1>1, AtWorkFacts DEF Progressed
<1>3. h.outcome # "none"
  BY <1>0, <1>1 DEF IInv, TypeOK, AtWork
<1>4. record \in Record /\ record # None /\ record.status = h.outcome
  BY <1>0, <1>2, <1>3, TransferAssumption DEF Record, Handlers
<1>5. /\ journal' = [journal EXCEPT ![r] = record]
      /\ threads' = [threads EXCEPT ![t] = None]
      /\ UNCHANGED <<balance, late, faults, did>>
  BY <1>0 DEF Finish
<1>6. /\ journal' \in [Requests -> Record \union {None}] /\ journal'[r] = record
      /\ \A q \in Requests : q # r => journal'[q] = journal[q]
  BY <1>2, <1>4, <1>5 DEF IInv, TypeOK
<1>7. Told(r, Status(r))'
  BY <1>2, <1>4, <1>5, <1>6 DEF Told, Status, Posted
<1>8. \A c \in Calls : did'[r][c] <= 1 /\ (<<r, c>> \in late' => did'[r][c] = 0)
  BY <1>2, <1>5 DEF IInv, NeverTwice
<1>9. /\ balance' \in [Users -> Int] /\ late' \subseteq Requests \X Calls
      /\ faults' \in 0..MaxFaults /\ did' \in [Requests -> [Calls -> 0..2]]
      /\ did' = did /\ late' = late /\ journal'[r] # None
  BY <1>4, <1>5, <1>6 DEF IInv, TypeOK
<1> QED
  BY <1>2, <1>5, <1>6, <1>7, <1>8, <1>9, HandlerStep

\* LateCall keeps the invariant: nobody goes on from a call that was given up on, and
\* no status rests on it not having been carried out.
LEMMA LateCallInv ==
  ASSUME IInv, LateCall
  PROVE  IInv'
<1>1. PICK p \in late, granted \in BOOLEAN :
        HostAdjusts(p[1], p[2], granted) /\ late' = late \ {p}
  BY DEF LateCall
<1>2. PICK r \in Requests, c \in Calls : p = <<r, c>>
  BY DEF IInv, TypeOK
<1>3. UNCHANGED <<journal, threads, faults>>
  BY DEF LateCall
<1>4. HostAdjusts(r, c, granted) /\ late' = late \ {<<r, c>>} /\ <<r, c>> \in late
  BY <1>1, <1>2
<1>5. did[r][c] = 0
  BY <1>4 DEF IInv, NeverTwice
<1>6. journal[r] # None
  BY <1>4 DEF IInv, Unrecorded, Posted
<1>7. /\ balance' \in [Users -> Int] /\ did' \in [Requests -> [Calls -> 0..2]]
      /\ \A q \in Requests, d \in Calls : q # r \/ d # c => did'[q][d] = did[q][d]
      /\ did'[r][c] \in {0, 1}
  BY <1>4, <1>5, <1>6, AdjustEffect DEF IInv
<1>8. \A q \in Requests, d \in Calls :
        /\ Posted(q, d)' => Posted(q, d)
        /\ did[q][d] = 1 => did'[q][d] = 1
  <2> SUFFICES ASSUME NEW q \in Requests, NEW d \in Calls
               PROVE  (Posted(q, d)' => Posted(q, d)) /\ (did[q][d] = 1 => did'[q][d] = 1)
    OBVIOUS
  <2>1. CASE q = r /\ d = c
    BY <1>4, <1>5, <2>1 DEF Posted
  <2>2. CASE q # r \/ d # c
    BY <1>4, <1>7, <2>2 DEF Posted
  <2> QED
    BY <2>1, <2>2
<1>9. TypeOK'
  BY <1>3, <1>4, <1>7 DEF IInv, TypeOK
<1>10. OneHandler'
  BY <1>3 DEF IInv, OneHandler, AtWork, Request
<1>11. NeverTwice'
  <2> SUFFICES ASSUME NEW q \in Requests, NEW d \in Calls
               PROVE  did'[q][d] <= 1 /\ (<<q, d>> \in late' => did'[q][d] = 0)
    BY DEF NeverTwice
  <2>1. CASE q = r /\ d = c
    BY <1>4, <1>7, <2>1
  <2>2. CASE q # r \/ d # c
    BY <1>4, <1>7, <2>2 DEF IInv, NeverTwice
  <2> QED
    BY <2>1, <2>2
<1>12. Unrecorded'
  BY <1>3, <1>8 DEF IInv, Unrecorded
<1>13. Telling'
  <2> SUFFICES ASSUME NEW q \in Requests
               PROVE  Told(q, Status(q))'
    BY DEF Telling
  <2>1. PICK s : s = Status(q) /\ s = Status(q)'
    BY <1>3 DEF Status
  <2>2. Told(q, s)
    BY <2>1 DEF IInv, Telling
  <2>3. Told(q, s)'
    BY <1>3, <1>8, <2>2, Untouched
  <2> QED
    BY <2>1, <2>3
<1>14. Working'
  <2> SUFFICES ASSUME NEW u \in Threads, AtWork(u)'
               PROVE  Progressed(Request(u), threads[u])'
    BY DEF Working
  <2>1. PICK h, q : h = threads[u] /\ q = Request(u)
    OBVIOUS
  <2>2. threads'[u] = h /\ Request(u)' = q /\ AtWork(u)
    BY <1>3, <2>1 DEF AtWork, Request
  <2>3. q \in Requests /\ Progressed(q, h)
    BY <2>1, <2>2, AtWorkFacts
  <2>4. Progressed(q, h)'
    BY <1>3, <1>8, <2>3, Untouched
  <2> QED
    BY <2>2, <2>4
<1> QED
  BY <1>9, <1>10, <1>11, <1>12, <1>13, <1>14 DEF IInv

\* Crash keeps the invariant: the calls under way were not posted before, and their
\* requests stay pending, which tells nothing.
LEMMA CrashInv ==
  ASSUME IInv, Crash
  PROVE  IInv'
<1>1. PICK sent \in SUBSET {t \in Threads : Calling(t)} :
        late' = late \union {<<Request(t), threads[t].at>> : t \in sent}
  BY DEF Crash
<1>2. threads' = [t \in Threads |-> None] /\ UNCHANGED <<balance, journal, did>>
  BY DEF Crash
<1>3. \A t \in Threads : ~AtWork(t)'
  BY <1>2 DEF AtWork
<1>4. \A t \in sent : /\ Request(t) \in Requests /\ threads[t].at \in Calls
                      /\ Status(Request(t)) = "pending"
                      /\ ~Posted(Request(t), threads[t].at)
  BY AboutToCall, AtWorkFacts
<1>5. faults' \in 0..MaxFaults
  BY TransferAssumption DEF Crash, Faulty, IInv, TypeOK
<1>6. TypeOK'
  BY <1>1, <1>2, <1>4, <1>5 DEF IInv, TypeOK
<1>7. OneHandler' /\ Working'
  BY <1>3 DEF OneHandler, Working
<1>8. NeverTwice'
  <2> SUFFICES ASSUME NEW q \in Requests, NEW c \in Calls
               PROVE  did[q][c] <= 1 /\ (<<q, c>> \in late' => did[q][c] = 0)
    BY <1>2 DEF NeverTwice
  <2>1. did[q][c] <= 1 /\ (<<q, c>> \in late => did[q][c] = 0)
    BY DEF IInv, NeverTwice
  <2>2. ASSUME <<q, c>> \in late', <<q, c>> \notin late
        PROVE  did[q][c] = 0
    BY <1>1, <1>4, <2>2 DEF Posted
  <2> QED
    BY <2>1, <2>2
<1>9. \A q \in Requests : Status(q) # "pending" =>
        \A c \in Calls : Posted(q, c)' <=> Posted(q, c)
  BY <1>1, <1>2, <1>4 DEF Posted
<1>10. Unrecorded'
  BY <1>2, <1>9 DEF IInv, Unrecorded, Status
<1>11. Telling'
  <2> SUFFICES ASSUME NEW q \in Requests
               PROVE  Told(q, Status(q))'
    BY DEF Telling
  <2>1. PICK s : s = Status(q) /\ s = Status(q)'
    BY <1>2 DEF Status
  <2>2. Told(q, s)
    BY <2>1 DEF IInv, Telling
  <2>3. s = "pending" => Told(q, s)'
    BY DEF Told
  <2>4. s # "pending" => Told(q, s)'
    BY <1>2, <1>9, <2>1, <2>2 DEF Told, Calls
  <2>5. Told(q, s)'
    BY <2>3, <2>4
  <2> QED
    BY <2>1, <2>5
<1> QED
  BY <1>6, <1>7, <1>8, <1>10, <1>11 DEF IInv

\* The service starts with an empty journal and nobody at work.
LEMMA InitInv ==
  ASSUME Init
  PROVE  IInv
<1>1. TypeOK
  BY TransferAssumption DEF Init, TypeOK
<1>2. OneHandler /\ Working
  BY DEF Init, OneHandler, Working, AtWork
<1>3. NeverTwice /\ Unrecorded
  BY DEF Init, NeverTwice, Unrecorded, Posted
<1>4. Telling
  BY DEF Init, Telling, Told, Status
<1> QED
  BY <1>1, <1>2, <1>3, <1>4 DEF IInv

\* A stuttering step keeps the invariant.
LEMMA StutterInv ==
  ASSUME IInv, UNCHANGED vars
  PROVE  IInv'
BY DEF vars, IInv, TypeOK, OneHandler, NeverTwice, Unrecorded, Telling, Working,
       AtWork, Posted, Told, Progressed, Status, Request

\* Every step keeps the invariant.
LEMMA NextInv ==
  ASSUME IInv, [Next]_vars
  PROVE  IInv'
<1>1. ASSUME NEW t \in Threads, Step(t)
      PROVE  IInv'
  <2>1. CASE \E r \in Requests, to \in Users, amount \in Amounts : Enter(t, r, to, amount)
    BY <2>1, EnterInv
  <2>2. CASE Insert(t)
    BY <2>2, InsertInv
  <2>3. CASE Resolve(t)
    BY <2>3, ResolveInv
  <2>4. CASE SearchFails(t)
    BY <2>4, SearchFailsInv
  <2>5. CASE Answered(t)
    BY <2>5, AnsweredInv
  <2>6. CASE Unanswered(t)
    BY <2>6, UnansweredInv
  <2>7. CASE Finish(t)
    BY <2>7, FinishInv
  <2> QED
    BY <1>1, <2>1, <2>2, <2>3, <2>4, <2>5, <2>6, <2>7 DEF Step
<1> QED
  BY <1>1, LateCallInv, CrashInv, StutterInv DEF Next

-----------------------------------------------------------------------------

\* In every behaviour of the service the invariant holds.
THEOREM Invariance == Spec => []IInv
<1>1. Init => IInv
  BY InitInv
<1>2. IInv /\ [Next]_vars => IInv'
  BY NextInv
<1> QED
  BY <1>1, <1>2, PTL DEF Spec

\* The state is well-typed, and a handler about to finish has an outcome to write.
THEOREM TypeCorrect == Spec => []TypeOK
<1>1. IInv => TypeOK
  BY DEF IInv
<1> QED
  BY <1>1, Invariance, PTL

\* No call of a request is carried out twice, whatever is sent again with its key,
\* lost, given up on, or killed.
THEOREM NoCallTwice == Spec => []ExecutedOnce
<1>1. IInv => ExecutedOnce
  BY DEF IInv, NeverTwice, ExecutedOnce
<1> QED
  BY <1>1, Invariance, PTL

\* Every final status in the journal is true of the host.
THEOREM JournalTrue == Spec => []JournalIsTrue
<1>1. IInv => JournalIsTrue
  <2> SUFFICES ASSUME IInv, NEW r \in Requests
               PROVE  /\ Status(r) = "succeeded" =>
                           did[r]["charge"] = 1 /\ did[r]["credit"] = 1 /\ did[r]["refund"] = 0
                      /\ Status(r) = "failed" => did[r]["credit"] = 0 /\ did[r]["refund"] = 0
                      /\ Status(r) = "compensated" => did[r]["charge"] = 1 /\ did[r]["refund"] = 1
                      /\ Status(r) = "needs_attention" => did[r]["charge"] = 1
    BY DEF JournalIsTrue
  <2>1. Told(r, Status(r))
    BY DEF IInv, Telling
  <2> QED
    BY <2>1 DEF Told, Posted
<1> QED
  BY <1>1, Invariance, PTL

\* A finished request's record is never written again: the only handler that writes
\* to a record found it pending.
THEOREM OutcomesFinal == Spec => OutcomeIsFinal
<1> DEFINE Final == \A r \in Requests : Status(r) \notin {"none", "pending"} => journal'[r] = journal[r]
<1>1. ASSUME IInv, [Next]_vars
      PROVE  Final
  <2>1. ASSUME NEW t \in Threads, AtWork(t), NEW record,
               journal' = [journal EXCEPT ![Request(t)] = record]
        PROVE  Final
    <3>1. Status(Request(t)) = "pending"
      BY <1>1, <2>1, AtWorkFacts DEF Progressed, Status
    <3> QED
      BY <1>1, <2>1, <3>1 DEF IInv, TypeOK
  <2>2. ASSUME NEW t \in Threads, Insert(t)
        PROVE  Final
    <3>1. CASE journal[Request(t)] = None
      <4>1. Status(Request(t)) = "none"
        BY <3>1 DEF Status
      <4> QED
        BY <1>1, <2>2, <3>1, <4>1 DEF Insert, IInv, TypeOK
    <3>2. CASE journal[Request(t)] # None
      BY <2>2, <3>2 DEF Insert
    <3> QED
      BY <3>1, <3>2
  <2>3. ASSUME NEW t \in Threads, Resolve(t)
        PROVE  Final
    BY <2>1, <2>3 DEF Resolve, AtWork
  <2>4. ASSUME NEW t \in Threads, Finish(t)
        PROVE  Final
    BY <2>1, <2>4 DEF Finish, AtWork
  <2>5. CASE UNCHANGED journal
    BY <2>5
  <2> QED
    BY <1>1, <2>2, <2>3, <2>4, <2>5
       DEF Next, Step, LateCall, Crash, Enter, SearchFails, Answered, Unanswered, vars
<1>2. Spec => [][Final]_vars
  BY <1>1, Invariance, PTL DEF Spec
<1> QED
  BY <1>2 DEF OutcomeIsFinal
-----------------------------------------------------------------------------
(* Amounts *)

\* A request stands for as many cents as its amount says.
LEMMA AmountOfOne ==
  ASSUME NEW r, journal[r].amount \in Nat
  PROVE  AmountOf({r}) = journal[r].amount
<1>0. PICK n \in Nat : n = journal[r].amount
  OBVIOUS
<1>1. Cents({r}) = {r} \X (1..n)
  BY <1>0 DEF Cents
<1>2. IsFiniteSet(1..n) /\ Cardinality(1..n) = n
  BY FS_Interval
<1>3. IsFiniteSet({r}) /\ Cardinality({r}) = 1
  BY FS_Singleton
<1>4. Cardinality({r} \X (1..n)) = 1 * n
  BY <1>2, <1>3, FS_Product
<1>5. 1 * n = n
  OBVIOUS
<1> QED
  BY <1>0, <1>1, <1>4, <1>5 DEF AmountOf

\* The cents of finitely many requests are finitely many.
LEMMA CentsAreFinite ==
  ASSUME NEW rs, IsFiniteSet(rs), \A r \in rs : journal[r].amount \in Nat
  PROVE  IsFiniteSet(Cents(rs)) /\ AmountOf(rs) \in Nat
<1> DEFINE cents == [r \in rs |-> {r} \X (1..journal[r].amount)]
           each == {{r} \X (1..journal[r].amount) : r \in rs}
<1>1. cents \in Surjection(rs, each)
  BY DEF Surjection
<1>2. IsFiniteSet(each)
  <2> HIDE DEF cents, each
  <2> QED
    BY <1>1, FS_Surjection
<1>3. ASSUME NEW r \in rs
      PROVE  IsFiniteSet({r} \X (1..journal[r].amount))
  <2>1. IsFiniteSet(1..journal[r].amount)
    BY FS_Interval
  <2>2. IsFiniteSet({r})
    BY FS_Singleton
  <2> QED
    BY <2>1, <2>2, FS_Product
<1>4. \A S \in each : IsFiniteSet(S)
  BY <1>3
<1>5. IsFiniteSet(UNION each)
  <2> HIDE DEF each
  <2> QED
    BY <1>2, <1>4, FS_UNION
<1>6. IsFiniteSet(Cents(rs))
  BY <1>5 DEF Cents
<1> QED
  BY <1>6, FS_CardinalityType DEF AmountOf

\* Amounts of different requests add up.
LEMMA AmountsAddUp ==
  ASSUME NEW A, NEW B, IsFiniteSet(A), IsFiniteSet(B), A \intersect B = {},
         \A r \in A \union B : journal[r].amount \in Nat
  PROVE  /\ AmountOf(A) \in Nat /\ AmountOf(B) \in Nat
         /\ AmountOf(A \union B) = AmountOf(A) + AmountOf(B)
<1>1. /\ IsFiniteSet(Cents(A)) /\ AmountOf(A) \in Nat
      /\ IsFiniteSet(Cents(B)) /\ AmountOf(B) \in Nat
  BY CentsAreFinite
<1>2. Cents(A \union B) = Cents(A) \union Cents(B)
  BY DEF Cents
<1>3. Cents(A) \intersect Cents(B) = {}
  <2> SUFFICES ASSUME NEW c \in Cents(A), c \in Cents(B)
               PROVE  FALSE
    OBVIOUS
  <2>1. PICK a \in A : c \in {a} \X (1..journal[a].amount)
    BY DEF Cents
  <2>2. PICK b \in B : c \in {b} \X (1..journal[b].amount)
    BY DEF Cents
  <2>3. a = b
    BY <2>1, <2>2
  <2> QED
    BY <2>3
<1>4. PICK a \in Nat, b \in Nat : a = AmountOf(A) /\ b = AmountOf(B)
  BY <1>1
<1>5. Cardinality(Cents(A) \union Cents(B)) = a + b - 0
  BY <1>1, <1>3, <1>4, FS_Union, FS_EmptySet DEF AmountOf
<1>6. a + b - 0 = a + b
  BY <1>4
<1>7. AmountOf(A \union B) = a + b
  BY <1>2, <1>5, <1>6 DEF AmountOf
<1> QED
  BY <1>4, <1>7

\* They change only with the journal.
LEMMA AmountsStay ==
  ASSUME NEW rs, \A r \in rs : journal'[r].amount = journal[r].amount
  PROVE  AmountOf(rs)' = AmountOf(rs)
<1>1. {{r} \X (1..journal'[r].amount) : r \in rs} = {{r} \X (1..journal[r].amount) : r \in rs}
  OBVIOUS
<1> QED
  BY <1>1 DEF AmountOf, Cents

-----------------------------------------------------------------------------
(* The host's books *)

InJournal(r) == journal[r] # None

FinitelyMany == IsFiniteSet({r \in Requests : InJournal(r)})

Sent(u) == {r \in Requests : r[1] = u /\ did[r]["charge"] # 0}

Refunded(u) == {r \in Requests : r[1] = u /\ did[r]["refund"] # 0}

Received(u) == {r \in Requests : InJournal(r) /\ journal[r].receiver = u /\ did[r]["credit"] # 0}

\* Every balance is what the calls carried out have made of it.
Ledger ==
  \A u \in Users :
    balance[u] = Deposit - AmountOf(Sent(u)) + AmountOf(Refunded(u)) + AmountOf(Received(u))

\* The requests in the journal have amounts, and sums over them are numbers.
LEMMA Bookable ==
  ASSUME IInv, FinitelyMany, NEW rs, rs \subseteq {r \in Requests : InJournal(r)}
  PROVE  IsFiniteSet(rs) /\ AmountOf(rs) \in Nat /\ \A r \in rs : journal[r].amount \in Nat
<1>1. IsFiniteSet(rs)
  BY FS_Subset DEF FinitelyMany
<1>2. ASSUME NEW r \in rs
      PROVE  journal[r].amount \in Nat
  <2>1. journal[r] \in Record
    BY Recorded DEF IInv, InJournal
  <2> QED
    BY <2>1, TransferAssumption DEF Record
<1> QED
  BY <1>1, <1>2, CentsAreFinite

\* One request more is its amount more.
LEMMA OneMore ==
  ASSUME IInv, FinitelyMany, NEW rs, rs \subseteq {q \in Requests : InJournal(q)},
         NEW r \in Requests, InJournal(r), r \notin rs
  PROVE  AmountOf(rs \union {r}) = AmountOf(rs) + journal[r].amount
<1>1. IsFiniteSet(rs) /\ \A q \in rs : journal[q].amount \in Nat
  BY Bookable
<1>2. journal[r].amount \in Nat
  <2>1. {r} \subseteq {q \in Requests : InJournal(q)}
    OBVIOUS
  <2> QED
    BY <2>1, Bookable
<1>3. IsFiniteSet({r}) /\ rs \intersect {r} = {} /\ \A q \in rs \union {r} : journal[q].amount \in Nat
  BY <1>1, <1>2, FS_Singleton
<1>4. AmountOf(rs \union {r}) = AmountOf(rs) + AmountOf({r})
  BY <1>1, <1>3, AmountsAddUp
<1> QED
  BY <1>2, <1>4, AmountOfOne

\* What is carried out is in the journal.
LEMMA DoneIsRecorded ==
  ASSUME IInv
  PROVE  /\ \A r \in Requests, c \in Calls : did[r][c] # 0 => InJournal(r)
         /\ \A u : /\ Sent(u) \subseteq {r \in Requests : InJournal(r)}
                   /\ Refunded(u) \subseteq {r \in Requests : InJournal(r)}
                   /\ Received(u) \subseteq {r \in Requests : InJournal(r)}
<1>1. \A r \in Requests, c \in Calls : did[r][c] # 0 => InJournal(r)
  BY DEF IInv, Unrecorded, Posted, InJournal
<1> QED
  BY <1>1 DEF Sent, Refunded, Received, Calls

\* A call the host carries out changes the balance it is for by its amount, and is
\* carried out for the first time.
LEMMA CallIsBooked ==
  ASSUME IInv, FinitelyMany, Ledger, UNCHANGED journal,
         NEW r \in Requests, NEW c \in Calls, InJournal(r), did[r][c] = 0,
         NEW granted \in BOOLEAN, HostAdjusts(r, c, granted)
  PROVE  Ledger'
<1>1. CASE ~granted
  <2>1. UNCHANGED <<balance, did, journal>>
    BY <1>1 DEF HostAdjusts
  <2> QED
    BY <2>1 DEF Ledger, AmountOf, Cents, Sent, Refunded, Received, InJournal
<1>2. CASE granted
  <2> SUFFICES ASSUME NEW u \in Users
               PROVE  balance'[u] = Deposit - AmountOf(Sent(u))' + AmountOf(Refunded(u))'
                                      + AmountOf(Received(u))'
    BY DEF Ledger
  <2>1. PICK sent, refunded, received :
          sent = Sent(u) /\ refunded = Refunded(u) /\ received = Received(u)
    OBVIOUS
  <2>2. PICK sent2, refunded2, received2 :
          sent2 = Sent(u)' /\ refunded2 = Refunded(u)' /\ received2 = Received(u)'
    OBVIOUS
  <2>3. /\ AmountOf(Sent(u))' = AmountOf(sent2)
        /\ AmountOf(Refunded(u))' = AmountOf(refunded2)
        /\ AmountOf(Received(u))' = AmountOf(received2)
    <3>1. /\ AmountOf(Sent(u))' = AmountOf(sent2)'
          /\ AmountOf(Refunded(u))' = AmountOf(refunded2)'
          /\ AmountOf(Received(u))' = AmountOf(received2)'
      BY <2>2 DEF AmountOf, Cents, Sent, Refunded, Received, InJournal
    <3> QED
      BY <3>1, AmountsStay
  <2>4. PICK b \in Int, n \in Nat, s \in Nat, f \in Nat, v \in Nat :
             /\ b = balance[u] /\ n = journal[r].amount
             /\ s = AmountOf(sent) /\ f = AmountOf(refunded) /\ v = AmountOf(received)
    <3>1. balance[u] \in Int
      BY DEF IInv, TypeOK
    <3>2. journal[r].amount \in Nat
      <4>1. {r} \subseteq {q \in Requests : InJournal(q)}
        OBVIOUS
      <4> QED
        BY <4>1, Bookable
    <3>3. AmountOf(sent) \in Nat /\ AmountOf(refunded) \in Nat /\ AmountOf(received) \in Nat
      BY <2>1, Bookable, DoneIsRecorded
    <3> QED
      BY <3>1, <3>2, <3>3
  <2>5. b = Deposit - s + f + v
    BY <2>1, <2>4 DEF Ledger
  <2>6. /\ did' \in [Requests -> [Calls -> 0..2]] /\ did'[r][c] = 1
        /\ \A q \in Requests, d \in Calls : q # r \/ d # c => did'[q][d] = did[q][d]
    BY <1>2, AdjustEffect DEF IInv, InJournal
  <2>7. balance' = [balance EXCEPT ![Beneficiary(r, c)] =
                     @ + (IF c = "charge" THEN -journal[r].amount ELSE journal[r].amount)]
    BY <1>2 DEF HostAdjusts
  <2>8. Deposit \in Nat
    BY TransferAssumption
  <2>9. CASE c = "charge"
    <3>1. refunded2 = refunded /\ received2 = received
      BY <2>1, <2>2, <2>6, <2>9 DEF Refunded, Received, InJournal, Calls
    <3>2. CASE r[1] = u
      <4>1. sent2 = sent \union {r} /\ r \notin sent
        BY <2>1, <2>2, <2>6, <2>9, <3>2 DEF Sent, Calls
      <4>2. AmountOf(sent2) = s + n
        BY <2>1, <2>4, <4>1, OneMore, DoneIsRecorded
      <4>3. balance'[u] = b + (-n)
        BY <2>4, <2>7, <2>9, <3>2 DEF Beneficiary, IInv, TypeOK
      <4>4. b + (-n) = Deposit - (s + n) + f + v
        BY <2>4, <2>5, <2>8
      <4> QED
        BY <2>3, <2>4, <3>1, <4>2, <4>3, <4>4
    <3>3. CASE r[1] # u
      <4>1. sent2 = sent
        BY <2>1, <2>2, <2>6, <2>9, <3>3 DEF Sent, Calls
      <4>2. balance'[u] = b
        BY <2>4, <2>7, <2>9, <3>3 DEF Beneficiary, IInv, TypeOK
      <4> QED
        BY <2>3, <2>4, <2>5, <3>1, <4>1, <4>2
    <3> QED
      BY <3>2, <3>3
  <2>10. CASE c = "refund"
    <3>1. sent2 = sent /\ received2 = received
      BY <2>1, <2>2, <2>6, <2>10 DEF Sent, Received, InJournal, Calls
    <3>2. CASE r[1] = u
      <4>1. refunded2 = refunded \union {r} /\ r \notin refunded
        BY <2>1, <2>2, <2>6, <2>10, <3>2 DEF Refunded, Calls
      <4>2. AmountOf(refunded2) = f + n
        BY <2>1, <2>4, <4>1, OneMore, DoneIsRecorded
      <4>3. balance'[u] = b + n
        BY <2>4, <2>7, <2>10, <3>2 DEF Beneficiary, IInv, TypeOK
      <4>4. b + n = Deposit - s + (f + n) + v
        BY <2>4, <2>5, <2>8
      <4> QED
        BY <2>3, <2>4, <3>1, <4>2, <4>3, <4>4
    <3>3. CASE r[1] # u
      <4>1. refunded2 = refunded
        BY <2>1, <2>2, <2>6, <2>10, <3>3 DEF Refunded, Calls
      <4>2. balance'[u] = b
        BY <2>4, <2>7, <2>10, <3>3 DEF Beneficiary, IInv, TypeOK
      <4> QED
        BY <2>3, <2>4, <2>5, <3>1, <4>1, <4>2
    <3> QED
      BY <3>2, <3>3
  <2>11. CASE c = "credit"
    <3>1. sent2 = sent /\ refunded2 = refunded
      BY <2>1, <2>2, <2>6, <2>11 DEF Sent, Refunded, Calls
    <3>2. CASE journal[r].receiver = u
      <4>1. received2 = received \union {r} /\ r \notin received
        BY <2>1, <2>2, <2>6, <2>11, <3>2 DEF Received, InJournal, Calls
      <4>2. AmountOf(received2) = v + n
        BY <2>1, <2>4, <4>1, OneMore, DoneIsRecorded
      <4>3. balance'[u] = b + n
        BY <2>4, <2>7, <2>11, <3>2 DEF Beneficiary, IInv, TypeOK
      <4>4. b + n = Deposit - s + f + (v + n)
        BY <2>4, <2>5, <2>8
      <4> QED
        BY <2>3, <2>4, <3>1, <4>2, <4>3, <4>4
    <3>3. CASE journal[r].receiver # u
      <4>1. received2 = received
        BY <2>1, <2>2, <2>6, <2>11, <3>3 DEF Received, InJournal, Calls
      <4>2. balance'[u] = b
        BY <2>4, <2>7, <2>11, <3>3 DEF Beneficiary, IInv, TypeOK
      <4> QED
        BY <2>3, <2>4, <2>5, <3>1, <4>1, <4>2
    <3> QED
      BY <3>2, <3>3
  <2> QED
    BY <2>9, <2>10, <2>11 DEF Calls
<1> QED
  BY <1>1, <1>2

\* A step of the service alone leaves the books as they are: what it writes to the
\* journal is not the amount or receiver of a call that was carried out.
LEMMA ServiceKeepsBooks ==
  ASSUME IInv, Ledger, UNCHANGED <<balance, did>>,
         \A r \in Requests : (\E c \in Calls : did[r][c] # 0) =>
           InJournal(r)' /\ journal'[r].receiver = journal[r].receiver
                         /\ journal'[r].amount = journal[r].amount
  PROVE  Ledger'
<1> SUFFICES ASSUME NEW u \in Users
             PROVE  balance[u] = Deposit - AmountOf(Sent(u))' + AmountOf(Refunded(u))'
                                   + AmountOf(Received(u))'
  BY DEF Ledger
<1>1. PICK sent, refunded, received :
        sent = Sent(u) /\ refunded = Refunded(u) /\ received = Received(u)
  OBVIOUS
<1>2. sent = Sent(u)' /\ refunded = Refunded(u)'
  BY <1>1 DEF Sent, Refunded
<1>3. received = Received(u)'
  BY <1>1, DoneIsRecorded DEF Received, InJournal, Calls
<1>4. /\ \A r \in sent \union refunded \union received : journal'[r].amount = journal[r].amount
  BY <1>1 DEF Sent, Refunded, Received, Calls
<1>5. /\ AmountOf(Sent(u))' = AmountOf(sent)'
      /\ AmountOf(Refunded(u))' = AmountOf(refunded)'
      /\ AmountOf(Received(u))' = AmountOf(received)'
  BY <1>2, <1>3 DEF AmountOf, Cents, Sent, Refunded, Received, InJournal
<1>6. AmountOf(sent)' = AmountOf(sent) /\ AmountOf(refunded)' = AmountOf(refunded)
      /\ AmountOf(received)' = AmountOf(received)
  BY <1>4, AmountsStay
<1> QED
  BY <1>1, <1>5, <1>6 DEF Ledger

\* Every step keeps the books, whatever is lost or killed: the journal grows by one
\* request at a time, and balances follow the calls.
LEMMA BooksKept ==
  ASSUME IInv, FinitelyMany, Ledger, [Next]_vars
  PROVE  FinitelyMany' /\ Ledger'
<1>1. CASE UNCHANGED <<balance, journal, did>>
  <2>1. Ledger'
    BY <1>1, DoneIsRecorded, ServiceKeepsBooks DEF InJournal
  <2> QED
    BY <1>1, <2>1 DEF FinitelyMany, InJournal
<1>2. ASSUME NEW r \in Requests, NEW c \in Calls, NEW granted \in BOOLEAN, UNCHANGED journal,
             InJournal(r), did[r][c] = 0, HostAdjusts(r, c, granted)
      PROVE  FinitelyMany' /\ Ledger'
  BY <1>2, CallIsBooked DEF FinitelyMany, InJournal
<1>3. CASE LateCall
  <2>1. PICK p \in late, granted \in BOOLEAN : HostAdjusts(p[1], p[2], granted)
    BY <1>3 DEF LateCall
  <2>2. PICK r \in Requests, c \in Calls : p = <<r, c>>
    BY DEF IInv, TypeOK
  <2>3. did[r][c] = 0 /\ InJournal(r) /\ UNCHANGED journal
    BY <1>3, <2>1, <2>2 DEF IInv, NeverTwice, Unrecorded, Posted, InJournal, LateCall
  <2> QED
    BY <1>2, <2>1, <2>2, <2>3
<1>4. ASSUME NEW t \in Threads, Answered(t)
      PROVE  FinitelyMany' /\ Ledger'
  <2>1. PICK granted \in BOOLEAN : HostAdjusts(Request(t), threads[t].at, granted)
    BY <1>4 DEF Answered
  <2>2. /\ AtWork(t) /\ threads[t].at \in Calls /\ did[Request(t)][threads[t].at] = 0
    BY <1>4, AboutToCall DEF Answered, Posted
  <2>3. Request(t) \in Requests /\ InJournal(Request(t)) /\ UNCHANGED journal
    BY <1>4, <2>2, AtWorkFacts DEF Progressed, InJournal, Answered
  <2> QED
    BY <1>2, <2>1, <2>2, <2>3
<1>5. ASSUME NEW r \in Requests, NEW record \in Record, UNCHANGED <<balance, did>>,
             journal' = [journal EXCEPT ![r] = record],
             \/ \A c \in Calls : did[r][c] = 0
             \/ record.receiver = journal[r].receiver /\ record.amount = journal[r].amount
      PROVE  FinitelyMany' /\ Ledger'
  <2>1. journal'[r] = record /\ record # None /\ \A q \in Requests : q # r => journal'[q] = journal[q]
    BY <1>5, TransferAssumption DEF IInv, TypeOK
  <2>2. {q \in Requests : InJournal(q)}' = {q \in Requests : InJournal(q)} \union {r}
    BY <2>1 DEF InJournal
  <2>3. FinitelyMany'
    BY <2>2, FS_AddElement DEF FinitelyMany
  <2>4. \A q \in Requests : (\E c \in Calls : did[q][c] # 0) =>
          InJournal(q)' /\ journal'[q].receiver = journal[q].receiver
                        /\ journal'[q].amount = journal[q].amount
    BY <1>5, <2>1, DoneIsRecorded DEF InJournal
  <2> QED
    BY <1>5, <2>3, <2>4, ServiceKeepsBooks
<1>6. ASSUME NEW t \in Threads, Insert(t)
      PROVE  FinitelyMany' /\ Ledger'
  <2>1. CASE journal[Request(t)] # None
    BY <1>1, <1>6, <2>1 DEF Insert
  <2>2. CASE journal[Request(t)] = None
    <3>1. PICK record :
            record = [status |-> "pending", amount |-> threads[t].amount, receiver |-> None]
      OBVIOUS
    <3>2. threads[t] \in Handlers
      BY <1>6 DEF Insert, IInv, TypeOK
    <3>3. Request(t) \in Requests /\ record \in Record
      BY <3>1, <3>2 DEF Handlers, Request, Record
    <3>4. journal' = [journal EXCEPT ![Request(t)] = record] /\ UNCHANGED <<balance, did>>
      BY <1>6, <2>2, <3>1 DEF Insert
    <3>5. \A c \in Calls : did[Request(t)][c] = 0
      BY <2>2, <3>3, DoneIsRecorded DEF InJournal
    <3> QED
      BY <1>5, <3>3, <3>4, <3>5
  <2> QED
    BY <2>1, <2>2
<1>7. ASSUME NEW t \in Threads, Resolve(t)
      PROVE  FinitelyMany' /\ Ledger'
  <2>1. /\ threads[t] \in Handlers /\ Request(t) \in Requests /\ journal[Request(t)] \in Record
        /\ Progressed(Request(t), threads[t]) /\ threads[t].at = "resolve"
    BY <1>7, AtWorkFacts DEF Resolve, AtWork
  <2>2. \A c \in Calls : did[Request(t)][c] = 0
    BY <2>1 DEF Progressed, Posted
  <2>3. PICK record : /\ journal' = [journal EXCEPT ![Request(t)] = record]
                      /\ \/ record = [journal[Request(t)] EXCEPT !.receiver = threads[t].to]
                         \/ record = [journal[Request(t)] EXCEPT !.status = "failed"]
    BY <1>7 DEF Resolve
  <2>4. record \in Record
    BY <2>1, <2>3 DEF Record, Handlers
  <2> QED
    BY <1>5, <1>7, <2>1, <2>2, <2>3, <2>4 DEF Resolve
<1>8. ASSUME NEW t \in Threads, Finish(t)
      PROVE  FinitelyMany' /\ Ledger'
  <2>1. /\ threads[t] \in Handlers /\ Request(t) \in Requests /\ journal[Request(t)] \in Record
    BY <1>8, AtWorkFacts DEF Finish, AtWork
  <2>2. threads[t].outcome # "none"
    BY <1>8 DEF Finish, IInv, TypeOK
  <2>3. PICK record : record = [journal[Request(t)] EXCEPT !.status = threads[t].outcome]
    OBVIOUS
  <2>4. record \in Record /\ record.receiver = journal[Request(t)].receiver
        /\ record.amount = journal[Request(t)].amount
    BY <2>1, <2>2, <2>3 DEF Record, Handlers
  <2>5. journal' = [journal EXCEPT ![Request(t)] = record] /\ UNCHANGED <<balance, did>>
    BY <1>8, <2>3 DEF Finish
  <2> QED
    BY <1>5, <2>1, <2>4, <2>5
<1> QED
  BY <1>1, <1>3, <1>4, <1>6, <1>7, <1>8 DEF Next, Step, Crash, Enter, SearchFails, Unanswered, vars

\* Nothing is booked before the first request.
LEMMA BooksOpen ==
  ASSUME Init
  PROVE  FinitelyMany /\ Ledger
<1>1. {r \in Requests : InJournal(r)} = {}
  BY DEF Init, InJournal
<1>2. FinitelyMany
  BY <1>1, FS_EmptySet DEF FinitelyMany
<1>3. \A u : Sent(u) = {} /\ Refunded(u) = {} /\ Received(u) = {}
  BY DEF Init, Sent, Refunded, Received, Calls, InJournal
<1>4. AmountOf({}) = 0
  <2>1. Cents({}) = {}
    BY DEF Cents
  <2> QED
    BY <2>1, FS_EmptySet DEF AmountOf
<1>5. \A u \in Users : balance[u] = Deposit - 0 + 0 + 0
  BY TransferAssumption DEF Init
<1>6. Ledger
  <2> SUFFICES ASSUME NEW u \in Users
               PROVE  balance[u] = Deposit - AmountOf(Sent(u)) + AmountOf(Refunded(u))
                                     + AmountOf(Received(u))
    BY DEF Ledger
  <2>1. AmountOf(Sent(u)) = 0 /\ AmountOf(Refunded(u)) = 0 /\ AmountOf(Received(u)) = 0
    BY <1>3, <1>4
  <2> QED
    BY <1>5, <2>1
<1> QED
  BY <1>2, <1>6

\* At any time, whatever was lost, late, given up on or killed, a balance is the
\* first one less the amounts charged, plus those refunded and those received: the
\* host's calls are all that moves money, and each of them moves it once.
THEOREM MoneyIsAccountedFor == Spec => []Ledger
<1>1. Init => IInv /\ FinitelyMany /\ Ledger
  BY InitInv, BooksOpen
<1>2. IInv /\ FinitelyMany /\ Ledger /\ [Next]_vars => (IInv /\ FinitelyMany /\ Ledger)'
  BY NextInv, BooksKept
<1> QED
  BY <1>1, <1>2, PTL DEF Spec

-----------------------------------------------------------------------------
(* The journal's books, while every call is answered *)

\* What was carried out for a request of some status.
Exact(r, status) ==
  /\ did[r]["charge"] # 0 <=> status \in {"succeeded", "compensated", "needs_attention"}
  /\ did[r]["credit"] # 0 <=> status = "succeeded"
  /\ did[r]["refund"] # 0 <=> status = "compensated"

\* What was carried out where a handler stands.
Reached(r, h) ==
  /\ h.at \in {"resolve", "charge"} => \A c \in Calls : did[r][c] = 0
  /\ h.at \in {"credit", "refund"} =>
       did[r]["charge"] # 0 /\ did[r]["credit"] = 0 /\ did[r]["refund"] = 0
  /\ h.at = "finish" => Exact(r, h.outcome)

\* A request is settled as its status says, or a handler is at work on it.
Settled(r) ==
  \/ Status(r) # "pending" /\ Exact(r, Status(r))
  \/ \E t \in Threads : AtWork(t) /\ Request(t) = r /\ Reached(r, threads[t])

Reliable == faults = 0 => late = {} /\ \A r \in Requests : Settled(r)

\* A handler at work is the one the request waits for.
LEMMA HandlerReached ==
  ASSUME IInv, Reliable, faults = 0, NEW t \in Threads, AtWork(t)
  PROVE  Reached(Request(t), threads[t])
<1>1. Request(t) \in Requests /\ Status(Request(t)) = "pending"
  BY AtWorkFacts DEF Progressed, Status
<1>2. PICK u \in Threads : AtWork(u) /\ Request(u) = Request(t) /\ Reached(Request(t), threads[u])
  BY <1>1 DEF Reliable, Settled
<1>3. u = t
  BY <1>2 DEF IInv, OneHandler
<1> QED
  BY <1>2, <1>3

\* A step of the one handler of a request, all other requests staying as they were.
LEMMA HandlerSettles ==
  ASSUME IInv, Reliable, faults = 0, late' = {}, NEW t \in Threads, NEW r \in Requests, NEW new,
         AtWork(t) => Request(t) = r,
         threads' = [threads EXCEPT ![t] = new],
         \A q \in Requests : q # r =>
           journal'[q] = journal[q] /\ \A c \in Calls : did'[q][c] = did[q][c],
         \/ new = None /\ Status(r)' # "pending" /\ Exact(r, Status(r))'
         \/ new # None /\ new.request = r /\ new.at # "insert" /\ Reached(r, new)'
  PROVE  Reliable'
<1>1. threads'[t] = new /\ \A u \in Threads : u # t => threads'[u] = threads[u]
  BY DEF IInv, TypeOK
<1>2. Settled(r)'
  BY <1>1 DEF Settled, AtWork, Request
<1>3. ASSUME NEW q \in Requests, q # r
      PROVE  Settled(q)'
  <2>1. CASE Status(q) # "pending" /\ Exact(q, Status(q))
    <3>1. PICK s : s = Status(q)
      OBVIOUS
    <3>2. Status(q)' = s
      BY <1>3, <3>1 DEF Status
    <3>3. Exact(q, s)'
      BY <1>3, <2>1, <3>1 DEF Exact, Calls
    <3> QED
      BY <2>1, <3>1, <3>2, <3>3 DEF Settled
  <2>2. CASE \E u \in Threads : AtWork(u) /\ Request(u) = q /\ Reached(q, threads[u])
    <3>1. PICK u \in Threads : AtWork(u) /\ Request(u) = q /\ Reached(q, threads[u])
      BY <2>2
    <3>2. u # t
      BY <1>3, <3>1
    <3>3. PICK h : h = threads[u] /\ h = threads'[u]
      BY <1>1, <3>2
    <3>4. Reached(q, h)'
      BY <1>3, <3>1, <3>3 DEF Reached, Exact, Calls
    <3>5. AtWork(u)' /\ Request(u)' = q
      BY <3>1, <3>3 DEF AtWork, Request
    <3> QED
      BY <3>3, <3>4, <3>5 DEF Settled
  <2> QED
    BY <2>1, <2>2 DEF Reliable, Settled
<1> QED
  BY <1>2, <1>3 DEF Reliable

\* A thread that is not at work on a request comes or goes.
LEMMA VisitorsDoNotMatter ==
  ASSUME IInv, Reliable, NEW t \in Threads, NEW new, ~AtWork(t),
         threads' = [threads EXCEPT ![t] = new],
         UNCHANGED <<journal, late, faults, did>>
  PROVE  Reliable'
<1> SUFFICES ASSUME faults = 0, NEW q \in Requests
             PROVE  Settled(q)'
  BY DEF Reliable
<1>1. \A u \in Threads : u # t => threads'[u] = threads[u]
  BY DEF IInv, TypeOK
<1>2. CASE Status(q) # "pending" /\ Exact(q, Status(q))
  BY <1>2 DEF Settled, Status, Exact
<1>3. CASE \E u \in Threads : AtWork(u) /\ Request(u) = q /\ Reached(q, threads[u])
  <2>1. PICK u \in Threads : AtWork(u) /\ Request(u) = q /\ Reached(q, threads[u])
    BY <1>3
  <2>2. PICK h : h = threads[u] /\ h = threads'[u]
    BY <1>1, <2>1
  <2>3. Reached(q, h)'
    BY <2>1, <2>2 DEF Reached, Exact
  <2>4. AtWork(u)' /\ Request(u)' = q
    BY <2>1, <2>2 DEF AtWork, Request
  <2> QED
    BY <2>2, <2>3, <2>4 DEF Settled
<1> QED
  BY <1>2, <1>3 DEF Reliable, Settled

\* An answered call takes the handler to where what was carried out is what it knows.
LEMMA AnswerIsKnown ==
  ASSUME IInv, Reliable, faults = 0, NEW t \in Threads, Answered(t)
  PROVE  Reliable'
<1>0. PICK h, r, c : h = threads[t] /\ r = Request(t) /\ c = threads[t].at
  OBVIOUS
<1>1. PICK ok \in BOOLEAN : HostAdjusts(r, c, ok) /\ threads' = [threads EXCEPT ![t] = After(h, ok)]
  BY <1>0 DEF Answered
<1>2. AtWork(t) /\ c \in Calls /\ did[r][c] = 0 /\ late' = late /\ journal' = journal
  BY <1>0, AboutToCall DEF Answered, Posted
<1>3. /\ h \in Handlers /\ h.request = r /\ h.at = c /\ r \in Requests /\ journal[r] # None
      /\ Reached(r, h)
  BY <1>0, <1>2, AtWorkFacts, HandlerReached DEF Progressed, Request
<1>4. /\ \A q \in Requests, d \in Calls : q # r \/ d # c => did'[q][d] = did[q][d]
      /\ ok => did'[r][c] = 1
      /\ ~ok => did'[r][c] = 0
  BY <1>1, <1>2, <1>3, AdjustEffect DEF IInv
<1>5. PICK new : new = After(h, ok)
  OBVIOUS
<1>6. /\ new \in Handlers /\ new.request = r /\ new.at \in {"credit", "refund", "finish"}
      /\ new.at = "credit" <=> c = "charge" /\ ok
      /\ new.at = "refund" <=> c = "credit" /\ ~ok
      /\ new.at = "finish" =>
           /\ new.outcome # "none"
           /\ new.outcome = "succeeded" <=> c = "credit" /\ ok
           /\ new.outcome = "failed" <=> c = "charge" /\ ~ok
           /\ new.outcome = "compensated" <=> c = "refund" /\ ok
           /\ new.outcome = "needs_attention" <=> c = "refund" /\ ~ok
  BY <1>2, <1>3, <1>5, AfterEffect
<1>7. Reached(r, new)'
  <2>1. CASE c = "charge"
    <3>1. did[r]["charge"] = 0 /\ did[r]["credit"] = 0 /\ did[r]["refund"] = 0
      BY <1>3, <2>1 DEF Reached, Calls
    <3>2. /\ did'[r]["credit"] = 0 /\ did'[r]["refund"] = 0
          /\ did'[r]["charge"] = IF ok THEN 1 ELSE 0
      BY <1>3, <1>4, <2>1, <3>1 DEF Calls
    <3> QED
      BY <1>6, <2>1, <3>2 DEF Reached, Exact
  <2>2. CASE c = "credit"
    <3>1. did[r]["charge"] # 0 /\ did[r]["credit"] = 0 /\ did[r]["refund"] = 0
      BY <1>3, <2>2 DEF Reached
    <3>2. /\ did'[r]["charge"] # 0 /\ did'[r]["refund"] = 0
          /\ did'[r]["credit"] = IF ok THEN 1 ELSE 0
      BY <1>3, <1>4, <2>2, <3>1 DEF Calls
    <3> QED
      BY <1>6, <2>2, <3>2 DEF Reached, Exact
  <2>3. CASE c = "refund"
    <3>1. did[r]["charge"] # 0 /\ did[r]["credit"] = 0 /\ did[r]["refund"] = 0
      BY <1>3, <2>3 DEF Reached
    <3>2. /\ did'[r]["charge"] # 0 /\ did'[r]["credit"] = 0
          /\ did'[r]["refund"] = IF ok THEN 1 ELSE 0
      BY <1>3, <1>4, <2>3, <3>1 DEF Calls
    <3> QED
      BY <1>6, <2>3, <3>2 DEF Reached, Exact
  <2> QED
    BY <1>2, <2>1, <2>2, <2>3 DEF Calls
<1>8. /\ late' = {} /\ threads' = [threads EXCEPT ![t] = new]
      /\ AtWork(t) => Request(t) = r
      /\ \A q \in Requests : q # r =>
           journal'[q] = journal[q] /\ \A d \in Calls : did'[q][d] = did[q][d]
  BY <1>0, <1>1, <1>2, <1>4, <1>5 DEF Reliable
<1>9. new # None /\ new.request = r /\ new.at # "insert"
  BY <1>6, TransferAssumption
<1> QED
  BY <1>3, <1>7, <1>8, <1>9, HandlerSettles

\* As long as nothing has failed, what was carried out can be told from the status or
\* from where the handler is.
LEMMA ReliableKept ==
  ASSUME IInv, Reliable, [Next]_vars
  PROVE  Reliable'
<1>1. CASE faults' # 0
  BY <1>1 DEF Reliable
<1>2. CASE faults' = 0
  <2>1. faults = 0 /\ ~Faulty /\ UNCHANGED faults
    <3>1. ~Faulty
      BY <1>2 DEF Faulty, IInv, TypeOK
    <3>2. UNCHANGED faults
      BY <3>1 DEF Next, Step, LateCall, Crash, Enter, Insert, Resolve, SearchFails, Answered,
                  Unanswered, Finish, vars
    <3> QED
      BY <1>2, <3>1, <3>2
  <2>2. late = {}
    BY <2>1 DEF Reliable
  <2>3. ASSUME NEW t \in Threads, \E r \in Requests, to \in Users, amount \in Amounts : Enter(t, r, to, amount)
        PROVE  Reliable'
    <3>1. PICK new : threads' = [threads EXCEPT ![t] = new]
      BY <2>3 DEF Enter
    <3> QED
      BY <2>3, <3>1, VisitorsDoNotMatter DEF Enter, AtWork
  <2>4. ASSUME NEW t \in Threads, Insert(t)
        PROVE  Reliable'
    <3>1. ~AtWork(t)
      BY <2>4 DEF Insert, AtWork
    <3>2. CASE journal[Request(t)] # None
      BY <2>4, <3>1, <3>2, VisitorsDoNotMatter DEF Insert
    <3>3. CASE journal[Request(t)] = None
      <4>1. PICK new : new = [threads[t] EXCEPT !.at = "resolve"]
        OBVIOUS
      <4>2. threads[t] \in Handlers
        BY <2>4 DEF Insert, IInv, TypeOK
      <4>3. /\ Request(t) \in Requests /\ new \in Handlers /\ new.request = Request(t)
            /\ new.at = "resolve" /\ new # None
        BY <4>1, <4>2, TransferAssumption DEF Handlers, Request
      <4>4. /\ threads' = [threads EXCEPT ![t] = new] /\ UNCHANGED <<late, did>>
            /\ \A q \in Requests : q # Request(t) => journal'[q] = journal[q]
        BY <2>4, <3>3, <4>1, <4>3 DEF Insert, IInv, TypeOK
      <4>5. \A c \in Calls : did[Request(t)][c] = 0
        BY <3>3, <4>3, DoneIsRecorded DEF InJournal
      <4>6. PICK r : r = Request(t)
        OBVIOUS
      <4>7. Reached(r, new)'
        <5>1. \A c \in Calls : did'[r][c] = 0
          BY <4>4, <4>5, <4>6
        <5> QED
          BY <4>3, <5>1 DEF Reached
      <4>8. /\ late' = {} /\ r \in Requests /\ new.request = r /\ ~AtWork(t)
            /\ \A q \in Requests : q # r =>
                 journal'[q] = journal[q] /\ \A c \in Calls : did'[q][c] = did[q][c]
        BY <2>2, <3>1, <4>3, <4>4, <4>6
      <4> QED
        BY <2>1, <4>3, <4>4, <4>7, <4>8, HandlerSettles
    <3> QED
      BY <3>2, <3>3
  <2>5. ASSUME NEW t \in Threads, Resolve(t)
        PROVE  Reliable'
    <3>1. AtWork(t) /\ threads[t].at = "resolve" /\ UNCHANGED <<late, did>>
      BY <2>5 DEF Resolve, AtWork
    <3>2. /\ threads[t] \in Handlers /\ Request(t) \in Requests /\ journal[Request(t)] \in Record
          /\ Reached(Request(t), threads[t])
      BY <2>1, <3>1, AtWorkFacts, HandlerReached
    <3>3. PICK r, h : r = Request(t) /\ h = threads[t]
      OBVIOUS
    <3>4. \A c \in Calls : did'[r][c] = 0
      BY <3>1, <3>2, <3>3 DEF Reached
    <3>5. CASE threads' = [threads EXCEPT ![t].at = "charge"]
      <4>1. PICK new : new = [h EXCEPT !.at = "charge"]
        OBVIOUS
      <4>2. new \in Handlers /\ new.request = r /\ new.at = "charge" /\ new # None
        BY <3>2, <3>3, <4>1, TransferAssumption DEF Handlers, Request, Calls
      <4>3. Reached(r, new)'
        BY <3>4, <4>2 DEF Reached
      <4>4. threads' = [threads EXCEPT ![t] = new]
        BY <3>3, <3>5, <4>1
      <4>5. \A q \in Requests : q # r => journal'[q] = journal[q]
        BY <2>5, <3>2, <3>3 DEF Resolve, IInv, TypeOK
      <4> QED
        BY <2>1, <2>2, <3>1, <3>2, <3>3, <4>2, <4>3, <4>4, <4>5, HandlerSettles
    <3>6. CASE /\ journal' = [journal EXCEPT ![r].status = "failed"]
               /\ threads' = [threads EXCEPT ![t] = None]
      <4>1. PICK record : record = [journal[r] EXCEPT !.status = "failed"]
        OBVIOUS
      <4>2. record \in Record /\ record # None /\ record.status = "failed"
        BY <3>2, <3>3, <4>1, TransferAssumption DEF Record
      <4>3. journal'[r] = record /\ \A q \in Requests : q # r => journal'[q] = journal[q]
        BY <3>2, <3>3, <3>6, <4>1 DEF IInv, TypeOK
      <4>4. Status(r)' = "failed"
        BY <4>2, <4>3 DEF Status
      <4>5. Exact(r, Status(r))'
        BY <3>4, <4>4 DEF Exact, Calls
      <4> QED
        BY <2>1, <2>2, <3>1, <3>2, <3>3, <3>6, <4>3, <4>4, <4>5, HandlerSettles
    <3> QED
      BY <2>5, <3>3, <3>5, <3>6 DEF Resolve
  <2>6. ASSUME NEW t \in Threads, Finish(t)
        PROVE  Reliable'
    <3>1. AtWork(t) /\ threads[t].at = "finish" /\ UNCHANGED <<late, did>>
      BY <2>6 DEF Finish, AtWork
    <3>2. /\ threads[t] \in Handlers /\ Request(t) \in Requests /\ journal[Request(t)] \in Record
          /\ Reached(Request(t), threads[t])
      BY <2>1, <3>1, AtWorkFacts, HandlerReached
    <3>3. PICK r, outcome : r = Request(t) /\ outcome = threads[t].outcome
      OBVIOUS
    <3>4. outcome \in {"succeeded", "failed", "compensated", "needs_attention"} /\ Exact(r, outcome)
      BY <3>1, <3>2, <3>3 DEF Reached, Handlers, IInv, TypeOK, AtWork
    <3>5. PICK record : record = [journal[r] EXCEPT !.status = outcome]
      OBVIOUS
    <3>6. record \in Record /\ record # None /\ record.status = outcome
      BY <3>2, <3>3, <3>4, <3>5, TransferAssumption DEF Record
    <3>7. journal' = [journal EXCEPT ![r] = record] /\ threads' = [threads EXCEPT ![t] = None]
      BY <2>6, <3>3, <3>5 DEF Finish
    <3>8. journal'[r] = record /\ \A q \in Requests : q # r => journal'[q] = journal[q]
      BY <3>2, <3>3, <3>7 DEF IInv, TypeOK
    <3>9. Status(r)' = outcome
      BY <3>6, <3>8 DEF Status
    <3>10. Exact(r, outcome)'
      BY <3>1, <3>4 DEF Exact
    <3>11. Exact(r, Status(r))'
      BY <3>9, <3>10 DEF Exact
    <3> QED
      BY <2>1, <2>2, <3>1, <3>2, <3>3, <3>4, <3>7, <3>8, <3>9, <3>11, HandlerSettles
  <2>7. CASE UNCHANGED vars
    BY <2>7 DEF Reliable, Settled, Status, Exact, Reached, AtWork, Request, vars
  <2>8. ~LateCall /\ ~Crash /\ \A t \in Threads : ~Unanswered(t) /\ ~SearchFails(t)
    BY <2>1, <2>2 DEF LateCall, Crash, Unanswered, SearchFails
  <2> QED
    BY <2>1, <2>3, <2>4, <2>5, <2>6, <2>7, <2>8, AnswerIsKnown DEF Next, Step
<1> QED
  BY <1>1, <1>2

\* Once nobody is at work and nothing has failed, the statuses tell what was carried
\* out, and the ledger is the journal's.
LEMMA StatusesTell ==
  ASSUME IInv, FinitelyMany, Ledger, Reliable
  PROVE  BooksBalance
<1> SUFFICES ASSUME faults = 0, \A t \in Threads : threads[t] = None, NEW u \in Users
             PROVE  balance[u] = Deposit
                      - AmountOf({r \in Requests : r[1] = u /\ Status(r) \in {"succeeded", "needs_attention"}})
                      + AmountOf({r \in Requests : Status(r) = "succeeded" /\ journal[r].receiver = u})
  BY DEF BooksBalance
<1>1. \A r \in Requests : Exact(r, Status(r))
  BY DEF Reliable, Settled, AtWork
<1>2. PICK kept, refunded, received :
        /\ kept = {r \in Requests : r[1] = u /\ Status(r) \in {"succeeded", "needs_attention"}}
        /\ refunded = Refunded(u) /\ received = Received(u)
  OBVIOUS
<1>3. received = {r \in Requests : Status(r) = "succeeded" /\ journal[r].receiver = u}
  BY <1>1, <1>2 DEF Received, Exact, Status, InJournal
<1>4. Sent(u) = kept \union refunded /\ kept \intersect refunded = {}
  BY <1>1, <1>2 DEF Sent, Refunded, Exact
<1>5. /\ kept \subseteq {r \in Requests : InJournal(r)}
      /\ refunded \subseteq {r \in Requests : InJournal(r)}
      /\ received \subseteq {r \in Requests : InJournal(r)}
  BY <1>2, <1>4, DoneIsRecorded
<1>6. /\ IsFiniteSet(kept) /\ AmountOf(kept) \in Nat
      /\ \A r \in kept : journal[r].amount \in Nat
      /\ IsFiniteSet(refunded) /\ AmountOf(refunded) \in Nat
      /\ \A r \in refunded : journal[r].amount \in Nat
      /\ AmountOf(received) \in Nat
  BY <1>5, Bookable
<1>7. AmountOf(kept \union refunded) = AmountOf(kept) + AmountOf(refunded)
  BY <1>4, <1>6, AmountsAddUp
<1>8. PICK k \in Nat, f \in Nat, v \in Nat :
           k = AmountOf(kept) /\ f = AmountOf(refunded) /\ v = AmountOf(received)
  BY <1>6
<1>9. balance[u] = Deposit - (k + f) + f + v
  BY <1>2, <1>4, <1>7, <1>8 DEF Ledger
<1>10. Deposit - (k + f) + f + v = Deposit - k + v
  BY <1>8, TransferAssumption
<1> QED
  BY <1>2, <1>3, <1>8, <1>9, <1>10

\* Without a fault, the journal alone accounts for every balance whenever no handler
\* is at work: what an administrator settles by is right.
THEOREM BooksAreTrue == Spec => []BooksBalance
<1> DEFINE BooksInv == IInv /\ FinitelyMany /\ Ledger /\ Reliable
<1>1. Init => BooksInv
  <2>1. Init => Reliable
    BY DEF Init, Reliable, Settled, Status, Exact, Calls
  <2> QED
    BY <2>1, InitInv, BooksOpen
<1>2. BooksInv /\ [Next]_vars => BooksInv'
  BY NextInv, BooksKept, ReliableKept
<1>3. BooksInv => BooksBalance
  BY StatusesTell
<1> QED
  BY <1>1, <1>2, <1>3, PTL DEF Spec

\* What a replay is told of a pending request is so until something fails: a handler
\* is at work on it.
THEOREM OrphansNeedFaults == Spec => [](faults = 0 => PendingIsProcessed)
<1>1. Init => Reliable
  BY DEF Init, Reliable, Settled, Status, Exact, Calls
<1>2. IInv /\ Reliable /\ [Next]_vars => Reliable'
  BY ReliableKept
<1>3. Reliable => (faults = 0 => PendingIsProcessed)
  BY DEF Reliable, Settled, PendingIsProcessed, AtWork
<1> QED
  BY <1>1, <1>2, <1>3, Invariance, PTL DEF Spec

-----------------------------------------------------------------------------
(* The service keeps a transfer book *)

\* Money is given out only after it was taken.
TakenFirst ==
  \A r \in Requests : Posted(r, "credit") \/ Posted(r, "refund") => did[r]["charge"] = 1

\* No call is posted before the receiver is known.
Addressed == \A r \in Requests, c \in Calls : Posted(r, c) => journal[r].receiver # None

\* Nobody sends to himself.
BetweenUsers ==
  /\ \A t \in Threads : threads[t] # None => threads[t].to # Request(t)[1]
  /\ \A r \in Requests : journal[r] # None => journal[r].receiver # r[1]

\* A call is posted by a handler that has got there.
LEMMA PostedByHandler ==
  ASSUME IInv, [Next]_vars, NEW r \in Requests, NEW c \in Calls, Posted(r, c)', ~Posted(r, c)
  PROVE  /\ \E t \in Threads : Calling(t) /\ Request(t) = r /\ threads[t].at = c
         /\ UNCHANGED journal
<1>1. ASSUME NEW q \in Requests, NEW d \in Calls, NEW granted \in BOOLEAN, journal[q] # None,
             HostAdjusts(q, d, granted), q # r \/ d # c
      PROVE  did'[r][c] = did[r][c]
  BY <1>1, AdjustEffect DEF IInv
<1>2. CASE LateCall
  <2>1. PICK p \in late, granted \in BOOLEAN : HostAdjusts(p[1], p[2], granted) /\ late' = late \ {p}
    BY <1>2 DEF LateCall
  <2>2. PICK q \in Requests, d \in Calls : p = <<q, d>>
    BY DEF IInv, TypeOK
  <2>3. journal[q] # None /\ (q # r \/ d # c)
    BY <2>1, <2>2 DEF IInv, Unrecorded, Posted
  <2>4. did'[r][c] = did[r][c]
    BY <1>1, <2>1, <2>2, <2>3
  <2> QED
    BY <2>1, <2>4 DEF Posted
<1>3. ASSUME NEW t \in Threads, Answered(t)
      PROVE  Calling(t) /\ Request(t) = r /\ threads[t].at = c /\ UNCHANGED journal
  <2>1. PICK granted \in BOOLEAN : HostAdjusts(Request(t), threads[t].at, granted)
    BY <1>3 DEF Answered
  <2>2. AtWork(t) /\ threads[t].at \in Calls
    BY <1>3, AboutToCall DEF Answered
  <2>3. Request(t) \in Requests /\ journal[Request(t)] # None
    BY <2>2, AtWorkFacts DEF Progressed
  <2>4. Request(t) = r /\ threads[t].at = c
    BY <1>1, <1>3, <2>1, <2>2, <2>3 DEF Answered, Posted
  <2> QED
    BY <1>3, <2>4 DEF Answered
<1>4. ASSUME NEW t \in Threads, Unanswered(t)
      PROVE  Calling(t) /\ Request(t) = r /\ threads[t].at = c /\ UNCHANGED journal
  BY <1>4 DEF Unanswered, Posted
<1>5. CASE Crash
  BY <1>5 DEF Crash, Posted
<1>6. CASE UNCHANGED <<late, did>>
  BY <1>6 DEF Posted
<1> QED
  BY <1>2, <1>3, <1>4, <1>5, <1>6 DEF Next, Step, Enter, Insert, Resolve, SearchFails, Finish, vars

\* What was carried out stays so.
LEMMA DoneStaysDone ==
  ASSUME IInv, [Next]_vars, NEW r \in Requests, NEW c \in Calls, did[r][c] = 1
  PROVE  did'[r][c] = 1
<1>1. CASE LateCall
  <2>1. PICK p \in late, granted \in BOOLEAN : HostAdjusts(p[1], p[2], granted)
    BY <1>1 DEF LateCall
  <2>2. PICK q \in Requests, d \in Calls : p = <<q, d>>
    BY DEF IInv, TypeOK
  <2>3. journal[q] # None /\ did[q][d] = 0
    BY <2>1, <2>2 DEF IInv, NeverTwice, Unrecorded, Posted
  <2> QED
    BY <2>1, <2>2, <2>3, AdjustEffect DEF IInv
<1>2. ASSUME NEW t \in Threads, Answered(t)
      PROVE  did'[r][c] = 1
  <2>1. PICK granted \in BOOLEAN : HostAdjusts(Request(t), threads[t].at, granted)
    BY <1>2 DEF Answered
  <2>2. AtWork(t) /\ threads[t].at \in Calls /\ did[Request(t)][threads[t].at] = 0
    BY <1>2, AboutToCall DEF Answered, Posted
  <2>3. Request(t) \in Requests /\ journal[Request(t)] # None
    BY <2>2, AtWorkFacts DEF Progressed
  <2> QED
    BY <2>1, <2>2, <2>3, AdjustEffect DEF IInv
<1>3. CASE UNCHANGED did
  BY <1>3
<1> QED
  BY <1>1, <1>2, <1>3
     DEF Next, Step, Crash, Enter, Insert, Resolve, SearchFails, Unanswered, Finish, vars

\* What a step may do to a record of the journal: nothing, make it, or give it a
\* receiver who is not the sender, or another status.
LEMMA JournalStep ==
  ASSUME IInv, BetweenUsers, [Next]_vars, NEW r \in Requests
  PROVE  \/ journal'[r] = journal[r]
         \/ journal[r] = None /\ journal'[r] # None /\ journal'[r].receiver = None
         \/ /\ journal[r] # None /\ journal'[r] # None
            /\ \/ journal'[r].receiver = journal[r].receiver
               \/ journal'[r].receiver \in Users /\ journal'[r].receiver # r[1]
<1>1. ASSUME NEW t \in Threads, NEW record \in Record, Request(t) \in Requests,
             journal' = [journal EXCEPT ![Request(t)] = record]
      PROVE  /\ r # Request(t) => journal'[r] = journal[r]
             /\ r = Request(t) => journal'[r] = record /\ record # None
  BY <1>1, TransferAssumption DEF IInv, TypeOK
<1>2. ASSUME NEW t \in Threads, Insert(t), ~UNCHANGED journal
      PROVE  \/ journal'[r] = journal[r]
             \/ journal[r] = None /\ journal'[r] # None /\ journal'[r].receiver = None
  <2>1. PICK record :
          record = [status |-> "pending", amount |-> threads[t].amount, receiver |-> None]
    OBVIOUS
  <2>2. journal' = [journal EXCEPT ![Request(t)] = record] /\ journal[Request(t)] = None
    BY <1>2, <2>1 DEF Insert
  <2>3. threads[t] \in Handlers
    BY <1>2 DEF Insert, IInv, TypeOK
  <2>4. Request(t) \in Requests /\ record \in Record /\ record.receiver = None
    BY <2>1, <2>3 DEF Handlers, Request, Record
  <2> QED
    BY <1>1, <2>2, <2>4
<1>3. ASSUME NEW t \in Threads, Resolve(t) \/ Finish(t)
      PROVE  \/ journal'[r] = journal[r]
             \/ /\ journal[r] # None /\ journal'[r] # None
                /\ \/ journal'[r].receiver = journal[r].receiver
                   \/ journal'[r].receiver \in Users /\ journal'[r].receiver # r[1]
  <2>1. /\ threads[t] \in Handlers /\ Request(t) \in Requests /\ journal[Request(t)] \in Record
        /\ journal[Request(t)] # None /\ threads[t] # None
    BY <1>3, AtWorkFacts DEF Resolve, Finish, AtWork, Progressed
  <2>2. threads[t].to \in Users /\ threads[t].to # Request(t)[1]
    BY <2>1 DEF Handlers, BetweenUsers
  <2>3. threads[t].at = "finish" => threads[t].outcome # "none"
    BY <2>1 DEF IInv, TypeOK
  <2>4. PICK record :
          /\ journal' = [journal EXCEPT ![Request(t)] = record]
          /\ \/ record = [journal[Request(t)] EXCEPT !.receiver = threads[t].to]
             \/ record = [journal[Request(t)] EXCEPT !.status = "failed"]
             \/ /\ record = [journal[Request(t)] EXCEPT !.status = threads[t].outcome]
                /\ threads[t].at = "finish"
    BY <1>3 DEF Resolve, Finish
  <2>5. /\ record \in Record
        /\ record.receiver = journal[Request(t)].receiver \/ record.receiver = threads[t].to
    BY <2>1, <2>3, <2>4 DEF Record, Handlers
  <2> QED
    BY <1>1, <2>1, <2>2, <2>4, <2>5
<1>4. CASE UNCHANGED journal
  BY <1>4
<1> QED
  BY <1>2, <1>3, <1>4 DEF Next, Step, LateCall, Crash, Enter, SearchFails, Answered, Unanswered, vars

\* Handlers know from the start whom they send to.
LEMMA BetweenUsersKept ==
  ASSUME IInv, BetweenUsers, [Next]_vars
  PROVE  BetweenUsers'
<1>1. ASSUME NEW r \in Requests, journal'[r] # None
      PROVE  journal'[r].receiver # r[1]
  <2>1. r[1] # None
    BY TransferAssumption DEF Requests
  <2> QED
    BY <1>1, <2>1, JournalStep DEF BetweenUsers
<1>2. ASSUME NEW t \in Threads, threads'[t] # None
      PROVE  threads'[t].to # Request(t)'[1]
  <2>1. CASE threads'[t] = threads[t]
    BY <1>2, <2>1 DEF BetweenUsers, Request
  <2>2. ASSUME threads[t] # None, threads'[t].to = threads[t].to, threads'[t].request = threads[t].request
        PROVE  threads'[t].to # Request(t)'[1]
    BY <2>2 DEF BetweenUsers, Request
  <2>3. ASSUME NEW u \in Threads, Step(u), u # t
        PROVE  threads'[t] = threads[t]
    BY <2>3 DEF Step, Enter, Insert, Resolve, SearchFails, Answered, Unanswered, Finish, IInv, TypeOK
  <2>4. CASE \E r \in Requests, to \in Users, amount \in Amounts : Enter(t, r, to, amount)
    <3>1. PICK r \in Requests, to \in Users, amount \in Amounts : Enter(t, r, to, amount)
      BY <2>4
    <3>2. PICK new : new = [at |-> "insert", request |-> r, to |-> to, amount |-> amount,
                            seen |-> balance[r[1]], outcome |-> "none"]
      OBVIOUS
    <3>3. threads'[t] = new /\ to # r[1]
      BY <3>1, <3>2 DEF Enter, IInv, TypeOK
    <3> QED
      BY <3>2, <3>3 DEF Request
  <2>5. CASE Insert(t) \/ Resolve(t) \/ SearchFails(t) \/ Finish(t)
    <3>1. threads[t] \in Handlers
      BY <2>5 DEF Insert, Resolve, SearchFails, Finish, IInv, TypeOK
    <3>2. \/ threads'[t] = [threads[t] EXCEPT !.at = "resolve"]
          \/ threads'[t] = [threads[t] EXCEPT !.at = "charge"]
      BY <1>2, <2>5 DEF Insert, Resolve, SearchFails, Finish, IInv, TypeOK
    <3>3. threads'[t].to = threads[t].to /\ threads'[t].request = threads[t].request
      BY <3>1, <3>2 DEF Handlers
    <3> QED
      BY <2>2, <2>5, <3>3 DEF Insert, Resolve, SearchFails, Finish
  <2>6. CASE Answered(t) \/ Unanswered(t)
    <3>1. PICK ok \in BOOLEAN : threads' = [threads EXCEPT ![t] = After(threads[t], ok)]
      BY <2>6 DEF Answered, Unanswered
    <3>2. threads[t] \in Handlers /\ threads[t] # None
      BY <2>6 DEF Answered, Unanswered, Calling, IInv, TypeOK
    <3>3. threads'[t] = After(threads[t], ok)
      BY <3>1 DEF IInv, TypeOK
    <3>4. threads'[t].to = threads[t].to /\ threads'[t].request = threads[t].request
      BY <3>2, <3>3 DEF After, Handlers
    <3> QED
      BY <2>2, <3>2, <3>4
  <2> QED
    BY <1>2, <2>1, <2>3, <2>4, <2>5, <2>6 DEF Next, Step, LateCall, Crash, vars
<1> QED
  BY <1>1, <1>2 DEF BetweenUsers

\* A handler goes on to give out money only once the charge was carried out, and to
\* its first call once the receiver is known.
LEMMA OrderKept ==
  ASSUME IInv, TakenFirst, Addressed, BetweenUsers, [Next]_vars
  PROVE  TakenFirst' /\ Addressed'
<1>1. ASSUME NEW r \in Requests, NEW c \in Calls, Posted(r, c)', ~Posted(r, c)
      PROVE  /\ c # "charge" => did[r]["charge"] = 1
             /\ journal'[r].receiver # None
  <2>1. PICK t \in Threads : Calling(t) /\ Request(t) = r /\ threads[t].at = c
    BY <1>1, PostedByHandler
  <2>2. UNCHANGED journal
    BY <1>1, PostedByHandler
  <2>3. c # "charge" => did[r]["charge"] = 1
    BY <2>1, AboutToCall DEF Calls
  <2>4. journal[r].receiver # None
    <3>1. CASE c # "refund"
      BY <2>1, <3>1, AboutToCall
    <3>2. CASE c = "refund"
      <4>1. Posted(r, "charge")
        BY <2>3, <3>2 DEF Posted
      <4> QED
        BY <4>1 DEF Addressed, Calls
    <3> QED
      BY <3>1, <3>2
  <2> QED
    BY <2>2, <2>3, <2>4
<1>2. TakenFirst'
  <2> SUFFICES ASSUME NEW r \in Requests, NEW c \in {"credit", "refund"}, Posted(r, c)'
               PROVE  did'[r]["charge"] = 1
    BY DEF TakenFirst
  <2>1. did[r]["charge"] = 1
    BY <1>1 DEF TakenFirst, Calls
  <2> QED
    BY <2>1, DoneStaysDone DEF Calls
<1>3. Addressed'
  <2> SUFFICES ASSUME NEW r \in Requests, NEW c \in Calls, Posted(r, c)'
               PROVE  journal'[r].receiver # None
    BY DEF Addressed
  <2>1. CASE ~Posted(r, c)
    BY <1>1, <2>1
  <2>2. CASE Posted(r, c)
    <3>1. journal[r] # None /\ journal[r].receiver # None
      BY <2>2 DEF IInv, Unrecorded, Addressed
    <3> QED
      BY <3>1, JournalStep, TransferAssumption
  <2> QED
    BY <2>1, <2>2
<1> QED
  BY <1>2, <1>3

\* A call the host carries out is a move of the book, when it is due there.
LEMMA CallIsMove ==
  ASSUME IInv, BetweenUsers, UNCHANGED journal,
         NEW r \in Requests, NEW c \in Calls, journal[r] # None, did[r][c] = 0,
         journal[r].receiver # None,
         NEW granted \in BOOLEAN, HostAdjusts(r, c, granted),
         c = "charge" => /\ \A d \in Calls : did[r][d] = 0
                         /\ journal[r].status \in {"pending", "failed"},
         c # "charge" => did[r]["charge"] = 1,
         c = "credit" => journal[r].status \notin {"failed", "succeeded"},
         c = "refund" => journal[r].status \in {"pending", "needs_attention"}
  PROVE  [Book!Next]_(Book!vars)
<1> DEFINE moves == [q \in Requests |-> {d \in Calls : did[q][d] # 0}]
<1>1. CASE ~granted
  BY <1>1 DEF HostAdjusts, Book!vars
<1>2. CASE granted
  <2>1. PICK user, change :
          /\ user = Beneficiary(r, c)
          /\ change = IF c = "charge" THEN -journal[r].amount ELSE journal[r].amount
    OBVIOUS
  <2>2. balance[user] + change >= 0 /\ balance' = [balance EXCEPT ![user] = @ + change]
    BY <1>2, <2>1 DEF HostAdjusts
  <2>3. moves' = [moves EXCEPT ![r] = @ \union {c}]
    <3>1. /\ did'[r][c] = 1
          /\ \A q \in Requests, d \in Calls : q # r \/ d # c => did'[q][d] = did[q][d]
      BY <1>2, AdjustEffect DEF IInv
    <3>2. \A q \in Requests : {d \in Calls : did'[q][d] # 0} =
                                IF q = r THEN {d \in Calls : did[q][d] # 0} \union {c}
                                ELSE {d \in Calls : did[q][d] # 0}
      BY <3>1
    <3> QED
      BY <3>2
  <2>4. /\ moves[r] = {d \in Calls : did[r][d] # 0} /\ c \notin moves[r]
        /\ c = "charge" => moves[r] = {}
        /\ c # "charge" => "charge" \in moves[r]
    BY DEF Calls
  <2>5. r \in Book!Requests
    BY DEF Book!Requests, Requests
  <2> HIDE DEF moves
  <2>6. CASE c = "charge"
    <3>1. user = r[1] /\ change = -journal[r].amount
      BY <2>1, <2>6 DEF Beneficiary
    <3>2. Book!Charge(r)
      BY <2>2, <2>3, <2>4, <2>6, <3>1 DEF Book!Charge, Book!Move, moves
    <3> QED
      BY <2>5, <3>2 DEF Book!Next
  <2>7. CASE c = "credit"
    <3>1. user = journal[r].receiver /\ change = journal[r].amount
      BY <2>1, <2>7 DEF Beneficiary
    <3>2. Book!Credit(r)
      BY <2>2, <2>3, <2>4, <2>7, <3>1 DEF Book!Credit, Book!Move, moves
    <3> QED
      BY <2>5, <3>2 DEF Book!Next
  <2>8. CASE c = "refund"
    <3>1. user = r[1] /\ change = journal[r].amount
      BY <2>1, <2>8 DEF Beneficiary
    <3>2. Book!Refund(r)
      BY <2>2, <2>3, <2>4, <2>8, <3>1 DEF Book!Refund, Book!Move, moves
    <3> QED
      BY <2>5, <3>2 DEF Book!Next
  <2> QED
    BY <2>6, <2>7, <2>8 DEF Calls
<1> QED
  BY <1>1, <1>2

\* A call given up on is due in the book whenever it arrives.
LEMMA LateCallIsMove ==
  ASSUME IInv, TakenFirst, Addressed, BetweenUsers, LateCall
  PROVE  [Book!Next]_(Book!vars)
<1>1. PICK p \in late, granted \in BOOLEAN : HostAdjusts(p[1], p[2], granted)
  BY DEF LateCall
<1>2. PICK r \in Requests, c \in Calls : p = <<r, c>>
  BY DEF IInv, TypeOK
<1>3. HostAdjusts(r, c, granted) /\ <<r, c>> \in late /\ UNCHANGED journal /\ Posted(r, c)
  BY <1>1, <1>2 DEF LateCall, Posted
<1>4. did[r][c] = 0 /\ journal[r] # None /\ journal[r].receiver # None
  BY <1>3 DEF IInv, NeverTwice, Unrecorded, Addressed
<1>5. journal[r] \in Record /\ Status(r) = journal[r].status
  BY <1>4, Recorded DEF IInv, Status
<1>6. Told(r, journal[r].status)
  BY <1>5 DEF IInv, Telling
<1>7. c # "charge" => did[r]["charge"] = 1
  BY <1>3 DEF TakenFirst, Calls
<1>8. ASSUME c = "charge"
      PROVE  /\ \A d \in Calls : did[r][d] = 0
             /\ journal[r].status \in {"pending", "failed"}
  <2>1. did[r]["charge"] = 0
    BY <1>4, <1>8
  <2>2. did[r]["credit"] = 0 /\ did[r]["refund"] = 0
    <3>1. ~Posted(r, "credit") /\ ~Posted(r, "refund")
      BY <2>1 DEF TakenFirst
    <3> QED
      BY <3>1 DEF Posted
  <2>3. journal[r].status \in {"pending", "failed"}
    BY <1>5, <1>6, <2>1 DEF Told, Record
  <2> QED
    BY <2>1, <2>2, <2>3 DEF Calls
<1>9. c = "credit" => journal[r].status \notin {"failed", "succeeded"}
  BY <1>3, <1>4, <1>6 DEF Told
<1>10. c = "refund" => journal[r].status \in {"pending", "needs_attention"}
  BY <1>3, <1>4, <1>5, <1>6 DEF Told, Record
<1> QED
  BY <1>3, <1>4, <1>7, <1>8, <1>9, <1>10, CallIsMove

\* A call that is answered is due in the book where its handler is.
LEMMA AnsweredIsMove ==
  ASSUME IInv, TakenFirst, Addressed, BetweenUsers, NEW t \in Threads, Answered(t)
  PROVE  [Book!Next]_(Book!vars)
<1>1. PICK r, c : r = Request(t) /\ c = threads[t].at
  OBVIOUS
<1>2. PICK granted \in BOOLEAN : HostAdjusts(r, c, granted)
  BY <1>1 DEF Answered
<1>3. /\ AtWork(t) /\ c \in Calls /\ Status(r) = "pending" /\ did[r][c] = 0
      /\ c = "credit" => did[r]["charge"] = 1
      /\ c = "refund" => did[r]["charge"] = 1
      /\ c = "charge" => \A d \in Calls : did[r][d] = 0
      /\ c # "refund" => journal[r].receiver # None
  BY <1>1, AboutToCall DEF Answered, Posted
<1>4. r \in Requests /\ journal[r] # None /\ UNCHANGED journal
  BY <1>1, <1>3, AtWorkFacts DEF Progressed, Answered
<1>5. journal[r].status = "pending"
  BY <1>3, <1>4 DEF Status
<1>6. c # "charge" => did[r]["charge"] = 1
  BY <1>3 DEF Calls
<1>7. journal[r].receiver # None
  <2>1. CASE c = "refund"
    <3>1. Posted(r, "charge")
      BY <1>6, <2>1 DEF Posted
    <3> QED
      BY <1>4, <3>1 DEF Addressed, Calls
  <2> QED
    BY <1>3, <2>1
<1> QED
  BY <1>2, <1>3, <1>4, <1>5, <1>6, <1>7, CallIsMove

\* Every step of the service and its host is one of the book, or changes nothing there.
LEMMA NextIsBook ==
  ASSUME IInv, TakenFirst, Addressed, BetweenUsers, [Next]_vars
  PROVE  [Book!Next]_(Book!vars)
<1>1. CASE UNCHANGED <<balance, journal, did>>
  BY <1>1 DEF Book!vars
<1>2. ASSUME NEW t \in Threads, Insert(t), ~UNCHANGED <<balance, journal, did>>
      PROVE  [Book!Next]_(Book!vars)
  <2>1. PICK r : r = Request(t)
    OBVIOUS
  <2>2. /\ journal[r] = None /\ UNCHANGED <<balance, did>>
        /\ journal' = [journal EXCEPT ![r] =
             [status |-> "pending", amount |-> threads[t].amount, receiver |-> None]]
    BY <1>2, <2>1 DEF Insert
  <2>3. r \in Requests /\ threads[t].amount \in Amounts
    BY <1>2, <2>1 DEF Insert, IInv, TypeOK, Handlers, Request
  <2>4. Book!Open(r, threads[t].amount) /\ r \in Book!Requests
    BY <2>2, <2>3 DEF Book!Open, Book!Requests, Requests
  <2> QED
    BY <2>3, <2>4 DEF Book!Next
<1>3. ASSUME NEW t \in Threads, Resolve(t)
      PROVE  [Book!Next]_(Book!vars)
  <2>1. PICK r, h : r = Request(t) /\ h = threads[t]
    OBVIOUS
  <2>2. AtWork(t) /\ h.at = "resolve" /\ h # None /\ UNCHANGED <<balance, did>>
    BY <1>3, <2>1 DEF Resolve, AtWork
  <2>3. /\ h \in Handlers /\ r \in Requests /\ Progressed(r, h) /\ journal[r] # None
        /\ journal[r].status = "pending" /\ h.to \in Users /\ h.to # r[1]
    BY <2>1, <2>2, AtWorkFacts DEF Progressed, Handlers, BetweenUsers
  <2>4. {c \in Calls : did[r][c] # 0} = {}
    BY <2>2, <2>3 DEF Progressed, Posted
  <2>5. r \in Book!Requests
    BY <2>3 DEF Book!Requests, Requests
  <2>6. CASE journal' = [journal EXCEPT ![r].receiver = h.to]
    <3>1. Book!Address(r, h.to)
      BY <2>2, <2>3, <2>4, <2>6 DEF Book!Address
    <3> QED
      BY <2>3, <2>5, <3>1 DEF Book!Next
  <2>7. CASE journal' = [journal EXCEPT ![r].status = "failed"]
    <3>1. Book!Close(r, "failed")
      BY <2>2, <2>3, <2>4, <2>7 DEF Book!Close
    <3> QED
      BY <2>5, <3>1 DEF Book!Next
  <2> QED
    BY <1>3, <2>1, <2>6, <2>7 DEF Resolve
<1>4. ASSUME NEW t \in Threads, Finish(t)
      PROVE  [Book!Next]_(Book!vars)
  <2>1. PICK r, h : r = Request(t) /\ h = threads[t]
    OBVIOUS
  <2>2. /\ AtWork(t) /\ h.at = "finish" /\ UNCHANGED <<balance, did>>
        /\ journal' = [journal EXCEPT ![r].status = h.outcome]
    BY <1>4, <2>1 DEF Finish, AtWork
  <2>3. /\ h \in Handlers /\ r \in Requests /\ Progressed(r, h) /\ journal[r] # None
        /\ journal[r].status = "pending" /\ h.outcome # "none"
    BY <2>1, <2>2, AtWorkFacts DEF Progressed, AtWork, IInv, TypeOK
  <2>4. h.outcome \in {"succeeded", "failed", "compensated", "needs_attention"} /\ Told(r, h.outcome)
    BY <2>2, <2>3 DEF Handlers, Progressed
  <2>5. PICK moves : moves = {c \in Calls : did[r][c] # 0}
    OBVIOUS
  <2>6. /\ h.outcome = "succeeded" => moves = {"charge", "credit"}
        /\ h.outcome = "failed" => moves \subseteq {"charge"}
        /\ h.outcome = "compensated" => {"charge", "refund"} \subseteq moves
        /\ h.outcome = "needs_attention" => "charge" \in moves
    BY <2>4, <2>5 DEF Told, Posted, Calls
  <2>7. Book!Close(r, h.outcome)
    <3>1. CASE h.outcome = "succeeded"
      BY <2>2, <2>3, <2>5, <2>6, <3>1 DEF Book!Close
    <3>2. CASE h.outcome = "failed"
      BY <2>2, <2>3, <2>5, <2>6, <3>2 DEF Book!Close
    <3>3. CASE h.outcome = "compensated"
      BY <2>2, <2>3, <2>5, <2>6, <3>3 DEF Book!Close
    <3>4. CASE h.outcome = "needs_attention"
      BY <2>2, <2>3, <2>5, <2>6, <3>4 DEF Book!Close
    <3> QED
      BY <2>4, <3>1, <3>2, <3>3, <3>4
  <2>8. r \in Book!Requests
    BY <2>3 DEF Book!Requests, Requests
  <2> QED
    BY <2>4, <2>7, <2>8 DEF Book!Next
<1> QED
  BY <1>1, <1>2, <1>3, <1>4, LateCallIsMove, AnsweredIsMove
     DEF Next, Step, Crash, Enter, SearchFails, Unanswered, vars

\* For any threads, faults and deaths of the service, what becomes of balances, the
\* journal and the calls carried out is what TransferBook allows: in particular money
\* is given out only after it was taken, never to its sender as a receiver, and once
\* a request has ended only in a way its end leaves open.
THEOREM Refinement == Spec => ImplementsBook
<1> DEFINE RInv == IInv /\ TakenFirst /\ Addressed /\ BetweenUsers
<1>1. Init => RInv
  <2>1. Init => TakenFirst /\ Addressed /\ BetweenUsers
    BY DEF Init, TakenFirst, Addressed, BetweenUsers, Posted, Calls
  <2> QED
    BY <2>1, InitInv
<1>2. RInv /\ [Next]_vars => RInv'
  BY NextInv, OrderKept, BetweenUsersKept
<1>3. RInv /\ [Next]_vars => [Book!Next]_(Book!vars)
  BY NextIsBook
<1>4. Init => Book!Init
  BY DEF Init, Book!Init, Book!Requests, Requests
<1> QED
  BY <1>1, <1>2, <1>3, <1>4, PTL DEF Spec, ImplementsBook, Book!Spec
=============================================================================
