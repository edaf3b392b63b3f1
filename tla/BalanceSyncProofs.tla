------------------------- MODULE BalanceSyncProofs -------------------------
(***************************************************************************)
(* What balance mode promises for any accounts, users, amounts, edits and   *)
(* faults.  A run works from copies (queue, todo, quotas) and a request may *)
(* be carried out long after it was given up on; the invariant says that    *)
(* what is in the copies is still unfinished in the store, and that every   *)
(* amount on its way to the host is a quota the user has had since the event. *)
(***************************************************************************)
EXTENDS BalanceSync, SequenceTheorems, WellFoundedInduction, TLAPS

Working == run.at \in {"target", "post", "reply"}

TodoIsPending == Working => run.todo \subseteq PendingTargets(events[Event])

\* What an answer has told the run is still so when it is handled.
ReplyIsTrue ==
  run.at = "reply" =>
    /\ run.reply \in Answers
    /\ run.reply = "set" => sets[Event][Target] # <<>>
    /\ run.reply = "gone" => users[Target].status = "gone"

\* A set the host has yet to see is for a target, and of a quota he has had.
LateIsDue ==
  \A p \in late : events[p[1]].status[p[2]] # "none" /\ p[3] \in offered[p[1]][p[2]]

\* All amounts that may still be set are quotas since the event.
GoalsAreOffered ==
  /\ \A e \in DOMAIN events, u \in Users :
       /\ events[e].status[u] # "none" => events[e].goal[u] \in offered[e][u]
       /\ users[u].quota \in offered[e][u] \union {Unset}
  /\ Working /\ run.todo # {} => \A u \in Users : run.quotas[u] \in offered[Event][u] \union {Unset}

\* As long as nothing was lost, what is open was not set, except for the target whose
\* answer the run is holding.
OpenIsUnset ==
  faults = 0 =>
    /\ late = {}
    /\ run.at = "reply" => run.reply # "error"
    /\ \A e \in DOMAIN events, u \in Users :
         /\ Len(sets[e][u]) <= 1
         /\ events[e].status[u] = "open" /\ sets[e][u] # <<>>
              => run.at = "reply" /\ e = Event /\ u = Target /\ run.reply = "set"

IInv == /\ TypeOK /\ TodoIsPending /\ CompleteMeansSettled /\ StatusIsTrue /\ ReplyIsTrue
        /\ LateIsDue /\ GoalsAreOffered /\ OnlyQuotasAreSet /\ OpenIsUnset

-----------------------------------------------------------------------------
(* The operators the model is built from *)

\* The least member of a set of ids is a member of it.
LEMMA FirstIsMember ==
  ASSUME NEW ids, ids \subseteq Nat, ids # {}
  PROVE  First(ids) \in ids
<1>1. PICK m \in ids : \A k \in ids : <<k, m>> \notin OpToRel(<, Nat)
  BY WFMin, NatLessThanWellFounded, Zenon
<1>2. \A k \in ids : ~(k < m)
  BY <1>1, Zenon DEF OpToRel
<1>3. \A k \in ids : m <= k
  BY <1>2
<1> QED
  BY <1>3 DEF First

\* A sequence stays one when an element of it is replaced.
LEMMA Replaced ==
  ASSUME NEW S, NEW seq \in Seq(S), NEW i \in DOMAIN seq, NEW e \in S,
         NEW new, new = [seq EXCEPT ![i] = e]
  PROVE  /\ new \in Seq(S) /\ Len(new) = Len(seq) /\ DOMAIN new = DOMAIN seq
         /\ new[i] = e /\ \A j \in DOMAIN seq : j # i => new[j] = seq[j]
<1>1. i \in 1..Len(seq) /\ DOMAIN seq = 1..Len(seq)
  BY LenProperties
<1>2. [seq EXCEPT ![i] = e] \in Seq(S) /\ Len([seq EXCEPT ![i] = e]) = Len(seq)
  BY <1>1, ExceptSeq
<1> QED
  BY <1>1, <1>2, LenProperties

LEMMA FunctionIsSequence ==
  ASSUME NEW S, NEW n \in Nat, NEW f \in [1..n -> S]
  PROVE  f \in Seq(S) /\ Len(f) = n
<1>1. f \in Seq(S)
  BY SeqDef
<1>2. DOMAIN f = 1..Len(f) /\ DOMAIN f = 1..n /\ Len(f) \in Nat
  BY <1>1, LenProperties
<1> QED
  BY <1>1, <1>2

\* What becomes of a sequence to which something is appended.
LEMMA Appended ==
  ASSUME NEW S, NEW seq \in Seq(S), NEW e \in S, NEW new, new = Append(seq, e)
  PROVE  /\ new \in Seq(S) /\ Len(new) = Len(seq) + 1 /\ DOMAIN new = DOMAIN seq \union {Len(seq) + 1}
         /\ new[Len(seq) + 1] = e /\ \A j \in DOMAIN seq : new[j] = seq[j]
         /\ Len(seq) + 1 \notin DOMAIN seq
BY AppendProperties, LenProperties

LEMMA NotEmpty ==
  ASSUME NEW S, NEW seq \in Seq(S), Len(seq) # 0
  PROVE  seq # <<>>
<1>1. Len(<<>>) = 0
  BY EmptySeq, Zenon
<1> QED
  BY <1>1, Zenon

LEMMA IdleRun == Idle.at = "idle" /\ \A r \in Runs : r.at # "idle" /\ r # Idle
BY DEF Idle, Runs

LEMMA Busy ==
  ASSUME TypeOK, run.at # "idle"
  PROVE  run \in Runs /\ run # Idle
BY DEF TypeOK, Idle

\* The histories have an entry for every event.
LEMMA SameDomains ==
  ASSUME TypeOK
  PROVE  /\ DOMAIN sets = DOMAIN events /\ DOMAIN offered = DOMAIN events
         /\ DOMAIN events = 1..Len(events) /\ Len(events) \in Nat
         /\ \A e \in DOMAIN events :
              /\ events[e] \in EventRecords
              /\ sets[e] \in [Users -> Seq(Amounts)] /\ offered[e] \in [Users -> SUBSET Amounts]
BY LenProperties DEF TypeOK

\* The run's current event and target are an event and an open target of it.
LEMMA CurrentEvent ==
  ASSUME TypeOK, run.at \in {"event", "target", "post", "reply"}
  PROVE  /\ run \in Runs /\ run # Idle /\ run.queue \subseteq DOMAIN events /\ run.queue \subseteq Nat
         /\ Event \in run.queue /\ Event \in DOMAIN events /\ events[Event] \in EventRecords
         /\ run.todo \subseteq Users
<1>1. run \in Runs /\ run # Idle
  BY Busy
<1>2. run.queue # {} /\ run.queue \subseteq DOMAIN events
  BY <1>1 DEF TypeOK
<1>3. run.queue \subseteq Nat /\ run.todo \subseteq Users
  BY <1>1 DEF Runs
<1>4. Event \in run.queue
  BY <1>2, <1>3, FirstIsMember DEF Event
<1> QED
  BY <1>1, <1>2, <1>3, <1>4, SameDomains

LEMMA CurrentTarget ==
  ASSUME TypeOK, TodoIsPending, Working, run.todo # {}
  PROVE  /\ Target \in run.todo /\ Target \in Users /\ events[Event].status[Target] = "open"
<1>1. run.todo \subseteq Users /\ run.todo \subseteq Nat
  BY CurrentEvent, BalanceAssumption DEF Working
<1>2. Target \in run.todo
  BY <1>1, FirstIsMember DEF Target
<1> QED
  BY <1>1, <1>2 DEF TodoIsPending, PendingTargets

-----------------------------------------------------------------------------
(* The host *)

\* What a balance request does to the host.
LEMMA HostSetsEffect ==
  ASSUME TypeOK, NEW e \in DOMAIN events, NEW u \in Users, NEW amount \in Amounts,
         NEW answer \in Answers, HostSets(e, u, amount, answer)
  PROVE  /\ users' \in [Users -> [status : {"active", "disabled", "gone"}, quota : Quota,
                                  balance : Amounts \union {0}]]
         /\ \A v \in Users : users'[v].status = users[v].status /\ users'[v].quota = users[v].quota
         /\ sets' \in Seq([Users -> Seq(Amounts)]) /\ Len(sets') = Len(sets)
         /\ \A f \in DOMAIN events, v \in Users : f # e \/ v # u => sets'[f][v] = sets[f][v]
         /\ sets'[e][u] \in Seq(Amounts)
         /\ sets'[e][u] = sets[e][u] \/ sets'[e][u] = Append(sets[e][u], amount)
         /\ sets[e][u] # <<>> => sets'[e][u] # <<>>
         /\ answer = "gone" => users[u].status = "gone" /\ sets' = sets
         /\ answer = "set" => sets'[e][u] # <<>>
         /\ answer # "error"
<1>1. CASE users[u].status = "gone"
  <2>1. users' = users /\ sets' = sets /\ answer = "gone"
    BY <1>1 DEF HostSets
  <2> QED
    BY <1>1, <2>1, SameDomains DEF TypeOK
<1>2. CASE users[u].status # "gone"
  <2>1. PICK user : user = [users[u] EXCEPT !.balance = amount]
    OBVIOUS
  <2>2. PICK list : list = IF Len(sets[e][u]) = 2 THEN sets[e][u] ELSE Append(sets[e][u], amount)
    OBVIOUS
  <2>3. PICK row : row = [sets[e] EXCEPT ![u] = list]
    OBVIOUS
  <2>4. answer = "set" /\ users' = [users EXCEPT ![u] = user] /\ sets' = [sets EXCEPT ![e] = row]
    BY <1>2, <2>1, <2>2, <2>3 DEF HostSets
  <2>5. /\ user \in [status : {"active", "disabled", "gone"}, quota : Quota, balance : Amounts \union {0}]
        /\ user.status = users[u].status /\ user.quota = users[u].quota
    BY <2>1 DEF TypeOK
  <2>6. sets[e] \in [Users -> Seq(Amounts)] /\ sets[e][u] \in Seq(Amounts) /\ e \in DOMAIN sets
    BY SameDomains
  <2>7. /\ list \in Seq(Amounts) /\ (list = sets[e][u] \/ list = Append(sets[e][u], amount))
        /\ list # <<>>
    <3>1. Append(sets[e][u], amount) \in Seq(Amounts) /\ Append(sets[e][u], amount) # <<>>
      BY <2>6, AppendProperties
    <3>2. Len(sets[e][u]) = 2 => sets[e][u] # <<>>
      <4>1. Len(sets[e][u]) = 2 => Len(sets[e][u]) # 0
        OBVIOUS
      <4>2. Len(sets[e][u]) # 0 => sets[e][u] # <<>>
        BY <2>6, NotEmpty, Zenon
      <4> QED
        BY <4>1, <4>2
    <3> QED
      BY <2>2, <2>6, <3>1, <3>2
  <2>8. row \in [Users -> Seq(Amounts)] /\ row[u] = list /\ \A v \in Users : v # u => row[v] = sets[e][v]
    BY <2>3, <2>6, <2>7
  <2>9. /\ sets' \in Seq([Users -> Seq(Amounts)]) /\ Len(sets') = Len(sets) /\ sets'[e] = row
        /\ \A f \in DOMAIN sets : f # e => sets'[f] = sets[f]
    <3>1. PICK S : S = [Users -> Seq(Amounts)]
      OBVIOUS
    <3>2. sets \in Seq(S) /\ row \in S
      BY <2>8, <3>1 DEF TypeOK
    <3>3. /\ sets' \in Seq(S) /\ Len(sets') = Len(sets) /\ sets'[e] = row
          /\ \A f \in DOMAIN sets : f # e => sets'[f] = sets[f]
      BY <2>4, <2>6, <3>2, Replaced
    <3> QED
      BY <3>1, <3>3
  <2>10. /\ users' \in [Users -> [status : {"active", "disabled", "gone"}, quota : Quota,
                                  balance : Amounts \union {0}]]
         /\ \A v \in Users : users'[v].status = users[v].status /\ users'[v].quota = users[v].quota
    BY <2>4, <2>5 DEF TypeOK
  <2> QED
    BY <2>4, <2>7, <2>8, <2>9, <2>10, SameDomains DEF Answers
<1> QED
  BY <1>1, <1>2

Records == [status : {"active", "disabled", "gone"}, quota : Quota, balance : Amounts \union {0}]

\* A user's new record after an edit or a purchase.
LEMMA UserChanged ==
  ASSUME TypeOK, NEW u \in Users, NEW user \in Records, users' = [users EXCEPT ![u] = user]
  PROVE  /\ users' \in [Users -> Records] /\ users'[u] = user
         /\ \A v \in Users : v # u => users'[v] = users[v]
BY DEF TypeOK, Records

\* Users spend and administrators edit: whoever is gone stays gone, and what a user
\* has for a quota counts as offered for every event.
WorldMovesOn ==
  /\ users' \in [Users -> Records] /\ account' \in [Accounts -> Nat]
  /\ defined' \in BOOLEAN /\ edits' \in 0..MaxEdits
  /\ \A u \in Users : users[u].status = "gone" => users'[u].status = "gone"
  /\ offered' \in Seq([Users -> SUBSET Amounts]) /\ Len(offered') = Len(offered)
  /\ \A e \in DOMAIN events, u \in Users :
       /\ offered[e][u] \subseteq offered'[e][u]
       /\ users'[u].quota \in offered'[e][u] \union {Unset}

LEMMA WorldEffect ==
  ASSUME TypeOK, GoalsAreOffered, World
  PROVE  WorldMovesOn
<1>1. /\ users \in [Users -> Records] /\ offered \in Seq([Users -> SUBSET Amounts])
      /\ account \in [Accounts -> Nat] /\ defined \in BOOLEAN /\ edits \in 0..MaxEdits
      /\ \A e \in DOMAIN events, u \in Users : users[u].quota \in offered[e][u] \union {Unset}
  BY DEF TypeOK, Records, GoalsAreOffered
<1>2. Edited => edits' \in 0..MaxEdits /\ account' = account
  BY <1>1, BalanceAssumption DEF Edited
<1>3. ASSUME NEW a \in Accounts, RollOver(a) PROVE WorldMovesOn
  <2>1. account' \in [Accounts -> Nat] /\ UNCHANGED <<users, defined, edits, offered>>
    BY <1>1, <1>3 DEF RollOver
  <2> QED
    BY <1>1, <2>1 DEF WorldMovesOn
<1>4. ASSUME NEW u \in Users, Spend(u) PROVE WorldMovesOn
  <2>1. PICK rest \in Amounts \union {0} : users' = [users EXCEPT ![u].balance = rest]
    BY <1>4 DEF Spend
  <2>2. PICK user : user = [users[u] EXCEPT !.balance = rest]
    OBVIOUS
  <2>3. user \in Records /\ user.status = users[u].status /\ user.quota = users[u].quota
    BY <1>1, <2>2 DEF Records
  <2>4. users' = [users EXCEPT ![u] = user]
    BY <2>1, <2>2
  <2>5. users' \in [Users -> Records] /\ \A v \in Users : users'[v].status = users[v].status /\ users'[v].quota = users[v].quota
    BY <2>3, <2>4, UserChanged
  <2>6. UNCHANGED <<account, defined, edits, offered>>
    BY <1>4 DEF Spend
  <2> QED
    BY <1>1, <2>5, <2>6 DEF WorldMovesOn
<1>5. ASSUME NEW u \in Users, NEW quota \in Quota, EditQuota(u, quota) PROVE WorldMovesOn
  <2>1. PICK user : user = [users[u] EXCEPT !.quota = quota]
    OBVIOUS
  <2>2. /\ user \in Records /\ user.status = users[u].status /\ user.quota = quota
        /\ users' = [users EXCEPT ![u] = user]
    BY <1>1, <1>5, <2>1 DEF Records, EditQuota
  <2>3. users' \in [Users -> Records] /\ users'[u] = user /\ \A v \in Users : v # u => users'[v] = users[v]
    BY <2>2, UserChanged
  <2>4. PICK S, n : S = [Users -> SUBSET Amounts] /\ n = Len(offered)
    OBVIOUS
  <2>5. n \in Nat /\ DOMAIN offered = 1..n /\ DOMAIN events = 1..n
    BY <2>4, SameDomains, LenProperties, <1>1 DEF TypeOK
  <2>6. ASSUME NEW e \in 1..n
        PROVE  /\ [offered[e] EXCEPT ![u] = @ \union ({quota} \ {Unset})] \in S
               /\ offered'[e] = [offered[e] EXCEPT ![u] = @ \union ({quota} \ {Unset})]
    <3>1. offered[e] \in S /\ {quota} \ {Unset} \subseteq Amounts
      BY <2>4, <2>5, SameDomains DEF Quota
    <3> QED
      BY <1>5, <2>4, <2>5, <3>1 DEF EditQuota
  <2>7. offered' \in [1..n -> S]
    BY <1>5, <2>5, <2>6 DEF EditQuota
  <2>8. offered' \in Seq(S) /\ Len(offered') = n
    BY <2>5, <2>7, FunctionIsSequence
  <2>9. ASSUME NEW e \in DOMAIN events, NEW v \in Users
        PROVE  /\ offered[e][v] \subseteq offered'[e][v]
               /\ users'[v].quota \in offered'[e][v] \union {Unset}
    <3>1. /\ offered[e] \in [Users -> SUBSET Amounts]
          /\ offered'[e] = [offered[e] EXCEPT ![u] = @ \union ({quota} \ {Unset})]
      BY <2>5, <2>6, SameDomains
    <3>2. CASE v = u
      BY <2>2, <2>3, <3>1, <3>2
    <3>3. CASE v # u
      BY <1>1, <2>3, <3>1, <3>3
    <3> QED
      BY <3>2, <3>3
  <2>10. edits' \in 0..MaxEdits /\ account' = account /\ defined' = defined
    BY <1>2, <1>5 DEF EditQuota
  <2>11. \A v \in Users : users[v].status = "gone" => users'[v].status = "gone"
    BY <2>2, <2>3
  <2> QED
    BY <1>1, <2>3, <2>4, <2>8, <2>9, <2>10, <2>11 DEF WorldMovesOn
<1>6. ASSUME NEW u \in Users, NEW status \in {"active", "disabled", "gone"}, EditStatus(u, status)
      PROVE  WorldMovesOn
  <2>1. PICK user : user = [users[u] EXCEPT !.status = status, !.quota = IF status = "gone" THEN Unset ELSE @]
    OBVIOUS
  <2>2. users' = [users EXCEPT ![u] = user]
    BY <1>1, <1>6, <2>1 DEF EditStatus
  <2>3. user \in Records /\ user.quota \in {users[u].quota, Unset} /\ users[u].status # "gone"
    BY <1>1, <1>6, <2>1 DEF EditStatus, Records, Quota
  <2>4. users' \in [Users -> Records] /\ users'[u] = user /\ \A v \in Users : v # u => users'[v] = users[v]
    BY <2>2, <2>3, UserChanged
  <2>5. edits' \in 0..MaxEdits /\ account' = account /\ defined' = defined /\ offered' = offered
    BY <1>2, <1>6 DEF EditStatus
  <2>6. \A v \in Users : /\ users[v].status = "gone" => users'[v].status = "gone"
                         /\ users'[v].quota \in {users[v].quota, Unset}
    BY <2>3, <2>4
  <2> QED
    BY <1>1, <2>4, <2>5, <2>6 DEF WorldMovesOn
<1>7. ASSUME EditDefinition PROVE WorldMovesOn
  BY <1>1, <1>2, <1>7 DEF EditDefinition, WorldMovesOn
<1> QED
  BY <1>3, <1>4, <1>5, <1>6, <1>7 DEF World

LEMMA WorldKeeps ==
  ASSUME IInv, World
  PROVE  IInv'
<1>1. WorldMovesOn /\ UNCHANGED <<rows, events, run, late, faults, sets>>
  BY WorldEffect DEF World, IInv
<1>2. TypeOK'
  BY <1>1 DEF IInv, TypeOK, WorldMovesOn, Records
<1>3. Event' = Event /\ Target' = Target /\ (Working' <=> Working)
  BY <1>1 DEF Event, Target, Working
<1>4. Working \/ run.at = "reply" => Event \in DOMAIN events
  BY CurrentEvent DEF IInv, Working
<1>5. run.at = "reply" => Target \in Users
  BY CurrentTarget DEF IInv, TypeOK, Working
<1>6. TodoIsPending' /\ CompleteMeansSettled'
  BY <1>1, <1>3 DEF IInv, TodoIsPending, CompleteMeansSettled, PendingTargets
<1>7. StatusIsTrue'
  BY <1>1 DEF IInv, StatusIsTrue, WorldMovesOn
<1>8. ReplyIsTrue'
  BY <1>1, <1>3, <1>5 DEF IInv, ReplyIsTrue, WorldMovesOn
<1>9. LateIsDue'
  <2>1. ASSUME NEW p \in late PROVE p[1] \in DOMAIN events /\ p[2] \in Users
    BY DEF IInv, TypeOK
  <2> QED
    BY <1>1, <2>1 DEF IInv, LateIsDue, WorldMovesOn
<1>10. GoalsAreOffered'
  BY <1>1, <1>3, <1>4 DEF IInv, GoalsAreOffered, WorldMovesOn
<1>11. OnlyQuotasAreSet'
  BY <1>1 DEF IInv, OnlyQuotasAreSet, WorldMovesOn
<1>12. OpenIsUnset'
  BY <1>1, <1>3 DEF IInv, OpenIsUnset
<1> QED
  BY <1>2, <1>6, <1>7, <1>8, <1>9, <1>10, <1>11, <1>12 DEF IInv

-----------------------------------------------------------------------------
(* Steps of the executor that leave the store and the host alone *)

\* What is said of the store and the host alone.
StoreIsTrue == CompleteMeansSettled /\ StatusIsTrue /\ LateIsDue /\ OnlyQuotasAreSet

LEMMA StoreFrame ==
  ASSUME IInv, UNCHANGED <<world, rows, events, late, history>>
  PROVE  StoreIsTrue'
<1>1. UNCHANGED <<account, users, defined, edits, events, late, sets, offered>>
  BY DEF world, history
<1> QED
  BY <1>1 DEF IInv, StoreIsTrue, CompleteMeansSettled, StatusIsTrue, LateIsDue, OnlyQuotasAreSet, PendingTargets

\* A run that is not at work on a target, or has just taken up an event.
LEMMA RunMoves ==
  ASSUME IInv, UNCHANGED <<world, rows, events, late, history>>,
         run' \in Runs \union {Idle}, run' # Idle => run'.queue \subseteq DOMAIN events,
         run'.at \in {"event", "target", "post", "reply"} => run'.queue # {},
         run.at # "reply", run'.at \notin {"post", "reply"}, faults' = faults \/ Faulty,
         run'.at = "target" => /\ Event' \in DOMAIN events
                               /\ run'.todo \subseteq PendingTargets(events[Event'])
                               /\ run'.todo # {} => \A u \in Users : run'.quotas[u] = users[u].quota
  PROVE  IInv'
<1>1. UNCHANGED <<account, users, defined, edits, events, late, sets, offered>>
  BY DEF world, history
<1>2. faults' \in 0..MaxFaults /\ (faults' = 0 => faults = 0)
  BY BalanceAssumption DEF Faulty, IInv, TypeOK
<1>3. TypeOK'
  BY <1>1, <1>2 DEF IInv, TypeOK
<1>4. TodoIsPending' /\ ReplyIsTrue'
  BY <1>1 DEF TodoIsPending, ReplyIsTrue, Working, PendingTargets
<1>5. GoalsAreOffered'
    BY <1>1 DEF IInv, GoalsAreOffered, Working
<1>6. OpenIsUnset'
  BY <1>1, <1>2 DEF IInv, OpenIsUnset
<1> QED
  BY <1>3, <1>4, <1>5, <1>6, StoreFrame DEF IInv, StoreIsTrue

\* Where a run goes from one event to the next is a run, with events to look at if it
\* looks at one.
LEMMA Advanced ==
  ASSUME NEW r \in Runs, NEW evs
  PROVE  /\ Advance(r, evs) \in Runs \union {Idle}
         /\ Advance(r, evs) # Idle => Advance(r, evs).queue = r.queue
         /\ Advance(r, evs).at \in {"event", "account", "idle"}
         /\ Advance(r, evs).at = "event" => r.queue # {}
BY IdleRun DEF Advance, Runs, Idle

LEMMA StartKeeps ==
  ASSUME IInv, NEW dry \in DryRuns, Start(dry)
  PROVE  IInv'
<1>1. PICK r : r = [at |-> "account", dry |-> dry, pass |-> 1, next |-> 1, queue |-> {}, todo |-> {},
                    present |-> {u \in Users : users[u].status = "active"},
                    quotas |-> NoQuotas, reply |-> "none"]
  OBVIOUS
<1>2. PICK q : q = [r EXCEPT !.queue = OpenEvents(events)]
  OBVIOUS
<1>3. /\ run = Idle /\ run' = IF dry THEN r ELSE Advance(q, events)
      /\ UNCHANGED <<world, rows, events, late, faults, history>>
  BY <1>1, <1>2, Zenon DEF Start
<1>4. dry \in BOOLEAN /\ 1 \in 1..Len(AccountIds)
  <2>1. AccountIds \in Seq(Accounts) /\ AccountIds # <<>> /\ DryRuns \subseteq BOOLEAN
    BY BalanceAssumption
  <2>2. Len(AccountIds) \in Nat \ {0}
    BY <2>1, EmptySeq
  <2> QED
    BY <2>1, <2>2
<1>5. NoQuotas \in [Users -> Quota]
  BY DEF NoQuotas, Quota
<1>6. r \in Runs /\ r.queue = {} /\ r.at = "account"
  BY <1>1, <1>4, <1>5 DEF Runs
<1>7. OpenEvents(events) \subseteq DOMAIN events /\ OpenEvents(events) \subseteq Nat
  BY SameDomains DEF OpenEvents, IInv
<1>8. q \in Runs /\ q.queue = OpenEvents(events)
  BY <1>2, <1>6, <1>7 DEF Runs
<1>9. /\ run' \in Runs \union {Idle}
      /\ run' # Idle => run'.queue \subseteq DOMAIN events
      /\ run'.at \in {"event", "account", "idle"}
      /\ run'.at = "event" => run'.queue # {}
  <2>1. CASE dry
    BY <1>3, <1>6, <2>1
  <2>2. CASE ~dry
    <3>1. run' = Advance(q, events)
      BY <1>3, <2>2
    <3>2. /\ Advance(q, events) \in Runs \union {Idle}
          /\ Advance(q, events) # Idle => Advance(q, events).queue = q.queue
          /\ Advance(q, events).at \in {"event", "account", "idle"}
          /\ Advance(q, events).at = "event" => q.queue # {}
      BY <1>8, Advanced
    <3> QED
      BY <1>7, <1>8, <3>1, <3>2, IdleRun
  <2> QED
    BY <2>1, <2>2
<1>10. /\ run.at # "reply" /\ run'.at \notin {"target", "post", "reply"} /\ faults' = faults
       /\ run'.at \in {"event", "target", "post", "reply"} => run'.queue # {}
  BY <1>3, <1>9, IdleRun
<1> QED
  BY <1>3, <1>9, <1>10, RunMoves

LEMMA ReadKeeps ==
  ASSUME IInv, ReadQuotas \/ ReadFails
  PROVE  IInv'
<1>1. /\ run.at = "event" /\ run \in Runs /\ run.queue # {} /\ run.queue \subseteq DOMAIN events
      /\ Event \in DOMAIN events
  BY CurrentEvent DEF ReadQuotas, ReadFails, IInv, TypeOK
<1>2. PICK pending : pending = PendingTargets(events[Event])
  OBVIOUS
<1>3. PICK quotas : quotas = [u \in Users |-> users[u].quota]
  OBVIOUS
<1>4. pending \subseteq Users /\ quotas \in [Users -> Quota] /\ \A u \in Users : quotas[u] = users[u].quota
  BY <1>2, <1>3 DEF PendingTargets, IInv, TypeOK
<1>5. ASSUME NEW todo \in {{}, pending}, NEW read \in [Users -> Quota],
             todo # {} => read = quotas,
             run' = [run EXCEPT !.at = "target", !.todo = todo, !.quotas = read],
             UNCHANGED <<world, rows, events, late, history>>, faults' = faults \/ Faulty
      PROVE  IInv'
  <2>1. /\ run' \in Runs /\ run'.at = "target" /\ run'.queue = run.queue /\ run'.todo = todo
        /\ run'.quotas = read /\ run' # Idle
    BY <1>1, <1>4, <1>5, IdleRun DEF Runs
  <2>2. Event' = Event
    BY <2>1 DEF Event
  <2>3. /\ run'.todo \subseteq PendingTargets(events[Event'])
        /\ run'.todo # {} => \A u \in Users : run'.quotas[u] = users[u].quota
    BY <1>2, <1>4, <1>5, <2>1, <2>2
  <2>4. /\ run' # Idle => run'.queue \subseteq DOMAIN events
        /\ run'.at \in {"event", "target", "post", "reply"} => run'.queue # {}
        /\ run.at # "reply" /\ run'.at \notin {"post", "reply"} /\ Event' \in DOMAIN events
    BY <1>1, <2>1, <2>2
  <2> QED
    BY <1>5, <2>1, <2>3, <2>4, RunMoves
<1>6. CASE ReadQuotas
  <2>1. PICK todo : todo = IF defined THEN pending ELSE {}
    OBVIOUS
  <2>2. /\ run' = [run EXCEPT !.at = "target", !.todo = todo, !.quotas = quotas]
        /\ UNCHANGED <<world, rows, events, late, history>> /\ faults' = faults
    BY <1>2, <1>3, <1>6, <2>1, Zenon DEF ReadQuotas
  <2>3. todo \in {{}, pending}
    BY <2>1
  <2> QED
    BY <1>4, <1>5, <2>2, <2>3
<1>7. CASE ReadFails
  <2>1. PICK read : read = run.quotas
    OBVIOUS
  <2>2. read \in [Users -> Quota]
    BY <1>1, <2>1 DEF Runs
  <2>3. run' = [run EXCEPT !.at = "target", !.todo = {}, !.quotas = read]
    BY <1>1, <1>7, <2>1 DEF ReadFails, Runs
  <2>4. UNCHANGED <<world, rows, events, late, history>> /\ Faulty
    BY <1>7 DEF ReadFails
  <2> QED
    BY <1>5, <2>2, <2>3, <2>4
<1> QED
  BY <1>6, <1>7

LEMMA StopKeeps ==
  ASSUME IInv, Crash \/ CheckFails
  PROVE  IInv'
<1>1. /\ run' = Idle /\ Faulty /\ run # Idle
      /\ UNCHANGED <<world, rows, events, late, history>>
  BY IdleRun DEF Crash, CheckFails
<1>2. run'.at = "idle"
  BY <1>1, IdleRun
<1>3. UNCHANGED <<account, users, defined, edits, events, late, sets, offered>>
  BY <1>1 DEF world, history
<1>4. faults' \in 0..MaxFaults /\ faults' # 0
  BY <1>1, BalanceAssumption DEF Faulty, IInv, TypeOK
<1>5. TypeOK'
  BY <1>1, <1>2, <1>3, <1>4 DEF IInv, TypeOK
<1>6. TodoIsPending' /\ ReplyIsTrue' /\ OpenIsUnset'
  BY <1>2, <1>4 DEF TodoIsPending, ReplyIsTrue, OpenIsUnset, Working
<1>7. GoalsAreOffered'
  BY <1>2, <1>3 DEF IInv, GoalsAreOffered, Working
<1> QED
  BY <1>1, <1>5, <1>6, <1>7, StoreFrame DEF IInv, StoreIsTrue

-----------------------------------------------------------------------------
(* One target: its amount, the request and its answer *)

LEMMA EventChanged ==
  ASSUME TypeOK, NEW e \in DOMAIN events, NEW ev \in EventRecords, events' = [events EXCEPT ![e] = ev]
  PROVE  /\ events' \in Seq(EventRecords) /\ Len(events') = Len(events) /\ DOMAIN events' = DOMAIN events
         /\ events'[e] = ev /\ \A f \in DOMAIN events : f # e => events'[f] = events[f]
BY Replaced DEF TypeOK

\* The run goes on with the same event and target.
LEMMA SameTarget ==
  ASSUME TypeOK, Working, NEW at \in {"post", "reply"}, NEW reply \in Answers \union {"none"},
         run' = [run EXCEPT !.at = at, !.reply = reply]
  PROVE  /\ run' \in Runs /\ run' # Idle /\ run'.at = at /\ run'.reply = reply
         /\ run'.queue = run.queue /\ run'.todo = run.todo /\ run'.quotas = run.quotas
         /\ Event' = Event /\ Target' = Target
<1>1. run \in Runs
  BY Busy DEF Working
<1>2. /\ run' \in Runs /\ run' # Idle /\ run'.at = at /\ run'.reply = reply
      /\ run'.queue = run.queue /\ run'.todo = run.todo /\ run'.quotas = run.quotas
  BY <1>1, IdleRun DEF Runs
<1> QED
  BY <1>2 DEF Event, Target

LEMMA PrepareKeeps ==
  ASSUME IInv, Prepare
  PROVE  IInv'
<1>1. PICK fresh : fresh = run.quotas[Target]
  OBVIOUS
<1>2. PICK goal : goal = IF fresh = Unset THEN events[Event].goal[Target] ELSE fresh
  OBVIOUS
<1>3. PICK ev : ev = [events[Event] EXCEPT !.goal[Target] = goal]
  OBVIOUS
<1>4. /\ run.at = "target" /\ run.todo # {} /\ Working
      /\ run' = [run EXCEPT !.at = "post"] /\ events' = [events EXCEPT ![Event] = ev]
      /\ UNCHANGED <<world, rows, late, faults, history>>
  BY <1>1, <1>2, <1>3 DEF Prepare, Working
<1>5. /\ Event \in DOMAIN events /\ Target \in Users /\ events[Event].status[Target] = "open"
      /\ events[Event] \in EventRecords /\ run \in Runs /\ run.queue # {}
      /\ run.queue \subseteq DOMAIN events
  BY <1>4, CurrentEvent, CurrentTarget DEF IInv, TypeOK
<1>6. goal \in offered[Event][Target] /\ goal \in Quota
  BY <1>1, <1>2, <1>4, <1>5, SameDomains DEF IInv, GoalsAreOffered, Quota
<1>7. /\ ev \in EventRecords /\ ev.status = events[Event].status /\ ev.open = events[Event].open
      /\ ev.goal[Target] = goal /\ \A u \in Users : u # Target => ev.goal[u] = events[Event].goal[u]
  BY <1>3, <1>5, <1>6 DEF EventRecords
<1>8. /\ events' \in Seq(EventRecords) /\ Len(events') = Len(events) /\ DOMAIN events' = DOMAIN events
      /\ events'[Event] = ev /\ \A f \in DOMAIN events : f # Event => events'[f] = events[f]
  BY <1>4, <1>5, <1>7, EventChanged DEF IInv
<1>9. /\ run' \in Runs /\ run' # Idle /\ run'.at = "post" /\ run'.reply = run.reply
      /\ run'.queue = run.queue /\ run'.todo = run.todo /\ run'.quotas = run.quotas
      /\ Event' = Event /\ Target' = Target
  <2>1. run' = [run EXCEPT !.at = "post", !.reply = run.reply] /\ run.reply \in Answers \union {"none"}
    BY <1>4, <1>5 DEF Runs
  <2> QED
    BY <1>4, <2>1, SameTarget DEF IInv
<1>10. UNCHANGED <<account, users, defined, edits, rows, late, faults, sets, offered>>
  BY <1>4 DEF world, history
<1>11. TypeOK'
  BY <1>4, <1>5, <1>8, <1>9, <1>10 DEF IInv, TypeOK
<1>12. \A e \in DOMAIN events : events'[e].status = events[e].status /\ events'[e].open = events[e].open
  BY <1>7, <1>8
<1>13. TodoIsPending' /\ CompleteMeansSettled' /\ StatusIsTrue' /\ ReplyIsTrue'
  BY <1>4, <1>5, <1>8, <1>9, <1>10, <1>12 DEF IInv, TodoIsPending, CompleteMeansSettled, StatusIsTrue,
    ReplyIsTrue, PendingTargets, Working
<1>14. LateIsDue'
  <2>1. \A p \in late : p[1] \in DOMAIN events
    BY DEF IInv, TypeOK
  <2> QED
    BY <1>10, <1>12, <2>1 DEF IInv, LateIsDue
<1>15. GoalsAreOffered'
  BY <1>4, <1>5, <1>6, <1>7, <1>8, <1>9, <1>10 DEF IInv, GoalsAreOffered, Working
<1>16. OnlyQuotasAreSet' /\ OpenIsUnset'
  BY <1>4, <1>8, <1>9, <1>10, <1>12 DEF IInv, OnlyQuotasAreSet, OpenIsUnset
<1> QED
  BY <1>11, <1>13, <1>14, <1>15, <1>16 DEF IInv

\* A request for an amount the user has had, for a target, leaves true what is said of
\* the store, and of the run if that does not move.
LEMMA HostSetsKeeps ==
  ASSUME IInv, NEW e \in DOMAIN events, NEW u \in Users, NEW amount \in offered[e][u],
         NEW answer \in Answers, HostSets(e, u, amount, answer), events[e].status[u] # "none",
         UNCHANGED <<events, offered>>
  PROVE  /\ CompleteMeansSettled' /\ StatusIsTrue' /\ OnlyQuotasAreSet'
         /\ \A v \in Users : users'[v].status = users[v].status /\ users'[v].quota = users[v].quota
         /\ \A f \in DOMAIN events, v \in Users : sets[f][v] # <<>> => sets'[f][v] # <<>>
<1>1. amount \in Amounts
  BY SameDomains DEF IInv
<1>2. /\ \A v \in Users : users'[v].status = users[v].status /\ users'[v].quota = users[v].quota
      /\ \A f \in DOMAIN events, v \in Users : f # e \/ v # u => sets'[f][v] = sets[f][v]
      /\ sets'[e][u] = sets[e][u] \/ sets'[e][u] = Append(sets[e][u], amount)
      /\ sets[e][u] # <<>> => sets'[e][u] # <<>>
  BY <1>1, HostSetsEffect DEF IInv
<1>3. CompleteMeansSettled'
  BY DEF IInv, CompleteMeansSettled, PendingTargets
<1>4. StatusIsTrue'
  BY <1>2 DEF IInv, StatusIsTrue
<1>5. OnlyQuotasAreSet'
  <2>1. sets[e][u] \in Seq(Amounts)
    BY SameDomains DEF IInv
  <2>2. \A i \in DOMAIN sets[e][u] : sets[e][u][i] \in offered[e][u]
    BY DEF IInv, OnlyQuotasAreSet
  <2>3. ASSUME sets'[e][u] = Append(sets[e][u], amount), NEW i \in DOMAIN sets'[e][u]
        PROVE  sets'[e][u][i] \in offered[e][u]
    BY <1>1, <2>1, <2>2, <2>3, Appended
  <2>4. \A i \in DOMAIN sets'[e][u] : sets'[e][u][i] \in offered[e][u]
    BY <1>2, <2>2, <2>3
  <2> QED
    BY <1>2, <2>4 DEF IInv, OnlyQuotasAreSet
<1> QED
  BY <1>2, <1>3, <1>4, <1>5

\* The amount requested is one of the user's quotas.
LEMMA AmountIsOffered ==
  ASSUME IInv, run.at = "post"
  PROVE  /\ Working /\ run.todo # {} /\ run \in Runs /\ run.queue # {} /\ run.queue \subseteq DOMAIN events
         /\ Event \in DOMAIN events /\ Target \in Users /\ events[Event].status[Target] = "open"
         /\ Amount \in offered[Event][Target] /\ Amount \in Amounts
<1>1. Working /\ run.todo # {}
  BY DEF IInv, TypeOK, Working
<1>2. /\ Event \in DOMAIN events /\ Target \in Users /\ events[Event].status[Target] = "open"
      /\ run \in Runs /\ run.queue # {} /\ run.queue \subseteq DOMAIN events
  BY <1>1, CurrentEvent, CurrentTarget DEF IInv, TypeOK
<1>3. Amount \in offered[Event][Target]
  BY <1>2 DEF IInv, GoalsAreOffered, Amount
<1> QED
  BY <1>1, <1>2, <1>3, SameDomains DEF IInv

\* What remains to be looked at when a request, carried out or not, is behind the run.
LEMMA RequestBehind ==
  ASSUME IInv, run.at = "post", NEW answer \in Answers,
         run' = [run EXCEPT !.at = "reply", !.reply = answer],
         UNCHANGED <<account, defined, edits, rows, events, offered>>, faults' \in 0..MaxFaults,
         users' \in [Users -> Records],
         \A v \in Users : users'[v].status = users[v].status /\ users'[v].quota = users[v].quota,
         sets' \in Seq([Users -> Seq(Amounts)]), Len(sets') = Len(sets),
         answer = "set" => sets'[Event][Target] # <<>>,
         answer = "gone" => users[Target].status = "gone",
         late' \subseteq late \union {<<Event, Target, Amount>>}
  PROVE  /\ TypeOK' /\ TodoIsPending' /\ ReplyIsTrue' /\ GoalsAreOffered' /\ LateIsDue'
         /\ run'.at = "reply" /\ run'.reply = answer /\ Event' = Event /\ Target' = Target
<1>1. /\ Working /\ run.todo # {} /\ run \in Runs /\ run.queue # {} /\ run.queue \subseteq DOMAIN events
      /\ Event \in DOMAIN events /\ Target \in Users /\ events[Event].status[Target] = "open"
      /\ Amount \in offered[Event][Target] /\ Amount \in Amounts
  BY AmountIsOffered
<1>2. /\ run' \in Runs /\ run' # Idle /\ run'.at = "reply" /\ run'.reply = answer
      /\ run'.queue = run.queue /\ run'.todo = run.todo /\ run'.quotas = run.quotas
      /\ Event' = Event /\ Target' = Target
  BY <1>1, SameTarget DEF IInv
<1>3. late' \subseteq (DOMAIN events) \X Users \X Amounts
  <2>1. <<Event, Target, Amount>> \in (DOMAIN events) \X Users \X Amounts
    BY <1>1
  <2>2. late \subseteq (DOMAIN events) \X Users \X Amounts
    BY DEF IInv, TypeOK
  <2> QED
    BY <2>1, <2>2, Zenon
<1>4. TypeOK'
  BY <1>1, <1>2, <1>3 DEF IInv, TypeOK, Records
<1>5. TodoIsPending'
  BY <1>1, <1>2 DEF IInv, TodoIsPending, PendingTargets
<1>6. ReplyIsTrue'
  BY <1>1, <1>2 DEF ReplyIsTrue
<1>7. GoalsAreOffered'
  BY <1>1, <1>2 DEF IInv, GoalsAreOffered
<1>8. LateIsDue'
  <2>1. PICK q : q = <<Event, Target, Amount>>
    OBVIOUS
  <2>2. events[q[1]].status[q[2]] # "none" /\ q[3] \in offered[q[1]][q[2]]
    BY <1>1, <2>1
  <2> QED
    BY <2>1, <2>2 DEF IInv, LateIsDue
<1> QED
  BY <1>2, <1>4, <1>5, <1>6, <1>7, <1>8

LEMMA PostKeeps ==
  ASSUME IInv, Post
  PROVE  IInv'
<1>1. PICK answer \in Answers :
        HostSets(Event, Target, Amount, answer) /\ run' = [run EXCEPT !.at = "reply", !.reply = answer]
  BY DEF Post
<1>2. run.at = "post" /\ UNCHANGED <<account, defined, edits, rows, events, late, faults, offered>>
  BY DEF Post
<1>3. /\ Event \in DOMAIN events /\ Target \in Users /\ events[Event].status[Target] = "open"
      /\ Amount \in offered[Event][Target] /\ Amount \in Amounts
  BY <1>2, AmountIsOffered
<1>4. /\ users' \in [Users -> Records]
      /\ sets' \in Seq([Users -> Seq(Amounts)]) /\ Len(sets') = Len(sets)
      /\ \A f \in DOMAIN events, v \in Users : f # Event \/ v # Target => sets'[f][v] = sets[f][v]
      /\ \/ sets'[Event][Target] = sets[Event][Target]
         \/ sets'[Event][Target] = Append(sets[Event][Target], Amount)
      /\ answer = "gone" => users[Target].status = "gone" /\ sets' = sets
      /\ answer = "set" => sets'[Event][Target] # <<>>
      /\ answer # "error"
  BY <1>1, <1>3, HostSetsEffect DEF IInv, Records
<1>5. /\ CompleteMeansSettled' /\ StatusIsTrue' /\ OnlyQuotasAreSet'
      /\ \A v \in Users : users'[v].status = users[v].status /\ users'[v].quota = users[v].quota
  BY <1>1, <1>2, <1>3, HostSetsKeeps
<1>6. /\ TypeOK' /\ TodoIsPending' /\ ReplyIsTrue' /\ GoalsAreOffered' /\ LateIsDue'
      /\ run'.at = "reply" /\ run'.reply = answer /\ Event' = Event /\ Target' = Target
  <2>1. faults' \in 0..MaxFaults /\ late' \subseteq late \union {<<Event, Target, Amount>>}
    BY <1>2 DEF IInv, TypeOK
  <2> QED
    BY <1>1, <1>2, <1>4, <1>5, <2>1, RequestBehind
<1>7. OpenIsUnset'
  <2> SUFFICES ASSUME faults = 0 PROVE OpenIsUnset'
    BY <1>2 DEF OpenIsUnset
  <2>1. \A e \in DOMAIN events, u \in Users :
          Len(sets[e][u]) <= 1 /\ (events[e].status[u] = "open" => sets[e][u] = <<>>)
    BY <1>2 DEF IInv, OpenIsUnset
  <2>2. Len(sets'[Event][Target]) <= 1
    <3>1. sets[Event][Target] = <<>> /\ Len(sets[Event][Target]) = 0
      BY <1>3, <2>1
    <3>2. Len(Append(sets[Event][Target], Amount)) = 1
      BY <1>3, <3>1, SameDomains, AppendProperties DEF IInv
    <3>3. Len(sets'[Event][Target]) = 0 \/ Len(sets'[Event][Target]) = 1
      BY <1>4, <3>1, <3>2, Zenon
    <3>4. \A k : k = 0 \/ k = 1 => k <= 1
      OBVIOUS
    <3> QED
      BY <3>3, <3>4, Zenon
  <2>3. answer = "gone" => sets'[Event][Target] = <<>>
    BY <1>3, <1>4, <2>1
  <2>4. answer \in {"set", "gone"}
    BY <1>4 DEF Answers
  <2>5. ASSUME NEW e \in DOMAIN events, NEW u \in Users
        PROVE  /\ Len(sets'[e][u]) <= 1
               /\ events[e].status[u] = "open" /\ sets'[e][u] # <<>>
                    => e = Event /\ u = Target /\ answer = "set"
    BY <1>4, <2>1, <2>2, <2>3, <2>4
  <2>6. late' = {}
    BY <1>2 DEF IInv, OpenIsUnset
  <2> QED
    BY <1>2, <1>6, <2>4, <2>5, <2>6 DEF OpenIsUnset
<1> QED
  BY <1>5, <1>6, <1>7 DEF IInv

LEMMA PostFailsKeeps ==
  ASSUME IInv, PostFails
  PROVE  IInv'
<1>1. /\ run.at = "post" /\ faults' \in 0..MaxFaults /\ faults' # 0
      /\ run' = [run EXCEPT !.at = "reply", !.reply = "error"]
      /\ UNCHANGED <<account, defined, edits, rows, events, offered>> /\ "error" \in Answers
  BY BalanceAssumption DEF PostFails, Faulty, IInv, TypeOK, Answers
<1>2. /\ Event \in DOMAIN events /\ Target \in Users /\ events[Event].status[Target] = "open"
      /\ Amount \in offered[Event][Target] /\ Amount \in Amounts
  BY <1>1, AmountIsOffered
<1>3. /\ users' \in [Users -> Records]
      /\ \A v \in Users : users'[v].status = users[v].status /\ users'[v].quota = users[v].quota
      /\ sets' \in Seq([Users -> Seq(Amounts)]) /\ Len(sets') = Len(sets)
      /\ CompleteMeansSettled' /\ StatusIsTrue' /\ OnlyQuotasAreSet'
      /\ late' \subseteq late \union {<<Event, Target, Amount>>}
  <2>1. CASE UNCHANGED <<users, sets>> /\ late' \in {late, late \union {<<Event, Target, Amount>>}}
    BY <1>1, <2>1 DEF IInv, TypeOK, Records, CompleteMeansSettled, StatusIsTrue, OnlyQuotasAreSet, PendingTargets
  <2>2. ASSUME NEW answer \in Answers, HostSets(Event, Target, Amount, answer), late' = late
        PROVE  /\ users' \in [Users -> Records]
               /\ \A v \in Users : users'[v].status = users[v].status /\ users'[v].quota = users[v].quota
               /\ sets' \in Seq([Users -> Seq(Amounts)]) /\ Len(sets') = Len(sets)
               /\ CompleteMeansSettled' /\ StatusIsTrue' /\ OnlyQuotasAreSet'
    <3>1. /\ users' \in [Users -> Records]
          /\ sets' \in Seq([Users -> Seq(Amounts)]) /\ Len(sets') = Len(sets)
      BY <1>2, <2>2, HostSetsEffect DEF IInv, Records
    <3>2. /\ CompleteMeansSettled' /\ StatusIsTrue' /\ OnlyQuotasAreSet'
          /\ \A v \in Users : users'[v].status = users[v].status /\ users'[v].quota = users[v].quota
      BY <1>1, <1>2, <2>2, HostSetsKeeps
    <3> QED
      BY <3>1, <3>2
  <2> QED
    BY <2>1, <2>2 DEF PostFails
<1>4. /\ TypeOK' /\ TodoIsPending' /\ ReplyIsTrue' /\ GoalsAreOffered' /\ LateIsDue'
  BY <1>1, <1>3, RequestBehind
<1>5. OpenIsUnset'
  BY <1>1 DEF OpenIsUnset
<1> QED
  BY <1>3, <1>4, <1>5 DEF IInv

LEMMA LatePostKeeps ==
  ASSUME IInv, LatePost
  PROVE  IInv'
<1>1. PICK p \in late, answer \in Answers : HostSets(p[1], p[2], p[3], answer) /\ late' = late \ {p}
  BY DEF LatePost
<1>2. PICK e, u, amount : e = p[1] /\ u = p[2] /\ amount = p[3]
  OBVIOUS
<1>3. /\ e \in DOMAIN events /\ u \in Users /\ amount \in Amounts
      /\ events[e].status[u] # "none" /\ amount \in offered[e][u]
  BY <1>2 DEF IInv, TypeOK, LateIsDue
<1>4. HostSets(e, u, amount, answer) /\ UNCHANGED <<account, defined, edits, rows, events, run, faults, offered>>
  BY <1>1, <1>2 DEF LatePost
<1>5. /\ users' \in [Users -> Records]
      /\ sets' \in Seq([Users -> Seq(Amounts)]) /\ Len(sets') = Len(sets)
  BY <1>3, <1>4, HostSetsEffect DEF IInv, Records
<1>6. /\ CompleteMeansSettled' /\ StatusIsTrue' /\ OnlyQuotasAreSet'
      /\ \A v \in Users : users'[v].status = users[v].status /\ users'[v].quota = users[v].quota
      /\ \A f \in DOMAIN events, v \in Users : sets[f][v] # <<>> => sets'[f][v] # <<>>
  BY <1>3, <1>4, HostSetsKeeps
<1>7. TypeOK'
  BY <1>1, <1>4, <1>5 DEF IInv, TypeOK, Records
<1>8. TodoIsPending' /\ GoalsAreOffered' /\ LateIsDue'
  <2>1. Event' = Event /\ (Working' <=> Working)
    BY <1>4 DEF Event, Working
  <2> QED
    BY <1>1, <1>4, <1>6, <2>1 DEF IInv, TodoIsPending, GoalsAreOffered, LateIsDue, PendingTargets
<1>9. ReplyIsTrue'
  <2>1. Event' = Event /\ Target' = Target
    BY <1>4 DEF Event, Target
  <2>2. run.at = "reply" => Event \in DOMAIN events /\ Target \in Users
    BY CurrentEvent, CurrentTarget DEF IInv, TypeOK, Working
  <2> QED
    BY <1>4, <1>6, <2>1, <2>2 DEF IInv, ReplyIsTrue
<1>10. OpenIsUnset'
  BY <1>4 DEF IInv, OpenIsUnset
<1> QED
  BY <1>6, <1>7, <1>8, <1>9, <1>10 DEF IInv

LEMMA HandleReplyKeeps ==
  ASSUME IInv, HandleReply
  PROVE  IInv'
<1>1. PICK status : status = StatusAfter(run.reply)
  OBVIOUS
<1>2. PICK ev : ev = [events[Event] EXCEPT !.status[Target] = status]
  OBVIOUS
<1>3. /\ run.at = "reply" /\ Working /\ run.todo # {}
      /\ events' = [events EXCEPT ![Event] = ev]
      /\ run' = [run EXCEPT !.at = "target", !.todo = @ \ {Target}, !.reply = "none"]
      /\ UNCHANGED <<world, rows, late, faults, history>>
  BY <1>1, <1>2 DEF HandleReply, Working, IInv, TypeOK
<1>4. /\ Event \in DOMAIN events /\ Target \in Users /\ events[Event].status[Target] = "open"
      /\ events[Event] \in EventRecords /\ run \in Runs /\ run.queue # {} /\ run.queue \subseteq DOMAIN events
  BY <1>3, CurrentEvent, CurrentTarget DEF IInv, TypeOK
<1>5. /\ status \in Settled \union {"open"}
      /\ status = "done" <=> run.reply = "set"
      /\ status = "skipped" <=> run.reply = "gone"
      /\ status = "open" <=> run.reply = "error"
  BY <1>1, <1>3 DEF StatusAfter, IInv, ReplyIsTrue, Answers, Settled
<1>6. /\ ev \in EventRecords /\ ev.open = events[Event].open /\ ev.goal = events[Event].goal
      /\ ev.status[Target] = status /\ \A u \in Users : u # Target => ev.status[u] = events[Event].status[u]
  BY <1>2, <1>4, <1>5 DEF EventRecords
<1>7. /\ events' \in Seq(EventRecords) /\ Len(events') = Len(events) /\ DOMAIN events' = DOMAIN events
      /\ events'[Event] = ev /\ \A f \in DOMAIN events : f # Event => events'[f] = events[f]
  BY <1>3, <1>4, <1>6, EventChanged DEF IInv
<1>8. /\ run' \in Runs /\ run' # Idle /\ run'.at = "target" /\ run'.queue = run.queue
      /\ run'.todo = run.todo \ {Target} /\ run'.quotas = run.quotas
  BY <1>3, <1>4, IdleRun DEF Runs
<1>9. Event' = Event
  BY <1>8 DEF Event
<1>10. UNCHANGED <<account, users, defined, edits, rows, late, faults, sets, offered>>
  BY <1>3 DEF world, history
<1>11. TypeOK'
  BY <1>4, <1>7, <1>8, <1>10 DEF IInv, TypeOK
<1>12. TodoIsPending'
  BY <1>3, <1>6, <1>7, <1>8, <1>9 DEF IInv, TodoIsPending, PendingTargets, Runs
<1>13. CompleteMeansSettled'
  <2>1. events[Event].open
    BY <1>4 DEF IInv, CompleteMeansSettled, PendingTargets
  <2>2. ASSUME NEW e \in DOMAIN events, ~events'[e].open PROVE PendingTargets(events'[e]) = {}
    <3>1. events'[e] = events[e]
      BY <1>6, <1>7, <2>1, <2>2
    <3> QED
      BY <2>2, <3>1 DEF IInv, CompleteMeansSettled
  <2> QED
    BY <1>7, <2>2 DEF CompleteMeansSettled, PendingTargets
<1>14. StatusIsTrue'
  <2>1. /\ run.reply = "set" => sets[Event][Target] # <<>>
        /\ run.reply = "gone" => users[Target].status = "gone"
    BY <1>3 DEF IInv, ReplyIsTrue
  <2>2. status # "none"
    BY <1>5 DEF Settled
  <2> QED
    BY <1>5, <1>6, <1>7, <1>10, <2>1, <2>2 DEF IInv, StatusIsTrue
<1>15. ReplyIsTrue'
  BY <1>8 DEF ReplyIsTrue
<1>16. \A e \in DOMAIN events, u \in Users :
         /\ events'[e].status[u] = "none" <=> events[e].status[u] = "none"
         /\ events'[e].goal = events[e].goal
  BY <1>4, <1>5, <1>6, <1>7 DEF Settled
<1>17. LateIsDue'
  <2>1. \A p \in late : p[1] \in DOMAIN events /\ p[2] \in Users
    BY DEF IInv, TypeOK
  <2> QED
    BY <1>10, <1>16, <2>1 DEF IInv, LateIsDue
<1>18. GoalsAreOffered' /\ OnlyQuotasAreSet'
  BY <1>3, <1>7, <1>8, <1>9, <1>10, <1>16 DEF IInv, GoalsAreOffered, OnlyQuotasAreSet
<1>19. OpenIsUnset'
  <2> SUFFICES ASSUME faults = 0 PROVE OpenIsUnset'
    BY <1>10 DEF OpenIsUnset
  <2>1. /\ late = {} /\ run.reply # "error"
        /\ \A e \in DOMAIN events, u \in Users :
             /\ Len(sets[e][u]) <= 1
             /\ events[e].status[u] = "open" /\ sets[e][u] # <<>> => e = Event /\ u = Target
    BY <1>3 DEF IInv, OpenIsUnset
  <2>2. events'[Event].status[Target] # "open"
    BY <1>5, <1>6, <1>7, <2>1
  <2>3. ASSUME NEW e \in DOMAIN events, NEW u \in Users, events'[e].status[u] = "open"
        PROVE  sets[e][u] = <<>>
    BY <1>6, <1>7, <2>1, <2>2, <2>3
  <2> QED
    BY <1>7, <1>8, <1>10, <2>1, <2>3 DEF OpenIsUnset
<1> QED
  BY <1>11, <1>12, <1>13, <1>14, <1>15, <1>17, <1>18, <1>19 DEF IInv

-----------------------------------------------------------------------------
(* Steps at the end of an event and at an account *)

\* A run between two targets, or at its end, holds nothing that could be stale.
LEMMA BetweenTargets ==
  ASSUME run'.at \in {"event", "account", "idle"}
  PROVE  TodoIsPending' /\ ReplyIsTrue' /\ ~Working'
BY DEF TodoIsPending, ReplyIsTrue, Working

LEMMA FinishEventKeeps ==
  ASSUME IInv, FinishEvent
  PROVE  IInv'
<1>1. PICK ev : ev = [events[Event] EXCEPT !.open = PendingTargets(events[Event]) # {}]
  OBVIOUS
<1>2. PICK r : r = [run EXCEPT !.queue = @ \ {Event}, !.quotas = NoQuotas]
  OBVIOUS
<1>3. /\ run.at = "target" /\ events' = [events EXCEPT ![Event] = ev] /\ run' = Advance(r, events')
      /\ UNCHANGED <<world, rows, late, faults, history>>
  BY <1>1, <1>2 DEF FinishEvent
<1>4. /\ Event \in DOMAIN events /\ events[Event] \in EventRecords
      /\ run \in Runs /\ run.queue # {} /\ run.queue \subseteq DOMAIN events
  BY <1>3, CurrentEvent DEF IInv, TypeOK
<1>5. /\ ev \in EventRecords /\ ev.goal = events[Event].goal /\ ev.status = events[Event].status
      /\ ~ev.open => PendingTargets(events[Event]) = {}
  BY <1>1, <1>4 DEF EventRecords
<1>6. /\ events' \in Seq(EventRecords) /\ Len(events') = Len(events) /\ DOMAIN events' = DOMAIN events
      /\ events'[Event] = ev /\ \A f \in DOMAIN events : f # Event => events'[f] = events[f]
  BY <1>3, <1>4, <1>5, EventChanged DEF IInv
<1>7. r \in Runs /\ r.queue = run.queue \ {Event}
  <2>1. NoQuotas \in [Users -> Quota]
    BY DEF NoQuotas, Quota
  <2> QED
    BY <1>2, <1>4, <2>1 DEF Runs
<1>8. /\ run' \in Runs \union {Idle}
      /\ run' # Idle => run'.queue \subseteq DOMAIN events
      /\ run'.at \in {"event", "account", "idle"}
      /\ run'.at = "event" => run'.queue # {}
  <2>1. /\ Advance(r, events') \in Runs \union {Idle}
        /\ Advance(r, events') # Idle => Advance(r, events').queue = r.queue
        /\ Advance(r, events').at \in {"event", "account", "idle"}
        /\ Advance(r, events').at = "event" => r.queue # {}
    BY <1>7, Advanced
  <2>2. Advance(r, events').at = "event" => Advance(r, events') # Idle
    BY IdleRun
  <2> QED
    BY <1>3, <1>4, <1>7, <2>1, <2>2
<1>9. UNCHANGED <<account, users, defined, edits, rows, late, faults, sets, offered>>
  BY <1>3 DEF world, history
<1>10. TypeOK'
  BY <1>6, <1>8, <1>9 DEF IInv, TypeOK
<1>11. TodoIsPending' /\ ReplyIsTrue' /\ ~Working'
  BY <1>8, BetweenTargets
<1>12. \A e \in DOMAIN events : events'[e].status = events[e].status /\ events'[e].goal = events[e].goal
  BY <1>5, <1>6
<1>13. CompleteMeansSettled'
  BY <1>5, <1>6, <1>12 DEF IInv, CompleteMeansSettled, PendingTargets
<1>14. StatusIsTrue' /\ OnlyQuotasAreSet'
  BY <1>6, <1>9, <1>12 DEF IInv, StatusIsTrue, OnlyQuotasAreSet
<1>15. LateIsDue'
  <2>1. \A p \in late : p[1] \in DOMAIN events
    BY DEF IInv, TypeOK
  <2> QED
    BY <1>9, <1>12, <2>1 DEF IInv, LateIsDue
<1>16. GoalsAreOffered'
  BY <1>6, <1>9, <1>11, <1>12 DEF IInv, GoalsAreOffered
<1>17. OpenIsUnset'
  BY <1>3, <1>6, <1>8, <1>9, <1>12 DEF IInv, OpenIsUnset
<1> QED
  BY <1>10, <1>11, <1>13, <1>14, <1>15, <1>16, <1>17 DEF IInv

\* What a new cycle adds to the store: an event for it whose targets have an amount and
\* were not set yet.
Added(a, n, ev) ==
  /\ n = Len(events) + 1 /\ n \notin DOMAIN events
  /\ events' \in Seq(EventRecords) /\ Len(events') = n /\ DOMAIN events' = DOMAIN events \union {n}
  /\ events'[n] = ev /\ \A e \in DOMAIN events : events'[e] = events[e]
  /\ sets' \in Seq([Users -> Seq(Amounts)]) /\ Len(sets') = n
  /\ \A e \in DOMAIN events : sets'[e] = sets[e]
  /\ \A u \in Users : sets'[n][u] = <<>>
  /\ offered' \in Seq([Users -> SUBSET Amounts]) /\ Len(offered') = n
  /\ \A e \in DOMAIN events : offered'[e] = offered[e]
  /\ \A u \in Users : users[u].quota \in offered'[n][u] \union {Unset}
  /\ ev.open /\ ev.account = a /\ ev.cycle = account[a]
  /\ \A u \in Users : /\ ev.status[u] \in {"open", "none"}
                      /\ ev.status[u] = "open" => ev.goal[u] \in offered'[n][u]

LEMMA CreateEventEffect ==
  ASSUME IInv, NEW a \in Accounts, CreateEvent(a), users' = users
  PROVE  \E n \in Nat : \E ev \in EventRecords : Added(a, n, ev)
<1>1. PICK ev : ev = NewEvent(a)
  OBVIOUS
<1>2. PICK empty : empty = [u \in Users |-> <<>>]
  OBVIOUS
<1>3. PICK quotas : quotas = [u \in Users |-> {users[u].quota} \ {Unset}]
  OBVIOUS
<1>4. events' = Append(events, ev) /\ sets' = Append(sets, empty) /\ offered' = Append(offered, quotas)
  BY <1>1, <1>2, <1>3 DEF CreateEvent
<1>5. /\ users \in [Users -> Records] /\ account[a] \in Nat
      /\ events \in Seq(EventRecords) /\ sets \in Seq([Users -> Seq(Amounts)])
      /\ offered \in Seq([Users -> SUBSET Amounts]) /\ Len(sets) = Len(events) /\ Len(offered) = Len(events)
  BY DEF IInv, TypeOK, Records
<1>6. /\ ev \in EventRecords /\ ev.open /\ ev.account = a /\ ev.cycle = account[a]
      /\ \A u \in Users : /\ ev.status[u] \in {"open", "none"}
                          /\ ev.status[u] = "open" => ev.goal[u] = users[u].quota /\ ev.goal[u] # Unset
  <2>1. PICK status : status = [u \in Users |-> IF u \in NewTargets THEN "open" ELSE "none"]
    OBVIOUS
  <2>2. PICK goal : goal = [u \in Users |-> IF u \in NewTargets THEN users[u].quota ELSE Unset]
    OBVIOUS
  <2>3. ev = [account |-> a, cycle |-> account[a], open |-> TRUE, status |-> status, goal |-> goal]
    BY <1>1, <2>1, <2>2, Zenon DEF NewEvent
  <2>4. status \in [Users -> Settled \union {"open", "none"}] /\ goal \in [Users -> Quota]
    BY <1>5, <2>1, <2>2 DEF Records, Quota
  <2>5. \A u \in Users : /\ status[u] \in {"open", "none"}
                         /\ status[u] = "open" => goal[u] = users[u].quota /\ goal[u] # Unset
    BY <2>1, <2>2 DEF NewTargets
  <2> QED
    BY <1>5, <2>3, <2>4, <2>5 DEF EventRecords
<1>7. empty \in [Users -> Seq(Amounts)] /\ \A u \in Users : empty[u] = <<>>
  BY <1>2, EmptySeq
<1>8. /\ quotas \in [Users -> SUBSET Amounts]
      /\ \A u \in Users : /\ users[u].quota \in quotas[u] \union {Unset}
                          /\ users[u].quota # Unset => users[u].quota \in quotas[u]
  BY <1>3, <1>5 DEF Records, Quota
<1>9. PICK S, T : S = [Users -> Seq(Amounts)] /\ T = [Users -> SUBSET Amounts]
  OBVIOUS
<1>10. /\ Len(events) \in Nat /\ DOMAIN sets = DOMAIN events /\ DOMAIN offered = DOMAIN events
  BY SameDomains DEF IInv
<1>11. PICK n \in Nat : n = Len(events) + 1
  BY <1>10
<1>12. /\ events' \in Seq(EventRecords) /\ Len(events') = n /\ DOMAIN events' = DOMAIN events \union {n}
       /\ events'[n] = ev /\ \A e \in DOMAIN events : events'[e] = events[e]
       /\ n \notin DOMAIN events
  BY <1>4, <1>5, <1>6, <1>11, Appended
<1>13. /\ sets' \in Seq(S) /\ Len(sets') = n /\ sets'[n] = empty
       /\ \A e \in DOMAIN events : sets'[e] = sets[e]
  BY <1>4, <1>5, <1>7, <1>9, <1>10, <1>11, Appended
<1>14. /\ offered' \in Seq(T) /\ Len(offered') = n /\ offered'[n] = quotas
       /\ \A e \in DOMAIN events : offered'[e] = offered[e]
  BY <1>4, <1>5, <1>8, <1>9, <1>10, <1>11, Appended
<1>15. \A u \in Users : /\ users[u].quota \in offered'[n][u] \union {Unset}
                        /\ ev.status[u] = "open" => ev.goal[u] \in offered'[n][u]
  BY <1>6, <1>8, <1>14
<1> QED
  BY <1>6, <1>7, <1>9, <1>11, <1>12, <1>13, <1>14, <1>15 DEF Added

\* The run's next step after an account.
LEMMA AfterAccount ==
  ASSUME IInv, CheckAccount, DOMAIN events' \subseteq Nat, DOMAIN events \subseteq DOMAIN events'
  PROVE  /\ run' \in Runs \union {Idle}
         /\ run' # Idle => run'.queue \subseteq DOMAIN events'
         /\ run'.at \in {"event", "account", "idle"}
         /\ run'.at = "event" => run'.queue # {}
<1>1. run \in Runs /\ run.at = "account" /\ run.queue \subseteq DOMAIN events
  BY Busy DEF CheckAccount, IInv, TypeOK
<1>2. Len(AccountIds) \in Nat /\ run.next \in 1..Len(AccountIds)
  BY <1>1, BalanceAssumption, LenProperties DEF Runs
<1>3. CASE run.next < Len(AccountIds)
  <2>1. run' = [run EXCEPT !.next = @ + 1]
    BY <1>3 DEF CheckAccount
  <2>2. run.next + 1 \in 1..Len(AccountIds)
    BY <1>2, <1>3
  <2>3. run' \in Runs /\ run'.at = "account" /\ run'.queue = run.queue
    BY <1>1, <2>1, <2>2 DEF Runs
  <2> QED
    BY <1>1, <2>3
<1>4. CASE ~(run.next < Len(AccountIds)) /\ run.dry
  <2>1. run' = Idle /\ run'.at = "idle"
    BY <1>4, IdleRun DEF CheckAccount
  <2> QED
    BY <2>1
<1>5. CASE ~(run.next < Len(AccountIds)) /\ ~run.dry
  <2>1. PICK r : r = [run EXCEPT !.pass = 2, !.queue = OpenEvents(events')]
    OBVIOUS
  <2>2. run' = Advance(r, events')
    BY <1>5, <2>1 DEF CheckAccount
  <2>3. OpenEvents(events') \subseteq DOMAIN events'
    BY DEF OpenEvents
  <2>4. r \in Runs /\ r.queue = OpenEvents(events')
    BY <1>1, <2>1, <2>3 DEF Runs
  <2>5. /\ Advance(r, events') \in Runs \union {Idle}
        /\ Advance(r, events') # Idle => Advance(r, events').queue = r.queue
        /\ Advance(r, events').at \in {"event", "account", "idle"}
        /\ Advance(r, events').at = "event" => r.queue # {}
    BY <2>4, Advanced
  <2>6. Advance(r, events').at = "event" => Advance(r, events') # Idle
    BY IdleRun
  <2> QED
    BY <2>2, <2>3, <2>4, <2>5, <2>6
<1> QED
  BY <1>3, <1>4, <1>5

LEMMA CheckAccountKeeps ==
  ASSUME IInv, CheckAccount
  PROVE  IInv'
<1>1. PICK a : a = AccountIds[run.next]
  OBVIOUS
<1>2. /\ run.at = "account" /\ UNCHANGED <<world, late, faults>>
      /\ \/ rows' = [rows EXCEPT ![a] = account[a]] /\ UNCHANGED <<events, history>>
         \/ UNCHANGED <<rows, events, history>>
         \/ CreateEvent(a)
  BY <1>1 DEF CheckAccount
<1>3. a \in Accounts
  <2>1. run \in Runs
    BY <1>2, Busy DEF IInv
  <2> QED
    BY <1>1, <2>1, BalanceAssumption, ElementOfSeq DEF Runs
<1>4. UNCHANGED <<account, users, defined, edits, late, faults>>
  BY <1>2 DEF world
<1>5. rows' \in [Accounts -> Nat]
  <2>1. account[a] \in Nat /\ rows \in [Accounts -> Nat]
    BY <1>3 DEF IInv, TypeOK
  <2> QED
    BY <1>2, <2>1 DEF CreateEvent
<1>6. DOMAIN events = 1..Len(events) /\ Len(events) \in Nat
  BY SameDomains DEF IInv
<1>7. CASE UNCHANGED <<events, history>>
  <2>1. UNCHANGED <<events, sets, offered>>
    BY <1>7 DEF history
  <2>2. /\ run' \in Runs \union {Idle}
        /\ run' # Idle => run'.queue \subseteq DOMAIN events'
        /\ run'.at \in {"event", "account", "idle"}
        /\ run'.at = "event" => run'.queue # {}
    BY <1>6, <2>1, AfterAccount
  <2>3. TypeOK'
    BY <1>4, <1>5, <2>1, <2>2 DEF IInv, TypeOK
  <2>4. TodoIsPending' /\ ReplyIsTrue' /\ ~Working'
    BY <2>2, BetweenTargets
  <2>5. CompleteMeansSettled' /\ StatusIsTrue' /\ LateIsDue' /\ OnlyQuotasAreSet' /\ GoalsAreOffered'
    BY <1>4, <2>1, <2>4 DEF IInv, CompleteMeansSettled, StatusIsTrue, LateIsDue, OnlyQuotasAreSet,
      GoalsAreOffered, PendingTargets
  <2>6. OpenIsUnset'
    BY <1>2, <1>4, <2>1, <2>2 DEF IInv, OpenIsUnset
  <2> QED
    BY <2>3, <2>4, <2>5, <2>6 DEF IInv
<1>8. CASE CreateEvent(a)
  <2>1. PICK n \in Nat, ev \in EventRecords : Added(a, n, ev)
    BY <1>3, <1>4, <1>8, CreateEventEffect
  <2>2. /\ run' \in Runs \union {Idle}
        /\ run' # Idle => run'.queue \subseteq DOMAIN events'
        /\ run'.at \in {"event", "account", "idle"}
        /\ run'.at = "event" => run'.queue # {}
    BY <1>6, <2>1, AfterAccount DEF Added
  <2>3. late' \subseteq (DOMAIN events') \X Users \X Amounts
    <3>1. late \subseteq (DOMAIN events) \X Users \X Amounts
      BY DEF IInv, TypeOK
    <3> QED
      BY <1>4, <2>1, <3>1 DEF Added
  <2>4. TypeOK'
    BY <1>4, <1>5, <2>1, <2>2, <2>3 DEF IInv, TypeOK, Added
  <2>5. TodoIsPending' /\ ReplyIsTrue' /\ ~Working'
    BY <2>2, BetweenTargets
  <2>6. CompleteMeansSettled'
    BY <2>1 DEF IInv, CompleteMeansSettled, PendingTargets, Added
  <2>old. /\ DOMAIN events' = DOMAIN events \union {n} /\ n \notin DOMAIN events
        /\ \A e \in DOMAIN events :
             events'[e] = events[e] /\ sets'[e] = sets[e] /\ offered'[e] = offered[e]
    BY <2>1 DEF Added
  <2>new. \A u \in Users :
          /\ sets'[n][u] = <<>> /\ users[u].quota \in offered'[n][u] \union {Unset}
          /\ events'[n].status[u] \in {"open", "none"}
          /\ events'[n].status[u] = "open" => events'[n].goal[u] \in offered'[n][u]
    BY <2>1 DEF Added
  <2>7. StatusIsTrue'
    <3>1. ASSUME NEW e \in DOMAIN events', NEW u \in Users
          PROVE  /\ events'[e].status[u] = "done" => sets'[e][u] # <<>>
                 /\ events'[e].status[u] = "skipped" => users[u].status = "gone"
                 /\ events'[e].status[u] = "none" => sets'[e][u] = <<>>
      BY <2>old, <2>new DEF IInv, StatusIsTrue
    <3> QED
      BY <1>4, <3>1 DEF StatusIsTrue
  <2>8. LateIsDue'
    <3>1. ASSUME NEW p \in late PROVE p[1] \in DOMAIN events
      BY DEF IInv, TypeOK
    <3>2. ASSUME NEW p \in late
          PROVE  events'[p[1]].status[p[2]] # "none" /\ p[3] \in offered'[p[1]][p[2]]
      BY <2>old, <3>1 DEF IInv, LateIsDue
    <3> QED
      BY <1>4, <3>2 DEF LateIsDue
  <2>9. GoalsAreOffered'
    <3>1. ASSUME NEW e \in DOMAIN events', NEW u \in Users
          PROVE  /\ events'[e].status[u] # "none" => events'[e].goal[u] \in offered'[e][u]
                 /\ users[u].quota \in offered'[e][u] \union {Unset}
      BY <2>old, <2>new DEF IInv, GoalsAreOffered
    <3> QED
      BY <1>4, <2>5, <3>1 DEF GoalsAreOffered
  <2>10. OnlyQuotasAreSet'
    <3>1. \A u \in Users : DOMAIN sets'[n][u] = {}
      BY <2>1 DEF Added
    <3> QED
      BY <2>1, <3>1 DEF IInv, OnlyQuotasAreSet, Added
  <2>11. OpenIsUnset'
    <3> SUFFICES ASSUME faults = 0 PROVE OpenIsUnset'
      BY <1>4 DEF OpenIsUnset
    <3>1. /\ late = {}
          /\ \A e \in DOMAIN events, u \in Users :
               Len(sets[e][u]) <= 1 /\ (events[e].status[u] = "open" => sets[e][u] = <<>>)
      BY <1>2 DEF IInv, OpenIsUnset
    <3>2. Len(<<>>) <= 1
      OBVIOUS
    <3>3. ASSUME NEW e \in DOMAIN events', NEW u \in Users
          PROVE  Len(sets'[e][u]) <= 1 /\ (events'[e].status[u] = "open" => sets'[e][u] = <<>>)
      BY <2>old, <2>new, <3>1, <3>2
    <3> QED
      BY <1>4, <2>2, <3>1, <3>3 DEF OpenIsUnset
  <2> QED
    BY <2>4, <2>5, <2>6, <2>7, <2>8, <2>9, <2>10, <2>11 DEF IInv
<1> QED
  BY <1>2, <1>7, <1>8

-----------------------------------------------------------------------------
(* The theorems *)

LEMMA InitIInv == Init => IInv
<1> SUFFICES ASSUME Init PROVE IInv
  OBVIOUS
<1>1. run.at = "idle" /\ run = Idle
  BY IdleRun DEF Init
<1>2. events = <<>> /\ sets = <<>> /\ offered = <<>> /\ late = {} /\ DOMAIN events = {}
  BY DEF Init
<1>3. TypeOK
  <2>1. 0 \in 0..MaxEdits /\ 0 \in 0..MaxFaults /\ 0 \in Nat /\ 1 \in Nat
    BY BalanceAssumption
  <2>2. /\ events \in Seq(EventRecords) /\ sets \in Seq([Users -> Seq(Amounts)])
        /\ offered \in Seq([Users -> SUBSET Amounts])
        /\ Len(sets) = Len(events) /\ Len(offered) = Len(events)
    BY <1>2, EmptySeq
  <2>3. users \in [Users -> [status : {"active", "disabled", "gone"}, quota : Quota, balance : Amounts \union {0}]]
    BY DEF Init
  <2>4. account \in [Accounts -> Nat] /\ rows \in [Accounts -> Nat]
    BY <2>1 DEF Init
  <2> QED
    BY <1>1, <1>2, <2>1, <2>2, <2>3, <2>4 DEF Init, TypeOK
<1>4. TodoIsPending /\ ReplyIsTrue /\ LateIsDue
  BY <1>1, <1>2 DEF TodoIsPending, ReplyIsTrue, LateIsDue, Working
<1>5. CompleteMeansSettled /\ StatusIsTrue /\ OnlyQuotasAreSet /\ GoalsAreOffered /\ OpenIsUnset
  BY <1>1, <1>2 DEF CompleteMeansSettled, StatusIsTrue, OnlyQuotasAreSet, GoalsAreOffered, OpenIsUnset, Working
<1> QED
  BY <1>3, <1>4, <1>5 DEF IInv

LEMMA StepIInv == IInv /\ [Next]_vars => IInv'
<1> SUFFICES ASSUME IInv, [Next]_vars PROVE IInv'
  OBVIOUS
<1>1. CASE UNCHANGED vars
  <2>1. /\ UNCHANGED <<account, users, defined, edits, rows, events, run, late, faults, sets, offered>>
        /\ Event' = Event /\ Target' = Target
    BY <1>1 DEF vars, Event, Target
  <2>2. TypeOK' /\ TodoIsPending' /\ CompleteMeansSettled' /\ StatusIsTrue'
    BY <2>1 DEF IInv, TypeOK, TodoIsPending, CompleteMeansSettled, StatusIsTrue, PendingTargets, Working
  <2>3. ReplyIsTrue' /\ LateIsDue' /\ GoalsAreOffered' /\ OnlyQuotasAreSet' /\ OpenIsUnset'
    BY <2>1 DEF IInv, ReplyIsTrue, LateIsDue, GoalsAreOffered, OnlyQuotasAreSet, OpenIsUnset, Working
  <2> QED
    BY <2>2, <2>3 DEF IInv
<1>2. CASE World
  BY <1>2, WorldKeeps
<1>3. ASSUME NEW dry \in DryRuns, Start(dry) PROVE IInv'
  BY <1>3, StartKeeps
<1>4. CASE ReadQuotas \/ ReadFails
  BY <1>4, ReadKeeps
<1>5. CASE Prepare \/ Post \/ PostFails \/ LatePost \/ HandleReply
  BY <1>5, PrepareKeeps, PostKeeps, PostFailsKeeps, LatePostKeeps, HandleReplyKeeps
<1>6. CASE FinishEvent \/ CheckAccount
  BY <1>6, FinishEventKeeps, CheckAccountKeeps
<1>7. CASE CheckFails \/ Crash
  BY <1>7, StopKeeps
<1> QED
  BY <1>1, <1>2, <1>3, <1>4, <1>5, <1>6, <1>7 DEF Next, Progress

LEMMA Invariance == Spec => []IInv
BY InitIInv, StepIInv, PTL DEF Spec

\* Balance mode's state is well-typed for any accounts, users, amounts and faults.
THEOREM TypeCorrect == Spec => []TypeOK
<1>1. IInv => TypeOK
  BY DEF IInv
<1> QED
  BY <1>1, Invariance, PTL

\* process_balance_event never completes an event of which a target is still to be set.
THEOREM CompleteIsSettled == Spec => []CompleteMeansSettled
<1>1. IInv => CompleteMeansSettled
  BY DEF IInv
<1> QED
  BY <1>1, Invariance, PTL

\* The statuses of the targets are true of what the host did, whatever was lost or late.
THEOREM StatusTrue == Spec => []StatusIsTrue
<1>1. IInv => StatusIsTrue
  BY DEF IInv
<1> QED
  BY <1>1, Invariance, PTL

\* Whatever administrators edit, a balance is only set to a quota of its user.
THEOREM QuotasOnly == Spec => []OnlyQuotasAreSet
<1>1. IInv => OnlyQuotasAreSet
  BY DEF IInv
<1> QED
  BY <1>1, Invariance, PTL

\* Without faults a user is set once per event, in any number of passes and runs.
THEOREM SetOnce == Spec => []SetOnceIfAnswered
<1>1. IInv => SetOnceIfAnswered
  BY DEF IInv, OpenIsUnset, SetOnceIfAnswered
<1> QED
  BY <1>1, Invariance, PTL

\* A row moves past the baseline only together with an event for the new cycle.
THEOREM NoCycleSlips == Spec => RowMovesWithEvent
<1>1. ASSUME IInv, Next, NEW a \in Accounts, rows[a] # 0, rows'[a] # rows[a]
      PROVE  \E e \in DOMAIN events' : events'[e].account = a /\ events'[e].cycle = rows'[a]
  <2>1. CheckAccount
    BY <1>1 DEF Next, World, Progress, Start, ReadQuotas, ReadFails, Prepare, Post, PostFails, LatePost,
      HandleReply, FinishEvent, CheckFails, Crash
  <2>2. PICK b : b = AccountIds[run.next]
    OBVIOUS
  <2>3. rows \in [Accounts -> Nat]
    BY <1>1 DEF IInv, TypeOK
  <2>4. b = a /\ CreateEvent(a) /\ users' = users
    BY <1>1, <2>1, <2>2, <2>3 DEF CheckAccount, CreateEvent, world
  <2>5. rows'[a] = account[a]
    BY <2>3, <2>4 DEF CreateEvent
  <2>6. PICK n, ev : /\ DOMAIN events' = DOMAIN events \union {n} /\ events'[n] = ev
                     /\ ev.account = a /\ ev.cycle = account[a]
    <3>1. PICK n \in Nat, ev \in EventRecords : Added(a, n, ev)
      BY <1>1, <2>4, CreateEventEffect
    <3> QED
      BY <3>1 DEF Added
  <2> QED
    BY <2>5, <2>6
<1>2. IInv /\ [Next]_vars =>
        [\A a \in Accounts :
           rows[a] # 0 /\ rows'[a] # rows[a]
             => \E e \in DOMAIN events' : events'[e].account = a /\ events'[e].cycle = rows'[a]]_vars
  BY <1>1
<1> QED
  BY <1>2, Invariance, PTL DEF Spec, RowMovesWithEvent
=============================================================================
