-------------------------- MODULE ResetCardProofs --------------------------
(***************************************************************************)
(* What the schedule promises for any number of settings pages, reservations, *)
(* saves and faults.  No second card is used because the journal is written  *)
(* before the card is touched: whoever may still use one for a reservation, a *)
(* run or a late request, finds it claimed, is alone, and no card was used.  *)
(* Results are true because a copy of the configuration, however old, only   *)
(* shows a final result that is also in the journal, which never changes it. *)
(***************************************************************************)
EXTENDS ResetCard, TLAPS

Final == {"success", "skipped", "dry_run"}

\* This run has claimed the reservation and has not used its card yet, or never will.
Claiming == run.at \in {"get", "put", "wait", "decide", "post"} /\ run.closing

\* A card is only used for what is in the journal, and by one request.
UseOnce ==
  \A t \in Tasks :
    /\ used[t] <= 1
    /\ used[t] = 1 \/ t \in latePosts => jobs[t] \notin {"none", "skipped", "dry_run"}
    /\ used[t] = 1 => t \notin latePosts
    /\ jobs[t] = "success" => used[t] = 1

\* What the run believes agrees with the journal and the host.
RunIsTrue ==
  /\ run.at = "check" => jobs[run.task] = "none" /\ ~run.closing
  /\ run.at \in {"decide", "post"} => run.closing
  /\ Claiming => /\ jobs[run.task] = "claimed" /\ run.result = "unknown"
                 /\ used[run.task] = 0 /\ run.task \notin latePosts
  /\ run.at = "update" =>
       /\ jobs[run.task] = "claimed"
       /\ run.result = "success" => used[run.task] = 1
       /\ run.result \in {"skipped", "dry_run"} => used[run.task] = 0 /\ run.task \notin latePosts
  /\ run.at \in {"get", "put", "wait"} /\ ~run.closing =>
       jobs[run.task] # "none" /\ run.result = Result(jobs[run.task])

\* A result in a copy of the configuration is one from the journal.
Truthful(c) ==
  c.result # "none" =>
    /\ c.task \in Tasks /\ jobs[c.task] # "none"
    /\ c.result \in Final => jobs[c.task] = c.result

Copies == {host, file} \union applying \union latePuts \union {pages[p] : p \in Pages}

CopiesAreTrue ==
  /\ \A c \in Copies : Truthful(c)
  /\ run.at = "put" => run.copy.result = run.result /\ run.copy.task = run.task /\ ~run.copy.on

\* Until its switch is closed a claimed reservation has no result anywhere, so that
\* update_result can not take it for closed; from then on it is off.
ClosedFirst ==
  /\ run.at \in {"get", "put"} /\ run.closing => \A c \in Copies : c.task = run.task => c.result = "none"
  /\ run.at = "check" \/ Claiming => phase[run.task] # "early"
  /\ run.at = "wait" => applying = {host} /\ host.task = run.task /\ ~host.on
  /\ run.at \in {"decide", "post"} =>
       \A c \in {host, file} \union applying : c.task = run.task => ~c.on

\* As long as no save fell in between, what is about to be written back is what the
\* user saved last.
WritesFollowSaves ==
  /\ EditsSurvive
  /\ ~raced => /\ \A c \in latePuts : c.task = saved.task /\ c.dry = saved.dry
               /\ run.at = "put" => run.copy.task = saved.task /\ run.copy.dry = saved.dry

IInv == TypeOK /\ UseOnce /\ RunIsTrue /\ CopiesAreTrue /\ ClosedFirst /\ WritesFollowSaves

-----------------------------------------------------------------------------
(* The values the schedule works with *)

LEMMA NothingIsReserved == NoConfig \in Configs /\ NoConfig.task \notin Tasks
BY ResetCardAssumption DEF NoConfig, Configs, Tasks

\* Between runs there is no record to look into.
LEMMA Busy ==
  ASSUME TypeOK, run.at # "idle"
  PROVE  run \in Runs /\ run # Idle
BY DEF TypeOK, Idle

LEMMA IdleRun == Idle.at = "idle" /\ \A r \in Runs : r.at # "idle" /\ r # Idle
BY DEF Idle, Runs

\* What a run does when a call returns or fails keeps its type.
LEMMA ReturnedRun ==
  ASSUME NEW r \in Runs, NEW same \in BOOLEAN
  PROVE  /\ Returned(r, same) \in Runs \union {Idle}
         /\ ~r.closing => Returned(r, same) = Idle
         /\ r.closing /\ same => Returned(r, same) = [r EXCEPT !.at = "decide"]
         /\ r.closing /\ ~same => Returned(r, same) = [r EXCEPT !.at = "update", !.result = "skipped"]
BY DEF Returned, Runs, Outcomes

LEMMA RaisedRun ==
  ASSUME NEW r \in Runs
  PROVE  /\ Raised(r) \in Runs \union {Idle}
         /\ ~r.closing => Raised(r) = Idle
         /\ r.closing => Raised(r) = [r EXCEPT !.at = "update", !.result = "unknown"]
BY DEF Raised, Runs, Outcomes

\* All copies of the configuration are configurations.
LEMMA CopiesAreConfigs ==
  ASSUME TypeOK
  PROVE  Copies \subseteq Configs
BY DEF TypeOK, Copies

\* What the host stores becomes a copy, and the only one on its way.
LEMMA StoredCopies ==
  ASSUME NEW new, HostStores(new), pages' = pages, latePuts' \subseteq latePuts
  PROVE  Copies' \subseteq Copies \union {new}
BY DEF HostStores, Copies

-----------------------------------------------------------------------------
(* Invariant parts that only depend on what they are about *)

LEMMA UseFrame ==
  ASSUME UseOnce, UNCHANGED <<jobs, used, latePosts>>
  PROVE  UseOnce'
BY DEF UseOnce

LEMMA RunFrame ==
  ASSUME RunIsTrue, UNCHANGED <<run, jobs, used, latePosts>>
  PROVE  RunIsTrue'
BY DEF RunIsTrue, Claiming

LEMMA CopiesFrame ==
  ASSUME CopiesAreTrue, jobs' = jobs, Copies' \subseteq Copies, run' = run \/ run'.at # "put"
  PROVE  CopiesAreTrue'
<1>1. \A c \in Copies' : Truthful(c)'
  BY DEF CopiesAreTrue, Truthful
<1> QED
  BY <1>1 DEF CopiesAreTrue

LEMMA ClosedFrame ==
  ASSUME ClosedFirst, UNCHANGED <<config, run>>, Copies' \subseteq Copies,
         \A t : phase'[t] = "early" => phase[t] = "early"
  PROVE  ClosedFirst'
<1>1. host' = host /\ file' = file /\ applying' = applying /\ run' = run /\ Claiming' = Claiming
  BY DEF config, Claiming
<1> QED
  BY <1>1 DEF ClosedFirst

LEMMA SavesFrame ==
  ASSUME WritesFollowSaves, UNCHANGED <<host, saved, raced>>, latePuts' \subseteq latePuts,
         run' = run \/ run'.at # "put"
  PROVE  WritesFollowSaves'
BY DEF WritesFollowSaves, EditsSurvive

-----------------------------------------------------------------------------
(* The user and the host *)

LEMMA ElapseKeeps ==
  ASSUME IInv, NEW t \in Tasks, Elapse(t)
  PROVE  IInv'
<1>1. \A s : phase'[s] = "early" => phase[s] = "early"
  BY DEF Elapse, IInv, TypeOK
<1>2. TypeOK'
  BY DEF Elapse, IInv, TypeOK, config, late
<1>3. Copies' = Copies
  BY DEF Elapse, Copies, config, late
<1> QED
  BY <1>1, <1>2, <1>3, UseFrame, RunFrame, CopiesFrame, ClosedFrame, SavesFrame
  DEF IInv, Elapse, config, late

LEMMA LoadKeeps ==
  ASSUME IInv, NEW p \in Pages, Load(p)
  PROVE  IInv'
<1>1. TypeOK'
  BY DEF Load, IInv, TypeOK, config, late
<1>2. Copies' \subseteq Copies
  BY DEF Load, IInv, TypeOK, Copies, config, late
<1> QED
  BY <1>1, <1>2, UseFrame, RunFrame, CopiesFrame, ClosedFrame, SavesFrame
  DEF IInv, Load, config, late

\* When the host stores what a page or a late write brings, a truthful copy that
\* brings no result to the reservation being closed, no reservation is revived.
LEMMA StoringKeeps ==
  ASSUME IInv, NEW new \in Configs, HostStores(new), Truthful(new),
         new.result # "none" => \E c \in Copies : c.task = new.task /\ c.result = new.result,
         Copies' \subseteq Copies \union {new}, UNCHANGED <<phase, run, jobs>>
  PROVE  CopiesAreTrue' /\ ClosedFirst'
<1>1. applying = {} /\ applying' = {new} /\ host' = new /\ file' = file /\ Valid(new, file)
  BY DEF HostStores
<1>2. CopiesAreTrue'
  <2>1. \A c \in Copies' : Truthful(c)
    BY DEF IInv, CopiesAreTrue
  <2>2. \A c \in Copies' : Truthful(c)'
    BY <2>1 DEF Truthful
  <2> QED
    BY <2>2 DEF IInv, CopiesAreTrue
<1>3. run.at # "wait"
  BY <1>1 DEF IInv, ClosedFirst
<1>4. Claiming' = Claiming
  BY DEF Claiming
<1>5. ASSUME run.at \in {"get", "put"}, run.closing
      PROVE  \A c \in Copies' : c.task = run.task => c.result = "none"
  BY <1>5 DEF IInv, ClosedFirst
<1>6. ASSUME run.at \in {"decide", "post"}
      PROVE  \A c \in {host, file}' \union applying' : c.task = run.task => ~c.on
  <2>1. phase[run.task] # "early"
    BY <1>6 DEF IInv, ClosedFirst, RunIsTrue, Claiming
  <2>2. file.task = run.task => ~file.on
    BY <1>6 DEF IInv, ClosedFirst
  <2> QED
    BY <1>1, <2>1, <2>2 DEF Valid
<1>7. ClosedFirst'
  BY <1>3, <1>4, <1>5, <1>6 DEF IInv, ClosedFirst
<1> QED
  BY <1>2, <1>7

LEMMA SaveKeeps ==
  ASSUME IInv, NEW p \in Pages, Save(p)
  PROVE  IInv'
<1> DEFINE New(dry, on, task) ==
             IF task = pages[p].task
             THEN [pages[p] EXCEPT !.on = on, !.dry = dry]
             ELSE [task |-> task, on |-> TRUE, result |-> "none", dry |-> dry]
           Saves(new, on, task) ==
             /\ task = pages[p].task => (on => pages[p].on)
             /\ made' = IF task = made + 1 THEN task ELSE made
             /\ HostStores(new)
             /\ pages' = [pages EXCEPT ![p] = new] \/ UNCHANGED pages
             /\ saved' = [task |-> new.task, dry |-> new.dry]
<1>a. PICK dry \in BOOLEAN, on \in BOOLEAN, task \in {pages[p].task, made + 1} \ {MaxTasks + 1} :
        Saves(New(dry, on, task), on, task)
  BY DEF Save
<1>b. PICK new : new = New(dry, on, task)
  OBVIOUS
<1>1. new = New(dry, on, task) /\ Saves(new, on, task)
  BY <1>a, <1>b
<1>2. /\ saves < MaxSaves /\ saves' = saves + 1
      /\ raced' = (raced \/ run.at = "put" \/ latePuts # {})
      /\ UNCHANGED <<phase, jobs, run, late, faults, used>>
  BY DEF Save
<1>3. pages[p] \in Configs /\ pages[p] \in Copies
  BY DEF IInv, TypeOK, Copies
<1>4. made \in 0..MaxTasks /\ saves \in 0..MaxSaves /\ MaxTasks \in Nat /\ MaxSaves \in Nat
  BY ResetCardAssumption DEF IInv, TypeOK
<1>5. task \in 0..MaxTasks
  BY <1>3, <1>4 DEF Configs
<1>6. new \in Configs /\ (new.result # "none" => new.task = pages[p].task /\ new.result = pages[p].result)
  BY <1>1, <1>3, <1>5 DEF Configs, Outcomes
<1>7. Truthful(new)
  <2>1. Truthful(pages[p])
    BY <1>3 DEF IInv, CopiesAreTrue
  <2> QED
    BY <2>1, <1>6 DEF Truthful
<1>8. Copies' \subseteq Copies \union {new}
  BY <1>1, <1>2 DEF HostStores, Copies, IInv, TypeOK, late
<1>9. CopiesAreTrue' /\ ClosedFirst'
  BY <1>1, <1>2, <1>3, <1>6, <1>7, <1>8, StoringKeeps
<1>10. made' \in 0..MaxTasks /\ saves' \in 0..MaxSaves
  BY <1>1, <1>2, <1>4, <1>5
<1>11. /\ host' \in Configs /\ file' \in Configs /\ applying' = {new}
       /\ saved' \in [task : 0..MaxTasks, dry : BOOLEAN] /\ raced' \in BOOLEAN
  BY <1>1, <1>2, <1>6 DEF HostStores, Configs, IInv, TypeOK
<1>12. pages' \in [Pages -> Configs]
  BY <1>1, <1>6 DEF IInv, TypeOK
<1>13. TypeOK'
  BY <1>2, <1>6, <1>10, <1>11, <1>12 DEF IInv, TypeOK, late
<1>14. WritesFollowSaves'
  <2>1. host' = new /\ saved' = [task |-> new.task, dry |-> new.dry]
    BY <1>1 DEF HostStores
  <2>2. saved'.task = new.task /\ saved'.dry = new.dry
    BY <2>1
  <2>3. EditsSurvive'
    BY <2>1, <2>2 DEF EditsSurvive
  <2>4. run' = run /\ latePuts' = latePuts /\ (raced' <=> (raced \/ run.at = "put" \/ latePuts # {}))
    BY <1>2 DEF late
  <2> QED
    BY <2>3, <2>4 DEF WritesFollowSaves
<1> QED
  BY <1>2, <1>9, <1>13, <1>14, UseFrame, RunFrame DEF IInv, late

LEMMA LatePutKeeps ==
  ASSUME IInv, LatePut
  PROVE  IInv'
<1>1. PICK c \in latePuts :
        /\ HostStores(c) /\ latePuts' = latePuts \ {c}
        /\ UNCHANGED <<user, jobs, run, latePosts, faults, used>>
  BY DEF LatePut
<1>2. c \in Configs /\ c \in Copies /\ Truthful(c)
  BY DEF IInv, TypeOK, CopiesAreTrue, Copies
<1>3. Copies' \subseteq Copies \union {c}
  BY <1>1, StoredCopies DEF user
<1>4. CopiesAreTrue' /\ ClosedFirst'
  BY <1>1, <1>2, <1>3, StoringKeeps DEF user
<1>5. TypeOK'
  BY <1>1, <1>2 DEF IInv, TypeOK, HostStores, user
<1>6. WritesFollowSaves'
  BY <1>1 DEF IInv, WritesFollowSaves, EditsSurvive, HostStores, user
<1> QED
  BY <1>1, <1>4, <1>5, <1>6, UseFrame, RunFrame DEF IInv

-----------------------------------------------------------------------------
(* The executor *)

\* A step of the executor that leaves the configurations alone disturbs what the
\* invariant says of them only through where it goes.
LEMMA StepFrame ==
  ASSUME IInv, UNCHANGED <<config, user, latePuts>>, run'.at \notin {"put", "wait"},
         \A t \in Tasks : jobs'[t] = jobs[t] \/ (jobs[t] \in {"none", "claimed"} /\ jobs'[t] # "none")
  PROVE  CopiesAreTrue' /\ WritesFollowSaves' /\ Copies' = Copies
<1>1. Copies' = Copies
  BY DEF Copies, config, user
<1>2. ASSUME NEW c \in Copies PROVE Truthful(c)'
  BY <1>2 DEF IInv, CopiesAreTrue, Truthful, Final
<1>3. CopiesAreTrue'
  BY <1>1, <1>2 DEF CopiesAreTrue
<1>4. WritesFollowSaves'
  BY SavesFrame DEF IInv, config, user
<1> QED
  BY <1>1, <1>3, <1>4

\* Nothing is claimed between runs.
LEMMA AtRest ==
  ASSUME IInv, run' = Idle, UNCHANGED <<config, user, jobs, latePuts, used, latePosts>>
  PROVE  RunIsTrue' /\ CopiesAreTrue' /\ ClosedFirst' /\ WritesFollowSaves' /\ UseOnce'
<1>1. run'.at = "idle"
  BY IdleRun
<1> QED
  BY <1>1, StepFrame, UseFrame DEF IInv, RunIsTrue, ClosedFirst, Claiming

LEMMA StartKeeps ==
  ASSUME IInv, Start
  PROVE  IInv'
<1>1. PICK t : t = file.task
  OBVIOUS
<1>2. PICK r : r = [at |-> "check", task |-> t, past |-> phase[t] = "past", dry |-> TRUE,
                    closing |-> FALSE, result |-> "none", copy |-> NoConfig]
  OBVIOUS
<1>3. /\ t # 0 /\ (file.on => phase[t] # "early")
      /\ \/ jobs[t] = "none" /\ file.on /\ run' = r
         \/ jobs[t] # "none" /\ run' = [r EXCEPT !.at = "get", !.result = Result(jobs[t])]
      /\ UNCHANGED <<config, user, jobs, late, faults, used>>
  BY <1>1, <1>2 DEF Start
<1>4. t \in Tasks
  BY <1>1, <1>3, ResetCardAssumption DEF IInv, TypeOK, Configs, Tasks
<1>5. r \in Runs
  BY <1>2, <1>4, NothingIsReserved DEF Runs
<1>6. jobs[t] # "none" => Result(jobs[t]) \in Outcomes
  BY <1>4 DEF IInv, TypeOK, Result, Outcomes
<1>7. run' \in Runs /\ run'.task = t /\ ~run'.closing /\ run'.at \in {"check", "get"}
      /\ (run'.at = "check" => jobs[t] = "none" /\ file.on)
      /\ (run'.at = "get" => jobs[t] # "none" /\ run'.result = Result(jobs[t]) /\ run'.result # "none")
  <2>1. r.at = "check" /\ r.task = t /\ ~r.closing
    BY <1>2
  <2>2. PICK q : q = Result(jobs[t])
    OBVIOUS
  <2>3. ASSUME q \in Outcomes, run' = [r EXCEPT !.at = "get", !.result = q]
        PROVE  /\ run' \in Runs /\ run'.task = t /\ ~run'.closing
               /\ run'.at = "get" /\ run'.result = q /\ q # "none"
    BY <1>5, <2>1, <2>3 DEF Runs, Outcomes
  <2> QED
    BY <1>3, <1>5, <1>6, <2>1, <2>2, <2>3
<1>8. TypeOK'
  BY <1>3, <1>7 DEF IInv, TypeOK, config, user, late
<1>9. RunIsTrue'
  BY <1>3, <1>7 DEF RunIsTrue, Claiming
<1>10. CopiesAreTrue' /\ WritesFollowSaves'
  BY <1>3, <1>7, StepFrame DEF late
<1>11. ClosedFirst'
  BY <1>3, <1>7 DEF ClosedFirst, Claiming, user
<1> QED
  BY <1>3, <1>8, <1>9, <1>10, <1>11, UseFrame DEF IInv, late

LEMMA CheckKeeps ==
  ASSUME IInv, Check
  PROVE  IInv'
<1>1. run \in Runs /\ run.at = "check" /\ run.task \in Tasks /\ jobs[run.task] = "none" /\ phase[run.task] # "early"
  BY Busy DEF Check, IInv, Runs, RunIsTrue, ClosedFirst
<1>2. UNCHANGED <<config, user, late, faults, used>>
  BY DEF Check
<1>3. CASE run' = Idle /\ jobs' = jobs
  <2>1. TypeOK'
    BY <1>2, <1>3, IdleRun DEF IInv, TypeOK, config, user, late
  <2> QED
    BY <1>2, <1>3, <2>1, AtRest DEF IInv, late
<1>4. CASE /\ jobs' = [jobs EXCEPT ![run.task] = "claimed"]
           /\ run' = [run EXCEPT !.at = "get", !.closing = TRUE, !.result = "unknown", !.dry = host.dry]
  <2>1. host.dry \in BOOLEAN
    BY DEF IInv, TypeOK, Configs
  <2>2. run' \in Runs /\ run'.task = run.task /\ run'.at = "get" /\ run'.closing /\ run'.result = "unknown"
    BY <1>1, <1>4, <2>1 DEF Runs, Outcomes
  <2>3. jobs' \in [Tasks -> Outcomes \union {"none", "claimed"}] /\ jobs'[run.task] = "claimed"
        /\ \A t \in Tasks : t # run.task => jobs'[t] = jobs[t]
    BY <1>1, <1>4 DEF IInv, TypeOK
  <2>4. TypeOK'
    BY <1>2, <2>2, <2>3 DEF IInv, TypeOK, config, user, late
  <2>5. used[run.task] = 0 /\ run.task \notin latePosts
    BY <1>1 DEF IInv, UseOnce, TypeOK
  <2>6. UseOnce'
    BY <1>1, <1>2, <2>3, <2>5 DEF IInv, UseOnce, late
  <2>7. RunIsTrue'
    BY <1>2, <2>2, <2>3, <2>5 DEF RunIsTrue, Claiming, late
  <2>8. CopiesAreTrue' /\ WritesFollowSaves' /\ Copies' = Copies
    BY <1>1, <1>2, <2>2, <2>3, StepFrame DEF late
  <2>9. \A c \in Copies : c.task = run.task => c.result = "none"
    BY <1>1 DEF IInv, CopiesAreTrue, Truthful
  <2>10. ClosedFirst'
    BY <1>1, <1>2, <2>2, <2>8, <2>9 DEF ClosedFirst, Claiming, user
  <2> QED
    BY <2>4, <2>6, <2>7, <2>8, <2>10 DEF IInv
<1> QED
  BY <1>3, <1>4 DEF Check

\* A claimed reservation goes on to its outcome without a card.
LEMMA ToUpdate ==
  ASSUME IInv, run \in Runs, Claiming, run.task \in Tasks,
         NEW status \in {"unknown", "skipped", "dry_run"},
         run' = [run EXCEPT !.at = "update", !.result = status, !.copy = run'.copy], run'.copy \in Configs,
         UNCHANGED <<jobs, used, latePosts>>
  PROVE  run' \in Runs /\ run'.at = "update" /\ run'.result = status /\ RunIsTrue' /\ UseOnce'
<1>1. run' \in Runs /\ run'.at = "update" /\ run'.result = status /\ run'.task = run.task
  BY DEF Runs, Outcomes
<1>2. RunIsTrue'
  BY <1>1 DEF IInv, RunIsTrue, Claiming
<1> QED
  BY <1>1, <1>2, UseFrame DEF IInv

LEMMA GetKeeps ==
  ASSUME IInv, Get
  PROVE  IInv'
<1>1. run \in Runs /\ run.task \in Tasks /\ run.at = "get" /\ run.result \in Outcomes /\ run.copy \in Configs
  BY Busy DEF Get, IInv, TypeOK, Runs, Outcomes
<1>2. UNCHANGED <<config, user, jobs, late, faults, used>>
  BY DEF Get
<1>3. CASE run' = [run EXCEPT !.at = "put", !.copy = [host EXCEPT !.on = FALSE, !.result = run.result]]
           /\ host.task = run.task
  <2>1. PICK c : c = [host EXCEPT !.on = FALSE, !.result = run.result]
    OBVIOUS
  <2>2. c \in Configs /\ ~c.on /\ c.result = run.result /\ c.task = run.task /\ c.dry = host.dry
    BY <1>1, <1>3, <2>1 DEF IInv, TypeOK, Configs, Outcomes
  <2>3. /\ run' \in Runs /\ run'.at = "put" /\ run'.copy = c /\ run'.task = run.task
        /\ run'.result = run.result /\ run'.closing = run.closing
    BY <1>1, <1>3, <2>1, <2>2 DEF Runs
  <2>4. TypeOK'
    BY <1>1, <1>2, <2>3 DEF IInv, TypeOK, config, user, late, Outcomes
  <2>5. RunIsTrue'
    BY <1>1, <1>2, <2>3 DEF IInv, RunIsTrue, Claiming, late
  <2>6. Copies' = Copies /\ \A k \in Copies : Truthful(k)'
    BY <1>2 DEF Copies, config, user, late, IInv, CopiesAreTrue, Truthful
  <2>7. CopiesAreTrue'
    BY <2>2, <2>3, <2>6 DEF CopiesAreTrue
  <2>8. ClosedFirst'
    BY <1>1, <1>2, <2>3, <2>6 DEF IInv, ClosedFirst, Claiming, user
  <2>9. WritesFollowSaves'
    <3>1. host' = host /\ saved' = saved /\ (raced' <=> raced) /\ latePuts' = latePuts
      BY <1>2 DEF config, user, late
    <3>2. raced \/ (host.task = saved.task /\ host.dry = saved.dry)
      BY DEF IInv, WritesFollowSaves, EditsSurvive
    <3>3. ~raced => c.task = saved.task /\ c.dry = saved.dry
      BY <1>3, <2>2, <3>2
    <3> QED
      BY <2>3, <3>1, <3>2, <3>3 DEF IInv, WritesFollowSaves, EditsSurvive
  <2> QED
    BY <1>2, <2>4, <2>5, <2>7, <2>8, <2>9, UseFrame DEF IInv, late
<1>4. CASE run' = Returned(run, FALSE)
  <2>1. CASE ~run.closing
    <3>1. run' = Idle
      BY <1>1, <1>4, <2>1, ReturnedRun
    <3>2. TypeOK'
      BY <1>2, <3>1, IdleRun DEF IInv, TypeOK, config, user, late
    <3> QED
      BY <1>2, <3>1, <3>2, AtRest DEF IInv, late
  <2>2. CASE run.closing
    <3>1. Claiming
      BY <1>1, <2>2 DEF Claiming
    <3>2. run' = [run EXCEPT !.at = "update", !.result = "skipped"]
      BY <1>1, <1>4, <2>2, ReturnedRun
    <3>3. run'.copy = run.copy /\ run' = [run EXCEPT !.at = "update", !.result = "skipped", !.copy = run'.copy]
      BY <1>1, <3>2 DEF Runs
    <3>4. run' \in Runs /\ run'.at = "update" /\ run'.result = "skipped" /\ RunIsTrue' /\ UseOnce'
      BY <1>1, <1>2, <3>1, <3>3, ToUpdate DEF late
    <3>5. TypeOK'
      BY <1>2, <3>4 DEF IInv, TypeOK, config, user, late
    <3>6. CopiesAreTrue' /\ WritesFollowSaves'
      BY <1>2, <3>4, StepFrame DEF late
    <3>7. ClosedFirst'
      BY <3>4 DEF ClosedFirst, Claiming
    <3> QED
      BY <3>4, <3>5, <3>6, <3>7 DEF IInv
  <2> QED
    BY <2>1, <2>2
<1>5. CASE run' = Returned(run, TRUE) /\ host.task = run.task /\ host.result = run.result
  <2>1. ~run.closing
    BY <1>1, <1>5 DEF IInv, ClosedFirst, Copies, Outcomes
  <2>2. run' = Idle
    BY <1>1, <1>5, <2>1, ReturnedRun
  <2>3. TypeOK'
    BY <1>2, <2>2, IdleRun DEF IInv, TypeOK, config, user, late
  <2> QED
    BY <1>2, <2>2, <2>3, AtRest DEF IInv, late
<1> QED
  BY <1>3, <1>4, <1>5 DEF Get

LEMMA PutKeeps ==
  ASSUME IInv, Put
  PROVE  IInv'
<1>1. PICK c : c = run.copy
  OBVIOUS
<1>2. /\ run \in Runs /\ run.task \in Tasks /\ run.at = "put" /\ c \in Configs
      /\ c.result = run.result /\ c.task = run.task /\ ~c.on
  BY <1>1, Busy DEF Put, IInv, Runs, CopiesAreTrue
<1>3. /\ applying = {} /\ applying' = {c} /\ host' = c /\ file' = file
      /\ UNCHANGED <<user, jobs, late, faults, used>>
  BY <1>1 DEF Put, HostStores
<1>4. /\ run' \in Runs /\ run'.at = "wait" /\ run'.task = run.task /\ run'.closing = run.closing
      /\ run'.result = run.result
  BY <1>2, NothingIsReserved DEF Put, Runs
<1>5. TypeOK'
  BY <1>2, <1>3, <1>4 DEF IInv, TypeOK, user, late
<1>6. RunIsTrue'
  BY <1>2, <1>3, <1>4 DEF IInv, RunIsTrue, Claiming, late
<1>7. CopiesAreTrue'
  <2>1. jobs[run.task] \in Outcomes \union {"none", "claimed"}
    BY <1>2 DEF IInv, TypeOK
  <2>2. Truthful(c)
    BY <1>2, <2>1 DEF IInv, RunIsTrue, Claiming, Truthful, Final, Result
  <2>3. Copies' \subseteq Copies \union {c}
    BY <1>3 DEF Copies, user, late
  <2>4. \A k \in Copies' : Truthful(k)'
    BY <1>3, <2>2, <2>3 DEF IInv, CopiesAreTrue, Truthful
  <2> QED
    BY <1>4, <2>4 DEF CopiesAreTrue
<1>8. ClosedFirst'
  BY <1>2, <1>3, <1>4 DEF IInv, ClosedFirst, Claiming, user
<1>9. WritesFollowSaves'
  BY <1>1, <1>2, <1>3, <1>4 DEF IInv, WritesFollowSaves, EditsSurvive, user, late
<1> QED
  BY <1>3, <1>5, <1>6, <1>7, <1>8, <1>9, UseFrame DEF IInv, late

\* The store of a configuration has gone well or failed; the run, if it waits for
\* it, goes on or gives up.
LEMMA ApplyKeeps ==
  ASSUME IInv, Apply
  PROVE  IInv'
<1>1. PICK new \in applying :
        /\ file' = new /\ applying' = {}
        /\ run' = IF run.at = "wait" THEN Returned(run, TRUE) ELSE run
        /\ UNCHANGED <<host, user, jobs, late, faults, used>>
  BY DEF Apply
<1>2. new \in Configs
  BY DEF IInv, TypeOK
<1>3. Copies' \subseteq Copies
  BY <1>1 DEF Copies, user, late
<1>4. CASE run.at # "wait"
  <2>1. run' = run /\ run'.at # "wait"
    BY <1>1, <1>4
  <2>2. TypeOK'
    BY <1>1, <1>2, <2>1 DEF IInv, TypeOK, user, late
  <2>3. ClosedFirst'
    BY <1>1, <1>3, <2>1 DEF IInv, ClosedFirst, Claiming, user
  <2> QED
    BY <1>1, <1>3, <2>1, <2>2, <2>3, UseFrame, RunFrame, CopiesFrame, SavesFrame DEF IInv, user, late
<1>5. CASE run.at = "wait"
  <2>1. run \in Runs /\ run.task \in Tasks
    BY <1>5, Busy DEF IInv, Runs
  <2>2. new = host /\ host.task = run.task /\ ~host.on
    BY <1>5 DEF IInv, ClosedFirst
  <2>3. CASE ~run.closing
    <3>1. run' = Idle /\ run'.at = "idle"
      BY <1>1, <1>5, <2>1, <2>3, ReturnedRun, IdleRun
    <3>2. TypeOK'
      BY <1>1, <1>2, <3>1 DEF IInv, TypeOK, user, late
    <3>3. RunIsTrue' /\ ClosedFirst'
      BY <3>1 DEF RunIsTrue, ClosedFirst, Claiming
    <3> QED
      BY <1>1, <1>3, <3>1, <3>2, <3>3, UseFrame, CopiesFrame, SavesFrame DEF IInv, user, late
  <2>4. CASE run.closing
    <3>1. run' = [run EXCEPT !.at = "decide"]
      BY <1>1, <1>5, <2>1, <2>4, ReturnedRun
    <3>2. /\ run' \in Runs /\ run'.at = "decide" /\ run'.task = run.task /\ run'.closing
          /\ run'.result = run.result
      BY <2>1, <2>4, <3>1 DEF Runs
    <3>3. TypeOK'
      BY <1>1, <1>2, <3>2 DEF IInv, TypeOK, user, late
    <3>4. RunIsTrue'
      BY <1>1, <1>5, <2>4, <3>2 DEF IInv, RunIsTrue, Claiming, late
    <3>5. phase[run.task] # "early" /\ phase' = phase
      BY <1>1, <1>5, <2>4 DEF IInv, ClosedFirst, Claiming, user
    <3>6. ClosedFirst'
      <4>1. host' = host /\ file' = host /\ applying' = {}
        BY <1>1, <2>2
      <4>2. \A c \in {host', file'} \union applying' : c.task = run'.task => ~c.on
        BY <2>2, <3>2, <4>1
      <4> QED
        BY <3>2, <3>5, <4>2 DEF ClosedFirst, Claiming
    <3> QED
      BY <1>1, <1>3, <3>2, <3>3, <3>4, <3>6, UseFrame, CopiesFrame, SavesFrame DEF IInv, user, late
  <2> QED
    BY <2>3, <2>4
<1> QED
  BY <1>4, <1>5

\* A call of a run that has failed: what is left of the invariant to look at when the
\* run gives up.
LEMMA RaisedKeeps ==
  ASSUME IInv, run.at \in {"check", "get", "put", "wait"},
         NEW r, r = run \/ r = [run EXCEPT !.copy = NoConfig], run' = Raised(r),
         UNCHANGED <<jobs, used, latePosts>>
  PROVE  /\ run' \in Runs \union {Idle} /\ run'.at \in {"idle", "update"}
         /\ run'.at = "update" => run'.result # "none"
         /\ RunIsTrue' /\ ClosedFirst' /\ UseOnce'
<1>1. run \in Runs /\ run.task \in Tasks /\ run.copy \in Configs
  BY Busy DEF IInv, Runs
<1>2. r \in Runs /\ r.closing = run.closing /\ r.copy \in Configs /\ r = [run EXCEPT !.copy = r.copy]
  BY <1>1, NothingIsReserved DEF Runs
<1>3. CASE ~run.closing
  <2>1. run' = Idle /\ run'.at = "idle"
    BY <1>2, <1>3, RaisedRun, IdleRun
  <2> QED
    BY <2>1, UseFrame DEF IInv, RunIsTrue, ClosedFirst, Claiming
<1>4. CASE run.closing
  <2>1. run.at # "check"
    BY <1>4 DEF IInv, RunIsTrue
  <2>2. Claiming
    BY <1>4, <2>1 DEF Claiming
  <2>3. run' = [r EXCEPT !.at = "update", !.result = "unknown"]
    BY <1>2, <1>4, RaisedRun
  <2>4. run'.copy = r.copy /\ run' = [run EXCEPT !.at = "update", !.result = "unknown", !.copy = run'.copy]
    BY <1>1, <1>2, <2>3 DEF Runs
  <2>5. run' \in Runs /\ run'.at = "update" /\ run'.result = "unknown" /\ RunIsTrue' /\ UseOnce'
    BY <1>1, <1>2, <2>2, <2>4, ToUpdate
  <2> QED
    BY <2>5 DEF ClosedFirst, Claiming
<1> QED
  BY <1>3, <1>4

LEMMA ApplyFailsKeeps ==
  ASSUME IInv, ApplyFails
  PROVE  IInv'
<1>1. /\ applying' = {} /\ faults' = faults + 1 /\ faults < MaxFaults
      /\ run' = IF run.at = "wait" THEN Raised(run) ELSE run
      /\ UNCHANGED <<host, file, user, jobs, late, used>>
  BY DEF ApplyFails, Faulty
<1>2. faults' \in 0..MaxFaults
  BY <1>1, ResetCardAssumption DEF IInv, TypeOK
<1>3. Copies' \subseteq Copies
  BY <1>1 DEF Copies, user, late
<1>4. CASE run.at # "wait"
  <2>1. run' = run
    BY <1>1, <1>4
  <2>2. TypeOK'
    BY <1>1, <1>2, <1>4, <2>1 DEF IInv, TypeOK, user, late
  <2>3. ClosedFirst'
    BY <1>1, <1>3, <1>4, <2>1 DEF IInv, ClosedFirst, Claiming, user
  <2> QED
    BY <1>1, <1>3, <2>1, <2>2, <2>3, UseFrame, RunFrame, CopiesFrame, SavesFrame DEF IInv, user, late
<1>5. CASE run.at = "wait"
  <2>1. run' = Raised(run)
    BY <1>1, <1>5
  <2>2. /\ run' \in Runs \union {Idle} /\ run'.at \in {"idle", "update"}
        /\ run'.at = "update" => run'.result # "none"
        /\ RunIsTrue' /\ ClosedFirst' /\ UseOnce'
    BY <1>1, <1>5, <2>1, RaisedKeeps DEF late
  <2>3. TypeOK'
    BY <1>1, <1>2, <2>2 DEF IInv, TypeOK, user, late
  <2> QED
    BY <1>1, <1>3, <2>2, <2>3, CopiesFrame, SavesFrame DEF IInv, user, late
<1> QED
  BY <1>4, <1>5

LEMMA CallFailsKeeps ==
  ASSUME IInv, CallFails
  PROVE  IInv'
<1>1. PICK r : r = [run EXCEPT !.copy = NoConfig]
  OBVIOUS
<1>2. /\ run.at \in {"check", "get", "put", "wait"} /\ faults' = faults + 1 /\ faults < MaxFaults
      /\ run' = Raised(r)
      /\ latePuts' = latePuts \/ (run.at = "put" /\ latePuts' = latePuts \union {run.copy})
      /\ UNCHANGED <<config, user, jobs, latePosts, used>>
  BY <1>1 DEF CallFails, Faulty
<1>3. faults' \in 0..MaxFaults
  BY <1>2, ResetCardAssumption DEF IInv, TypeOK
<1>4. run \in Runs /\ run.copy \in Configs /\ run.task \in Tasks
  BY <1>2, Busy DEF IInv, Runs
<1>5. /\ run' \in Runs \union {Idle} /\ run'.at \in {"idle", "update"}
      /\ run'.at = "update" => run'.result # "none"
      /\ RunIsTrue' /\ ClosedFirst' /\ UseOnce'
  BY <1>1, <1>2, RaisedKeeps
<1>6. TypeOK'
  BY <1>2, <1>3, <1>4, <1>5 DEF IInv, TypeOK, config, user
<1>7. CopiesAreTrue'
  <2>1. run.at = "put" => Truthful(run.copy)
    <3>1. jobs[run.task] \in Outcomes \union {"none", "claimed"}
      BY <1>4 DEF IInv, TypeOK
    <3> QED
      BY <1>4, <3>1 DEF IInv, RunIsTrue, CopiesAreTrue, Claiming, Truthful, Final, Result
  <2>2. Copies' \subseteq Copies \union (IF run.at = "put" THEN {run.copy} ELSE {})
    BY <1>2 DEF Copies, config, user
  <2>3. \A c \in Copies' : Truthful(c)'
    BY <1>2, <2>1, <2>2 DEF IInv, CopiesAreTrue, Truthful
  <2> QED
    BY <1>5, <2>3 DEF CopiesAreTrue
<1>8. WritesFollowSaves'
  <2>1. host' = host /\ saved' = saved /\ (raced' <=> raced)
    BY <1>2 DEF config, user
  <2> QED
    BY <1>2, <1>5, <2>1 DEF IInv, WritesFollowSaves, EditsSurvive
<1> QED
  BY <1>5, <1>6, <1>7, <1>8 DEF IInv

LEMMA DecideKeeps ==
  ASSUME IInv, Decide
  PROVE  IInv'
<1>1. run \in Runs /\ run.task \in Tasks /\ run.at = "decide" /\ run.closing /\ Claiming /\ run.copy \in Configs
  BY Busy DEF Decide, IInv, Runs, RunIsTrue, Claiming
<1>2. UNCHANGED <<config, user, jobs, late, faults, used>>
  BY DEF Decide
<1>3. ASSUME NEW status \in {"unknown", "skipped", "dry_run"}, Skip(status)
      PROVE  IInv'
  <2>1. run'.copy = run.copy /\ run' = [run EXCEPT !.at = "update", !.result = status, !.copy = run'.copy]
    BY <1>1, <1>3 DEF Skip, Runs
  <2>2. run' \in Runs /\ run'.at = "update" /\ run'.result = status /\ RunIsTrue' /\ UseOnce'
    BY <1>1, <1>2, <2>1, ToUpdate DEF late
  <2>3. TypeOK'
    BY <1>2, <2>2 DEF IInv, TypeOK, config, user, late
  <2>4. CopiesAreTrue' /\ WritesFollowSaves'
    BY <1>2, <2>2, StepFrame DEF late
  <2>5. ClosedFirst'
    BY <2>2 DEF ClosedFirst, Claiming
  <2> QED
    BY <2>2, <2>3, <2>4, <2>5 DEF IInv
<1>4. ASSUME run' = [run EXCEPT !.at = "post"]
      PROVE  IInv'
  <2>1. /\ run' \in Runs /\ run'.at = "post" /\ run'.task = run.task /\ run'.closing
        /\ run'.result = run.result
    BY <1>1, <1>4 DEF Runs
  <2>2. TypeOK'
    BY <1>2, <2>1 DEF IInv, TypeOK, config, user, late
  <2>3. RunIsTrue'
    BY <1>1, <1>2, <2>1 DEF IInv, RunIsTrue, Claiming, late
  <2>4. CopiesAreTrue' /\ WritesFollowSaves'
    BY <1>2, <2>1, StepFrame DEF late
  <2>5. host' = host /\ file' = file /\ applying' = applying /\ phase' = phase
    BY <1>2 DEF config, user
  <2>6. ClosedFirst'
    BY <1>1, <2>1, <2>5 DEF IInv, ClosedFirst, Claiming
  <2> QED
    BY <1>2, <2>2, <2>3, <2>4, <2>6, UseFrame DEF IInv, late
<1> QED
  BY <1>3, <1>4 DEF Decide

LEMMA PostKeeps ==
  ASSUME IInv, Post
  PROVE  IInv'
<1>1. /\ run \in Runs /\ run.task \in Tasks /\ run.at = "post" /\ run.closing
      /\ jobs[run.task] = "claimed" /\ used[run.task] = 0 /\ run.task \notin latePosts
  BY Busy DEF Post, IInv, Runs, RunIsTrue, Claiming
<1>2. UNCHANGED <<config, user, jobs, latePuts>>
  BY DEF Post
<1>3. faults' \in 0..MaxFaults
  BY ResetCardAssumption DEF Post, Faulty, IInv, TypeOK
<1>4. PICK status \in {"success", "unknown"} :
        /\ Skip(status)
        /\ \/ /\ used' = [used EXCEPT ![run.task] = 1] /\ latePosts' = latePosts
           \/ /\ status = "unknown" /\ used' = used
              /\ latePosts' \in {latePosts, latePosts \union {run.task}}
  <2>1. HostUses(run.task) => used' = [used EXCEPT ![run.task] = 1]
    BY <1>1 DEF HostUses, IInv, TypeOK
  <2> QED
    BY <2>1 DEF Post
<1>5. run' \in Runs /\ run'.at = "update" /\ run'.result = status /\ run'.task = run.task
  BY <1>1, <1>4 DEF Skip, Runs, Outcomes
<1>6. used' \in [Tasks -> 0..2] /\ latePosts' \subseteq Tasks
  BY <1>1, <1>4 DEF IInv, TypeOK
<1>7. TypeOK'
  BY <1>2, <1>3, <1>5, <1>6 DEF IInv, TypeOK, config, user
<1>8. UseOnce'
  BY <1>1, <1>2, <1>4 DEF IInv, UseOnce, TypeOK
<1>9. RunIsTrue'
  BY <1>1, <1>2, <1>4, <1>5, <1>6 DEF IInv, TypeOK, RunIsTrue, Claiming
<1>10. CopiesAreTrue' /\ WritesFollowSaves'
  BY <1>2, <1>5, StepFrame
<1>11. ClosedFirst'
  BY <1>5 DEF ClosedFirst, Claiming
<1> QED
  BY <1>7, <1>8, <1>9, <1>10, <1>11 DEF IInv

LEMMA LatePostKeeps ==
  ASSUME IInv, LatePost
  PROVE  IInv'
<1>1. PICK t \in latePosts :
        /\ HostUses(t) /\ latePosts' = latePosts \ {t}
        /\ UNCHANGED <<config, user, jobs, run, latePuts, faults>>
  BY DEF LatePost
<1>2. t \in Tasks /\ used[t] = 0 /\ jobs[t] \notin {"none", "skipped", "dry_run"}
  BY DEF IInv, TypeOK, UseOnce
<1>3. used' = [used EXCEPT ![t] = 1]
  BY <1>1, <1>2 DEF HostUses, IInv, TypeOK
<1>4. TypeOK'
  BY <1>1, <1>2, <1>3 DEF IInv, TypeOK, config, user
<1>5. UseOnce'
  BY <1>1, <1>2, <1>3 DEF IInv, UseOnce, TypeOK
<1>6. RunIsTrue'
  <2>1. run.at # "idle" => run.task \in Tasks
    BY Busy DEF IInv, Runs
  <2>2. Claiming' = Claiming
    BY <1>1 DEF Claiming
  <2>3. Claiming \/ run.at \in {"check", "update"} => run.task \in Tasks
    BY <2>1 DEF Claiming
  <2> QED
    BY <1>1, <1>2, <1>3, <2>2, <2>3 DEF IInv, TypeOK, RunIsTrue
<1>7. Copies' = Copies
  BY <1>1 DEF Copies, config, user
<1>8. CopiesAreTrue' /\ ClosedFirst' /\ WritesFollowSaves'
  BY <1>1, <1>7, CopiesFrame, ClosedFrame, SavesFrame DEF IInv, user, config
<1> QED
  BY <1>4, <1>5, <1>6, <1>8 DEF IInv

LEMMA UpdateKeeps ==
  ASSUME IInv, Update
  PROVE  IInv'
<1>1. PICK q : q = run.result
  OBVIOUS
<1>2. /\ run \in Runs /\ run.task \in Tasks /\ run.at = "update" /\ q \in Outcomes
      /\ jobs[run.task] = "claimed"
      /\ q = "success" => used[run.task] = 1
      /\ q \in {"skipped", "dry_run"} => used[run.task] = 0 /\ run.task \notin latePosts
  BY <1>1, Busy DEF Update, IInv, TypeOK, Runs, RunIsTrue
<1>3. UNCHANGED <<config, user, late, faults, used>>
  BY DEF Update
<1>4. /\ jobs' \in [Tasks -> Outcomes \union {"none", "claimed"}] /\ jobs'[run.task] = q
      /\ \A t \in Tasks : t # run.task => jobs'[t] = jobs[t]
  BY <1>1, <1>2 DEF Update, IInv, TypeOK
<1>5. /\ run' \in Runs /\ run'.at = "get" /\ run'.task = run.task /\ ~run'.closing
      /\ run'.result = q
  BY <1>1, <1>2 DEF Update, Runs
<1>6. q # "none" /\ q # "claimed" /\ Result(q) = q
  BY <1>2 DEF Outcomes, Result
<1>7. TypeOK'
  BY <1>3, <1>4, <1>5, <1>6 DEF IInv, TypeOK, config, user, late
<1>8. UseOnce'
  BY <1>2, <1>3, <1>4, <1>6 DEF IInv, UseOnce, TypeOK, late
<1>9. RunIsTrue'
  BY <1>4, <1>5, <1>6 DEF RunIsTrue, Claiming
<1>10. CopiesAreTrue' /\ WritesFollowSaves'
  BY <1>2, <1>3, <1>4, <1>5, <1>6, StepFrame DEF late
<1>11. ClosedFirst'
  BY <1>5 DEF ClosedFirst, Claiming
<1> QED
  BY <1>7, <1>8, <1>9, <1>10, <1>11 DEF IInv

LEMMA CrashKeeps ==
  ASSUME IInv, Crash
  PROVE  IInv'
<1>1. run' = Idle /\ faults' = faults + 1 /\ faults < MaxFaults /\ UNCHANGED <<config, user, jobs, late, used>>
  BY DEF Crash, Faulty
<1>2. faults' \in 0..MaxFaults
  BY <1>1, ResetCardAssumption DEF IInv, TypeOK
<1>3. TypeOK'
  BY <1>1, <1>2, IdleRun DEF IInv, TypeOK, config, user, late
<1> QED
  BY <1>1, <1>3, AtRest DEF IInv, late

-----------------------------------------------------------------------------
(* The theorems *)

LEMMA InitIInv == Init => IInv
<1> SUFFICES ASSUME Init PROVE IInv
  OBVIOUS
<1>1. run.at = "idle"
  BY IdleRun DEF Init
<1>2. TypeOK
  <2>1. 0 \in 0..MaxTasks /\ 0 \in 0..MaxSaves /\ 0 \in 0..MaxFaults /\ 0 \in 0..2
    BY ResetCardAssumption
  <2>2. /\ phase \in [Tasks -> {"early", "due", "past"}] /\ jobs \in [Tasks -> Outcomes \union {"none", "claimed"}]
        /\ used \in [Tasks -> 0..2] /\ pages \in [Pages -> Configs]
        /\ saved \in [task : 0..MaxTasks, dry : BOOLEAN]
    BY <2>1, NothingIsReserved DEF Init
  <2> QED
    BY <1>1, <2>1, <2>2, NothingIsReserved DEF Init, TypeOK
<1>3. UseOnce /\ RunIsTrue
  BY <1>1 DEF Init, UseOnce, RunIsTrue, Claiming
<1>4. \A c \in Copies : c = NoConfig
  BY DEF Init, Copies
<1>5. CopiesAreTrue
  BY <1>1, <1>4 DEF CopiesAreTrue, Truthful, NoConfig
<1>6. ClosedFirst
  BY <1>1 DEF ClosedFirst, Claiming
<1>7. WritesFollowSaves
  BY <1>1 DEF Init, WritesFollowSaves, EditsSurvive, NoConfig
<1> QED
  BY <1>2, <1>3, <1>5, <1>6, <1>7 DEF IInv

LEMMA StepIInv == IInv /\ [Next]_vars => IInv'
<1> SUFFICES ASSUME IInv, [Next]_vars PROVE IInv'
  OBVIOUS
<1>1. CASE UNCHANGED vars
  <2>1. UNCHANGED <<config, user, jobs, run, late, faults, used>>
    BY <1>1 DEF vars
  <2>2. TypeOK'
    BY <2>1 DEF IInv, TypeOK, config, user, late
  <2>3. Copies' = Copies
    BY <2>1 DEF Copies, config, user, late
  <2> QED
    BY <2>1, <2>2, <2>3, UseFrame, RunFrame, CopiesFrame, ClosedFrame, SavesFrame
    DEF IInv, config, user, late
<1>2. ASSUME NEW t \in Tasks, Elapse(t) PROVE IInv'
  BY <1>2, ElapseKeeps
<1>3. ASSUME NEW p \in Pages, Load(p) \/ Save(p) PROVE IInv'
  BY <1>3, LoadKeeps, SaveKeeps
<1>4. CASE Progress
  BY <1>4, StartKeeps, CheckKeeps, GetKeeps, PutKeeps, DecideKeeps, PostKeeps, UpdateKeeps DEF Progress
<1>5. CASE Apply \/ ApplyFails \/ CallFails \/ LatePut \/ LatePost \/ Crash
  BY <1>5, ApplyKeeps, ApplyFailsKeeps, CallFailsKeeps, LatePutKeeps, LatePostKeeps, CrashKeeps
<1> QED
  BY <1>1, <1>2, <1>3, <1>4, <1>5 DEF Next

LEMMA Invariance == Spec => []IInv
BY InitIInv, StepIInv, PTL DEF Spec

\* The schedule's state is well-typed for any pages, reservations, saves and faults.
THEOREM TypeCorrect == Spec => []TypeOK
<1>1. IInv => TypeOK
  BY DEF IInv
<1> QED
  BY <1>1, Invariance, PTL

\* However often _process_schedule is killed, a call is lost or one arrives late, no
\* reservation uses a second card.
THEOREM OneCard == Spec => []UsedAtMostOnce
<1>1. IInv => UsedAtMostOnce
  BY DEF IInv, UseOnce, UsedAtMostOnce
<1> QED
  BY <1>1, Invariance, PTL

\* The results in the journal, at the host and in the plugin's file are what happened
\* to the card, whatever copies of the configuration are written back.
THEOREM ResultsTrue == Spec => []ResultIsTrue
<1>1. IInv => ResultIsTrue
  <2> SUFFICES ASSUME IInv, NEW t \in Tasks
               PROVE  /\ jobs[t] = "success" => used[t] = 1
                      /\ jobs[t] \in {"none", "skipped", "dry_run"} => used[t] = 0 /\ t \notin latePosts
                      /\ \A c \in {host, file} :
                           /\ c.task = t /\ c.result = "success" => used[t] = 1
                           /\ c.task = t /\ c.result \in {"skipped", "dry_run"} => used[t] = 0
    BY DEF ResultIsTrue
  <2>1. used[t] \in 0..1
    BY DEF IInv, TypeOK, UseOnce
  <2>2. /\ jobs[t] = "success" => used[t] = 1
        /\ jobs[t] \in {"none", "skipped", "dry_run"} => used[t] = 0 /\ t \notin latePosts
    BY <2>1 DEF IInv, UseOnce
  <2>3. ASSUME NEW c \in {host, file}, c.task = t, c.result \in Final PROVE jobs[t] = c.result
    BY <2>3 DEF IInv, CopiesAreTrue, Truthful, Copies, Final
  <2> QED
    BY <2>2, <2>3 DEF Final
<1> QED
  BY <1>1, Invariance, PTL

\* When a card is about to be used the reservation is off wherever a run could find
\* it again, whatever the settings pages and late writes have stored meanwhile.
THEOREM SwitchedOff == Spec => []OffBeforeUse
<1>1. IInv => OffBeforeUse
  BY DEF IInv, ClosedFirst, OffBeforeUse
<1> QED
  BY <1>1, Invariance, PTL

\* update_result never undoes what a user saved, unless he saved while it was writing.
THEOREM EditsKept == Spec => []EditsSurvive
<1>1. IInv => EditsSurvive
  BY DEF IInv, WritesFollowSaves
<1> QED
  BY <1>1, Invariance, PTL

\* What the host stores can not switch a cancelled reservation on again
\* (validateNewResetCardSchedule).
LEMMA StoredStaysCancelled ==
  ASSUME NEW t \in Tasks, Cancelled(t), NEW new, HostStores(new), phase' = phase, jobs' = jobs
  PROVE  Cancelled(t)'
<1>1. new.task = t => ~new.on
  BY DEF HostStores, Valid, Cancelled
<1> QED
  BY <1>1 DEF HostStores, Cancelled

\* A reservation that is off everywhere when its time has come is never claimed.
THEOREM CancelledStays == Spec => CancelledForGood
<1>1. ASSUME IInv, Next, NEW t \in Tasks, Cancelled(t) PROVE Cancelled(t)'
  <2>1. phase[t] # "early" /\ jobs[t] = "none"
    BY <1>1 DEF Cancelled
  <2>2. ASSUME NEW s \in Tasks, Elapse(s) PROVE Cancelled(t)'
    <3>1. phase'[t] # "early"
      BY <2>1, <2>2 DEF Elapse, IInv, TypeOK
    <3> QED
      BY <1>1, <2>2, <3>1 DEF Elapse, Cancelled, config
  <2>3. ASSUME NEW p \in Pages, Load(p) PROVE Cancelled(t)'
    BY <1>1, <2>3 DEF Load, Cancelled, config
  <2>4. ASSUME NEW p \in Pages, Save(p) PROVE Cancelled(t)'
    BY <1>1, <2>4, StoredStaysCancelled DEF Save
  <2>5. CASE Put \/ LatePut
    BY <1>1, <2>5, StoredStaysCancelled DEF Put, LatePut, user
  <2>6. CASE Check
    <3>1. host.task = t => ~host.on
      BY <1>1 DEF Cancelled
    <3>2. run \in Runs /\ run.task \in Tasks
      BY <1>1, <2>6, Busy DEF Check, IInv, Runs
    <3>3. jobs'[t] = "none"
      BY <1>1, <2>1, <2>6, <3>1, <3>2 DEF Check, IInv, TypeOK
    <3> QED
      BY <1>1, <2>6, <3>3 DEF Check, Cancelled, config, user
  <2>7. CASE Update
    <3>1. run \in Runs /\ run.task \in Tasks /\ jobs[run.task] = "claimed"
      BY <1>1, <2>7, Busy DEF Update, IInv, Runs, RunIsTrue
    <3>2. jobs'[t] = jobs[t]
      BY <1>1, <2>1, <2>7, <3>1 DEF Update, IInv, TypeOK
    <3> QED
      BY <1>1, <2>1, <2>7, <3>2 DEF Update, Cancelled, config, user
  <2>8. CASE Apply \/ ApplyFails
    BY <1>1, <2>8 DEF Apply, ApplyFails, Cancelled, user
  <2>9. CASE Start \/ Get \/ Decide \/ Post \/ CallFails \/ LatePost \/ Crash
    <3>1. UNCHANGED <<config, user, jobs>>
      BY <2>9 DEF Start, Get, Decide, Post, CallFails, LatePost, Crash
    <3> QED
      BY <1>1, <3>1 DEF Cancelled, config, user
  <2> QED
    BY <1>1, <2>2, <2>3, <2>4, <2>5, <2>6, <2>7, <2>8, <2>9 DEF Next, Progress
<1>2. IInv /\ [Next]_vars => [\A t \in Tasks : Cancelled(t) => Cancelled(t)']_vars
  BY <1>1
<1> QED
  BY <1>2, Invariance, PTL DEF Spec, CancelledForGood
=============================================================================
