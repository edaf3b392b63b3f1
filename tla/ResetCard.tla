----------------------------- MODULE ResetCard -----------------------------
(***************************************************************************)
(* reset_card_schedule.py and native/reset_card_schedule.go: a user reserves *)
(* a reset card in the settings page; when the time has come, the executor   *)
(* uses one card, once, and reports the result.  The configuration is kept   *)
(* by the host and, after ApplyConfig, in the plugin's file.  The executor   *)
(* finds the reservation in the file, but reads and replaces the host's      *)
(* whole configuration through the API, as the page does, which may save a   *)
(* copy it loaded long ago.  What was done is journalled in SQLite (jobs).   *)
(*                                                                         *)
(* Only the clock's place relative to a reservation matters: early, due, or  *)
(* past (more than 15 minutes late, or the card has expired).  The texts of  *)
(* the result are the statuses they go with; a claimed job reads "unknown".  *)
(* flock admits one executor at a time.                                      *)
(***************************************************************************)
EXTENDS Naturals

CONSTANTS Pages,            \* open settings pages
          MaxTasks,         \* bound on the reservations made
          MaxSaves,         \* bound on the saves of settings pages
          MaxFaults         \* bound on lost messages, failed calls and crashes

ASSUME ResetCardAssumption ==
  MaxTasks \in Nat \ {0} /\ MaxSaves \in Nat /\ MaxFaults \in Nat

Tasks == 1..MaxTasks

Outcomes == {"success", "unknown", "skipped", "dry_run"}

\* What of the plugin's configuration matters here; task 0 is no reservation.
Configs == [task : 0..MaxTasks, on : BOOLEAN, result : Outcomes \union {"none"}, dry : BOOLEAN]

NoConfig == [task |-> 0, on |-> FALSE, result |-> "none", dry |-> TRUE]

VARIABLES host, file,                   \* the configuration at the host and in the file
          applying,                     \* stored by the host, not yet in the file: {} or {c}
          pages,                        \* the copy each settings page holds
          phase, made, saves,           \* the clock, the reservations and saves made
          jobs,                         \* SQLite
          run,                          \* the executor, Idle between runs
          latePuts, latePosts, faults,  \* calls given up on that the host has yet to see
          used,                         \* the cards used for each reservation, up to two
          saved, raced                  \* history: what a page saved last; a save fell
                                        \* between a read and a write of the executor

config == <<host, file, applying>>
user == <<pages, phase, made, saves, saved, raced>>
late == <<latePuts, latePosts>>
vars == <<config, user, jobs, run, late, faults, used>>

\* Between two runs; process memory holds nothing.
Idle == [at |-> "idle"]

Faulty == faults < MaxFaults /\ faults' = faults + 1

-----------------------------------------------------------------------------
(* The host, the plugin and the user *)

\* Mutant of Valid: a page may switch a closed reservation on again.
ValidReopened(new, old) == new.on => new.task = old.task \/ phase[new.task] = "early"

\* validateNewResetCardSchedule: the reservation in the file may be kept on if it is
\* on; any other must lie in the future.
Valid(new, old) ==
  new.on => IF new.task = old.task THEN old.on ELSE phase[new.task] = "early"

\* PUT, up to the host's answer: ValidateConfig, stored, and on its way to ApplyConfig.
\* The host handles one at a time.
HostStores(new) ==
  /\ applying = {} /\ Valid(new, file)
  /\ host' = new /\ applying' = {new} /\ UNCHANGED file

Elapse(t) ==
  /\ t <= made /\ phase[t] # "past"
  /\ phase' = [phase EXCEPT ![t] = IF @ = "early" THEN "due" ELSE "past"]
  /\ UNCHANGED <<config, pages, made, saves, saved, raced, jobs, run, late, faults, used>>

Load(p) ==
  /\ pages' = [pages EXCEPT ![p] = host]
  /\ UNCHANGED <<config, phase, made, saves, saved, raced, jobs, run, late, faults, used>>

\* collect: the copy, with the switch left alone or off, or a reservation under a
\* new id, and dry_run as the user wants it.
Save(p) ==
  /\ saves < MaxSaves /\ saves' = saves + 1
  /\ \E dry \in BOOLEAN, on \in BOOLEAN, task \in {pages[p].task, made + 1} \ {MaxTasks + 1} :
       LET new == IF task = pages[p].task
                  THEN [pages[p] EXCEPT !.on = on, !.dry = dry]
                  ELSE [task |-> task, on |-> TRUE, result |-> "none", dry |-> dry]
       IN /\ task = pages[p].task => (on => pages[p].on)
          /\ made' = IF task = made + 1 THEN task ELSE made
          /\ HostStores(new)
          /\ pages' = [pages EXCEPT ![p] = new] \/ UNCHANGED pages
          /\ saved' = [task |-> new.task, dry |-> new.dry]
  /\ raced' = (raced \/ run.at = "put" \/ latePuts # {})
  /\ UNCHANGED <<phase, jobs, run, late, faults, used>>

-----------------------------------------------------------------------------
(* The executor *)

\* Mutant of Result: the row of a claimed job is reported as it is.
ResultAsIs(status) == status

\* What the settings page is to show for a job.
Result(status) == IF status = "claimed" THEN "unknown" ELSE status

\* update_result returns: on to the decision (TRUE), or the task was replaced and is
\* left alone (FALSE), or, at the end, the executor is done with the reservation.
Returned(r, same) ==
  IF r.closing
  THEN IF same THEN [r EXCEPT !.at = "decide"] ELSE [r EXCEPT !.at = "update", !.result = "skipped"]
  ELSE Idle

\* Mutant of Raised: the card is used although the switch could not be closed.
RaisedGoesOn(r) == IF r.closing THEN [r EXCEPT !.at = "decide"] ELSE Idle

\* A call fails: while the switch is being closed or the card used, the outcome is
\* unknown; later, it is left to the next run.
Raised(r) == IF r.closing THEN [r EXCEPT !.at = "update", !.result = "unknown"] ELSE Idle

\* Mutant of Start: an outcome that could not be reported is not looked at again.
StartNew ==
  /\ run = Idle /\ file.task # 0
  /\ LET t == file.task
         r == [at |-> "check", task |-> t, past |-> phase[t] = "past", dry |-> TRUE,
               closing |-> FALSE, result |-> "none", copy |-> NoConfig]
     IN /\ jobs[t] = "none" /\ file.on /\ phase[t] # "early"
        /\ run' = r
  /\ UNCHANGED <<config, user, jobs, late, faults, used>>

\* _process_schedule up to its first request: the file, the clock and the journal.
\* A reservation with a job is only reported, unless the file already shows it.
Start ==
  /\ run = Idle /\ file.task # 0
  /\ LET t == file.task
         r == [at |-> "check", task |-> t, past |-> phase[t] = "past", dry |-> TRUE,
               closing |-> FALSE, result |-> "none", copy |-> NoConfig]
     IN /\ file.on => phase[t] # "early"
        /\ \/ /\ jobs[t] = "none" /\ file.on
              /\ run' = r
           \/ /\ jobs[t] # "none" /\ (file.on \/ file.result # Result(jobs[t]))
              /\ run' = [r EXCEPT !.at = "get", !.result = Result(jobs[t])]
  /\ UNCHANGED <<config, user, jobs, late, faults, used>>

\* The reservation must be the host's too, and on; it is claimed in the journal.
Check ==
  /\ run.at = "check"
  /\ IF ~host.on \/ host.task # run.task
     THEN run' = Idle /\ UNCHANGED jobs
     ELSE /\ jobs' = [jobs EXCEPT ![run.task] = "claimed"]
          /\ run' = [run EXCEPT !.at = "get", !.closing = TRUE, !.result = "unknown", !.dry = host.dry]
  /\ UNCHANGED <<config, user, late, faults, used>>

\* Mutant of Get: what is written back is what the executor knows from the file.
GetFromFile ==
  /\ run.at = "get"
  /\ run' = IF host.task # run.task THEN Returned(run, FALSE)
            ELSE IF ~host.on /\ host.result = run.result THEN Returned(run, TRUE)
            ELSE [run EXCEPT !.at = "put", !.copy = [file EXCEPT !.on = FALSE, !.result = run.result]]
  /\ UNCHANGED <<config, user, jobs, late, faults, used>>

\* Mutant of Get: the result is written, but the switch is left alone.
GetKeepsSwitch ==
  /\ run.at = "get"
  /\ run' = IF host.task # run.task THEN Returned(run, FALSE)
            ELSE IF ~host.on /\ host.result = run.result THEN Returned(run, TRUE)
            ELSE [run EXCEPT !.at = "put", !.copy = [host EXCEPT !.result = run.result]]
  /\ UNCHANGED <<config, user, jobs, late, faults, used>>

\* update_result reads the configuration.
Get ==
  /\ run.at = "get"
  /\ run' = IF host.task # run.task THEN Returned(run, FALSE)
            ELSE IF ~host.on /\ host.result = run.result THEN Returned(run, TRUE)
            ELSE [run EXCEPT !.at = "put", !.copy = [host EXCEPT !.on = FALSE, !.result = run.result]]
  /\ UNCHANGED <<config, user, jobs, late, faults, used>>

\* update_result writes the configuration back.
Put ==
  /\ run.at = "put" /\ HostStores(run.copy)
  /\ run' = [run EXCEPT !.at = "wait", !.copy = NoConfig]
  /\ UNCHANGED <<user, jobs, late, faults, used>>

\* ApplyConfig writes the file, and the PUT is answered.
Apply ==
  \E new \in applying :
    /\ file' = new /\ applying' = {}
    /\ run' = IF run.at = "wait" THEN Returned(run, TRUE) ELSE run
    /\ UNCHANGED <<host, user, jobs, late, faults, used>>

ApplyFails ==
  /\ applying # {} /\ applying' = {} /\ Faulty
  /\ run' = IF run.at = "wait" THEN Raised(run) ELSE run
  /\ UNCHANGED <<host, file, user, jobs, late, used>>

\* A request to the configuration fails, or its answer is lost, or it times out and
\* is carried out later.
CallFails ==
  /\ run.at \in {"check", "get", "put", "wait"} /\ Faulty
  /\ run' = Raised([run EXCEPT !.copy = NoConfig])
  /\ \/ UNCHANGED latePuts
     \/ run.at = "put" /\ latePuts' = latePuts \union {run.copy}
  /\ UNCHANGED <<config, user, jobs, latePosts, used>>

LatePut ==
  \E c \in latePuts :
    /\ HostStores(c) /\ latePuts' = latePuts \ {c}
    /\ UNCHANGED <<user, jobs, run, latePosts, faults, used>>

Skip(status) == run' = [run EXCEPT !.at = "update", !.result = status]

\* Too late, a dry run, or by what the host says of the account and its cards: no
\* OAuth account or a failed read (unknown), threshold automation or the card is
\* gone (skipped), or the card may be used.
Decide ==
  /\ run.at = "decide"
  /\ IF run.past THEN Skip("skipped")
     ELSE IF run.dry THEN Skip("dry_run")
     ELSE \/ Skip("skipped") \/ Skip("unknown")
          \/ run' = [run EXCEPT !.at = "post"]
  /\ UNCHANGED <<config, user, jobs, late, faults, used>>

HostUses(t) == used' = [used EXCEPT ![t] = IF @ = 2 THEN 2 ELSE @ + 1]

\* Mutant of Post: a request that was not answered is made again.
PostAgain ==
  /\ run.at = "post"
  /\ \/ HostUses(run.task) /\ Skip("success") /\ UNCHANGED <<faults, latePosts>>
     \/ /\ Faulty /\ UNCHANGED <<run, latePosts>>
        /\ (HostUses(run.task) \/ UNCHANGED used)
  /\ UNCHANGED <<config, user, jobs, latePuts>>

\* Mutant of Post: any answer is taken for a success.
PostAnyAnswer ==
  /\ run.at = "post" /\ Skip("success")
  /\ HostUses(run.task) \/ UNCHANGED used
  /\ UNCHANGED <<config, user, jobs, late, faults>>

\* The one request that uses a card: it is answered, or the answer is lost or says
\* nothing, or it is refused, or carried out when the executor has given up on it.
Post ==
  /\ run.at = "post"
  /\ \/ HostUses(run.task) /\ Skip("success") /\ UNCHANGED <<faults, latePosts>>
     \/ /\ Faulty /\ Skip("unknown")
        /\ \/ HostUses(run.task) /\ UNCHANGED latePosts
           \/ UNCHANGED <<used, latePosts>>
           \/ latePosts' = latePosts \union {run.task} /\ UNCHANGED used
  /\ UNCHANGED <<config, user, jobs, latePuts>>

LatePost ==
  \E t \in latePosts :
    /\ HostUses(t) /\ latePosts' = latePosts \ {t}
    /\ UNCHANGED <<config, user, jobs, run, latePuts, faults>>

\* The outcome is journalled, then reported.
Update ==
  /\ run.at = "update"
  /\ jobs' = [jobs EXCEPT ![run.task] = run.result]
  /\ run' = [run EXCEPT !.at = "get", !.closing = FALSE]
  /\ UNCHANGED <<config, user, late, faults, used>>

\* The process is killed, by TimeoutStartSec or with the machine.
Crash ==
  /\ run # Idle /\ Faulty /\ run' = Idle
  /\ UNCHANGED <<config, user, jobs, late, used>>

-----------------------------------------------------------------------------

Init ==
  /\ host = NoConfig /\ file = NoConfig /\ applying = {}
  /\ pages = [p \in Pages |-> NoConfig]
  /\ phase = [t \in Tasks |-> "early"] /\ made = 0 /\ saves = 0
  /\ jobs = [t \in Tasks |-> "none"]
  /\ run = Idle
  /\ latePuts = {} /\ latePosts = {} /\ faults = 0
  /\ used = [t \in Tasks |-> 0]
  /\ saved = [task |-> 0, dry |-> TRUE] /\ raced = FALSE

\* What the executor does when nothing goes wrong.
Progress == Start \/ Check \/ Get \/ Put \/ Decide \/ Post \/ Update

Next ==
  \/ \E t \in Tasks : Elapse(t)
  \/ \E p \in Pages : Load(p) \/ Save(p)
  \/ Progress
  \/ Apply \/ ApplyFails \/ CallFails \/ LatePut \/ LatePost \/ Crash

Spec == Init /\ [][Next]_vars

\* The timer starts runs, a started run is carried on, and the host hands what it
\* has stored to the plugin.
FairSpec == Spec /\ WF_vars(Progress) /\ WF_vars(Apply)

-----------------------------------------------------------------------------

Runs == [at : {"check", "get", "put", "wait", "decide", "post", "update"}, task : Tasks,
         past : BOOLEAN, dry : BOOLEAN, closing : BOOLEAN,
         result : Outcomes \union {"none"}, copy : Configs]

TypeOK ==
  /\ host \in Configs /\ file \in Configs
  /\ applying = {} \/ \E c \in Configs : applying = {c}
  /\ pages \in [Pages -> Configs]
  /\ phase \in [Tasks -> {"early", "due", "past"}] /\ made \in 0..MaxTasks /\ saves \in 0..MaxSaves
  /\ jobs \in [Tasks -> Outcomes \union {"none", "claimed"}]
  /\ run \in Runs \union {Idle}
  /\ run.at = "wait" => applying # {}
  /\ run.at \in {"get", "put", "update"} => run.result # "none"
  /\ latePuts \subseteq Configs /\ latePosts \subseteq Tasks /\ faults \in 0..MaxFaults
  /\ used \in [Tasks -> 0..2]
  /\ saved \in [task : 0..MaxTasks, dry : BOOLEAN] /\ raced \in BOOLEAN

\* README: "响应超时、进程中断或结果未知时不会重试，避免误用第二张卡".  However often the executor is
\* killed or a call is lost or late, no reservation uses a second card.
UsedAtMostOnce == \A t \in Tasks : used[t] <= 1

\* What a user is told is what happened: a reservation reported as a success has
\* used a card, one reported as skipped or as a dry run never will, and no card was
\* used for a reservation that is not in the journal.
ResultIsTrue ==
  \A t \in Tasks :
    /\ jobs[t] = "success" => used[t] = 1
    /\ jobs[t] \in {"none", "skipped", "dry_run"} => used[t] = 0 /\ t \notin latePosts
    /\ \A c \in {host, file} :
         /\ c.task = t /\ c.result = "success" => used[t] = 1
         /\ c.task = t /\ c.result \in {"skipped", "dry_run"} => used[t] = 0

\* FakeApi in the tests: "assert self.config["reset_card_schedule"]["enabled"] is False".
\* When a card is about to be used the reservation is off, at the host and in the
\* file, stale copies saved by a settings page and late writes notwithstanding.
OffBeforeUse ==
  run.at = "post" => \A c \in {host, file} \union applying : c.task = run.task => ~c.on

\* update_result: "每次回写重新读取，避免覆盖用户已编辑的同步设置或替换后的定时任务".  Unless a save
\* fell between the read and the write of an update, or a late write, what the user
\* saved last stands.
EditsSurvive == raced \/ (host.task = saved.task /\ host.dry = saved.dry)

\* Due, but off everywhere and not claimed.
Cancelled(t) ==
  /\ phase[t] # "early" /\ jobs[t] = "none"
  /\ \A c \in {host, file} \union applying : c.task = t => ~c.on

\* README: "一次性预约".  A reservation that is off everywhere when its time has come is off for
\* good and never claimed: no settings page with an old copy can revive it.
CancelledForGood == [][\A t \in Tasks : Cancelled(t) => Cancelled(t)']_vars

\* Once claimed, a reservation is eventually shown switched off and with its outcome,
\* by the host or, when ApplyConfig has failed, in the file at least, unless the user
\* replaces it.
ResultReported ==
  \A t \in Tasks :
    jobs[t] # "none" ~> \E c \in {host, file} :
                           c.task # t \/ (~c.on /\ c.result = Result(jobs[t]))

\* A reservation whose time has come is eventually switched off, used or not.
SwitchesOff ==
  \A t \in Tasks :
    file.task = t /\ file.on /\ phase[t] # "early" ~> host.task # t \/ ~host.on
=============================================================================
