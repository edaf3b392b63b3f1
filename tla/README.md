# Verification of sub2api-quota-sync

TLA+ specifications of the parts of this repository that change other people's
money or quota, TLC runs that check them on small instances, and proofs that TLAPS
checks for all instances. Everything is translated from the source; `PROJECT.json`
gives, for each definition, the lines it stands for.

    tlc -workers 2 -config sync_one.cfg MCQuotaSync     # one run
    tlapm QuotaSyncProofs.tla                           # one module's proofs

## The system

sub2api is a gateway (the *host*, not in this repository) that shares upstream
accounts among users with subscriptions or balances. The upstream account has a 7d
usage cycle; when that is refreshed, the users' quota is to be refreshed with it.

| component | state | operations | speaks to |
|---|---|---|---|
| cycle detection (`decide`, `account_state` in `quota_sync.py`) | one row per account: boundary, sample time, percentage, cost | `decide`, `write_observation`, `_upsert_state` | fed by the executor |
| executor, subscription mode (`main`, `process_pending_events`, `StateStore`) | SQLite: rows, `reset_events`, `reset_targets`; a run's local variables | `create_event`, `mark_target`, `finish_event`, GET and POST of a subscription | host API; started every minute by a systemd timer under `flock` |
| executor, balance mode (`create_balance_event`, `process_balance_event`) | the same tables; `balance_targets` with an amount per user | read users and quotas, `retarget_balance`, set a balance, `finish_balance_event` | host API |
| host reset API (`patches/sub2api-cycle-reset.patch`) | a subscription's windows and usage | `AdminResetQuotaForCycle` | called by the executor |
| transfer service (`transfer_server.py`) | SQLite journal `transfers`; the rate limiter's deques; one thread per request | `transfer`, `_execute`, `_replay`, `me`, `history` | host API, browsers |
| reset cards (`reset_card_schedule.py`, `native/reset_card_schedule.go`) | a reservation in the configuration (at the host, in the plugin's file, in open pages); SQLite `reset_card_jobs` | check, claim, close the switch, use one card, report | host API, settings page, plugin |
| plugin configuration (`native/main.go`) | `executor.json`, the plugin's memory | `TestConfig`, `ApplyConfig` | settings page, executor |
| streaming proxy (`native/main.go`, `Forward`) | one stream per request | head, chunks, end | host, upstream |
| catalogue and status files, settings page, host UI patches, packaging, generated gRPC code | none that the above read back | | |

What ties them together: the executor's rows decide which events exist; an event's
targets are the subscriptions that were eligible when its run *began*; the host's
windows are the only evidence whether a POST was carried out; and balances and reset
cards give no evidence at all, for their endpoints keep nothing that could be asked. The
executor, the settings page and the plugin share one configuration, of which the host,
the file and every open page has a copy.

### What makes it hard

* **Crash and partial failure.** A run can be killed between the POST and the mark,
  the transfer service between two balance calls. `reset_targets.status` and
  `transfers.status` are written after the fact.
* **Lost, late, repeated calls.** A call whose answer is lost may have been carried
  out; one that timed out may still be.
* **Several accounts, one subscription.** Groups overlap, so the events of two
  accounts move the same windows.
* **Stale reads.** The eligible subscriptions are read once per run, the sender's
  balance once per request, the active users once per run, the configuration whenever a
  settings page was opened.
* **Read, modify, replace.** A reset card's result is written back by replacing the whole
  configuration, as the page does.
* **Noise.** The published reset time wobbles, percentages and costs may be missing,
  a countdown is an estimate; `decide` combines three thresholds and two tolerances.
* **Threads.** Every transfer request has its own thread, and the same key may be
  in several of them; they overtake each other on the way to the rate limiter's lock.
* **Streams.** A handler, its goroutine, the pipe between them and the host's stream end
  in any order.

`PROJECT.json` lists these as hazards, each at its line.

### What correct means, component by component

* *Detection*: a reset is queued only for a window that really moved, the first look
  at a refreshed cycle queues it, noise never queues a second one, no two events of
  an account share a key.
* *Executor*: what is marked done is done on the host; an event is complete only when
  all its targets are; nothing settled is reopened; the host clears a subscription
  once per event; open events are worked off; every account is looked at.
* *Transfer*: no balance call is carried out twice for one key; a status is true and
  final; the journal accounts for all money as long as the host answers; what is
  called "being processed" is being processed.
* *Balance mode*: a balance is only set to a quota its user really had since the event;
  statuses are true of the host; no cycle passes without its event; open events are
  worked off.
* *Rate limiter*: at most so many in any window, and nobody refused without reason.
* *Reset cards*: one card per reservation at most; what the user is told is what
  happened; the reservation is off before its card is used; a cancelled one stays so;
  the user's other settings survive the report, and the report comes.
* *Proxy*: a body that broke off is not passed on as a whole one; an error that says
  "not sent" is true; what the host breaks off ends, and nothing is left behind.

## The modules

    CycleDecision   pure: decide, and the rows the two writers leave
      CycleDetector   one account's row and event keys, fed any snapshots (abstract spec)
        AccountCycle    a detector watching an account with real cycles
      QuotaSync       the executor in subscription mode, the host's windows, accounts and
                      subscriptions; implements CycleDetector for every account it watches
    BalanceSync     the executor in balance mode, users and their attributes
    ResetCard       a reservation: settings page, host, plugin, executor
    TransferBook    balances, journal and moves, without threads, calls or faults (abstract spec)
      Transfer        the transfer service and the host's balances; implements TransferBook
    RateLimiter     its sliding windows
    Forward         the streaming proxy

`MC*` modules only give constants their values. A module's theorems are in the module
with `Proofs` after its name.

**CycleDecision** has the shape of `decide`: `Rearmed` is lines 437-442, `UsageReset`
443-448, `FreshCycle` 452-456, `EarlyReset` 457-461, `DriftFollow` 462-478, and
`Decide` keeps the order of the early returns, which is part of what it means. Every
duration is a parameter; seven days may be three ticks. `ThresholdAssumption` asks
only that the configured durations are positive where the parser demands it; nothing
orders them. A missing percentage or cost is `Absent`. `confirmed_used_percent` is
left out because nothing reads it.

**CycleDetector** is what the executor promises about one account. It is fed *every*
snapshot of a set in any order, so what holds in it does not depend on what the
upstream does.

**AccountCycle** supplies the upstream. `Request` uses quota, rolls the cycle over
when its seven days are up and publishes figures whose reset time is off by an error
and whose percentage may be missing; `UseCard` ends the cycle early; `Slide` moves the
window without a reset of usage; `Check` is one run of the executor. The executor
reads what was published at the last response, not the account itself.

**QuotaSync** is the executor in subscription mode with its surroundings. A run is
`Start` (flock, configuration, eligible subscriptions), then per target of each open
event `FetchTarget`, `Post` and `HandleReply`, then `FinishEvent`; `CheckAccount` for
each account in order; and for a run that is not dry the open events again
(`Advance` decides what comes next). A GET and the local write that follows it are one
step, because nothing else writes the database meanwhile (`flock`); the POST and the
handling of its answer are two, because the host and the clock go on. `Crash` may
strike anywhere; `PostFails` covers a request lost, an answer lost and a request
carried out later (`LatePost`); `FetchFails` and `SnapshotFails` are reads that fail.
`ResetBy` and `Accepts` are the patch's `AdminResetQuotaForCycle`; with
`Aligns = FALSE` the host is unpatched and starts the windows at the time of the call.
`Consume` and `ChangeStatus` are users and administrators.

**Transfer** has one program counter per thread. `Enter` is everything before the
journal, with the balance the profile showed; `Insert` is `create_pending` and its
UNIQUE constraint, or the replay; `Resolve` the checks before the first call, `After`
where the result of each balance call leads; `Finish` the write of the status.
`Unanswered` and `LateCall` are calls whose fate the service does not know, `Crash`
kills all threads at once and nothing looks at the journal afterwards. That the host
keeps balances from becoming negative is the one thing assumed of it.

**TransferBook** is what that amounts to for those whose money it is: a request enters the
journal once and ends once, its amount is taken from the sender at most once and then
given to the receiver, or back, or (when an answer was lost) to both, never before it was
taken. `moved` is the set of moves made; in `Transfer` these are the calls the host
carried out (`did`). The abstract journal allows money to move after an end was written
down only where a late call can: a failed request may still be charged, a compensated
one credited, one that needs attention credited or refunded, and one that succeeded
nothing more.

**BalanceSync** numbers an account's cycles: that each is queued once, under a key of its
own, is what `CycleDetector` shows, so a row is the number confirmed last and
`CheckAccount` may or may not see a new cycle yet. A run reads the active users in
`Start`. Per event, `ReadQuotas` reads the attributes of the pending targets (or fails,
`ReadFails`, and every target stays open), and per target `Prepare` is
`retarget_balance`, `Post` the request, `HandleReply` the status and `FinishEvent` the
end. `World` is what users and administrators do: spend, edit, empty or invalidate an
attribute, disable or delete a user, remove the attribute's definition. The statuses
pending, processing and failed are one, for nothing reads the difference. `sets` and
`offered` are history: what the host set for an event, what the user's quota was since.

**ResetCard** follows a reservation through everything that holds a copy of it. `Save` is
the page's PUT with the copy it once loaded, changed by the user; `HostStores` is
`ValidateConfig` and what the host keeps; `Apply` is `ApplyConfig`, or `ApplyFails`. The
executor finds the reservation in the file (`Start`), asks the host (`Check`), claims it
in SQLite, closes the switch by a read (`Get`) and a write (`Put`, answered after
`Apply`) of the whole configuration, decides by the time, `dry_run` and the account
(`Decide`), uses the card with a single request (`Post`), journals and reports
(`Update`, then `Get` and `Put` again). `Returned` and `Raised` are the ends of
`update_result`. Calls may fail, lose their answers or be carried out late (`CallFails`,
`LatePut`, `LatePost`), and `Crash` may strike anywhere. Of the clock only early, due and
past are kept. The account's eligibility is a choice in `Decide`.

**RateLimiter** separates `Ask`, which reads the clock, from `Admit` and `Refuse`, which
hold the lock; `Live` is the deque after its head was trimmed, and as in the code a
reading behind a newer one is not dropped. `log` is when requests were really admitted.

**Forward** has three actors per call: the handler (`call`), the goroutine with net/http
behind it (`goroutine`) and the host's side of the stream. `Begin` to `Launch` are the
first frame, the transport and the goroutine's start; `Receive` and `TakeChunk` the two
sides of the pipe; `Wait`, `SendStart`, `PassChunk` and `Finish` the response. The pipe
has no buffer, so a `WriteFails` or a `GiveUpBody` may come in between. `Look` and
`Create` are the two halves of `transportFor`, between which the lock is not held.

## The runs

The bounds are the least at which the interesting cases happen together.

| run | instance | shows |
|---|---|---|
| `account` | week of 3 ticks, clock to 6, reset times off by 0 or 1, slides of 2 or 3, cards, missing figures | a reset is queued only for a window that moved (`ResetFollowsWindow`), and the first look at a refreshed cycle queues it (`DetectsRefresh`); row and events agree and events are spaced beyond the noise. Two full cycles, with a card or a slide in each |
| `sync_one` | one account, one subscription with weekly and monthly windows, dry and real runs, clock to 4, two faults | `ClearedAtMostOnce`, `CompleteMeansSettled`, `DoneMeansAligned`, `SettledIsFinal`, and `EventsSettle` under fairness. Two faults are what it takes to lose an answer *and* the retry, or to have one late call meet a crash; a week of two ticks lets two events be open at once |
| `sync_two` | two accounts, one subscription, host without the patch, no faults | `DoneMeansAligned` where a success answer does not mean aligned, and that the second account's row and events are a `CycleDetector` (`ImplementsDetector`) |
| `transfer` | two users, two keys each, two threads, one fault, crashes | `ExecutedOnce`, `JournalIsTrue`, `BooksBalance`, and that every step is one of `TransferBook` (`ImplementsBook`). Each user has what one transfer takes, so two transfers of one sender compete, and one that received can send on. The host may refuse any call, so one fault is enough for a credit that is late while the refund fails, or a crash that leaves a call on its way and a retry behind it; all five hold for two faults as well, which takes TLC five minutes, and the theorems are for any number |
| `balance` | one account with three cycles, two users, two amounts, one edit, one fault, dry and real runs, fair | `OnlyQuotasAreSet`, `StatusIsTrue`, `CompleteMeansSettled`, `SetOnceIfAnswered`, `RowMovesWithEvent`, `EventsSettle`. Two events can be open at once, an amount can change between two attempts, and one user can fail while the other is done |
| `card` | two reservations, one settings page, three saves, one fault, fair | the five safety properties of reset cards, `CancelledForGood`, and that claimed reservations are reported (`ResultReported`) and due ones switched off (`SwitchesOff`). Three saves reserve, replace or cancel, and save a stale copy; one fault is a crash, a failed `ApplyConfig`, or a request that is late |
| `limiter` | two senders, two threads, limit 2, window 3, delay 1, clock to 6 | `AdmitsAtMostLimit`, `RefusesOnlyWhenFull`. Two windows, in which the two threads can overtake each other. Senders and threads are symmetric; only safety is checked |
| `forward` | two calls through one proxy, one with a body, two chunks, replies of one chunk, fair | `TruncatedIsNotWhole`, `OneTransport`, `CancelledCallEnds`, `GoroutineEnds`. Breaking off before, between and after the chunks, and both calls looking for the transport at once |
| `account_drift_follow`, `sync_two_accounts_retry`, `balance_set_again`, `transfer_orphan` | the least instance with the counterexample | the divergences below |

Every property of a passing run has a mutant, a plausible bug in one mapped
definition, under which TLC finds it violated.

Deadlock is checked in all runs but those of the account and `forward`: the bounds of the account end its behaviours when
the clock has run out, and in `forward` the calls end.

### Fairness

* `QuotaSync` and `BalanceSync`: `WF_vars(Progress)`, one weak fairness for all the
  executor's own steps together, since a run is one process and in every state has one
  next step. It is what `sub2api-quota-sync.timer` gives (a run every minute, and the
  next after one that failed or was killed) and a process that is scheduled.
* `ResetCard`: the same, and `WF_vars(Apply)`: a configuration the host has stored
  reaches the plugin in the end, or `ApplyFails`.
* `Forward`: per call, net/http carries on with a body it has and reports when its
  context ends (`Carry`), and once the context has ended every operation the handler is
  blocked in returns. Nothing makes the upstream answer or the host send its frames.

Nothing is assumed of accounts, users, administrators, settings pages, the clock, or late
calls. Faults are bounded by `MaxFaults`, that is, requests get through in the end; this
is an assumption the code cannot discharge. An account that can *never* be read starves
those behind it in the list, as `load_snapshot`'s exception ends the run; the runs say
nothing of that case. `EventsSettle` is also conditional: the executor is not left in
dry-run mode; in `QuotaSync` subscription statuses stop changing (`StatusesSettle`), and
an event may stay open for ever once its cycle is over, for then the host refuses its
boundary; in `BalanceSync` the attribute is defined in the end. `ResultReported` is
conditional on the user not replacing the reservation, and asks only that the host *or*
the file shows the result: after a failed `ApplyConfig` the two differ, and the executor
looks at the file.

## Findings

* `account_drift_follow`: README.md:140 and CHANGELOG.md:5 say that *every* automatic
  reset requires a confirmed drop of the usage percentage. The drift-follow branch
  (`quota_sync.py:469`) looks at the cost alone.
* `sync_two_accounts_retry`: README.md:189 says a retry for the same cycle never clears
  again. With two accounts on one subscription, a retry after the other account's
  event does: the windows no longer show that the first attempt got through.
* `balance_set_again`: README.md:13 says that a lost answer is recovered from by looking at
  the target balance, and `process_balance_event`'s docstring that a set can safely be
  done again. It is done again without looking, and gives back what was spent since.
* `transfer_orphan`: a recipient search that fails leaves a record pending for ever,
  while the client is told to retry and each retry is told to wait.

Two further observations that no run shows: `write_observation` overwrites the percentage
with NULL when a sample has none, while README.md:140 measures the drop against the last
*valid* sample; and an observation replaces the percentage that the next drop is measured
from, so that a refresh seen in two steps, each below the minimal drop, is not one.

## The proofs

The theorems hold for any values of the constants, under the modules' named
assumptions (`ThresholdAssumption`, `AbsentAssumption`, `SnapshotsAssumption`,
`SyncAssumption`, `TransferAssumption`, `BalanceAssumption`, `ResetCardAssumption`,
`RateLimiterAssumption`, `ForwardAssumption`, `AccountAssumption`, `ErrorsAssumption`,
`NoRowAssumption`), which TLC evaluates in the runs. Users, keys and
threads of `Transfer` may be infinitely many; the finiteness its books need is proved.

* **CycleDetectorProofs.** `Inv`, types with `BoundaryIsConfirmed` and `EventsSpaced`,
  is inductive: spacing alone is not, for a new key is compared with the row and not
  with the older keys; that the row *is* the latest key is what carries the comparison
  over. From it `TypeCorrect`, `BoundaryConfirmed`, `Spaced`, `KeysAreFresh` (which is
  proved and has no run) and the action property `Forward`.
* **AccountCycleProofs.** What the runs check of one simulated account, for any week,
  slides, errors and thresholds. `ErrorsAssumption` says how far a published time may be
  off: early by no more than the tolerance, and two of them apart by less than what moves
  a boundary; nothing in the code could tell a worse estimate from a reset. `AccountInv`
  adds to the detector's `Inv` that the figures and the row are those of a window the
  account had, that what was published was shown in order, and that a later cycle began
  after the samples of the earlier ones. From it `AccountEventsSpaced`, the action
  properties `AccountNeverRetreats` and `ResetsFollowWindows`, and `RefreshesDetected`,
  which goes through every early return of `decide`.
* **QuotaSyncProofs.** `CompleteMeansSettled` is not inductive, because `FinishEvent`
  looks at an event the run chose long ago. `IInv` adds that no cycle starts in the
  future (`Started`), that the events a run still has in its queue are open
  (`QueueIsOpen`) and that its target list is part of the pending targets of its event
  (`TodoIsPending`). From it `TypeCorrect`, `CompleteIsSettled` and
  `DecisionsAreFinal`. `Refinement` shows that each step of the executor is, for any
  account, an observation, an event or a stutter of `CycleDetector`; and
  `EventsOfAccountSpaced` carries `Spaced` over to the executor through it.

  `DoneIsAligned` and `ClearedOnce` are about the host as well, and each holds under either
  of two hypotheses. `OneCycle`: a patched host and one account without reset cards, under
  any faults. Then a boundary never comes back: an answer that is still to be read
  (`ReplyIsTrue`), every request still on its way, and the windows that show an event was
  carried out (`ClearsShow`) belong to a cycle no later than the latest, and a newer one
  can only move the windows past it (`CurrentOrOver`). Or `MaxFaults = 0`: any accounts,
  with cards, and for `DoneIsAligned` any host; then nothing is late, and what was cleared
  is marked before anything else is done (`ClearedNoted`). The hypotheses are needed:
  with two accounts and a fault, or one account, a fault and an unpatched host, TLC finds
  `DoneMeansAligned` violated (a late request of one event undoes another), and
  `sync_two_accounts_retry` is the counterexample for `ClearedAtMostOnce`. With one account
  and a reset card (week of 3, clock to 5, one fault) TLC finds another: a request of
  the cycle the card ended arrives after the new cycle's and moves the windows back.
  That a monthly window is no shorter than the weekly one is part of `SyncAssumption`.
* **TransferProofs.** What a status tells is true because of what the handler had
  posted before it wrote it. `IInv` therefore follows a handler from call to call
  (`Progressed`): which calls were carried out, which were not even posted. It needs
  that no other handler works on the request (`OneHandler`, which rests on the UNIQUE
  key) and that a call still on its way was not carried out yet (`NeverTwice`).
  `HandlerStep` states once what a step of one handler has to establish, and each
  action cites it. From it `TypeCorrect`, `NoCallTwice`, `JournalTrue` and
  `OutcomesFinal` (a finished record is never written again).

  The books are proved in two steps. `Ledger` says, under any faults, that a balance is
  what it was less what the host charged, plus what it refunded and credited
  (`MoneyIsAccountedFor`). Amounts are counted as sets of cents (`Cents`), so that adding a
  request to a sum is adding a disjoint set, which the prover can do where the laws of a
  fold are inductions over data; `FinitelyMany` is the invariant that only finitely many
  requests are in the journal. `Reliable` then says that without faults the status tells
  which calls were carried out (`StatusesTell`), and `BooksAreTrue` follows. The same
  invariant gives `OrphansNeedFaults`: only a fault leaves the orphans of
  `transfer_orphan`.

  `Refinement` maps each step to one of `TransferBook` or a stutter. It needs from
  `Progressed` what a handler's place tells of the calls made, and three invariants that
  outlast the handler: a credit or a refund, even one still on its way, was posted after the
  host had taken the amount (`TakenFirst`), whatever was posted has a receiver
  (`Addressed`), and he is not the sender (`BetweenUsers`).

* **BalanceSyncProofs.** An amount travels from the attribute over the run's copy
  (`quotas`), the stored goal and a request that may be late; `GoalsAreOffered` and
  `LateIsDue` say that each of these holds a quota the user has had since the event,
  `ReplyIsTrue` that an answer is still true when it is noted (a deleted user stays
  deleted), `OpenIsUnset` that without faults only the target whose answer is in hand may
  be set and still open. From it `TypeCorrect`, `CompleteIsSettled`, `StatusTrue`,
  `QuotasOnly`, `SetOnce`, and with `CreateEventEffect` the action property
  `NoCycleSlips`.
* **ResetCardProofs.** `UseOnce` and `RunIsTrue`: a run or late request that may still use
  a card finds its reservation claimed, is the only one, and none was used. `CopiesAreTrue`:
  a final result in any copy, however old, is the one in the journal, which never changes
  it. `ClosedFirst`: before the switch is closed no copy has a result, so `update_result`
  cannot mistake it for closed, and afterwards the validation lets no copy open it again,
  because the reservation is neither on in the file nor in the future. From them
  `TypeCorrect`, `OneCard`, `ResultsTrue`, `SwitchedOff`, `EditsKept`, `CancelledStays`.
* **RateLimiterProofs.** The deque is compared with the log: it holds the readings of the
  latest admissions, each off by at most `MaxDelay` (`DequeIsSuffix`), and what it no
  longer holds is older than a window less the delay (`ForgottenAreOld`), although
  readings are not sorted. From it `LimitHolds` and `RefusalsJustified`.
* **ForwardProofs.** Calls meet only in the map of transports, so the invariant is one of a
  single call (`CallInv`): handler, request, context and frames. From it `TypeCorrect`,
  `TruncationShows`, `TransportShared`, and three that no run checks: `CallsAnswered`,
  `NotSentTrue`, `EndTrue`.

What the proofs rest on beyond the code: the host applies one configuration at a time
(`HostStores`), keeps balances from becoming negative, and a thread waits for the
limiter's lock no longer than `MaxDelay`, which nothing in the code bounds; with a longer
wait the limit is exceeded or the refusals come too often by as much.

Only model-checked is what holds under fairness, which TLAPS does not prove:
`EventsSettle` of both modes, `ResultReported` and `SwitchesOff`, `CancelledCallEnds` and
`GoroutineEnds`. Every invariant and action property of the passing runs, and both
refinements, are theorems. The properties of the four divergences are false and so have
none; what does hold in their place is `ClearedOnce`, `SetOnce` and `OrphansNeedFaults`.

## Not modelled, and the plan

In the order in which they matter:

1. An abstract reservation (open, claimed, used or not, told) with `ResetCard`
   implementing it.
2. `PluginConfig`: `TestConfig`, which compares the digest in the status file with the
   configuration, and the value ranges of the other settings. The Go and Python parsers
   are two implementations of one rule and can be compared over bounded inputs.
3. `BalanceSync` composed with `CycleDecision` as `QuotaSync` is, instead of with numbered
   cycles.
4. Theorems: a bound on how often a subscription can be cleared for one event where
   `ClearedOnce` does not apply (several accounts, or reset cards, under faults).

Left out for good: parsing of single configuration values (its guarantees are the
assumptions on the constants), the catalogue and status files (nothing reads them
back), generated gRPC code, the settings page and the host's UI patches, packaging.
Within the modelled parts: group ids and reset flags of an event are taken to be those
of the configuration; an SQLite error in the middle of a request or a run is not
modelled, except as a crash.
