# Verification of the gateway's billing, tasks, sessions and clients

The repository is an AI API gateway: users call models through it, it charges
their quota, forwards the call to an upstream channel and keeps the books.
Synchronous calls are charged and settled within one HTTP request.
Asynchronous ones (music, video, plugin and image tasks) outlive the request:
a row of the `tasks` table carries status *and* money, and goroutines of
several nodes work on it without a common lock. Users reach the gateway through
a dashboard in the browser, whose tabs share one login session, or through a
desktop application that runs the server as a child process.

This directory holds TLA+ models of the parts whose state is shared between
concurrent actors, the TLC runs that check them, and TLAPS proofs of their
safety properties for every instance.

## Inventory

| part | state | operations | what is hard |
|---|---|---|---|
| asynchronous tasks (`service/task_polling.go`, `service/task_billing.go`, `model/task.go`) | `tasks` rows: status, progress, quota (the bill, and refund marker of a FAILURE row), copies in memory | submit, poll, timeout sweep, refund sweep, settle, bulk failure | overlapping pollers, whole-row writes of old copies, crash between claim and credit |
| realtime fetch (`relay/relay_task.go`) | copy of a row | load, ask upstream, write back | a user's GET races sweeps and refunds |
| image tasks (`controller/canvas_image_task.go`, `model/image_task.go`, `service/image_task_maintenance.go`) | `tasks` row with a refund marker, consume log, audit log | admit, relay, finish, recover, refund in two transactions, audit | worker death, resumable refund, sink without unique key |
| system tasks (`model/system_task.go`, `service/system_task.go`) | `system_tasks`, `system_task_locks` | create, claim, take over, heartbeat, expire, finish | leases, slow claims, dead runners |
| billing session, funding sources (`service/billing_session.go`, `funding_source.go`) | per request: pre-consumed, reserved, settled, refunded | pre-consume, reserve, settle, refund | deferred error paths, two balances (funding, token), several wallets |
| quota cache, batch updater (`model/quota_reserve.go`, `user.go`, `user_cache.go`, `user_auth_cache.go`, `utils.go`) | `users` row with a generation, Redis hash and generation floor, in-memory deltas | reserve, fill, compensate, credit, repair after a refund, override, flush | fills from an old read, errors of scripts that ran, lost batches |
| subscriptions, vouchers, top-up, redemption (`model/subscription.go`, `benefit_voucher.go`, `topup.go`, `redemption.go`) | balances and orders | pre-consume, reset, pay callback, redeem | duplicate callbacks, reset against pre-consume |
| login sessions (`web/src/lib/auth-session.ts`, `auth-session-sync.ts`, `http-client.ts`, `service/auth_session.go`, `model/user_session.go`) | per tab a store and a refresh in progress; per browser a cookie and a lock; `user_sessions` | sign in and out, refresh with rotation, replay of a request, session events between tabs | answers and `Set-Cookie`s out of order, tabs refreshing together, lost rotations |
| playground chat (`web/src/features/playground/hooks/`) | message list, request generation, flush buffer, event source | send, stream, flush, complete, fail, stop, unmount | chunks of replaced streams, timers and React updaters that run late |
| desktop shell (`electron/main.js`) | child process, probes, windows, dialogs, quit flag | start, probe, close to tray, report a crash, quit | child, timers and user act between event handlers |
| channel selection, concurrency, Midjourney, audits, archive, pages and forms of the dashboard | various | various | listed in PROJECT.json with the reason they are left out |

How the parts meet: the system-task runner starts the poller and the image
maintenance pass on some node; a lease that is lost cancels the context, but a
goroutine inside an upstream call keeps its copies until it looks. The poller
and the image refund share the `quota` column of `tasks`; both call the funding
sources. Submission charges through a billing session, before the row exists or,
for plugin tasks, in part after it does. A wallet reservation, a refund and a
top-up all go through the quota cache, which `BillingSession` and `ImageTask`
see as one balance. The dashboard talks to the gateway with an access token its
tabs renew by a shared cookie; the playground is one of its pages. The desktop
shell only knows that a port answers.

## Modules

| module | models |
|---|---|
| `ChargeLedger` | abstract: billed once; delivered (maybe at once) and settled at most once, or failed and refunded at most once, in full |
| `TaskLifecycle` | asynchronous tasks and the realtime fetch |
| `TaskLifecycleProofs` | theorems about `TaskLifecycle` |
| `ImageTask` | image tasks, maintenance, two-transaction refund, audit log, and the generic sweep as it meets image rows |
| `SystemTask` | the leased runner, one task type |
| `BillingSession` | billing of concurrent requests: wallet, token, subscription |
| `QuotaCache` | one wallet in database row, Redis hash and batch store |
| `AuthSession` | the tabs of one browser, their cookie and lock, and the server's sessions |
| `DesktopShell` | the Electron main process and its child |
| `PlaygroundChat` | one chat: requests, streams, flush buffer, React updaters |
| `ImageTaskProofs`, `SystemTaskProofs`, `BillingSessionProofs`, `QuotaCacheProofs`, `AuthSessionProofs` | theorems about the module of that name |
| `ClientProofs` | theorems about `PlaygroundChat` and `DesktopShell`, which share no state and no names |
| `SumTheorems` | what a sum over a finite set does when one term changes, for the two modules that add up amounts |
| `MC*` | symmetry sets and model values for TLC |

### TaskLifecycle

`row[t]` is status, quota and progress of a task. `NOT_START`, `SUBMITTED` and
`QUEUED` are one unfinished stage, `SUBMITTED`; `IN_PROGRESS` is the other,
because the code only tells whether the status changed under it. Progress is
`100%` or part of it, which is what the queries ask for: a row that is not
finished and says `100%` is read by nobody. `job[j]` is a goroutine with its copy
of one row and the place it has reached; every SQL statement is a step, every
upstream call lies between two steps. The constants choose the kind of each
task: legacy (submitted before the refund cutoff), Suno, without upstream id, on
a channel that may be deleted, on a channel with realtime fetch, of a plugin;
and whether the timeout sweep is switched on.

Three ghosts keep the money. `billed` is the price the submission and later
settlements recorded, `charged` what the funding source really paid, `credited`
what refunds gave back. `controller/relay.go` stores the price as the quota of
the row whatever became of the settlement, whose error it only logs; the task
is then `unsettled` and `charged` stays at what was pre-consumed, for another
price if a channel was tried before. A plugin task is stored first and settled
afterwards (`SettleBilling`), and pollers may meet it in between; if its plugin
answered at once it is stored as SUCCESS (`persistOfficialPluginTask`). A refund
pays the quota of the row, so the properties speak of `Price`: the real charge
of a task that was settled, the bill of one that was not. For the latter the
refund differs from what the user paid; this is what the code does.

A job loads a row (`Get...`), applies an answer by compare-and-swap
(`UpdateWithStatus`), then settles (`RecalculateTaskQuota`, `UpdateQuota`) or
refunds (`ClaimQuotaForRefund`, `refundNonImageTaskQuota`, `UpdateQuota`, or
`RestoreQuotaAfterFailedRefund`). `Fault` is a crash or a failing statement at
any place. Negative quotas do not occur at submission and are not modelled.

`Guarded` names the tasks whose rows are only written by compare-and-swap. The
safety properties are stated for them; `task_realtime` shows what an unguarded
writer does.

### ImageTask

`row[t]` adds the refund marker: state, amount, two progress bits and the claim
on the audit log. `evidence` is the set of tasks with a consume log, the only
trace of a charge after the worker died. `leaked` collects tasks for which a
fault destroyed that trace, or killed a poller that held the marker. The clock
is abstracted: a task may be found stale at any time, a claim expires once its
writer is gone (`ClaimLeaseExpires`), or under a slow writer
(`ClaimLeaseOutlived`, which counts as a fault). The swap on `updated_at` in
`ClaimFailedImageTaskRefundRetries` only spreads retries over time and is left
out, which allows more races. Token and user limits of the admission are one
limit. The kind of log sink and the generic poller are settings of a deployment;
the constants `ClickHouse` and `UpdateTask` give them per task, so that one
instance covers both, since tasks share nothing but jobs and the admission
limit. Deleting old result data changes no column the model has.

### SystemTask

One task type (the lock row is per type). Time is exact but relative:
`lock.left` is `locked_until - now`, `pass[r].age` how long ago the pass of
runner `r` read the clock; a lease is written as `TTL - age`, and a lock is
expired for a pass if it was so when the pass read the clock. `MaxStall` bounds
how long a pass takes. Handlers renew, finish or give up; `RenewSystemTaskLock`
is never required to happen. `Fault`s are dead runners and failing statements,
among them the read-back after a successful claim. Progress reports
(`UpdateSystemTaskState`) write a text column under the same condition as
`FinishSystemTask` and change nothing else.

### BillingSession

Several requests of one user share `wallet`, `token` and one subscription
(`subUsed`, with the record that makes its refund idempotent). `sess[s]` has
the fields of `BillingSession` and of its funding source, and a program
counter; every call into package `model` is a step. `NewBillingSession` with
its fallbacks, `preConsume`, `Reserve`, `Settle` and `Refund` are sequences of
such steps, in the order of the code. `StatementFails` lets the statement of
any step fail and follows the error path of the code; `RefundAnswerLost` is a
commit reported as an error to `refundWithRetry`; `Crash` loses a session. A
failing statement outside that retry is taken to have changed nothing.

The balances are single numbers: Redis copies and batch updates are the subject
of `QuotaCache`. All subscriptions of a user are one. Vouchers and
`CompositeFunding` are not part of the module, nor is the path of
`SettleBilling` for requests without a session. `TrustQuota`, amounts and
totals are scaled down.

When a subscription cannot bear the positive difference at settlement,
`PostConsumeUserSubscriptionDelta` refuses it, every caller only logs the error,
and the request costs what was pre-consumed (`unsettled`); a settlement whose
statement fails ends the same way, also for the wallet. So users can be
undercharged. `Shortfall` is that difference, and `OnlySettlementsFallShort` says
that there is no other. After a reset, a
refund of quota that was pre-consumed before it credits the new period; usage
may then be less than the period's requests cost, which is why the equations
about the subscription ask for `resets = 0`.

### QuotaCache

`row` is the balance and generation of the `users` row, `hash` the Redis copy or
`NoHash`, `floor` the key that tells readers which generations are too old,
`store` and `taken` what the batch updater has collected and what it is about
to write. `call[c]` is one call of one function with the goroutine it starts.
A Lua script is one step, an SQL statement is one step, and an expiry of the
hash may come between any two. `Amounts` are quotas; `Modes` lets a behaviour
choose `BatchUpdateEnabled`.

Four ghosts state what the books should be: `net`, what successful calls moved;
`lost`, what a failed batch or a restart dropped; `repaired`, the newest
generation whose refund repaired the cache; and `drifted`, set at the events
that part the hash from the books: a fill from a snapshot the row has left or
while deltas are queued or under way, a reservation that fell back to the row
while there is a hash, a statement or script that failed, a restart with deltas
in memory, and an override until it has deleted the hash. Each is told by what
happened, never by comparing the hash with the books; a hash that is deleted or
expires ends it. A refund's repair is not among them, and is expected to keep a
hash that follows the books following them: until the repair, a committed
refund is missing from a hash of an earlier generation and from no other
(`Unrepaired`). `CacheTracksBooks` says that nothing else makes the hash wrong.
A `Fault` is a failed statement, a lost answer, a refusal by
the authentication fence or a restart. The token's own hash has no generations
and is not modelled; neither is a hash of an older schema.

### AuthSession

A tab is its `useAuthStore` (`tab`), its `refreshPromise` (`refresh`), the
request its user waits for (`op`) and the session events it has not handled
(`inbox`). `cookie` and `holder` are the browser's; `status` is the column of
`user_sessions`. Refresh tokens form a chain, so a token is its session and its
age: 0 current, 1 previous (which the server still knows), 2 older. Request,
handling and arrival of an answer are three steps, and a `Set-Cookie` takes
effect at the third, so two answers may swap. `left` remembers what a page was
told, until it is reloaded. `HasLocks` stands for `navigator.locks`, `RaceDelays`
for the length of `refreshRaceDelays`. Time only appears as what it allows: an
access token may expire, and the replay window of a rotated token may be over,
at any moment.

A page that is reloaded or whose request times out gives up the request, not the
server: `late` holds, in up to `Slot` places, the tokens of refresh requests that
nobody waits for and the server has not handled. They may be dropped, rotate the
session, or present a token that was rotated meanwhile and have the session
revoked (`AbandonedIgnored`, `AbandonedRotates`, `AbandonedReused`). `lost` has the
sessions with a rotation that the browser was never told of or that overtook
such a request. A sign-out that was given up and is handled later is covered by
`RevokeUserSession`, which may happen at any time.

### DesktopShell

Handlers of the main process are atomic; the child, its port, the timers and
the user act between them. `taken` is a port that another process answers on.
`window` has every `BrowserWindow`, because a click on the dock icon during
startup and the end of the startup each create one. A probe that fails raises
`error`; one that times out is destroyed, which raises `error` as well, so two
handlers run and each starts another probe (`ProbeTimesOut`): `probes` and
`timers` count them. The counter of attempts can therefore pass `maxRetries`, and
stays below twice that number, as `ShellOK` says. The analysis of error logs
decides the text of a dialog and is left out.

### PlaygroundChat

A request is its generation. What handlers pass to `setMessages` is an updater
that React runs at once if the component has nothing to render, or else at the
next render, after other handlers: `queue` keeps those, and `Run` evaluates
each against the generation of that later moment, as the closures over refs do.

Text is a sequence of letters, and a letter in a buffer or a message knows its
place in the stream. `Merge` is both merges of the code, that of the flush buffer
and that of the message: a text that starts with the one it is added to is taken
for cumulative and replaces it. A stream that says the same thing twice in a row
("ha", "ha") can lose text that way, depending on when the buffer was flushed.
`CompletedIsWhole` therefore promises the whole text for streams that do not
repeat themselves (`Repeats`), and `OwnTextInOrder` holds for all.

## Runs

| run | result | states | shows |
|---|---|---|---|
| `task_refund` | pass | 518 thousand | an ordinary, a legacy and a plugin task, two jobs, prices 0 and 1, failed and late settlements, one fault: `NoDuplicateRefund`, `RefundAccounted`, `TerminalIsFinal`, the inductive invariant `RefundInv` (which contains the type invariant and implies `DeliveredNotRefunded`), and `ImplementsLedger` |
| `task_live` | pass | 128 thousand | `FailedIsRefunded`: owed refunds are made; `EveryTaskEnds`, but for a task at 100% that is not finished |
| `task_realtime` | violation | | finding 1: a realtime fetch causes a second refund |
| `image_refund` | pass | 123 thousand | a subscription task that the generic sweep meets and a wallet task on a sink without unique key, two jobs, two faults: `ReversedOnce`, `ClosedIsComplete`, `AuditedOnce`, `NoForgottenRefund`, `ImplementsLedger`, and the promises `BilledTaskEnds` and `RefundIsClosed` |
| `image_lost` | violation | | finding 2: the generic sweep loses a refund |
| `system_lease` | pass | 77 thousand | two rows, two runners, one fault, TTL 2: `ExecutedOnce`, `RunningHasLock`, `TerminalIsFinal`, `EveryRunEnds` |
| `billing_books` | pass | 2.9 million | two requests, strict and lenient subscription, a reset, expiry, one fault: `BooksBalance`, `OnlySettlementsFallShort`, `DebtOnlyAfterAdmission`, `StrictStaysOnSubscription`; the subscription's usage stays between 0 and its total (`TypeOK`) |
| `quota_wallet` | pass | 617 thousand | two callers, three calls, with and without batches, two faults: `BooksBalance`, `CacheTracksBooks`, `RepairFencesOldSnapshots` |
| `auth_tabs` | pass | 2.2 million | two tabs, two sessions: `LeftForGood` |
| `auth_leaves` | pass | 197 thousand | two tabs, one session, one abandoned request: `ReuseNeedsLoss`, `RevokedTabLeaves` |
| `shell_quit` | pass | 17 thousand | installed and development application, three retries: `NoOrphanServer`, `FailureEnds`, and no window is used after it is gone (`ShellOK`) |
| `chat_stream` | pass | 171 thousand | up to three generations, three letters, deltas of which one starts with the other: `OwnTextInOrder`, `CompletedIsWhole`, `GenerationEnds` |

Bounds. Two jobs suffice for every pairwise race of claims and swaps; each
further one is covered by the proofs. The three tasks of `task_refund` differ in
kind and let jobs mix them up; nothing relates more than two. Prices 0 and 1 tell
"free", "charged" and "settled to another amount" apart, and a pre-consume of 0
against a price of 1 is a settlement that failed (one that should have given
back is covered by the proofs). One fault on the generic tasks is enough for
each place a job can die, since a task accepts the leak; image refunds get two,
because they promise to resume. In `system_lease`
one runner holds the lock while the other takes over or fails stale rows; a
pass is at most one unit slow against a lease of two, because a claim slower
than the lease strands its row (see below). Two requests exhaust each other's
wallet, token and subscription (3, 3 and 2 against amounts 0..2), pass and miss
the trust limit, reserve up to twice and settle above, at and below what was
pre-consumed; requests that do not charge their token are left out of
`billing_books`, as they triple its states and only skip steps.

In `quota_wallet` a start of 1 against amounts 1 and 2 makes reservations
succeed and fail; three calls are enough for a slow fill to meet a refund, its
repair and another reservation, and two faults for a failed statement before a
restart. In `auth_tabs` three events of the kinds
`MaxSteps` counts (sign-ins, sign-outs, security changes, revocations, reloads,
failed requests, abandoned requests that arrive) suffice to sign in, sign in
elsewhere and lose an answer, while tokens expire, tabs refresh and events pass
freely in between; one race delay stands for three. `auth_tabs` has no place for
abandoned requests, which would multiply its states and neither show a tab
anything nor bring back a revoked session; `auth_leaves` has one, and two counted
events: one tab signs in, the other is reloaded by the session event while its
refresh is on the way (which is not counted), and the request arrives after the
next rotation. Requests given up by a timeout, and several at once, are covered
by the proofs, which hold for any number of places, tabs and events. In
`chat_stream` a stop takes a generation too, so three generations hold two
requests and a stop, or three requests; three letters make a text that repeats
itself and one, "aba", that does not. `shell_quit` is exhaustive but for
`MaxRetries`, and 3 lets failed and timed-out probes mix and pass the limit.
Symmetry is used in safety runs only, over jobs, callers, tabs, login sessions and
billing sessions, which no model orders. Deadlock is not checked: a
system with all work ended may stop.

Fairness. A goroutine that is not killed executes its next statement (weak
fairness per job, pass and handler; an upstream call ends, by
answer or timeout). The poller is scheduled while
`HasTaskPollingWork` finds unfinished or unrefunded rows, maintenance while
`HasImageTaskMaintenanceWork` does, every pass loads the rows in question, and
they stay there until served: strong fairness of the load actions, because all
jobs may be busy from time to time. Nothing makes a user fetch, an upstream
answer, or a heartbeat arrive in time. In `task_live` the timeout sweep may
lose its swap for ever to an upstream that keeps moving the task between
unfinished stages; `EveryTaskEnds` excludes such upstreams explicitly, and so it does
tasks whose upstream reports 100% before they are finished; it is a promise of
deployments with `TaskTimeoutMinutes > 0`.

In the browser, requests are answered or fail, session events are delivered
and a tab acts on what it received (weak fairness of a refresh's next step, of the
user's request and of session events); the lock is granted in the
order of requests, which the model states as strong fairness of taking it, and
an open dashboard keeps calling the API whenever no other request is under way
(strong fairness of a 401). Nobody has to sign in or out. The shell's event
loop runs timers and handlers and a user answers message boxes; the server
owes it nothing. In the playground React renders, timers fire and every
request comes to some end, of whatever kind.

## Findings

1. `relay/relay_task.go:772`: the realtime fetch writes a FAILURE copy back
   with its refund marker after another goroutine claimed the marker
   (`task_realtime`; in TLC's trace the timeout sweep failed the task, a poll
   that gets a FAILURE does as well).
2. `service/task_polling.go:109`: the generic refund sweep claims image tasks
   and the image refund takes the claim for a completed refund (`image_lost`).

Also seen while modelling, and not kept as runs:

- `service/task_polling.go:458` uses `TaskBulkUpdateByID` in a billing flow
  against the warning at `model/task.go:711`: a task delivered after the poller
  listed it is failed and refunded.
- `model/system_task.go:247`: the update to `running` does not look at the lock,
  so a claim slower than the lease leaves a running row without a lock, and its
  `active_key` blocks the task type.
- Sign-out with an expired bearer and a refresh cookie one generation behind
  answers success and revokes nothing (`controller/auth_session.go:89`,
  `model/user_session.go:751`), where `docs/authentication.md:60` has the
  session revoked.
- In batch mode, a hash that expires before the batch is written is filled from
  a row without the queued deltas, and authorises the same quota again;
  `quota_reserve_test.go:119` says that a stale balance must not authorise a
  second spend, which holds only while the hash that was charged is alive. In the
  model this is a fill that sets `drifted`, and `CacheTracksBooks` does not cover it.
- `SetUserQuota` deletes the hash but publishes no floor, so a reader with the
  old row in hand restores the old balance (`model/user.go:1353`).
- A server that exits with code 0, or by a signal, has the shell close the main
  window (`electron/main.js:371`); the close handler only hides it.
- A stream that ends with status 200 and without `[DONE]` leaves the
  playground in the generating state until the user stops it;
  `GenerationEnds` excludes this case by name.
- A 401 is replayed with whatever token the store holds after the refresh,
  which may be of another session (`web/src/lib/http-client.ts:108`).
- `stopGeneration` flushes and then moves the generation that the flush's
  updater compares: if React runs it later, the last text is dropped.
- `CompositeFunding` settles and reserves on subscription id 0 when a voucher
  covered the whole pre-consume, and the replay check of
  `RefundBenefitVoucherAdditional` can take a second equal refund for the first.
  This is a reading of the code: the composite source has no model yet.
- An image task whose worker died before it was billed has no consume log, stays
  unfinished and keeps an admission slot of its user; with consume logging
  switched off no image charge leaves evidence.
- A task that reports progress 100% before it is finished (plugins may) is neither
  polled nor timed out (`model/task.go:497`, `:536`).
- A settlement that fails at submission is only logged (`controller/relay.go:583`) and
  the row carries the new price: if the task fails later the user gets back the
  price, more or less than was paid. A plugin task that a poller failed and
  refunded before its settlement is settled all the same.
- A refresh request that a reloading page gave up may reach the server after
  another tab's rotation and the replay window, and has the session revoked as
  stolen (`model/user_session.go:643`).
- A startup probe that times out counts twice and starts two further probes
  (`electron/main.js:202-217`).
- Two equal deltas in a row can be shown once
  (`web/src/features/playground/hooks/use-chat-handler.ts:58`,
  `lib/message/message-streaming-utils.ts:73`).

## Proofs

Every theorem holds for every value of the constants that satisfies the named
assumption of its module: sets of tasks, jobs, runners, callers, requests, tabs
or windows of any size, any amounts, and any bound on faults and steps. The
assumptions say that sentinel values are not elements of the sets they stand
beside and that bounds are natural numbers; beyond this only `BillingSession`
and `QuotaCache` ask for something, a finite set of requests or callers, because
they add up over it, and `BillingSession` for at least one preference.

| theorem | states |
|---|---|
| `TaskLifecycleProofs` `TypeCorrect`, `RefundInvariant` | `Spec => []TypeOK`, `Spec => []RefundInv` |
| `RefundedAtMostOnce`, `DeliveredKeepsCharge`, `FailedChargeAccounted` | always `NoDuplicateRefund`, `DeliveredNotRefunded`, `RefundAccounted` |
| `TerminalStays`, `RefinesLedger` | `TerminalIsFinal`; `Spec => ImplementsLedger` |
| `ImageTaskProofs` `TypeCorrect`, `AccountingReversedOnce`, `ClosedRefundsAreComplete`, `RefundLoggedOnce`, `RefundNeverForgotten` | always `TypeOK`, `ReversedOnce`, `ClosedIsComplete`, `AuditedOnce`, `NoForgottenRefund` |
| `RefinesLedger` | `Spec => ImplementsLedger` |
| `SystemTaskProofs` `TypeCorrect`, `RunsOnce`, `TerminalStays` | always `TypeOK`, `ExecutedOnce`; `TerminalIsFinal` |
| `RunningRowsKeepTheirLock` | always `RunningHasLock`, if `MaxStall =< TTL` |
| `BillingSessionProofs` `TypeCorrect`, `ChargedWhatItCost`, `NeverShortOtherwise`, `DebtBounded`, `StrictStays` | always `TypeOK`, `BooksBalance`, `OnlySettlementsFallShort`, `DebtOnlyAfterAdmission`, `StrictStaysOnSubscription` |
| `QuotaCacheProofs` `TypeCorrect`, `BooksAlwaysBalance`, `CacheFollowsBooks`, `RepairFences` | always `TypeOK`, `BooksBalance`, `CacheTracksBooks`; `RepairFencesOldSnapshots` |
| `AuthSessionProofs` `TypeCorrect`, `NeverReturns`, `OnlyLossLooksLikeTheft` | always `TypeOK`, `LeftForGood`, `ReuseNeedsLoss` |
| `ClientProofs` `ChatAlwaysOK`, `ChatTypeCorrect`, `TextInOrder`, `CompletedShowsAll` | always `ChatInv`, `TypeOK`, `OwnTextInOrder`, `CompletedIsWhole` |
| `NoServerLeftBehind`, `ShellAlwaysOK` | always `NoOrphanServer`, `ShellOK` |

None of the safety properties is inductive as it stands. What makes them so:

`TaskLifecycle`. Whether a refund may be paid depends on what the copies in
memory say. `RefundInv` says, per guarded task and by row status, which places
jobs may be in and what they hold. Unfinished: all jobs are readers with the
whole bill. SUCCESS: readers, whose swap must fail, and at most one settling
job. FAILURE: marker set, marker owned by one job, or credited, never two of
these. A task outside `unsettled` was charged its bill (`ChargedInv`), so that
`Price` is the bill either way (`PriceIsBilled`) and the arguments about marker
and credit need not know how the submission was settled. `Frame` shows that an
action on one task leaves the invariant of the others alone, `TypeStep` types
the next state, `RefundStep` does the actions. `TypeCorrect` and
`DeliveredKeepsCharge` have no line of their own in a run: TLC checks both as
parts of `RefundInv`. The refinement needs no more than `RefundInv`: it fixes
what each task's phase and balance are, and each action changes those of at most
one task, in a way `ChargeLedger` allows.

`ImageTask`. The invariant has three parts. `ChargeInv` follows a charge: a task
has at most one worker, nothing is charged before its relay, a charge has a
consume log unless it leaked, and only failed tasks are on their way to a
refund. `QuotaInv`: the row and every copy of it hold the whole charge or
nothing, at most one polling job holds the quota it claimed from the row, and a
row whose charge was credited has no quota left. `MarkerInv`: the marker is
there from the money to the audit row, and its two progress bits say what
accounting and cache have really seen; on ClickHouse, where a row cannot be
inserted only if absent, the claim is a fence that keeps two writers of the
audit row apart.

`SystemTask`. `RowInv`: at most one row is open, a task was started by nobody but
the runner its row names, a runner that is claiming a row has not claimed it
before, and a handler belongs to the runner the row names. `RunningHasLock` also
needs `LeaseInv`: the lock of a running row is its runner's, a pass that took the
lock and has not marked the row yet still has it, with the lease it wrote, and a
lock that a pass will judge expired by the time it read is not that of a running
row. That is where `MaxStall =< TTL` enters, and without it the property is
false (see the finding about `model/system_task.go:247`).

`BillingSession`. The invariant gives every session the amounts it holds of
wallet, token and subscription at its place in the code, and says that each
balance is the opening one less the sum of these holdings. A step changes one
session, and `SumTheorems` says what that does to the sum. After a fault only an
inequality is left for the funding side: a statement that failed may have left
money with the gateway, and with the user only the surcharge of a settlement
(`CarriedIsHeld`: what a session holds covers its price less its `Shortfall`).
For the token not even that is promised once a fault happened. Debt is bounded
by the same kind of sum, of what was added after admission.

`QuotaCache`. `TypeInv` adds to the types that every snapshot which can still
reach the hash has a generation of at least 1. `CacheTracksBooks` compares the
hash with the row, the store, the batch taken from it and the sum of what every
call has under way. It needs one fact more, `PendingInv`: a call has a delta for
the hash only while it books or delivers it, so that delivering it settles the
call's part of the sum. That a repair keeps the hash right, and a repeated one does
not add the refund twice, needs `GenInv`: no two refunds under way have the same
generation, a hash is never older than the floor, and a repair that was done left
its generation there. `FenceInv` says that every repair
published its generation, and `OnlyTheScriptReserves` that a caller passes to the
persisting step by the script, which looks at the floor.

`AuthSession`. `FreshInv`: a session that was not issued, or whose login has not
been answered, is hidden. No store, cookie, request, answer, event or memory of
any tab names it, and one tab waits for it. So what a login brings
cannot be a session the page has left. `LeftInv` adds that
sessions left are revoked for good and that no answer that would still be
applied is about one; every step is, for every tab, one of four moves (nothing
new, leaving, gaining, being granted a token) that keep this. `LockInv`, for
browsers with locks: a refresh on its way holds the lock, the token it sent and
the cookie are current unless a rotation was lost, and the cookie may be one
generation behind only while the answer that renews it is under way. An abandoned
request has the current token, or its session counts as `lost` (`LateOK`).

`DesktopShell`. `ServerInv`: a living child is always the one `serverProcess`
refers to, so that `before-quit` holds the application back, and an unhandled
exit code is that of a dead child. `ProbeInv` bounds the probes: only an attempt
before the last is followed by others, and by two at most, so that those started,
scheduled and still possible stay below twice `MaxRetries`.

`PlaygroundChat`. The message as rendered says little about what the queued
updaters will make of it, so `ChatInv` is about two messages: the rendered one and
`Shown`, what the next render will show. Both are `Sound`: their letters are of
their request, in order, and if they are complete then the text is whole
(`Full`), or the user stopped the request. While a request is under way, `Shown` is
its pending message, and `Holds` relates it, the flush buffer and the text
delivered: the buffer is the end of that text and `Shown` lies before it, whatever
the merges dropped, and the two are all of it unless the text repeats itself.
That a merge drops nothing otherwise is a fact about texts (`StretchRepeats`: a
stretch that starts with the one before it is a repetition, and repetitions
stay, `RepeatsOn`). So an end that flushes before it completes leaves nothing
behind, whether the flush runs at once (`UpdateTwo`, `FlushShown`) or waits. The
buffer is empty unless a request of this generation streams, which is why old text
cannot get into a new message. For stopping, two facts more are needed: while
the page shows that it generates, no `replace` waits in the queue, and every
queued updater is of this generation or an older one. In the next generation
they all do nothing (`RunStale`), so the message that is finished is the rendered
one, of the request just stopped or of one stopped before.

Two definitions of the models are recursive functions, and what such a function
computes is a matter of induction, which the provers here cannot instantiate. The
proofs go around it with smallest counterexamples. A sum over a finite set is a
fold: a smallest subset for which a fact about sums failed would have to be
nonempty, and removing an element gives a smaller one. In this way `SumTheorems`
shows that the recursive function in the fold's definition exists and is unique,
and from its equation what changing one summand does to the sum. For the queue
of updaters, `ClientProofs` shows in the same way, with the first place where a
fact about `RunAll` fails (`LeastNatural`), that the function exists and is unique
(`RunExists`, `RunUnique`), that an updater queued last runs last (`RunAppend`) and
that stale updaters leave the message alone (`RunStale`), for a queue of any
length.

Only model-checked: the liveness properties, which need fairness and ENABLED and
are out of reach of the prover.

## Plan

1. (done) Asynchronous tasks with their ledger; image tasks; system tasks;
   billing sessions on wallet and subscription; quota cache; login sessions;
   desktop shell; playground chat.
2. (done) Proofs of the safety properties of all of these, and of both refinements
   of `ChargeLedger`.
3. `CompositeFunding` over voucher, subscription and wallet, with its
   capacities read beforehand and its rollbacks; an abstract specification of
   what a request finally costs.
4. Vouchers, subscription orders, top-up and redemption (duplicate callbacks);
   the token's cache; capacity leases of channels.

## Not modelled

Upstream protocols and adaptors, HTTP routing, pricing arithmetic, statistics
and usage counters other than those a refund reverses, logging, and the
features PROJECT.json lists as not modelled with the reason for each.

Most of the repository's TypeScript is the dashboard: pages, forms, tables,
charts, translations and settings, in two generations of the front end. A form
keeps its state in one component, changes it by one user's input and sends it
in one request; there is no second actor, no failure path beyond a message, and
nothing a state machine would say that the component does not. What is
concurrent in the front end is the login session and the streaming chat, and
those are modelled. The share of the source the models stand for is small for
that reason, and would not grow by modelling layout.
