# Verification of billing, background work and sessions

The repository is a gateway in front of many providers of AI models: a Go
server, forked from *new-api*, and a TypeScript front end (paths below are
relative to the repository's root). A request is authenticated by an API token,
priced, paid in advance from the user's wallet or subscription, relayed to a
channel with retries on others, and settled at its real price or refunded.
Asynchronous jobs (video, music) are recorded as tasks and polled by *system
tasks*, which the master nodes share through two database tables. Users of the
web front end hold a login session whose refresh token rotates, in any number of
tabs; the image playground keeps its history of paid generations in the browser.

This directory holds TLA+ models of the parts where concurrency and partial
failure decide about correctness, the TLC runs that check them, and proofs that
TLAPS checks.

| file | what it is |
|---|---|
| `BillingSession.tla` | the billing of relayed requests, its properties and mutants |
| `SystemTask.tla` | the system-task runner |
| `AsyncTask.tla` | the billing life of one asynchronous task |
| `Escrow.tla` | the account that `AsyncTask` promises its user, its abstract specification |
| `UserSession.tla` | a login session on the server: row, Redis snapshot, revocation |
| `AuthSession.tla` | login sessions as the tabs of a browser see them, with the server's rotation |
| `ImagePlayground.tla` | the history of the image playground in several tabs |
| `MC*.tla`, `MC*.cfg` | instances for TLC, named after the module and the question |
| `*Proofs.tla` | theorems about `BillingSession`, `SystemTask`, `AsyncTask`, `UserSession`, `AuthSession`, `ImagePlayground` |
| `PROJECT.json` | components, runs, mutants, the map to source lines, findings, hazards, theorems |

To repeat a check: `tlc -config MCBillingSession.cfg MCBillingSession`,
`tlapm BillingSessionProofs.tla`.

## 1. Inventory

| component | state | operations | what makes it hard | what makes it correct |
|---|---|---|---|---|
| Billing session (`service/billing_session.go`, `funding_source.go`, `relay/request_billing.go`) | one session per request: source, amounts taken, `settled`/`refunded`/`fundingSettled` flags | `NewBillingSession`, `preConsume`, `Reserve`, `Settle`, `Refund` | two ledgers (source, token) without a common transaction; concurrent requests on one balance; refund in a goroutine of its own | a failed request costs nothing, a served one costs its price, once; no overdraft by reservations |
| Retry-time repricing (`service/tiered_settle.go`, `image_billing.go`) | estimate in the request's `RelayInfo` | re-estimate per attempt, then `Reserve` or a late session | several reservations for one request | every reservation is in what is refunded |
| Relay loop (`controller/relay.go`) | retry counter | attempts, refund on exit, violation fee | fee charged next to the refund | every request and refund ends |
| Charges without session (`service/quota.go`, `violation_fee.go`) | none | `PostConsumeQuota` | takes without looking at the balance | does not disturb a refund |
| Quota store (`model/quota_reserve.go`, `user.go`, `token.go`, `utils.go`) | users and tokens in the database, their Redis copies, batch stores | reserve, increase, decrease, flush | three copies of a balance, expiry, lost batches | copies converge, reservations never exceed the balance |
| Subscriptions (`model/subscription.go`) | subscription rows, pre-consume records, orders | pre-consume, post-consume, refund, reset, expiry | nested transaction, retried refund, reset under reservations | `amount_used` is what running and served requests took in the period |
| System tasks (`model/system_task.go`, `service/system_task.go`) | `system_tasks`, `system_task_locks`, one loop per node, one handler and one heartbeat per task | create, claim, take over, renew, expire, finish | statements without a transaction, crashes, stalls, leases read and used later | one runner per task, live leases are respected, every task ends |
| Asynchronous tasks (`service/task_polling.go`, `task_billing.go`, `model/task.go`, `relay/relay_task.go`) | tasks with a status, quota, failure count | submit, poll, time out, settle, refund, realtime fetch | compare-and-swap against unconditional updates; stale copies of whole rows; crash between the two halves | a task is billed by one decision, refunded once if it fails, and always ends |
| Top-ups (`model/topup*.go`), redemption, check-in | orders, codes, daily records | callbacks, manual completion, redeem | repeated and reordered callbacks | credited once |
| User sessions (`model/user_session.go`, `service/auth_session.go`) | sessions, refresh hashes, Redis snapshots and tombstones | check, rotate, advance, revoke | snapshots written after the revocation; failing Redis calls | a revoked session is refused: at once after its tombstone, after one TTL in any case |
| Browser sessions (`web/src/lib/auth-session.ts`, `auth-session-sync.ts`, `http-client.ts`, `stores/auth-store.ts`) | per tab: store, refresh in progress; shared: cookie, Web Lock, channel | refresh, bootstrap, sign in, sign out, rotate, delete sessions, API calls | tabs that share one rotating cookie; replies that overtake each other, are lost or come after a sign-out | no session comes back after sign-out, no tab is taken for a thief, nobody waits for ever |
| Image playground (`web/src/stores/image-playground-store.ts`, `use-image-generate.ts`) | history in localStorage and in each tab, leases, paid calls | generate, retry, clear, heartbeat, reclaim, merge | read-merge-write without a lock; leases judged on stale memory | tabs converge, paid results are kept, nothing is replayed while its answer is on its way |
| Channels, rate limits, caches, adaptors, plugins, settings, rest of the front end | configuration, counters | | data rather than control | |

Interaction: `Relay` calls the billing session, which calls the quota store and
the subscriptions; the asynchronous tasks call the same session when they are
submitted and the store when they end; the poller is itself a system task, so
that its mutual exclusion is the runner's: since `SystemTask` shows that a
superseded handler may still be at work next to a newer one, `AsyncTask` has
several passes at once. `AuthSession` meets the server's rotation, `UserSession`
what the other nodes see of the same row. `PROJECT.json` lists every component
with its status and every hazard with its line.

## 2. `BillingSession`

Several requests of one user and one token run at once. `req[r]` holds the
position and the locals of the request's goroutine, `sess[r]` its
`BillingSession` with its `FundingSource` (the fields keep their names;
`consumed` is `WalletFunding.consumed` or `SubscriptionFunding.preConsumed`),
`job[r]` the goroutine that `Refund` starts. `wallet`, `token` and `subUsed` are
the columns `users.quota`, `tokens.remain_quota` and
`user_subscriptions.amount_used`; `record` is the status of the pre-consume
record. `paid`, `debt` and `faulted` are ghosts: what was taken for each request
and not given back (and the price it was settled at), what was taken without
looking at the balance, and which requests met a failing store call.

Every call into package `model` is one step and may fail (`StoreCall`), so that
other requests run between any two calls.

| actions | code |
|---|---|
| `TokenAuth` | `middleware.TokenAuth`: the token quota that the trust bypass compares with later |
| `PrepareRequestBilling`, `BeginSession`, `FirstSource`, `tryWallet`, `trySubscription`, `Fallback`, `Reject` | `PrepareRequestBilling`, `PreConsumeBilling`, `NewBillingSession` |
| `PreConsumeToken`, `PreConsumeFunding`, `UndoToken` | `preConsume` and its rollback |
| `PrepareTiered`, `PrepareImage`, `Reserve` | the re-estimates before an attempt and `Reserve` |
| `ReserveFunding`, `ReserveToken`, `rollbackFundingReserve` | the halves of `Reserve` |
| `AttemptFails`, `AttemptSucceeds` | the retry loop |
| `SettleFunding`, `SettleToken` | `Settle` |
| `RefundFailedRequest`, `PostConsumeFunding`, `PostConsumeToken` | the exit of a failed request, the violation fee, a charge without session |
| `RefundWallet`, `RefundSubscription`, `RefundRecord`, `RefundExtra`, `RefundToken` | the refund goroutine, with `refundWithRetry` and the two transactions of `RefundSubscriptionPreConsume` |

Abstractions.

* A price is any member of `Quota`; the expression and ratio arithmetic is left
  out. So is everything that only feeds logs, notifications or statistics.
* A call into the store is atomic and either does what it says or returns an
  error and does nothing. Its Redis copy and batch stores are planned as a
  module of their own (section 11). An increase beyond the largest wallet counts
  as a failing call.
* One subscription stands for the list that `PreConsumeUserSubscription` walks
  through. It has no periodic reset.
* A database error while the overflow rule is read takes the path of any other
  error of the funding source; errors of the request body or of a refreshed price
  fail the attempt.
* Any failed request may be charged the violation fee: the code asks the error,
  the model does not.
* The status *exhausted* that a token keeps after it ran dry is left out: it
  refuses more requests and moves no money.
* `ForcePreConsume`, which asynchronous tasks use, is left out; what follows the
  hold of a task is in `AsyncTask`.

### Properties

* `RefundReturnsAll`: when a request that was not served is over, nothing is held
  for it, however often it reserved, unless a store call failed for it.
* `ServedPaysActual`: a served request has paid its price, from one source and
  from the token; only a subscription that cannot take the difference keeps what
  was reserved.
* `NeverOverRefunded`: no order of rollbacks, settlements, refunds and failing
  calls gives more back than was taken. The subscription's part is restricted to
  requests without failing calls, see section 9.
* `NoOverdraft`: a balance is negative only by what was taken without looking at
  it, and the subscription stays within its total.
* `NeverRefundServed`: the refund goroutine never runs for a served request, nor
  next to a settled source.
* `RefundSeesFrozenSession`: nothing changes a session whose refund has begun.
* `EveryRequestFinishes`: every request and its refund end.

### Runs

| run | instance | result |
|---|---|---|
| `MCBillingSession` | a `subscription_first` request that overflows to the wallet, and a `wallet_first` image request; one retry each, one failing call anywhere | all safety properties hold |
| `MCBillingLiveness` | a playground request on an SQLite subscription without a limit and a wallet request, prices 0 to 2, an unlimited token, one failing call, fairness | `ServedPaysActual` and `EveryRequestFinishes` hold |
| `MCBillingImage` | one image request | violates `RefundReturnsEveryHold`, see section 9 |

Bounds. Two requests are enough for every interleaving of two users of one
balance; what a third would add is covered by the proofs, which have no bound.
Prices 2 and 3 give a top-up of 1, a settlement up and one down; a wallet of 4 or
5, a token of 6 and a subscription of 2 can pay one request and not always two,
or not the dearer price, so that every refusal and every rollback happens. A trust
threshold of 4 lets the wallet and the token of `MCBillingSession` be trusted at first and not later. One retry lets an
attempt be preceded by a failed one that reserved; one failing call at any place
reaches every error path, and the attempts of a refund end at 3 in any case.

Fairness. `FairSpec` asks for weak fairness of each request's goroutine and of
each refund goroutine, which is what the Go scheduler gives a goroutine that can
run. It assumes nothing about which way a step goes: calls may fail and attempts
may be retried as long as the code lets them.

## 3. `SystemTask`

One task type, since types share nothing but the loop that walks over them.
`rows` is `system_tasks` (`active_key` is set exactly while a row is pending or
running, so the status stands for both), `lock` the type's row of
`system_task_locks`, `runner[r]` the loop of a node in `runPass`, and
`handler[r][t]` the goroutine of `runWithLeaseHeartbeat` with its ticker. `now`
is the clock that all nodes share.

Every SQL statement is a step, and so is the moment at which an operation reads
the clock that a later statement compares with. Statements may fail, handlers may
panic (`Fault`), runners may crash, and with `Stalls` a runner may be delayed for
any time between two statements.

| actions | code |
|---|---|
| `CreateSystemTask` | `CreateSystemTask`, by the scheduler or the API, at any time; the unique index on `active_key` is its guard |
| `BeginStale`, `StaleSelect`, `StaleMark`, `StaleDelete` | `ExpireStaleSystemTaskLocks`, `MarkSystemTaskLeaseExpired` |
| `SkipStale`, `FindPending` | `runPass`, `runSystemTaskClaimPass` |
| `ClaimSelect`, `ClaimExpire`, `ClaimRun`, `ClaimRelease`, `ClaimReread` | `ClaimSystemTask` and the dispatch of the handler |
| `AcquireInsert`, `AcquireSelect`, `AcquireTakeover` | `acquireSystemTaskLock` |
| `RenewRead`, `RenewSystemTaskLock` | the heartbeat |
| `HandlerGivesUp`, `FinishRead`, `FinishSystemTask`, `FinishRelease` | the end of a handler |
| `Crash`, `Tick` | the environment |

Abstractions. Payload, state and result are data that no decision of the runner
reads: of `UpdateSystemTaskState` only its refusal remains (`HandlerGivesUp`). The
intervals of scheduler and passes are left out: a pass may come at any time. A
restarted node has a new runner id, so a crash is the end of a runner. With
`Stalls` a crash adds nothing to safety (it is a stall for ever), which is why
`MCSystemTask` has none. Clocks have no skew.

### Properties

* `OneRunnerPerTask`: no row is dispatched by two runners.
* `OverlapOnlyAfterExpiry`: of two handlers that work at the same time, the older
  has had its row failed.
* `FinishedForGood`: a finished row never changes.
* `LeaseRespected`: a lease that has not lapsed disappears only by its holder's
  release, whatever timestamps others have read before.
* `RunningIsLeased`: a running row has its lease row, by which the stale-lock pass
  finds it (for runners that are never stalled for longer than a lease).
* `EveryTaskEnds`: every row reaches a final status, so that the next task of the
  type can be created (under the same condition).

### Runs

| run | instance | result |
|---|---|---|
| `MCSystemTask` | two runners, two rows, TTL 1, clock to 2, one fault, any stalls | all safety properties hold |
| `MCSystemTaskTimely` | two runners that are in time, two rows, one crash, one fault, fairness | `RunningIsLeased` and `EveryTaskEnds` hold |

Bounds. With a TTL of 1 and a clock to 2 a lease can be taken, lapse, and be
taken over or deleted. Two rows are needed for a superseded handler next to a new
one. The clock passes its bound only where a lease that nobody will renew has yet
to lapse, so that the bound never keeps a task from ending.

Fairness. `FairSpec` asks for weak fairness of the clock, of every loop (a ticker
wakes it) and of every handler (handlers return once their context is cancelled,
the contract in the comment of `SystemTaskHandler`), and for strong fairness of
`BeginStale`, because the loop comes back to a due stale-lock pass every 30
seconds. Nothing is asked of the heartbeat, of crashes or of statements failing.

## 4. `AsyncTask` and `Escrow`

One task, since tasks share no state. `row` is its row of `tasks`, `paid` what
the user has been charged net of what came back, `sub` how far the request that
submits it has come, `up` the job at the upstream service, `worker[w]` a polling
pass (or a user's fetch) with the copy of the row it read. `late` is the timeout.
`spoiled` is a ghost: the reasons for which the row may not tell the price.

| actions | code |
|---|---|
| `Insert`, `InsertFails`, `SettleSubmission` | `executeTaskSubmissionWith`: the row is durable before the session is settled |
| `Pass`, `List` | `sweepTimedOutTasks`, then the listing of `RunTaskPollingOnce` |
| `Answer` | `updateVideoSingleTask`, `updateBatchTasks`, `recordPollFailure`, `failTaskFromPoll` |
| `BulkFail` | `TaskBulkUpdateByID` for tasks whose channel or upstream id is gone |
| `Write` | `UpdateWithStatus`, the compare-and-swap on the status |
| `Adjust`, `Mark` | the money and then the row, in `RefundTaskQuota` and `RecalculateTaskQuota` |
| `Crash`, `UpstreamEnds`, `Expire` | the environment |
| `FetchRead`, `FetchReply` | `tryRealtimeFetch`, only in `RealtimeSpec` (Gemini and Vertex channels) |

Abstractions. The funding source and the token are one balance, moved by one
step that may fail. A settlement comes to any price of `Amounts`. Statuses that
are not final and not `NOT_START` are `IN_PROGRESS`. The batch and the single
poll differ in when they list and ask, not in what they write, and are one
action. A pass that is killed may start again.

`Escrow` is the account a user is promised: a price when the task is recorded,
one decision after the task has ended, nothing after that. `AsyncTask`
implements it with the phase read off the row and the passes, and the price
`Price` (`paid` without what the submission has not returned yet).

Properties. `NeverOverRefunded`: a task never gives back more than it was
charged. `RowTellsThePrice`: `Task.Quota` is what the user still pays, outside the
moment between money and row, a crash or failed `UPDATE` just there, and legacy
tasks. `FailedIsRefunded`: a failed task costs nothing once nobody is about to
refund it; the exceptions are named in `spoiled`. `EndedForGood`: stale copies
never revive a task. `Escrowed`: the refinement. `EveryTaskEnds`: every recorded
task gets a final status.

| run | instance | result |
|---|---|---|
| `MCAsyncTask` | two passes, tiered and usage billing, legacy and recent, two failing polls allowed, one failing statement, one crash, fairness | all seven hold |
| `MCAsyncRealtime` | one pass, one fetch | violates `NeverOverRefunded`, see section 9 |

Bounds. Two passes are what an expired lease of the runner gives; a hold of 2 and
the prices 1 and 3 give a submission below the hold and settlements up and down.
`Progress = {"part"}` leaves out a service that reports 100% of a job that is
still running: such a row is neither listed nor swept, and `EveryTaskEnds` fails
for it. The proofs include it.

Fairness. Weak fairness of every pass (the runner starts one after another,
`EveryTaskEnds` of `SystemTask`) and of the timeout. Nothing is asked of the
upstream service.

## 5. `UserSession`

One session. `row` is its row of `user_sessions`, `cache` the hash in a shared
Redis with the time at which Redis drops it, `req[p]` a request that checks the
session or a refresh or version advance that fills the snapshot, `rev[r]` a
revocation. Every statement, every script and every reading of the clock is a
step. `final`, `late` and `overdue` are ghosts: the revocations whose final
tombstone was written, and the requests that began after it or a TTL after the
revocation.

| actions | code |
|---|---|
| `Begin`, `Lookup`, `Deadline`, `ReadRow`, `Tombstone` | `GetUserSessionCached` |
| `Rotate`, `Advance` | the row updates of `RotateUserSessionRefresh`, `AdvanceUserSessionAuthVersion` |
| `Prepare`, `Write`, `Verify` | `writeUserSessionCache`: the expiry, the script, the check after it |
| `Confirm` | `confirmUserSessionActiveSnapshot` |
| `Candidate`, `Fence`, `UpdateRow`, `Finalize` | `RevokeUserSession` with `writeUserSessionDenyFence` |
| `Tick`, `Return` | the clock, the answer to the request |

Abstractions. Redis is shared by the nodes (the deployment for which
`docs/authentication.md` promises immediate propagation), and clocks have no
skew. Time is in units of which a TTL has `TTL`. Any call to Redis may fail.

Properties. `StalenessBounded`: a request that begins a TTL after the revocation
is refused, whichever calls fail and wherever the revocation stops.
`DeniedAtOnce`: after a final tombstone no later request is accepted, neither by a
snapshot that is written afterwards nor when the tombstone has expired.

`MCUserSession`: two requests of any kind, one revocation, a TTL of 2 in a time of
4, two versions, one failing call, requests symmetric. A TTL of 2 lets a snapshot
be read, delayed and written with part of its time left. Both hold. The proofs
have no bound.

## 6. `AuthSession`

The tabs of one browser profile share the refresh cookie (`jar`), the Web Lock
(`queue`) and a broadcast channel (`inbox`). Each has its auth `store`, at most
one refresh (`run`, the module's `refreshPromise`), an API call, a sign-in and a
sign-out under way. `row` is the server's side: a refresh token is the session and
its generation, and `window` says whether the grace period of the predecessor is
open. A refresh has steps of its own for the lock, the request, the server, the
reply and the delay after a race. Its reply stores its cookie when it arrives,
whatever the page makes of the body. A page that is reloaded takes its exchanges
with it: the server may still process a refresh (`orphan`), but the browser has
cancelled the request, and the cookie of the reply is dropped.

| actions | code |
|---|---|
| `StartRun`, `Granted`, `SendRefresh`, `RefreshReply`, `RaceDelay`, `LoseRefresh`, `Settle` | `refreshAuthentication`, `performRefreshWithBrowserLock`, `createRefreshRunner`, `requestRefresh` |
| `ServerRefresh`, `Rotation`, `WindowCloses`, `ServerOrphan` | `RefreshAuth`, `RefreshLoginSession`, `RotateUserSessionRefresh` |
| `PageLoad`, `Reload`, `Resolve`, `TokenExpires` | `bootstrapAuthentication`, the root route, `resolveAuthentication` |
| `Publish`, `Deliver` | `auth-session-sync.ts` and its listener in the root route |
| `SignIn`, `SignInReply` | the sign-in form (`handleLoginSuccess`) and the callback pages of the providers |
| `SignOut`, `SignOutReply`, `LoseSignOut` | `executeLogout`, the sign-out dialog, `AuthLogout` |
| `RotateCurrent`, `RotateReply` | a change of credentials (`advanceCurrentSessionToVersion`) and `applyAuthRotation` |
| `DeleteSession`, `DeleteAccount`, `EndReply`, `LoseReply` | `DeleteLoginSession`, `DeleteSelf`, the session list and the account dialog |
| `RevokeElsewhere` | `RevokeUserSession` on behalf of another device |
| `ApiSend`, `ApiSendOnce`, `ApiReply` | the interceptors of `http-client.ts` |

The form is offered to a tab without a session, and its bundle is dropped if the
tab's session changed before the reply. The callback pages look at no store: the
effect of `/oauth/$provider` runs again with each session of the store and awaits
the same exchange, and the WeChat page compares nothing, so that their bundle may
replace a session which bootstrap has installed meanwhile.

The server may fail a refresh before it has done anything, and also after the
rotation is committed: `writeUserSessionCache` finds a newer version, its
confirmation fails, or `issueAuthBundle` does. The tab then gets an error and
keeps the previous token. If it does not refresh again within the grace period,
the next refresh counts as reuse and the session is revoked.

Abstractions. All sessions are one user's. Sign-in and sign-out reach the server
when they are sent, their replies come later. The epoch of a refresh is the flag
whether it still is the current one. The hint cookie is a free choice at page
load. A redirect to the sign-in page is a later `Reload`. A session that ends by
another device or by the account's version is revoked when the model says so, not
when a refresh finds out.

Properties. `SignOutSticks`: a refresh on its way never brings a session back.
`JarAtMostOneBehind`: the cookie is one of the two tokens the server recognises.
`ReuseOnlyIfUndelivered`: the server takes the browser for a thief only if it had
rotated to a token the profile never got, because the reply was cut off or the
request failed after the rotation; tabs that refresh at once do not suffice.
`MismatchAnsweredOnce`: the retry after a mismatch is not answered by another.
`SwitchOnlyBySignIn`: only the reply of a sign-in that the tab itself began takes
it from one session straight to another; refreshes, rotations, deletions and
events do not, whatever happened while they were on their way. `RefreshEnds`:
every refresh settles.

`MCAuthSession`: two tabs, two sessions of two rotations, three operations of
users or other devices, one lost or failing exchange, one retry after a race (the
code has three). `MCSpec` fixes which of the two interchangeable sessions an
earlier visit may have left (643,686 states). Two tabs are what a race needs; one
lost or failing exchange is what `ReuseOnlyIfUndelivered` excepts. A sign-out that
meets a second mismatch after its recovery needs a third session and is left to
the proofs. Locks are available (`HasLocks`): without them
`ReuseOnlyIfUndelivered` rests on the grace period alone and fails when a delayed
tab reaches the server after it.

Fairness. Weak fairness of the lock's grants, of requests, the server and
replies (an exchange is answered or fails) and of timers. Nothing is asked of
users.

## 7. `ImagePlayground`

The history of one user in several tabs. `disk` is the envelope in localStorage,
`mem[t]` the store of a tab, `events[t]` its storage events, `active[t]` the ref to
the generation whose lease it refreshes, `call[r]` the paid call behind a run. A
mutation of the store is a step that ends with the merge of `_persist`; the write
to localStorage (`Flush`) is another, and other tabs may write in between.

| actions | code |
|---|---|
| `Generate`, `Retry`, `Finish` | `startGeneration`, `retry`, the callbacks of the mutation in `use-image-generate.ts` |
| `Clear` | `clearUser` |
| `Beat` | the ticker: `reclaimNow`, `refreshHeartbeat` |
| `Flush`, `Deliver` | `persistEnvelope`, `mergeEnvelope` from the storage listener |
| `Leave`, `Shut`, `Mount` | unmounting, closing, `hydrate` |
| operators | `mergeConcurrentRunCopies`, `applyTombstone`, `mergeHistoryEnvelopes`, `reclaimExpiredLeases`, `updateRun` keep their names |

Abstractions. The buckets of users do not interact. The limit of 50 runs is not
reached. A persist that changes nothing is one step; the two persists of a beat,
and those of `onMutate`, are one. A call takes at least one tick, a timer may
overtake at most `MaxLag` events, and nobody generates in the very instant of a
Clear that any copy of the history records (`ClearedBefore`): timestamps are
milliseconds in the code, ticks here. The id of a browser session is the tab. A
tab that is shut leaves its calls without anyone waiting for them, even if it is
opened again: the callbacks of the old page are gone, the provider still bills.
The page learns of a call its images, the server's error message, or that the
connection was lost or its response could not be read (`lost`); `onError` makes
status `error` of the last two alike, but after a lost connection the server may
still be at work on the call (`upstream`). A write is skipped if the merged
history is what localStorage held at the merge. The code compares again just
before `setItem`, so that such a write may still overwrite one that came in
between; like every overwritten write it comes back as an event. Giving each
persist that changes nothing a step of its own multiplies the states of the run
by more than ten.
`torn` is a ghost. It is set when a page comes or goes in the middle of an
exchange, or when a result arrives while no page is mounted and another write is
under way: one of two such crossing results overwrites the other in localStorage,
and no page is there to hear of it.

Properties. `QuietTabsAgree`: tabs without pending events show what localStorage
holds. `PaidResultKept`: a paid result is in the history once the tabs are quiet,
unless a Clear happened while it ran or the history is `torn`.
`ReplayOnlyAfterFailure`: a run is replayed only after a page was told that its
call failed; never because a lease expired, a tab was reloaded or left, or a stale
copy was merged while the answer was on its way, and never when images have come.
`EndedStaysEnded`, `MemoryResultStays`: while the page stays and no Clear covers
the run (`Uncovered`), merging with stale copies never makes an ended run a
running one or forgets it, nor loses images that are only in memory.
`RunsEnd`: no run is shown as running for ever.

| run | instance | result |
|---|---|---|
| `MCImagePlayground` | two tabs, a generation that succeeds or loses its connection, a retry, one Clear, two moves of pages | the safety properties hold |
| `MCImageLease` | the same without Clear, with answers that fail, references and lagging events, fairness | `RunsEnd` holds |
| `MCImageClear` | one tab, one generation | violates `ClearSparesActive`, see section 9 |

Bounds. A lease of 2 ticks and user actions up to tick 2 let a lease expire during
a call and after a page was left; the clock goes on for one expiry after the last
operation. Two moves let a page be left and mounted again, or every page be left
while results are on their way. Fairness is that of timers, of event delivery and of
answers to calls.

## 8. What is proved

The proofs hold for every value of the constants: any number of requests, prices,
retries, runners, rows, passes, revocations, crashes, faults and delays. They rest
on the named assumptions of the modules, which only give the constants their types
(`SetAssumption`, `NumberAssumption`, `FlagAssumption`; `RunnerAssumption`,
`AsyncTaskAssumption`, `SidAssumption`, and a `BoundAssumption` in four modules).
Every safety property of a passing run, invariant or action property, is stated by
a theorem.

`BillingSessionProofs`: `TypeCorrect`, `Solvent` (`NoOverdraft`),
`ServedNotRefunded` (`NeverRefundServed`), `NotOverRefunded`
(`NeverOverRefunded`), `FailedIsRefunded` (`RefundReturnsAll`), `ServedPays`
(`ServedPaysActual`), `SessionFrozen` (`RefundSeesFrozenSession`). The properties
speak about requests that are over, and say nothing about the way there. The
inductive invariant `IInv` adds the books: for each position of the request and
of its refund goroutine, how `preConsumedQuota`, `extraReserved`, `consumed`,
`tokenConsumed` and the amount in hand account for what was taken from the wallet
(`WalletBook`), the subscription (`SubBook`) and the token (`TokenBook`), and
which flags may be set where (`OpeningShape`, `ClosingShape`, `RefundShape`). A
step of a request touches only its own books and the common balances
(`TouchIInv`, `BooksFrame`), so each action has a lemma about its own request.
The invariant shows where the code is weaker than one would like: for images
`consumed` only bounds what was taken, and on SQLite the subscription's part of a
refund is only known to be non-negative.

`SystemTaskProofs`: `TypeCorrect`, `DispatchedOnce` (`OneRunnerPerTask`),
`SupersededIsFailed` (`OverlapOnlyAfterExpiry`), `FinishedIsFinal`
(`FinishedForGood`), `LeaseIsRespected` (`LeaseRespected`). The invariant adds to
the types that a handler was dispatched by the runner recorded in its row
(`Dispatched`), that a claim which has made its row running is about to dispatch
the row's first handler (`ClaimsOwn`), that a working handler's row has no result
of its own (`WorkingOpen`), and that a row is created after all earlier ones are
finished (`Ordered`). None of it mentions the lease: exclusion rests on the
conditional `UPDATE pending -> running` and on the unique `active_key` alone, and
therefore holds under arbitrary stalls.

`RunningStaysLeased` (`~Stalls => RunningIsLeased`) is where time enters. Its
invariant `LeaseInv` says that a claim that has acquired the lease still has it
and is in time (`ClaimLeased`), that every timestamp a loop still compares with
was read before the lease of a running row ends (`ClockLeased`), and that a
heartbeat only prolongs the lease while a release comes after the row is finished
(`BeatLeased`). Without the condition the property is false, see item 6 of
section 9.

`AsyncTaskProofs`: `TypeCorrect`, `NotOverRefunded`, `RowIsTrue`
(`RowTellsThePrice`), `FailureIsRefunded` (`FailedIsRefunded`), `EndIsFinal`
(`EndedForGood`), and `Refinement` (`Escrowed`). The invariant says what the copy
of each pass may still write (`Copies`), that at most one pass is to bill and only
after the end of the task (`OneBiller`), and where the price is while it does
(`Billed`, `Open`, `Priced`). `OneBiller` is the heart: the compare-and-swap
succeeds for one pass because it leaves a status that no copy was read with.
Exactly this fails for `tryRealtimeFetch`, which reads rows of any status: the
theorems are about `Spec`, not `RealtimeSpec`. The refinement maps the winning
compare-and-swap to `Decide` and the move of the money to `Bill`.

`UserSessionProofs`: `TypeCorrect`, `Staleness` (`StalenessBounded`), `Denial`
(`DeniedAtOnce`). The invariant gives every snapshot of the active row, held by a
request (`SnapshotsEnd`) or in Redis (`CacheEnds`), an end no later than a TTL
after the revocation (`Horizon`); the deadline is taken before the row is read,
which is what makes it inductive. A final tombstone lasts at least that long, or
as long as the session (`TombstoneOutlasts`), and the script refuses to replace
it.

`AuthSessionProofs`: `TypeCorrect`, `SignedOutStays` (`SignOutSticks`),
`OneMismatch` (`MismatchAnsweredOnce`), `SwitchesBySignIn` (`SwitchOnlyBySignIn`),
`RefreshesExclude`, `CookieRecognised` (`JarAtMostOneBehind`), `NoFalseThief`
(`ReuseOnlyIfUndelivered`). The first four follow from `TabInv`, which is about one
tab at a time: in which phases a refresh has which fields (`RunShape`), that a refresh
is superseded once its tab has signed out (`SignedOutIsSuperseded`), that one which
is not superseded is of the store's session (`RunOfTheStore`), and that the retry
after a mismatch names no session (`RetryNamesNobody`). They hold with or without
the Web Lock. The other three are about the whole profile and have the premise
`HasLocks`: only the head of the queue has a request under way (`LockInv`), so
its reply is the only token ahead of the cookie (`NoTokenAhead`,
`ReplyIsCurrent`), and a cookie that is behind is so because a rotation is on its
way to it, a reply was cut off, or a refresh failed after its rotation
(`BehindForAReason`). Without locks two tabs
may rotate one after the other with the same cookie, and the premise cannot be
dropped.

`ImagePlaygroundProofs`: `TypeCorrect`, `QuietTabsShowStorage` (`QuietTabsAgree`,
inductive by itself), `CopiesTellOneStory`, `NothingReplayedEarly`
(`ReplayOnlyAfterFailure`), `EndedRunsStay` (`EndedStaysEnded`), `MemoryResultsStay`
(`MemoryResultStays`), `RunsAreCarried`, `PaidResultsAreKept` (`PaidResultKept`).
`TraceInv` says that all copies of a run, in a tab, in localStorage or in an event
under way, follow its one call: the time of the call while its outcome is not
known, the same outcome and the same later time once it is. So a merge by
timestamps never lets an older story win, and only a call whose page was told of a
failure is offered for a retry. With `OnlyStored` (what is stored or sent has no
base64 images) the same gives `MemoryResultStays`. That paid results are kept needs the way of a run
through the tabs: the tab that waits for an answer has the run (`Waiting`), and
every mounted page has it, or an event brings it, or a write that differs from
localStorage is still to come (`Carried`); while no page is mounted, localStorage
or a write to come has it (`Unattended`). `ClearsInv` keeps every Clear before the
calls it did not sweep.

The proof attempts corrected the model: a closed tab that was opened again used to
receive the answers of its former page, and the two action properties used to be
stated for runs that a Clear already covered. They also met the crossing of
results described in section 7, a race of the code that needs two writes while no
page is mounted and that `PaidResultKept` therefore excepts.

Only model-checked: liveness (`EveryRequestFinishes`, both `EveryTaskEnds`,
`RefreshEnds`, `RunsEnd`), which is out of the prover's reach, and the violated
properties of section 9.

## 9. Disagreements between the code and what it says of itself

Three have a run that TLC must find violated; the quoted lines are in
`PROJECT.json`.

1. `MCBillingImage`. The top-up of an image request goes through
   `WalletFunding.PreConsume`, which sets `consumed` instead of adding to it; a
   failed image request gets only the last hold back, while the comment of
   `Refund` promises all of it.
2. `MCAsyncRealtime`. `tryRealtimeFetch` writes back the whole copy of a row that
   it may have read between the sweep's compare-and-swap and its refund; the row
   is unfinished again with its old quota and is refunded a second time.
3. `MCImageClear`. A page that is left and mounted again no longer refreshes the
   lease of its running generation. When the lease expires the copy becomes
   `unknown` with its old timestamp, a Clear made meanwhile takes it, and the paid
   result finds no run, while the comment of `applyTombstone` says that active
   runs are never lost.

Five more have no run of their own; TLC finds each violated when the constants of
the named module's runs are changed as stated:

4. `BillingSession`, `RefundReturnsEveryHold` with `SQLite = TRUE`, one
   `subscription_only` request. `RefundSubscriptionPreConsume` opens a second
   transaction inside its own. On SQLite with the default DSN
   (`common/database.go:64`) the inner one waits for the write lock of the outer
   one until it times out, three times; the subscription stays charged.
5. `BillingSession`, `SubscriptionRefundedOnce` with `MaxFaults = 1`, one
   `subscription_only` request. On other databases the inner transaction commits
   the credit before the record is saved; when the save fails, the retry credits
   again. The comment at `model/subscription.go:1401` calls it idempotent.
6. `SystemTask`, `EveryTaskEnds` under `FairSpec` with `Stalls = TRUE`, two runners
   and one row. A runner delayed for longer than its lease within a claim can make
   its row running after the stale-lock pass has looked at it and before the pass
   deletes the lease. The row stays running for ever and blocks its type.
7. `SystemTask`, `LiveLeaseNeverExpired` with three runners, one row, one crash and
   no stalls. The stale-lock pass marks the task of a lease it selected earlier
   without looking at the lease again, and can fail a task whose runner took the
   lease over meanwhile and renews it, against the comment at
   `service/system_task.go:306`.
8. `ImagePlayground`, `NoDoubleSend` with the constants of `MCImagePlayground`. The
   comments of `runRetryBlocked` and `retry()`
   (`use-image-generate.ts:162` and `:593`) refuse to replay a run of unknown
   outcome, which "cannot prove the upstream call stopped", because it would risk
   double billing. A connection that is lost, or a response that cannot be read,
   proves no more (`api.ts:107-120`), but `onError` records it as `error`, over an
   `unknown` that was there before (`:488-491`), and the card offers Retry.

## 10. What is not modelled

* Prices (floating-point expressions over configuration) are out of TLC's reach;
  a price is any member of a small set.
* Provider adaptors and format conversion, plugins, the administration API and
  settings, deployment: data or single-row updates rather than control.
* The web front end apart from sessions and the image playground, which is by far
  the largest part of the repository's TypeScript: forms, tables and dialogs that
  render server data. Their state does not outlive a page and meets no other
  actor; a model of a form would be its transliteration. This is why the map
  covers a small share of the TypeScript lines.
* Channel choice, rate limits and best-effort caches are independent of the
  models; the effect of another channel on billing, another price, is a free
  choice in `BillingSession`.
* The Redis copy and the batch stores of balances, subscription resets, top-ups,
  redemption codes and check-in: see the plan.

## 11. Plan

In order of importance; each with an MC module and its proofs where the invariant
is not about recursion or fairness.

1. `QuotaStore`: database, Redis copy and batch stores of one balance, with the
   abstract counter that `BillingSession` assumes as its specification
   (`INSTANCE ... WITH`), and where the implementation falls short of it.
2. `Subscription`: resets and expiry under running reservations, orders, several
   subscriptions, the pre-consume record as idempotence key.
3. `TopUp`: repeated and reordered callbacks, PayPal settlement, redemption codes,
   check-in with and without a transaction.
