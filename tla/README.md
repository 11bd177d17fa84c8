# bot_AdTech: models, checks and proofs

This directory holds TLA+ models of the back end of the AdTech Telegram bot
(`src/apps/api`), the TLC configurations that check them on small instances, and
TLAPS proofs about them for every instance. Paths below are relative to
`src/apps/api/src/modules` unless they start with `src/`.

## 1. The system and its parts

An advertiser pays money into a wallet and spends it in two ways. In a
**campaign**, each target is a post in a publisher's channel: its price is held
in escrow, a worker publishes the post through Telegram, and the escrow is
released to publisher and platform or refunded. In an **ad deal**, advertiser
and publisher agree step by step (request, accept, confirm, proof) and the deal
is settled, refunded or disputed.

All lasting state is in Postgres, through Prisma. `prisma.$transaction` runs at
READ COMMITTED: a statement sees what is committed when it runs, so a
transaction that reads, decides and then writes may decide on what is no longer
so, unless it holds a row lock. Beside the API, a BullMQ worker and several
crons start the same operations, and so do admins. What is hard is therefore
what happens between two statements of two transactions, and between a
transaction and Telegram or the payment provider.

| Part | State | Operations | Hard because |
|---|---|---|---|
| Lifecycle tables (`lifecycle/lifecycle.ts`) | none | `assertTransition` and its wrappers | callers must bring the states in the order the tables demand |
| Campaign escrow (`payments/escrow.service.ts`, `payments.service.ts: holdEscrow`) | escrow, campaign target, campaign.spentBudget, ledger, wallets, operation markers | hold, release, refund | four independent callers; six writes that must go together |
| Ad deal rules (`domain/addeal`) | none | transition table, money movement, aggregate invariant | two descriptions of one lifecycle |
| Ad deals (`application/addeal`, `marketplace`) | deal, funding events, deal escrow, ledger, wallets | create, fund, lock, accept, decline, confirm, proof, settle, refund | no row locks, updates by id |
| Disputes (`domain/dispute`, `open-` and `resolve-dispute`) | dispute | open, resolve | resolution settles or refunds in its own transaction |
| Wallet ledger (`payments.service.ts: recordWalletMovement`) | wallet balance, ledger entries | credit, debit under an idempotency key | check and write are apart |
| Payment intents (`payments.service.ts`) | deposit and withdrawal intents | create, finalise on webhook, reconcile | duplicated, late and contradicting webhooks |
| Post jobs (`scheduler/workers/post.worker.ts`, `system.service.ts`, `telegram.service.ts`) | post job, delivery log | reserve, send, succeed, retry, give up, recover | Telegram cannot be rolled back |
| Outbox, scheduler (`outbox`, `scheduler`) | outbox events, BullMQ queue | enqueue, reserve, dispatch, crons | at-least-once hand-over |
| Kill switches (`ops`) | one row per switch | enable, disable, assert | read before what they guard |
| Moderation, campaigns, creatives (`moderation`, `campaigns`) | campaign, target, creative | create, submit, approve, reject, activate | approval holds, schedules and enqueues at once |
| Channels and verification (`channels`) | channel, verification | create, verify, approve, reject | external checks between read and write |
| Accounts (`auth`, `users`) | users, grants, wallets, invites, sessions | bootstrap, link, invite, start, change of role, login | one-time tokens, and checks that are old when the write comes |
| Bot conversations (`telegram/handlers`, `application/telegram`) | conversation and lock in Redis | panels, buttons, texts, /start, lock | a lock with a time to live, a record read and written whole |
| The rest (identity resolver, audit, health, common, config) | none of its own | lookups, records, probes | – |

How they interact: the worker, the recovery cron and admins call `release` or
`refund` inside a transaction of their own that also writes the post job;
moderation calls `holdEscrow`; both escrows go through `recordWalletMovement`
and share the wallets; the kill switches and the campaign's status are read by
all of them and changed by admins at any time; the outbox cron feeds the queue
the worker reads.

What makes each part correct:

* *Escrow*: money goes out once and one way; the escrow row, the ledger and the
  target tell the same story after every crash; nothing is paid for a post that
  was not made; every call ends.
* *Ad deals*: the same for a deal's money; a stored deal can always be read
  again; a publisher is paid only for a proof; a dispute says what was paid.
* *Ledger*: balances are sums of entries, no entry is written twice.
* *Payment intents*: the wallet moves only for intents that were asked for, once each;
  an intent that says succeeded was booked; a paid deposit that the cron has come to
  does not stay pending, unless the id it is reported with is stored with another.
* *Post jobs, outbox*: a post appears once but for the answers and locks that were
  lost; a job's status tells what became of its escrow; every event reaches the
  queue.
* *Moderation*: an approved target has its escrow, post job and event, all or none.
* *Accounts*: one super admin; a publisher was invited or promoted; an invite is
  used once, by the user of the account it was made for.
* *Channels, campaigns*: what a target rests on stays ready; a status moves along
  its table.
* *Conversations*: what a handler has read is still so when it writes; an order
  answers the question that was asked.

## 2. Modules

| Module | Models |
|---|---|
| `Lifecycle` | the enumerations and the four transition tables of `lifecycle/lifecycle.ts` with `assertTransition` and the cross-entity assertions |
| `CampaignEscrow` | `holdEscrow`, `release`, `refund` and all their callers |
| `EscrowPromise` | what an escrow promises: a price moves from the advertiser to escrow, then to publisher and platform or back |
| `AdDealLifecycle` | `domain/addeal`: table, money movement, required timestamps |
| `AdDeal` | the use cases of `application/addeal` with their callers, and disputes |
| `PaymentIntents` | deposits and withdrawals, the provider's webhooks, the reconciliation cron |
| `PaymentPromise` | what the intents promise a wallet: it moves for an intent that was asked for, by its amount, once |
| `PostDelivery` | outbox, queue, worker, sending with the delivery log, recovery and retry |
| `DeliveryPromise` | what delivery promises: paid for only when the post is in the channel, and one way |
| `Accounts` | users, role grants, invites, and the calls of `AuthService` that write them |
| `Placement` | channels, campaigns, creatives and targets up to acceptance |
| `BotConversation` | the bot's conversation with a user and the user's lock |
| `Totals` | the sum of the amounts of a finite set's elements, what a balance is of its ledger |
| `X_proofs` | proofs about `X`, for the seven state machines and for `Totals` |
| `MCX` | values of the constants and symmetries of the checked instances of `X` |

`CampaignEscrow`, `PostDelivery` and `Placement` extend `Lifecycle`, `AdDeal`
extends `AdDealLifecycle` (which takes the actors and the table form from
`Lifecycle`). `CampaignEscrow` and `AdDeal` instantiate `EscrowPromise`,
`PaymentIntents` and `PostDelivery` a promise of their own; the first two state their
books with `Totals`.

How they fit together: `Placement` ends with an accepted target, `CampaignEscrow`
takes it from there to a held, released or refunded escrow, and `PostDelivery`
refines what `CampaignEscrow` leaves open, how the worker comes to its outcome;
there the escrow is one word per job, which moves as `CampaignEscrow` proves it
does. `BotConversation` ends where it asks for a deal or a deposit, which is where
`AdDeal` and `PaymentIntents` begin. The users of all of them are `Accounts`'.

### How a call is modelled

A call in flight is a slot `c` of `Calls` (of `Workers` in `PostDelivery`): `pc[c]`
is its next step, `req[c]` its parameters. Each step that reads is an action of
its own, so that any other call may commit in between; the writes of a
transaction, which nobody sees before the commit, are one action, the last. A
call that throws leaves its row locks and nothing else. A value that is read in
one step and used in a later one is kept in the slot (`snap`, `found`, `seen`,
`work`) or, under a row lock, may be read again (`CampaignEscrow`). A unique key
is a guard of the write that would violate it, and the other branch rolls back.
The ledger is the set of its idempotency keys: a key determines the wallet and
amount of its entry. Logging, audit texts, currencies, keyboards and payload
formats are left out. A definition named `X_Suffix` is a wrong variant of `X`,
kept to show that a property would notice it.

### CampaignEscrow

| State | Code |
|---|---|
| `campaign`, `spent` | `campaign.status`, `campaign.spentBudget` |
| `target`, `postJob`, `escrow` | the status columns; `overdue` is "executeAt six hours past" |
| `been` | history: the statuses each target has had |
| `ledger`, `markers`, `balance` | `LedgerEntry.idempotencyKey`, the operation markers in `FinancialAuditEvent`, `wallet.balance` |
| `enabled` | the kill switches read by these calls |
| `escLock`, `jobLock` | `SELECT ... FOR UPDATE` on the escrow row; the lock an uncommitted `UPDATE` of the post job keeps |

| Actions | Code |
|---|---|
| `HoldEscrow`, `FindEscrow`, `CheckTarget`, `CheckBalance`, `Hold` | `payments.service.ts` `holdEscrow` (1089-1232) |
| `TakeJob`, `WorkerSucceeds`, `WorkerGivesUp`, `WorkerRetries`, `WorkerStops` | `post.worker.ts` |
| `RecoverSent`, `RecoverExhausted`, `RecoverStalled` | `system.service.ts` `requeueStalledPostJobs` |
| `WatchdogRefund`, `AdminRelease`, `AdminRefund`, `AdminRetryPost` | `refundStuckEscrows`, `resolveEscrow`, `retryPost` |
| `LockJob`, `CheckSwitch`, `LockEscrow`, `AlreadyDone`, `CheckOutcome`, `PayOut`, `GiveBack`, `Requeue` | `escrow.service.ts` `release` and `refund`, inside their caller's transaction |
| `Crash` | the process dies, or the transaction times out |
| `MoveTarget`, `ToggleCampaign`, `FlipSwitch`, `BecomeOverdue` | what the rest of the system does to the same rows |

The parameter `Active` says which callers and disturbances run, `TargetMoves`
which moves other services make. `campaigns.service.ts` reads a target's status, asserts
the move and updates by id some awaits later (`submitTarget` 252-301,
`acceptTargetAsDeal` 321-348), so `MoveTarget` may have read any status the target has had
and writes over whatever it is by then. Release and refund assert the target's move from
the row they have read as well, or find it made already (`TargetSettled`). The delivery
itself is an outcome the worker is given.

### AdDeal

`deal` (status and which timestamps are set), `event` (the deal a funding
reference is bound to), `escrow`, `dispute`, `ledger` and `balance` are the rows.
`CreateDeal` ... `ResolveDispute` are the calls of `marketplace/deals.service.ts`
and `internal/internal-addeal.controller.ts` with the actors they pass;
`ReadDeal`, `ReadEvent`, `ReadEscrow`, `ReadLedger` are the reads of a use case
in the code's order; `Fund`, `Lock`, `Accept`, `Confirm`, `SubmitProof`,
`Settle`, `Refund`, `Dispute`, `ResolveOnly` are their commits. The early return
of an operation that is already done is a rollback, as it writes nothing, except
inside `resolve-dispute`, which goes on to write the dispute (`AlreadyDone`).
`From`, `To`, `StampsOf`, `Reasons` hold what distinguishes the use cases; the
shape they share is written once. `publisher-decline` has no commit, because
`recordWalletMovement` refuses its credit (`MovementAccepted`). A refund is
asked for only by the resolution of a dispute: no other caller in `src/` runs
`refund-addeal`. `Spec` lets all calls overlap; `Asked` says which operations are
asked for. The refinement of `EscrowPromise`, which the code keeps only as long as its
callers leave out one race, is stated under the part of `Spec` without it: `PaysApartSpec`,
no settlement and refund of one deal in flight at once. Everything else may overlap there
too.

### PaymentIntents

One user's intents and wallet. `status`, `txn` and `age` are the columns of
`PaymentIntent` and `WithdrawalIntent`, `ledger` the intents whose entry exists;
`invoiced` and `paid` are the provider's. `CreateDeposit` / `CreateWithdrawal`,
`Create`, `ProviderInvoices`, `StoreInvoice`, `InvoiceFails` are the two creations
(a repeated request finds its intent and asks for another invoice);
`Webhook`, `FindIntent`, `FindTxn`, `ReadAgain`, `ReadLedger`, `Succeed`, `Fail`
are `finalizeDepositIntent` and `finalizeWithdrawalIntent`, which are the same
but for their tables; `Reconcile` is an admin's, `CronReconciles` the cron's, with the
transaction id of the provider's answer or, where it has none, '' (`Empty`;
`payments.service.ts:746`, `?? ''`). A webhook is any signed message about any intent of
`Told`, with any id, success or failure, paid or not: the code looks at the error code
alone, whatever action the message is of (`finalizeDepositIntent`, 637), so losing,
repeating, delaying and reordering webhooks need no actions of their own. That the
provider reports only what was paid is its own affair, and no property says it.
`age` is only there for the cron's batch of the oldest.

### PostDelivery

`status`, `attempts`, `message`, `late` are the post job's row, `log` the row
`post_delivery:<id>`, `event` and `overdue` the outbox event and the age of its
lock. `queue`, `made`, `stalls`, `holder` are BullMQ's entry of the job, its
attempts, how often it was taken back and whose lock it carries. `posts` counts the
messages in the channel; `excused` the answers and locks that were lost.

| Actions | Code |
|---|---|
| `ReserveBatch` (the `BatchSize` oldest by `Created`), `Enqueue`, `MarkCompleted`, `DispatchFails`, `LockExpires` | `outbox.service.ts` |
| `Take`, `LockLost`, `Dies`, `TakenBack`, `QueueCompletes`, `QueueFails` | BullMQ and the process, external |
| `Reserve`, `ReadJob`, `Delay` | `post.worker.ts` (75-196) |
| `ReserveThrows` | what throws before the worker's `try` (75-115): an attempt of the queue is gone, and no catch writes |
| `Look`, `Answered`, `Refused`, `TimedOut`, `LogDelivery` | `telegram.service.ts` `sendCampaignPost` |
| `LookThrows`, `LogFails` | the same where the database fails, with the write stored or not |
| `Succeeds`, `SuccessThrows`, `Fails`, `FailThrows` | the worker's two transactions, committed or rolled back |
| `StallSeen`, `FindStalled`, `Recover`, `RecoverThrows` | `requeueStalledPostJobs` |
| `RetryRead`, `RetryWrite`, `WatchdogRefunds` | `retryPost`, `refundStuckEscrows` |

The kill switches are read after the reservation, as in the code. A permanent
failure is retried like any other where the code does so.

### Accounts

`role`, `grants`, `telegram`, `keyed`, `wallets` are the users' columns and rows
(`keyed`: `superAdminKey` is set), `bootstrap` the bootstrap state, `bound`,
`usedBy`, `expired` the invites. `BootstrapSuperAdmin`/`CreateSuperAdmin`,
`StartLink`/`ReadSuperAdmin`/`LinkSuperAdmin`, `StartClaim`/`ReadInvite`/`ReadUser`/
`Claim`, `StartPlain`/`FindUser`/`CreateAdvertiser`, `InvitePublisher`/`IssueInvite`
and `ChangeUserRole`/`WriteRole` are the calls, each read a step. A transaction's
first write inserts or locks its user's row, so what follows it is one action with
it. Two history variables: `promoted`, who was made publisher by an admin, and
`relinked`, see section 3.

### Placement

`status` holds the status of every channel, campaign and target, `parent` what a
target points to. Each handler reads (`RequestVerification`, `ApproveChannel`,
`RejectChannel`, `ActivateCampaign`, `FreezeCampaign`, `UnfreezeCampaign`,
`SubmitTarget`, `AcceptTarget`, `AddTarget`) and later writes by id (`SaveChannel`,
`SaveCampaign`, `SaveTarget`, `InsertTarget`); a verification asks Telegram in
between (`BotIsAdmin`, `VerificationFails`). `overtaken` remembers which handlers
write over a row that was written since they read it.

### BotConversation

One user, because both Redis keys carry the user's id. `fsm` is the record under
`tg:fsm:<id>`: role, step (which determines the flow) and what its payload is
about; `lock` is the key `tg:lock:<id>`, with the handler that has set it, which the
key itself does not say. `EnterPanel`, `Show`, `PressDeal`, `BeginFlow`, `CancelFlow`
and `OnText` are the handlers of both roles as they take the lock; `CheckRole`,
`Ensure`, `SyncRole`, `UpdateRole`, `GetFlow`, `SetFlow` the waits for Redis and the
back end inside them; `Start` is /start, which takes no lock. `Order` is the back end
having made a deal or a deposit, `Answer` its answer; `Throw` is a refusal, a timeout
or a lost answer at any wait. `Release` deletes the key, `Expire` is the end of its
15 seconds, `Crash` leaves it. A message that is turned away changes nothing and has
no action. History: `prompt`, the question for an amount that was last asked and not
answered; `restarted`, handlers that a /start has come upon since they read;
`outlived`, a handler was at work when its lock ended, and handlers have
overlapped since.

## 3. What is checked

A property is stated beside the module it is about, with the code it concerns.

| Run | Instance | Shows |
|---|---|---|
| `escrow_race` | 1 target, 2 calls, all callers, crashes, switch, freeze, every target move | `PaidOutOnce`, `EscrowMatchesLedger`, `SettledWasReady`, `PayoutNeedsPost`, `WaitsEnd` under every interleaving of two calls |
| `escrow_ends` | the same, commission equal to the price; of the target's moves those of the code and approved to failed | `EveryCallEnds` under fairness: no row lock leaks, no circular wait, also where every release is refused |
| `escrow_money` | 2 targets, 2 calls, one wallet and campaign | `BooksBalance` (balances are sums of entries, nothing appears or is lost, the spent budget is what was released); the escrow implements `EscrowPromise` |
| `deal_race` | 1 deal, 1 reference, 2 calls | `RowsRehydrate`, `EscrowFollowsLedger`, `PaidForProof`, `ResolutionPaid`, `BalanceIsLedger`, although no row is locked |
| `deal_apart` | 2 deals of one wallet that is empty at first, 1 reference, 2 calls under `PaysApartSpec`; of one deal everything is asked, of the other its funding and lock | `BindingFunds`, and the deals' money implements `EscrowPromise`, whatever overlaps but a settlement with a refund of the deal |
| `payments` | 2 deposits, 1 withdrawal, 2 calls; webhooks about one deposit and the withdrawal, reconciliation of all | `SucceededIsBooked`, `OneIntentPerTxn`; the intents implement `PaymentPromise` |
| `payments_settle` | 2 deposits, 1 transaction id or none, 1 call, a batch of one, webhooks about one deposit | `PaidIsSettled`: with every webhook lost, what the cron's batch holds does not stay pending, but for an id that is stored with another deposit |
| `delivery` | 1 job, 2 workers, 1 dispatcher, every mishap but a dispatcher that dies or outlives its lock (`outbox` has those) | `RepostsExcused`, `StatusTellsMoney`; delivery implements `DeliveryPromise` |
| `outbox` | 2 jobs, 2 dispatchers that die, fail or outlive their locks, a batch of one | `EventsDispatched`: every event is completed, and not before its job is in the queue |
| `accounts` | 3 users, 2 Telegram accounts, 2 invites, 2 calls | `OneSuperAdmin`, `WholeUsers`, `PublisherByInvite`, `InviteFitsUser`, `UsedOnce` |
| `placement` | 2 channels, 1 campaign, 2 targets, 3 calls | `VerifiedWasFound`, `PlacedIsReady`, `MovesByTable` |
| `conversation` | 2 handlers, 2 subjects, both roles, 3 of the flows | `ReadIsCurrent`, `OrderAnswersPrompt` |

Each module's type invariant `TypeOK` is checked in the first run of the module.

Why the bounds are enough: every hazard listed is between two calls on the same
rows, and a third call adds nothing that one of the two, ending and starting
again, does not do, because nothing but the rows is shared (`placement` has three,
for a target's handler depends on two other rows). One target, deal or job is where
they meet; two share wallet, budget, funding references, a provider transaction or
a batch. The second deal of `deal_apart` has funding and
lock only (`OneAtWork`): the two share the wallet and the reference, and what follows a lock
looks at neither, it only adds to the wallets. A batch of one is the smallest in which an
event or intent waits behind an older one. An amount of ten with a commission of two or all of it covers the payout
that is paid and the one that is empty; the opening balance and budget are enough
for the first target and not for all, and in `deal_apart` one deposit is what two
deals may spend. `MaxAttempts` and `SendAttempts` of two give a
first, a last and a retried attempt; `MaxExcuses` of one bounds how often an answer
or a lock is lost, and is a bound of the runs only: the proofs hold for any. The
conversation's other flows differ from the three in their texts, and their steps are
met as records of an earlier run. The flow that begins with a channel's button is
always there.

`CHECK_DEADLOCK FALSE` stands in `delivery` and `outbox` only: there the work is
done when the job is delivered and its events are completed.

**Fairness** is assumed in the three liveness runs, and nothing that crashes or
disturbs is fair.

* `escrow_ends`: a call that can take its next step takes it (`WF`), for Postgres and
  Node run every statement that is not blocked and a Telegram call ends by its
  timeout after a bounded number of attempts; a statement waiting for a row lock gets
  it if the lock is free again and again (`SF`), for Postgres queues the waiters.
  Nobody is assumed to start a call.
* `payments_settle`: a call goes on (`WF`); the cron, which runs every ten minutes,
  comes to each intent of its batch (`SF`), with an id or without, for nobody promises that
  the provider's answer has one; and of the calls that carry the news of a
  payment not every one dies at the same step (`SF` on each step), for there is a new
  one every ten minutes.
* `outbox`: the cron, which fires every minute, reserves what there is (`SF`); not
  every run dies or fails at the same event (`SF` for the queueing and for the
  completion of each), nor every run that has the event to itself (`SF` with `Alone`);
  time passes, so a lock's age comes (`WF`). The last `SF` is needed because a run that
  takes longer than its lock, and then fails at an event another run has completed, sets it
  to pending again; were that to happen for ever, the batch of the oldest would
  never come to the younger ones.

### Where code and documents disagree

Met while modelling, visible in the models at the definitions named, and not part
of the runs. Where a claim does not hold, the properties above say what does.

*Money.*
`CheckBalance`: two holds or withdrawals read the balance side by side, both pass
(`payments/payments.service.ts:284`) and it goes below zero; `src/result_now.md:429`
and `:438` say "No Negative Balances", by an atomic check-and-debit.
`CheckTarget`: a hold compares the price with a budget that does not count what is
already held (`payments.service.ts:1175`); `src/result_now.md:507` says it is enforced.
`CheckSwitch`: a release reads the payouts switch once, before the row lock
(`payments/escrow.service.ts:106`); `src/apps/docs/production-safety-plan.md:14` calls
the switch an authoritative gate.
`CheckOutcome`: the watchdog's refund (`system/system.service.ts:191`) and an admin's
resolution (`:72`, "manual override") of an approved target are refused every time,
for the table lets an approved target become posted or failed only
(`lifecycle/lifecycle.ts:75-85`); so is the refund of a post that has finally failed.
`WriteStatus`: a transaction that read queued or sending writes over success
(`scheduler/workers/post.worker.ts:300`, `system.service.ts:540`);
`src/PRODUCTION_ANALYSIS.md:170` calls success terminal.

*Deals.* `Settle`/`Refund`: an admin's settlement and the refund that resolves a dispute
both read the escrow as locked, and both commit, so the deal is paid twice
(`application/addeal/settle-addeal.usecase.ts:60`, `refund-addeal.usecase.ts:69`: "Escrow
cannot be refunded from status"). `Fund`: two fundings of two deals by one reference, in
flight at once, may both find it free, and both deals are funded
(`fund-addeal.usecase.ts:65`; see section 5). `Updated`: an update by id writes over a status that was
committed meanwhile, and so moves a deal off its table
(`domain/addeal/addeal.lifecycle.ts:265`). `CreateDeal`: it funds as the advertiser
(`marketplace/deals.service.ts:66`), which the table allows to payment provider and
system only, so it creates the deal and then always throws. `MovementAccepted`: a
publisher's decline is always refused. `Rehydrates`: a deal disputed before its proof
can only be refunded, though `addeal.lifecycle.ts:220-227` allows settling it. A deal
without a commission can never be settled (`settle-addeal.usecase.ts:97`).

*Delivery.* `Reserve`: a worker whose reservation finds nothing goes on all the same
(`post.worker.ts:85`), so two workers may deliver one job;
`src/apps/docs/launch-readiness.md:57` and `src/PRODUCTION_ANALYSIS.md:174` have the claim
exclusive. The switches are read after the reservation, where PJ6 (`:62`) has the job
stay unclaimed. `RetryWrite`, `Recover`: the outbox upsert leaves an event as it is
(`outbox/outbox.service.ts:33`), so a job set to queued again is not sent into the queue again.

*Accounts, channels, campaigns.* `LinkSuperAdmin`: two links read that the super admin has no
Telegram account, and the second overwrites the first (`auth/auth.service.ts:518`), which
`:505` refuses in sequence; `relinked` records it. `WriteRole`: a role given up stays granted.
`SaveChannel`: a verification that waited for Telegram writes verified over a rejection
(`channels/channels.service.ts:388`). `SaveCampaign`: an activation that had read draft
undoes a freeze, and an unfreeze activates a draft that has no creative, both of which the
table allows. `MovesByTable` says that only a handler that was overtaken, as in the first
case, leaves the table.

*Conversations.* `Release` deletes the key whoever has set it
(`telegram/telegram-user-lock.service.ts:22`): after one handler that took longer than the 15
seconds, a release may free the lock of a handler still at work, and so on until none is
left; `outlived` is up for that long. `Start` writes without the lock, and a handler that
read before it may write its older flow back. `AskedAgain`: an order whose answer is lost
leaves the flow open, and every order draws a random key (`handlers/advertiser.handler.ts:599`,
`:667`), so answering again orders again; with `createDeal` as it is, that is every deal
ordered in the bot.

*Moderation* never gets through, see section 5.

## 4. What is proved

Assumptions: the named `ASSUME`s of the modules only. Amounts are positive,
commissions natural numbers (they may exceed the price), the values that stand for
"none" are none of the real ones. The sets of rows, calls, workers and values are
arbitrary (finite where something is counted or summed: the targets, the intents), and so is `Active`.

**CampaignEscrow.** `IInv` consists of `TypeOK`, `EscrowMatchesLedger`,
`LockGuards`, `SettledWasReady` and three strengthenings. `EscrowMatchesLedger`
alone is not inductive: that `PayOut` adds the payout of an escrow which has
none follows from the escrow being held when it pays, and that is known because
the row lock taken in `LockEscrow` has kept every other call out since
(`LockGuards`). `StepFitsOperation` says which operation a call at each step is
running, without which `LockGuards` says nothing about who writes. Escrow and target do
not agree at every moment: `lifecycle.ts` has an assertion that they do
(`assertEscrowCampaignTargetInvariant`), which `escrow.service.ts` imports and calls nowhere,
and an overtaken write by id may leave a target anywhere after its escrow was released. What
is kept is in the history: an escrow is released only if its target has been approved,
refunded only if it has failed (`SettledWasReady`). `HistoryFits` is its reason: a status
of posted or refunded comes only after those two, and a call about to pay has seen one
of them. `NothingSettles` draws the consequence: where no service moves a target to approved
or failed, no money ever leaves an escrow, whoever asks; moderation's approval, which never
gets through (section 5), is the only such move in `src/`. From `IInv`:
`TypeCorrect`, `PaysOnce`, `RowsAgree`, `SettledReady`, `LockProtects`, and the
action property `PayoutBacked`. `ImplementsPromise` proves the refinement of
`EscrowPromise`: `Hold`, `PayOut` and `GiveBack` are its three actions, every
other step a stutter of the place of each price and of the balances.

`BooksAlwaysBalance` is about three sums: over the ledger entries of a wallet, over the
prices of the held escrows and over those of the released ones. It is inductive beside
`IInv`, which says of each commit that its entries are new and from which place to which
its price goes; `EntryAdds` and `PriceMoves` say what that does to the sums. The sums
themselves are `Totals_proofs`: `Total` is a fold, which `SubsetInduction` (a set of
subsets that has each subset all of whose smaller subsets it has) shows to satisfy its
equation, to be an integer, and to grow by the amount of an element that is added.
`NoDeadlock` is the safety half of `EveryCallEnds`. Its invariant `LocksHeld` says whose
locks there are: a call owns a row lock only at steps that come after the lock, post job
before escrow, and an idle call none. So who waits for an escrow waits for a call that
waits for nothing, and who waits for a post job for one of the two.

**AdDeal.** There are no locks to rest on: a call decides on a snapshot that may
be stale, and then writes over the row. What saves the rows is that the
database only gains: `CallFits` says that the timestamps a call has read are
still there (updates only add timestamps), that an escrow row it has seen still
exists and that a ledger entry it has found stays. So a call that has checked
the timestamps of its snapshot leaves a row that has them, whatever status it
writes over (`AlwaysRehydrates`), a settlement leaves a deal with accept,
confirm and proof times (`PaidOnlyForProof`), and a status of settled or refunded
means the entry is in the ledger (`StatusPaid`), which is what closing a dispute
without a payment relies on (`ResolutionsPaid`). `Grow` is the relation all
commits satisfy; `OthersFit` carries every other call over it, so each commit
has to be looked at for its own rows only. `EscrowAgrees` is
`EscrowFollowsLedger` for every instance. That a deal is not paid twice cannot
be proved: it is false. `BalancesAreLedger` holds all the same: a second entry under a
key is refused with the wallet's update (`DuplicateEntry`), and a wallet's sum is over
the entries, finitely many at any time whatever the sets of deals and references.
`BindingsFund` is about `Spec`, all fundings at once: money that came in by a reference is bound
to a deal, and the deal it is bound to was funded. To `IInv` it adds `FundsKnown`: a call
that funds a deal it has not read as new has found the reference bound, and it stays so.
`ImplementsPromise` is about `PaysApartSpec`: of all overlaps the one left out is the only
one that breaks the refinement, and in the model it does (section 3, *Deals*). To `IInv` it
adds `PaysTrue`, the escrow a call settles or refunds is locked still, or another call has
done the same and the unique key stops this one. From that, `Lock`, `Settle` and `Refund`
are the promise's hold, pay and return, and every other step leaves the place of each
deal's money. What the promise is worth is
`MoneyIsConserved`: wallets and held escrows together are what there was at first and what
was deposited. It is proved of the promise's three actions (`PromiseConserves`), not of the
code's nine.

**PaymentIntents.** `IInv` is `TypeOK`, `CallFits`, `SucceededIsBooked` and
`OneIntentPerTxn`. A status may be written over in any order, so nothing can rest on it;
`CallFits` says what a call in flight may rest on, that its intent exists and an entry
it has found, and both stay. The unique key of provider and transaction carries
`OneIntentPerTxn` where the look at the other intents is stale, the one of the ledger
`ImplementsPromise`: the two creations and the booking `Succeed` are the promise's actions.
That a booked intent was paid is no theorem: it is what the provider's messages say.

**PostDelivery.** `IInv` adds to `TypeOK`, `StatusTellsMoney` and `CompletedWasQueued` what they
rest on: what a dispatcher has just queued was queued (`SentFits`), a lock's holder works on
its job (`HolderFits`), the log stands for a post (`LogFits`). `RepostsBounded` is a counting
argument, `Accounted`: the posts of a job, the workers that may still send it and, if
nobody holds its entry, the one who will take it are together at most one more than the
answers and locks lost. Each step moves one unit from one summand to another, or adds
an excuse. `NoJobLost` states `CompletedWasQueued`, the safety half of
`EventsDispatched`. `ImplementsPromise`: `Answered` and `TimedOut` publish, what releases
and refunds pays and gives back.

**Accounts.** `IInv` is `TypeOK`, the four state properties, `Shape` (rows that are not there are
empty) and `CallsFit` (what a call in flight has read and may still rest on: a user found
stays with its account, an invite stays bound). The two unique keys do the rest:
`SuperAdminIsOne` from the key set and cleared with the role, `InvitesMakePublishers`,
`InvitesFitUsers` and `InviteUsedOnce` from the account's. They hold up to `relinked`, because a super admin that
changes its account takes an invite's user with it.

**Placement.** `IInv` is `TypeOK`, `RowsFit`, `CallFits` and `Fresh`. Readiness only grows, for
what a target needs (an approved channel that was vouched for, a campaign past draft
with a creative): `Grows` is the relation of all writes, and carries a handler's stale
read to its write (`TargetsReady`, `ChannelsVerified`). `Fresh` says that a handler not overtaken
still finds the status it read, from which `TablesFollowed`.

**BotConversation.** `IInv` is `TypeOK`, `OneAtATime`, `SlotsFit`, `ReadIsCurrent` and `PromptFits`. While
no handler has outlived its lock, whoever works holds it (`OneAtATime`), so only one does,
and its read stays what the record says (`ReadStaysCurrent`); `PromptFits` relates record and
question, except between an order and the end of its flow, which the handler knows
(`SlotsFit`). From it `OrdersAnswerPrompts`. The proof has one lemma per step of a handler over
`WorkKeeps`, what only one handler at work can disturb.

## 5. Model-checked only, and not modelled

* Liveness (`EveryCallEnds`, `PaidIsSettled`, `EventsDispatched`): fairness and ENABLED
  are beyond the proof system.
* The refinement of `EscrowPromise` by `AdDeal` is stated without one race, because with it
  it is false.
* That a funded deal has a reference of its own is no property: of two deals racing for one
  reference the code may fund both. The outcome of the upsert depends on the ORM's
  strategy; the model takes the one in which both go on.
* Transactions of more than one database, clock skew, currencies, decimal
  formats: no code depends on them in what is modelled.

Not modelled:

* **Moderation** (`moderation/moderation.service.ts`): `approve` and `reject` lock their row with a
  raw query on `"CampaignTarget"` (`:157`, `:340`), a table the schema maps to
  `campaign_targets`, and `approve` asks for a submitted target while the lifecycle table
  lets only an accepted one be approved (`src/PRODUCTION_ANALYSIS.md:147` and `:159` have
  submitted to approved). Both throw before they write, so there is no state change to
  model. What an approval would leave behind is where `CampaignEscrow` and `PostDelivery`
  begin; nothing else in `src/` creates a post job.
* **Password login, refresh and reset** of `auth.service.ts`: one refresh token hash per user,
  read by nothing else.
* **Identity resolver, Telegram lookups, audit, health, monitoring**: lookups, append-only records
  and probes without state that a property could speak of. The circuit breaker of the
  Telegram client is a refusal at any time.
* **Kill switch seeding and history, ledger reports**: written once, or read only.
* **`calculateCommissionSplit`** beyond its sum: the models take a commission as given and the
  payout as what is left; the rounding to cents is the library's.
* **Cross-cutting code** (wiring, guards, filters, configuration, serialisation).

Two statuses are never written by any code, `completed` and `cancelled` of a campaign, and
`blocked` of a channel; they are in the tables and never reached.

## 6. What could follow

In the order of what it would add: moderation, once its query and table let it through,
as the composition of `Placement` with `CampaignEscrow` and `PostDelivery` in one transaction;
a refinement of `CampaignEscrow`'s worker by `PostDelivery`; sessions and password reset; the
rounding of the commission against a reference definition.
