# A verification of quest-service in TLA+

The repository is a game back end in TypeScript: a NestJS monolith (`src/src`), some seventy
microservices (`src/microservices`), a shared messaging library (`src/libs/shared-communication`)
and one Solidity contract (`src/contracts/puzzle_co_creation`). This directory models the parts
whose correctness depends on the order in which things happen, checks them with TLC on small
instances, and proves the safety properties that matter most with TLAPS for every size.

| modules | models | checked by | proved |
|---|---|---|---|
| `EventDelivery` | what the event bus promises | `EventBus.cfg` (as a property of `EventBus`) | |
| `EventBus`, `EventBusProofs` | one subscription of the RabbitMQ event bus | `EventBus.cfg`, `EventBusDLQ.cfg` | all five invariants, why retries end, and the safety part of the refinement of `EventDelivery` |
| `CoCreation`, `MCCoCreation`, `CoCreationProofs` | the CoCreation contract | `CoCreation.cfg`, `CoCreationSignOff.cfg` | all seven invariants, `OnlyDustStays` among them, and `PublicationIsFinal` |
| `ChainEvents`, `MCChainEvents`, `ChainEventsProofs` | the indexer of on-chain events | `ChainEvents.cfg`, `ChainEventsLive.cfg`, `ChainEventsContracts.cfg` | all five invariants, that ticks end and pass no event over |
| `XpLedger` | what a player's experience is supposed to be | `XpSequential.cfg` (as a property of `XpService`) | |
| `XpService`, `MCXpService`, `XpServiceProofs`, `XpCompletionProofs` | experience, levels and streaks of one player | `XpService.cfg`, `XpSequential.cfg`, `XpOverlap.cfg` | `TypeOK`, `XpWithinAwards`, `DoneWasPaid`, freedom from deadlock; without overlap `RowsAgree`, `StreakIsEarned`, `MilestoneIsEarned`, `LevelAnnouncedOnce` and the refinement of `XpLedger` |
| `WebhookDelivery`, `MCWebhookDelivery`, `WebhookDeliveryProofs`, `WebhookHistoryProofs` | the enqueueing, delivery and history of webhooks | `WebhookDelivery.cfg` | all six invariants |
| `CacheLock`, `CacheLockProofs` | the lock of the cache service | `CacheLock.cfg` | all four invariants |

In each module a definition introduced by *Slip* is a plausible mistake in the definition that
follows it. It is not part of the specification; it is what the properties are tested with: put
in place of the definition it imitates, it makes TLC report the property it belongs to.

## Inventory

What the repository contains, what each part keeps and does, and what can go wrong there.
`PROJECT.json` lists every component, the ones not modelled with the reason.

**Event bus** (`libs/shared-communication/src/event-bus`). State: in the broker, a durable queue
per subscription, its dead letter queue, and unacknowledged deliveries; in the process, one armed
`setTimeout` per failed attempt. Operations: `publish`, `subscribe`, the consume callback
`handleMessage` (handler, ack), `handleFailure` (nack and re-publication, or dead letter and ack).
Interaction: every service that publishes or subscribes, through the broker only. Hard: a retry
that is a *new* message while the old copy goes elsewhere; crashes between any two of handler,
ack, nack, republish and send-to-DLQ; redelivery; several replicas on one queue. Correct when no
event is lost, no event is doubled without a crash, attempts are bounded and retrying ends.

**CoCreation contract** (`contracts/puzzle_co_creation/CoCreation.sol`). State: per co-creation
the creators with basis points and a flag, a status, a signature count; a second record of the
signatures by address; one balance for all co-creations. Operations: `initiate`, `sign`,
`withdrawSignature`, `publish`, `distributeRoyalty`, `receive`. Transactions are atomic, so what
is hard is not concurrency but long legal sequences: three records of one fact, a status that
comes back to Draft, duplicate addresses, an initiator outside the team, dust, a shared balance,
a payee that refuses ether. Correct when the records agree, publication is unanimous and final,
shares are fair and ether is conserved.

**Blockchain event indexer** (`src/blockchain-events`). State: a cursor in memory, the table
`onchain_events` with a unique index on the transaction hash, the table of dead letters.
Operations: the cron job `pollForEvents` every 30 s, `replayEvents` on request, and the
initialisation at start. Interaction: Stellar Horizon by HTTP, Postgres, the handlers in
`event-handlers.service.ts`. Hard: ticks overlap (the job does not wait for its predecessor) at
every await; a cursor written from stale pages; restarts; failures of any query; failures while
recording failures. Correct when a transaction is handled once, nothing recorded is lost from
sight and nothing is skipped.

**Reward queue** (`microservices/quest-service/src/rewards`). State: `reward_queue` rows with
status, retry count and due time. Operations: enqueue, the cron job, per-item processing with
retry, bulk retry, recovery, cancellation, and a batch distribution over the same rows. Hard: stale
rows read before an await and written after it; two catch blocks that both write the status; a
selection by due time; two payers. *Not modelled*, for the reason given below.

**Experience** (`src/xp`). State: per player a row of `player_levels`, a copy of it in `users`, a
row of `user_streaks`, and `xp_awards` with a unique index on user and source event. Operations:
`awardXp` (one transaction), `awardPuzzleCompletionXp` (up to four such awards around the update
of the streak), `getMyLevel`. Interaction: `submitSolution` calls it once per correct answer;
other services call `POST xp/award` and may repeat a call. Hard: rows read without a lock and
written back; `save` updating only the columns that differ; repeated calls that overlap;
completions that die half way; midnight. Correct when the experience is the sum of the awards and
levels, streaks and bonuses are those that were earned.

**Webhook delivery** (`src/webhooks`). State: `webhooks` and `webhook_deliveries` in Postgres, one
job per delivery in a BullMQ queue. Operations: `create` and `remove` of a webhook, `enqueueEvent`
(one row and one job per webhook that wants the event, with a pruning of the webhook's history),
the nightly cleanup, and `process`, which posts a delivery and saves the outcome, with retries.
Interaction: the listener of the game's events, the endpoints by HTTP. Hard: row and job live in
two stores, changed one after the other; the pruning deletes rows whose jobs still wait or run;
answers that come too late; statements that fail after a request that succeeded; workers that die
or stall and are replaced while at work. Correct when nothing is lost in silence, rows tell the
truth, copies are bounded and explained, and the history stays within its limit.

**Cache lock** (`microservices/cache-service`). State: one key of Redis per resource, which holds
the token of a call and expires. Operations: `acquireLock`, `releaseLock`; `invalidate` and
`invalidatePattern`, which work on the same store. Hard: a lease that ends while the holder goes
on; releases that come late or twice; commands whose answer is lost; invalidations and evictions
that hit the key. Correct when, within the lease, only a deletion by others lets a second caller in.

**Inventory reservations** (`microservices/inventory-service`): a stock row shared by reservations,
expiry and cancellation. **Chain transaction monitor** (`src/blockchain-transaction`): looks up
the status of transactions. *Not modelled*, for the reasons given below.

**The rest** is either data with little control (puzzle content, generators, scoring, ratings),
one row per request (guilds, referrals, moderation), the behaviour of a library (the opossum
circuit breaker, Bull queues) or operations tooling. `microservices/matchmaking-service` contains
an older copy of the whole repository; `coverage` and `dist` are generated.

## EventBus and EventDelivery

`EventBus` is one subscription. `queue`, `inflight` and `dlq` are the broker's; `timers` are the
`setTimeout`s of the replicas; `runs`, `handled`, and what crashes cost (`crashes`, and for each
event `cut`, `unacked`, `forgotten`) are history. `handleMessage` is cut at each await: a delivery
has a stage (`handler`, `ack`, `nack`, `sendToDLQ`, `ackDLQ`), and a delivery of a process that died
is an `orphan` until the broker requeues it. `NackAndArmRetry` is `nack(msg, false, false)` followed
by `setTimeout`; because the queue has dead letter arguments, the nack puts a copy into the dead
letter queue at *every* failed attempt. `Republish` is the timer firing. The broker is external and
modelled by what the code asks of it. Backoff delays are abstracted: a timer may fire at any moment,
so every order of retries is covered.

`EventDelivery` is the promise without any mechanism: an accepted event is processed or
dead-lettered, only then forgotten, and after that never processed again; an event published
while no queue is bound is dropped.

*Checked* (`EventBus.cfg`: two events, two replicas, prefetch 2, three attempts as in
`DEFAULT_RETRY_CONFIG`, two crashes; 79,922 states): `EveryEventAccounted`, `OneLiveCopy`,
`InvocationsBounded`, `DuplicatesNeedCrashes`, `RetriesRunToTheirEnd`, and that the subscription
implements `EventDelivery`, liveness included. What a crash excuses is counted for the event it
hits: one more invocation for an attempt it cut short, one more completion only if it came between
the handler's end and the acknowledgement, an unfinished retry only if that very retry was armed in
the process that died. Two events suffice because events only meet in the
queue and under the prefetch limit; two crashes let a redelivery be hit again. `EventBusDLQ.cfg`
(no crash at all) shows that `DLQOnlyAfterMaxRetries`, which the code's comments and the
documentation state, does not hold.

*Fairness*: weak fairness of the delivery and of the handling steps, timers and redeliveries of
each event. Handlers terminate or throw, `setTimeout` fires, and RabbitMQ delivers and notices
closed connections. A crash, a publication and the subscription are never obliged to happen.

*Proved* (`EventBusProofs`), for any sets of events and replicas and any numbers: the five
invariants, and the safety that `RetriesRunToTheirEnd` rests on (`EndsHaveReasons`): no event stops
being live except handled, dead-lettered by its last attempt, or with its retry lost in a crash.
With it goes a measure: every step that moves the copy of an event brings it nearer to its end
(`Distance`, at most six steps per attempt), and only a crash takes it back (`RetriesComeNearer`).
The invariants are not inductive: that a retry creates no second copy needs to know where the one copy is, and
that attempts are bounded needs the number of invocations *by place* (an event waiting as attempt k
has run at most k - 1 times plus once per attempt cut short, one being handled at most k). `IInv`
adds these facts (`StageFacts`, `OnlyPublished`, `RetryBackedUp`, `RunsSoFar`, `HandledSoFar`);
there is one lemma per action. The assumptions are those on the constants. `KeepsThePromise` proves
from it that the initial state of the subscription is one of `EventDelivery`, and that every step of
it is a step of `EventDelivery` or a stutter, under the mapping of `EventBus` (`phaseBar`,
`processedBar`, `deadBar`). The steps fall into three kinds: those that only move copies of events
(`CopiesMove`), those that take the last copy of events away, which must have an outcome by then
(`CopiesVanish`, also a crash, which may take several at once), and those that produce an outcome.

*Not modelled*: a connection lost under a living process. The broker then redelivers while the
first handler still runs, and the old delivery tag is used on a new channel, with an effect that
amqp-connection-manager decides and the repository does not contain. So "no two replicas process
an event at the same time" holds only while a replica loses its connection by dying. Nor are
several event types on one subscriber modelled (its `handlers` map is keyed by type), or messages
that are not JSON.

## CoCreation

One action per external function; a revert is a disabled action. `hasSigned` is the mapping by
address, `coCreations[id].creators[i].hasSigned` the flag by slot, `signatureCount` the counter.
`lead`, `received`, `offered`, `rounds` and `paid` are history. The amounts are unbounded
naturals: the compiler checks overflow and reverts, and no sum comes near 2^256.

*Checked* (`CoCreation.cfg`: three accounts of which one refuses ether, two co-creations, splits
with one, two and three slots and one that does not add up, all assignments of accounts to slots,
duplicates included, three units of ether, two distributions each; 809,092 states up to the symmetry
of the two ordinary accounts): `SignatureCountExact`, `ReportedStatusesAgree`,
`PublishedUnanimously`, `PublicationIsFinal`, `RoyaltiesFair`, `OnlyDustStays`, `EtherConserved`.
Two co-creations are needed because they share the balance; three slots because a duplicate and a
missing signature must fit beside a valid one. `PublishedUnanimously` has a premise (distinct
creators, one of whom initiated); `CoCreationSignOff.cfg` shows why: without it,
`AllCreatorsSignOff`, which the contract's README states, fails, because `initiate` counts the
sender's signature even if the sender is no creator. The same README (lines 11 and 131) says that a
withdrawal reverts to draft; the code does that only when the last signature goes (line 188).

*Proved* (`CoCreationProofs`), for any accounts, splits, amounts and numbers of co-creations:
everything above. The strengthening says that the
first slot of an address is unique, which slots exist for which ids, that the signatures are those
of the team and the initiator, and ties the payments of a slot to the total offered. Unanimity is
an argument on cardinalities: as many signatures as slots, the addresses distinct, and every
signer in the team, so the signers are the team.

`OnlyDustStays` and `EtherConserved` are about sums of any number of terms. The section on sums
first shows that `SumFunction` (a fold, hence a choice among the functions that satisfy the
recursion) satisfies its recursion on the subsets of a finite set, and then how a sum is affected by
its terms: additive, monotonic, linear in a factor, and under `EXCEPT` changed by what the term is
changed by. The inductions behind them are arguments about a least counterexample (`WFMin`), since
the library's induction rules take an operator and cannot be cited. The theorems rest on `MoneyInv`:
the shares of an initiated co-creation add up to the whole (the check `InvalidShareTotal`, line
104), so that one distribution, each of whose shares is rounded down by less than a unit, loses in
all a multiple of the whole which is less than the number of slots times the whole, hence at most
one unit less than there are slots; and `offered` and `paid` grow by one distribution at a time.

## ChainEvents

The ledger is external: `history` is the sequence of all events there will ever be and `height`
the last closed ledger; `IsPage` says what Horizon may answer. A tick is a record with a stage, so
that ticks interleave at every await: `response` (asked, with the `min_ledger` read before),
`find`, `insert`, `handle`, `mark`, `deadLetter`. `Fails` is the catch of `processEvent` from any
of its awaits, `DeadLetterFails` the save in that catch throwing, `RequestFails` the catch of
`pollContractEvents`. `Insert` is decided by the unique index. The cursor is a ledger and whether
it is held as text: the column is a `bigint`, which the driver returns as a string, and
`MinLedger` does what `+ 1` then does. `BootRead`, `BootFails` and `BootAssign` run beside the
first ticks, as the constructor does not await them. `StartReplay`, `ReplayHandle`, `ReplayMark`
and `ReplayFails` are `replayEvents`; the order of the rows of one ledger is left open, as it is in
the query. The handlers are one await that completes or throws.

*Checked* (`ChainEvents.cfg`: two overlapping ticks, three histories - one contract with two
ledgers; two events of one transaction and an unregistered topic; two contracts in one ledger - and
one upset among crash, replay and failure to save a dead letter; 573,501 states up to the symmetry
of the ticks): `HandledOnce`, `ProcessedWasHandled`, `PendingIsNoticed` and
`CursorLeavesNothingBehind`. `PendingIsNoticed` excuses a pending row only if a crash or an unsaved
dead letter cut a tick short at this very transaction (`lost`). `ChainEventsLive.cfg` checks
`EventuallySettled` with two overlapping ticks and one upset, on two events of one page and on two
ledgers (128,061 states): a page whose dead letter could not be saved is given up and done again.
`ChainEventsContracts.cfg` shows `EventsSynced`, which the component's README states, violated
because all contracts share the cursor. It would fail for two more reasons, a page that ends within
a ledger and a cursor that was read back as text. The premise `CursorReliable` of the two properties
that hold names all three, and nothing else.

*Proved* (`ChainEventsProofs`), for any contracts, ticks, histories, page limit and numbers of
crashes, replays and failures: the five invariants. `HInv` is about handlers: a transaction without
a row has not been handled; at most one tick is about to run the handler of a transaction, which the
unique index decides; a replay holds different transactions, all of them recorded; and the handlings
are counted against the replays requested, one more being still to come for what is on the list.
`CInv` is about the cursor: all that is at or below it is settled, a tick that asks does so from a
ledger below which all is settled, and up to the last ledger of the page a tick is at, all is
settled or still on the page (`Behind`). That the cursor may be set to the last ledger of the page
is an argument on indices: under the premise a page is an interval of the history, of `PageLimit`
events unless it is the last one, which is shown by cardinality, and so `PagesEndLedgers` applies.
The proof is also what settled the premise: that no ledger holds more events than a page is not
enough, since a page that begins one ledger may cut a later one. Two theorems are about steps and
need nothing of the cursor: a tick leaves an event of its page only when the event is recorded, in
the dead letters or without a handler, except in the step of a crash or of a dead letter that cannot
be saved (`EventsAreNotPassedOver`); and each step of a tick is to a later contract, a shorter rest
of a page, or a later await of the same event (`TicksComeToAnEnd`), so that only an await that never
returns keeps a tick from its end. TLC agreed with both on the instance of `ChainEvents.cfg`, and
refutes the first without its exception.

*Fairness*: the cron job keeps ticking, awaits return (weak fairness of each tick's steps), the
initialisation proceeds, and a contract's requests do not fail forever (strong fairness of the
response, per tick and contract, since failures may come in between). Crashes, replays and
closing ledgers are not obliged to happen.

## XpService and XpLedger

`XpService` is one player: `level` and `user` are the rows of `player_levels` and `users`,
`streak` that of `user_streaks`, `awards` the table `xp_awards`. A request (`job[r]`) is a solved
puzzle or a call of `POST xp/award`; it is cut at every statement: `check` (the two lookups of the
source event, merged because a source event never leaves the table), `load` and `create`
(`findOrCreateLevelInManager`), `insert` (the award), `compare` and `update` (the SELECT and the
UPDATE of TypeORM's `save`, which sets only the columns that differ), `mirror` (users), `commit`,
`emit` (`player.level_up`), and between awards `count` (`isFirstDailySolve`), `advance`,
`compareStreak` and `save` (`advanceStreak`). Postgres is external: at READ COMMITTED a SELECT sees
what is committed, and an UPDATE of a row or an INSERT of a key that an open transaction has
written waits for it (`HoldsLevel`, `HoldsUser`, `HoldsKey`). What a transaction writes becomes
visible in `Commit`; before, it is determined by its `job`. Of the four amounts for a base award,
which depend on the difficulty, one is taken; a day is a number. A caller of `POST xp/award` chooses
the reason: `ApiDaily` are the calls with the reason `first_daily_solve`, which `isFirstDailySolve`
counts like its own (`IsDaily`). `granted`, `announced` and the streak of a request that is done are
history.

`XpLedger` is the promise: a source event is entered at most once, and the balance is the sum of
the entries.

*Checked* with two overlapping requests, over a midnight (`XpService.cfg`; 242,843 states):
`XpWithinAwards` (updates may be lost, but no experience appears that was not awarded, although
repeated calls miss each other's uncommitted award), `DoneWasPaid` (base award, no hints, the day,
and the milestone of the streak the completion itself saved), and that requests waiting for
each other's rows and keys never form a cycle (`EveryRequestEnds`). `XpOverlap.cfg` shows what
overlap does break, with two requests and no failure: `XpIsSumOfAwards`, the accumulation that
`xp.service.spec.ts` tests one call after the other. With three requests one after the other, over
three days and with one failure at any statement (`XpSequential.cfg`; 445,347 states):
`RowsAgree`, `StreakIsEarned`, `MilestoneIsEarned`, `LevelAnnouncedOnce`, and that `awardXp`
implements `XpLedger`. Two requests suffice for the first question since a lost update and a
duplicate are matters of two; three, one per day, for the streaks. Overlap and failure together are
covered by the theorems.

With overlap, `StreakIsEarned` is violated too, by three requests over one midnight: the UPDATE of
a second solution of a day sets `lastPuzzleCompletedAt` only, and sets it back under a streak that
a solution of the new day has advanced since, so that day counts twice. No document states the
property of overlapping requests, so it is described here rather than kept as a run.

*Fairness* (`XpService.cfg` only): a request that was accepted goes on; statements return, and the
database grants a lock that becomes free. Arrivals, failures and midnight are not obliged.

*Proved* (`XpServiceProofs`), for any requests, thresholds, amounts, days and failures:
`TypeOK` and `XpWithinAwards` of requests that overlap as they like; `RowsAgree` and the
implementation of `XpLedger`, safety being all it states, under the hypothesis `MaxInFlight = 1`.
`XpWithinAwards` is not inductive: a commit adds to a row read earlier, so the invariant also says
that every row a request holds was within the sum when read (the sum only grows), and that the
award being committed is new, which is the unique index (`KeysUnique`): no two open transactions
have inserted one key, and none a committed one. For requests that do not overlap, `SInv` says that
the row a request holds is still the row, and that the columns it is going to set are those that
differ from it. That a level exists for every amount is proved from the thresholds starting at 0.

The safety content of `EveryRequestEnds` is proved too, for any number of overlapping requests.
`WaitsFor(r, s)` says that the next statement of r waits for a row or a key that the open
transaction of s has written. `LocksAreOrdered`: s is then further on in `awardXp` than r
(`LockOrder`), since every transaction takes the new player's row, the key of the award, the row of
`player_levels` and that of `users` in this order. The exception would be a transaction that has
inserted the player's row and waits for a key: `NewRow` says that nobody else can hold a key then,
because they have found no row. Since the order is finite, a request that is furthest on waits for
nobody (`NoDeadlock`). And every step of a request takes it nearer to its end, of at most fifty
steps (`Remaining`, `EveryStepCounts`). What remains for TLC is that fairness turns this into
termination, for which ENABLED is needed; on the instance of `XpService.cfg` TLC has compared
`Blocked(r)` with `~ENABLED Proceed(r)` and found them equal.

`XpCompletionProofs` adds `DoneWasPaid`, with any overlap: at each part of a completion everything
before it has been paid (`Paid`), and a repeated award finds the committed key of the first one.
Under `MaxInFlight = 1` it proves `StreakIsEarned` and `MilestoneIsEarned` from one invariant
(`TInv`): the streak in the row, the streak a request is about to write and the one a bonus was paid
for all have their solved days behind them, and since the row is unchanged since it was compared,
the partial UPDATE leaves what the entity says. `LevelAnnouncedOnce` follows from `AInv`: no
announced level is above the level of the sum, and the one about to be announced is, because the
thresholds grow, above all of them.

*Not modelled*: `users.experience` has a second writer (`referrals.service.ts:341`), whose rewards
the next award overwrites, and `user_streaks` one in the daily challenges. A process that dies
between the commit and the event `player.level_up` never announces the level (`xp.service.ts:151`);
`LevelAnnouncedOnce` says that no level is announced twice, not that each is announced.

## WebhookDelivery

`rows` holds the status of the row of each delivery (an event for a webhook), `jobs` the job of the
same id, `born` the order of `createdAt`. `enqueuer[e]` is the run of `enqueueEvent` for event e,
cut at each await: `loop`, `insert` (the transaction of `save`, whose start fixes `createdAt`),
`find` and `delete` (`pruneDeliveryHistory`), `add` (the job). `worker[v]` is one call of
`process`: `find` (the row), `post`, `select`, `update` and `insert` (`save`, which for TypeORM is
a SELECT and then an UPDATE of what differs, or an INSERT if the row is gone), `report` (return or
throw). `RemoveWebhook` deletes the rows with the webhook, `CleanupExpiredDeliveries` those before
some time; both leave the jobs. BullMQ is external and modelled by what its documentation promises
of version 5: `attemptsMade` is counted when an attempt ends, a job whose lock is not renewed goes
to another worker `MaxStalled` times (`StallDead`, `StallAlive`), and a worker that lost its lock
reports in vain. Delays between attempts are abstracted: a waiting job may be taken at any moment.
`PostUnheard` is the timeout of ten seconds after the endpoint has accepted. `posts`, `received`,
`dropped` and `revived` are history. Of the columns of a row only `status` is modelled; an old
`nextRetryAt` or `error`, which `save` leaves alone when the entity has `undefined`, is not.

*Checked* (`WebhookDelivery.cfg`: one webhook, two events, two workers, a history of one row, one
retry and one stall, and one upset among a failing statement, a death, a stall of a living worker
and a late answer; 360,479 states up to the symmetry of events and workers): `CompletedWasAccepted`,
`RowsTellTheTruth`, `NoBrokenPromise`, `CopiesBounded`, `HistoryWithinLimit`. Two events are what
overlapping prunings and a pruned row with a live job need; one webhook, because webhooks share
nothing but the loop. Upsets are counted for the delivery they hit, and the properties excuse a
delivery by its own upsets only: what fails elsewhere is no excuse. `NoBrokenPromise` speaks also of
the row whose job is not yet added: it must be on its way to one. `HistoryWithinLimit` excuses one row
for each pruning that is under way or has failed (stage `unpruned`), and the rows that workers
brought back, which the code does not prevent. With two upsets the same holds on
3.4 million states, more than a run that is repeated at every change should take; the theorems cover
any number. No fairness is assumed and no
liveness claimed: BullMQ decides when a job is taken.

*Proved* (`WebhookDeliveryProofs`), for any events, webhooks, workers, limits and numbers of upsets:
all but `HistoryWithinLimit`. `IInv` says
what is known at each stage of the enqueuer (`Enqueuing`: no job before its row), of the job
(`JobOK`) and of each worker (`WorkerOK`: for instance, what is to be saved as a success was
accepted). Copies are counted by the requests still to be sent: those already sent and those of
workers about to send one (`Pending`) never exceed the attempts that were begun (`PostsOK`), and
the accepted ones, the pending ones and a job that may be taken again never exceed one more than the
upsets of the delivery (`AcceptedOK`). `Undisturbed` is about a delivery at which nothing failed: its
job and its one worker know of each other, and the row has the outcome before the queue has it.
`RowsGetJobs` adds that its row has a job, or an enqueuer that is between the insertion and the
addition. That a step at one delivery leaves these facts of all others alone is shown once, by
lemmas about the delivery at which a step may change anything.

`WebhookHistoryProofs` proves `HistoryWithinLimit`. Prunings overlap: one deletes what another has
found, or finds what another is about to delete, so a bound for each pruning alone is not inductive.
The invariant bounds what is left after any set of the prunings that have found their rows
(`Bounded`): not more than the limit and the inserts not pruned by those. It rests on every recorded
row having a `createdAt` (`BornInv`) and on a query leaving no more rows than the limit (`Retained`).

*Left open by the code*: a row whose enqueuer failed between `save` and `add` (`EnqueueFails`) never
gets its job, since nothing picks such a row up. The properties name it as an upset of that row.

## CacheLock

`lock` is the key of one resource, `lease[c]` the time it was last set for by call c, `stage[c]`
what the call awaits. `EvalSet`, `EvalTaken` and `EvalFails` are the script of `acquireLock`,
`Verify` the reading back, `Retry` the loop; `ReleaseEval` and `Exists` are `releaseLock`. A command
of a broken connection was executed before or not at all, and its error is caught or the client
sends it again. `Lapse` is the expiry, `Invalidate` a deletion or an eviction of the key, `Scan` and
`SweepDelete` are the two halves of `invalidatePattern`, between which the key may change hands.
What a holder does with its lock is not in the code; it may release at any time, also too late.

*Checked* (`CacheLock.cfg`: three calls of two attempts, one failing command and one deletion by
others; 701,496 states): `HoldersBounded`, `ReleasedIsGone`, `RefusedBlocksNobody`. Three calls
are a holder that is late, the one that came after it, and a third one that must not get in. Failing
commands (`upsets`) are counted for the call they hit, and only those excuse a token left behind. No
fairness is assumed: `acquireLock` gives up after its attempts.

*Proved* (`CacheLockProofs`), for any calls, attempts, failures and deletions: these, and that
without deletions a holder within its lease still has the key (`HolderKeepsLock`), and that
`releaseLock` answers false only for a reason (`RefusalsHaveReasons`). Mutual exclusion is an
argument on the calls that lost the key within their lease (`Ousted`): each was deprived of it by a
deletion of its own, and of the holders all but one are among them.

*Not modelled*: `getOrSet`, `set`, `warm` and the counters of the cache, which concern other keys.

## Not modelled

The **reward queue** has two payers of which it is open which one is meant: `simulateTokenTransfer`,
which the queue awaits for each reward, is a placeholder that pays nothing, while
`processBatchFromQueue` pays through `SorobanTokenService` and marks the row `cancelled` also when
`distributeRewardToUser` answered `success: false`. That a reward is paid once has no subject
before this is decided. **Inventory** reads a stock row and saves it without lock or transaction; a
model would restate the lost update that `XpOverlap.cfg` shows under stronger isolation. The **chain
transaction monitor** and its retry resubmit nothing: they look up a status on Horizon and save it.

Of the modelled components: a message that is not JSON, which `handleMessage` parses outside its
`try`, so that it stays unacknowledged; the `handlers` map, keyed by event type, so that two
subscriptions to one type share a handler; referral rewards and the announcement lost in a crash
(see `XpService`); a replay with `toLedger`, which drops the condition on `fromLedger`, is in the
model (`InRange`) but no property is about it.

The share of the repository that the modules cover is small because most of its 5,000 files are
CRUD, content and copies. The other components are listed with the reason in `PROJECT.json`.

## Bounds

`MaxCrashes` (`EventBus`), `MaxUpsets` (`ChainEvents`, `WebhookDelivery`, `CacheLock`),
`MaxRemovals` (`CacheLock`), `MaxCoCreations`, `MaxReceived` and `MaxRounds` (`CoCreation`),
`MaxInFlight`, `MaxDay` and `MaxFailures` (`XpService`) are guards of the actions they bound, named
in the modules as bounds of the model; there are no state constraints. `MaxAttempts`, `Prefetch`,
`PageLimit`, `RetentionLimit`, `MaxRetries`, `MaxStalled` and `RetryCount` are parameters of the code
or of its libraries, with smaller values in the runs. `CHECK_DEADLOCK FALSE`: a bus without messages,
a contract nobody calls, calls that have all ended and an instance whose bounds are used up do stop.

## What stays with TLC

Liveness (`RetriesRunToTheirEnd`, `EventuallySettled`, `EveryRequestEnds`) and the liveness half of
`ImplementsEventDelivery`, because ENABLED is out of the prover's reach. The
safety behind them is proved (`RetriesEndForAReason`, `RetriesComeNearer`; `NothingBehindTheCursor`,
`EventsAreNotPassedOver`, `TicksComeToAnEnd`; `NoDeadlock`, `EveryStepCounts`): what is missing is
only that a step that can be taken is taken.
Everything else that a passing run checks is also proved.

## Plan

What is left, in the order of its worth:

1. `SolutionSubmission`: the flow before `awardPuzzleCompletionXp` (rate limit, nonce, statistics),
   composed with `XpService`.
2. A connection lost under a living process, as an extension of `EventBus`, once its effect on
   acknowledgements is settled.
3. `RewardQueue`, once it is decided who pays: overlapping ticks, recovery, cancellation and the
   batch distribution on two processors and two rewards.
4. `Inventory`, with an abstract atomic stock it is meant to implement.
