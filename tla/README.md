# FINAL: a verification project

FINAL is a Next.js application for payment requests in USDC on the Arc chain.
A merchant makes a link, somebody pays it with a transfer that carries a memo,
and the server decides from the chain which transaction settled which request.
Around that sit webhooks, machine payments under spending policies, escrow, API
keys, wallet sessions, rate limits and a checkout page. There is no database:
nearly everything durable is one JSON value (`src/src/lib/payStore.ts`), written
by optimistic compare-and-set from any number of server processes.

This directory holds TLA+ models of that code, the configurations under which
TLC checks them, and proofs that TLAPS checks. Paths below such as
`payStore.ts` are under `src/src/lib/` unless they say otherwise.

## Inventory

| Part | State | Operations | What makes it correct |
|---|---|---|---|
| Payment rows (`payStore.ts`, `resourceLimits.ts`) | one row per link token: views, submitted hashes, paidTx, cancellation, late settlement | create, merge, view, add hash, settle, cancel | one transaction settles one row; a settlement is final; a payment wins over a cancellation exactly when it was mined before it; caps hold |
| Settlement (`settlement.ts`) | none of its own: acts on rows and on the webhook outbox | submit a hash, reconcile, settle and enqueue | no hash is believed unverified; `payment.paid` is queued with the transition, once per endpoint; a payment can always be recovered |
| Payment HTTP (`payStatusHttp.ts`, `resolveCancellation.ts`, `finalCancel.ts`) | what a request holds between two awaits | register, view, submit, reconcile, cancel, reads | what an answer says stays true; decisions taken on stale rows do no harm |
| Store (`payStore.ts`, `payStoreCas.ts`) | the JSON value, in Redis or in a file | read, compare-and-set loop | a mutation is atomic; callers learn the truth; retries end |
| Chain proofs (`receipt.ts`, `payPaid.ts`, `arcProof.ts`, `finalRequest.ts`, `payRequest.ts`) | none | verify a receipt against a link, scan the logs, bind a proof to an intent | what is accepted is a transfer made for this request |
| Webhook deliveries (`webhooks.ts`, `webhooksCatalog.ts`, cron route) | endpoints, deliveries, leases | emit, claim, send, retry, prune, manage endpoints | bounded attempts, no two workers on one row, outcomes are final, every delivery ends |
| Agent intents (`agentPayments.ts`) | intents, remembered answers | create, read, submit | idempotent answers, a verification is final, spend stays under the policy |
| Policy ledger (`policyLedger.ts`) | reservations of each merchant | reserve, consume, release, recover | no reservation is lost, what is held fits the caps |
| Policies (`paymentPolicy.ts`, `paymentPolicies.ts`) | policies, denials | create, update, delete, decide | a patch loosens nothing it does not name; what cannot be read is not allowed |
| Escrow contract (`src/contracts/FinalEscrow.sol`) | status of each agreement, USDC | open, void, cancel, fund, release, refund | money is where the status says |
| Escrow service (`escrowService.ts`, `escrowTerms.ts`, `escrowChain.ts`) | agreement rows, used nonces | create, confirm each step | the row follows the contract, never runs ahead, can always catch up |
| API keys (`apiKeys.ts`, `apiScopes.ts`) | keys, rate buckets | create, update, rotate, revoke, authenticate | a secret that is dead stays dead; ceilings hold |
| Wallet access (`walletNonce.ts`, `workspaceSession.ts`) | nonces, sessions | signed requests, challenge, login, logout, authenticate | a signature is used once; a session ends for a reason |
| Session client (`workspaceSessionClient.ts`) | the page's session, its flights and loads, the cookie jar | load, sign in, sign out, switch wallet | data reach the wallet they are for; a sign-out lasts |
| Rate limits (`publicRateLimit.ts`, `distributedRateLimit.ts`) | buckets of a process, counters in Redis | allow, hit | one quota for all processes, a local bound without Redis |
| Checkout (`src/src/components/Checkout.tsx`, `checkoutState.ts`, `checkoutObserve.ts`, `sendMemo.ts`) | what the page saw, the payment in progress, sessionStorage | ask, pay, announce, reload | says paid only of what is recorded, never knowingly pays twice, comes to show a payment |
| Reports (`merchantDashboard.ts`, `analytics.ts`) | none: projections of the store | overview, series, policy detail | reports agree with each other and with what is enforced |
| Developer API (`developerApi.ts`) | none of its own | create and read requests | same rows as the public API |
| Webhook transport, pages, SDK | | | see "Not modelled" |

How they interact. Handlers call the store functions; every store function is
one `mutatePayStoreBlob` whose mutator is pure and may be run several times.
Between two store calls a handler awaits the chain or another store call, and
any other handler of any process may run. The ledger of policies is a value of
its own with its own compare-and-set, so an intent and its reservation are
written in two steps. Webhook events are written to the store (`payment.paid`,
in the mutation that settles) or emitted fire-and-forget (everything else), and
a cron route delivers what is due. The checkout page and the dashboard are
asynchronous clients of these routes, with states of their own.

What is hard: handlers that decide on a row they read before an await and write
it back whole; a payment and a cancellation that cross; one transaction that
matches two rows; two mutations that belong together with a crash between them;
an answer of Redis that is lost after the write happened; candidate slots that
strangers can fill; clocks read early and compared late; two parsers of one
body; answers that reach a page in another order than they were asked for.
`hazards` in `PROJECT.json` lists them line by line with the properties that
cover them.

## Modules

| Module | Models | Built on |
|---|---|---|
| `PayRecords` | the row type and the pure functions of `payStore.ts`; the checks one mutation makes of the whole snapshot | |
| `PaySettlement` | the payment handlers over the shared rows, the outbox entry of a settlement, the chain and the clocks | `PayRecords` |
| `PayLifecycle` | the abstract promise: how the phase of a row moves, one settlement per transaction and for good | |
| `PaySettlementProperties` | the properties, and the refinement of `PayLifecycle` | `PaySettlement` |
| `AtomicStore` | the abstract promise of `mutatePayStoreBlob` | |
| `PayStoreCas` | its loop over Redis and over the file, and the refinement | |
| `WebhookOutbox` | delivery rows, leases, workers, endpoints | |
| `PolicyLedger` | the pure functions of the spend-cap ledger and of the spending rule | `Totals` |
| `AgentIntents` | creating, submitting and reading machine payments over intents, requests, remembered answers and the ledger | `PolicyLedger` |
| `Policies` | creation, patches and deletion of policies, and what they decide of a machine payment's body | |
| `EscrowLife` | the abstract life of an agreement | |
| `EscrowContract` | `FinalEscrow.sol`, its transactions and USDC balances | |
| `EscrowService` | the handlers that follow the contract, what the merchant's report counts, and the refinement of `EscrowLife` by contract and rows | `EscrowContract`, `Totals` |
| `MemoProof` | the calls and logs of a transaction, and the proof that it pays a request | |
| `Checkout` | the payment page, over `PayLifecycle` as its server | `MemoProof` |
| `WalletAccess` | signed requests, nonces, challenges, sessions | |
| `SessionClient` | the dashboard's session coordinator against the session routes and the cookie jar | |
| `FixedWindow` | the counter that several maps keep | |
| `Totals` | the total of an amount over a finite set | |
| `ApiKeys` | management, authentication and report of keys | `FixedWindow`, `Totals` |
| `RequestLimits` | the limiter of a process and the shared counters behind it | `FixedWindow`, `Totals` |
| `Reports` | dashboard and analytics over a store that changes | `PolicyLedger` |
| `SignIn` | both ends of signing in, as one specification | `WalletAccess`, `SessionClient` |
| `MerchantApi` | four components behind a merchant's API, as one specification | `Policies`, `ApiKeys`, `RequestLimits`, `Reports` |
| `MC*` | instances for TLC | the module they are named for |
| `TotalsProofs` | what `Total` computes, for the proofs | `Totals` |
| `*Proofs` | theorems | the module they are named for |

`PaySettlement` composes on `PayStoreCas` by its refinement: because the loop
implements `AtomicStore`, each mutation of a handler is one action of
`PaySettlement`, with "the outcome was lost" as one of its answers; the same
goes for every other module that writes the store. The mutation of
`settleAndEnqueue` appears twice: `PaySettlement` counts the entries it puts
in the outbox and proves that there is one per settlement and endpoint
(`QueuedOnTransition`); `WebhookOutbox` takes that entry (`Settle`, once per
event) and follows it from there. `Checkout` has `PayLifecycle` as its server,
which `PaySettlement` implements, and takes what a transaction is to that
server from `MemoProof`.

`SignIn` and `MerchantApi` put components that share no state into one
specification: the variable `part` chooses in the initial state which of them
moves, and the others stay as they are. Nothing is said there about their
combination. `ApiRunsItsParts` proves that each part behaves as its own
specification says, so that what is proved of a module holds of its part; a
property of such a part that would not hold of a component that stands still by
itself has the part as a premise.

### How state and actions correspond to the code

One action is what runs between two awaits: a store mutation or a chain read,
with the decisions that follow it. A request refused before its first effect
(bad signature, rate limit, unknown row) is not a step, except where being
refused is the subject. A request can end anywhere without its next step: the
store or the chain cannot be reached, or the process dies; a restarted process
is an idle handler, since handlers keep nothing.

**Payments.** `rows[t]` is `store.records[token]`; `stored` says that the key is
there. The link fixes version, request id, payee and expiry, so they are
parameters (`Version`, `IdOf`, `Payee`, `ExpiresAt`). `outbox[e][v]` counts the
first attempts queued for endpoint `e` and event id `v`. `call[h]` is the local
state of the request that handler `h` serves: where it awaits, its token, the
hash it carries, the candidates it has left, the clock it read. `answer[h]` is
what its last response promised. `mined`, `chainNow` and `now` are the chain
and the server clock. So `StartSubmit` is the read of the row and the tests made
on it, `SubmitCandidate` is `addSubmittedHash`, `SubmitVerify` is
`proofFromTransactionHash`, and `SettleAndAnswer` is `settleAndEnqueue` with
the response. A proof is abstracted to what settlement asks of it: `Settles[x]`
is the set of links whose terms the receipt of `x` matches, `IsProof` adds that
it is mined and, for V2, mined before the expiry. The scan sees the
transactions of the last `Lookback` of block time and takes the newest that is
a proof. `overtaken` in `PayStoreCas` is not kept by the program.

**Webhooks.** `rows` is `webhooks.deliveries` in the order written; a row that
was pruned stays in the sequence with status "pruned", which is how the model
says that the key is gone. `leaseOwner` is the worker where the code has a
random token: a worker claims a row at most once per pass, and a new claim of
the same row by the same worker presupposes that the pass ended. `nextRetry`
and `lease` count down instead of being compared with a clock, so that a state
does not carry an ever growing time; `age` counts up to `MaxAge` and orders the
rows for pruning, which compares creation times in whole seconds and leaves
equal ones in any order. `worker[w]` is a request that emits an event or a pass
of the processor: its program counter, the job in hand, the jobs left of the
list it read at its start, and the endpoints it saw then. `deliverOnce` is
`Enqueue`, `Find`, `Claim`, `Load`, `GiveUp` and `Send`; the retry branch of the
processor is `Claim`, `Load`, `Consume` and then `deliverOnce` again.

**Machine payments.** `intents`, `answers` and `records` are `agents.intents`,
`agents.idempotency` and the payment requests in the blob; `ledger` is the
merchant's ledger, a value of its own. `calls[c]` is what a request holds
between two awaits, and has the fields that its step needs and no others: a
create the intents and the clock it read (`facts`, `at`), its attempts, the
ledger value its next write compares with (`read`), whether the reservation is
its own to release (`held`); a submission the transaction and the row it
judged. Creating is `CreateRead`, `Decide`, then `ReserveRead` and
`ReserveCommit` for each attempt of `reserveSpendAtomically`, `CreateRequest`,
and `StoreIntent` or `ReleaseHold`; submitting is `SubmitRead`, `Verify`,
`Persist`, `Settle`. `Remember` is `persistTouched` for an answer without an
intent. The lock of `withMerchantPolicyLock` is left out, because it holds in
one process only and the code says that it is an optimisation
(`agentPayments.ts:174`). Terms are an amount, since a request id fixes the
rest; `Pays` says which intent's memo a transaction carries, if any, and when
it was mined is chosen when a proof first looks for it (`Mine`).

**Policies.** A policy is its flag and its rules, a rule a value or `Absent`; a
patch names the rules it changes, `Null` removes. A body is what the two sets
of parsers make of each of its fields: read by both, by none (`Bad`), or, an
expiry, read "loosely" by the policies and refused by the request parser. The
payments verified so far are a parameter, as their growth is `AgentIntents`'.

**Escrow.** An element of `Escrow` stands for the terms of an agreement, since
the contract derives its id from them. `chain` is the sequence of transactions,
each one call of the contract or an unrelated one that looks like it; a hash is
a place in it. `handler[h]` is a request of the service: the row as it read it,
the action, the nonces of the authorization. `VerifyFunding`, `LoadTransaction`,
`Save` and `Emit` are its awaits; `Advanced` is the row it writes back whole.
`announced` counts the events given to the webhooks.

**Checkout and proofs.** A transaction is one or two steps out of calls of the
Memo contract, transfers, and calls of another contract that wrap either one
(`Executions`); `Receipt` gives its logs, and `verifyReceiptForRequest`,
`parseMemoReceipt` and `bindProof` are computed from the logs as the code does.
`Fate` sums up what a transaction is to the server; "forged" is one that a
proof accepts although no call made for this request moved its amount to its
recipient. The page keeps the last answer (`observed`), the answers still on
their way (`inflight`, a set, since equal answers do the same), what the wallet
reports, the progress of a payment (`flow`, `sending`, `pending`) and the hash it
knows (`submittedHash`, and `stored` in sessionStorage). A reload keeps
`stored` and nothing else. Other browsers, wallets and contracts of the same
link are `MinedElsewhere` and `RowMoves`.

**Signing in.** In `WalletAccess` a message is a signed request or a sealed
challenge, with a nonce of its own; a handler uses the clock of its arrival in
all its later steps, and prunes by it. In `SessionClient` a flight is a run of
`establish`, a load a run of `workspaceFetch`; a request carries the cookie
that the jar held when it was sent, is served later, and its answer moves the
jar whether or not the page still cares. The session ids are the flights that
made them. `out` and `staleNo` are history.

**Keys and limits.** A secret is its number; a management request lists the
keys, decides, and writes one row. Ids stand for the order of creation; some keys
were made and revoked before, with secrets nobody presents. `passed`, `undone` (the
revoked keys that a stale row made active again), and in `RequestLimits`
`local` and `shared`, are history. A command to Redis whose caller gave up
stays under way (`late`) and may be carried out at any later time.

**Reports.** The store changes by one action per kind of row, each as the module
that owns it lets it change; the reports are operators over the state. A denial
has every reason of its decision, so it may name several codes and policies, and
the same one twice.
Timestamps may lag the clock by one unit, because a row is written some time
after its clock was read.

## Runs

| Run | What it asks | Instance |
|---|---|---|
| `pay_replay` | can a transaction settle two rows, an event be queued twice or not at all, the candidate cap be passed | two V1 links with the same terms, a transaction that matches both and one that matches one, an endpoint of the payee and one of a stranger, one candidate slot |
| `pay_supersede` | does block time decide between payment and cancellation, can two rows of one request id both be paid, do answers stay true, do the rows follow `PayLifecycle` | two V2 links with one id that expire at different times, two transactions that match both, a handler that registers, submits and cancels, one that cancels and reconciles |
| `pay_recovery` | is every request answered; is a payment found when its slot is taken and the scan is too short | one V2 link, one slot, a hash that never verifies, a scan that sees nothing old |
| `store_cas` | is a mutation atomic, does a call end | either backend; three writers; mutators that update a row, drop it, and insist on creating it (which throws when it is there); two attempts |
| `outbox_leases` | what stale workers may do to rows: nothing | two workers, one event, one endpoint, three attempts, one tick of lease, so leases run out under working workers; an outbox that keeps two rows; one crash |
| `outbox_settles` | does a delivery ever have two rows to send, or one left after a success; does every delivery end | two workers that finish within their lease, three attempts, one crash, the cron under fairness |
| `agent_intents` | do reservations fit the cap under every interleaving and survive other writers; is a verified intent or a remembered answer ever undone; what may consume a reservation | two requests at a time over two ids, two keys for creates and one for a submission, a cap that holds one large or two small amounts, two attempts |
| `escrow` | is the money where the contract's state says; does the row tell the contract's life, step by step, announced once; can it always catch up; do contract and rows live as `EscrowLife` allows | one agreement that expires after one tick, two handlers, one nonce, four transactions of which one is unrelated |
| `checkout` | does the page say paid only of what is recorded, does it ever knowingly pay twice, does it come to show a payment; does the proof accept what the page sends and nothing that only looks like it | a V2 link, two transactions with any fate, every order of answers, one reload; every execution of one or two steps |
| `sign_in` | does a signature open one thing, does a session end only for a reason (server); do data reach the wallet they are for, does a sign-out last (page) | server: three messages of two merchants, three sessions under a cap of two, two handlers that take up to a tick; page: two wallets, two loads, two flights, three switches or sign-outs |
| `merchant_api` | policies: is anything stored that was only deferred, does a patch loosen what it does not name; keys: do dead secrets stay dead, do ceilings hold; limits: do quotas hold; reports: do they agree | policies: two, and twelve bodies; keys: three, of which some were revoked before, two stored and one active at most, two handlers, two secrets, two presentations of each in a window against a key limit of one; limits: one process, two clients, two requests; reports: two requests, three hours, two denials of one and of three reasons |
| `key_revoked` | what the code says of revoked keys and does not do | one key, two handlers |

Why the bounds suffice. The races are between two requests: mutations are
atomic, each handler is at one point, so a third adds no new kind of conflict on
one row. They are over at most two rows (the cross-row checks compare a row with
one other) and two transactions (the one that pays, the one that comes late or
pays another row). Few clock values are needed to put an event before, at and
after a boundary. `Serves` only limits which request kinds each handler is used
for, to keep a run in minutes; between them the runs use all. The theorems
below need none of these bounds.

In `PayStoreCas`, `MaxAttempts` is 2 instead of 8: the loop treats every
attempt but the last alike. The value is compared as a whole, so mutators that
undo each other are part of the instance: a store that returned to an earlier
value passes the comparison, and atomicity must survive that.

In `WebhookOutbox` two workers suffice for a row, which has one holder and one
worker that is late. `MaxAttempts` is 3 instead of 5 and each delay is one
tick: first, middle and last attempt are what `RetryAfter` and `Load` tell
apart. `Keep` is 2 instead of 100 in `outbox_leases`, so that the third attempt
prunes, and out of reach in `outbox_settles`: what is pruned has no end to
reach. `MaxRows` admits every row the event can have. `MaxCrashes` is one: a
second crash meets the rows the first one left. `Prompt` is the relation of two
constants of the code: a send is cut off after 8 seconds
(`WEBHOOK_HTTP_TIMEOUT_MS`) and a lease lasts 60. It is not a guarantee, since a
process can be suspended, so every other property is proved without it.
`OneOpenRow` needs it, in the run and in its theorem: a worker that comes back after its lease has another
attempt enqueued beside the one its successor schedules.

In `AgentIntents` two requests are a writer and one that is late, and two ids
are what a cap divides. The amounts are 1 and 2 under a cap of 2, so that an
id may be asked for with other terms, be refused, or fit exactly. Two clock
values put a block, a verification and the grace before and after each other;
`Grace` is 0, so that releases happen within them. `Creates` and `Submits` say
which bodies clients send under each key, so that a key is also reused with
another body while its first request is still running; a key is answered once
and a repetition changes nothing.

In `EscrowService` agreements share nothing but the contract's balance, which
the proofs treat for any number; four transactions are open, fund, a payout and
an unrelated one that may stand anywhere among them. Two ticks are before and
at the expiry. One nonce is enough, since it is spent by the step that ends the
agreement.

In `Checkout` one transaction is the page's and the other a stranger's, or a
second one of the page. Answers are a set of at most three, so their order is
unbounded. One reload meets every state of the page; a second one finds what
the first one left. The link is V2, because it can expire; a V1 link has the
same states without `due`, and its own match of receipts, which the theorems
cover.

In `WalletAccess` `Tolerance` is 1 and `Slack` 2 ticks instead of 300 and 60
seconds: what matters is that a request's duration and a wallet's lead stay
under the slack. In `SessionClient` two flights are one that is stale and one
that is not.

In `ApiKeys` there is one key more than may be stored and one stored more than
may be active, and with keys that were revoked before the ceiling on stored keys
is met without as many steps. Two requests of a secret in a
window pass the limit before authentication, and a key may have two secrets in
one window, so that what keeps a key to its one request is its own limiter (in
the code both limits are 60 unless the runtime sets the latter, and a rotation
gives a key another prefix). `Bounded` stops the clock
while two keys are stored that were made in the run: two keys share no bucket, so
the rates are a matter of one key, and the ceilings of one instant. The symmetry
is in handlers and clients, which no constant tells apart. In `Reports` one
denial is for want of a readable policy, and one has two codes, one of them for
two policies, and two reasons of one policy; the counts treat denials one by one.

Deadlock is checked in the runs of payments, store, outbox and checkout, where a
request can always start or time can pass. The others stop when their bounds
are used up (keys answered, transactions made, messages signed, the clock at its
end), so their runs do not check it.

### Fairness

`FairSpec` of `PaySettlement` is weak fairness of the steps of each handler: an
async function that was started is resumed by the event loop when its await
completes, and awaits complete because the chain client and the store client
have timeouts (`Fail`). Nothing makes requests arrive. `MerchantPersists`, the
premise of `GivenHashRecovers`, is a merchant who keeps reconciling with a hash,
and reads of the chain and of the store that do not fail every time. `FairSpec`
of `PayStoreCas` adds strong fairness of the file comparison: the chain of
promises serves writers in turn. `FairSpec` of `WebhookOutbox` is weak fairness
of each worker's steps, of time, and of some worker starting a pass over what
is due. The last is the cron: `src/README.md:172` says that it runs only where
`CRON_SECRET` and a plan with cron are configured, and without it retries wait
for the next settlement to start a pass. `outbox_settles` speaks of a deployment
that has it. `Checkout` assumes that the page's timer keeps asking (an interval
of eight seconds, cleared only when the page goes away) and that an
answer that says paid arrives when such answers keep being sent. It does not
assume that other answers arrive, that the payer acts, or that a report of the
hash succeeds. The remaining specifications state no fairness and no liveness.

## What the code does not do

`key_revoked` shows a disagreement. `handleUpdateApiKey` checks that the key is
not revoked (`apiKeys.ts:692`, "Revoked keys cannot be changed.") on a row it
read before, and `:708` writes that row back whole. A revocation stored in
between is undone, and the secret opens again. It also counts as an active key
again, so a merchant that filled the place meanwhile has more than the ceiling:
`QuotasHold` bounds the active keys that were not brought back.

The rest was met while modelling and has no run of its own. Three of the
properties that the code does not keep are stated in the modules all the same,
where their text says so.

Payments
* The clock of a cancellation is read before the row is read and created, so a
  request can be cancelled after every reader saw it expired (`payStore.ts:645`),
  against the comment at `:634`. It is why `PayLifecycle` lets EXPIRED go to
  CANCELLED.
* Cancelling a signed link that was never registered stores its row with
  `upsertRecord` (`payStatusHttp.ts:462`), which skips the checks of
  `createPayRecord`: the unique request id of `src/README.md:125` and the ceiling
  of rows of `:138`. `OnePaidRowPerId` shows that of two such rows one is paid.
* Two cancellations that read the row while it was open both notify
  (`resolveCancellation.ts:113`).

Webhooks
* The retry branch finalizes a row with no next time (`webhooks.ts:1301`) before
  `deliverOnce` writes the next attempt (`:1307`). A crash in between ends the
  delivery, against `webhooksCatalog.ts:52` (`CrashedWorkerRecovers` in
  `WebhookOutbox`). `EveryDeliverySettles` shows that this is the only such
  window.
* Pruning keeps the newest rows whatever their status (`webhooks.ts:551`), so a
  delivery that was never made can go, where `:1210` speaks of at-least-once
  delivery (`AtLeastOnce`).

Machine payments and policies
* A create evaluates each ledger it reads with the clock and the intents that
  it read at its start. What was consumed since is later than that clock and
  does not count (`policyLedger.ts:310`), so what is spent within a window can
  pass the cap that `paymentPolicy.test.ts:1022-1037` expects to hold
  (`SpendFits` in
  `AgentIntents`). `HeldFits` is what the code keeps: reservations held at one
  time fit.
* The caps on remembered answers and on denials drop the oldest from the copy
  a handler holds, and the touched entries are merged into the store, where
  nothing is dropped (`agentPayments.ts:532`, `:597-601`, `resourceLimits.ts:36-39`).
  No property speaks of this growth.
* A submission that finds its transaction taken answers 409 and still stores
  the answer it would have given (`agentPayments.ts:547-609`). By the proof of
  `VerifiedIsPaid` this cannot arise.
* A cap of zero admits nothing and has no row in the utilization report;
  `policies.reservations` is read and never written; policies and request
  parser accept different spellings of a field, which is why `StoredWasJudged`
  is worth a theorem.

Wallets and sessions
* A nonce outlives its signature by sixty seconds (`walletNonce.ts:11`). A wallet
  whose clock is ahead by more than that, less the time a request takes, can
  have a signature accepted twice. `SignatureWorksOnce` has this as its premise.
* `lastUsedAt` of a key may go backwards.
* In the page's coordinator a stale refusal overwrites the flag of a newer
  prompt (`workspaceSessionClient.ts:141-143`); a login under way at a switch of
  wallets sets the old wallet's cookie, which the next probe finds out; a late
  answer to a probe may clear a newer cookie. None of these shows one wallet
  the other's data (`DeliveredIsOwn`).

Checkout
* When waiting for the receipt fails (`sendMemo.ts:277`,
  `checkoutState.ts:249-256`), or the page is reloaded meanwhile, the hash of a
  payment that was sent is forgotten, and "Try again" pays a second time.
  `NoSecondPayment` is about the payments the page knows of.
* The receipt page knows one match, that of signed links (`receipt.ts:290`). A
  transaction that pays a legacy link by the older match
  (`matchV1Settlement`, `payPaid.ts:142`) need not bind its memo to its transfer,
  and the page then cannot verify what the store records as paid.
* Answers to status requests are not ordered, so a late one replaces a newer
  one until the next (`Checkout.tsx:103-112`).
* In a transaction with two calls of the Memo contract, `parseMemoReceipt` takes
  the first bound memo. An agent's intent may be refused ("memo") for a
  transaction that pays the request.

Reports
* `webhookAnalytics` counts pending deliveries as malformed (`analytics.ts:646`,
  `webhooks.ts:84`).

## Proofs

TLAPS checks eight modules. All theorems hold for every set of links,
transactions, handlers, endpoints, writers, agreements, wallets, clients, keys
and policies, and every value of the limits, from the named assumptions on the
constants (`NoTxAssumption`, `LinkAssumption`, `LimitAssumption`,
`HandlerAssumption`, `StoreAssumption`, `OutboxAssumption`, `AgentAssumption`,
`TermsAssumption`, `ServiceAssumption`, `ContractsAssumption`,
`CheckoutAssumption`, `AccessAssumption`, `PageAssumption`,
`PoliciesAssumption`, `ApiAssumption`). These give types, say that "none"
values are none of the values, and that a contract that is not USDC has another
address. Two say more: a request that authenticates a key takes no longer than
a rate window (`MaxDuration <= Window` in `ApiKeys`; the window is 60 seconds),
and sets that are added up over are finite. Where a property depends on a
relation of constants that the code only makes likely, the relation is a premise
of the property and not an assumption: `Prompt` of `OneOpenRow`, the slack of
`SignatureWorksOnce`, `MaxDelay <= Grace` of the shared quota.

Most proofs have one plan: an inductive invariant, one lemma per action, then
the theorems. Every safety property of a passing run is stated by a theorem.

`PaySettlementProofs`. The properties are not inductive as they stand. `IInv`
adds which fields of a row occur together (`RowOK`: a cancellation has its time,
a row that carries a cancellation time is cancelled or paid, a late settlement
presupposes a cancellation), what a handler between two awaits may rely on
(`CallOK`: a hash about to be settled was verified, a V2 cancellation has read
its clock, a row about to be marked is stored) and that answers were true
(`AnswerOK`). `Grows` says what no step takes back; it carries the handlers'
knowledge across the steps of others. One lemma per way the store changes, one
per action. Proved: `TypeOK`, `OneRowPerTx`, `OnePaidRowPerId`,
`SettlementsAreDue` (a settlement is proven, and comes before the cancellation
or after it as the row says), `AnswersStayTrue`, `PaidForGood`,
`QueuedOnTransition`, and `FollowsLifecycle`, the refinement of `PayLifecycle`:
one lemma per way the store changes (a row is merged, viewed, cancelled, named
a candidate, settled, or grows old) maps it to Create, View, Cancel, Pay, Expire
or a stutter. `GuardsAreIdle` says of the guard that every mutation of the store
passes through (`preserveDurableFlags`) that it has nothing to restore, because
no mutator takes a settlement or a cancellation from a row.

The same module proves the store under the rows (`PayStoreCas`). Its invariant
adds that a call in "commit" or "write" has a value to write, that "write" is a
critical section whose comparison still holds, and that each attempt but the
last was lost to a change. Proved: `StoreTypesHold`, `StoreConflictsAreReal`, and
`MutationsAreAtomic`, the refinement of `AtomicStore`. The step that takes effect
is the write whose comparison succeeded, or the read when the mutation changes
nothing.

`WebhookOutboxProofs`, for any number of crashes. `IInv` adds that a row that is
done is held by nobody, that every row and every job in hand is of an event that
happened (so the rows a settlement appends are new to their event), and what
each program counter says of the job in hand. `RowStep` is the one relation
behind the action properties: a step leaves status and holder of a row alone,
prunes it, claims it when it is due, or is a step of its holder. Proved, without
`Prompt`: `TypeOK`, `OneRowPerAttempt`, `LeasesHold`, `OutcomesAreFinal`. Proved
under `Prompt`: `OneOpenRow`. Its invariant `Order` says that of an event and an
endpoint one worker at most is busy, that is about to write their next row
(`Writes`: then no row is open and none succeeded) or in possession of a row it
may yet consume (`Works`: then that row is the only open one, and its lease
runs), and that a row that is held is open. `Closes` is what all steps but a
write have in common: they open no row, and take none from a worker at work; the
one that does not hold without `Prompt` is the tick that ends the lease of a
worker that is still at work.

`OutboxNoneStranded` is the safety that `EveryDeliverySettles` rests on, without
`Prompt`: while nothing crashed, no delivery is left with a retry that was taken
up and that nobody carries on. Its invariant `Carried` says that the job in a
worker's hand is of the row it points to, and that a consumed row is followed by
the row of the next attempt or by a worker that is about to write it (`Followed`).
Losing the race for that row leaves the row of the winner; a first attempt is
no successor, which matters because any row of the event stops it.

`AgentIntentsProofs`. `Knows` is what a handler's state says of the store,
whoever writes meanwhile: a verified intent it read is still verified, because
no step undoes a verification (`StaysVerified`); a row it judged verified is of
the intent that its transaction pays. With `VerifiedIsPaid` a transaction
verifies one intent only, the conflict answer of a submission never arises, and
`ConsumedIsVerified` follows although ledger and intents are stored apart.
`HeldFits` needs what a handler that is about to write the ledger knows of the
value it will compare with: what that value holds after recovery, plus its own
amount, fits the caps (`CommitFits`). Recovery only takes reservations away, so
a write adds its amount to exactly what was counted. Proved: `TypeOK`,
`HeldFits`, `ConsumedIsVerified`, `VerifiedAnswersHold`, `VerifiedForGood`,
`AnswersStand`, `ReservationsAreKept`.

`EscrowProofs`. The contract's own log carries the argument: for each step that
the contract took there is a transaction (`ChainTells`), and what a stored
transaction says was and stays true. A row, stored or in the hands of a handler,
is no further than the contract and has the transactions of its own life
(`RowTrue`), so a stale copy that is written back whole is still true;
`OneAnnouncement` counts the handlers about to announce with those that did.
Money: each call of the contract moves one amount between one account and the
contract, and moves its agreement between the sets that `MoneyIsWhereStatusSays`
adds up; that is inductive with the types. From it, what the contract owes is
covered (`EscrowIsCovered`), and what the merchant's report shows as funded is
held by the contract or was paid out since (`EscrowReportIsBacked`). Proved
besides: `TypeOK`, `RowFollowsContract`, `StoredHashesTellTheLife`,
`AnnouncedOnce`, `RowCanCatchUp`, and `BothLive`: contract and rows each
implement `EscrowLife`.

`SignInProofs`. Server: a message is burned from the step that stores its nonce.
While it is burned, its nonce outlives the window of every handler that could
still be working on it, or that window is over (`Guarded`), which is why the
pruning that other handlers do by clocks of their own does no harm. The step
needs `MaxAhead + MaxDuration < Slack`, the premise of the property. Proved:
`TypeOK`, `SignatureWorksOnce`, and `EndsForAReason`, which says of a sign-in that
it removes, besides what is over and what its own browser held, only sessions of
its merchant that are no younger than any of the old ones that stay, and only
when as many stay as may. Client: what a load has got is of the merchant it asked for (`AnswersOwn`), and the generation it began
in is compared before it is delivered; and once signed out, no sign-in is
shared, the account is declined, and every flight still under way is of an
earlier generation (`StaysOut`). Proved: `DeliveredIsOwn`, `SignedOutStaysOut`.

`MerchantApiProofs`. Policies: a decision "defer" is taken for a body that no
parser of the request accepts, at that time or later, since expiries only pass
(`NeverAccepted`); hence the create that follows it stores nothing, whatever
became of the policies. Keys: no row of a dead secret that is not revoked is in
the store or in the hands of a request (`Gone`), whatever updates are under way.
Quotas: `Paced` says what a limiter ensures that opened a window at a time and
counted so many in it: none passed after it, no more than counted in it, and at
most the limit in each of the two window lengths before. A window length meets
two windows of the limiter, or three where a request is counted by a clock that
it read a while before, and sees as many times the limit. For the shared counter,
`Kept`: it stays, counting what passed, as long as a command of its window may
still be answered. Keys: a creation counts them in its mutation, and a row
that is written back was stored (`Own`: the active keys but those brought back).
Reports: a total over the rows is the sum of its totals over
buckets or statuses (`TotalByParts`), each row being in exactly one bucket
(the arithmetic of `BucketOf`); denials are in one bucket each, but under several
codes and policies, which cover them (`CoverCounts`); a recovery of the ledger
only takes reservations away, so no cap counts more than the utilization shows. Proved: `TypeOK` of all
four parts, `StoredWasJudged`, `OmittedRulesStillDeny`, `DeadSecretStaysDead`,
`QuotasHold`, `ReportsAgree`, and `ApiRunsItsParts`.

`CheckoutProofs`. First the proof of receipts, for transactions of any number of
steps, which may call other contracts that move tokens and call the memo any
number of times in their turn (`AnyExecution`; the runs have `Executions`, of
one or two steps and one wrapped part). Every log tells of something that was
done (`Told`): a memo of a call of the Memo contract with these fields, a
transfer of USDC of a call of the token; that holds of the logs of a step and is
carried to the whole through what `FlattenSeq` computes (`FlattenIs`). A memo to
USDC with the request's id and terms is then the payment itself. So a
transaction that verifies, or that binds to an agent's intent, moved the amount
to the recipient in a call made for it (`ProofIsSound`). The match of legacy
links lets memo and transfer be of different calls (`LegacyProofIsSound` says
what is left, and that of a single call it is the payment) and accepts whatever
the newer one accepts (`LegacyTakesMore`). None is "forged" (`NoneForged`), and
the page's own call settles a link of either version (`OwnCallSettles`). Then the
page: `Sending` relates the progress of a payment to the hashes the page knows:
the wallet is asked only by a page that knows of no payment; `SeenIsPaid` says
that no answer, arrived or on its way, claims a payment that is not recorded.
Proved: `CompletedIsPaid`, `NoSecondPayment`, `PaidIsTransferred`,
`OwnPaymentIsProven`.

`TotalsProofs`. `Total` adds a function up over a finite set by the fold of the
community modules. The library's induction theorems cannot be instantiated by
the installed provers, but their set form can: a non-empty set of subsets of a
finite set has a smallest one, and a smallest counterexample is refuted from the
smaller sets. Proved that way: a total can be taken apart by one element, grows
with its set and its summands, depends only on the values summed, and splits
into the totals of parts; a cardinality is the total of ones.

Model-checked only: liveness (`EveryCallReturns`, `GivenHashRecovers`,
`CallsReturn`, `EveryDeliverySettles`, `PaidIsShown`), which is out of the
prover's reach, and the violation of `RevokedStaysRevoked`.

## Not modelled, and why

* Signatures, byte layouts, decoding of logs and paging of log reads:
  arithmetic on data, whose outcome is a parameter or a choice here.
* Wrapped calls that wrap calls in their turn: a contract that `MemoProof` calls
  through the memo moves tokens and makes memo calls, of which none calls
  another contract. In `PaySettlement` what a transaction proves is `Settles`.
* Reads over HTTP: the statement, lists, one row. They change nothing. What the
  dashboard computes from the store is in `Reports`, what it says of keys and
  agreements in `ApiKeys` and `EscrowService`; the analytics of webhooks, the
  ordering of rows and `ledger.ts` are left out.
* Rate limits and authentication as guards of the other modules' handlers: they
  refuse a request before its first effect. They are modelled for themselves.
* The guards by which a mutation restores whole sections that its mutator
  dropped (`payStore.ts:212-295`), apart from that of the payment rows
  (`PreserveDurableFlags`): the modules have a section each, and write no other.
* A file write torn by a crash, and several processes on one file, which the
  code excludes in a comment (`payStore.ts:472`). The ledger in a file compares
  and writes as Redis does within one process.
* Machine payments of a merchant without a spending policy, which reserve
  nothing and are a part of the paths modelled; unsigned previews.
* Webhook transport (`pinnedHttps.ts`, `webhookSecretCrypto.ts`): address checks,
  TLS and encryption are functions and I/O, with the outcomes that `Send` has.
* The status that the session client displays; bridging and gas figures of the
  checkout; every other React component: presentation of state kept elsewhere.
* The SDK: a stateless HTTP client and a signature check.

## What is left

Every part of the system that keeps state has a module, and every safety
property of a passing run a theorem. What could still be added:

1. The analytics of webhooks over the states of `WebhookOutbox`.
2. `AgentIntents` over `PayLifecycle`, as `Checkout` is: the settlement of the
   payment row behind a verified intent.
3. Wrapped calls of any depth in `ProofIsSound`.
