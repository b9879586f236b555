# OBP Bank Node: TLA+ models and proofs

The OBP Bank Node sits between a bank's core systems and OBP-API. It sends
cross-bank payments out, receives credits, and pays net settlements in ADA. This
directory models the parts of it that move or promise money, the machinery they
lean on (credentials, routing checks, rates, the message consumer) and the
operator app that sets an instance up. It checks them with TLC on small
instances, and proves the main safety results with TLAPS for instances of any
size.

Paths below are relative to `src/crates/`. `N` stands for `obp-bank-node/src`
`B` for `obp-blockchain/src`, and `A` for `obp-bank-node-app/src`.

## 1. The system

### Components

| Component | State it keeps | Operations | Module |
|---|---|---|---|
| REST south side, `N/rest/handlers.rs` | none (writes the outbox) | initiate_payment, request_settlement, get_corridor_settlement, reads | `Dispatcher` (what changes state), `RoutingRegistry` (the routing check), `ObpClient` (errors handed on) |
| Outbox, `N/outbox.rs` | durable rows INITIATED → SUBMITTED → PROMISE_WRITTEN → REPORTED, or EXCEPTION; settlement stamp | insert, claim_due, record_attempt, mark_* | `Dispatcher` |
| Dispatcher, `N/dispatcher.rs` | the batch and the row in hand | process_due_once, process_row | `Dispatcher` |
| OBP-API client, `N/obp_client.rs` | cached bearer token | submit_open_corridor, report_promise, settlement calls | `ObpClient` (token, timeout, class of a failure), `RoutingRegistry` (paging), `Dispatcher` (effects) |
| Interface C consumer, `N/interface_c/consumer.rs` | connection state, backoff | consume, reply, reconnect | `Consumer`; one delivery at a time and lost replies also in `Settlement` and `CreditNotification` |
| credit_notification, `N/interface_c/router.rs`, `N/cbs.rs` | none | verify, store, deliver to the CBS, return | `CreditNotification` |
| Evidence store, `N/evidence.rs` | durable evidence row, cbs_status, return link, stamp | upsert, record_cbs_result, record_return, mark_settled | `CreditNotification` |
| settlement_advice, `N/interface_c/router.rs` | none | stamps outbox and evidence | `Dispatcher`, `CreditNotification` |
| settlement_instruction, `N/interface_c/router.rs` | none | claim, retry, settle, record, reply | `Settlement` |
| Settlement store, `N/settlement_store.rs` | durable rows SETTLING → SUBMITTED → FINAL, or ERROR with a retryable flag | claim, reclaim_for_retry, mark_*, record_depth | `Settlement` |
| Finality watcher, `N/finality.rs` | the worklist of a tick | tick | `Settlement` |
| ADA rail, `B/cardano/settlement.rs` | none | settle, confirm | `Settlement` (outcomes), `Wallet` (sizing and building) |
| Notary writes, `B/cardano/mod.rs` | the submit lock | write_promise | `Dispatcher` (outcomes), `Wallet` (steps) |
| Transaction builder, `B/cardano/tx.rs` | none | parse_utxos, select_largest_first, build_signed_payment | `Wallet` |
| Chain-sync follower, `B/cardano/follower.rs` | watched transactions, recent points, tip (in memory) | watch, unwatch, status, forward, backward, reconnect | `ChainFollower` |
| Ogmios client, `B/cardano/ogmios.rs` | none | one call per connection, or a session | by outcome in all modules |
| Amounts and FX sources, `N/interface_c/router.rs`, `N/fx.rs` | none | parse_minor_units, quote | `Rates` |
| Routing registry, `N/routing.rs` | a copy of OBP-API's ACTIVE schemes, none at first | load, check, refresh in the background | `RoutingRegistry` |
| Operator app: sign-in, `A/oidc.rs` | pending logins, sessions (in memory) | begin_login, complete_login, access_token, logout | `Oidc` |
| Operator app: setup page, `A/setup.rs` | none (everything is at OBP-API) | status, apply, test_account, directory | `Setup` |

### Interaction

* A payment is written to the **outbox** before it is answered with 202. The
  **dispatcher** takes the row through three remote effects, each followed by a
  store write: a Transaction Request (TR) at OBP-API, a Promise on Cardano, and
  a report of the Promise to OBP-API.
* OBP-API sends messages over RabbitMQ to one **consumer** task. It handles
  them one after another and publishes a reply when the handler is done. OBP-API
  redelivers what it has no good answer to.
* A **credit notification** is stored as evidence, then delivered to the CBS. A
  refused credit is sent back as a new payment (a RETURN) through the outbox.
* A **settlement instruction** is claimed in the settlement store, paid in ADA
  and recorded. The **finality watcher** later promotes it, asking the rail, which
  asks the **follower**.
* Promises and settlements are paid from **one wallet**, guarded by one lock.
* Every call to OBP-API goes through one **client** and its cached token. A
  background task keeps the **routing registry** up to date through it.
* The **operator app** is a process of its own. It acts at OBP-API as the
  administrator who is signed in, and has no credentials of its own.

### What is hard here

* Every remote effect is separated from its durable record by a gap in which the
  process can die, the store can fail, or the answer can be lost while the
  request is still carried out.
* The broker redelivers, so every handler runs more than once for the same thing.
* The follower is in memory, lags behind the chain, loses its connection, and
  the chain forks under it.
* Two tasks write the same outbox rows, two tasks the same settlement rows, and
  two tasks spend the same coins.
* Each pass of the fee loop may change the size it has just computed the fee of.
* Tokens expire, prices age and registry pages shift while a request for them is
  under way.
* An apply of the setup page may be several calls, against an instance that
  others change too.

`PROJECT.json` lists these as hazards, each at its line, with the properties that
would catch it going wrong.

## 2. Modules

| Module | What it is |
|---|---|
| `Settlement` | settlement_instruction, settlement store, ADA rail by outcome, finality watcher |
| `PayOnce` | abstract specification of the settlement path: one transfer per obligation, and only a made transfer is declared final |
| `Dispatcher` | outbox, dispatcher, stamping |
| `CreditNotification` | credit_notification, evidence store, CBS delivery, return |
| `ChainFollower` | the follower, against a chain that grows and forks |
| `Confirmations` | abstract specification of chain and follower: what the node may rely on when it asks for a depth. `ChainFollower` implements it, `Settlement` is built on it |
| `Wallet` | the submit lock, sizing, coin selection, fee loop, submission |
| `ObpClient` | the token cache, the life of a call, the classes of failure |
| `RoutingRegistry` | extends `ObpClient`: refresher, paging, copy, check |
| `Rates` | parse_minor_units and the cross-rate quote |
| `Consumer` | extends `Rates`: supervisor, session, delivery, reply, acknowledgement |
| `Oidc` | logins, sessions, refreshes |
| `Setup` | extends `Oidc`: the status checks and the applies |
| `SettlementProofs`, `DispatcherProofs`, `CreditProofs`, `FollowerProofs`, `WalletProofs` | theorems and proofs about the module of that name |
| `ObpClientProofs` | about `RoutingRegistry` and the `ObpClient` it extends |
| `ConsumerProofs` | about `Consumer` and the `Rates` it extends |
| `SetupProofs` | about `Setup` and the `Oidc` it extends |
| `MC*` | the modules the `.cfg` files instantiate |

Conventions shared by all modules:

* A handler is a task with a program counter `pc`. Its places are the points at
  which something else can happen: an `await`, a store write, a remote call.
  What lies between two of them is one action.
* A remote call has up to four outcomes, each an action: accepted, refused (a
  verdict), unavailable (no effect), unanswered. An unanswered request stays in
  flight and is carried out at any later time or never.
* Faults are named (`FaultKinds`), switched on by `Faults` and counted against
  `MaxFaults`. `Crash` clears exactly what is in memory.
* Operators named `Mutant...` are faulty variants of the definition that follows
  them. No action uses them. They show that a property can fail: see `mutants`
  in `PROJECT.json`.

### Settlement

`status`, `retryable`, `txid`, `lastDepth` are the store's columns, `pc`, `job`,
`signed` the handler's locals, `work` and `verdict` the watcher's, `watched` and
`seen` the follower's memory, `net` and `depth` the Cardano node. The handler
goes claim → (reclaim) → settle → submit → await → record, or to `rejected`
(nothing can be on chain) or `ambiguous` (something may be), and the two end in
ERROR with and without `retryable`. `Claim` is the INSERT of
`SettlementStore::claim` together with the answer to a row that exists. The
chain and the follower are those of `Confirmations`: the chain drops up to
`MaxRollback` blocks at a time (`Extend`, `Fork`), `Follow` brings `seen` up to
date at any time, and `FollowMisses`, a fault, reports some of the watched
transactions as pending although they are on the chain.
`RailReportsRejection` lets the watcher's Rejected branch be taken, which the
`SettlementBackend` trait allows and the Cardano rail never uses.

### Dispatcher

`Initiate` is initiate_payment up to the committed insert. `ClaimDue` reads a
batch; the rows in it are copies and may be stale. `process_row` is one action
per remote outcome and one per store write. `Stamp` is both settlement_advice
and the REST settlement calls. `Poison` are payments OBP-API never gives a
verdict on. `Tries` bounds how many different TRs or Promises one payment can
leave behind. `Panic` is a failure text that is cut inside a character: it ends the
task (`dead`), and only a restart brings it back.

### CreditNotification

`content` says whether the message carries a matching commitment, one that does
not match, or too little to verify. Deliveries are numbered, so the model can
tell which delivery led to which credit. `attempt` is the time of the result a row
records (`cbs_recorded_at`), as the number of the delivery that recorded it: the
latest attempt wins, also over a delivery that was good. `LateCredit` is the CBS posting after
the node gave up on the answer.

### ChainFollower

Blocks are numbered as they are made, so a fork's block differs from the one it
replaces. A block carries its height, as `BlockSummary` does, and that is what
the follower records. `Pruned` is the `retain` of a step back, entry by entry. `asked` holds the candidates of `findIntersection`. The node's session
`cursor` is what it has sent; when the chain forks it first announces the
rollback point (`Backward`). A behaviour starts with a follower just spawned
(`Spawned`) or one in sync with a full list of points (`InSync`). `skipped` is
history: the blocks it passed without reading, because they could not be parsed
(`GarbledForward`) or because it had no point to start from and started at the tip
of the chain. It has none before its first session, and again when a fork has taken
all it had read and the connection then ends. A step back that cannot be parsed
(`GarbledBackward`) is skipped too; the number 0 in `skipped` stands for it, and
`Misled` says that it happened. `Depths` and `Reports`, the
confirmations on the node's chain and those `status` answers, are what
`Confirmations` is about.

### Wallet

Two writers go query → lock → read → build → submit. `BuildPass` is one pass of
the fee loop. Amounts, fee parameters and constants are the real ones; the
length of the encoded transaction is a base plus the bytes of inputs, outputs
and CBOR integers. `LargestFirst` gives every result `select_largest_first` can
have over the orders of equal coins. `behind` is an auxiliary variable: whether
a payment of the wallet was on its way when the coins were read.

### ObpClient and RoutingRegistry

`phase` is where a call is: waiting for the token mutex (`queue`, first come
first served), reading the cache, fetching, sending. Time is what is left of it:
a token carries the seconds until it expires (`left`) and until it is to be
replaced (`refresh`), and `Tick` takes one off each. A token the endpoint has made but the
client has not read (`issued`) grows old too. `waited` keeps every request
within the client's timeout. `Workers` are the dispatcher and the refresher,
whose failures `classify_failure` sorts; `Operators` the interactive calls, whose
failures `classify_interactive_failure` sorts. `Panic` is `truncate` cutting a long
failure text inside a character, where the token endpoint (`TokenPanics`) or OBP-API
(`AnswerPanics`) answered with it: unwinding frees the token mutex, an interactive
request ends, and the task of a worker is `dead`.

`registry` is OBP-API's list, `rows` what the refresher has of it, `loaded` the
copy. Other administrators insert and withdraw rows at any place of the list at
any time. `watch` and `basis` are history: what the list held during the reading
under way and during the one the copy comes from.

### Rates and Consumer

A quote asks the sources of the first leg in order until one has a usable price,
then those of the second. Sources publish and prices age between any two steps.
Prices are small whole numbers and `Unit` the divisor that turns their product
into minor units, so that a price can round up, tie, vanish or overflow. An
amount is a whole part and the characters after the point; the characters that
matter are the digits, the plus sign Rust's parser takes, and others by their width,
since the cut is at byte 2: one byte, two, or three and more. Only `DebtIsAmount`
and the panic need them. The code multiplies prices as doubles; `PriceToMinor` is
exact, and the two can differ only at a tie or a limit.

`session` and `backoff` are `run_supervised`'s, `buffer`, `doing` and `stage` the
loop's in `run`. `link` is the connection, which may end at any time; the
broker then puts back what was not acknowledged, while the client hands out what
it has buffered. `HandlerPanics` ends the task for good, as a panic inside the
spawned supervisor does. What a settlement pays is in `Settlement`; here its
handler is followed to the end of its quote. Every message has a `replyTo`; one
without is handled and acknowledged, and nobody waits for it.

### Oidc and Setup

`pending` and `sessions` are the two maps of `Oidc`, a session being `live` or
expired and keeping the refresh token it was last given, if any (0 is none). The
provider takes a code once; one that comes back makes it withdraw the tokens it gave
for it. It may give a login no refresh token at all, and may rotate the token with
every refresh or with none. `ended` is history: the logins whose session had a reason
to go. A tab is a request with a program counter; `NeedToken` is `require_token`, and two tabs may refresh at once.

`there`, `routings`, `place`, `mine` and `users` are the OBP-API instance: whether
an item is absent, as configured or otherwise, the account's routings and place
in the directory, the administrator's roles, whether the named users exist.
There is one item of each kind; the administrator's roles are two items, listed
first, as the page lists them. `UserFound` is the lookup of a user, which needs
CanGetAnyUser at OBP-API, a role no item stands for. `Check` is what the page says of an item; applying goes
me → (resolve) → call → (update), each an OBP-API call that can fail, before or
after it took effect. The page offers it only for the states of `Applyable`.
`Elsewhere` are other administrators.

## 3. Runs

Each run takes from a second to under three minutes on two cores.

| Run | Bounds | Shows |
|---|---|---|
| `settle_safety` | 1 key, 1 handler, 2 possible transactions, 5 faults of 6 kinds, finality depth 3 over forks of 2 | paid at most once; FINAL is buried; replies are true; `PayOnce` is implemented |
| `settle_liveness` | 2 keys, a timeout or a fork | no attempt stays SETTLING; every SUBMITTED row is resolved |
| `settle_restart` | 1 key, 1 crash | violation, see section 6 |
| `dispatch_safety` | 2 payments, one poisoned, 3 TRs and Promises each, 2 settlements, 1 fault of 5 kinds | evidence agrees; stamps are true; rows only move forward; the other payment ends |
| `dispatch_resubmit` | 1 payment, 1 crash | violation, see section 6 |
| `follow` | 1 transaction, 3 points kept, forks of 2, height 6, 3 faults of 3 kinds, spawned or in sync | as long as every step back could be parsed: a depth beyond the deepest fork is true of the chain now; no inclusion is missed but in skipped blocks; only a young follower is stranded; `Confirmations` is implemented. It catches up unless stranded |
| `credit_safety` | a payment and a return, 2 deliveries each, 1 settlement, 2 faults of 4 kinds | evidence first; outcomes true; returns due; an outcome is replaced only by that of a later attempt |
| `credit_redelivery` | 1 credit, 2 deliveries, no fault | violation, see section 6 |
| `wallet_payments` | 2 writers, 20 wallets of up to 3 coins and a token coin, 6 debts, 2 payments, 1 fault of 5 kinds | the fee loop converges on valid transactions; debts are paid exactly; only payments on their way collide; attempts end |
| `registry` | the refresher and 1 interactive call, lifetime 3, lead and timeout 1, 2 schemes on pages of 1, 1 change of the registry, 1 fault of 5 kinds | cached tokens are alive; credentials never end a payment; refusals have a reason; calls end; the copy catches up while the refresher lives |
| `consumer` | 1 message with any of 7 amounts or none, backoff up to 3, 2 sources per leg, 1 publication, 3 faults of 4 kinds | the backoff is right; debts are exact; quotes are fresh, rounded once and from the preferred sources; the message is answered |
| `setup` | 1 login, 2 tabs, 5 kinds of item, 1 configured and 1 foreign routing, 1 event of 7 kinds, an empty or a booted instance, a provider that rotates or not and gives refresh tokens or not | a session keeps the refresh token the provider takes until it is dropped for a reason; what is reported as done is in order; applying what is offered, in any order, converges |

Why the bounds are enough. One key, payment or credit suffices for the safety
runs because rows of different keys share nothing but the task that handles
them; two are used where the question is whether one can hold the other back.
Two different transactions or TRs are the least that can be a double payment.
Every fault kind is available in each passing safety run, and the fault count
lets a fault hit the retry of an earlier fault. `FinalityDepth = MaxRollback + 1`
is the tightest choice the assumption allows. In `wallet_payments` the coin
values are chosen so that dust, change, an added input, too many inputs and
insufficient funds all occur, and the fee loop needs one, two and three passes.
There `MaxTxSize` is 480 bytes, so that three coins are too many, and the
integer widths are scaled to fit TLC.

In `registry` two pages are the least between which the list can change. A
lifetime of 3 with a timeout of 1 is the shortest for which `CopyCatchesUp`
holds: fetching and using a token may each take a whole timeout. In `consumer`
the prices are the smallest for which every branch of the rounding is taken
(products 4, 5, 16 and 20 over a unit of 10, and 0); the two-byte character stands
both first, where it is refused, and second, where the cut panics, and a wider one
first, where the cut panics, and third, where it is refused. Three faults
take the backoff over its cap. `setup` has the items that wait for one another:
both lists of roles, bank, account and grant. Scheme, broker and FX rate wait for
nothing but a role or the bank and are one call each; they are left out of the run
and included in the theorems. Two tabs let a code be presented
twice, an expired session be refreshed by two requests, and a request meet
another one's apply. One event is enough for a late answer, an expiry, or another
administrator between the two calls of an apply; the safety properties are proved
for any number of events, tabs and logins.

`Settlement` takes the watcher's whole worklist: `WORKLIST_LIMIT` (100) is not
reached. In `dispatch_safety` a batch holds both payments, so the `LIMIT` of
`claim_due` is not reached either; section 6 says what happens when it is.

`CHECK_DEADLOCK FALSE` is used where a bound ends the run: the chain's height,
the number of deliveries, the number of payments.

## 4. Fairness

* `Settlement`: the handler runs to its end once it has a delivery, the watcher
  ticks for ever (`main.rs` spawns it unconditionally), the follower keeps
  reading, and the Cardano node answers, grows and includes what it accepted.
* `Dispatcher`: the task loops for as long as it lives, its calls have timeouts, and
  `retry_interval` passes.
* `ChainFollower`: `run()` reconnects for ever and a session that is up is
  answered.
* `Wallet`: each writer goes on, and a free lock is given to a waiting writer
  (a tokio mutex queues its waiters). The number of payments is bounded, so weak
  fairness is enough.
* `RoutingRegistry`: the refresher loops for as long as its task lives
  (`main.rs:563-574`; nothing starts it again after a panic), calls do
  their next step, the clock runs. That a page with a live token is answered is
  strong fairness: an answer may come so late that the token has expired, but not
  every time. Nobody has to call, to change the list or to revoke a token.
* `Consumer`: the supervisor's task does its next step, OBP-API's relay sends an
  unanswered message again and the broker delivers. Nothing has to break.
* `Setup`: a request that has begun goes on (every call has an end), and an
  administrator who is signed in keeps applying every item the page offers an apply
  for, in any order: strong fairness, since tokens may expire in between. This is an assumption about a
  person; the property asks whether the page leads somewhere if used as meant.

Deliveries, settlements and faults are owed by nobody. Liveness runs limit
faults to those the code claims to recover from; the violation runs add the
others.

## 5. Proofs

Every safety property the passing runs check is proved. The theorems hold for any number of keys, payments, credits,
deliveries, blocks, writers, messages, logins, tabs and faults. Each module's
theorems rest on the named assumption of the module they are about; where one
says more than that constants have their types, it is discussed below.

**SettlementProofs.** `TypeCorrect` needs no assumption beyond
`SettlementAssumption`. The others assume `SingleConsumer`, that is, one handler
at a time, as in the shipped consumer; section 6 says what happens without it.
`AtMostOncePayment` is not inductive: that `Send` is safe depends on where the
handler is and why. The invariant `IInv` therefore adds

* `HandlerInv`: which transactions of the key in hand can be at the node, at
  each place of the handler, and that its row is SETTLING while it pays;
* `RowInv`: a row that is absent or retryable has nothing at the node, and a
  SUBMITTED or FINAL row names its payment;
* `WatcherInv`: the watcher has only SUBMITTED rows in hand, each once;
* `DepthInv`: a depth beyond the deepest fork, once seen, stays true
  (`Confirmations!Trustworthy`), so an outdated answer is still good. This is
  where `FinalityDepth > MaxRollback` is used.

From it follow `PaidAtMostOnce`, `RetryIsSafe`, `RowsNameTheirPayment`,
`FinalStaysBuried`, `RepliesAreTrue`, `RowsNeverGoBack` and
`SettlementImplementsPayOnce`, the refinement of `PayOnce`.

What these theorems assume of chain and follower is `Confirmations` and no more:
its actions are the only ones that change `depth` or report anything. The two
halves of the composition are `FollowerImplementsConfirmations`, that the real
follower keeps to it, and `SettlementKeepsConfirmations`, that what the handlers,
the watcher and restarts do to the follower's list stays within it: withdrawing a
transaction forgets it, and a restart is a follower that reports nothing. The
second needs only the types, and holds for any number of handlers.

**DispatcherProofs.** The argument is that the dispatcher is the only writer of
the columns it reads, so the batch it works from, though read earlier, still
agrees with the outbox (`BatchInv`), and so do `process_row`'s locals
(`CurInv`). With `RowInv` this gives `PromisesAreBacked`, `EvidenceAlwaysAgrees`,
`ReportsAreTrue`, `StampsAreTrue` and `RowsNeverGoBack`.

**CreditProofs.** Deliveries are numbered as they come, so the one in hand has
left no trace before the CBS answers (`NumberInv`), and a refused delivery is
never posted (`RefusedInv`). From this follow `EvidenceComesFirst`,
`OutcomesAreTrue`, `ReturnsAreAlwaysDue` and, since the delivery in hand is the
latest of its credit, `LaterAttemptsOnly`.

**ObpClientProofs.** For any callers, lifetimes, schemes, page size and number of
changes. `CachedIsAlive` is not inductive: whether a token is alive when it is
cached depends on how long its response was under way. `TokenInv` says that what
is left of a token on its way and the time its fetcher has waited are at least
its lifetime, and that a cached token outlives its refresh time. It needs
`HttpTimeout <= Lead`, which holds with equality in the code (30 s each): with a
longer timeout or a shorter lead a dead token could be handed out. `ReadingInv`
says that everything read was listed at some point, and that, unless a row of the
pages already read was withdrawn, each scheme that was ACTIVE throughout is among the
rows read or in the pages still unread. Lemmas on inserting into and taking out
of a sequence carry it over a change of the list. From these follow
`CachedTokensAreAlive`, `OneFetchAtATime`, `RefusalsAreGrounded`,
`AcceptancesAreGrounded`, `OnlyReadingsChangeTheCopy` and
`CredentialsAreNeverTerminal`.

**FollowerProofs.** For any transactions, cap, heights and faults, as long as
`MaxRollback < Cap`: no fork is as long as the list of points. The code keeps 32
points; Cardano's protocol allows deeper forks than that, and for those nothing
is claimed. `BuriedIsTrue` is about the chain now, while all the follower knows
may be long outdated, so the invariant `FollowerInv` has to say what its memory
still has to do with the chain:

* `CursorInv`: what a session was sent shares with the chain all that precedes
  any block the two share;
* `PointsInv`: a point kept is a block that was sent, or one forked away whose
  step back has not been read (`Gone`); heights along the list increase, and the
  oldest point of a list longer than any fork is on the chain;
* `WatchInv`: an inclusion that is recorded is in a block that was sent, or was
  until it was forked away; and either its block is still among the points, or the
  oldest point is one that no fork can reach any more (`Anchored`);
* `TipInv`: what is reported deeper than any fork is on the chain;
* `SeenInv`: transactions of blocks that were sent and not skipped are recorded.

All of it is void once a step back could not be parsed: `FollowerInvariant` is that
`FollowerInv` holds until then, and the theorems say so. What holds even after is
`LooseInv`, the types and what a session knows of the chain.

The argument is that the chain never becomes shorter and a fork drops at most
`MaxRollback` blocks, so an anchored point stays. When the session is negotiated
again, the intersection is then at or above it, and the step back removes
exactly what was forked away. From this follow `TypeCorrect`, `BuriedStaysTrue`,
`InclusionsAreSeen` and `OnlyYoungStranded`. `FollowerInv` was checked with TLC on
two instances before it was proved.

`FollowerImplementsConfirmations` is the refinement. A step of the node's chain is
a move of the abstract one: what lies below the fork becomes one deeper, what does
not may be anywhere in the new blocks (`SwitchDepths`, with the lemmas on the
position of a transaction in a chain). A message the follower reads is a report:
it takes the tip's height from it, and by `WatchInv` what is then recorded
is in a block of the chain at the recorded height (`ReportExact`), also while it
is still catching up. Between messages its answers do not change, however outdated
they are.

**WalletProofs.** For any number of writers, any finite wallets of coins that are
not empty, any debts, and all fee parameters with `LedgerMin <= MinUtxoLovelace`:
change the builder keeps is change the ledger takes. The invariant `WalletInv`
says that the lock is held exactly by a writer that reads, builds or submits
(`Tasks`), what a pass of the fee loop knows (`Building`), that what is submitted
was built from the coins that were read (`Signed`), and that a writer for whom
nothing was under way when it read is still alone: nothing at the node, and its
coins unspent (`Alone`). `Alone` is what the lock is for; without it a second
writer could spend between the read and the submission. From it follow
`TypeCorrect`, `DebtPaid`, `LockPreventsRefusal` and `BuiltValid`, which is the
first half of `BuiltIsValid`.

The second half, that the fee loop never runs out of passes, is not true of every
choice of the constants: a wallet of coins smaller than the fee of an input would
call for one more input in each pass. `FeeLoopConverges` therefore rests on
`FeeLoopAssumption` as well: every coin is at least the ledger's minimum, which is
at least the fee of the bytes of a largest transaction, the encoding of an output
takes at least 8 bytes (it holds an address), and at least 7 passes are allowed.
On Cardano a byte costs 44 lovelace and a transaction has at most 16384 of them,
0.72 ADA, while the smallest coin is close to 1 ADA; `MAX_FEE_ITERS` is 8. The
argument (`PassPaced`) is about a pass that does not settle. With the inputs it
used, the next pass would settle unless the fee has grown into a wider CBOR
integer (`SameCoinsSettle`). If largest-first selection now takes more coins, the
one it adds pays for every further fee (`Roomy`), so that happens only once. The
fee has five widths, so at most six passes underpay (`Paced`) and the seventh
settles. That other writers' payments do not put smaller coins into
the wallet is `Minima`. All this is part of the invariant `FeeInv`, which TLC confirms on the instance of
`wallet_payments`. With the network's parameters a third pass does happen:
a wallet of two coins of 1.17 ADA and a notary payment of 1 ADA, where the
underpaid transaction of one coin calls for the second.

**ConsumerProofs.** For any messages, amounts of any length, lists of sources
(not empty, as the code's are), prices and faults. `BackoffInv` ties the backoff to
the number of sleeps since a session last consumed, at each place of the
supervisor; `DebtInv` what is owed to the amount of the message in hand; `QuoteInv`
says that the sources already passed over had failed and that the first leg's
price was held, and fresh, at some time since the quote began. `during` is what
lets an old answer count: it only grows while the quote is made. From these follow
`TypeCorrect`, `BackoffIsDoubled`, `DebtIsRead` and `QuotesAreBacked`. The facts about
rounding and about powers of two are lemmas.

**SetupProofs.** For any logins, tabs, configured items, routings and other
administrators. `StaysSignedIn` needs that a code is presented once, because a login
leaves `pending` as a tab takes it (`CodesOnce`), and that a session holds the refresh
token the provider takes, while a request that refreshes it holds that one or one
replaced since (`TokensTaken`).
Nothing is assumed about rotation or about whether refresh tokens are given.
`AppliedIsOk` is an action property. It follows from the
types, from the conditions under which a request has reached its call or its
update, which other administrators' changes keep, and from what each call does to
the instance. `SetupAssumption` says that a bank's items are configured with their
bank, under which `SetupConfig` nests them, and that roles are asked for only where
an item needs them, as in `required_admin_roles` (`A/setup.rs:360`).

**Proved and not run.** The type invariants of `Settlement`, `Dispatcher`,
`CreditNotification`, `ChainFollower` and `RoutingRegistry`, and of their properties
`KeepsConfirmations`, `RetryableNeverOnChain`, `RowNamesItsPayment` and `NoWayBack` (`Settlement`),
`PromiseBacked` and `ReportedIsTrue` (`Dispatcher`), `OneFetch`,
`AcceptanceIsGrounded` and `CopyChangesByReading` (`ObpClient`,
`RoutingRegistry`): they are steps towards what the runs check, and their
theorems say more than a run would.

**Only model-checked.** All liveness properties, since TLAPS does not reason about
fairness here: `SettlingEnds`, `SubmittedResolved`, `PaymentEnds`, `CatchesUp`,
`AttemptEnds`, `CopyCatchesUp`, `CallsEnd`, `EveryoneAnswered` and `Converges`.

**How data is reasoned about.** The library's induction theorems take an operator
as a parameter, which none of the provers in use can instantiate. Where a proof
needs induction it takes a least counterexample instead: a nonempty set of numbers
has a least element by `NatLessThanWellFounded` and `WFMin`, which are about sets.
`PrunedIs`, `MaxIs` and the facts on `PowerOfTwo` are proved this way.

## 6. Findings

The first three are runs that TLC refutes.

1. `settle_restart` (`B/cardano/settlement.rs:237`). A restarted follower does
   not know earlier transactions. confirm() falls back to UTxO presence, which is
   depth 1 at most, so with a finality depth above 1 the row stays SUBMITTED for
   ever. `main.rs:497-500` says such rows "must still be promoted to FINAL (or
   flagged)". The same property fails, with the fault `expire` in place of
   `crash`, for a transaction whose TTL passes: the Cardano rail never answers
   Rejected.
2. `dispatch_resubmit` (`N/dispatcher.rs:137`). A crash between OBP-API's
   acceptance and `mark_submitted` leads to a second Transaction Request. The test
   at `dispatcher.rs:563` covers only a crash after `mark_submitted`.
3. `credit_redelivery` (`N/interface_c/router.rs:189`). A redelivered
   notification is delivered to the CBS again although its row says DELIVERED;
   whether the customer is credited twice is left to the CBS. `evidence.rs:180`
   calls a redelivery safe.

The next six are claims that TLC refutes as well when their name is added to the
run that is given: to its INVARIANTS (`CannotMiss`, `RollbackReverts`) or its
PROPERTIES (the others). They are not runs of their own: where it matters, the
properties of these runs already name what is refuted here as their exception.

4. `CannotMiss` in `follow` (`B/cardano/follower.rs:211`). A follower without points starts
   at the tip it finds when it connects. A transaction that was watched, submitted
   and included before its first connection is never seen; nor is one included after
   a fork took every point the follower had read and its connection ended.
   `follower.rs:11-12` says "so the follower cannot miss the inclusion block".
5. `RollbackReverts` in `follow` (`B/cardano/follower.rs:256`). An answer that cannot be parsed is
   skipped, also when it is a step back: transactions that were rolled back stay
   confirmed, and their depth grows with the tip. `follower.rs:12-14` says "a rollback
   past the inclusion point reverts the tx". The environment `Settlement` is checked
   and proved in, `Confirmations`, is the follower's up to such a step back; after one,
   FINAL can be premature.
6. `FailuresOnlyLog` in `registry` (`N/obp_client.rs:577`). `truncate` slices a failure text at byte
   500 and panics inside a character. The refresher's task is gone for good, while
   `routing.rs:114-115` says "Failures only log". The dispatcher is ended in the same
   way: `PaymentEnds` and `CopyCatchesUp` except it, and both fail without the
   exception.
7. `DroppedWithoutToken` in `setup` (`A/oidc.rs:268`). Of two tabs that refresh at once at a provider that
   rotates, which `oidc.rs:263` provides for, the second is refused and drops the
   session the first one renewed. `oidc.rs:15-16` says sessions "refresh once on expiry
   when a `refresh_token` is present and are dropped otherwise".
8. `ReapplyIsNoOp` in `setup` (`A/setup.rs:940`). The update of an account with configured
   routings replaces the list, so an account whose check says ok loses all other
   routings it has when it is applied again. `setup.rs:8-9` says "re-applying a
   converged instance is a no-op".
9. `RolesSuffice` in `setup` (`A/setup.rs:864`). Looking a user up needs CanGetAnyUser, which
   `setup.rs:295` knows and `required_admin_roles` (`setup.rs:355-356`, "Admin roles
   the configured applies will need") leaves out. An administrator with every listed
   role is told that the user does not exist. `Converges` counts this as stuck.

Observed with other constants of the same modules, and not kept as runs:

* `Settlement` with two handlers violates `AtMostOncePayment`: the row count of
  `reclaim_for_retry` is dropped, so two handlers that both read a retryable row
  both pay. The shipped consumer is one task.
* `ChainFollower`: `[]<>CaughtUp` fails for a spawned follower. When every point
  it has kept was rolled back while it was disconnected, findIntersection fails
  (`B/cardano/follower.rs:229`) and the next connection offers the same points,
  for ever. The comment at `follower.rs:35-36` says "if all are rolled back or
  unknown we re-intersect at the current tip instead". `StrandedIsYoung` says
  who can be hit: a follower whose list is no longer than the fork is deep.
* `Dispatcher` with `BatchSize = 1` violates `PaymentEnds`: the batch is taken from
  the oldest rows, so as many rows without a verdict as it holds (50), whose
  `retry_interval` (15 s) passes while they are tried, keep all younger rows out. Calls
  that time out after 30 s make such a round last longer than that.
* The dispatcher goes on to younger rows after a retryable failure, while
  `DOCS/OBP-Bank-Node-Spec.md:715` asks for replay in strict order.
* In `Wallet`, two payments in quick succession collide although the lock is
  held, since the UTxO query does not see the mempool; the second is refused and
  retried. `RefusedOnlyBehindAnother` states what the lock does guarantee.
  A settlement below the ledger's minimum output is refused on every retry. The
  fee loop can need three passes where its comment says one or two; that it
  needs at most seven of its eight is proved.
* `Consumer`: an amount such as "1.5é" makes parse_minor_units cut inside a character
  and panic (`N/interface_c/router.rs:728`). The panic ends the supervisor's task,
  the node listens no more and /health goes on saying "connected". `main.rs:551-552`
  says of the supervisor "A consumer that stayed dead after one failure left the
  node deaf while HTTP looked healthy". `EveryoneAnswered`
  excepts exactly this, and fails when the exception is dropped.
* `Rates`: "1.+5" is read as 1.05. CoinGecko's USD leg takes any number for an
  answer (`fx.rs:366-371`): with a price of 0 the quote is refused at the end
  instead of falling back, unlike the other sources.
* `RoutingRegistry`: a row withdrawn from a page already read makes the next
  offset skip one, and payments to that scheme are refused as unknown until the
  next refresh. With lifetimes up to two timeouts `CopyCatchesUp` fails: every
  token may be dead on arrival.
* `Oidc`: a logout while a refresh
  is under way leaves the session in the map, since the refresh writes it back;
  the browser's cookie is gone by then.
* `Setup`: a scheme registered with another status stays "differs", as its apply counts
  "already exists" as done. An account past the 500 entries of the directory looks
  missing. A rate's value and a broker's password are not compared. Bank roles
  are listed above the bank they need, so "Apply all missing" has to be pressed twice.

## 7. Not modelled, and the plan

Left out for good: log lines (netting snapshot and status update handlers), the
mock backend, key file loading, JSON, CBOR, SHA-256 and bech32, field validation
of the REST endpoints and the reads that change nothing, and the operator app's
pages and proxying. The single CoinGecko source and the stub rate are special
cases of what `Rates` models.

Planned, in this order:

1. Composition: the return of `CreditNotification` as a payment of `Dispatcher`,
   in the way `Settlement` and `ChainFollower` meet in `Confirmations`.
2. Proofs: further action properties of `ChainFollower` and `Wallet`.
3. More than one account, scheme and grant in `Setup`.
