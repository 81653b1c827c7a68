# Formal models of HLF-ERC20-TimeHash

TLA+ specifications, TLC model-checking runs and TLAPS proofs for the
repository's Go code. The code is under `src/ERC20-HTLC-HLF-Net`:

* the **token chaincode**
  (`artifacts/src/github.com/test-erc-20/chaincode/token_contract.go`);
* parts of **firefly-fabconnect**, the gateway that submits transactions to the
  ledger and streams ledger events to WebSocket clients (`internal/ws`,
  `internal/fabric/client`, `internal/rest`, `internal/events/api`).

`PROJECT.json` lists every component, every run, the mutants, the map from
definitions to source lines, the findings, the hazards and the theorems.

## 1. Inventory

### Components, their state and their operations

| Component | Source | State | Operations (state-changing) |
|---|---|---|---|
| Token chaincode | `token_contract.go` | the world state: balances under client IDs, `totalSupply`, HTLC records under caller-chosen hash locks, allowances under composite keys | `TransferConditional`, `Claim`, `Revert`, `Mint`, `Burn`, `Transfer`, `Approve`, `TransferFrom`. Helpers: `transferHelper`, `add`, `sub`. |
| WebSocket connection | `internal/ws/wsconn.go` | `closed`, `topics` (guarded by `mux`), the channels `broadcast`, `newTopic`, `receive`, `closing` | `newConnection` (starts two goroutines), `listen` (reader: listen / listenreplies / ack / error), `sender` (dynamic select over the topic channels), `listenTopic`, `handleAckOrError` (with `processingTimeout`), `close` |
| Gateway RPC client | `internal/fabric/client/client_gateway_clientside.go` | `gwClients`, `gwGatewayClients`, `gwChannelClients` (per signer, per channel), under `mu` | `Invoke` → `sendTransaction` (prepare, submit, wait for the commit event or `txTimeout`), `Query`, `getGatewayClient`, `getChannelClient`, `SignerUpdated` |
| Identity client | `internal/fabric/client/identity.go` | the LRU cache of signing identities, the signer-update listeners | `Enroll`, `Reenroll` (both notify the listeners), `Register`, `Modify`, `Revoke`, `GetSigningIdentity` |
| REST gateway | `internal/rest/restgateway.go` | the HTTP server, the async dispatcher, `gwDone`/`svrDone` | `Init`, `Start` (two goroutines, waits for `IsInitialized`), `Shutdown` |
| Event API types | `internal/events/api/event.go` | none (record types) | none |
| Event streams, subscription manager, async dispatcher, receipt store, WS server | not under `src/` (described by the spec) | checkpoints, in-flight batches, per-signer queues, receipts | modelled later from the spec |
| Mocks, tests | `mocks/`, `blockdecoder_test.go` | — | — |

### How they interact

Clients call the REST gateway; the async dispatcher hands a transaction to the
RPC client, which obtains a per-signer gateway network from its cache (built
through the identity client) and submits it to the ledger, where the
chaincode runs it. The chaincode's events end up in blocks, which the event
streams deliver through the WebSocket server, one batch in flight per topic,
acknowledged by a client frame that the connection's reader routes back to
the stream. Re-enrolment in the identity client calls `SignerUpdated` on the
RPC client to drop cached connections.

### Hard behaviour

* **Chaincode:** the world state is one flat key space shared by balances,
  the supply and HTLC records; integers are Go `int` (wrap-around), with
  `strconv.Atoi` errors ignored; the exported functions take account
  arguments that are never compared with the caller; time comes from
  `time.Now()`. Fabric serialises committed transactions (MVCC) and commits a
  call all-or-nothing, so the hazards are in **sequences** of calls, not in
  interleavings inside a call.
* **WebSocket connection:** two goroutines per connection, both of which call
  `close()`; a mutex that does not cover every access to `topics`; unbuffered
  channels between the reader, the sender and the event streams; an ack
  timeout that closes the connection.
* **RPC client:** caches invalidated by a callback from another goroutine, a
  commit-event wait that can time out after the transaction was submitted.
* **REST gateway:** start-up that polls for initialisation and unbuffered
  completion channels.

### What makes each component correct

* Chaincode: the supply equals the sum of balances; no balance is negative
  or wraps; only the owner (or a spender within its allowance) lowers a
  balance; an HTLC is settled at most once, by claim or by revert, after its
  time lock; a zero-value transfer is accepted.
* WebSocket connection: at most one in-flight batch per topic; an ack reaches
  the stream that sent the batch; the connection closes once and its topics
  move on once; no goroutine waits forever.
* RPC client: a transaction is never submitted with a connection of a signer
  that was re-enrolled before the call; a reported failure means no commit.
* REST gateway: `Start` returns when either goroutine ends.

## 2. Modules

| Part | Module | MC module and configs | Proofs |
|---|---|---|---|
| Token chaincode | `TokenContract` | `MC_TokenContract` (`MC_TokenContract*.cfg`) | `TokenContract_proofs` |
| WebSocket connection | `WsConnection` | `MC_WsConnection` (`MC_WsConnection*.cfg`) | `WsConnection_proofs` |
| Gateway RPC client caches and identity client | `GatewayClients`, abstract `SignerCache` | `MC_GatewayClients` (`MC_GatewayClients*.cfg`) | `GatewayClients_proofs` |
| REST gateway start-up and shutdown | `RestGateway`, abstract `GatewayLifecycle` | `MC_RestGateway` (`MC_RestGateway*.cfg`) | `RestGateway_proofs` |

The components talk through interfaces whose implementations are not under
`src/` (the event streams, the async dispatcher, the Fabric SDK). Each module
therefore models one component together with the contract of the code on the
other side of that interface. Those contract actions are marked
`spec_modelled` in the map. No module composes two source components, because
no two of them share state directly.

## 3. The token chaincode model

`TokenContract.tla` keeps the world state as `state : Keys -> Values`, where
a value is `Nil`, an `IntVal` (a balance or the supply, as written by
`strconv.Itoa`) or an `HTLCVal` (the JSON-encoded `HTLC` struct). Allowances
live under composite keys, which begin with `0x00` and cannot collide with a
simple key, so they are a separate map `allowance`. `now` is the wall clock
and `lastTx` records the function and creator of the last committed
transaction (what the block records).

Correspondence with the code:

* Each exported function is one action with the caller `c` and its
  arguments chosen by `\E`. An account argument is a caller string used as
  a world-state key, so it ranges over every key (`Keys`: the clients, the
  hash locks and `"totalSupply"`). The one exception is `TransferFrom`'s
  `from`: an allowance exists only for an owner who called `Approve`, so it
  is a client. Every `return ... err` is a guard conjunct:
  Fabric does not commit a call that returns an error, so a failed call is a
  stutter. The writes of a successful call are applied together in program
  order (`EXCEPT` lets a later write to the same key win, as `PutState`
  does within one transaction); reads see the snapshot, as `GetState` does.
* `Atoi` is `strconv.Atoi` with its error ignored, as the code does: nil bytes
  and an HTLC's JSON both read as 0.
* `add` is modelled bit-for-bit: `AddSum` wraps modulo the word
  (`Wrap`, with `MaxInt` as a constant, so the width is a parameter), and
  `AddOK` is the code's own overflow test. `sub` fails unless `0 < q <= b`.
* `transferHelper` is `TransferOK` (its checks) and `TransferWrites` (its two
  `PutState`s, debit first).
* `GetHashTimeLock` succeeds only on a key holding an HTLC (`IsHTLC`);
  `time.Parse` fails for the model value `BadTime`.
* The MSP check is membership of `Org1Clients`.

Read-only functions are not actions. Events (`SetEvent`) are not modelled
yet; they become the input of the event-stream modules.

### Runs

| Run | Config | Expect | Properties |
|---|---|---|---|
| `token_core` | `MC_TokenContract.cfg` | pass | `TypeOK`, `NoOverdraft`, `SupplyMovesUnlessAliased` |
| `token_unauthorized_debit` | `MC_TokenContract_debit.cfg` | violation | `NoUnauthorizedDebit` |
| `token_hashlock_collision` | `MC_TokenContract_collision.cfg` | violation | `SupplyConserved` |
| `token_hashlock_reuse` | `MC_TokenContract_reuse.cfg` | violation | `SettledHTLCFinal` |
| `token_zero_transfer` | `MC_TokenContract_zero.cfg` | violation | `ZeroTransferAccepted` |

Bounds: two clients, one in Org1 (so the MSP check matters and a non-Org1
client can still call `Transfer` and `Approve`), one hash lock, one password,
one time lock at instant 1 and a clock up to 2 (so calls happen before and
after it), amounts `{-1, 0, 1}` (negative, zero and positive inputs) and
`MaxInt = 1` (a 2-bit word, values -2..1): a second mint of 1 already
overflows, so `add`'s overflow test is exercised. Every account argument
ranges over the five keys. `token_core` reaches 104,232 distinct states in
about a minute. The collision run uses the same instance.

What they show:

* `token_core`: no interleaving of the eight functions makes a balance or
  the supply negative or wraps it, over every key a caller can name. The
  action property `SupplyMovesUnlessAliased` says how each committed
  transaction changes the numbers the keys hold (`Atoi` of each key). It is
  one of three things:
  * `MintedOrBurnt`: one balance and the supply change by the same amount
    (`Mint`, `Burn`);
  * `Moved`: one balance gains exactly what another loses, and the supply is
    unchanged (`transferHelper`);
  * `Aliasing`: one of the calls in which a balance key is aliased with the
    supply key or with a hash lock. These are `Transfer` or `TransferFrom`
    naming `"totalSupply"` as an account, and a `TransferConditional`,
    `Claim` or `Revert` whose accounts include `"totalSupply"` or the hash
    lock itself, or whose hash lock holds a non-zero balance.
  The first two keep the supply equal to the sum of the balances; the
  property therefore lists every way the code lets that sum drift.
  `Transfer(ctx, "totalSupply", b, 1)` is one such way: nothing stops a
  caller from naming the supply key as an account (a hazard, not a
  separate run). The mutants show that these
  properties depend on the code: without `add`'s overflow test a balance wraps
  negative; a `transferHelper` that credits the recipient with the
  sender's balance plus the amount breaks the pairwise move; accepting an
  unparsable time lock breaks the type.
* `token_unauthorized_debit` (**finding**): `Transfer(sender, recipient,
  amount)` never compares `sender` with the caller (the `GetID` call is
  commented out), so any client moves any account's tokens. `Revert` does the
  same to the HTLC recipient, in favour of whichever Org1 client calls it.
* `token_hashlock_collision` (**finding**): `TransferConditional` writes the
  HTLC under `hashLock` into the key space of the balances, after
  `transferHelper` has credited the recipient. With the recipient equal to
  the hash lock, the credit is overwritten by the HTLC record, which reads
  as 0. After one `Mint` of 1 the balances sum to 0 against a supply of 1.
* `token_hashlock_reuse` (**finding**): the same unchecked `PutState(hashLock)`
  replaces an HTLC that was already claimed or reverted with a fresh record.
  That record can then be settled a second time, which defeats the
  "already claimed/reverted" checks of `Claim` and `Revert`.
* `token_zero_transfer` (**finding**): `transferHelper`'s comment and the spec
  say a transfer of 0 is allowed. However, `sub` rejects a subtrahend `<= 0`,
  so every zero-value transfer fails.

No fairness is assumed: the chaincode runs only when clients call it, and
the code promises nothing about progress.

## 4. The WebSocket connection model

`WsConnection.tla` models one connection: the reader goroutine (`listen`,
`listenTopic`, `handleAckOrError` with its `processingTimeout`), the sender
goroutine (its select over the topic channels, `c.closing` and `c.newTopic`,
and `WriteJSON`, whose error is only logged), and `close()` called from both
goroutines. Alongside it, and modelled from the spec, are the event streams
that publish one batch per topic and wait for the reply, and the client at
the other end of the socket.

* `pc[g]` is the goroutine's place between two suspension points: a channel
  operation, the mutex or the socket. One action is one such step.
* An unbuffered channel operation is one joint action of both parties.
* `close()` is entered by `CloseEnter`. It cycles the topics one at a time
  (`CycleOne`), without the mutex, as the code does.
* The client's frames are a sequence `inbox` bounded by `MaxFrames`.
* `AnyReplies` says whether the client may send a reply for a batch it does
  not hold. This covers a late reply to a batch that already timed out, or a
  stray reply.

Runs (two topics, two batches per topic, three or four client frames):

| Run | Expect | Properties | What it shows |
|---|---|---|---|
| `ws_core` | pass | `ClientHoldsOneBatch`, `AckedWasReceived` | with a client that replies only to what it holds, at most one batch is in flight per topic, and only batches written to the open socket are counted as acked |
| `ws_shutdown` | pass | `ShutdownCompletes`, `ListenCompletes` | under weak fairness of both goroutines, a closed connection ends both of them and releases every waiting stream, and `listenTopic` never blocks the reader for good |
| `ws_ack_misrouted` | violation | `AckedWasReceived` | **finding**, described below |
| `ws_map_race` | violation | `NoConcurrentMapWrite` | **finding**, described below |

Findings:

* **Misrouted ack.** After an ack timeout closes the connection, the sender
  may still write a batch to the closed socket. An ack frame buffered before
  the close is routed by topic alone. It therefore reaches the stream waiting
  on the undelivered batch, which counts that batch as acknowledged. This
  breaks the spec's at-least-once delivery.
* **Map race.** After the same timeout, the reader may handle a buffered
  `listen` frame and write `c.topics`. At that moment the sender's deferred
  `close()` may be ranging over the map without the mutex. This is a
  concurrent map iteration and write: a data race, which the Go runtime
  usually detects and answers with a fatal error. If the range has already
  taken its last key, the write goes unnoticed, but the race is still there.

Fairness: `WF` on the reader's steps and on the sender's steps. Go schedules
every runnable goroutine. The streams and the client get no fairness.
Deadlock is not checked: once both goroutines have ended, the connection
really does stop.

## 5. The gateway client caches and the identity client

`GatewayClients.tla` models the following, with each function that holds
`w.mu` throughout as one atomic action:

* the per-signer maps of `gwRPCWrapper`: `gwClients`, `gwMade` (whether the
  gateway map has an entry), `gwNets` and `chClients`;
* `getGatewayClient` and `getChannelClient`, each with every creator's error
  path;
* `SignerUpdated`;
* the identity client's `Enroll`/`Reenroll`, split into two steps: the CA
  call that writes the new certificate to the user store (`EnrollCA`), and
  the notification of the listeners (`EnrollNotify`). Other goroutines run
  between these two steps;
* `GetSigningIdentity`, with its cache `idCache`;
* `Invoke` on each request goroutine `r`: `CallInvoke`, `Prepare` (under the
  lock), `Submit`, and then the select between the commit event (`Notified`)
  and the `txTimeout` timer (`TimedOut`). The ledger's commit (`Commit`) is
  modelled from the spec, because the SDK is not under `src/`;
* `Query`, with and without `strongread`.

Objects are abstracted to the certificate version they were built from.
`Versions == 1..MaxEnroll`, and `Nil == 0` stands for no object.

Runs (two signers, one channel, one request goroutine, `MaxEnroll = 2`):

| Run | Expect | Properties | What it shows |
|---|---|---|---|
| `gw_caches` | pass | `CacheFresh`, `NetworksOnGateway`, `InvokeReturns`, `SignerCacheSpec` | 181,373 states in about 35 s. Whatever order enrolments, Invoke and Query take the lock in, a signer's cached objects carry its current certificate once its enrolments have notified, and no network outlives its gateway. Every Invoke returns, even when no commit event comes, thanks to the timer case of the select. The caches implement the abstract `SignerCache` |

`SignerCache.tla` is what the spec asks of these caches, with no lock, map
or goroutine: per signer, the certificate version in the user store
(`store`), the enrolments not yet notified (`notifying`) and the set of
versions the cached objects were built from (`cache`). Its steps are
`Enrol` (a new certificate), `Notify` (one listener run empties the signer's
cache) and `Fill` (a miss builds an object from the current certificate).
The mapping keeps `store` and `notifying` and maps `cache[s]` to
`Cached(s)`, the versions of the gateway client, its networks and the
channel clients of `s`. `EnrollCA` is `Enrol`, `EnrollNotify` is `Notify`,
a `Prepare` or `Query` that creates objects is `Fill` (or a stutter on a
hit or an error), and every other step is a stutter. The property is
`SignerCacheSpec == SC!Spec`; the mutant that keeps the channel clients in
`SignerUpdated` breaks it.

Two signers, so that an update of one signer can be told apart from an
update of the other. Two enrolments, so that a second enrolment can overlap
the first one's notification.

The same timer case also means that `Invoke` can report failure for a
transaction that still commits: `Submit` can fail after the transaction
reached the orderer, or the commit event can miss `txTimeout`. The spec
promises only that such a receipt is stored as failed, so this is recorded as
a hazard (a client retrying on a failed receipt submits twice) and not as a
property.

Fairness: `WF` on each Invoke goroutine's steps. The timer always fires, so
`TimedOut` is enabled whenever the goroutine waits. The ledger's commit and
the callers get no fairness.

## 6. The REST gateway start-up and shutdown

`RestGateway.tla` models the following:

* the outcome of `Gateway.Init`: one of its errors, or success with or
  without a subscription manager;
* `Start`'s three goroutines:
  * main: the `IsInitialized` polling loop, `readyToListen`, the select and
    `Shutdown`;
  * the server: `ListenAndServe`, then the send on `svrDone`;
  * the dispatcher: `Run`, then the send on `gwDone`;
* the unbuffered channels and the one-slot signal channel.

A send on an unbuffered channel is a joint step of the two goroutines. A
round of the polling loop that finds the dispatcher not initialised changes
nothing, so it is a stutter step. The async dispatcher's `Run`,
`IsInitialized` and `Close` are not under `src/` and are modelled from their
contract:

* `Run` becomes initialised and then returns nil after `Close`, or returns an
  error at any time.
* When `EarlyRunFailure` is TRUE, `Run` may also return before it is
  initialised.

Runs:

| Run | Expect | Properties | What it shows |
|---|---|---|---|
| `rest_start` | pass | `ListenAfterInit`, `StartReturns`, `LifecycleSpec` | the listener never runs before the dispatcher is initialised, `Start` returns after a signal, a listener error or the end of `Run`, and `Start` implements the abstract `GatewayLifecycle` |
| `rest_early_run_failure` | violation | `StartReturns` | **finding**, described below |

`GatewayLifecycle.tla` is the lifecycle the spec describes, in four
Booleans: `ready` (the dispatcher is initialised), `listening` (the HTTP
listener was started), `closed` (dispatcher and server are shut down) and
`returned` (`Start` returned). `Initialise`; `Listen` only when ready and
before close and return; `Abandon`, a return before listening (an error of
`Init` or of the TLS set-up); `StopAll`, closing both and returning in one
step. The mapping is `ready <- initialized`, `listening <-` the server
goroutine has started, `closed <- dispClosed /\ srvClosed` and
`returned <- main = "done"`. A failing `GatewayInit` or `StartGoroutines`
is `Abandon`, `RunInitialised` is `Initialise`, `ReadyToListen` is
`Listen`, `Shutdown` is `StopAll`, and every other step is a stutter. The
property `LifecycleSpec == GL!Spec` holds for both values of
`EarlyRunFailure`; the mutant of `Shutdown` that leaves the dispatcher open
breaks it.

Finding: if `Run` fails before it is initialised, `Start` spins in the
polling loop forever. The dispatcher goroutine blocks on `gwDone`, and the
process neither returns nor exits with the non-zero code the spec asks for.

Fairness: `WF` on main's steps. The dispatcher is assumed to initialise
(`WF` on `RunInitialised`), and `Run` and `ListenAndServe` are assumed to
return once they are closed. Neither has to fail, and no signal has to come.
Deadlock is not checked, because the program really ends when `Start`
returns. The goroutine whose done-channel lost the select stays blocked on
its send, which is harmless: `Start` returning ends the process.

## 7. Proofs

Each proof module `EXTENDS` its model and `TLAPS` and proves, for every value
of the constants allowed by the model's `ASSUME`:

* **`TokenContract_proofs`**
  * `TypeCorrect`: every function keeps the types. It rests on
    `TransferWritesType` and `WrapRange`.
  * `NoOverdraftHolds`: `NoOverdraft` together with `TypeOK` is inductive.
    The key lemma is `AddNonNeg`: for two non-negative words, `add`'s
    overflow test passes only if the sum does not wrap. This holds for every
    word width.
  * `SupplyMoves` (`SupplyMovesUnlessAliased`): every committed
    transaction is a mint or burn, a move between two balances, or one of
    the aliasing calls. There is no hypothesis on the hash locks or on the
    keys a caller names. The invariant is again `TypeOK /\ NoOverdraft`:
    * a credit adds exactly the amount debited only because `add()` of two
      non-negative words never wraps (`AddNonNeg`);
    * `TransferWritesDelta` gives what `transferHelper` writes, as numbers,
      for any two keys;
    * `MovedByTransfer` turns that into a `Moved` step when neither key is
      the supply key;
    * each of `Transfer`, `TransferFrom`, `TransferConditional`, `Claim` and
      `Revert` is split on whether its keys are aliased: if so the step is
      `Aliasing`; if not, an HTLC record reads as 0 (`AtoiHTLC`) and the
      step is `Moved`.
* **`WsConnection_proofs`**
  * `TypeCorrect`: proved with `StreamsOK` (a stream that is not idle has
    published a batch).
  * `OneBatchInFlight` (`ClientHoldsOneBatch`) and `AckedOnlyReceived`
    (`AckedWasReceived`): both for a client with `~AnyReplies`. The
    inductive invariant `IInv` says two things:
    * `ReplyPlaced(t)`: while the socket is open, the reply to topic `t`'s
      batch is in exactly one place (held by the client, queued once in the
      socket, or held by the reader), and it is somewhere exactly when the
      stream awaits it;
    * `ClosedQuiet`: once the socket is closed, the reader has stopped for
      good.
    * This is needed because the properties alone do not say where a reply
      is. The lemmas `AppendQueued` and `TailQueued` give what `Append` and
      `Tail` do to "queued once".
* **`GatewayClients_proofs`**
  * `CacheFreshHolds`, `NetworksOnGatewayHolds` and `TypeCorrect`, for any
    sets of signers, channels and goroutines and any `MaxEnroll`.
  * The invariant is split per signer (`GwOK(s)`, `ChOK(s)`) and adds
    `notifying[s] <= store[s]`.
  * `CacheOKLocal` shows that an action on one signer leaves the others'
    parts alone.
  * `GatewayStep`, `ChannelStep` and `UpdatedStep` prove each locked helper
    once. The actions then cite them.
  * `Implementation` (`SignerCacheSpec`): `Spec => SC!Spec`, for any
    constants. The invariant is `RInv`: `IInv` and `NotMade(s)` (a signer
    with no gateway entry has no gateway client and no networks), which is
    needed because `getGatewayClient` only looks at `gwMade` before it
    creates. `GatewayCached` and `ChannelCached` show that a locked helper
    only adds the current certificate to `Cached(s)` (`Grown(s)`), so a
    `Prepare` or `Query` is `Fill` or a stutter; `EnrollNotify` empties
    exactly `Cached(s)` and is `Notify`.
* **`RestGateway_proofs`**
  * `ListenAfterInitHolds`, for both values of `EarlyRunFailure`.
  * `TypeCorrect`.
  * `ListenAfterInit` is not inductive on its own, because `ReadyToListen`
    does not read `IsInitialized`. The strengthening adds
    `main = "ready" => initialized`.
  * `Implementation` (`LifecycleSpec`): `Spec => GL!Spec`, for both values
    of `EarlyRunFailure`. `RInv` adds two facts: before `StartGoroutines`
    no server goroutine exists (`NoServerYet`), so a failure there is an
    abstract `Abandon` (nothing listened); and nothing is closed before
    `Start` returns (`ClosedOnReturn`), so `Listen` and `StopAll` find the
    gateway open. `ReadyToListen` is `Listen` thanks to
    `main = "ready" => initialized`.

Left to TLC:

* every liveness property (`ShutdownCompletes`, `ListenCompletes`,
  `InvokeReturns`, `StartReturns`): these need fairness and ENABLED;
* `SupplyConserved` (checked only in `token_hashlock_collision`, where it
  fails): it needs a sum over the accounts, and the library's fold is
  RECURSIVE. `SupplyMoves` proves the shape of each step. What is missing is
  the lemma that a non-aliasing step keeps the sum, which is induction over
  the set of accounts.

## 8. Not modelled

* The identity client's `Register`, `Modify`, `Revoke`, `List` and `Get`:
  they forward a request to the CA and keep no state in this process.
* The JSON decoding of the REST handlers: request and response I/O.
* `Close` of the gateway RPC client: it shuts the shared SDK down at process
  exit.
* `NewRESTGateway` and `ValidateConf`: they only build and check
  configuration.
* The `rpc` and `ws` `Close` calls in `Shutdown`: they end no goroutine of
  `Start`.
* A stale `idCache` entry after re-enrolment: it is benign, because the
  receipt uses only the identity's `Identifier()`, which does not change.
* The event API types (`internal/events/api/event.go`): they are data
  declarations only.
* The event streams, the subscription manager, the async dispatcher, the
  receipt store and the WS server: their code is not under `src/`. They
  appear only as the contracts the modules above need.
* The mocks and tests.
* Endorsement by several peers, each with its own `time.Now()`.
