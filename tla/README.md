# Verification of manifest-mcp-mono

TLA+ models of the stateful core of this repository, the TLC configurations
that check them on small instances, and theorems about them that TLAPS proves
for every value of the constants.  Paths below are relative to `src/packages/`.

The repository is a set of MCP servers and an SDK for one chain ("Manifest")
and the container providers ("Fred") that serve leases bought on it.  Most of
its lines parse, validate, format and forward.  What is hard is the rest: many
callers share one wallet, one account sequence and one chain client; a
transaction is a commitment that cannot be recalled; every answer can be lost;
and every caller may cancel at any moment.  The models are about that part.

## 1. Inventory

### Components, their state and what makes each one correct

| Component | State it keeps | Operations | What makes it correct |
|---|---|---|---|
| Client manager (`core/src/client.ts`) | static registry key -> manager; per manager a holder count, pending broadcasts, a pending release, lazy query and signing clients, a token bucket; per chain a coordination object with the broadcast locks and the sequence cache | `getInstance`, `disconnect`, `disconnectWhenIdle`, `clearInstances`, `withBroadcastLock`, `getQueryClient`, `getSigningClient`, `acquireRateLimit` | broadcasts of a signer never overlap, in the order asked; a release never cuts an accepted broadcast; no torn-down manager is handed out; no client outlives its manager |
| Transaction execution (`core/src/internals/tx-confirmation.ts`, `cosmos.ts`, `tools/executeTx.ts`, `retry.ts`, `internals/broadcast-failure.ts`) | per call: attempt, signal, "has it been sent", the hash, the answer | prepare, lock, simulate, sign, submit, poll, retry, cancel | a call sends at most once; "not sent" is true; a hash is of an accepted transaction; a cancellation answers at once and the background operation still gives the lock up |
| Sequence tracking (`core/src/internals/tx-sequence.ts`) | one local sequence per signer with an unconfirmed SYNC broadcast | seed, count, drop, shadow `getSequence`, sequence the simulation | a burst never collides with itself; drift does not last |
| Restore saga (`fred/src/tools/restoreApp.ts`, `createLease.ts`) | a fresh lease on the chain, a POST at the provider | read, create-lease, mint, POST (the pivot), poll, cancel-lease | before the pivot everything is undone or reported, after it nothing is ever undone |
| Deploy saga (`fred/src/tools/deployManifest.ts`) | a lease, its custom domain, its uploaded manifest | create-lease, set-domain, upload, poll | once the lease exists every failure names it and says which step was reached |
| Lease teardown (`core/src/tools/stopApp.ts`, `agent-core/src/close-lease.ts`) | none of its own | query, cancel-lease or close-lease, one re-query, verify | the message matches the lease's state, and what is reported of a lost answer is true |
| Lease waiting and readiness (`fred/src/tools/waitForLeaseStatus.ts`, `readiness/`) | a socket, event sequence numbers, a read in flight, a failure budget | connect, confirm-read, reconnect, fall back to polling | no verdict from superseded evidence, none after the deadline |
| Provider maintenance (`fred/src/tools/updateApp.ts`, `restartApp.ts`) | an idempotency key | POST, poll, retry with the key | an obeyed command is not obeyed twice |
| Provider authentication (`fred/src/http/auth.ts`) | the last second a token was minted for | wait for a fresh second | strictly increasing seconds, first come first served |
| Agent orchestration (`agent-core/src/deploy-app.ts`) | plan, callbacks, recovery choice | plan, edit, confirm, deploy, classify, recover | nothing is spent before the confirmation; the lease is never lost |
| Domain management, troubleshooting (`agent-core/src/manage-domain.ts`, `troubleshoot.ts`) | none | confirm, transact, verify | the verdict is about the state after the transaction |
| Agent server (`agent/src/`) | none between calls | translate callbacks to elicitations | a declined or unsupported elicitation spends nothing |
| Bootstrap and shutdown (`node/src/bootstrap.ts`) | "shutting down", exit code, deadline timer | signal, end of input, transport close, second signal | accepted broadcasts drain unless the deadline or a second signal ends them |
| Wallets (`node/src/keyfileWallet.ts`, `core/src/wallet/`) | decrypted key, connect in flight | connect, disconnect, sign | a disconnected wallet stays disconnected |
| Transaction builders, query handlers, network guards, manifest construction, servers, SDK facade | none | pure functions, reads and registration | input/output relations that unit tests reach |

### How they interact

* A server or an SDK user holds a client manager; a tool calls `cosmosTx`
  (or `executeTx`), which runs under `withTxExecution`, queues on the signer's
  broadcast lock, gets the manager's lazily connected client, and signs with the
  sequence the sequence cache gives it.
* The sagas call these tools one after another and, between them, the
  provider's HTTP API.  They meet other actors at the chain (the provider
  acknowledges, rejects and closes leases; they expire) and at the provider.
* The agent wraps the deploy saga and the teardown with callbacks to a person,
  and chooses a recovery, which may be a teardown of the lease just bought.
* Provider calls share one timestamp tracker: each needs a token, and each token
  a second of its own.
* A server process serves calls with one manager, and at its end drains that
  manager under a deadline and then disconnects the wallet.

### What is hard

Everything runs on one thread, so the steps of the models are stretches of
code between two awaits.  The difficulties are the interleavings at those
awaits (reacquiring a manager during its drain, a signal firing in a wait, a
read overtaken by a frame), the order of promise reactions (the lock's clean-up, the reaction that forgets a
release), answers that are lost after the other side acted (CheckTx, inclusion,
a provider POST), and compensation that may itself fail.  `PROJECT.json` lists
each hazard with its line and the properties that watch it.

## 2. Modules

```
SignerMutex          what withBroadcastLock promises (abstract)
  ^ implemented by   ClientManager    MCClientManager   ClientManager_proofs
  |                    ^ extended by
  |                    | LazyClients  MCLazyClients     ManagerUsers_proofs
  |                    | ServerProcess                  ManagerUsers_proofs
  ^ used by          TxExecution                        TxExecution_proofs
TxOutcome            what withTxExecution promises (abstract)
  ^ implemented by   TxExecution                        TxExecution_proofs
                     TxSequence                         TxSequence_proofs
LeaseChain           the billing module of the chain (external)
  ^ used by          RestoreApp       MCRestoreApp      RestoreApp_proofs
                     DeployManifest, StopApp
                       ^ composed by
                         AgentDeploy                    AgentDeploy_proofs
RestoreOutcome       what restoreApp promises (abstract)
  ^ implemented by   RestoreApp                         RestoreApp_proofs
LeaseWait                                               LeaseWait_proofs
Maintenance                                             Maintenance_proofs
```

The layers rest on one another by what each one shows.  `ClientManager`
implements `SignerMutex`; `LazyClients` and `ServerProcess` contain a
`ClientManager` and are shown to implement it; `TxExecution` queues on a
`SignerMutex` and implements `TxOutcome`; `TxSequence` takes one call at a time
per signer, which `TxExecution` shows (`OneUnderWay`); the sagas take
transactions with the outcomes of `TxOutcome`, that is, one that never left,
one the node refused, one it accepted whose caller may not learn so, and never
two of a call; and a wait for readiness that ends in one of the outcomes of
`LeaseWait`.  The last three are by argument, the others by refinement.

### SignerMutex

Per lock the tasks in line, per task those it lets go first (`ahead`), the tasks
granted and the tasks finished; `Request`, `Grant`, `Release`.  Whoever is in
line already goes first, one at a time.  `Exclusive` and `Moving` are what it is
for.  `ClientManager` implements it with the unfinished broadcasts of a lock as
its line and, as those ahead of a broadcast, the ones of the same lock that were
born before it.

### TxOutcome

What a caller sees of a transaction call: its fate (unsent, committed to
submission, refused or accepted by the node) and what it was told.  One answer,
honest when it is given, and no commitment once it is given; a fate that only
moves on.  `TellsTruth`, that answers stay true for ever, follows.
`TxExecution` implements it with the fate its history variables show (`Fate`).

### ClientManager (`core/src/client.ts`)

One chain id.  `instances` is `CosmosClientManager.instances`, `key` a manager's
`instanceKey`, `coord` the `ChainCoordination` it joined, `refCount`,
`pendingBroadcasts` and `coordinationReleased` (`released`) are its fields,
`managers` and `broadcastLocks` those of the coordination object.  A lock's tail
promise is the task whose it is; `prev` is the tail a task chained on.
`pendingRelease` is `drain`: none, waiting, or resolved but not yet forgotten,
because the code forgets it in a reaction of its own.

| Action | Code |
|---|---|
| `ShareInstance`, `BuildInstance` | `getInstance` with and without a cached manager; the constructor's join of the coordination |
| `ReleaseShared`, `ReleaseIdle`, `ReleaseBusy` | `releaseReference`: not the last holder; the last with nothing pending; the last with broadcasts pending |
| `DrainAgain`, `DrainFinalize`, `DrainCancelled`, `ForgetDrain` | one resumption of `releaseWhenBroadcastsDrain`'s loop, in its three outcomes, and the reaction that clears `pendingRelease` |
| `ClearInstances` | `clearInstances` |
| `WithBroadcastLock` | the synchronous part of `withBroadcastLock` |
| `StartBody`, `AcquireClient`, `FailBody`, `SettleBody` | the callback: it begins when the predecessor's tail settled, gets its signing client unless the manager was released, fails or ends |
| `CleanUp` | the tail's reaction |

`Teardown`, `Leaving`, `Emptied` and `FinalizeRelease` are `teardown` and
`finalizeRelease`.  Left out: the token bucket (section 6), wallet and
configuration (a key is a model value), and other chain ids, whose coordination
objects share nothing.  The clients a manager connects are in `LazyClients`.

### LazyClients (`core/src/client.ts`, `getQueryClient`, `getSigningClient`)

Extends `ClientManager`.  `cached` is `queryClient` and `signingClient`, `slot`
their `...Promise` fields, both per manager.  An attempt (`Inits`) is one call of
`initQueryClient` or `initSigningClient` with the promise callers await: `at` is
how far it is, `of` its kind and manager, `tries` its `withRetry`, `open` the
attempts whose signing transport is connected.  `client` is the attempt a
broadcast awaits or uses.

| Action | Code |
|---|---|
| `AskQuery`, `AskEstimate`, `AskSigning`, `JoinInit`, `UseCached` | the synchronous part of the getters: cached, under way, or a new attempt |
| `Connect`, `ConnectFails`, `CheckPasses`, `CheckFails` | the init methods: connect, verify the chain id, close and retry or fail |
| `Promote`, `Superseded`, `Break` | the promise's handlers: the field is still this attempt's, a teardown came first, the attempt failed |
| `Resume`, `ResumeFailed`, `FailEarly`, `Settle` | the broadcast's body around its client |
| `TearDown`, `Reset` | `teardown` as `ReleaseIdle`, `DrainFinalize` and `ClearInstances` run it, with the disconnect and the emptied fields |

### ServerProcess (`node/src/bootstrap.ts`)

Extends `ClientManager` with the one process that uses it.  `stage` is `main()`;
`shuttingDown`, `exitWith`, `settled` and `timer` are what
`installShutdownHandlers` keeps: its flag, the signal that will exit, whether
the race settled and the handlers went, the grace timer; `closing` is the next
step of `closeResources` (server, runtime, drain, wallet).  `InputEnds`,
`TransportCloses` and `Signal` are the triggers, at any moment from the start
on; `Deadline` and `Settled` are the race; `Create`, `Serve`, `StartFails` and
`FatalExit` are `main()`; `LoopEmpty` is Node's exit when nothing is pending.  A
tool call (`call`, `doing`) broadcasts through the manager, is aborted by
`server.close()`, and may then still send what compensates for a transaction it
made (`paid`).  A process that has exited does nothing more.

### TxExecution (`core/src/internals/tx-confirmation.ts` and what runs under it)

A call's `pc` is the await it stands at.  `aborted` is its signal, `sent` and
`hash` what `markBroadcast` and the acceptance observer recorded, `outcome` how
the operation settled, `result` what the caller was told: the two differ for a
cancelled call, which goes on in the background.  `arrived` and `accepted` are
history of what the node saw.  `Checkpointed` is any checkpoint or abortable
wait that finds the signal fired; a step of the operation otherwise needs
`~aborted`, except where the code has no checkpoint (waiting for the lock,
signing, submitting, polling).  An `Answer` keeps of an error its kind, whether
it says `sent: true`, `sent: false` or nothing, and whether it has a hash.

### TxSequence (`core/src/internals/tx-sequence.ts`)

One signer.  `cache` is its entry in the `SequenceCache`, `used` the sequence
its present request carries.  `managedSimulate` is `Estimate`, `Simulated`,
`SimulationFails`; `managedBroadcast` is `Broadcast` and then `Accepted`,
`Confirmed`, or the catch arm, `Rejected` and `AnswerLost`; `Forget` is the
teardown of the chain's last manager.  The chain has a committed sequence and a
mempool (`pending`), and checks against their sum.  `Events` chooses what else
happens: another process with the same key, eviction, lost answers, release.

### LeaseChain (external) and RestoreApp (`fred/src/tools/restoreApp.ts`)

`LeaseChain` is the chain as the sagas use it: the state of each lease, a
caller's transaction in the mempool, and the receipt of its last one.  A message
is legal in one state of the lease (`From`); `Execute` may fail for other
reasons too; `Evict` drops it; a transaction whose caller gave up may still
execute.  `Acknowledge` and `Lapse` are other hands.

`RestoreApp` is a number of restore calls for one source lease.  `pc` is the
await a call stands at, `posted` remembers the pivot, `created` that
`createLease` returned.  The actions follow the function from top to bottom:
`Begin`, `ReadFails`, `Retained` (reads and checks), `SendCreate`,
`CreateFails`, `Created`, `MintFails`, `MintedAborted`, `SendPost`,
`SendCancel`, `CancelFails`, `Cancelled` (the compensation), `PostFails`,
`PostAccepted`, and the four outcomes of the readiness poll.  The provider
(`Adopt`, `Refuse`, `LoseSource`, `Provision`) may obey a POST whose caller has
been told it failed.  An answer keeps whether it names the fresh lease, whether
it says `rolled_back`, and what it says of adoption.  A create-lease whose
inclusion is not seen in time may still execute: no answer names that lease,
and the error's transaction hash (`HashIsAccepted`) is all that leads to it.

### RestoreOutcome

What the callers of restores of one source can rely on: the fate of each call's
fresh lease (none, held, ended, or it has the volumes), the calls whose POST has
left, and the answers.  A lease may come to exist after an answer that names
none, the volumes may move after an answer that says "unknown", and nothing else
happens behind an answered caller's back; the volumes move once.  `RestoreApp`
implements it with `Fate`, read off the chain and the provider.  `TellsTruth`
follows: answers stay true for ever, and the volumes are never in two places.

### DeployManifest (`fred/src/tools/deployManifest.ts`)

One deploy per lease; `dpc` is the await it stands at, `report` what its caller
was told, `created` that `createLease` returned.  From top to bottom: `Begin`,
`ReadingFails`, `Resolved`, `SendCreate`, `CreateFails`, `Created`,
`NotifyFails`, `Notified`, `SendDomain`, `DomainFails`, `DomainSet`,
`SendUpload`, `UploadFails`, `BillingOnly`, `Uploaded`, the four ends of the
poll, `Connected`.  A report keeps what it says of the deploy, the failed step,
whether it names the lease, and whether it is coded as a cancellation.  The
provider takes, refuses or only bills (`TakeUpload`, `RefuseUpload`), and
provisions to ready or failed.

### StopApp (`core/src/tools/stopApp.ts`, `agent-core/src/close-lease.ts`)

One call per member of `Stops`: `stopApp` waiting for confirmation, `stopApp`
with `waitForConfirmation: false`, or `closeLease`, which asks first and
verifies afterwards.  `saw` is the state its first read showed and decides the
message; a failed blocking transaction is followed by one more read
(`Converged`, `Reinvoke`, `NotConverged`).

### AgentDeploy (`agent-core/src/deploy-app.ts`)

Composes `DeployManifest` and `StopApp` over one `LeaseChain` whose callers are
the deploys and the stops, and adds `deployApp`: `apc` is where it is ("direct":
fred is called without it), `spec` and `shown` the version of the spec and that
of the plan last rendered, `answer` what the agent's caller was told, `told`
that `onFailure` was given the lease, `helper` the stop that carries out the
recovery "close lease".  `Priced`, `PlanEdited`, `PlanConfirmed`,
`PlanCancelled`, `Agreed` are the plan; `Deployed`, `NeedsWait`, `DeployFailed`,
`NoRecovery`, `AskRecovery` classify the report; `Salvaged`, `CloseChosen`,
`RetryChosen` and what follows them are the recoveries; `WaitReady` to
`WaitCancelled` the ends of `waitForAppReady`.  Any other stop may run against
the same lease at the same time.

### LeaseWait (`fred/src/tools/waitForLeaseStatus.ts`, `fred/src/readiness/`)

One wait: over the event socket, by polling, or the readiness poll under the
sagas (`kind`).  The provider's documents are the sequence `log`, and everything
refers to one by its version: a frame announces it, a read is served it at some
moment between request and answer.  `candidates`, `pending` and the read in
`reads` are `candidateSeq`, `pendingCandidate` and the confirming loop;
`attempt` counts connections, `misses` is `consecutiveFailures`.  The socket's
actions are `WsTop` to `WsDelayEnds`, its reads `SnapshotReturns` to
`ConfirmFails`, the polls' `PollAborted` to `SleepEnds`.  `heard` and `learnt`
are history.

### Maintenance (`fred/src/tools/restartApp.ts`, `updateApp.ts`, `http/auth.ts`, `maintenance-error.ts`)

Calls of `restartApp` and `updateApp` on one lease, each under one of the two
contracts (`mode`).  `key` is the command key, `supplied` what the caller gave;
a caller may give a key it holds from an earlier call.  `queue`, `last` and
`stamp` are `AuthTimestampTracker`: who waits, the second given last, the second
of the token.  The POST is `SendPost`; `flight`, `reply`, `record`, `by` and
`spent` are the provider: what is on its way, its answer, its record of a
command and of the tokens it saw.  `PostRefused`, `PostUncertain`,
`PostAccepted` and `WaitEnds` are the classification of
`maintenance-error.ts`.  The clock may stand still or be set back.

### What is assumed of the external parts

The chain executes a message in the states it is legal in, or fails it; a read
may show a state the lease has left (`Seen`).  The provider publishes a frame
only for a change its `/status` already shows.  `DeployManifest`'s provider
reports nothing that the client cannot interpret (`LeaseWait` does not assume
this).  `Maintenance`'s provider answers a known key from its record before
anything else, and runs a command once per key; a caller is configured for the
keyed contract only where the provider has it.  These are what the code's
comments and the documentation tell callers to expect.

## 3. Runs

| Run | Question | Instance |
|---|---|---|
| `clientmanager` | are broadcasts serialized, drains protective, the registry, the counts and the lock map exact (`SharedStateExact`), and does it implement `SignerMutex`? | 2 keys, 3 managers, 2 coordinations, 1 signer, 3 broadcasts, 2 holders, `clearInstances` allowed |
| `clientmanager_live` | does every queued broadcast end, and every drain release? | 1 key, 2 managers, 2 coordinations, 1 signer, 2 broadcasts |
| `stale_release` (violation) | does a release resolve only once the manager is torn down? | 1 key, 1 manager, 2 broadcasts, fair |
| `lazyclients` | is no transport orphaned, no rejection latched, no broadcast severed by a release, and is `ClientManager` undisturbed? | 1 key, 2 managers, 2 broadcasts, 2 attempts alive at once, 1 retry, `clearInstances` allowed |
| `serverprocess` | are resources closed once and in order, are broadcasts cut off only by the deadline or a repeated signal, does a shutdown end? | 1 manager, 2 broadcasts, 2 calls, 2 signals |
| `txexecution` | is what callers are told true, with retries, cancellation and lost answers, is a call the `TxOutcome` it promises, and does every call end and give up the lock? | 2 calls, 2 senders, 1 retry |
| `txsequence` | is the entry exact, collision-free, and the estimate the one signed; does drift heal once fees are explicit? | sequences to 5, all events |
| `txsequence_stuck` (violation) | does drift heal when gas is simulated? | sequences to 4, one kind of event |
| `restoreapp` | is rollback honest, the pivot final, every created lease named, and is a restore the `RestoreOutcome` it promises, volumes included? | 2 calls |
| `agentdeploy` | is a paid lease never lost, is what is bought what was shown, and are failure, success and teardown told truthfully? | 1 lease, 1 other stop or helper, 2 edits |
| `leasewait` | is a verdict the provider's and not overtaken, and does every wait end? | 2 changes, 2 connections, 1 tolerated failure |
| `maintenance` | does a command run at most once, is what is said of it true, is its key kept, and is no token replayed or awaited for ever? | 2 calls, 3 keys, 1 status read each, clock 1 second back |

Each module's type invariant is proved (`TypeCorrect`, `LazyTypeCorrect`,
`ProcTypeCorrect`) rather than run, except `ProcTypeOK`, which is both because it
also says that the resources are closed at most once.

Why these bounds are enough to be interesting.  Three managers let a key be
torn down, rebuilt, and the older release settle late; three broadcasts make a
queue whose middle member fails; two holders make a reacquisition during a
drain; two coordinations let a chain be forgotten and registered again while
the old locks are still held.  More signers only add independent locks.  Two
attempts let an old connection settle while a newer one owns the field, of the
same manager or of the one built after it, and an attempt nobody refers to any
more is used again.  Two calls of one sender contend for a lock, and two senders
are independent; one retry gives every place an attempt can be repeated from.  A
sequence limit of 5 leaves room for a burst of SYNC broadcasts, a rejection, an
eviction and a foreign transaction.  Two restores race for one source's volumes,
each with its own fresh lease.  Leases share nothing, so one is enough for
`AgentDeploy`; the one stop is either the recovery's or a stranger's, and to the
lease a further stop does nothing that `Lapse` does not (the proofs cover any
number of both).  Two edits make an edit of an edited plan.  Three documents let
a frame overtake a read and be overtaken itself; two connections give a
reconnect and its exhaustion.  Two maintenance calls give an attempt and its
retry, or two commands in competition, with one key each and one to spare.

Symmetry sets (`MCClientManager`, `MCLazyClients`, `MCRestoreApp`) are
permutations of model values that no definition orders, and the liveness runs
use none.

`CHECK_DEADLOCK FALSE` is set where the system may stop for good: all tasks,
calls, deploys or restores are done, the wait has ended, the process has exited.
The runs of `txsequence` do check for deadlock: a signer can always call again.

### Bounds by name

`MaxHolders` caps `refCount`; `MaxRetries` and `MaxTries` are the code's own
`maxRetries`; `MaxSeq` caps the sequence (`Arrive` and `External` respect it);
`MaxEdits` caps the edits of a plan; `MaxChanges` those of the provider's
document; `Attempts` and `MaxFailures` are `WS_MAX_RECONNECT_ATTEMPTS` and
`maxConsecutiveFailures`; `MaxPolls` caps the status reads of one maintenance
call, `MaxLag` how far the clock falls behind the last token.  `Tasks`, `Ops`,
`Calls` and `Stops` are finite sets of one-shot calls; `Managers` and `Coords`
are the objects that may ever be built; `Inits` are the connection attempts that
may be alive at once.

### Fairness

`ClientManager`: weak fairness of a broadcast's steps and of a drain's steps.
Promise reactions always run, and a body ends because CosmJS polls for
inclusion under `broadcastTimeoutMs`.  Nobody is obliged to acquire, to submit
or to release.  `TxExecution`: weak fairness of an operation's own steps, as
every await under the lock is bounded (connection and retry ladders, the rate
limiter, the polling deadline); nobody is obliged to call or to cancel.
`TxSequence`: weak fairness of the caller's steps and of inclusion, since
"drift heals" is a claim about a caller who goes on calling on a chain that
makes blocks; the events are not fair.  `LeaseWait`: the deadline passes, timers
fire, a token is minted or refused (the wallet is assumed to answer), and a read
is answered or times out (`DEFAULT_FETCH_TIMEOUT_MS`, 30 s); the socket owes
nothing and may be silent, or chatter, for ever.  `ServerProcess`: promise
reactions, timers and the exit of an empty event loop come, a broadcast's body
and a call end; nobody owes a signal.  `Maintenance`: signing, POSTs and reads
end or time out, the clock moves on and is not set back for ever; the provider
owes nothing.  `LazyClients`, `RestoreApp` and `AgentDeploy` state safety only
and assume none.

## 4. Findings

* `stale_release` (`client.ts:880`).  `disconnectWhenIdle` promises to resolve
  "after any already-queued broadcasts have drained and final teardown has
  completed".  When a drain resumes and finds a new holder it returns without
  teardown, and the settled `pendingRelease` is only forgotten one microtask
  later.  A last release in that microtask gets the settled promise, resolves
  with a broadcast still in flight, and the manager without holders is never
  torn down.
* `txsequence_stuck` (`tx-sequence.ts:129`).  The comment says that dropping
  the counter "bounds drift to a single burst".  An entry that the chain has
  left behind makes every later simulation fail, and a failed simulation drops
  nothing; only an explicit-fee broadcast (`ExplicitFeesHeal`) or the teardown
  of the chain's last manager does.

### Observations

Met while modelling; no run is about them, and the models have the code's
behaviour as it is.

* A burst can collide with itself: after one rejected broadcast the entry is
  dropped and the next one reads the committed sequence, which accepted but not
  yet included ones have used (`tx-sequence.ts:108`; `CHANGELOG.md:337` says a
  burst no longer collides).  `NoSelfCollision` is about undisturbed entries.
* A signal that arrives during a shutdown begun by the end of input exits at
  once although it is the first signal; comment and `CHANGELOG.md:162` speak of
  a second one.  After an end of input the deadline's warning says that the exit
  is forced, but nothing exits: the process goes on closing (`bootstrap.ts`).
* The drain of a shutdown may finalize between a saga's create-lease settling
  and its compensating cancel-lease being queued, which the manager then
  refuses.
* An upload whose answer was lost is reported as a failed upload although the
  manifest may have been taken (`deployManifest.ts:443`).
* A poll of fred's that could not confirm readiness reaches the agent's caller
  under `TX_FAILED` when nobody chooses a recovery (`deploy-app.ts:1417`).
* While the wall clock is set back, provider calls wait for it uninterruptibly
  (`http/auth.ts`); and `deploy-app.ts:553` makes a tracker per call, so tokens
  of two deploys may share a second.  `Maintenance` has the shared tracker of a
  server.

## 5. Proofs

The eight `*_proofs` modules prove, for any constants that satisfy the named
assumptions, every safety invariant their components' runs check, the action
property `AnswersStand`, and the refinements: `ClientManager` implements
`SignerMutex`, `LazyClients` and `ServerProcess` implement `ClientManager`,
`TxExecution` implements `TxOutcome`, and `RestoreApp` implements
`RestoreOutcome`.  For the two places where callers queue
they also prove the safety half of liveness: nobody waits in a line in which
nobody can move (`NoneWedged`).  `PROJECT.json` lists the theorems.

Each component has one inductive invariant (`IInv`; `LInv` and `PInv` in
`ManagerUsers_proofs`), one step per action (or per group of actions that change
the same part of the state), and a temporal theorem per property.

* **ClientManager** (assumes `NoneAssumption`: `None` is none of the objects;
  `ManagersFinite`; `MaxHoldersAssumption`).  The properties are not inductive
  alone.  `Fifo` and `Chained` say why broadcasts are serialized: those that
  share a lock form one line in order of birth, bodies run in that order, and a
  queued one waits for the one just before it.  `Tails` says that the lock map
  of a coordination object that still has a manager points at the end of each
  line, which is what the clean-up's comparison preserves.  `Drained` says that
  an accepted broadcast is pending until its manager is torn down.
  `CoordinationCounted` needs cardinalities, hence `ManagersFinite`.
  `LocksImplement` maps the steps: a broadcast is requested when it chains on,
  granted when its body starts and released when its tail settles; what has to
  be shown is that the promise it chained on is exactly everybody elder being
  gone (`NoElders`, from `Fifo` and `Chained`).  `NoneWedged` takes the eldest
  unfinished broadcast of a lock, which exists because births are numbers
  (`Least`), and shows that it always has a step.
* **LazyClients** (in addition `InitsAssumption`, `MaxTriesAssumption`).  Every
  step is a step of `ClientManager` or leaves its state alone (`Refines`), so
  `ClientManager`'s invariant comes for free.  On top of it `NothingLatched` ties
  field, cache and attempt together; `Transports` says that an open transport is
  an attempt's under way or cached, and that whatever a live manager has cached
  is open; `ClientsOwned` that the attempt a broadcast awaits is of its own
  manager and, once it broadcasts, still cached there: this is what `Drained`
  below protects until the broadcast ends.
* **ServerProcess** (in addition `CallsAssumption`).  Every step is again one of
  `ClientManager` or leaves it alone (`ProcIsNext`), which gives its invariant.
  `Begun` says which of the process's parts exist at each stage, `ClosedOnce`
  how far the closing is and that it was begun once, `Held` that the process
  holds its manager until the drain step of the closing and never after, so that
  nothing but that step starts a drain.  `DrainedDry` is the point: when that
  drain resolves no broadcast is live, so the wallet that is closed next serves
  nobody.
* **TxExecution** (`MaxRetriesAssumption`).  `Ranked` and `HoldersLead`: those
  ahead of a call are in its sender's line, and whoever was granted the lock has
  nobody ahead and has not settled.  `MarkedFirst`: the submission marker comes
  before any byte leaves.  `UnsentMeansUnmarked`: only a cancelled and unmarked
  operation is called unsent, and such an operation cannot pass the checkpoint
  that marks.  `HashesAccepted`: a hash is recorded where acceptance was
  observed.  `AnswersFinal` adds that a call not yet made has no answer.
  `OutcomeImplemented` needs more (`OInv`): an operation's own settlement is
  honest although it reaches the caller later, and an answer is there only after
  a cancellation or a settlement, so that no answered call can be committed.
  The lock section is about `SignerMutex` itself: `Lined` and `Nested` (of two in
  a line one is ahead of the other, and whoever is ahead of somebody has fewer
  ahead of itself) give `LockExcludes` and `LockMoves`, and with `LockUsed` and
  `InLine` (a call in line is waiting, or holds the lock and has a step)
  `NoneWedged`.
* **TxSequence** (`MaxSeqAssumption`, `NoneAssumption`).  `Held`, `Exact` and
  `Estimated` say, for each place a call can be at, how the entry, the sequence
  in its request and the estimate go together and, unless something else moved
  the chain, how they go with what the node accepts next.
* **RestoreApp** (no assumption).  One statement `Sound(c)` per call:
  `TxPlaced`, which transaction can be in the mempool at each `pc`; `PostPlaced`,
  that a POST leaves only when none is under way and none will follow;
  `AnswerHonest`, what an answer implies of both.  A step of one call leaves
  another's statement untouched.  `RestoreImplemented` adds `RInv`: a creation a
  call was told of left a lease, and the source gave its volumes to whoever has
  them.  `RestoreTold` is about `RestoreOutcome` alone.  `VolumesReported` states
  the invariant about volumes that the refinement replaces in the run.
* **AgentDeploy** (`CallersAssumption`: the callers are the leases' deploys and
  the stops, and these are distinct; `NoneAssumption`, `MaxEditsAssumption`).
  Per deploy, `Placed` says which report, answer and spec go with each place,
  `Named` who knows of the lease, `Uploaded1` that the manifest is on its way at
  most once and nothing runs without it, `Verdicts` what a report or an answer
  implies of app and lease; per stop, `StopSound` does so for its transaction
  and its answer.  Leases only move forward (`Forward`), so what a lagging read
  shows of an ended lease is final and no later event makes an answer false.
* **LeaseWait** (`BoundsAssumption`).  `Fresh`: a served read that no candidate has superseded is no older than any
  candidate received, because `candidateSeq` grows with each; `Confirming`: the
  confirming loop never forgets the newest candidate; `Unsettled`: an open wait
  has taken no verdict into account.
* **Maintenance** (`NoneAssumption`, `KeysAssumption`, `BoundsAssumption`).
  `Calling` and `Recordings` say what a call and a record can be at each place;
  `Effects` that a command's runs are charged to the call whose POST was
  recorded, one at most; `Claims` what an answer implies of the record;
  `Tokens` that the seconds of the tokens under way differ from one another and
  from those the provider has seen, and none is later than `last`.
  `TrackerExact` shows that the queue holds exactly the calls that await a
  second, each once, also when one of them is aborted while it waits.

What stays with TLC: liveness under fairness and anything about ENABLED, that is
`BroadcastsFinish`, `DrainsRelease`, `CallsEnd`, `ExplicitFeesHeal`, `WaitEnds`,
`ShutdownExits` and `CallsAnswered`; and the two properties that the violation
runs refute.

## 6. Not modelled, and the plan

Left to do, in this order:

1. The abstract promise of a deploy, as `RestoreOutcome` is that of a restore,
   and `LeaseChain`'s callers resting on `TxOutcome` by refinement rather than by
   argument.
2. More safety halves of liveness: that an open wait of `LeaseWait`, a process
   that shuts down and a maintenance call always have a step of their own or of
   a timer.
3. `manage-domain.ts`: confirm, transact, verify, over `LeaseChain`.
4. The token bucket of `acquireRateLimit`: its wait is a step of `TxExecution`
   and its order over several callers is not modelled.
5. `keyfileWallet.ts`: a disconnect during a connect, which only an embedder of
   the SDK can cause; a server process connects before it serves.
6. The agent server's elicitations: their outcomes are inputs of `AgentDeploy`.

Not planned, because it keeps no state over time or is pure input and output:
the transaction builders, query handlers and read tools, `troubleshoot.ts`,
network guards, manifest construction, the chain, lease, cosmwasm and fred
servers, the SDK facade and the faucet, HTTP transport and schemas, key
generation and prompts.  These are most of the repository's lines: types, tool
registration, argument parsing, validation, decoding and wording, one call at a
time and without a history, where a unit test reaches what a model would.  That
is why the models cover a small share of all lines (about a ninth) although they
cover the stateful core nearly whole.
