--------------------------- MODULE ClientManager ---------------------------
(***************************************************************************)
(* CosmosClientManager (core/src/client.ts) on one chain id: the static    *)
(* registry of shared managers, the reference count of holders, the        *)
(* ChainCoordination object whose broadcast locks every manager of the     *)
(* chain shares, and a release that waits for accepted broadcasts.         *)
(*                                                                         *)
(* JavaScript runs one callback at a time, so an action is one synchronous *)
(* stretch of code between two awaits.  A promise reaction is an action    *)
(* enabled once the promise it hangs on has settled.                       *)
(***************************************************************************)
EXTENDS Naturals, FiniteSets

CONSTANTS Keys,         \* registry keys: (wallet, fetch, frozen config)
          Managers,     \* CosmosClientManager objects that may be built
          Coords,       \* ChainCoordination objects that may be built
          Signers,      \* signer addresses
          Tasks,        \* broadcasts (one withBroadcastLock call each)
          MaxHolders,   \* bound on the holders of one manager
          AllowClear,   \* may clearInstances be called?
          None

ASSUME NoneAssumption ==
  None \notin Keys \cup Managers \cup Coords \cup Signers \cup Tasks

ASSUME ManagersFinite == IsFiniteSet(Managers)

ASSUME MaxHoldersAssumption == MaxHolders \in Nat \ {0}

VARIABLES
  instances,           \* static registry: key -> manager or None
  chainCoordination,   \* static: the coordination registered for the chain
  key,                 \* manager -> its instanceKey, None while not built
  coord,               \* manager -> the coordination object it joined
  refCount,            \* manager -> live holders
  released,            \* manager -> coordinationReleased
  pendingBroadcasts,   \* manager -> its broadcasts that have not drained
  drain,               \* manager -> its pendingRelease promise
  drainWait,           \* manager -> tasks the drain's allSettled waits for
  managers,            \* coordination -> its count of live managers
  broadcastLocks,      \* coordination -> signer -> tail task or None
  phase,               \* task -> where its body is
  owner,               \* task -> manager it was submitted to
  signer,              \* task -> address whose lock it asked for
  prev,                \* task -> the task its promise chains on
  clock, born,         \* history: the order the tasks asked in
  cleared              \* history: managers torn down by clearInstances

registryVars == <<instances, chainCoordination, key, coord, managers, cleared>>
holderVars   == <<refCount, released, drain, drainWait>>
lockVars     == <<broadcastLocks, pendingBroadcasts>>
taskVars     == <<phase, owner, signer, prev, clock, born>>
vars == <<registryVars, holderVars, lockVars, taskVars>>

\* A broadcast's life: "queued" behind its predecessor, "started" when its
\* callback runs, "broadcasting" once it has a signing client, "settled" when
\* the callback's promise settles, "done" after the tail's bookkeeping ran.
Live        == {"queued", "started", "broadcasting", "settled"}
InBody      == {"started", "broadcasting", "settled"}
Phases      == Live \cup {"new", "done"}
DrainStates == {"none", "waiting", "resolved"}

Built(m)    == key[m] # None
Active(m)   == Built(m) /\ ~released[m]
LockOf(t)   == <<coord[owner[t]], signer[t]>>
LiveManagers(c) == {m \in Managers : coord[m] = c /\ Active(m)}

Init ==
  /\ instances = [k \in Keys |-> None]
  /\ chainCoordination = None
  /\ key = [m \in Managers |-> None]
  /\ coord = [m \in Managers |-> None]
  /\ refCount = [m \in Managers |-> 0]
  /\ released = [m \in Managers |-> FALSE]
  /\ pendingBroadcasts = [m \in Managers |-> {}]
  /\ drain = [m \in Managers |-> "none"]
  /\ drainWait = [m \in Managers |-> {}]
  /\ managers = [c \in Coords |-> 0]
  /\ broadcastLocks = [c \in Coords |-> [s \in Signers |-> None]]
  /\ phase = [t \in Tasks |-> "new"]
  /\ owner = [t \in Tasks |-> None]
  /\ signer = [t \in Tasks |-> None]
  /\ prev = [t \in Tasks |-> None]
  /\ clock = 0
  /\ born = [t \in Tasks |-> 0]
  /\ cleared = {}

-----------------------------------------------------------------------------
(* Acquiring a manager.                                                    *)

\* getInstance finds a compatible manager: one more holder shares it, also
\* while an earlier release is still draining.
ShareInstance(k) ==
  LET m == instances[k] IN
  /\ m # None
  /\ refCount[m] < MaxHolders
  /\ refCount' = [refCount EXCEPT ![m] = @ + 1]
  /\ UNCHANGED <<registryVars, released, drain, drainWait, lockVars, taskVars>>

\* getInstance finds none: the constructor joins the chain's coordination
\* object, or registers a fresh one.
BuildInstance(k, m) ==
  /\ instances[k] = None
  /\ ~Built(m)
  /\ \E c \in Coords :
       /\ \/ c = chainCoordination
          \/ /\ chainCoordination = None
             /\ \A n \in Managers : coord[n] # c
       /\ chainCoordination' = c
       /\ coord' = [coord EXCEPT ![m] = c]
       /\ managers' = [managers EXCEPT ![c] = @ + 1]
  /\ key' = [key EXCEPT ![m] = k]
  /\ instances' = [instances EXCEPT ![k] = m]
  /\ refCount' = [refCount EXCEPT ![m] = 1]
  /\ UNCHANGED <<cleared, released, drain, drainWait, lockVars, taskVars>>

-----------------------------------------------------------------------------
(* Tearing managers down.                                                  *)

\* teardown() on every manager of M: forget the pending broadcasts and, once
\* per manager, leave the coordination object.  The last manager to leave
\* empties its locks.
Leaving(M, c) == {m \in M : coord[m] = c /\ ~released[m]}

\* Mutant: locks cleared by any manager that leaves, not only by the last.
EmptiedByAny(M, c) == Leaving(M, c) # {}

Emptied(M, c) == Leaving(M, c) # {} /\ managers[c] = Cardinality(Leaving(M, c))

Teardown(M) ==
  /\ pendingBroadcasts' =
       [m \in Managers |-> IF m \in M THEN {} ELSE pendingBroadcasts[m]]
  /\ released' = [m \in Managers |-> released[m] \/ m \in M]
  /\ managers' = [c \in Coords |-> managers[c] - Cardinality(Leaving(M, c))]
  /\ broadcastLocks' =
       [c \in Coords |-> IF Emptied(M, c) THEN [s \in Signers |-> None]
                                          ELSE broadcastLocks[c]]

\* Mutant: the key is dropped whichever manager holds it now.
FinalizeAnyKey(m) ==
  /\ Teardown({m})
  /\ chainCoordination' =
       IF chainCoordination # None /\ coord[m] = chainCoordination
            /\ Emptied({m}, coord[m])
       THEN None ELSE chainCoordination
  /\ instances' = [instances EXCEPT ![key[m]] = None]

\* finalizeRelease: tear down, then leave the registry unless another manager
\* has taken the key since.
FinalizeRelease(m) ==
  /\ Teardown({m})
  /\ chainCoordination' =
       IF chainCoordination # None /\ coord[m] = chainCoordination
            /\ Emptied({m}, coord[m])
       THEN None ELSE chainCoordination
  /\ instances' = [k \in Keys |-> IF k = key[m] /\ instances[k] = m
                                  THEN None ELSE instances[k]]

-----------------------------------------------------------------------------
(* Releasing a manager: disconnect() and disconnectWhenIdle().             *)

ReleaseShared(m) ==
  /\ refCount[m] > 1
  /\ refCount' = [refCount EXCEPT ![m] = @ - 1]
  /\ UNCHANGED <<registryVars, released, drain, drainWait, lockVars, taskVars>>

\* The last holder leaves with nothing in flight: synchronous teardown.
ReleaseIdle(m) ==
  /\ refCount[m] = 1
  /\ pendingBroadcasts[m] = {}
  /\ refCount' = [refCount EXCEPT ![m] = 0]
  /\ FinalizeRelease(m)
  /\ UNCHANGED <<key, coord, cleared, drain, drainWait, taskVars>>

\* The last holder leaves while broadcasts are in flight: start a drain, whose
\* first await takes its snapshot at once, or join the one already pending.
ReleaseBusy(m) ==
  /\ refCount[m] = 1
  /\ pendingBroadcasts[m] # {}
  /\ refCount' = [refCount EXCEPT ![m] = 0]
  /\ IF drain[m] = "none"
     THEN /\ drain' = [drain EXCEPT ![m] = "waiting"]
          /\ drainWait' = [drainWait EXCEPT ![m] = pendingBroadcasts[m]]
     ELSE UNCHANGED <<drain, drainWait>>
  /\ UNCHANGED <<registryVars, released, lockVars, taskVars>>

Snapshotted(m) == drain[m] = "waiting" /\ \A t \in drainWait[m] : phase[t] = "done"

\* The drain's loop resumes and finds more broadcasts still to wait for.
DrainAgain(m) ==
  /\ Snapshotted(m)
  /\ refCount[m] = 0
  /\ pendingBroadcasts[m] # {}
  /\ drainWait' = [drainWait EXCEPT ![m] = pendingBroadcasts[m]]
  /\ UNCHANGED <<registryVars, refCount, released, drain, lockVars, taskVars>>

\* Mutant: the drain takes one snapshot and never looks again.
DrainOnce(m) ==
  /\ Snapshotted(m)
  /\ refCount[m] = 0
  /\ FinalizeRelease(m)
  /\ drain' = [drain EXCEPT ![m] = "resolved"]
  /\ drainWait' = [drainWait EXCEPT ![m] = {}]
  /\ UNCHANGED <<key, coord, cleared, refCount, taskVars>>

\* The drain's loop resumes with nothing left and nobody holding on.
DrainFinalize(m) ==
  /\ Snapshotted(m)
  /\ refCount[m] = 0
  /\ pendingBroadcasts[m] = {}
  /\ FinalizeRelease(m)
  /\ drain' = [drain EXCEPT ![m] = "resolved"]
  /\ drainWait' = [drainWait EXCEPT ![m] = {}]
  /\ UNCHANGED <<key, coord, cleared, refCount, taskVars>>

\* Somebody reacquired the manager during the drain: leave it alone.
DrainCancelled(m) ==
  /\ Snapshotted(m)
  /\ refCount[m] > 0
  /\ drain' = [drain EXCEPT ![m] = "resolved"]
  /\ drainWait' = [drainWait EXCEPT ![m] = {}]
  /\ UNCHANGED <<registryVars, refCount, released, lockVars, taskVars>>

\* The reaction, one microtask later, that forgets the settled pendingRelease.
ForgetDrain(m) ==
  /\ drain[m] = "resolved"
  /\ drain' = [drain EXCEPT ![m] = "none"]
  /\ UNCHANGED <<registryVars, refCount, released, drainWait, lockVars, taskVars>>

\* clearInstances: an unconditional reset, whoever still holds or broadcasts.
ClearInstances ==
  LET M == {m \in Managers : Built(m) /\ instances[key[m]] = m} IN
  /\ AllowClear
  /\ M # {}
  /\ Teardown(M)
  /\ refCount' = [m \in Managers |-> IF m \in M THEN 0 ELSE refCount[m]]
  /\ instances' = [k \in Keys |-> None]
  /\ chainCoordination' = None
  /\ cleared' = cleared \cup M
  /\ UNCHANGED <<key, coord, drain, drainWait, taskVars>>

-----------------------------------------------------------------------------
(* One broadcast.                                                          *)

\* Mutant: the tail is read after it was replaced, so a broadcast waits for
\* itself.
WithOwnTail(t, m, s) ==
  /\ phase[t] = "new"
  /\ Active(m)
  /\ phase' = [phase EXCEPT ![t] = "queued"]
  /\ owner' = [owner EXCEPT ![t] = m]
  /\ signer' = [signer EXCEPT ![t] = s]
  /\ prev' = [prev EXCEPT ![t] = t]
  /\ broadcastLocks' = [broadcastLocks EXCEPT ![coord[m]][s] = t]
  /\ pendingBroadcasts' = [pendingBroadcasts EXCEPT ![m] = @ \cup {t}]
  /\ clock' = clock + 1
  /\ born' = [born EXCEPT ![t] = clock]
  /\ UNCHANGED <<registryVars, holderVars>>

\* withBroadcastLock: refused on a released manager; otherwise chain on the
\* signer's tail, become the tail, and count as pending.
WithBroadcastLock(t, m, s) ==
  /\ phase[t] = "new"
  /\ Active(m)
  /\ phase' = [phase EXCEPT ![t] = "queued"]
  /\ owner' = [owner EXCEPT ![t] = m]
  /\ signer' = [signer EXCEPT ![t] = s]
  /\ prev' = [prev EXCEPT ![t] = broadcastLocks[coord[m]][s]]
  /\ broadcastLocks' = [broadcastLocks EXCEPT ![coord[m]][s] = t]
  /\ pendingBroadcasts' = [pendingBroadcasts EXCEPT ![m] = @ \cup {t}]
  /\ clock' = clock + 1
  /\ born' = [born EXCEPT ![t] = clock]
  /\ UNCHANGED <<registryVars, holderVars>>

TaskStep(t, from, to) ==
  /\ phase[t] = from
  /\ phase' = [phase EXCEPT ![t] = to]
  /\ UNCHANGED <<registryVars, holderVars, lockVars,
                 owner, signer, prev, clock, born>>

\* prev.then(fn, fn): the body runs once the predecessor's tail has settled,
\* after the bookkeeping reaction that was attached to that tail first.
StartBody(t) ==
  /\ prev[t] # None => phase[prev[t]] = "done"
  /\ TaskStep(t, "queued", "started")

\* The body gets its signing client, unless its manager was released while it
\* waited; a connection failure or a cancellation ends the body here too.  A
\* forced reset may still land once the client is on its way to the body.
AcquireClient(t) ==
  /\ TaskStep(t, "started", "broadcasting")
  /\ released[owner[t]] => owner[t] \in cleared
FailBody(t)      == TaskStep(t, "started", "settled")
SettleBody(t)    == TaskStep(t, "broadcasting", "settled")

\* Mutants of the tail's reaction: it drops whatever tail the signer has, or
\* leaves the broadcast pending.
CleanUpWith(t, locks, pending) ==
  /\ phase[t] = "settled"
  /\ phase' = [phase EXCEPT ![t] = "done"]
  /\ pendingBroadcasts' = [pendingBroadcasts EXCEPT ![owner[t]] = pending]
  /\ broadcastLocks' = locks
  /\ UNCHANGED <<registryVars, holderVars, owner, signer, prev, clock, born>>

CleanUpAnyTail(t) ==
  CleanUpWith(t, [broadcastLocks EXCEPT ![coord[owner[t]]][signer[t]] = None],
                 pendingBroadcasts[owner[t]] \ {t})
CleanUpStillPending(t) ==
  CleanUpWith(t, broadcastLocks, pendingBroadcasts[owner[t]])

\* The tail's reaction: no longer pending, and no longer the signer's tail
\* unless a newer broadcast took that place.
CleanUp(t) ==
  LET c == coord[owner[t]]  s == signer[t] IN
  /\ phase[t] = "settled"
  /\ phase' = [phase EXCEPT ![t] = "done"]
  /\ pendingBroadcasts' = [pendingBroadcasts EXCEPT ![owner[t]] = @ \ {t}]
  /\ broadcastLocks' = IF broadcastLocks[c][s] = t
                       THEN [broadcastLocks EXCEPT ![c][s] = None]
                       ELSE broadcastLocks
  /\ UNCHANGED <<registryVars, holderVars, owner, signer, prev, clock, born>>

-----------------------------------------------------------------------------

Acquire == \E k \in Keys : ShareInstance(k) \/ \E m \in Managers : BuildInstance(k, m)
Release(m) == ReleaseShared(m) \/ ReleaseIdle(m) \/ ReleaseBusy(m)
DrainStep(m) == DrainAgain(m) \/ DrainFinalize(m) \/ DrainCancelled(m) \/ ForgetDrain(m)
Submit(t) == \E m \in Managers, s \in Signers : WithBroadcastLock(t, m, s)
BodyStep(t) == StartBody(t) \/ AcquireClient(t) \/ FailBody(t) \/ SettleBody(t) \/ CleanUp(t)

Next == \/ Acquire
        \/ ClearInstances
        \/ \E m \in Managers : Release(m) \/ DrainStep(m)
        \/ \E t \in Tasks : Submit(t) \/ BodyStep(t)

Spec == Init /\ [][Next]_vars

\* Promise reactions run, and a broadcast body ends: CosmJS polls for inclusion
\* under broadcastTimeoutMs.  Nobody is obliged to acquire, submit or release.
Fairness == /\ \A t \in Tasks : WF_vars(BodyStep(t))
            /\ \A m \in Managers : WF_vars(DrainStep(m))

FairSpec == Spec /\ Fairness

-----------------------------------------------------------------------------
(* Properties.                                                             *)

TypeOK ==
  /\ instances \in [Keys -> Managers \cup {None}]
  /\ chainCoordination \in Coords \cup {None}
  /\ key \in [Managers -> Keys \cup {None}]
  /\ coord \in [Managers -> Coords \cup {None}]
  /\ refCount \in [Managers -> Nat]
  /\ released \in [Managers -> BOOLEAN]
  /\ pendingBroadcasts \in [Managers -> SUBSET Tasks]
  /\ drain \in [Managers -> DrainStates]
  /\ drainWait \in [Managers -> SUBSET Tasks]
  /\ managers \in [Coords -> Nat]
  /\ broadcastLocks \in [Coords -> [Signers -> Tasks \cup {None}]]
  /\ phase \in [Tasks -> Phases]
  /\ owner \in [Tasks -> Managers \cup {None}]
  /\ signer \in [Tasks -> Signers \cup {None}]
  /\ prev \in [Tasks -> Tasks \cup {None}]
  /\ clock \in Nat
  /\ born \in [Tasks -> Nat]
  /\ cleared \subseteq Managers

\* Two broadcasts of one signer never run together, whatever managers, wallets
\* and endpoints they came through (client.ts: "Broadcast locks ... remain
\* shared across every manager for the same chain ID"), unless clearInstances
\* cut one of the two managers loose.
SerializedPerSigner ==
  \A t, u \in Tasks :
    /\ t # u
    /\ phase[t] \in InBody
    /\ phase[u] \in InBody
    /\ signer[t] = signer[u]
    => owner[t] \in cleared \/ owner[u] \in cleared

\* Releasing holders, in any order and with any reacquisition, never tears a
\* manager down under a broadcast it accepted (disconnectWhenIdle: shutdown
\* must not "sever a transaction or its compensation path halfway through").
DrainProtectsBroadcasts ==
  \A t \in Tasks :
    phase[t] \in Live /\ released[owner[t]] => owner[t] \in cleared

\* The registry holds exactly the managers that are alive, each under its own
\* key: no released manager can be handed out again, and no live manager is
\* lost to the registry when an older release of its key settles late.
LiveIffRegistered ==
  \A m \in Managers :
    Built(m) => (~released[m] <=> instances[key[m]] = m)

\* A coordination object counts its live managers, once each, and all live
\* managers of the chain are in the one that is registered.
CoordinationCounted ==
  /\ \A c \in Coords : managers[c] = Cardinality(LiveManagers(c))
  /\ \A m \in Managers : Active(m) => coord[m] = chainCoordination
  /\ chainCoordination # None => managers[chainCoordination] > 0

\* The lock map holds in-flight chains only ("so the map stays bounded"), and
\* the tail it holds for a signer is that signer's own broadcast.
LocksBounded ==
  \A c \in Coords, s \in Signers :
    LET t == broadcastLocks[c][s] IN
    t # None => phase[t] \in Live /\ LockOf(t) = <<c, s>>

\* What managers share holds exactly what the live ones account for, whichever
\* of their teardowns, resets, rebuilds and broadcasts came in between.
SharedStateExact == LiveIffRegistered /\ CoordinationCounted /\ LocksBounded

\* The locks of every coordination object implement SignerMutex: first come,
\* first served, one at a time.
LiveOn(l) == {t \in Tasks : phase[t] \in Live /\ LockOf(t) = l}

\* The broadcasts a live one lets go first: those that asked for its lock earlier.
Elders(t) ==
  IF phase[t] \in Live THEN {u \in LiveOn(LockOf(t)) : born[u] < born[t]} ELSE {}

Mutex == INSTANCE SignerMutex WITH
           Locks <- Coords \X Signers,
           line <- [l \in Coords \X Signers |-> LiveOn(l)],
           ahead <- [t \in Tasks |-> Elders(t)],
           granted <- {t \in Tasks : phase[t] \in InBody},
           finished <- {t \in Tasks : phase[t] = "done"}

ImplementsSignerMutex == Mutex!Spec

\* A broadcast that was accepted into the queue gets its turn and ends, even
\* when the ones before it fail or their managers are torn down.
BroadcastsFinish ==
  \A t \in Tasks : phase[t] = "queued" ~> phase[t] = "done"

\* A manager nobody holds whose drain has begun is torn down or reacquired.
DrainsRelease ==
  \A m \in Managers :
    drain[m] = "waiting" /\ refCount[m] = 0 ~> released[m] \/ refCount[m] > 0

\* disconnectWhenIdle "resolve[s] after any already-queued broadcasts have
\* drained and final teardown has completed" (client.ts), unless the manager
\* was reacquired: the promise it returned has settled, so with no holder left
\* the manager has been torn down.
ReleaseResolvesTornDown ==
  \A m \in Managers :
    drain[m] = "resolved" /\ refCount[m] = 0 => released[m]
=============================================================================
