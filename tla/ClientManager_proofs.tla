------------------------ MODULE ClientManager_proofs ------------------------
(***************************************************************************)
(* ClientManager's safety properties hold for every number of wallets,     *)
(* managers, signers and broadcasts.  The inductive invariant IInv says    *)
(* why: the broadcasts that share a lock form one line in order of birth,  *)
(* each chained on the one just before it, and the lock map of a           *)
(* coordination object that still has a manager points at the end of it.   *)
(***************************************************************************)
EXTENDS ClientManager, FiniteSetTheorems, TLAPS

WellFormed ==
  /\ \A m \in Managers : Built(m) => coord[m] \in Coords
  /\ \A m \in Managers :
       ~Built(m) => /\ coord[m] = None
                    /\ ~released[m]
                    /\ refCount[m] = 0
                    /\ drain[m] = "none"
  /\ \A t \in Tasks :
       phase[t] # "new" => /\ owner[t] \in Managers
                           /\ Built(owner[t])
                           /\ signer[t] \in Signers
                           /\ born[t] < clock
  /\ \A t, u \in Tasks :
       phase[t] # "new" /\ phase[u] # "new" /\ born[t] = born[u] => t = u

Registered ==
  /\ \A k \in Keys : instances[k] # None => key[instances[k]] = k
  /\ LiveIffRegistered

\* t and u asked for the same lock, t first.
Before(t, u) ==
  /\ phase[t] # "new"
  /\ phase[u] # "new"
  /\ LockOf(t) = LockOf(u)
  /\ born[t] < born[u]

\* Bodies run in order of birth.
Fifo ==
  \A t, u \in Tasks :
    Before(t, u) /\ phase[u] # "queued" => phase[t] = "done"

\* A queued task waits for the task just before it, if any of those is left.
Chained ==
  \A u \in Tasks : phase[u] = "queued" =>
    /\ prev[u] = None => \A t \in Tasks : Before(t, u) => phase[t] = "done"
    /\ prev[u] # None =>
         /\ Before(prev[u], u)
         /\ \A t \in Tasks : Before(t, u) => t = prev[u] \/ Before(t, prev[u])

\* A tail in a lock map is the youngest of its line, and where managers remain
\* a signer without a tail has nothing in flight.
Tails ==
  \A c \in Coords, s \in Signers :
    LET tail == broadcastLocks[c][s] IN
    /\ tail # None =>
         /\ phase[tail] \in Live
         /\ LockOf(tail) = <<c, s>>
         /\ \A t \in Tasks : ~Before(tail, t)
    /\ tail = None /\ LiveManagers(c) # {} =>
         \A t \in Tasks :
           phase[t] # "new" /\ LockOf(t) = <<c, s>> => phase[t] = "done"

\* A manager's accepted broadcasts are pending until it is torn down.
Drained ==
  \A t \in Tasks : phase[t] \in Live =>
    /\ ~released[owner[t]] => t \in pendingBroadcasts[owner[t]]
    /\ released[owner[t]] => owner[t] \in cleared

IInv == /\ TypeOK
        /\ WellFormed
        /\ Registered
        /\ CoordinationCounted
        /\ Fifo
        /\ Chained
        /\ Tails
        /\ Drained

-----------------------------------------------------------------------------
(* Counting: what leaving a coordination object does to its count.         *)

\* The managers that leave a coordination object are live ones of it, and it
\* is emptied exactly when it had some and nobody stays.
LEMMA LeavingCount ==
  ASSUME TypeOK, WellFormed, CoordinationCounted,
         NEW M \in SUBSET Managers, \A m \in M : Built(m),
         NEW c \in Coords
  PROVE  /\ Leaving(M, c) \subseteq LiveManagers(c)
         /\ IsFiniteSet(LiveManagers(c))
         /\ managers[c] - Cardinality(Leaving(M, c)) \in Nat
         /\ managers[c] - Cardinality(Leaving(M, c))
              = Cardinality(LiveManagers(c) \ Leaving(M, c))
         /\ Emptied(M, c) => LiveManagers(c) = Leaving(M, c)
         /\ LiveManagers(c) # {} /\ LiveManagers(c) = Leaving(M, c) => Emptied(M, c)
<1>1. Leaving(M, c) \subseteq LiveManagers(c)
  BY DEF Leaving, LiveManagers, Active
<1>2. IsFiniteSet(LiveManagers(c)) /\ IsFiniteSet(Leaving(M, c))
  <2>1. LiveManagers(c) \subseteq Managers
    BY DEF LiveManagers
  <2>. QED
    BY <1>1, <2>1, ManagersFinite, FS_Subset
<1>3. managers[c] = Cardinality(LiveManagers(c))
  BY DEF CoordinationCounted
<1>4. /\ Cardinality(LiveManagers(c)) \in Nat
      /\ Cardinality(Leaving(M, c)) \in Nat
      /\ Cardinality(Leaving(M, c)) <= Cardinality(LiveManagers(c))
      /\ Cardinality(Leaving(M, c)) = Cardinality(LiveManagers(c))
           => Leaving(M, c) = LiveManagers(c)
  BY <1>1, <1>2, FS_Subset, FS_CardinalityType
<1>5. Cardinality(LiveManagers(c) \ Leaving(M, c))
        = Cardinality(LiveManagers(c)) - Cardinality(Leaving(M, c))
  <2>1. LiveManagers(c) \cap Leaving(M, c) = Leaving(M, c)
    BY <1>1
  <2>. QED
    BY <1>2, <2>1, FS_Difference
<1>6. Emptied(M, c) => LiveManagers(c) = Leaving(M, c)
  BY <1>3, <1>4, ZenonT(60) DEF Emptied
<1>7. LiveManagers(c) # {} /\ LiveManagers(c) = Leaving(M, c) => Emptied(M, c)
  BY <1>3 DEF Emptied
<1>. QED
  BY <1>1, <1>2, <1>3, <1>4, <1>5, <1>6, <1>7

-----------------------------------------------------------------------------
(* Type correctness.                                                       *)

LEMMA InitTypeOK == Init => TypeOK
BY NoneAssumption DEF Init, TypeOK, Phases, Live, DrainStates

\* Managers that are torn down together: all of them built.
TornDownBy(M) == M \in SUBSET Managers /\ \A m \in M : Built(m)

LEMMA TeardownTypes ==
  ASSUME TypeOK, WellFormed, CoordinationCounted,
         NEW M, TornDownBy(M), Teardown(M)
  PROVE  /\ pendingBroadcasts' \in [Managers -> SUBSET Tasks]
         /\ released' \in [Managers -> BOOLEAN]
         /\ managers' \in [Coords -> Nat]
         /\ broadcastLocks' \in [Coords -> [Signers -> Tasks \cup {None}]]
<1>1. managers' \in [Coords -> Nat]
  BY LeavingCount DEF Teardown, TornDownBy
<1>2. broadcastLocks' \in [Coords -> [Signers -> Tasks \cup {None}]]
  BY DEF Teardown, TypeOK
<1>3. pendingBroadcasts' \in [Managers -> SUBSET Tasks] /\ released' \in [Managers -> BOOLEAN]
  BY DEF Teardown, TypeOK
<1>. QED
  BY <1>1, <1>2, <1>3

\* The three ways to tear managers down only touch built ones.
LEMMA TornDownOnes ==
  ASSUME TypeOK, WellFormed
  PROVE  /\ \A m \in Managers : ReleaseIdle(m) => TornDownBy({m})
         /\ \A m \in Managers : DrainFinalize(m) => TornDownBy({m})
         /\ TornDownBy({m \in Managers : Built(m) /\ instances[key[m]] = m})
BY DEF ReleaseIdle, DrainFinalize, Snapshotted, WellFormed, TornDownBy

LEMMA NextTypeOK ==
  ASSUME TypeOK, WellFormed, CoordinationCounted, [Next]_vars
  PROVE  TypeOK'
<1>1. ASSUME NEW k \in Keys, ShareInstance(k)
      PROVE  TypeOK'
  BY <1>1 DEF ShareInstance, TypeOK, registryVars, lockVars, taskVars
<1>2. ASSUME NEW k \in Keys, NEW m \in Managers, BuildInstance(k, m)
      PROVE  TypeOK'
  BY <1>2 DEF BuildInstance, TypeOK, lockVars, taskVars
<1>3. ASSUME ClearInstances
      PROVE  TypeOK'
  <2>. DEFINE M == {m \in Managers : Built(m) /\ instances[key[m]] = m}
  <2>1. TornDownBy(M) /\ Teardown(M)
    BY <1>3, TornDownOnes DEF ClearInstances
  <2>2. cleared' \subseteq Managers
    BY <1>3 DEF ClearInstances, TypeOK
  <2>3. refCount' \in [Managers -> Nat]
    BY <1>3 DEF ClearInstances, TypeOK
  <2>. QED
    BY <1>3, <2>1, <2>2, <2>3, TeardownTypes DEF ClearInstances, TypeOK, taskVars
<1>4. ASSUME NEW m \in Managers, ReleaseShared(m)
      PROVE  TypeOK'
  BY <1>4 DEF ReleaseShared, TypeOK, registryVars, lockVars, taskVars
<1>5. ASSUME NEW m \in Managers, ReleaseIdle(m)
      PROVE  TypeOK'
  <2>1. TornDownBy({m}) /\ Teardown({m})
    BY <1>5, TornDownOnes DEF ReleaseIdle, FinalizeRelease
  <2>. QED
    BY <1>5, <2>1, TeardownTypes
       DEF ReleaseIdle, FinalizeRelease, TypeOK, taskVars
<1>6. ASSUME NEW m \in Managers, ReleaseBusy(m)
      PROVE  TypeOK'
  BY <1>6 DEF ReleaseBusy, TypeOK, DrainStates, registryVars, lockVars, taskVars
<1>7. ASSUME NEW m \in Managers, DrainAgain(m)
      PROVE  TypeOK'
  BY <1>7 DEF DrainAgain, TypeOK, registryVars, lockVars, taskVars
<1>8. ASSUME NEW m \in Managers, DrainFinalize(m)
      PROVE  TypeOK'
  <2>1. TornDownBy({m}) /\ Teardown({m})
    BY <1>8, TornDownOnes DEF DrainFinalize, FinalizeRelease
  <2>. QED
    BY <1>8, <2>1, TeardownTypes
       DEF DrainFinalize, FinalizeRelease, TypeOK, DrainStates, taskVars
<1>9. ASSUME NEW m \in Managers, DrainCancelled(m)
      PROVE  TypeOK'
  BY <1>9 DEF DrainCancelled, TypeOK, DrainStates, registryVars, lockVars, taskVars
<1>10. ASSUME NEW m \in Managers, ForgetDrain(m)
       PROVE  TypeOK'
  BY <1>10 DEF ForgetDrain, TypeOK, DrainStates, registryVars, lockVars, taskVars
<1>11. ASSUME NEW t \in Tasks, NEW m \in Managers, NEW s \in Signers,
              WithBroadcastLock(t, m, s)
       PROVE  TypeOK'
  <2>1. coord[m] \in Coords
    BY <1>11 DEF WithBroadcastLock, Active, WellFormed
  <2>. QED
    BY <1>11, <2>1
       DEF WithBroadcastLock, TypeOK, Phases, Live, registryVars, holderVars
<1>12. ASSUME NEW t \in Tasks,
              StartBody(t) \/ AcquireClient(t) \/ FailBody(t) \/ SettleBody(t)
       PROVE  TypeOK'
  BY <1>12, ZenonT(60) DEF StartBody, AcquireClient, FailBody, SettleBody, TaskStep,
               TypeOK, Phases, Live, registryVars, holderVars, lockVars
<1>13. ASSUME NEW t \in Tasks, CleanUp(t)
       PROVE  TypeOK'
  BY <1>13, NoneAssumption
     DEF CleanUp, TypeOK, WellFormed, Phases, Live, registryVars, holderVars
<1>14. CASE UNCHANGED vars
  BY <1>14 DEF TypeOK, vars, registryVars, holderVars, lockVars, taskVars
<1>. QED
  BY <1>1, <1>2, <1>3, <1>4, <1>5, <1>6, <1>7, <1>8, <1>9, <1>10, <1>11,
     <1>12, <1>13, <1>14
     DEF Next, Acquire, Release, DrainStep, Submit, BodyStep

-----------------------------------------------------------------------------
(* Steps that concern only part of the state.                              *)

\* Steps that leave the registry, the coordination and who is released alone.
RegistryFrame == UNCHANGED <<registryVars, released>>

\* Steps that move no broadcast.
TaskFrame == UNCHANGED taskVars

\* Every step is of one of seven kinds.
LEMMA StepKinds ==
  ASSUME [Next]_vars
  PROVE  \/ RegistryFrame /\ TaskFrame /\ UNCHANGED lockVars /\
              (\/ UNCHANGED vars
               \/ \E k \in Keys : ShareInstance(k)
               \/ \E m \in Managers : \/ ReleaseShared(m) \/ ReleaseBusy(m)
                                      \/ DrainAgain(m) \/ DrainCancelled(m)
                                      \/ ForgetDrain(m))
         \/ \E k \in Keys, m \in Managers : BuildInstance(k, m)
         \/ ClearInstances
         \/ \E m \in Managers : ReleaseIdle(m) \/ DrainFinalize(m)
         \/ \E t \in Tasks, m \in Managers, s \in Signers : WithBroadcastLock(t, m, s)
         \/ \E t \in Tasks : StartBody(t) \/ AcquireClient(t) \/ FailBody(t) \/ SettleBody(t)
         \/ \E t \in Tasks : CleanUp(t)
<1>1. ASSUME NEW k \in Keys, ShareInstance(k)
      PROVE  RegistryFrame /\ TaskFrame /\ UNCHANGED lockVars
  BY <1>1 DEF ShareInstance, RegistryFrame, TaskFrame
<1>2. ASSUME NEW m \in Managers,
             \/ ReleaseShared(m) \/ ReleaseBusy(m)
             \/ DrainAgain(m) \/ DrainCancelled(m) \/ ForgetDrain(m)
      PROVE  RegistryFrame /\ TaskFrame /\ UNCHANGED lockVars
  BY <1>2 DEF ReleaseShared, ReleaseBusy, DrainAgain, DrainCancelled,
              ForgetDrain, RegistryFrame, TaskFrame
<1>3. CASE UNCHANGED vars
  BY <1>3 DEF vars, holderVars, RegistryFrame, TaskFrame
<1>. QED
  BY <1>1, <1>2, <1>3 DEF Next, Acquire, Release, DrainStep, Submit, BodyStep

LEMMA NextWellFormed ==
  ASSUME IInv, TypeOK', [Next]_vars
  PROVE  WellFormed'
<1>. USE DEF IInv, TypeOK, WellFormed, Built
<1>1. CASE RegistryFrame /\ TaskFrame /\ UNCHANGED vars
  BY <1>1 DEF vars, registryVars, holderVars, lockVars, taskVars
<1>2. ASSUME NEW k \in Keys, ShareInstance(k)
      PROVE  WellFormed'
  <2>1. Built(instances[k])
    BY <1>2, NoneAssumption DEF ShareInstance, Registered
  <2>. QED
    BY <1>2, <2>1 DEF ShareInstance, registryVars, taskVars
<1>3. ASSUME NEW m \in Managers,
             \/ ReleaseShared(m) \/ ReleaseBusy(m)
             \/ DrainAgain(m) \/ DrainCancelled(m) \/ ForgetDrain(m)
      PROVE  WellFormed'
  <2>1. Built(m)
    BY <1>3 DEF ReleaseShared, ReleaseBusy, DrainAgain, DrainCancelled,
                ForgetDrain, Snapshotted
  <2>. QED
    BY <1>3, <2>1 DEF ReleaseShared, ReleaseBusy, DrainAgain, DrainCancelled,
                      ForgetDrain, registryVars, taskVars
<1>4. ASSUME NEW k \in Keys, NEW m \in Managers, BuildInstance(k, m)
      PROVE  WellFormed'
  <2>1. key' = [key EXCEPT ![m] = k] /\ k # None
    BY <1>4, NoneAssumption DEF BuildInstance
  <2>2. coord'[m] \in Coords
    BY <1>4 DEF BuildInstance
  <2>. QED
    BY <1>4, <2>1, <2>2 DEF BuildInstance, taskVars
<1>5. CASE ClearInstances
  BY <1>5 DEF ClearInstances, Teardown, taskVars
<1>6. ASSUME NEW m \in Managers, ReleaseIdle(m) \/ DrainFinalize(m)
      PROVE  WellFormed'
  <2>1. Built(m)
    BY <1>6, TornDownOnes DEF TornDownBy
  <2>. QED
    BY <1>6, <2>1 DEF ReleaseIdle, DrainFinalize, FinalizeRelease, Teardown, taskVars
<1>7. ASSUME NEW t \in Tasks, NEW m \in Managers, NEW s \in Signers,
             WithBroadcastLock(t, m, s)
      PROVE  WellFormed'
  BY <1>7 DEF WithBroadcastLock, Active, registryVars, holderVars
<1>8. ASSUME NEW t \in Tasks,
             \/ StartBody(t) \/ AcquireClient(t) \/ FailBody(t) \/ SettleBody(t)
             \/ CleanUp(t)
      PROVE  WellFormed'
  <2>1. /\ \A u \in Tasks : phase'[u] # "new" => phase[u] # "new"
        /\ UNCHANGED <<registryVars, holderVars, owner, signer, clock, born>>
    BY <1>8 DEF StartBody, AcquireClient, FailBody, SettleBody, CleanUp, TaskStep
  <2>. QED
    BY <2>1 DEF registryVars, holderVars
<1>. QED
  BY <1>1, <1>2, <1>3, <1>4, <1>5, <1>6, <1>7, <1>8, StepKinds

-----------------------------------------------------------------------------
(* The registry and the coordination's count.                              *)

LEMMA NextRegistered ==
  ASSUME IInv, TypeOK', [Next]_vars
  PROVE  Registered'
<1>. USE DEF IInv, TypeOK, Registered, LiveIffRegistered, Built
<1>1. CASE RegistryFrame
  BY <1>1 DEF RegistryFrame, registryVars
<1>2. ASSUME NEW k \in Keys, NEW m \in Managers, BuildInstance(k, m)
      PROVE  Registered'
  BY <1>2, NoneAssumption DEF BuildInstance, WellFormed
<1>3. CASE ClearInstances
  <2>1. /\ instances' = [k \in Keys |-> None]
        /\ key' = key
        /\ \A m \in Managers :
             released'[m] <=> released[m] \/ (Built(m) /\ instances[key[m]] = m)
    BY <1>3 DEF ClearInstances, Teardown
  <2>2. \A k \in Keys : instances'[k] = None
    BY <2>1
  <2>3. ASSUME NEW m \in Managers, Built(m)'
        PROVE  released'[m] /\ instances'[key'[m]] # m
    <3>1. Built(m) /\ key'[m] \in Keys
      BY <2>1, <2>3
    <3>2. instances'[key'[m]] # m
      BY <2>2, <3>1, NoneAssumption
    <3>3. released[m] \/ instances[key[m]] = m
      BY <3>1
    <3>. QED
      BY <2>1, <3>1, <3>2, <3>3
  <2>. QED
    BY <2>2, <2>3
<1>4. ASSUME NEW m \in Managers, ReleaseIdle(m) \/ DrainFinalize(m)
      PROVE  Registered'
  <2>1. Built(m)
    BY <1>4, TornDownOnes DEF TornDownBy
  <2>2. /\ instances' = [k \in Keys |-> IF k = key[m] /\ instances[k] = m
                                        THEN None ELSE instances[k]]
        /\ released' = [n \in Managers |-> released[n] \/ n = m]
        /\ UNCHANGED key
    BY <1>4 DEF ReleaseIdle, DrainFinalize, FinalizeRelease, Teardown
  <2>3. ASSUME NEW k \in Keys, instances'[k] # None
        PROVE  key'[instances'[k]] = k
    <3>1. instances'[k] = instances[k]
      BY <2>2, <2>3
    <3>. QED
      BY <2>2, <2>3, <3>1
  <2>4. ASSUME NEW n \in Managers, Built(n)'
        PROVE  ~released'[n] <=> instances'[key'[n]] = n
    <3>1. Built(n) /\ key'[n] = key[n] /\ key[n] \in Keys
      BY <2>2, <2>4
    <3>2. instances'[key[n]] = IF key[n] = key[m] /\ instances[key[n]] = m
                               THEN None ELSE instances[key[n]]
      BY <2>2, <3>1
    <3>3. ~released[n] <=> instances[key[n]] = n
      BY <3>1
    <3>4. released'[n] <=> released[n] \/ n = m
      BY <2>2
    <3>5. n # None
      BY NoneAssumption
    <3>. QED
      BY <3>1, <3>2, <3>3, <3>4, <3>5
  <2>. QED
    BY <2>3, <2>4
<1>5. ASSUME NEW t \in Tasks, NEW m \in Managers, NEW s \in Signers,
             WithBroadcastLock(t, m, s)
      PROVE  RegistryFrame
  BY <1>5 DEF WithBroadcastLock, RegistryFrame, holderVars
<1>6. ASSUME NEW t \in Tasks,
             \/ StartBody(t) \/ AcquireClient(t) \/ FailBody(t) \/ SettleBody(t)
             \/ CleanUp(t)
      PROVE  RegistryFrame
  BY <1>6 DEF StartBody, AcquireClient, FailBody, SettleBody, CleanUp, TaskStep,
              RegistryFrame, holderVars
<1>. QED
  BY <1>1, <1>2, <1>3, <1>4, <1>5, <1>6, StepKinds

\* After a teardown of M, the live managers are those of before without M.
LEMMA TeardownLive ==
  ASSUME IInv, NEW M, TornDownBy(M), Teardown(M), UNCHANGED <<key, coord>>,
         NEW c \in Coords
  PROVE  /\ LiveManagers(c)' = LiveManagers(c) \ Leaving(M, c)
         /\ managers'[c] = Cardinality(LiveManagers(c)')
         /\ Emptied(M, c) => LiveManagers(c)' = {}
         /\ LiveManagers(c) # {} /\ LiveManagers(c)' = {} => Emptied(M, c)
<1>1. LiveManagers(c)' = LiveManagers(c) \ Leaving(M, c)
  BY DEF LiveManagers, Leaving, Active, Built, Teardown, TornDownBy, IInv, TypeOK
<1>2. managers'[c] = managers[c] - Cardinality(Leaving(M, c))
  BY DEF Teardown
<1>. QED
  BY <1>1, <1>2, LeavingCount DEF TornDownBy, IInv

\* A new manager joins a coordination object c, which is either the one the
\* live managers share or one that no manager ever had.
LEMMA BuildLive ==
  ASSUME IInv, NEW k \in Keys, NEW m \in Managers, BuildInstance(k, m)
  PROVE  \E c \in Coords :
           /\ \/ c = chainCoordination /\ LiveManagers(c) # {}
              \/ chainCoordination = None /\ \A n \in Managers : coord[n] # c
           /\ chainCoordination' = c
           /\ coord' = [coord EXCEPT ![m] = c]
           /\ managers' = [managers EXCEPT ![c] = @ + 1]
           /\ Active(m)' /\ \A n \in Managers \ {m} : Active(n)' <=> Active(n)
           /\ LiveManagers(c)' = LiveManagers(c) \cup {m}
           /\ m \notin LiveManagers(c)
           /\ \A d \in Coords \ {c} : LiveManagers(d)' = LiveManagers(d)
<1>1. PICK c \in Coords :
        /\ \/ c = chainCoordination
           \/ chainCoordination = None /\ \A n \in Managers : coord[n] # c
        /\ chainCoordination' = c
        /\ coord' = [coord EXCEPT ![m] = c]
        /\ managers' = [managers EXCEPT ![c] = @ + 1]
  BY DEF BuildInstance
<1>2. ~Built(m) /\ coord[m] = None /\ ~released[m] /\ c # None
  BY NoneAssumption DEF BuildInstance, IInv, WellFormed
<1>3. Active(m)' /\ \A n \in Managers \ {m} : Active(n)' <=> Active(n)
  BY <1>2, NoneAssumption DEF BuildInstance, Active, Built, IInv, TypeOK
<1>4. /\ LiveManagers(c)' = LiveManagers(c) \cup {m}
      /\ m \notin LiveManagers(c)
      /\ \A d \in Coords \ {c} : LiveManagers(d)' = LiveManagers(d)
  <2>1. coord'[m] = c /\ \A n \in Managers \ {m} : coord'[n] = coord[n]
    BY <1>1 DEF IInv, TypeOK
  <2>2. \A d \in Coords : m \notin LiveManagers(d)
    BY <1>2 DEF LiveManagers, Active
  <2>3. \A d \in Coords, n \in Managers :
          n \in LiveManagers(d)' <=> n \in LiveManagers(d) \/ (n = m /\ d = c)
    BY <1>3, <2>1, <2>2 DEF LiveManagers
  <2>4. \A d \in Coords : /\ LiveManagers(d) \subseteq Managers
                          /\ LiveManagers(d)' \subseteq Managers
    BY DEF LiveManagers
  <2>. QED
    BY <2>2, <2>3, <2>4
<1>5. c = chainCoordination => LiveManagers(c) # {}
  <2>1. c = chainCoordination => Cardinality(LiveManagers(c)) > 0
    BY <1>2 DEF IInv, CoordinationCounted
  <2>. QED
    BY <2>1, FS_EmptySet
<1>. QED
  BY <1>1, <1>3, <1>4, <1>5

LEMMA NextCounted ==
  ASSUME IInv, TypeOK', [Next]_vars
  PROVE  CoordinationCounted'
<1>1. CASE RegistryFrame
  <2>1. \A c \in Coords : LiveManagers(c)' = LiveManagers(c)
    BY <1>1 DEF RegistryFrame, registryVars, LiveManagers, Active, Built
  <2>2. \A m \in Managers : Active(m)' <=> Active(m)
    BY <1>1 DEF RegistryFrame, registryVars, Active, Built
  <2>. QED
    BY <1>1, <2>1, <2>2 DEF RegistryFrame, registryVars, IInv, CoordinationCounted
<1>2. ASSUME NEW k \in Keys, NEW m \in Managers, BuildInstance(k, m)
      PROVE  CoordinationCounted'
  <2>1. PICK c \in Coords :
          /\ c = chainCoordination \/ chainCoordination = None
          /\ chainCoordination' = c
          /\ coord' = [coord EXCEPT ![m] = c]
          /\ managers' = [managers EXCEPT ![c] = @ + 1]
          /\ Active(m)' /\ \A n \in Managers \ {m} : Active(n)' <=> Active(n)
          /\ LiveManagers(c)' = LiveManagers(c) \cup {m}
          /\ m \notin LiveManagers(c)
          /\ \A d \in Coords \ {c} : LiveManagers(d)' = LiveManagers(d)
    BY <1>2, BuildLive
  <2>2. Cardinality(LiveManagers(c)') = Cardinality(LiveManagers(c)) + 1
    <3>1. IsFiniteSet(LiveManagers(c))
      BY ManagersFinite, FS_Subset DEF LiveManagers
    <3>. QED
      BY <2>1, <3>1, FS_AddElement
  <2>3. \A d \in Coords : managers'[d] = Cardinality(LiveManagers(d)')
    <3>1. /\ managers'[c] = managers[c] + 1
          /\ \A d \in Coords \ {c} : managers'[d] = managers[d]
      BY <2>1 DEF IInv, TypeOK
    <3>2. \A d \in Coords : managers[d] = Cardinality(LiveManagers(d))
      BY DEF IInv, CoordinationCounted
    <3>3. \A d \in Coords \ {c} : Cardinality(LiveManagers(d)') = Cardinality(LiveManagers(d))
      BY <2>1
    <3>. QED
      BY <2>2, <3>1, <3>2, <3>3
  <2>4. managers'[c] > 0
    BY <2>1 DEF IInv, TypeOK
  <2>5. ASSUME NEW n \in Managers, Active(n)'
        PROVE  coord'[n] = c
    <3>1. CASE n = m
      BY <2>1, <3>1 DEF IInv, TypeOK
    <3>2. CASE n # m
      <4>1. Active(n) /\ coord'[n] = coord[n]
        BY <2>1, <2>5, <3>2 DEF IInv, TypeOK
      <4>2. coord[n] = chainCoordination /\ coord[n] # None
        BY <4>1, NoneAssumption
           DEF IInv, CoordinationCounted, WellFormed, Active
      <4>. QED
        BY <2>1, <4>1, <4>2
    <3>. QED
      BY <3>1, <3>2
  <2>. QED
    BY <2>1, <2>3, <2>4, <2>5 DEF CoordinationCounted
<1>3. CASE ClearInstances
  <2>. DEFINE M == {m \in Managers : Built(m) /\ instances[key[m]] = m}
  <2>1. TornDownBy(M) /\ Teardown(M) /\ UNCHANGED <<key, coord>>
    BY <1>3, TornDownOnes DEF ClearInstances, IInv
  <2>2. \A c \in Coords : managers'[c] = Cardinality(LiveManagers(c)')
    BY <2>1, TeardownLive
  <2>3. \A m \in Managers : ~Active(m)'
    BY <2>1, <1>3
       DEF Teardown, Active, Built, IInv, Registered, LiveIffRegistered, TypeOK
  <2>4. chainCoordination' = None
    BY <1>3 DEF ClearInstances
  <2>. QED
    BY <2>2, <2>3, <2>4 DEF CoordinationCounted
<1>4. ASSUME NEW m \in Managers, ReleaseIdle(m) \/ DrainFinalize(m)
      PROVE  CoordinationCounted'
  <2>1. /\ TornDownBy({m}) /\ Teardown({m}) /\ UNCHANGED <<key, coord>>
        /\ Built(m)
    BY <1>4, TornDownOnes
       DEF ReleaseIdle, DrainFinalize, FinalizeRelease, IInv, TornDownBy
  <2>2. \A c \in Coords : managers'[c] = Cardinality(LiveManagers(c)')
    BY <2>1, TeardownLive
  <2>3. chainCoordination' =
          IF chainCoordination # None /\ coord[m] = chainCoordination
               /\ Emptied({m}, coord[m])
          THEN None ELSE chainCoordination
    BY <1>4 DEF ReleaseIdle, DrainFinalize, FinalizeRelease
  <2>4. ASSUME NEW n \in Managers, Active(n)'
        PROVE  coord'[n] = chainCoordination'
    <3>1. Active(n) /\ coord'[n] = coord[n] /\ coord[n] \in Coords
      BY <2>1, <2>4 DEF Teardown, Active, Built, IInv, TypeOK, WellFormed
    <3>2. coord[n] = chainCoordination
      BY <3>1 DEF IInv, CoordinationCounted
    <3>3. n \in LiveManagers(coord[n])'
      BY <2>4, <3>1 DEF LiveManagers
    <3>4. ~Emptied({m}, coord[n])
      BY <2>1, <3>1, <3>3, TeardownLive
    <3>. QED
      BY <2>3, <3>1, <3>2, <3>4
  <2>5. ASSUME chainCoordination' # None
        PROVE  managers'[chainCoordination'] > 0
    <3>1. /\ chainCoordination' = chainCoordination
          /\ chainCoordination \in Coords
          /\ coord[m] = chainCoordination => ~Emptied({m}, chainCoordination)
      BY <2>3, <2>5 DEF IInv, TypeOK
    <3>. DEFINE c == chainCoordination
    <3>2. managers[c] > 0 /\ managers[c] \in Nat
      BY <2>5, <3>1 DEF IInv, CoordinationCounted, TypeOK
    <3>3. managers'[c] = managers[c] - Cardinality(Leaving({m}, c))
      BY <2>1, <3>1 DEF Teardown
    <3>4. CASE Leaving({m}, c) = {}
      <4>1. Cardinality(Leaving({m}, c)) = 0
        BY <3>4, FS_EmptySet
      <4>2. managers'[c] = managers[c]
        BY <3>2, <3>3, <4>1
      <4>. QED
        BY <3>1, <3>2, <4>2
    <3>5. CASE Leaving({m}, c) # {}
      <4>1. coord[m] = c
        BY <3>5 DEF Leaving
      <4>2. managers[c] # Cardinality(Leaving({m}, c))
        BY <3>1, <3>5, <4>1 DEF Emptied
      <4>3. managers[c] - Cardinality(Leaving({m}, c)) \in Nat
        BY <2>1, <3>1, LeavingCount DEF TornDownBy, IInv
      <4>4. Cardinality(Leaving({m}, c)) \in Nat
        BY <2>1, <3>1, LeavingCount, FS_Subset, FS_CardinalityType DEF TornDownBy, IInv
      <4>. QED
        BY <3>1, <3>2, <3>3, <4>2, <4>3, <4>4
    <3>. QED
      BY <3>4, <3>5
  <2>. QED
    BY <2>2, <2>4, <2>5 DEF CoordinationCounted
<1>5. ASSUME NEW t \in Tasks, NEW m \in Managers, NEW s \in Signers,
             WithBroadcastLock(t, m, s)
      PROVE  RegistryFrame
  BY <1>5 DEF WithBroadcastLock, RegistryFrame, holderVars
<1>6. ASSUME NEW t \in Tasks,
             \/ StartBody(t) \/ AcquireClient(t) \/ FailBody(t) \/ SettleBody(t)
             \/ CleanUp(t)
      PROVE  RegistryFrame
  BY <1>6 DEF StartBody, AcquireClient, FailBody, SettleBody, CleanUp, TaskStep,
              RegistryFrame, holderVars
<1>. QED
  BY <1>1, <1>2, <1>3, <1>4, <1>5, <1>6, StepKinds

-----------------------------------------------------------------------------
(* The broadcasts: what a step can do to one, and to the order of a line.  *)

\* A broadcast that was submitted keeps its lock, owner and place in the order.
LEMMA TaskKept ==
  ASSUME IInv, [Next]_vars, NEW t \in Tasks, phase[t] # "new"
  PROVE  /\ phase'[t] # "new"
         /\ LockOf(t)' = LockOf(t)
         /\ owner'[t] = owner[t]
         /\ born'[t] = born[t]
         /\ prev'[t] = prev[t]
         /\ phase[t] = "done" => phase'[t] = "done"
<1>. USE DEF IInv, TypeOK, LockOf
<1>1. CASE TaskFrame /\ UNCHANGED coord
  BY <1>1 DEF TaskFrame, taskVars
<1>2. ASSUME NEW k \in Keys, NEW m \in Managers, BuildInstance(k, m)
      PROVE  TaskFrame /\ coord'[owner[t]] = coord[owner[t]]
  <2>1. PICK c \in Coords : coord' = [coord EXCEPT ![m] = c]
    BY <1>2 DEF BuildInstance
  <2>2. ~Built(m) /\ Built(owner[t]) /\ owner[t] \in Managers
    BY <1>2 DEF BuildInstance, WellFormed
  <2>. QED
    BY <1>2, <2>1, <2>2 DEF BuildInstance, TaskFrame
<1>3. ASSUME ClearInstances \/ \E m \in Managers : ReleaseIdle(m) \/ DrainFinalize(m)
      PROVE  TaskFrame /\ UNCHANGED coord
  BY <1>3 DEF ClearInstances, ReleaseIdle, DrainFinalize, TaskFrame
<1>4. ASSUME NEW u \in Tasks, NEW m \in Managers, NEW s \in Signers,
             WithBroadcastLock(u, m, s)
      PROVE  t # u /\ UNCHANGED coord
  BY <1>4 DEF WithBroadcastLock, registryVars
<1>5. ASSUME NEW u \in Tasks,
             \/ StartBody(u) \/ AcquireClient(u) \/ FailBody(u) \/ SettleBody(u)
             \/ CleanUp(u)
      PROVE  UNCHANGED <<coord, owner, signer, prev, born>> /\ (phase[t] = "done" => t # u)
  BY <1>5 DEF StartBody, AcquireClient, FailBody, SettleBody, CleanUp, TaskStep, registryVars
<1>6. ASSUME NEW u \in Tasks, NEW m \in Managers, NEW s \in Signers,
             WithBroadcastLock(u, m, s)
      PROVE  /\ phase'[t] = phase[t] /\ owner'[t] = owner[t] /\ signer'[t] = signer[t]
             /\ born'[t] = born[t] /\ prev'[t] = prev[t]
  BY <1>4, <1>6 DEF WithBroadcastLock
<1>7. ASSUME NEW u \in Tasks,
             \/ StartBody(u) \/ AcquireClient(u) \/ FailBody(u) \/ SettleBody(u)
             \/ CleanUp(u)
      PROVE  phase'[t] # "new" /\ (t # u => phase'[t] = phase[t])
  BY <1>7 DEF StartBody, AcquireClient, FailBody, SettleBody, CleanUp, TaskStep
<1>8. CASE RegistryFrame /\ TaskFrame
  BY <1>1, <1>8 DEF RegistryFrame, registryVars
<1>9. CASE \E k \in Keys, m \in Managers : BuildInstance(k, m)
  BY <1>2, <1>9 DEF TaskFrame, taskVars
<1>10. CASE ClearInstances \/ \E m \in Managers : ReleaseIdle(m) \/ DrainFinalize(m)
  BY <1>1, <1>3, <1>10
<1>11. CASE \E u \in Tasks, m \in Managers, s \in Signers : WithBroadcastLock(u, m, s)
  BY <1>4, <1>6, <1>11
<1>12. CASE \E u \in Tasks : \/ StartBody(u) \/ AcquireClient(u) \/ FailBody(u)
                            \/ SettleBody(u) \/ CleanUp(u)
  BY <1>5, <1>7, <1>12
<1>. QED
  BY <1>8, <1>9, <1>10, <1>11, <1>12, StepKinds

\* Only withBroadcastLock submits a broadcast, and only the reaction on its
\* predecessor starts one.
LEMMA PhaseSteps ==
  ASSUME IInv, [Next]_vars, NEW t \in Tasks
  PROVE  /\ phase[t] = "new" /\ phase'[t] # "new" =>
              \E m \in Managers, s \in Signers : WithBroadcastLock(t, m, s)
         /\ phase[t] = "queued" /\ phase'[t] # "queued" => StartBody(t)
         /\ phase'[t] = "queued" => phase[t] \in {"new", "queued"}
<1>. USE DEF IInv, TypeOK
<1>1. CASE TaskFrame
  BY <1>1 DEF TaskFrame, taskVars
<1>2. ASSUME NEW k \in Keys, NEW m \in Managers, BuildInstance(k, m)
      PROVE  TaskFrame
  BY <1>2 DEF BuildInstance, TaskFrame
<1>3. ASSUME ClearInstances \/ \E m \in Managers : ReleaseIdle(m) \/ DrainFinalize(m)
      PROVE  TaskFrame
  BY <1>3 DEF ClearInstances, ReleaseIdle, DrainFinalize, TaskFrame
<1>4. ASSUME NEW u \in Tasks, NEW m \in Managers, NEW s \in Signers,
             WithBroadcastLock(u, m, s)
      PROVE  phase[u] = "new" /\ (t # u => phase'[t] = phase[t])
  BY <1>4 DEF WithBroadcastLock
<1>5. ASSUME NEW u \in Tasks,
             AcquireClient(u) \/ FailBody(u) \/ SettleBody(u) \/ CleanUp(u)
      PROVE  /\ phase[u] \notin {"new", "queued"} /\ phase'[u] # "queued"
             /\ t # u => phase'[t] = phase[t]
  BY <1>5 DEF AcquireClient, FailBody, SettleBody, CleanUp, TaskStep
<1>6. ASSUME NEW u \in Tasks, StartBody(u)
      PROVE  /\ phase[u] = "queued" /\ phase'[u] # "queued"
             /\ t # u => phase'[t] = phase[t]
  BY <1>6 DEF StartBody, TaskStep
<1>. QED
  BY <1>1, <1>2, <1>3, <1>4, <1>5, <1>6, StepKinds

\* A newcomer is never before a broadcast that was there, and the others keep
\* their order.
LEMMA BeforeKept ==
  ASSUME IInv, [Next]_vars, NEW t \in Tasks, NEW u \in Tasks, phase[u] # "new"
  PROVE  Before(t, u)' <=> Before(t, u)
<1>1. CASE phase[t] # "new"
  BY <1>1, TaskKept DEF Before
<1>2. CASE phase[t] = "new" /\ phase'[t] = "new"
  BY <1>2 DEF Before
<1>3. CASE phase[t] = "new" /\ phase'[t] # "new"
  <2>1. PICK m \in Managers, s \in Signers : WithBroadcastLock(t, m, s)
    BY <1>3, PhaseSteps
  <2>2. born'[t] = clock /\ born'[u] = born[u] /\ born[u] < clock /\ clock \in Nat
        /\ born[u] \in Nat
    BY <2>1, TaskKept DEF WithBroadcastLock, IInv, TypeOK, WellFormed
  <2>. QED
    BY <1>3, <2>2 DEF Before
<1>. QED
  BY <1>1, <1>2, <1>3

LEMMA NextFifo ==
  ASSUME IInv, TypeOK', [Next]_vars
  PROVE  Fifo'
<1>1. SUFFICES ASSUME NEW t \in Tasks, NEW u \in Tasks,
                      Before(t, u)', phase'[u] # "queued"
               PROVE  phase'[t] = "done"
  BY DEF Fifo
<1>2. phase[u] # "new"
  <2>1. CASE phase[u] = "new"
    <3>1. \E m \in Managers, s \in Signers : WithBroadcastLock(u, m, s)
      BY <1>1, <2>1, PhaseSteps DEF Before
    <3>. QED
      BY <1>1, <3>1 DEF WithBroadcastLock, IInv, TypeOK
  <2>. QED
    BY <2>1
<1>3. Before(t, u)
  BY <1>1, <1>2, BeforeKept
<1>4. phase[t] = "done"
  <2>1. CASE phase[u] # "queued"
    BY <1>3, <2>1 DEF IInv, Fifo
  <2>2. CASE phase[u] = "queued"
    <3>1. prev[u] # None => phase[prev[u]] = "done"
      BY <1>1, <2>2, PhaseSteps DEF StartBody
    <3>2. prev[u] = None => phase[t] = "done"
      BY <1>3, <2>2 DEF IInv, Chained
    <3>3. ASSUME prev[u] # None
          PROVE  phase[t] = "done"
      <4>1. prev[u] \in Tasks /\ (t = prev[u] \/ Before(t, prev[u]))
        BY <1>3, <2>2, <3>3 DEF IInv, Chained, TypeOK
      <4>. QED
        BY <3>1, <3>3, <4>1 DEF IInv, Fifo
    <3>. QED
      BY <3>2, <3>3
  <2>. QED
    BY <2>1, <2>2
<1>. QED
  BY <1>3, <1>4, TaskKept DEF Before

\* What a newcomer finds: the tail it chains on is the last of its line, and
\* with no tail its line has drained.
LEMMA SubmitFinds ==
  ASSUME IInv, NEW u \in Tasks, NEW m \in Managers, NEW s \in Signers,
         WithBroadcastLock(u, m, s)
  PROVE  LET tail == broadcastLocks[coord[m]][s]
             InLine(t) == phase[t] # "new" /\ LockOf(t) = <<coord[m], s>>
         IN /\ tail = None => \A t \in Tasks : InLine(t) => phase[t] = "done"
            /\ tail # None =>
                 /\ tail \in Tasks
                 /\ InLine(tail)
                 /\ \A t \in Tasks : InLine(t) => t = tail \/ Before(t, tail)
<1>. DEFINE tail == broadcastLocks[coord[m]][s]
            InLine(t) == phase[t] # "new" /\ LockOf(t) = <<coord[m], s>>
<1>1. coord[m] \in Coords /\ m \in LiveManagers(coord[m])
  BY DEF WithBroadcastLock, IInv, WellFormed, Active, LiveManagers
<1>2. tail = None => \A t \in Tasks : InLine(t) => phase[t] = "done"
  BY <1>1 DEF IInv, Tails
<1>3. ASSUME tail # None
      PROVE  /\ tail \in Tasks
             /\ InLine(tail)
             /\ \A t \in Tasks : InLine(t) => t = tail \/ Before(t, tail)
  <2>1. tail \in Tasks
    BY <1>1, <1>3 DEF IInv, TypeOK
  <2>2. InLine(tail) /\ \A t \in Tasks : ~Before(tail, t)
    BY <1>1, <1>3 DEF IInv, Tails, Live
  <2>3. ASSUME NEW t \in Tasks, InLine(t), t # tail
        PROVE  Before(t, tail)
    <3>1. born[t] # born[tail] /\ born[t] \in Nat /\ born[tail] \in Nat
      BY <2>1, <2>2, <2>3 DEF IInv, WellFormed, TypeOK
    <3>2. ~(born[tail] < born[t])
      BY <2>2, <2>3 DEF Before
    <3>. QED
      BY <2>2, <2>3, <3>1, <3>2 DEF Before
  <2>. QED
    BY <2>1, <2>2, <2>3
<1>. QED
  BY <1>2, <1>3

\* A newcomer's own record.
LEMMA SubmitSets ==
  ASSUME IInv, NEW u \in Tasks, NEW m \in Managers, NEW s \in Signers,
         WithBroadcastLock(u, m, s)
  PROVE  /\ phase'[u] = "queued" /\ owner'[u] = m /\ born'[u] = clock
         /\ LockOf(u)' = <<coord[m], s>>
         /\ prev'[u] = broadcastLocks[coord[m]][s]
         /\ coord[m] \in Coords
BY DEF WithBroadcastLock, IInv, TypeOK, WellFormed, Active, LockOf, registryVars

\* (p is the task u chains on after the step.)
LEMMA NextChained ==
  ASSUME IInv, TypeOK', [Next]_vars
  PROVE  Chained'
<1>1. ASSUME NEW u \in Tasks, phase'[u] = "queued", phase[u] = "new",
             NEW p \in Tasks \cup {None}, p = prev'[u]
      PROVE  /\ p = None => \A t \in Tasks : Before(t, u)' => phase'[t] = "done"
             /\ p # None =>
                  /\ Before(p, u)'
                  /\ \A t \in Tasks : Before(t, u)' => t = p \/ Before(t, p)'
  <2>1. PICK m \in Managers, s \in Signers : WithBroadcastLock(u, m, s)
    BY <1>1, PhaseSteps
  <2>2. PICK c \in Coords : c = coord[m]
    BY <2>1, SubmitSets
  <2>. DEFINE InLine(t) == phase[t] # "new" /\ LockOf(t) = <<c, s>>
  <2>3. /\ born'[u] = clock /\ LockOf(u)' = <<c, s>> /\ p = broadcastLocks[c][s]
        /\ clock \in Nat
    BY <1>1, <2>1, <2>2, SubmitSets DEF IInv, TypeOK
  <2>4. ASSUME NEW t \in Tasks, Before(t, u)'
        PROVE  InLine(t)
    <3>1. t # u
      BY <2>3, <2>4 DEF Before
    <3>2. phase[t] # "new"
      BY <2>1, <2>4, <3>1 DEF Before, WithBroadcastLock, IInv, TypeOK
    <3>. QED
      BY <2>3, <2>4, <3>2, TaskKept DEF Before
  <2>5. /\ p = None => \A t \in Tasks : InLine(t) => phase[t] = "done"
        /\ p # None =>
             /\ InLine(p)
             /\ \A t \in Tasks : InLine(t) => t = p \/ Before(t, p)
    BY <2>1, <2>2, <2>3, SubmitFinds
  <2>6. p = None => \A t \in Tasks : Before(t, u)' => phase'[t] = "done"
    BY <2>4, <2>5, TaskKept
  <2>7. ASSUME p # None
        PROVE  Before(p, u)'
    <3>1. born'[p] < clock /\ phase'[p] # "new" /\ LockOf(p)' = <<c, s>>
      BY <2>5, <2>7, TaskKept DEF IInv, WellFormed
    <3>. QED
      BY <1>1, <2>3, <3>1 DEF Before
  <2>8. ASSUME p # None, NEW t \in Tasks, Before(t, u)'
        PROVE  t = p \/ Before(t, p)'
    <3>1. t = p \/ Before(t, p)
      BY <2>4, <2>5, <2>8
    <3>. QED
      BY <2>5, <2>8, <3>1, BeforeKept
  <2>. QED
    BY <2>6, <2>7, <2>8
<1>2. ASSUME NEW u \in Tasks, phase'[u] = "queued", phase[u] # "new",
             NEW p \in Tasks \cup {None}, p = prev'[u]
      PROVE  /\ p = None => \A t \in Tasks : Before(t, u)' => phase'[t] = "done"
             /\ p # None =>
                  /\ Before(p, u)'
                  /\ \A t \in Tasks : Before(t, u)' => t = p \/ Before(t, p)'
  <2>1. p = prev[u] /\ phase[u] = "queued"
    BY <1>2, TaskKept, PhaseSteps
  <2>2. \A t \in Tasks : Before(t, u)' <=> Before(t, u)
    BY <1>2, BeforeKept
  <2>3. /\ p = None => \A t \in Tasks : Before(t, u) => phase[t] = "done"
        /\ p # None =>
             /\ Before(p, u)
             /\ \A t \in Tasks : Before(t, u) => t = p \/ Before(t, p)
    BY <2>1 DEF IInv, Chained
  <2>4. \A t \in Tasks : Before(t, u) /\ phase[t] = "done" => phase'[t] = "done"
    BY TaskKept DEF Before
  <2>5. ASSUME p # None, NEW t \in Tasks
        PROVE  Before(t, p)' <=> Before(t, p)
    <3>1. p \in Tasks /\ phase[p] # "new"
      BY <2>3, <2>5 DEF Before
    <3>. QED
      BY <3>1, BeforeKept
  <2>. QED
    BY <2>2, <2>3, <2>4, <2>5
<1>. QED
  <2>1. SUFFICES ASSUME NEW u \in Tasks, phase'[u] = "queued",
                        NEW p \in Tasks \cup {None}, p = prev'[u]
        PROVE  /\ p = None => \A t \in Tasks : Before(t, u)' => phase'[t] = "done"
               /\ p # None =>
                    /\ Before(p, u)'
                    /\ \A t \in Tasks : Before(t, u)' => t = p \/ Before(t, p)'
    BY DEF Chained, TypeOK
  <2>. QED
    BY <1>1, <1>2, <2>1

-----------------------------------------------------------------------------
(* The lock maps.                                                          *)

\* What Tails says of one coordination object and signer.
TailOK(c, s) ==
  LET tail == broadcastLocks[c][s] IN
  /\ tail # None =>
       /\ phase[tail] \in Live
       /\ LockOf(tail) = <<c, s>>
       /\ \A t \in Tasks : ~Before(tail, t)
  /\ tail = None /\ LiveManagers(c) # {} =>
       \A t \in Tasks :
         phase[t] # "new" /\ LockOf(t) = <<c, s>> => phase[t] = "done"

\* A step keeps TailOK of a lock whose map entry it leaves alone, if no
\* newcomer queues there, the tail does not finish, and managers do not appear.
LEMMA TailKept ==
  ASSUME IInv, [Next]_vars, NEW c \in Coords, NEW s \in Signers,
         broadcastLocks'[c][s] = broadcastLocks[c][s],
         LiveManagers(c)' # {} => LiveManagers(c) # {},
         \A t \in Tasks : phase[t] = "new" /\ phase'[t] # "new" => LockOf(t)' # <<c, s>>,
         broadcastLocks[c][s] # None => phase'[broadcastLocks[c][s]] \in Live
  PROVE  TailOK(c, s)'
<1>1. PICK tail \in Tasks \cup {None} : tail = broadcastLocks[c][s]
  BY DEF IInv, TypeOK
<1>2. /\ tail # None =>
           /\ phase[tail] \in Live
           /\ LockOf(tail) = <<c, s>>
           /\ \A t \in Tasks : ~Before(tail, t)
      /\ tail = None /\ LiveManagers(c) # {} =>
           \A t \in Tasks :
             phase[t] # "new" /\ LockOf(t) = <<c, s>> => phase[t] = "done"
  BY <1>1 DEF IInv, Tails
<1>3. ASSUME tail # None
      PROVE  /\ phase'[tail] \in Live
             /\ LockOf(tail)' = <<c, s>>
             /\ \A t \in Tasks : ~Before(tail, t)'
  <2>1. tail \in Tasks /\ phase[tail] # "new"
    BY <1>2, <1>3 DEF Live
  <2>2. phase'[tail] \in Live /\ LockOf(tail)' = <<c, s>>
    BY <1>1, <1>2, <1>3, <2>1, TaskKept
  <2>3. ASSUME NEW t \in Tasks, Before(tail, t)'
        PROVE  FALSE
    <3>1. LockOf(t)' = <<c, s>> /\ phase'[t] # "new"
      BY <2>2, <2>3 DEF Before
    <3>2. phase[t] # "new"
      BY <3>1
    <3>. QED
      BY <1>2, <1>3, <2>1, <2>3, <3>2, BeforeKept
  <2>. QED
    BY <2>2, <2>3
<1>4. ASSUME tail = None, LiveManagers(c)' # {}, NEW t \in Tasks,
             phase'[t] # "new", LockOf(t)' = <<c, s>>
      PROVE  phase'[t] = "done"
  <2>1. phase[t] # "new"
    BY <1>4
  <2>. QED
    BY <1>2, <1>4, <2>1, TaskKept
<1>. QED
  BY <1>1, <1>3, <1>4 DEF TailOK

\* The same, for a step that moves no broadcast.
LEMMA TailFrame ==
  ASSUME IInv, [Next]_vars, TaskFrame, NEW c \in Coords, NEW s \in Signers,
         broadcastLocks'[c][s] = broadcastLocks[c][s],
         LiveManagers(c)' # {} => LiveManagers(c) # {}
  PROVE  TailOK(c, s)'
<1>1. broadcastLocks[c][s] # None => phase[broadcastLocks[c][s]] \in Live
  BY DEF IInv, Tails
<1>2. UNCHANGED phase
  BY DEF TaskFrame, taskVars
<1>. QED
  BY <1>1, <1>2, TailKept

\* Tearing managers down empties the locks of an object nobody uses any more
\* and leaves the others.
LEMMA TeardownTails ==
  ASSUME IInv, [Next]_vars, NEW M, TornDownBy(M), Teardown(M),
         UNCHANGED <<key, coord>>, TaskFrame, NEW c \in Coords, NEW s \in Signers
  PROVE  TailOK(c, s)'
<1>1. /\ LiveManagers(c)' = LiveManagers(c) \ Leaving(M, c)
      /\ Emptied(M, c) => LiveManagers(c)' = {}
  BY TeardownLive
<1>2. CASE Emptied(M, c)
  <2>1. broadcastLocks'[c][s] = None /\ LiveManagers(c)' = {}
    BY <1>1, <1>2 DEF Teardown
  <2>. QED
    BY <2>1 DEF TailOK
<1>3. CASE ~Emptied(M, c)
  <2>1. broadcastLocks'[c][s] = broadcastLocks[c][s]
    BY <1>3 DEF Teardown
  <2>. QED
    BY <1>1, <2>1, TailFrame
<1>. QED
  BY <1>2, <1>3

LEMMA NextTails ==
  ASSUME IInv, TypeOK', [Next]_vars
  PROVE  Tails'
<1>1. SUFFICES ASSUME NEW c \in Coords, NEW s \in Signers
               PROVE  TailOK(c, s)'
  BY DEF Tails, TailOK
<1>2. CASE RegistryFrame /\ TaskFrame /\ UNCHANGED lockVars
  <2>1. LiveManagers(c)' = LiveManagers(c)
    BY <1>2 DEF RegistryFrame, registryVars, LiveManagers, Active, Built
  <2>. QED
    BY <1>2, <2>1, TailFrame DEF lockVars
<1>3. ASSUME NEW k \in Keys, NEW m \in Managers, BuildInstance(k, m)
      PROVE  TailOK(c, s)'
  <2>1. TaskFrame /\ UNCHANGED broadcastLocks
    BY <1>3 DEF BuildInstance, TaskFrame, lockVars
  <2>2. PICK d \in Coords :
          /\ \/ LiveManagers(d) # {}
             \/ \A n \in Managers : coord[n] # d
          /\ \A e \in Coords \ {d} : LiveManagers(e)' = LiveManagers(e)
    BY <1>3, BuildLive
  <2>3. CASE c # d \/ LiveManagers(d) # {}
    <3>1. LiveManagers(c)' # {} => LiveManagers(c) # {}
      BY <2>2, <2>3
    <3>. QED
      BY <2>1, <3>1, TailFrame
  <2>4. CASE c = d /\ \A n \in Managers : coord[n] # d
    <3>1. \A t \in Tasks : phase[t] # "new" => LockOf(t) # <<c, s>>
      BY <2>4 DEF IInv, WellFormed, LockOf
    <3>2. \A t \in Tasks : phase'[t] # "new" => LockOf(t)' # <<c, s>>
      BY <2>1, <3>1, TaskKept DEF TaskFrame, taskVars
    <3>3. broadcastLocks[c][s] = None
      <4>1. broadcastLocks[c][s] # None =>
              /\ broadcastLocks[c][s] \in Tasks
              /\ phase[broadcastLocks[c][s]] \in Live
              /\ LockOf(broadcastLocks[c][s]) = <<c, s>>
        BY DEF IInv, TypeOK, Tails
      <4>. QED
        BY <3>1, <4>1 DEF Live
    <3>. QED
      BY <2>1, <3>2, <3>3 DEF TailOK
  <2>. QED
    BY <2>2, <2>3, <2>4
<1>4. CASE ClearInstances
  <2>. DEFINE M == {m \in Managers : Built(m) /\ instances[key[m]] = m}
  <2>1. TornDownBy(M) /\ Teardown(M) /\ UNCHANGED <<key, coord>> /\ TaskFrame
    BY <1>4, TornDownOnes DEF ClearInstances, IInv, TaskFrame
  <2>. QED
    BY <2>1, TeardownTails
<1>5. ASSUME NEW m \in Managers, ReleaseIdle(m) \/ DrainFinalize(m)
      PROVE  TailOK(c, s)'
  <2>1. TornDownBy({m}) /\ Teardown({m}) /\ UNCHANGED <<key, coord>> /\ TaskFrame
    BY <1>5, TornDownOnes
       DEF ReleaseIdle, DrainFinalize, FinalizeRelease, IInv, TaskFrame
  <2>. QED
    BY <2>1, TeardownTails
<1>6. ASSUME NEW u \in Tasks, NEW m \in Managers, NEW q \in Signers,
             WithBroadcastLock(u, m, q)
      PROVE  TailOK(c, s)'
  <2>1. /\ phase'[u] = "queued" /\ born'[u] = clock
        /\ LockOf(u)' = <<coord[m], q>> /\ coord[m] \in Coords
    BY <1>6, SubmitSets
  <2>2. LiveManagers(c)' = LiveManagers(c)
    BY <1>6 DEF WithBroadcastLock, registryVars, holderVars, LiveManagers, Active, Built
  <2>3. phase[u] = "new" /\ \A t \in Tasks \ {u} : phase'[t] = phase[t]
    BY <1>6 DEF WithBroadcastLock
  <2>4. CASE <<coord[m], q>> = <<c, s>>
    <3>1. broadcastLocks'[c][s] = u
      BY <1>6, <2>4 DEF WithBroadcastLock, IInv, TypeOK
    <3>2. ASSUME NEW t \in Tasks, Before(u, t)'
          PROVE  FALSE
      <4>1. born'[u] < born'[t] /\ phase'[t] # "new"
        BY <3>2 DEF Before
      <4>2. CASE t = u
        BY <2>1, <4>1, <4>2 DEF IInv, TypeOK
      <4>3. CASE t # u
        <5>1. phase[t] # "new"
          BY <2>3, <4>1, <4>3
        <5>2. born'[t] = born[t] /\ born[t] < clock /\ born[t] \in Nat /\ clock \in Nat
          BY <5>1, TaskKept DEF IInv, WellFormed, TypeOK
        <5>. QED
          BY <2>1, <4>1, <5>2
      <4>. QED
        BY <4>2, <4>3
    <3>3. u # None
      BY NoneAssumption
    <3>. QED
      BY <2>1, <2>4, <3>1, <3>2, <3>3 DEF TailOK, Live
  <2>5. CASE <<coord[m], q>> # <<c, s>>
    <3>1. broadcastLocks'[c][s] = broadcastLocks[c][s]
      BY <1>6, <2>1, <2>5 DEF WithBroadcastLock, IInv, TypeOK
    <3>2. \A t \in Tasks : phase[t] = "new" /\ phase'[t] # "new" => LockOf(t)' # <<c, s>>
      BY <2>1, <2>3, <2>5
    <3>3. broadcastLocks[c][s] # None =>
            /\ broadcastLocks[c][s] \in Tasks
            /\ phase[broadcastLocks[c][s]] \in Live
      BY DEF IInv, TypeOK, Tails
    <3>4. broadcastLocks[c][s] # None => phase'[broadcastLocks[c][s]] \in Live
      BY <2>3, <3>3 DEF Live
    <3>. QED
      BY <2>2, <3>1, <3>2, <3>4, TailKept
  <2>. QED
    BY <2>4, <2>5
<1>7. ASSUME NEW u \in Tasks,
             StartBody(u) \/ AcquireClient(u) \/ FailBody(u) \/ SettleBody(u)
      PROVE  TailOK(c, s)'
  <2>1. /\ UNCHANGED broadcastLocks
        /\ LiveManagers(c)' = LiveManagers(c)
        /\ phase[u] # "new"
        /\ phase'[u] \in Live
        /\ \A t \in Tasks \ {u} : phase'[t] = phase[t]
    BY <1>7 DEF StartBody, AcquireClient, FailBody, SettleBody, TaskStep, lockVars,
                registryVars, holderVars, LiveManagers, Active, Built, IInv, TypeOK, Live
  <2>2. broadcastLocks[c][s] # None =>
          /\ broadcastLocks[c][s] \in Tasks
          /\ phase[broadcastLocks[c][s]] \in Live
    BY DEF IInv, TypeOK, Tails
  <2>3. \A t \in Tasks : phase[t] = "new" => phase'[t] = "new"
    BY <2>1
  <2>4. broadcastLocks[c][s] # None => phase'[broadcastLocks[c][s]] \in Live
    BY <2>1, <2>2
  <2>. QED
    BY <2>1, <2>3, <2>4, TailKept
<1>8. ASSUME NEW u \in Tasks, CleanUp(u)
      PROVE  TailOK(c, s)'
  <2>1. /\ phase[u] = "settled"
        /\ \A t \in Tasks \ {u} : phase'[t] = phase[t]
        /\ LiveManagers(c)' = LiveManagers(c)
    BY <1>8 DEF CleanUp, registryVars, holderVars, LiveManagers, Active, Built
  <2>2. \A t \in Tasks : phase[t] = "new" => phase'[t] = "new"
    BY <2>1
  <2>3. /\ owner[u] \in Managers /\ coord[owner[u]] \in Coords /\ signer[u] \in Signers
        /\ LockOf(u) = <<coord[owner[u]], signer[u]>>
    BY <2>1 DEF IInv, WellFormed, LockOf
  <2>4. broadcastLocks[c][s] # None =>
          /\ broadcastLocks[c][s] \in Tasks
          /\ phase[broadcastLocks[c][s]] \in Live
          /\ LockOf(broadcastLocks[c][s]) = <<c, s>>
          /\ \A t \in Tasks : ~Before(broadcastLocks[c][s], t)
    BY DEF IInv, TypeOK, Tails
  <2>5. CASE broadcastLocks[c][s] = u
    <3>1. coord[owner[u]] = c /\ signer[u] = s /\ u # None
      BY <2>3, <2>4, <2>5, NoneAssumption
    <3>2. broadcastLocks'[c][s] = None
      BY <1>8, <2>5, <3>1 DEF CleanUp, IInv, TypeOK
    <3>3. ASSUME NEW t \in Tasks, phase'[t] # "new", LockOf(t)' = <<c, s>>
          PROVE  phase'[t] = "done"
      <4>1. phase[t] # "new" /\ LockOf(t) = <<c, s>>
        BY <2>2, <3>3, TaskKept
      <4>2. CASE t = u
        BY <1>8, <4>2 DEF CleanUp, IInv, TypeOK
      <4>3. CASE t # u
        <5>1. born[t] # born[u] /\ born[t] \in Nat /\ born[u] \in Nat
          BY <2>1, <4>1, <4>3 DEF IInv, WellFormed, TypeOK
        <5>2. ~Before(u, t) /\ LockOf(u) = <<c, s>>
          BY <2>4, <2>5, <3>1
        <5>3. Before(t, u)
          BY <2>1, <4>1, <5>1, <5>2 DEF Before
        <5>4. phase[t] = "done"
          BY <2>1, <5>3 DEF IInv, Fifo
        <5>. QED
          BY <2>1, <4>3, <5>4
      <4>. QED
        BY <4>2, <4>3
    <3>. QED
      BY <3>2, <3>3 DEF TailOK
  <2>6. CASE broadcastLocks[c][s] # u
    <3>1. broadcastLocks'[c][s] = broadcastLocks[c][s]
      BY <1>8, <2>3, <2>6 DEF CleanUp, IInv, TypeOK
    <3>2. broadcastLocks[c][s] # None => phase'[broadcastLocks[c][s]] \in Live
      BY <2>1, <2>4, <2>6
    <3>. QED
      BY <2>1, <2>2, <3>1, <3>2, TailKept
  <2>. QED
    BY <2>5, <2>6
<1>. QED
  BY <1>2, <1>3, <1>4, <1>5, <1>6, <1>7, <1>8, StepKinds

-----------------------------------------------------------------------------
(* Accepted broadcasts are pending until their manager is torn down.       *)

LEMMA NextDrained ==
  ASSUME IInv, TypeOK', [Next]_vars
  PROVE  Drained'
<1>. USE DEF IInv, TypeOK
<1>1. CASE RegistryFrame /\ TaskFrame /\ UNCHANGED lockVars
  BY <1>1 DEF RegistryFrame, TaskFrame, registryVars, taskVars, lockVars, Drained
<1>2. ASSUME NEW k \in Keys, NEW m \in Managers, BuildInstance(k, m)
      PROVE  Drained'
  BY <1>2 DEF BuildInstance, taskVars, lockVars, Drained
<1>3. CASE ClearInstances
  <2>. DEFINE M == {m \in Managers : Built(m) /\ instances[key[m]] = m}
  <2>1. /\ pendingBroadcasts' =
             [m \in Managers |-> IF m \in M THEN {} ELSE pendingBroadcasts[m]]
        /\ released' = [m \in Managers |-> released[m] \/ m \in M]
        /\ cleared' = cleared \cup M
        /\ UNCHANGED <<phase, owner>>
    BY <1>3 DEF ClearInstances, Teardown, taskVars
  <2>2. \A t \in Tasks : phase[t] \in Live => owner[t] \in Managers
    BY DEF WellFormed, Live
  <2>. HIDE DEF M
  <2>. QED
    BY <2>1, <2>2 DEF Drained
<1>4. ASSUME NEW m \in Managers, ReleaseIdle(m) \/ DrainFinalize(m)
      PROVE  Drained'
  <2>1. /\ pendingBroadcasts[m] = {}
        /\ pendingBroadcasts' =
             [n \in Managers |-> IF n \in {m} THEN {} ELSE pendingBroadcasts[n]]
        /\ released' = [n \in Managers |-> released[n] \/ n \in {m}]
        /\ UNCHANGED <<phase, owner, cleared>>
    BY <1>4 DEF ReleaseIdle, DrainFinalize, FinalizeRelease, Teardown, taskVars
  <2>2. \A t \in Tasks : phase[t] \in Live => owner[t] \in Managers
    BY DEF WellFormed, Live
  <2>. QED
    BY <2>1, <2>2 DEF Drained
<1>5. ASSUME NEW t \in Tasks, NEW m \in Managers, NEW s \in Signers,
             WithBroadcastLock(t, m, s)
      PROVE  Drained'
  <2>1. /\ owner'[t] = m /\ ~released[m] /\ UNCHANGED <<released, cleared>>
        /\ \A u \in Tasks \ {t} : phase'[u] = phase[u] /\ owner'[u] = owner[u]
        /\ pendingBroadcasts' = [pendingBroadcasts EXCEPT ![m] = @ \cup {t}]
    BY <1>5 DEF WithBroadcastLock, Active, registryVars, holderVars
  <2>2. \A u \in Tasks : phase[u] \in Live => owner[u] \in Managers
    BY DEF WellFormed, Live
  <2>. QED
    BY <2>1, <2>2 DEF Drained
<1>6. ASSUME NEW t \in Tasks,
             StartBody(t) \/ AcquireClient(t) \/ FailBody(t) \/ SettleBody(t)
      PROVE  Drained'
  <2>1. /\ UNCHANGED <<released, cleared, owner, pendingBroadcasts>>
        /\ phase[t] \in Live
        /\ \A u \in Tasks \ {t} : phase'[u] = phase[u]
    BY <1>6 DEF StartBody, AcquireClient, FailBody, SettleBody, TaskStep,
                registryVars, holderVars, lockVars, Live
  <2>. QED
    BY <2>1 DEF Drained
<1>7. ASSUME NEW t \in Tasks, CleanUp(t)
      PROVE  Drained'
  <2>1. /\ UNCHANGED <<released, cleared, owner>>
        /\ pendingBroadcasts' = [pendingBroadcasts EXCEPT ![owner[t]] = @ \ {t}]
        /\ phase'[t] = "done"
        /\ \A u \in Tasks \ {t} : phase'[u] = phase[u]
    BY <1>7 DEF CleanUp, registryVars, holderVars
  <2>2. \A u \in Tasks : phase[u] \in Live => owner[u] \in Managers
    BY DEF WellFormed, Live
  <2>. QED
    BY <2>1, <2>2 DEF Drained, Live
<1>. QED
  BY <1>1, <1>2, <1>3, <1>4, <1>5, <1>6, <1>7, StepKinds

-----------------------------------------------------------------------------
(* The invariant and what follows from it.                                 *)

LEMMA InitIInv == Init => IInv
<1>. SUFFICES ASSUME Init PROVE IInv
  OBVIOUS
<1>1. TypeOK
  BY InitTypeOK
<1>2. WellFormed /\ Registered
  BY DEF Init, WellFormed, Registered, LiveIffRegistered, Built
<1>3. \A c \in Coords : LiveManagers(c) = {}
  BY DEF Init, LiveManagers, Active, Built
<1>4. CoordinationCounted
  BY <1>3, FS_EmptySet DEF Init, CoordinationCounted, Active, Built
<1>5. Fifo /\ Chained /\ Drained
  BY DEF Init, Fifo, Chained, Drained, Before, Live
<1>6. Tails
  BY DEF Init, Tails
<1>. QED
  BY <1>1, <1>2, <1>4, <1>5, <1>6 DEF IInv

LEMMA NextIInv == IInv /\ [Next]_vars => IInv'
<1>. SUFFICES ASSUME IInv, [Next]_vars PROVE IInv'
  OBVIOUS
<1>1. TypeOK'
  BY NextTypeOK DEF IInv
<1>. QED
  BY <1>1, NextWellFormed, NextRegistered, NextCounted, NextFifo, NextChained,
     NextTails, NextDrained DEF IInv

\* IInv is an invariant of every behaviour of the manager.
THEOREM IInvInvariant == Spec => []IInv
<1>1. Init => IInv
  BY InitIInv
<1>2. IInv /\ [Next]_vars => IInv'
  BY NextIInv
<1>. QED
  BY <1>1, <1>2, PTL DEF Spec

\* Every variable of the client manager keeps its type.
THEOREM TypeCorrect == Spec => []TypeOK
<1>1. IInv => TypeOK
  BY DEF IInv
<1>. QED
  BY <1>1, IInvInvariant, PTL

\* withBroadcastLock never lets two broadcasts of one signer run together,
\* through whatever managers they came.
LEMMA IInvSerialized == IInv => SerializedPerSigner
<1>. SUFFICES ASSUME IInv, NEW t \in Tasks, NEW u \in Tasks,
                     t # u, phase[t] \in InBody, phase[u] \in InBody,
                     signer[t] = signer[u],
                     owner[t] \notin cleared, owner[u] \notin cleared
              PROVE  FALSE
  BY DEF SerializedPerSigner
<1>1. /\ phase[t] \in Live /\ phase[t] \notin {"new", "queued", "done"}
      /\ phase[u] \in Live /\ phase[u] \notin {"new", "queued", "done"}
  BY DEF InBody, Live
<1>2. /\ owner[t] \in Managers /\ Active(owner[t])
      /\ owner[u] \in Managers /\ Active(owner[u])
  BY <1>1 DEF IInv, WellFormed, Drained, Active
<1>3. LockOf(t) = LockOf(u)
  BY <1>2 DEF IInv, CoordinationCounted, LockOf
<1>4. Before(t, u) \/ Before(u, t)
  <2>1. born[t] # born[u] /\ born[t] \in Nat /\ born[u] \in Nat
    BY <1>1 DEF IInv, WellFormed, TypeOK
  <2>. QED
    BY <1>1, <1>3, <2>1 DEF Before
<1>. QED
  BY <1>1, <1>4 DEF IInv, Fifo

THEOREM Serialized == Spec => []SerializedPerSigner
BY IInvSerialized, IInvInvariant, PTL

\* No release, drain or reacquisition tears a manager down under a broadcast.
THEOREM DrainProtects == Spec => []DrainProtectsBroadcasts
<1>1. IInv => DrainProtectsBroadcasts
  BY DEF IInv, Drained, DrainProtectsBroadcasts
<1>. QED
  BY <1>1, IInvInvariant, PTL

\* The registry holds exactly the live managers, a coordination object's count is
\* the number of its live managers, and the lock map holds only tails that are
\* still in flight.
THEOREM SharedExact == Spec => []SharedStateExact
<1>1. IInv => LiveIffRegistered
  BY DEF IInv, Registered
<1>2. IInv => CoordinationCounted
  BY DEF IInv
<1>3. IInv => LocksBounded
  BY DEF IInv, Tails, LocksBounded
<1>4. IInv => SharedStateExact
  BY <1>1, <1>2, <1>3 DEF SharedStateExact
<1>. QED
  BY <1>4, IInvInvariant, PTL

-----------------------------------------------------------------------------
(* The locks implement SignerMutex.                                        *)

LEMMA LockTypes ==
  ASSUME IInv, NEW t \in Tasks, phase[t] # "new"
  PROVE  LockOf(t) \in Coords \X Signers
BY DEF IInv, WellFormed, LockOf

\* Who lets whom go first, in terms of the order of the lines.
LEMMA ElderIsBefore ==
  ASSUME NEW t \in Tasks, NEW u \in Tasks
  PROVE  u \in Elders(t) <=> phase[t] \in Live /\ phase[u] \in Live /\ Before(u, t)
BY DEF Elders, LiveOn, Before, Live

\* A broadcast whose turn it is lets nobody go first.
LEMMA NoElders ==
  ASSUME IInv, NEW t \in Tasks, phase[t] # "new",
         phase[t] = "queued" /\ prev[t] # None => phase[prev[t]] = "done"
  PROVE  Elders(t) = {}
<1>1. SUFFICES ASSUME NEW u \in Tasks, Before(u, t) PROVE phase[u] = "done"
  BY ElderIsBefore DEF Elders, LiveOn, Live
<1>2. CASE phase[t] # "queued"
  BY <1>1, <1>2 DEF IInv, Fifo
<1>3. CASE phase[t] = "queued" /\ prev[t] = None
  BY <1>1, <1>3 DEF IInv, Chained
<1>4. CASE phase[t] = "queued" /\ prev[t] # None
  <2>1. u = prev[t] \/ Before(u, prev[t])
    BY <1>1, <1>4 DEF IInv, Chained
  <2>2. prev[t] \in Tasks /\ phase[prev[t]] = "done"
    BY <1>4 DEF IInv, TypeOK
  <2>. QED
    BY <2>1, <2>2 DEF IInv, Fifo
<1>. QED
  BY <1>2, <1>3, <1>4

\* A step after which the same broadcasts are live keeps the lines.
LEMMA LinesKept ==
  ASSUME IInv, [Next]_vars,
         \A t \in Tasks : phase'[t] \in Live <=> phase[t] \in Live
  PROVE  /\ \A l : LiveOn(l)' = LiveOn(l)
         /\ \A t \in Tasks : Elders(t)' = Elders(t)
<1>1. ASSUME NEW l PROVE LiveOn(l)' = LiveOn(l)
  <2>1. \A t \in Tasks : phase[t] \in Live => LockOf(t)' = LockOf(t)
    BY TaskKept DEF Live
  <2>. QED
    BY <2>1 DEF LiveOn
<1>2. ASSUME NEW t \in Tasks PROVE Elders(t)' = Elders(t)
  <2>1. \A u \in Tasks : u \in Elders(t)' <=> u \in Elders(t)
    <3>1. SUFFICES ASSUME NEW u \in Tasks
                   PROVE  u \in Elders(t)' <=> u \in Elders(t)
      OBVIOUS
    <3>2. u \in Elders(t)' <=> phase'[t] \in Live /\ phase'[u] \in Live /\ Before(u, t)'
      BY DEF Elders, LiveOn, Before, Live
    <3>3. u \in Elders(t) <=> phase[t] \in Live /\ phase[u] \in Live /\ Before(u, t)
      BY ElderIsBefore
    <3>4. phase[t] \in Live => (Before(u, t)' <=> Before(u, t))
      BY BeforeKept DEF Live
    <3>. QED
      BY <3>2, <3>3, <3>4
  <2>2. Elders(t) \subseteq Tasks /\ Elders(t)' \subseteq Tasks
    BY DEF Elders, LiveOn
  <2>. QED
    BY <2>1, <2>2
<1>. QED
  BY <1>1, <1>2

\* withBroadcastLock asks for the lock: whoever is in line goes first.
LEMMA SubmitRequests ==
  ASSUME IInv, IInv', NEW t \in Tasks, NEW m \in Managers, NEW s \in Signers,
         WithBroadcastLock(t, m, s), NEW l, l = <<coord[m], s>>
  PROVE  l \in Coords \X Signers /\ Mutex!Request(t, l)
<1>1. /\ phase[t] = "new" /\ phase'[t] = "queued"
      /\ born'[t] = clock /\ LockOf(t)' = l /\ l \in Coords \X Signers
      /\ \A u \in Tasks \ {t} : phase'[u] = phase[u]
  <2>1. phase[t] = "new" /\ \A u \in Tasks \ {t} : phase'[u] = phase[u]
    BY DEF WithBroadcastLock
  <2>2. /\ phase'[t] = "queued" /\ born'[t] = clock
        /\ LockOf(t)' = <<coord[m], s>> /\ coord[m] \in Coords
    BY SubmitSets
  <2>. QED
    BY <2>1, <2>2
<1>2. [Next]_vars
  BY DEF Next, Submit
<1>3. \A u \in Tasks : phase[u] \in Live =>
         /\ u # t
         /\ LockOf(u)' = LockOf(u) /\ born'[u] = born[u] /\ born[u] < clock
  <2>1. SUFFICES ASSUME NEW u \in Tasks, phase[u] \in Live
                 PROVE  /\ u # t
                        /\ LockOf(u)' = LockOf(u) /\ born'[u] = born[u] /\ born[u] < clock
    OBVIOUS
  <2>2. phase[u] # "new"
    BY <2>1 DEF Live
  <2>. QED
    BY <1>1, <1>2, <2>2, TaskKept DEF IInv, WellFormed
<1>4. \A k : t \notin LiveOn(k)
  BY <1>1 DEF LiveOn, Live
<1>5. /\ LiveOn(l)' = LiveOn(l) \cup {t}
      /\ \A k : k # l => LiveOn(k)' = LiveOn(k)
  <2>1. /\ phase'[t] \in Live /\ LockOf(t)' = l
        /\ \A u \in Tasks \ {t} :
             /\ phase'[u] \in Live <=> phase[u] \in Live
             /\ phase[u] \in Live => LockOf(u)' = LockOf(u)
    BY <1>1, <1>3 DEF Live
  <2>. QED
    BY <1>4, <2>1 DEF LiveOn
<1>6. Elders(t)' = LiveOn(l)
  <2>1. Elders(t)' = {u \in LiveOn(l)' : born'[u] < born'[t]}
    BY <1>1 DEF Elders, Live
  <2>2. /\ \A u \in LiveOn(l) : born'[u] < born'[t]
        /\ ~(born'[t] < born'[t])
    BY <1>1, <1>3 DEF LiveOn, IInv, TypeOK
  <2>. QED
    BY <1>5, <2>1, <2>2
<1>7. ASSUME NEW u \in Tasks, u # t
      PROVE  Elders(u)' = Elders(u)
  <2>1. CASE phase[u] \notin Live
    BY <1>1, <1>7, <2>1 DEF Elders
  <2>2. CASE phase[u] \in Live
    <3>1. Elders(u) = {v \in LiveOn(LockOf(u)) : born[v] < born[u]}
      BY <2>2 DEF Elders
    <3>2. Elders(u)' = {v \in LiveOn(LockOf(u))' : born'[v] < born'[u]}
      BY <1>1, <1>7, <2>2 DEF Elders
    <3>3. \A v \in LiveOn(LockOf(u)) : born'[v] = born[v] /\ born'[u] = born[u]
      BY <1>3, <2>2 DEF LiveOn
    <3>4. ~(born'[t] < born'[u])
      BY <1>1, <1>3, <2>2 DEF IInv, TypeOK
    <3>5. \/ LiveOn(LockOf(u))' = LiveOn(LockOf(u))
          \/ LiveOn(LockOf(u))' = LiveOn(LockOf(u)) \cup {t}
      <4>1. LockOf(u)' = LockOf(u)
        BY <1>3, <2>2
      <4>2. LiveOn(LockOf(u))' = {v \in Tasks : phase'[v] \in Live /\ LockOf(v)' = LockOf(u)}
        BY <4>1 DEF LiveOn
      <4>. QED
        BY <1>1, <1>3, <4>2 DEF LiveOn, Live
    <3>. QED
      BY <3>1, <3>2, <3>3, <3>4, <3>5
  <2>. QED
    BY <2>1, <2>2
<1>8. /\ {u \in Tasks : phase'[u] \in InBody} = {u \in Tasks : phase[u] \in InBody}
      /\ {u \in Tasks : phase'[u] = "done"} = {u \in Tasks : phase[u] = "done"}
  BY <1>1 DEF InBody
<1>9. [k \in Coords \X Signers |-> LiveOn(k)]'
        = [[k \in Coords \X Signers |-> LiveOn(k)] EXCEPT ![l] = @ \cup {t}]
  BY <1>1, <1>5
<1>10. [u \in Tasks |-> Elders(u)]' = [[u \in Tasks |-> Elders(u)] EXCEPT ![t] = LiveOn(l)]
  BY <1>6, <1>7
<1>11. /\ t \notin {u \in Tasks : phase[u] = "done"}
       /\ \A k \in Coords \X Signers : t \notin [j \in Coords \X Signers |-> LiveOn(j)][k]
       /\ LiveOn(l) = [j \in Coords \X Signers |-> LiveOn(j)][l]
  BY <1>1, <1>4
<1>. QED
  BY <1>1, <1>8, <1>9, <1>10, <1>11, Zenon DEF Mutex!Request

\* A broadcast that starts is granted the lock: its predecessor is done.
LEMMA StartGrants ==
  ASSUME IInv, NEW t \in Tasks, StartBody(t), NEW l, l = LockOf(t)
  PROVE  l \in Coords \X Signers /\ Mutex!Grant(t, l)
<1>1. /\ phase[t] = "queued" /\ phase'[t] = "started"
      /\ \A u \in Tasks \ {t} : phase'[u] = phase[u]
      /\ phase' = [phase EXCEPT ![t] = "started"]
  BY DEF StartBody, TaskStep, IInv, TypeOK
<1>2. l \in Coords \X Signers
  BY <1>1, LockTypes
<1>3. [Next]_vars
  BY DEF Next, BodyStep
<1>4. /\ \A k : LiveOn(k)' = LiveOn(k)
      /\ \A u \in Tasks : Elders(u)' = Elders(u)
  BY <1>1, <1>3, LinesKept DEF Live
<1>5. t \in LiveOn(l) /\ Elders(t) = {}
  BY <1>1, NoElders DEF LiveOn, Live, StartBody
<1>6. /\ {u \in Tasks : phase'[u] \in InBody} = {u \in Tasks : phase[u] \in InBody} \cup {t}
      /\ {u \in Tasks : phase'[u] = "done"} = {u \in Tasks : phase[u] = "done"}
      /\ t \notin {u \in Tasks : phase[u] \in InBody}
  BY <1>1 DEF InBody
<1>7. /\ [k \in Coords \X Signers |-> LiveOn(k)]' = [k \in Coords \X Signers |-> LiveOn(k)]
      /\ [u \in Tasks |-> Elders(u)]' = [u \in Tasks |-> Elders(u)]
  BY <1>4
<1>8. /\ t \in [k \in Coords \X Signers |-> LiveOn(k)][l]
      /\ [u \in Tasks |-> Elders(u)][t] = {}
  BY <1>2, <1>5
<1>. QED
  BY <1>2, <1>6, <1>7, <1>8, Zenon DEF Mutex!Grant

\* The tail's reaction gives the lock up: nobody lets the task go first any more.
LEMMA CleanUpReleases ==
  ASSUME IInv, NEW t \in Tasks, CleanUp(t), NEW l, l = LockOf(t)
  PROVE  l \in Coords \X Signers /\ Mutex!Release(t, l)
<1>1. /\ phase[t] = "settled" /\ phase'[t] = "done"
      /\ \A u \in Tasks \ {t} : phase'[u] = phase[u]
      /\ UNCHANGED <<coord, owner, signer, born>>
  BY DEF CleanUp, IInv, TypeOK, registryVars
<1>2. l \in Coords \X Signers
  BY <1>1, LockTypes
<1>3. \A u \in Tasks : LockOf(u)' = LockOf(u)
  BY <1>1 DEF LockOf
<1>4. /\ LiveOn(l)' = LiveOn(l) \ {t}
      /\ \A k : k # l => LiveOn(k)' = LiveOn(k)
      /\ t \in LiveOn(l)
      /\ \A k : LiveOn(k)' = LiveOn(k) \ {t}
  BY <1>1, <1>3 DEF LiveOn, Live
<1>5. Elders(t) = {} /\ Elders(t)' = {}
  <2>1. Elders(t) = {}
    BY <1>1, NoElders
  <2>. QED
    BY <1>1, <2>1 DEF Elders, Live
<1>6. ASSUME NEW u \in Tasks
      PROVE  Elders(u)' = Elders(u) \ {t}
  <2>1. CASE u = t
    BY <1>5, <2>1
  <2>2. CASE u # t /\ phase[u] \in Live
    <3>1. Elders(u) = {v \in LiveOn(LockOf(u)) : born[v] < born[u]}
      BY <2>2 DEF Elders
    <3>2. Elders(u)' = {v \in LiveOn(LockOf(u))' : born[v] < born[u]}
      BY <1>1, <2>2 DEF Elders
    <3>3. LiveOn(LockOf(u))' = LiveOn(LockOf(u)) \ {t}
      BY <1>1, <1>3 DEF LiveOn, Live
    <3>. QED
      BY <3>1, <3>2, <3>3
  <2>3. CASE u # t /\ phase[u] \notin Live
    BY <1>1, <2>3 DEF Elders
  <2>. QED
    BY <2>1, <2>2, <2>3
<1>7. /\ {u \in Tasks : phase'[u] \in InBody} = {u \in Tasks : phase[u] \in InBody} \ {t}
      /\ {u \in Tasks : phase'[u] = "done"} = {u \in Tasks : phase[u] = "done"} \cup {t}
      /\ t \in {u \in Tasks : phase[u] \in InBody}
  BY <1>1 DEF InBody
<1>8. [k \in Coords \X Signers |-> LiveOn(k)]'
        = [[k \in Coords \X Signers |-> LiveOn(k)] EXCEPT ![l] = @ \ {t}]
  BY <1>2, <1>4
<1>9. [u \in Tasks |-> Elders(u)]' = [u \in Tasks |-> [v \in Tasks |-> Elders(v)][u] \ {t}]
  BY <1>6
<1>10. t \in [k \in Coords \X Signers |-> LiveOn(k)][l]
  BY <1>2, <1>4
<1>. QED
  BY <1>2, <1>7, <1>8, <1>9, <1>10, Zenon DEF Mutex!Release

\* Every other step leaves the locks alone.
LEMMA OthersStutter ==
  ASSUME IInv, [Next]_vars,
         \A t \in Tasks : /\ phase'[t] \in Live <=> phase[t] \in Live
                          /\ phase'[t] \in InBody <=> phase[t] \in InBody
                          /\ phase'[t] = "done" <=> phase[t] = "done"
  PROVE  UNCHANGED Mutex!mutexVars
<1>1. /\ \A l : LiveOn(l)' = LiveOn(l)
      /\ \A t \in Tasks : Elders(t)' = Elders(t)
  BY LinesKept
<1>2. /\ [k \in Coords \X Signers |-> LiveOn(k)]' = [k \in Coords \X Signers |-> LiveOn(k)]
      /\ [u \in Tasks |-> Elders(u)]' = [u \in Tasks |-> Elders(u)]
  BY <1>1
<1>3. /\ {u \in Tasks : phase[u] \in InBody}' = {u \in Tasks : phase[u] \in InBody}
      /\ {u \in Tasks : phase[u] = "done"}' = {u \in Tasks : phase[u] = "done"}
  OBVIOUS
<1>. QED
  BY <1>2, <1>3 DEF Mutex!mutexVars

LEMMA StepMapped ==
  ASSUME IInv, IInv', [Next]_vars
  PROVE  [Mutex!Next]_(Mutex!mutexVars)
<1>1. ASSUME TaskFrame PROVE UNCHANGED Mutex!mutexVars
  BY <1>1, OthersStutter DEF TaskFrame, taskVars
<1>2. ASSUME NEW k \in Keys, NEW m \in Managers, BuildInstance(k, m) PROVE TaskFrame
  BY <1>2 DEF BuildInstance, TaskFrame
<1>3. ASSUME ClearInstances \/ \E m \in Managers : ReleaseIdle(m) \/ DrainFinalize(m)
      PROVE  TaskFrame
  BY <1>3 DEF ClearInstances, ReleaseIdle, DrainFinalize, TaskFrame
<1>4. ASSUME NEW t \in Tasks, NEW m \in Managers, NEW s \in Signers,
             WithBroadcastLock(t, m, s)
      PROVE  Mutex!Next
  BY <1>4, SubmitRequests DEF Mutex!Next
<1>5. ASSUME NEW t \in Tasks, StartBody(t) PROVE Mutex!Next
  BY <1>5, StartGrants DEF Mutex!Next
<1>6. ASSUME NEW t \in Tasks, AcquireClient(t) \/ FailBody(t) \/ SettleBody(t)
      PROVE  UNCHANGED Mutex!mutexVars
  <2>1. /\ phase[t] \in {"started", "broadcasting"}
        /\ phase'[t] \in {"broadcasting", "settled"}
        /\ \A u \in Tasks \ {t} : phase'[u] = phase[u]
    BY <1>6 DEF AcquireClient, FailBody, SettleBody, TaskStep, IInv, TypeOK
  <2>. QED
    BY <2>1, OthersStutter DEF Live, InBody
<1>7. ASSUME NEW t \in Tasks, CleanUp(t) PROVE Mutex!Next
  BY <1>7, CleanUpReleases DEF Mutex!Next
<1>. QED
  BY <1>1, <1>2, <1>3, <1>4, <1>5, <1>6, <1>7, StepKinds

\* The chained promises of withBroadcastLock are a mutual exclusion, first come,
\* first served, for any managers that share a coordination object, whichever of
\* them are released, drained, rebuilt or reset meanwhile.
THEOREM LocksImplement == Spec => ImplementsSignerMutex
<1>1. Init => Mutex!Init
  <2>. SUFFICES ASSUME Init PROVE Mutex!Init
    OBVIOUS
  <2>1. \A t \in Tasks : phase[t] = "new"
    BY DEF Init
  <2>2. /\ \A l : LiveOn(l) = {}
        /\ \A t \in Tasks : Elders(t) = {}
    BY <2>1 DEF LiveOn, Elders, Live
  <2>3. /\ {t \in Tasks : phase[t] \in InBody} = {}
        /\ {t \in Tasks : phase[t] = "done"} = {}
    BY <2>1 DEF InBody
  <2>. QED
    BY <2>2, <2>3 DEF Mutex!Init
<1>2. IInv /\ IInv' /\ [Next]_vars => [Mutex!Next]_(Mutex!mutexVars)
  BY StepMapped
<1>. QED
  BY <1>1, <1>2, IInvInvariant, PTL DEF Spec, ImplementsSignerMutex, Mutex!Spec

-----------------------------------------------------------------------------
(* Nobody is wedged.                                                       *)

\* A set of numbers has a least one: of the intervals up to its members, one
\* contains no other.
LEMMA Least ==
  ASSUME NEW S \in SUBSET Nat, S # {}
  PROVE  \E n \in S : \A m \in S : n <= m
<1>. DEFINE R == StrictSubsetOrdering(Nat)
            I == {0..n : n \in S}
<1>1. IsWellFoundedOn(R, FiniteSubsetsOf(Nat))
  BY FS_StrictSubsetOrderingWellFounded
<1>2. I # {} /\ I \subseteq FiniteSubsetsOf(Nat)
  <2>1. \A n \in Nat : IsFiniteSet(0..n) /\ 0..n \subseteq Nat
    BY FS_Interval
  <2>2. \A n \in S : 0..n \in FiniteSubsetsOf(Nat)
    BY <2>1 DEF FiniteSubsetsOf
  <2>. QED
    BY <2>2
<1>3. \E X \in I : \A Y \in I : <<Y, X>> \notin R
  <2>. HIDE DEF R, I
  <2>. QED
    BY <1>1, <1>2, WFMin
<1>4. PICK n \in S : \A m \in S : <<0..m, 0..n>> \notin R
  BY <1>3
<1>5. ASSUME NEW m \in S, m < n PROVE FALSE
  <2>1. 0..m \subseteq 0..n /\ n \in 0..n /\ n \notin 0..m
    BY <1>5
  <2>2. <<0..m, 0..n>> \in R
    BY <2>1 DEF StrictSubsetOrdering
  <2>. QED
    BY <1>4, <2>2
<1>. QED
  BY <1>4, <1>5

\* A broadcast that has something to do: its body runs or has to be cleaned up
\* after, or its turn has come.
MayStep(t) ==
  \/ phase[t] \in InBody
  \/ phase[t] = "queued" /\ (prev[t] # None => phase[prev[t]] = "done")

\* Whoever waits for a lock waits in a line that moves: some broadcast of it has
\* something to do, whatever happened to the managers they came through.
NobodyWedged ==
  \A t \in Tasks : phase[t] \in Live =>
    \E u \in Tasks : phase[u] \in Live /\ LockOf(u) = LockOf(t) /\ MayStep(u)

\* The eldest of a line waits for nobody: its predecessor would be elder.
LEMMA EldestSteps ==
  ASSUME IInv
  PROVE  NobodyWedged
<1>. SUFFICES ASSUME NEW t \in Tasks, phase[t] \in Live
              PROVE  \E u \in Tasks : /\ phase[u] \in Live
                                      /\ LockOf(u) = LockOf(t)
                                      /\ MayStep(u)
  BY DEF NobodyWedged
<1>. DEFINE L == {u \in Tasks : phase[u] \in Live /\ LockOf(u) = LockOf(t)}
            B == {born[u] : u \in L}
<1>1. B \in SUBSET Nat /\ B # {}
  <2>1. born \in [Tasks -> Nat] /\ t \in L
    BY DEF IInv, TypeOK
  <2>. QED
    BY <2>1
<1>2. PICK n \in B : \A k \in B : n <= k
  <2>. HIDE DEF B
  <2>. QED
    BY <1>1, Least
<1>3. PICK u \in L : born[u] = n
  OBVIOUS
<1>4. ASSUME phase[u] = "queued", prev[u] # None
      PROVE  phase[prev[u]] = "done"
  <2>1. Before(prev[u], u) /\ prev[u] \in Tasks
    BY <1>4 DEF IInv, TypeOK, Chained
  <2>2. prev[u] \notin L
    <3>1. SUFFICES ASSUME prev[u] \in L PROVE FALSE
      OBVIOUS
    <3>2. born[prev[u]] \in B
      BY <3>1
    <3>3. born[prev[u]] < born[u] /\ born[u] <= born[prev[u]]
      BY <1>2, <1>3, <2>1, <3>2 DEF Before
    <3>4. born[prev[u]] \in Nat /\ born[u] \in Nat
      BY <1>1, <1>3, <3>2
    <3>. HIDE DEF L, B
    <3>. QED
      BY <3>3, <3>4
  <2>. QED
    BY <1>3, <2>1, <2>2 DEF Before, IInv, TypeOK, Phases
<1>5. MayStep(u)
  BY <1>3, <1>4 DEF MayStep, Live, InBody
<1>. QED
  BY <1>3, <1>5

\* No broadcast is ever stuck behind one that will not settle: what liveness adds
\* is only that bodies and reactions run.
THEOREM NoneWedged == Spec => []NobodyWedged
BY EldestSteps, IInvInvariant, PTL
=============================================================================
