------------------------ MODULE ManagerUsers_proofs ------------------------
(***************************************************************************)
(* Two modules use ClientManager, and both leave it the behaviour it has   *)
(* by itself.  First, the clients a manager connects lazily: none is left  *)
(* open by a teardown or left rejected, for any number of managers,        *)
(* broadcasts and connection attempts.  Then the server process: however   *)
(* it ends, a shutdown cuts accepted broadcasts off only past its deadline *)
(* or when it is forced, for any number of calls and broadcasts.           *)
(***************************************************************************)
EXTENDS LazyClients, ServerProcess, ClientManager_proofs

LazyTypes ==
  /\ cached \in [Kinds -> [Managers -> Inits \cup {None}]]
  /\ slot \in [Kinds -> [Managers -> Inits \cup {None}]]
  /\ at \in [Inits -> Stages]
  /\ of \in [Inits -> [kind : Kinds, mgr : Managers \cup {None}]]
  /\ tries \in [Inits -> 0..MaxTries]
  /\ open \subseteq Inits
  /\ client \in [Tasks -> Inits \cup {None}]

\* A transport is open from the connection to the failure, the supersession or
\* the teardown that closes it, and a settled one is the cached client of a live
\* manager.
Transports ==
  /\ \A i \in Inits :
       /\ at[i] # "unused" => of[i].mgr \in Managers
       /\ at[i] = "checking" => i \in open
       /\ Signing(i) /\ at[i] = "connected" => i \in open
       /\ i \in open =>
            /\ Signing(i)
            /\ at[i] \in {"checking", "connected", "ready"}
            /\ at[i] = "ready" => cached["signing"][of[i].mgr] = i
  /\ \A m \in Managers :
       /\ cached["signing"][m] # None => cached["signing"][m] \in open /\ Active(m)
       /\ slot["signing"][m] # None => Active(m)

\* A broadcast's client is of its own manager, and stays the manager's cached one
\* until the broadcast ends or a forced reset comes.
ClientsOwned ==
  \A t \in Tasks :
    /\ client[t] # None =>
         /\ phase[t] \in {"started", "broadcasting"}
         /\ at[client[t]] # "unused"
         /\ of[client[t]] = For("signing", owner[t])
         /\ at[client[t]] = "ready" /\ owner[t] \notin cleared =>
              cached["signing"][owner[t]] = client[t]
    /\ phase[t] = "broadcasting" => client[t] # None /\ at[client[t]] = "ready"

LInv == LazyTypes /\ NothingLatched /\ Transports /\ ClientsOwned

LEMMA ForFields == \A k, m : For(k, m).kind = k /\ For(k, m).mgr = m
BY DEF For

LEMMA ForInjective ==
  ASSUME NEW k, NEW m, NEW l, NEW n, For(k, m) = For(l, n)
  PROVE  k = l /\ m = n
BY ForFields

LEMMA CachedOf ==
  ASSUME NothingLatched, NEW k \in Kinds, NEW m \in Managers, cached[k][m] # None
  PROVE  /\ of[cached[k][m]] = For(k, m)
         /\ at[cached[k][m]] = "ready"
BY DEF NothingLatched

LEMMA SlotOf ==
  ASSUME NothingLatched, NEW k \in Kinds, NEW m \in Managers, slot[k][m] # None
  PROVE  /\ of[slot[k][m]] = For(k, m)
         /\ at[slot[k][m]] \in UnderWay
         /\ cached[k][m] = None
BY DEF NothingLatched

LEMMA InitLInv == LazyInit => IInv /\ LInv
<1>. SUFFICES ASSUME LazyInit PROVE IInv /\ LInv
  OBVIOUS
<1>1. IInv
  BY InitIInv DEF LazyInit
<1>2. LazyTypes
  BY MaxTriesAssumption DEF LazyInit, LazyTypes, Stages, NoOne, For, Kinds
<1>3. NothingLatched /\ Transports
  BY DEF LazyInit, NothingLatched, Transports, Kinds
<1>4. ClientsOwned
  BY DEF LazyInit, Init, ClientsOwned
<1>. QED
  BY <1>1, <1>2, <1>3, <1>4 DEF LInv

-----------------------------------------------------------------------------
(* Every step is one of the manager's, or leaves the manager alone.        *)

LEMMA LazyStep == ASSUME [LazyNext]_lazyAll PROVE [Next]_vars
<1>1. CASE UNCHANGED lazyAll
  BY <1>1 DEF lazyAll, vars
<1>2. CASE Acquire
  BY <1>2 DEF Next
<1>3. CASE Reset
  BY <1>3 DEF Next, Reset
<1>4. ASSUME NEW m \in Managers, TearDown(m) \/ Elsewhere(m) PROVE [Next]_vars
  BY <1>4 DEF TearDown, Elsewhere, Next, Release, DrainStep
<1>5. ASSUME NEW m \in Managers, NEW i \in Inits, AskQuery(m, i) \/ AskEstimate(m, i)
      PROVE  [Next]_vars
  BY <1>5 DEF AskQuery, AskEstimate
<1>6. ASSUME NEW t \in Tasks, LockStep(t) PROVE [Next]_vars
  BY <1>6 DEF LockStep, Next, BodyStep
<1>7. ASSUME NEW t \in Tasks, ClientStep(t) PROVE [Next]_vars
  BY <1>7 DEF ClientStep, UseCached, JoinInit, AskSigning, Resume, ResumeFailed,
              FailEarly, Settle, Next, BodyStep
<1>8. ASSUME NEW i \in Inits, InitStep(i) PROVE [Next]_vars
  BY <1>8 DEF InitStep, Connect, ConnectFails, CheckFails, CheckPasses, Promote,
              Superseded, Break
<1>. QED
  BY <1>1, <1>2, <1>3, <1>4, <1>5, <1>6, <1>7, <1>8 DEF LazyNext

\* Connecting lazily is invisible to ClientManager.
THEOREM Refines == LazySpec => ImplementsClientManager
<1>1. LazyInit => Init
  BY DEF LazyInit
<1>2. [LazyNext]_lazyAll => [Next]_vars
  BY LazyStep
<1>. QED
  BY <1>1, <1>2, PTL DEF LazySpec, ImplementsClientManager, Spec

-----------------------------------------------------------------------------
(* Steps of the manager that no client takes part in.                      *)

\* No live manager ends, and a broadcast that has a client keeps its phase.
Quiet ==
  /\ UNCHANGED <<lazyVars, cleared>>
  /\ \A m \in Managers : Active(m) => Active(m)'
  /\ \A t \in Tasks :
       /\ client[t] # None => phase'[t] = phase[t] /\ owner'[t] = owner[t]
       /\ phase'[t] = "broadcasting" => phase[t] = "broadcasting"

LEMMA QuietKeeps == ASSUME LInv, Quiet PROVE LInv'
<1>. USE DEF LInv, Quiet, lazyVars, slotVars, initVars
<1>1. LazyTypes' /\ NothingLatched'
  BY DEF LazyTypes, NothingLatched
<1>2. Transports'
  BY DEF Transports, Signing
<1>3. ClientsOwned'
  BY DEF ClientsOwned
<1>. QED
  BY <1>1, <1>2, <1>3

LEMMA AcquireQuiet == ASSUME IInv, Acquire, UNCHANGED lazyVars PROVE Quiet
<1>1. ASSUME NEW k \in Keys, ShareInstance(k) PROVE Quiet
  BY <1>1 DEF Quiet, ShareInstance, registryVars, taskVars, Active, Built
<1>2. ASSUME NEW k \in Keys, NEW m \in Managers, BuildInstance(k, m) PROVE Quiet
  <2>1. \A n \in Managers : Active(n) => Active(n)'
    BY <1>2 DEF BuildInstance, Active, Built, IInv, TypeOK
  <2>. QED
    BY <1>2, <2>1 DEF Quiet, BuildInstance, taskVars
<1>. QED
  BY <1>1, <1>2 DEF Acquire

LEMMA ElsewhereQuiet == ASSUME NEW m \in Managers, Elsewhere(m) PROVE Quiet
BY DEF Elsewhere, ReleaseShared, ReleaseBusy, DrainAgain, DrainCancelled, ForgetDrain,
       Quiet, registryVars, taskVars, Active, Built

LEMMA LockStepQuiet == ASSUME IInv, LInv, NEW t \in Tasks, LockStep(t) PROVE Quiet
<1>. USE DEF Quiet, registryVars, holderVars, taskVars, Active, Built, IInv, TypeOK
<1>0. client[t] # None => phase[t] \in {"started", "broadcasting"}
  BY DEF LInv, ClientsOwned
<1>1. CASE Submit(t)
  BY <1>0, <1>1 DEF LockStep, Submit, WithBroadcastLock
<1>2. CASE StartBody(t)
  BY <1>0, <1>2 DEF LockStep, StartBody, TaskStep
<1>3. CASE CleanUp(t)
  BY <1>0, <1>3 DEF LockStep, CleanUp
<1>. QED
  BY <1>1, <1>2, <1>3 DEF LockStep

-----------------------------------------------------------------------------
(* A teardown: by the last release, by a drain or by a forced reset.       *)

TornDown(M) ==
  /\ DropClients(M)
  /\ UNCHANGED <<phase, owner>>
  /\ cleared \subseteq cleared'
  /\ \A m \in Managers : m \notin M /\ Active(m) => Active(m)'
  /\ \A t \in Tasks : client[t] # None /\ owner[t] \in M => owner[t] \in cleared'

LEMMA TornDownKeeps ==
  ASSUME LInv, NEW M \in SUBSET Managers, TornDown(M) PROVE LInv'
<1>. USE DEF LInv, TornDown, DropClients
<1>1. LazyTypes'
  BY DEF LazyTypes, Kinds
<1>2. NothingLatched'
  BY DEF NothingLatched, LazyTypes, Kinds
<1>3. Transports'
  <2>1. ASSUME NEW i \in Inits, i \in open' PROVE
          /\ Signing(i)
          /\ at[i] \in {"checking", "connected", "ready"}
          /\ at[i] = "ready" => cached'["signing"][of[i].mgr] = i
    BY <2>1 DEF Transports, LazyTypes, Kinds, Signing
  <2>2. \A i \in Inits : i \in open /\ at[i] # "ready" => i \in open'
    BY NoneAssumption, InitsAssumption DEF NothingLatched, LazyTypes, Kinds
  <2>3. ASSUME NEW m \in Managers, cached'["signing"][m] # None
        PROVE  cached'["signing"][m] \in open'
    <3>1. m \notin M /\ cached'["signing"][m] = cached["signing"][m]
      BY <2>3 DEF Kinds
    <3>2. \A n \in Managers :
            cached["signing"][n] = cached["signing"][m] => n = m
      <4>1. \A n \in Managers :
              cached["signing"][n] # None => of[cached["signing"][n]] = For("signing", n)
        BY CachedOf DEF Kinds
      <4>2. cached["signing"][m] # None
        BY <2>3, <3>1
      <4>3. ASSUME NEW n \in Managers, cached["signing"][n] = cached["signing"][m]
            PROVE  n = m
        <5>1. For("signing", n) = For("signing", m)
          BY <4>1, <4>2, <4>3
        <5>. QED
          BY <5>1, ForInjective
      <4>. QED
        BY <4>3
    <3>. QED
      BY <2>3, <3>1, <3>2 DEF Transports
  <2>4. \A m \in Managers :
          cached'["signing"][m] # None \/ slot'["signing"][m] # None => Active(m)'
    BY DEF Transports, LazyTypes, Kinds
  <2>. QED
    BY <2>1, <2>2, <2>3, <2>4 DEF Transports, Signing
<1>4. ASSUME NEW t \in Tasks, client[t] # None, owner[t] \notin cleared'
      PROVE  cached'["signing"][owner[t]] = cached["signing"][owner[t]]
  <2>1. owner[t] \in Managers
    <3>1. of[client[t]] = For("signing", owner[t]) /\ at[client[t]] # "unused"
      BY <1>4 DEF ClientsOwned
    <3>2. client[t] \in Inits
      BY <1>4 DEF LazyTypes
    <3>3. of[client[t]].mgr \in Managers
      BY <3>1, <3>2 DEF Transports
    <3>. QED
      BY <3>1, <3>3, ForFields
  <2>. QED
    BY <1>4, <2>1 DEF Kinds
<1>5. ClientsOwned'
  BY <1>4 DEF ClientsOwned
<1>. QED
  BY <1>1, <1>2, <1>3, <1>5

LEMMA TearDownTorn ==
  ASSUME IInv, IInv', LInv, NEW m \in Managers, TearDown(m) PROVE TornDown({m})
<1>1. /\ UNCHANGED <<key, cleared, phase, owner>>
      /\ released' = [n \in Managers |-> released[n] \/ n \in {m}]
  BY DEF TearDown, ReleaseIdle, DrainFinalize, FinalizeRelease, Teardown, taskVars
<1>2. \A n \in Managers : n # m /\ Active(n) => Active(n)'
  BY <1>1 DEF Active, Built
<1>3. \A t \in Tasks : client[t] # None /\ owner[t] = m => owner[t] \in cleared'
  BY <1>1 DEF IInv, Drained, LInv, ClientsOwned, Live
<1>. QED
  BY <1>1, <1>2, <1>3 DEF TornDown, TearDown

LEMMA ResetTorn ==
  ASSUME Reset PROVE \E M \in SUBSET Managers : TornDown(M)
<1>. DEFINE M == {m \in Managers : Built(m) /\ instances[key[m]] = m}
<1>1. /\ UNCHANGED <<key, phase, owner>>
      /\ cleared' = cleared \cup M
      /\ released' = [n \in Managers |-> released[n] \/ n \in M]
  BY DEF Reset, ClearInstances, Teardown, taskVars
<1>2. \A n \in Managers : n \notin M /\ Active(n) => Active(n)'
  BY <1>1 DEF Active, Built
<1>3. TornDown(M)
  BY <1>1, <1>2 DEF TornDown, Reset
<1>. QED
  BY <1>3

-----------------------------------------------------------------------------
(* Asking for a client.                                                    *)

\* An attempt that is taken for a new connection is referred to by nobody.
LEMMA Fresh ==
  ASSUME LInv, NEW i \in Inits, Unused(i)
  PROVE  /\ i \notin open
         /\ \A k \in Kinds, m \in Managers : cached[k][m] # i /\ slot[k][m] # i
         /\ \A t \in Tasks : client[t] # i
<1>1. CASE at[i] = "unused"
  <2>1. i \notin open
    BY <1>1 DEF LInv, Transports
  <2>2. \A k \in Kinds, m \in Managers : cached[k][m] # i /\ slot[k][m] # i
    BY <1>1, InitsAssumption, CachedOf, SlotOf DEF LInv, UnderWay
  <2>3. \A t \in Tasks : client[t] # i
    BY <1>1, InitsAssumption DEF LInv, ClientsOwned
  <2>. QED
    BY <2>1, <2>2, <2>3
<1>. QED
  BY <1>1 DEF Unused

LEMMA StartKeeps ==
  ASSUME LInv, NEW k \in Kinds, NEW m \in Managers, NEW i \in Inits,
         StartInit(k, m, i), UNCHANGED vars, k = "signing" => Active(m)
  PROVE  NothingLatched' /\ Transports'
<1>. USE DEF LInv, StartInit, LazyTypes
<1>0. /\ i \notin open
      /\ \A l \in Kinds, n \in Managers : cached[l][n] # i /\ slot[l][n] # i
  BY Fresh
<1>1. NothingLatched'
  <2>1. ASSUME NEW l \in Kinds, NEW n \in Managers, slot'[l][n] # None
        PROVE  /\ at'[slot'[l][n]] \in UnderWay
               /\ of'[slot'[l][n]] = For(l, n)
               /\ cached'[l][n] = None
    <3>1. CASE l = k /\ n = m
      BY <3>1 DEF UnderWay
    <3>2. CASE ~(l = k /\ n = m)
      <4>1. slot'[l][n] = slot[l][n] /\ slot[l][n] \in Inits /\ slot[l][n] # i
        BY <1>0, <2>1, <3>2
      <4>. QED
        BY <2>1, <4>1, SlotOf
    <3>. QED
      BY <3>1, <3>2
  <2>2. ASSUME NEW l \in Kinds, NEW n \in Managers, cached'[l][n] # None
        PROVE  /\ at'[cached'[l][n]] = "ready"
               /\ of'[cached'[l][n]] = For(l, n)
    BY <1>0, <2>2, CachedOf
  <2>. QED
    BY <2>1, <2>2 DEF NothingLatched
<1>2. Active(m)' <=> Active(m)
  BY DEF vars, registryVars, holderVars, Active, Built
<1>3. \A n \in Managers : Active(n)' <=> Active(n)
  BY DEF vars, registryVars, holderVars, Active, Built
<1>4. ASSUME NEW j \in Inits
      PROVE  /\ at'[j] # "unused" => of'[j].mgr \in Managers
             /\ at'[j] = "checking" => j \in open'
             /\ Signing(j)' /\ at'[j] = "connected" => j \in open'
             /\ j \in open' =>
                  /\ Signing(j)'
                  /\ at'[j] \in {"checking", "connected", "ready"}
                  /\ at'[j] = "ready" => cached'["signing"][of'[j].mgr] = j
  <2>1. CASE j = i
    BY <1>0, <2>1, ForFields
  <2>2. CASE j # i
    BY <1>0, <2>2 DEF Transports, Signing
  <2>. QED
    BY <2>1, <2>2
<1>5. ASSUME NEW n \in Managers
      PROVE  /\ cached'["signing"][n] # None => cached'["signing"][n] \in open' /\ Active(n)
             /\ slot'["signing"][n] # None => Active(n)
  <2>1. cached'["signing"][n] # None => cached'["signing"][n] \in open' /\ Active(n)
    BY DEF Transports
  <2>2. CASE k = "signing" /\ n = m
    BY <2>1, <2>2
  <2>3. CASE ~(k = "signing" /\ n = m)
    BY <2>1, <2>3 DEF Transports, Kinds
  <2>. QED
    BY <2>2, <2>3
<1>. QED
  BY <1>1, <1>3, <1>4, <1>5 DEF Transports

LEMMA StartTypes ==
  ASSUME LazyTypes, NEW k \in Kinds, NEW m \in Managers, NEW i \in Inits,
         StartInit(k, m, i), client' \in [Tasks -> Inits \cup {None}]
  PROVE  LazyTypes'
<1>1. For(k, m) \in [kind : Kinds, mgr : Managers \cup {None}]
  BY DEF For
<1>. QED
  BY <1>1 DEF StartInit, LazyTypes, Stages

LEMMA AskKeeps ==
  ASSUME LInv, NEW m \in Managers, NEW i \in Inits, AskQuery(m, i) \/ AskEstimate(m, i)
  PROVE  LInv'
<1>1. PICK k \in Kinds :
        /\ StartInit(k, m, i)
        /\ k = "signing" => Active(m)
        /\ UNCHANGED <<vars, client>>
  BY DEF AskQuery, AskEstimate, Kinds
<1>2. LazyTypes' /\ NothingLatched' /\ Transports'
  BY <1>1, StartKeeps, StartTypes DEF LInv, LazyTypes
<1>3. ClientsOwned'
  BY <1>1, Fresh DEF LInv, ClientsOwned, StartInit, vars, taskVars, registryVars, LazyTypes
<1>. QED
  BY <1>2, <1>3 DEF LInv

\* A step of a body that touches no connection.
LEMMA BodyFrame ==
  ASSUME LInv, UNCHANGED <<slotVars, initVars, registryVars, holderVars>>,
         client' \in [Tasks -> Inits \cup {None}]
  PROVE  LazyTypes' /\ NothingLatched' /\ Transports'
<1>. USE DEF LInv, slotVars, initVars
<1>1. LazyTypes' /\ NothingLatched'
  BY DEF LazyTypes, NothingLatched
<1>2. \A m \in Managers : Active(m)' <=> Active(m)
  BY DEF registryVars, holderVars, Active, Built
<1>3. Transports'
  BY <1>2 DEF Transports, Signing
<1>. QED
  BY <1>1, <1>3

LEMMA ClientStepKeeps ==
  ASSUME IInv, LInv, NEW t \in Tasks, ClientStep(t)
  PROVE  LInv'
<1>. USE DEF TypeOK
<1>0. /\ owner[t] # None => owner[t] \in Managers
      /\ client[t] \in Inits \cup {None}
      /\ client \in [Tasks -> Inits \cup {None}]
      /\ phase \in [Tasks -> Phases]
      /\ LazyTypes /\ NothingLatched /\ Transports /\ ClientsOwned
  BY DEF IInv, LInv, LazyTypes
<1>0a. phase[t] = "started" => owner[t] \in Managers
  BY DEF IInv, WellFormed, Live
<1>1. CASE UseCached(t)
  <2>1. /\ owner[t] \in Managers
        /\ cached["signing"][owner[t]] # None
        /\ cached["signing"][owner[t]] \in Inits
    BY <1>0, <1>0a, <1>1 DEF UseCached, Asking, LazyTypes, Kinds
  <2>2. LazyTypes' /\ NothingLatched' /\ Transports'
    BY <1>0, <1>1, <2>1, BodyFrame DEF UseCached, AcquireClient, TaskStep
  <2>3. /\ of[cached["signing"][owner[t]]] = For("signing", owner[t])
        /\ at[cached["signing"][owner[t]]] = "ready"
    BY <1>0, <2>1, CachedOf DEF Kinds
  <2>4. ClientsOwned'
    BY <1>0, <1>1, <2>1, <2>3
       DEF UseCached, AcquireClient, TaskStep, ClientsOwned, slotVars, initVars, registryVars
  <2>. QED
    BY <2>2, <2>4 DEF LInv
<1>2. CASE JoinInit(t)
  <2>1. /\ owner[t] \in Managers
        /\ slot["signing"][owner[t]] # None
        /\ slot["signing"][owner[t]] \in Inits
    BY <1>0, <1>0a, <1>2 DEF JoinInit, Asking, LazyTypes, Kinds
  <2>2. LazyTypes' /\ NothingLatched' /\ Transports'
    BY <1>0, <1>2, <2>1, BodyFrame DEF JoinInit, vars
  <2>3. /\ of[slot["signing"][owner[t]]] = For("signing", owner[t])
        /\ at[slot["signing"][owner[t]]] \in UnderWay
    BY <1>0, <2>1, SlotOf DEF Kinds
  <2>4. ClientsOwned'
    BY <1>0, <1>2, <2>1, <2>3
       DEF JoinInit, Asking, ClientsOwned, slotVars, initVars, vars, registryVars, taskVars, UnderWay
  <2>. QED
    BY <2>2, <2>4 DEF LInv
<1>3. ASSUME AskSigning(t) PROVE LInv'
  <2>1. PICK i \in Inits :
          /\ Asking(t)
          /\ StartInit("signing", owner[t], i)
          /\ client' = [client EXCEPT ![t] = i]
          /\ UNCHANGED vars
    BY <1>3 DEF AskSigning
  <2>2. owner[t] \in Managers /\ Active(owner[t])
    BY <1>0a, <2>1 DEF Asking, Active, IInv, WellFormed, Live
  <2>3. LazyTypes' /\ NothingLatched' /\ Transports'
    BY <1>0, <2>1, <2>2, StartKeeps, StartTypes DEF Kinds
  <2>4. /\ \A u \in Tasks : client[u] # i
        /\ \A l \in Kinds, n \in Managers : cached[l][n] # i
    BY <2>1, Fresh DEF StartInit
  <2>5. at' = [at EXCEPT ![i] = "connecting"] /\ of' = [of EXCEPT ![i] = For("signing", owner[t])]
    BY <2>1 DEF StartInit
  <2>6. UNCHANGED <<cached, phase, owner, cleared>> /\ phase[t] = "started"
    BY <2>1 DEF StartInit, Asking, vars, registryVars, taskVars
  <2>7. ClientsOwned'
    BY <1>0, <2>1, <2>4, <2>5, <2>6 DEF ClientsOwned, LazyTypes
  <2>. QED
    BY <2>3, <2>7 DEF LInv
<1>4. CASE Resume(t) \/ FailEarly(t)
  <2>1. LazyTypes' /\ NothingLatched' /\ Transports'
    BY <1>0, <1>4, BodyFrame
       DEF Resume, FailEarly, AcquireClient, FailBody, TaskStep, lazyVars
  <2>2. ClientsOwned'
    BY <1>0, <1>4 DEF Resume, FailEarly, AcquireClient, FailBody, TaskStep, lazyVars,
                      slotVars, initVars, registryVars, ClientsOwned
  <2>. QED
    BY <2>1, <2>2 DEF LInv
<1>5. CASE ResumeFailed(t) \/ Settle(t)
  <2>1. LazyTypes' /\ NothingLatched' /\ Transports'
    BY <1>0, <1>5, BodyFrame
       DEF ResumeFailed, Settle, SettleBody, FailBody, TaskStep
  <2>2. ClientsOwned'
    BY <1>0, <1>5 DEF ResumeFailed, Settle, SettleBody, FailBody, TaskStep,
                      slotVars, initVars, registryVars, ClientsOwned
  <2>. QED
    BY <2>1, <2>2 DEF LInv
<1>. QED
  BY <1>1, <1>2, <1>3, <1>4, <1>5 DEF ClientStep

-----------------------------------------------------------------------------
(* One attempt.                                                            *)

\* The manager, the tasks and what they await are as they were.
LEMMA InitStepFrame ==
  ASSUME NEW i \in Inits, InitStep(i)
  PROVE  /\ UNCHANGED <<vars, of, client>>
         /\ \A j \in Inits : Signing(j)' <=> Signing(j)
         /\ \A m \in Managers : Active(m)' <=> Active(m)
<1>1. UNCHANGED <<vars, of, client>>
  BY DEF InitStep, Connect, ConnectFails, CheckFails, CheckPasses, Promote,
         Superseded, Break, slotVars
<1>. QED
  BY <1>1 DEF Signing, vars, registryVars, holderVars, Active, Built

\* Steps up to the init method's settling, and their effect on the transports.
LEMMA EarlyStepKeeps ==
  ASSUME LInv, NEW i \in Inits,
         Connect(i) \/ ConnectFails(i) \/ CheckFails(i) \/ CheckPasses(i)
  PROVE  LInv'
<1>. USE DEF LInv
<1>0. PICK to \in {"connecting", "checking", "connected", "broken"} :
        at' = [at EXCEPT ![i] = to]
  BY DEF Connect, ConnectFails, CheckFails, CheckPasses, Settles, Retries, Advance
<1>1. /\ at[i] \in {"connecting", "checking"}
      /\ UNCHANGED <<slotVars, vars, of, client>>
      /\ at \in [Inits -> Stages]
  BY DEF Connect, ConnectFails, CheckFails, CheckPasses, Settles, Retries, Advance, LazyTypes
<1>2. open \subseteq Inits /\ tries \in [Inits -> 0..MaxTries]
  BY DEF LazyTypes
<1>3. open' \subseteq Inits /\ tries' \in [Inits -> 0..MaxTries]
  BY <1>2, MaxTriesAssumption
     DEF Connect, ConnectFails, CheckFails, CheckPasses, Settles, Retries, slotVars
<1>4. LazyTypes'
  BY <1>0, <1>1, <1>3 DEF LazyTypes, Stages, slotVars
<1>5. NothingLatched'
  <2>1. ASSUME NEW k \in Kinds, NEW m \in Managers, slot[k][m] # None
        PROVE  /\ at'[slot[k][m]] \in UnderWay
               /\ of[slot[k][m]] = For(k, m)
               /\ cached[k][m] = None
    BY <1>0, <1>1, <2>1, SlotOf DEF UnderWay, LazyTypes
  <2>2. ASSUME NEW k \in Kinds, NEW m \in Managers, cached[k][m] # None
        PROVE  /\ at'[cached[k][m]] = "ready"
               /\ of[cached[k][m]] = For(k, m)
    BY <1>0, <1>1, <2>2, CachedOf DEF LazyTypes
  <2>. QED
    BY <1>1, <2>1, <2>2 DEF NothingLatched, slotVars
<1>6. Transports'
  <2>1. \A m \in Managers : Active(m)' <=> Active(m)
    BY <1>1 DEF vars, registryVars, holderVars, Active, Built
  <2>2. /\ \A j \in Inits : j # i => (j \in open' <=> j \in open)
        /\ i \in open' => Signing(i) /\ at'[i] \in {"checking", "connected"}
        /\ at'[i] = "checking" => i \in open'
        /\ Signing(i) /\ at'[i] = "connected" => i \in open'
    BY <1>0, <1>1 DEF Connect, ConnectFails, CheckFails, CheckPasses, Settles, Retries,
                      Advance, Transports
  <2>3. ASSUME NEW m \in Managers, cached["signing"][m] # None
        PROVE  cached["signing"][m] # i /\ cached["signing"][m] \in Inits
    BY <1>1, <2>3, CachedOf DEF LazyTypes, Kinds
  <2>. QED
    BY <1>0, <1>1, <2>1, <2>2, <2>3 DEF Transports, Signing, slotVars
<1>7. ClientsOwned'
  BY <1>0, <1>1 DEF ClientsOwned, vars, taskVars, registryVars, slotVars, LazyTypes
<1>. QED
  BY <1>4, <1>5, <1>6, <1>7

\* The handlers, once the init method has settled.
LEMMA LateStepKeeps ==
  ASSUME LInv, NEW i \in Inits, Promote(i) \/ Superseded(i) \/ Break(i)
  PROVE  LInv'
<1>. USE DEF LInv
<1>. DEFINE k == of[i].kind
            m == of[i].mgr
<1>1. /\ UNCHANGED <<vars, of, tries, client>>
      /\ at[i] \in {"connected", "broken"}
      /\ at \in [Inits -> Stages]
      /\ k \in Kinds
      /\ m \in Managers
  BY DEF Promote, Superseded, Break, Advance, LazyTypes, Transports
<1>2. \A n \in Managers : Active(n)' <=> Active(n)
  BY <1>1 DEF vars, registryVars, holderVars, Active, Built
<1>3. UNCHANGED <<phase, owner, cleared>>
  BY <1>1 DEF vars, registryVars, taskVars
<1>4. \A l \in Kinds, n \in Managers : cached[l][n] # i
  BY <1>1, CachedOf, InitsAssumption
<1>5. CASE Promote(i)
  <2>1. /\ at' = [at EXCEPT ![i] = "ready"]
        /\ cached' = [cached EXCEPT ![k][m] = i]
        /\ slot' = [slot EXCEPT ![k][m] = None]
        /\ open' = open
        /\ at[i] = "connected"
        /\ slot[k][m] = i
    BY <1>5 DEF Promote, Advance, EmptySlot, Current
  <2>2. of[i] = For(k, m)
    BY <1>1, <2>1, SlotOf, InitsAssumption
  <2>3. LazyTypes'
    BY <1>1, <2>1 DEF LazyTypes, Stages
  <2>4. NothingLatched'
    <3>1. ASSUME NEW l \in Kinds, NEW n \in Managers, slot'[l][n] # None
          PROVE  /\ at'[slot'[l][n]] \in UnderWay
                 /\ of[slot'[l][n]] = For(l, n)
                 /\ cached'[l][n] = None
      <4>1. ~(l = k /\ n = m) /\ slot'[l][n] = slot[l][n] /\ cached'[l][n] = cached[l][n]
        BY <1>1, <2>1, <3>1 DEF LazyTypes
      <4>2. of[slot[l][n]] = For(l, n)
        BY <3>1, <4>1, SlotOf
      <4>3. slot[l][n] # i
        BY <2>2, <4>1, <4>2, ForFields
      <4>. QED
        BY <2>1, <3>1, <4>1, <4>3, SlotOf DEF LazyTypes
    <3>2. ASSUME NEW l \in Kinds, NEW n \in Managers, cached'[l][n] # None
          PROVE  /\ at'[cached'[l][n]] = "ready"
                 /\ of[cached'[l][n]] = For(l, n)
      <4>1. CASE l = k /\ n = m
        BY <1>1, <2>1, <2>2, <4>1 DEF LazyTypes
      <4>2. CASE ~(l = k /\ n = m)
        BY <1>1, <2>1, <3>2, <4>2, CachedOf DEF LazyTypes
      <4>. QED
        BY <4>1, <4>2
    <3>. QED
      BY <1>1, <3>1, <3>2 DEF NothingLatched
  <2>5. Transports'
    <3>1. ASSUME NEW n \in Managers
          PROVE  /\ cached'["signing"][n] # None =>
                      cached'["signing"][n] \in open /\ Active(n)
                 /\ slot'["signing"][n] # None => Active(n)
      <4>1. CASE k = "signing" /\ n = m
        <5>1. i \in open
          BY <2>1, <4>1 DEF Transports, Signing
        <5>2. Active(m)
          BY <2>1, <4>1, InitsAssumption DEF Transports
        <5>. QED
          BY <2>1, <4>1, <5>1, <5>2 DEF LazyTypes
      <4>2. CASE ~(k = "signing" /\ n = m)
        <5>1. cached'["signing"][n] = cached["signing"][n] /\ slot'["signing"][n] = slot["signing"][n]
          BY <1>1, <2>1, <4>2 DEF LazyTypes, Kinds
        <5>. QED
          BY <5>1 DEF Transports
      <4>. QED
        BY <4>1, <4>2
    <3>2. ASSUME NEW j \in Inits, j \in open
          PROVE  /\ at'[j] \in {"checking", "connected", "ready"}
                 /\ at'[j] = "ready" => cached'["signing"][of[j].mgr] = j
      <4>1. CASE j = i
        BY <1>1, <2>1, <3>2, <4>1 DEF LazyTypes, Transports, Signing, Kinds
      <4>2. CASE j # i
        <5>1. at[j] = "ready" => cached["signing"][of[j].mgr] = j /\ of[j].mgr \in Managers
          BY <3>2 DEF Transports
        <5>2. k = "signing" => cached["signing"][m] = None
          BY <1>1, <2>1, SlotOf, InitsAssumption
        <5>3. at[j] = "ready" => cached'["signing"][of[j].mgr] = j
          BY <1>1, <2>1, <4>2, <5>1, <5>2, InitsAssumption DEF LazyTypes, Kinds
        <5>. QED
          BY <1>1, <2>1, <3>2, <4>2, <5>3 DEF Transports
      <4>. QED
        BY <4>1, <4>2
    <3>. QED
      BY <1>1, <1>2, <2>1, <3>1, <3>2 DEF Transports, Signing
  <2>6. ClientsOwned'
    <3>1. ASSUME NEW t \in Tasks, client[t] # None, at'[client[t]] = "ready",
                 owner[t] \notin cleared
          PROVE  cached'["signing"][owner[t]] = client[t]
      <4>1. of[client[t]] = For("signing", owner[t])
        BY <3>1 DEF ClientsOwned
      <4>2. CASE client[t] = i
        BY <1>1, <2>1, <2>2, <4>1, <4>2, ForFields DEF LazyTypes, Kinds
      <4>3. CASE client[t] # i
        <5>1. client[t] \in Inits /\ at[client[t]] = "ready"
          BY <1>1, <2>1, <3>1, <4>3 DEF LazyTypes
        <5>2. cached["signing"][owner[t]] = client[t]
          BY <3>1, <5>1 DEF ClientsOwned
        <5>3. k = "signing" => cached["signing"][m] = None
          BY <1>1, <2>1, SlotOf, InitsAssumption
        <5>. QED
          BY <1>1, <2>1, <5>1, <5>2, <5>3, InitsAssumption DEF LazyTypes, Kinds
      <4>. QED
        BY <4>2, <4>3
    <3>. QED
      BY <1>1, <1>3, <2>1, <3>1 DEF ClientsOwned, LazyTypes
  <2>. QED
    BY <2>3, <2>4, <2>5, <2>6
<1>6. CASE Superseded(i) \/ Break(i)
  <2>1. PICK to \in {"ready", "failed"} :
          /\ at' = [at EXCEPT ![i] = to]
          /\ to = "ready" => ~Signing(i)
    BY <1>6 DEF Superseded, Break, Advance
  <2>2. /\ cached' = cached
        /\ \A j \in Inits : j # i => (j \in open' <=> j \in open)
        /\ i \notin open'
        /\ open' \subseteq open
    BY <1>6 DEF Superseded, Break, Advance, slotVars, Transports
  <2>0. \/ slot' = slot /\ slot[k][m] # i
        \/ slot' = [slot EXCEPT ![k][m] = None]
    BY <1>6 DEF Superseded, Break, Current, EmptySlot, slotVars
  <2>3. \A l \in Kinds, n \in Managers :
          /\ slot'[l][n] # i
          /\ slot'[l][n] # None => slot'[l][n] = slot[l][n]
    <3>1. ASSUME NEW l \in Kinds, NEW n \in Managers, slot[l][n] = i
          PROVE  l = k /\ n = m
      <4>1. of[i] = For(l, n)
        BY <3>1, SlotOf, InitsAssumption
      <4>. QED
        BY <4>1, ForFields
    <3>2. ASSUME NEW l \in Kinds, NEW n \in Managers
          PROVE  \/ slot'[l][n] = slot[l][n] /\ (l = k /\ n = m => slot[l][n] # i)
                 \/ l = k /\ n = m /\ slot'[l][n] = None
      BY <1>1, <2>0 DEF LazyTypes
    <3>3. ASSUME NEW l \in Kinds, NEW n \in Managers
          PROVE  slot'[l][n] # i /\ (slot'[l][n] # None => slot'[l][n] = slot[l][n])
      BY <3>1, <3>2, InitsAssumption
    <3>. QED
      BY <3>3
  <2>4. slot' \in [Kinds -> [Managers -> Inits \cup {None}]]
    <3>1. slot \in [Kinds -> [Managers -> Inits \cup {None}]]
      BY DEF LazyTypes
    <3>2. slot[k] \in [Managers -> Inits \cup {None}]
      BY <1>1, <3>1
    <3>3. [slot[k] EXCEPT ![m] = None] \in [Managers -> Inits \cup {None}]
      BY <1>1, <3>2
    <3>4. [slot EXCEPT ![k] = [slot[k] EXCEPT ![m] = None]]
            \in [Kinds -> [Managers -> Inits \cup {None}]]
      BY <1>1, <3>1, <3>3
    <3>. QED
      BY <2>0, <3>1, <3>4
  <2>5. LazyTypes'
    BY <1>1, <2>1, <2>2, <2>4 DEF LazyTypes, Stages
  <2>6. NothingLatched'
    <3>1. ASSUME NEW l \in Kinds, NEW n \in Managers, slot'[l][n] # None
          PROVE  /\ at'[slot'[l][n]] \in UnderWay
                 /\ of[slot'[l][n]] = For(l, n)
                 /\ cached[l][n] = None
      BY <2>1, <2>3, <3>1, SlotOf DEF LazyTypes
    <3>2. ASSUME NEW l \in Kinds, NEW n \in Managers, cached[l][n] # None
          PROVE  /\ at'[cached[l][n]] = "ready"
                 /\ of[cached[l][n]] = For(l, n)
      BY <1>4, <2>1, <3>2, CachedOf DEF LazyTypes
    <3>. QED
      BY <1>1, <2>2, <3>1, <3>2 DEF NothingLatched
  <2>7. Transports'
    <3>1. \A n \in Managers :
            /\ cached["signing"][n] # None => cached["signing"][n] \in open' /\ Active(n)
            /\ slot'["signing"][n] # None => Active(n)
      BY <1>4, <2>2, <2>3 DEF Transports, Kinds, LazyTypes
    <3>2. ASSUME NEW j \in Inits
          PROVE  /\ at'[j] # "unused" => of[j].mgr \in Managers
                 /\ at'[j] = "checking" => j \in open'
                 /\ Signing(j) /\ at'[j] = "connected" => j \in open'
                 /\ j \in open' =>
                      /\ Signing(j)
                      /\ at'[j] \in {"checking", "connected", "ready"}
                      /\ at'[j] = "ready" => cached["signing"][of[j].mgr] = j
      BY <1>1, <2>1, <2>2 DEF Transports
    <3>. QED
      BY <1>1, <1>2, <2>2, <3>1, <3>2 DEF Transports, Signing
  <2>8. ClientsOwned'
    <3>1. ASSUME NEW t \in Tasks, client[t] = i PROVE to # "ready"
      <4>1. of[i] = For("signing", owner[t])
        BY <3>1, InitsAssumption DEF ClientsOwned
      <4>2. Signing(i)
        BY <4>1, ForFields DEF Signing
      <4>. QED
        BY <2>1, <4>2
    <3>2. ASSUME NEW t \in Tasks, client[t] # None
          PROVE  /\ at'[client[t]] # "unused"
                 /\ at'[client[t]] = "ready" => client[t] # i /\ at[client[t]] = "ready"
                 /\ at[client[t]] = "ready" => at'[client[t]] = "ready"
      BY <1>1, <2>1, <3>1, <3>2 DEF ClientsOwned, LazyTypes
    <3>. QED
      BY <1>1, <1>3, <2>2, <3>2 DEF ClientsOwned
  <2>. QED
    BY <2>5, <2>6, <2>7, <2>8
<1>. QED
  BY <1>5, <1>6

-----------------------------------------------------------------------------

LEMMA NextLInv ==
  ASSUME IInv, IInv', LInv, [LazyNext]_lazyAll
  PROVE  LInv'
<1>1. CASE UNCHANGED lazyAll
  <2>1. Quiet
    BY <1>1 DEF Quiet, lazyAll, vars, registryVars, holderVars, taskVars, Active, Built
  <2>. QED
    BY <2>1, QuietKeeps
<1>2. CASE Acquire /\ UNCHANGED lazyVars
  BY <1>2, AcquireQuiet, QuietKeeps
<1>3. CASE Reset
  BY <1>3, ResetTorn, TornDownKeeps
<1>4. ASSUME NEW m \in Managers, TearDown(m) PROVE LInv'
  BY <1>4, TearDownTorn, TornDownKeeps
<1>5. ASSUME NEW m \in Managers, Elsewhere(m) PROVE LInv'
  BY <1>5, ElsewhereQuiet, QuietKeeps
<1>6. ASSUME NEW m \in Managers, NEW i \in Inits, AskQuery(m, i) \/ AskEstimate(m, i)
      PROVE  LInv'
  BY <1>6, AskKeeps
<1>7. ASSUME NEW t \in Tasks, LockStep(t) PROVE LInv'
  BY <1>7, LockStepQuiet, QuietKeeps
<1>8. ASSUME NEW t \in Tasks, ClientStep(t) PROVE LInv'
  BY <1>8, ClientStepKeeps
<1>9. ASSUME NEW i \in Inits, InitStep(i) PROVE LInv'
  BY <1>9, EarlyStepKeeps, LateStepKeeps DEF InitStep
<1>. QED
  BY <1>1, <1>2, <1>3, <1>4, <1>5, <1>6, <1>7, <1>8, <1>9 DEF LazyNext

\* LInv is an invariant, next to ClientManager's own.
THEOREM LInvInvariant == LazySpec => [](IInv /\ LInv)
<1>1. LazyInit => IInv /\ LInv
  BY InitLInv
<1>2. IInv /\ LInv /\ [LazyNext]_lazyAll => IInv' /\ LInv'
  BY LazyStep, NextIInv, NextLInv
<1>. QED
  BY <1>1, <1>2, PTL DEF LazySpec

\* Every variable of the manager and of its clients keeps its type.
THEOREM LazyTypeCorrect == LazySpec => []LazyTypeOK
<1>1. IInv /\ LInv => LazyTypeOK
  BY DEF IInv, LInv, LazyTypes, LazyTypeOK
<1>. QED
  BY <1>1, LInvInvariant, PTL

\* No teardown and no failed check leaves a transport that nobody will close.
THEOREM TransportsOwned == LazySpec => []NoOrphanTransport
<1>1. LInv => NoOrphanTransport
  <2>. SUFFICES ASSUME LInv, NEW i \in Inits, i \in open, at[i] = "ready"
                PROVE  \E m \in Managers : cached["signing"][m] = i /\ ~released[m]
    BY DEF NoOrphanTransport, LInv, Transports, UnderWay
  <2>1. of[i].mgr \in Managers /\ cached["signing"][of[i].mgr] = i
    BY DEF LInv, Transports
  <2>2. ~released[of[i].mgr]
    BY <2>1, InitsAssumption DEF LInv, Transports, Active
  <2>. QED
    BY <2>1, <2>2
<1>. QED
  BY <1>1, LInvInvariant, PTL

\* The promise field never holds a settled attempt.
THEOREM NeverLatched == LazySpec => []NothingLatched
<1>1. LInv => NothingLatched
  BY DEF LInv
<1>. QED
  BY <1>1, LInvInvariant, PTL

\* A broadcast runs on an open transport unless a forced reset came.
THEOREM BroadcastsOpen == LazySpec => []BroadcastsOnOpenClient
<1>1. IInv /\ LInv => BroadcastsOnOpenClient
  <2>. SUFFICES ASSUME IInv, LInv, NEW t \in Tasks, phase[t] = "broadcasting",
                       owner[t] \notin cleared
                PROVE  client[t] # None /\ client[t] \in open
    BY DEF BroadcastsOnOpenClient
  <2>1. owner[t] \in Managers
    BY DEF IInv, WellFormed, Live
  <2>2. client[t] # None /\ cached["signing"][owner[t]] = client[t]
    BY DEF LInv, ClientsOwned
  <2>. QED
    BY <2>1, <2>2 DEF LInv, Transports
<1>. QED
  BY <1>1, LInvInvariant, PTL

-----------------------------------------------------------------------------
(* The server process.                                                     *)

\* The process has one manager from the start on, no forced reset happens in it,
\* and its calls and broadcasts come once it serves.
Begun ==
  /\ cleared = {}
  /\ \A t \in Tasks : phase[t] # "new" => owner[t] = runtime
  /\ stage = "starting" => runtime = None
  /\ stage \in {"created", "serving"} => runtime # None
  /\ stage # "serving" =>
       /\ \A c \in Calls : call[c] = "idle"
       /\ \A t \in Tasks : phase[t] = "new"

\* closeResources is entered once, by the shutdown or by the failed start.
ClosedOnce ==
  /\ closing = "no" <=> closings = 0
  /\ closing = "no" <=> ~shuttingDown /\ stage # "failed"
  /\ shuttingDown => stage = "serving"
  /\ settled => shuttingDown /\ (closing = "closed" \/ timer = "passed")
  /\ ~wallet => closing = "closed"

\* The process holds its manager until it closes it, and goes on to the wallet
\* only when the manager's last release has torn it down.
Held ==
  runtime # None =>
    /\ closing \in {"no", "runtime"} =>
         /\ refCount[runtime] = 1
         /\ drain[runtime] = "none"
         /\ ~released[runtime]
    /\ closing \notin {"no", "runtime"} =>
         /\ refCount[runtime] = 0
         /\ released[runtime] \/ (closing = "drain" /\ drain[runtime] = "waiting")

PInv == ProcTypeOK /\ Begun /\ ClosedOnce /\ Held

LEMMA InitPInv == ProcInit => IInv /\ PInv
<1>. SUFFICES ASSUME ProcInit PROVE IInv /\ PInv
  OBVIOUS
<1>1. IInv
  BY InitIInv DEF ProcInit
<1>2. ProcTypeOK
  <2>1. TypeOK
    BY <1>1 DEF IInv
  <2>2. /\ call \in [Calls -> {"idle", "running", "aborted", "done"}]
        /\ doing \in [Calls -> Tasks \cup {None}]
        /\ paid \in [Calls -> BOOLEAN]
    BY DEF ProcInit
  <2>3. closings \in 0..1 /\ closing \in Closing
    BY DEF ProcInit, Closing
  <2>. QED
    BY <2>1, <2>2, <2>3 DEF ProcInit, ProcTypeOK
<1>3. Begun /\ ClosedOnce /\ Held
  BY DEF ProcInit, Init, Begun, ClosedOnce, Held
<1>. QED
  BY <1>1, <1>2, <1>3 DEF PInv

\* Closing goes forward, and whatever enters it finds it not begun.
LEMMA Opens ==
  ASSUME PInv, NEW by, stage # "failed", Shutdown(by)
  PROVE  \/ shuttingDown /\ NoShutdown
         \/ /\ ~shuttingDown /\ closing = "no" /\ closings = 0 /\ ~settled /\ wallet
            /\ CloseServer
            /\ shuttingDown' = TRUE /\ timer' = "on" /\ exitWith' = by
BY DEF Shutdown, PInv, ClosedOnce, ProcTypeOK

-----------------------------------------------------------------------------
(* What the process does with its manager.                                 *)

\* A step leaves the manager alone, or is one of five that use it.
LEMMA ProcKinds ==
  ASSUME [ProcNext]_procAll
  PROVE  \/ UNCHANGED vars /\ UNCHANGED runtime
         \/ Create
         \/ CloseRuntime /\ runtime # None
         \/ \E t \in Tasks : BodyStep(t) /\ UNCHANGED procVars
         \/ runtime # None /\ DrainStep(runtime) /\ UNCHANGED procVars
         \/ \E c \in Calls, t \in Tasks : CallBroadcasts(c, t)
<1>1. CASE UNCHANGED procAll
  BY <1>1 DEF procAll, procVars
<1>2. CASE Serve \/ StartFails \/ FatalExit \/ LoopEmpty
  BY <1>2 DEF Serve, StartFails, FatalExit, LoopEmpty
<1>3. CASE InputEnds \/ TransportCloses \/ Deadline \/ Settled \/ \E s \in Signals : Signal(s)
  BY <1>3 DEF InputEnds, TransportCloses, Deadline, Settled, Signal
<1>4. CASE CloseStep
  BY <1>4 DEF CloseStep, CloseRuntime, RuntimeDrained, CloseWallet
<1>5. CASE \E c \in Calls : CallArrives(c) \/ CallStep(c)
  BY <1>5 DEF CallArrives, CallStep, CallGoesOn, CallEnds
<1>6. CASE ManagerStep
  BY <1>6 DEF ManagerStep
<1>. QED
  BY <1>1, <1>2, <1>3, <1>4, <1>5, <1>6 DEF ProcNext, ProcStep

\* The process acquires, uses and releases its manager as ClientManager has it.
LEMMA ProcIsNext == ASSUME PInv, [ProcNext]_procAll PROVE [Next]_vars
<1>0. runtime # None => runtime \in Managers
  BY DEF PInv, ProcTypeOK
<1>1. CASE Create
  BY <1>1 DEF Create, Next, Acquire
<1>2. CASE CloseRuntime /\ runtime # None
  BY <1>0, <1>2 DEF CloseRuntime, Next, Release
<1>3. CASE \E t \in Tasks : BodyStep(t)
  BY <1>3 DEF Next
<1>4. CASE runtime # None /\ DrainStep(runtime)
  BY <1>0, <1>4 DEF Next
<1>5. ASSUME NEW c \in Calls, NEW t \in Tasks, CallBroadcasts(c, t) PROVE Next
  <2>1. runtime \in Managers
    BY <1>0, <1>5 DEF CallBroadcasts, PInv, Begun, ProcTypeOK
  <2>. QED
    BY <1>5, <2>1 DEF CallBroadcasts, Next, Submit
<1>. QED
  BY <1>1, <1>2, <1>3, <1>4, <1>5, ProcKinds

-----------------------------------------------------------------------------
(* Types of the process.                                                   *)

LEMMA ShutdownTypes ==
  ASSUME PInv, NEW by \in Signals \cup {"none"}, stage # "failed", Shutdown(by)
  PROVE  /\ shuttingDown' \in BOOLEAN
         /\ closings' \in 0..1
         /\ closing' \in Closing
         /\ timer' \in {"off", "on", "passed"}
         /\ exitWith' \in Signals \cup {"none"}
         /\ call' \in [Calls -> {"idle", "running", "aborted", "done"}]
<1>1. CASE NoShutdown
  BY <1>1 DEF NoShutdown, PInv, ProcTypeOK
<1>2. CASE /\ closings = 0 /\ CloseServer
           /\ shuttingDown' = TRUE /\ timer' = "on" /\ exitWith' = by
  <2>1. closings' = 1 /\ closing' \in Closing
    BY <1>2 DEF CloseServer, Closing
  <2>2. call' \in [Calls -> {"idle", "running", "aborted", "done"}]
    BY <1>2 DEF CloseServer, PInv, ProcTypeOK
  <2>. QED
    BY <1>2, <2>1, <2>2
<1>. QED
  BY <1>1, <1>2, Opens

LEMMA NextProcTypeOK ==
  ASSUME PInv, TypeOK', [ProcNext]_procAll
  PROVE  ProcTypeOK'
<1>. USE DEF PInv, ProcTypeOK
<1>1. CASE UNCHANGED procVars
  BY <1>1 DEF procVars, shutdownVars, callVars
<1>2. CASE Create
  BY <1>2 DEF Create, shutdownVars, callVars
<1>3. CASE Serve
  <2>1. CASE ended
    <3>1. Shutdown("none") /\ stage # "failed"
      BY <1>3, <2>1 DEF Serve
    <3>. HIDE DEF PInv
    <3>2. /\ shuttingDown' \in BOOLEAN
          /\ closings' \in 0..1
          /\ closing' \in Closing
          /\ timer' \in {"off", "on", "passed"}
          /\ exitWith' \in Signals \cup {"none"}
          /\ call' \in [Calls -> {"idle", "running", "aborted", "done"}]
      BY <3>1, ShutdownTypes
    <3>. QED
      BY <1>3, <3>2 DEF Serve, PInv
  <2>2. CASE ~ended
    BY <1>3, <2>2 DEF Serve, NoShutdown
  <2>. QED
    BY <2>1, <2>2
<1>4. CASE StartFails
  <2>1. closings' \in 0..1
    BY <1>4 DEF StartFails, CloseServer, ClosedOnce
  <2>. QED
    BY <1>4, <2>1 DEF StartFails, CloseServer, Closing
<1>5. CASE FatalExit \/ LoopEmpty
  BY <1>5 DEF FatalExit, LoopEmpty, shutdownVars, callVars
<1>6. CASE InputEnds
  <2>1. CASE stage = "serving"
    <3>1. Shutdown("none")
      BY <1>6, <2>1 DEF InputEnds
    <3>. HIDE DEF PInv
    <3>2. /\ shuttingDown' \in BOOLEAN
          /\ closings' \in 0..1
          /\ closing' \in Closing
          /\ timer' \in {"off", "on", "passed"}
          /\ exitWith' \in Signals \cup {"none"}
          /\ call' \in [Calls -> {"idle", "running", "aborted", "done"}]
      BY <2>1, <3>1, ShutdownTypes
    <3>. QED
      BY <1>6, <3>2 DEF InputEnds, PInv
  <2>2. CASE stage # "serving"
    BY <1>6, <2>2 DEF InputEnds, NoShutdown
  <2>. QED
    BY <2>1, <2>2
<1>7. CASE TransportCloses
  <2>1. Shutdown("none") /\ stage = "serving"
    BY <1>7 DEF TransportCloses
  <2>. HIDE DEF PInv
  <2>2. /\ shuttingDown' \in BOOLEAN
        /\ closings' \in 0..1
        /\ closing' \in Closing
        /\ timer' \in {"off", "on", "passed"}
        /\ exitWith' \in Signals \cup {"none"}
        /\ call' \in [Calls -> {"idle", "running", "aborted", "done"}]
    BY <2>1, ShutdownTypes
  <2>. QED
    BY <1>7, <2>2 DEF TransportCloses, PInv
<1>8. CASE Deadline \/ Settled
  BY <1>8 DEF Deadline, Settled, callVars
<1>9. ASSUME NEW s \in Signals, Signal(s) PROVE ProcTypeOK'
  <2>1. CASE stage = "serving" /\ ~settled
    <3>1. Shutdown(s) /\ stage = "serving"
      BY <1>9, <2>1 DEF Signal
    <3>. HIDE DEF PInv
    <3>2. /\ shuttingDown' \in BOOLEAN
          /\ closings' \in 0..1
          /\ closing' \in Closing
          /\ timer' \in {"off", "on", "passed"}
          /\ exitWith' \in Signals \cup {"none"}
          /\ call' \in [Calls -> {"idle", "running", "aborted", "done"}]
      BY <3>1, ShutdownTypes
    <3>3. forcedExit' \in BOOLEAN /\ exit' \in Signals \cup {"no", "fatal", "empty"}
      BY <1>9, <2>1 DEF Signal, PInv
    <3>. QED
      BY <1>9, <3>2, <3>3 DEF Signal, PInv
  <2>2. CASE ~(stage = "serving" /\ ~settled)
    BY <1>9, <2>2 DEF Signal, NoShutdown
  <2>. QED
    BY <2>1, <2>2
<1>10. CASE CloseStep
  BY <1>10 DEF CloseStep, CloseRuntime, RuntimeDrained, CloseWallet, CloseTo, Closing,
               shutdownVars, callVars
<1>11. ASSUME NEW c \in Calls, CallArrives(c) \/ CallStep(c) PROVE ProcTypeOK'
  BY <1>11 DEF CallArrives, CallStep, CallGoesOn, CallEnds, shutdownVars
<1>12. ASSUME NEW c \in Calls, NEW t \in Tasks, CallBroadcasts(c, t) PROVE ProcTypeOK'
  BY <1>12 DEF CallBroadcasts, shutdownVars
<1>. QED
  BY <1>1, <1>2, <1>3, <1>4, <1>5, <1>6, <1>7, <1>8, <1>9, <1>10, <1>11, <1>12
     DEF ProcNext, ProcStep, ManagerStep, procAll

-----------------------------------------------------------------------------
(* Serving and closing.                                                    *)

LEMMA BodyStepFrame ==
  ASSUME IInv, NEW t \in Tasks, BodyStep(t)
  PROVE  /\ UNCHANGED <<registryVars, holderVars, owner>>
         /\ phase[t] # "new"
         /\ \A u \in Tasks \ {t} : phase'[u] = phase[u]
BY DEF BodyStep, StartBody, AcquireClient, FailBody, SettleBody, CleanUp, TaskStep, IInv, TypeOK

LEMMA DrainStepFrame ==
  ASSUME IInv, NEW m \in Managers, DrainStep(m)
  PROVE  /\ UNCHANGED <<refCount, cleared, phase, owner>>
         /\ drain[m] # "none"
         /\ released[m] => released'[m]
         /\ refCount[m] = 0 =>
              drain[m] = "resolved" \/ released'[m] \/ drain'[m] = drain[m]
<1>. USE DEF registryVars, holderVars, taskVars
<1>1. CASE DrainAgain(m)
  BY <1>1 DEF DrainAgain, Snapshotted
<1>2. CASE DrainFinalize(m)
  BY <1>2 DEF DrainFinalize, FinalizeRelease, Teardown, Snapshotted
<1>3. CASE DrainCancelled(m)
  BY <1>3 DEF DrainCancelled, Snapshotted, IInv, TypeOK
<1>4. CASE ForgetDrain(m)
  BY <1>4 DEF ForgetDrain
<1>. QED
  BY <1>1, <1>2, <1>3, <1>4 DEF DrainStep

\* A release of the last holder tears the manager down, or leaves it draining.
LEMMA LastRelease ==
  ASSUME IInv, NEW m \in Managers, drain[m] = "none", ReleaseIdle(m) \/ ReleaseBusy(m)
  PROVE  /\ refCount'[m] = 0
         /\ released'[m] \/ drain'[m] = "waiting"
         /\ UNCHANGED <<cleared, phase, owner>>
<1>1. CASE ReleaseIdle(m)
  BY <1>1 DEF ReleaseIdle, FinalizeRelease, Teardown, IInv, TypeOK, taskVars
<1>2. CASE ReleaseBusy(m)
  BY <1>2 DEF ReleaseBusy, IInv, TypeOK, registryVars, taskVars
<1>. QED
  BY <1>1, <1>2

\* A manager that is built is held once.
LEMMA BuiltHeld ==
  ASSUME IInv, NEW k \in Keys, NEW m \in Managers, BuildInstance(k, m)
  PROVE  /\ refCount'[m] = 1 /\ drain'[m] = "none" /\ ~released'[m]
         /\ UNCHANGED <<cleared, phase, owner>>
BY DEF BuildInstance, IInv, TypeOK, WellFormed, taskVars

\* Closing moves in order.
LEMMA ClosingSteps ==
  ASSUME PInv, [ProcNext]_procAll
  PROVE  \/ UNCHANGED closing
         \/ closing = "no" /\ closing' = "runtime" /\ UNCHANGED vars /\ UNCHANGED runtime
         \/ CloseStep
<1>1. ASSUME NEW by, stage # "failed", Shutdown(by)
      PROVE  UNCHANGED closing \/ (closing = "no" /\ closing' = "runtime")
  BY <1>1, Opens DEF NoShutdown, CloseServer
<1>2. CASE UNCHANGED procVars \/ Create
  BY <1>2 DEF procVars, Create
<1>3. CASE Serve \/ InputEnds \/ TransportCloses \/ \E s \in Signals : Signal(s)
  <2>1. /\ UNCHANGED vars /\ UNCHANGED runtime
        /\ NoShutdown \/ \E by : stage # "failed" /\ Shutdown(by)
    BY <1>3 DEF Serve, InputEnds, TransportCloses, Signal
  <2>. QED
    BY <1>1, <2>1 DEF NoShutdown
<1>4. CASE StartFails
  <2>1. closing = "no"
    BY <1>4 DEF StartFails, PInv, ClosedOnce
  <2>. QED
    BY <1>4, <2>1 DEF StartFails, CloseServer
<1>5. CASE FatalExit \/ LoopEmpty \/ Deadline \/ Settled
  BY <1>5 DEF FatalExit, LoopEmpty, Deadline, Settled
<1>6. CASE \E c \in Calls : CallArrives(c) \/ CallStep(c) \/ \E t \in Tasks : CallBroadcasts(c, t)
  BY <1>6 DEF CallArrives, CallStep, CallGoesOn, CallEnds, CallBroadcasts
<1>. QED
  BY <1>2, <1>3, <1>4, <1>5, <1>6 DEF ProcNext, ProcStep, ManagerStep, procAll

\* Calls come while the process serves, and broadcasts from calls.
LEMMA NextBegun ==
  ASSUME IInv, PInv, [ProcNext]_procAll
  PROVE  Begun'
<1>. USE DEF PInv, Begun
<1>1. ASSUME NEW by, stage # "failed", Shutdown(by)
      PROVE  \A c \in Calls : call[c] = "idle" => call'[c] = "idle"
  BY <1>1, Opens DEF NoShutdown, CloseServer, ProcTypeOK
<1>2. CASE UNCHANGED procAll
  BY <1>2 DEF procAll, vars, registryVars, taskVars, procVars, callVars
<1>3. CASE Create
  <2>1. PICK k \in Keys, m \in Managers : BuildInstance(k, m) /\ runtime' = m
    BY <1>3 DEF Create
  <2>2. stage = "starting" /\ stage' = "created" /\ call' = call
    BY <1>3 DEF Create, callVars
  <2>3. UNCHANGED <<cleared, phase, owner>> /\ runtime' # None
    BY <2>1, BuiltHeld, NoneAssumption
  <2>. QED
    BY <2>2, <2>3
<1>4. CASE Serve
  <2>1. /\ stage = "created" /\ stage' = "serving"
        /\ UNCHANGED <<cleared, phase, owner, runtime>>
    BY <1>4 DEF Serve, vars, registryVars, taskVars
  <2>. QED
    BY <2>1
<1>5. CASE StartFails
  <2>1. /\ stage \in {"starting", "created"} /\ stage' = "failed"
        /\ UNCHANGED <<cleared, phase, owner, runtime>>
        /\ \A c \in Calls : call[c] = "idle" => call'[c] = "idle"
    BY <1>5 DEF StartFails, CloseServer, vars, registryVars, taskVars
  <2>. QED
    BY <2>1
<1>6. CASE InputEnds \/ TransportCloses \/ \E s \in Signals : Signal(s)
  <2>1. /\ UNCHANGED <<cleared, phase, owner, runtime, stage>>
        /\ NoShutdown \/ \E by : stage # "failed" /\ Shutdown(by)
    BY <1>6 DEF InputEnds, TransportCloses, Signal, vars, registryVars, taskVars
  <2>2. \A c \in Calls : call[c] = "idle" => call'[c] = "idle"
    BY <1>1, <2>1 DEF NoShutdown
  <2>. QED
    BY <2>1, <2>2
<1>7. CASE FatalExit \/ LoopEmpty \/ Deadline \/ Settled
  BY <1>7 DEF FatalExit, LoopEmpty, Deadline, Settled, vars, registryVars, taskVars, callVars
<1>8. CASE CloseStep
  <2>1. UNCHANGED <<stage, runtime, call>>
    BY <1>8 DEF CloseStep, CloseRuntime, RuntimeDrained, CloseWallet, callVars
  <2>2. UNCHANGED <<cleared, phase, owner>>
    <3>1. CASE CloseRuntime /\ runtime # None
      <4>1. runtime \in Managers /\ (ReleaseIdle(runtime) \/ ReleaseBusy(runtime))
        BY <3>1 DEF CloseRuntime, ProcTypeOK
      <4>2. drain[runtime] = "none"
        BY <3>1 DEF CloseRuntime, CloseTo, Held
      <4>. QED
        BY <4>1, <4>2, LastRelease
    <3>2. CASE UNCHANGED vars
      BY <3>2 DEF vars, registryVars, taskVars
    <3>. QED
      BY <1>8, <3>1, <3>2 DEF CloseStep, CloseRuntime, RuntimeDrained, CloseWallet
  <2>. QED
    BY <2>1, <2>2
<1>9. CASE ManagerStep
  <2>1. UNCHANGED <<stage, runtime, call>>
    BY <1>9 DEF ManagerStep, procVars, callVars
  <2>2. /\ UNCHANGED <<cleared, owner>>
        /\ \A t \in Tasks : phase[t] = "new" => phase'[t] = "new"
    <3>1. ASSUME NEW t \in Tasks, BodyStep(t)
          PROVE  /\ UNCHANGED <<cleared, owner>>
                 /\ \A u \in Tasks : phase[u] = "new" => phase'[u] = "new"
      BY <3>1, BodyStepFrame DEF registryVars
    <3>2. runtime # None /\ DrainStep(runtime) => UNCHANGED <<cleared, owner, phase>>
      BY DrainStepFrame DEF ProcTypeOK
    <3>. QED
      BY <1>9, <3>1, <3>2 DEF ManagerStep
  <2>. QED
    BY <2>1, <2>2
<1>10. ASSUME NEW c \in Calls, CallArrives(c) \/ CallStep(c) PROVE Begun'
  <2>1. /\ UNCHANGED <<cleared, phase, owner, runtime, stage>>
        /\ stage # "serving" => call[c] # "idle"
    BY <1>10 DEF CallArrives, CallStep, CallGoesOn, CallEnds, vars, registryVars, taskVars,
       ProcTypeOK, IInv
  <2>. QED
    BY <2>1
<1>11. ASSUME NEW c \in Calls, NEW t \in Tasks, CallBroadcasts(c, t) PROVE Begun'
  <2>1. stage = "serving" /\ runtime \in Managers /\ UNCHANGED <<stage, runtime>>
    BY <1>11 DEF CallBroadcasts, ProcTypeOK
  <2>2. PICK s \in Signers : WithBroadcastLock(t, runtime, s)
    BY <1>11 DEF CallBroadcasts
  <2>3. owner'[t] = runtime
    BY <2>1, <2>2, SubmitSets
  <2>4. /\ UNCHANGED cleared
        /\ \A u \in Tasks \ {t} : phase'[u] = phase[u] /\ owner'[u] = owner[u]
    BY <2>2 DEF WithBroadcastLock, registryVars
  <2>. QED
    BY <2>1, <2>3, <2>4
<1>. QED
  BY <1>2, <1>3, <1>4, <1>5, <1>6, <1>7, <1>8, <1>9, <1>10, <1>11 DEF ProcNext, ProcStep

LEMMA NextClosedOnce ==
  ASSUME PInv, [ProcNext]_procAll
  PROVE  ClosedOnce'
<1>. USE DEF ClosedOnce
<1>0. ClosedOnce /\ ProcTypeOK
  BY DEF PInv
<1>1. CASE UNCHANGED <<closing, closings, stage, shuttingDown, settled, timer, wallet>>
  BY <1>0, <1>1
<1>2. ASSUME NEW by, stage # "failed", Shutdown(by), stage' = "serving",
             UNCHANGED <<settled, wallet>>, stage \in {"created", "serving"}
      PROVE  ClosedOnce'
  <2>1. CASE shuttingDown /\ NoShutdown
    BY <1>0, <1>2, <2>1 DEF NoShutdown
  <2>2. CASE /\ ~shuttingDown /\ closing = "no" /\ closings = 0 /\ ~settled /\ wallet
             /\ CloseServer
             /\ shuttingDown' = TRUE /\ timer' = "on" /\ exitWith' = by
    BY <1>0, <1>2, <2>2 DEF CloseServer
  <2>. QED
    BY <1>2, <2>1, <2>2, Opens
<1>3. CASE Create
  BY <1>0, <1>3 DEF Create, shutdownVars
<1>4. CASE Serve
  <2>1. CASE ended
    <3>1. stage \in {"created", "serving"} /\ stage # "failed" /\ Shutdown("none")
          /\ stage' = "serving" /\ UNCHANGED <<settled, wallet>>
      BY <1>4, <2>1 DEF Serve
    <3>. QED
      BY <1>2, <3>1
  <2>2. CASE ~ended
    BY <1>0, <1>4, <2>2 DEF Serve, NoShutdown
  <2>. QED
    BY <2>1, <2>2
<1>5. CASE StartFails
  BY <1>0, <1>5 DEF StartFails, CloseServer
<1>6. CASE InputEnds \/ TransportCloses \/ \E s \in Signals : Signal(s)
  <2>1. /\ UNCHANGED <<stage, settled, wallet>>
        /\ NoShutdown \/ \E by : stage = "serving" /\ Shutdown(by)
    BY <1>6 DEF InputEnds, TransportCloses, Signal
  <2>2. CASE NoShutdown
    BY <1>0, <2>1, <2>2 DEF NoShutdown
  <2>. QED
    BY <1>2, <2>1, <2>2
<1>7. CASE FatalExit \/ LoopEmpty
  BY <1>1, <1>7 DEF FatalExit, LoopEmpty, shutdownVars
<1>8. CASE Deadline \/ Settled
  BY <1>0, <1>8 DEF Deadline, Settled
<1>9. CASE CloseStep
  <2>1. /\ closing \in {"runtime", "drain", "wallet"} /\ closing' \in {"drain", "wallet", "closed"}
        /\ UNCHANGED <<stage, closings, shuttingDown, settled, timer>>
        /\ wallet' = wallet \/ closing' = "closed"
        /\ closing' = "closed" \/ closing # "closed"
    BY <1>9 DEF CloseStep, CloseRuntime, RuntimeDrained, CloseWallet, CloseTo, shutdownVars
  <2>. QED
    BY <1>0, <2>1
<1>10. CASE ManagerStep \/ UNCHANGED procAll
  BY <1>1, <1>10 DEF ManagerStep, procAll, procVars, shutdownVars
<1>11. ASSUME NEW c \in Calls,
              CallArrives(c) \/ CallStep(c) \/ \E t \in Tasks : CallBroadcasts(c, t)
       PROVE  ClosedOnce'
  BY <1>1, <1>11 DEF CallArrives, CallStep, CallGoesOn, CallEnds, CallBroadcasts, shutdownVars
<1>. QED
  BY <1>3, <1>4, <1>5, <1>6, <1>7, <1>8, <1>9, <1>10, <1>11 DEF ProcNext, ProcStep

LEMMA NextHeld ==
  ASSUME IInv, PInv, [ProcNext]_procAll
  PROVE  Held'
<1>. USE DEF Held
<1>0. /\ Held /\ runtime \in Managers \cup {None} /\ closing \in Closing
      /\ stage = "starting" => runtime = None
  BY DEF PInv, ProcTypeOK, Begun
<1>1. ASSUME UNCHANGED <<runtime, closing, refCount, drain, released>> PROVE Held'
  BY <1>0, <1>1
<1>2. CASE UNCHANGED vars /\ UNCHANGED runtime
  <2>1. UNCHANGED <<refCount, drain, released>>
    BY <1>2 DEF vars, holderVars
  <2>2. CASE UNCHANGED closing
    BY <1>1, <1>2, <2>1, <2>2
  <2>3. CASE closing = "no" /\ closing' = "runtime"
    BY <1>0, <1>2, <2>1, <2>3
  <2>4. CASE CloseStep
    <3>1. CASE CloseRuntime /\ runtime # None
      <4>1. /\ closing = "runtime" /\ runtime \in Managers
            /\ ReleaseIdle(runtime) \/ ReleaseBusy(runtime)
        BY <1>0, <3>1 DEF CloseRuntime, CloseTo
      <4>2. refCount[runtime] = 1 /\ refCount'[runtime] = 0
        BY <1>0, <3>1, <4>1, LastRelease
      <4>. QED
        BY <2>1, <4>2
    <3>2. CASE CloseRuntime /\ runtime = None
      BY <1>2, <3>2
    <3>3. CASE RuntimeDrained \/ CloseWallet
      BY <1>0, <1>2, <2>1, <3>3 DEF RuntimeDrained, CloseWallet, CloseTo
    <3>. QED
      BY <2>4, <3>1, <3>2, <3>3 DEF CloseStep
  <2>. QED
    BY <2>2, <2>3, <2>4, ClosingSteps
<1>3. CASE Create
  <2>1. PICK k \in Keys, m \in Managers : BuildInstance(k, m) /\ runtime' = m
    BY <1>3 DEF Create
  <2>2. closing' = "no"
    BY <1>3 DEF Create, PInv, ClosedOnce
  <2>. QED
    BY <2>1, <2>2, BuiltHeld
<1>4. CASE CloseRuntime /\ runtime # None
  <2>1. /\ closing = "runtime" /\ closing' = "drain" /\ runtime \in Managers
        /\ runtime' = runtime
        /\ ReleaseIdle(runtime) \/ ReleaseBusy(runtime)
    BY <1>0, <1>4 DEF CloseRuntime, CloseTo
  <2>2. drain[runtime] = "none"
    BY <1>0, <1>4, <2>1
  <2>. QED
    BY <2>1, <2>2, LastRelease
<1>5. ASSUME NEW t \in Tasks, BodyStep(t), UNCHANGED procVars PROVE Held'
  BY <1>1, <1>5, BodyStepFrame DEF procVars, holderVars
<1>6. CASE runtime # None /\ DrainStep(runtime) /\ UNCHANGED procVars
  <2>1. runtime \in Managers /\ UNCHANGED <<runtime, closing>>
    BY <1>0, <1>6 DEF procVars
  <2>2. /\ refCount' = refCount /\ drain[runtime] # "none"
        /\ released[runtime] => released'[runtime]
        /\ refCount[runtime] = 0 =>
             drain[runtime] = "resolved" \/ released'[runtime] \/ drain'[runtime] = drain[runtime]
    BY <1>6, <2>1, DrainStepFrame
  <2>. QED
    BY <1>0, <2>1, <2>2
<1>7. ASSUME NEW c \in Calls, NEW t \in Tasks, CallBroadcasts(c, t) PROVE Held'
  BY <1>1, <1>7 DEF CallBroadcasts, WithBroadcastLock, holderVars
<1>. QED
  BY <1>2, <1>3, <1>4, <1>5, <1>6, <1>7, ProcKinds

LEMMA NextPInv ==
  ASSUME IInv, PInv, [ProcNext]_procAll
  PROVE  IInv' /\ PInv'
<1>1. IInv'
  BY ProcIsNext, NextIInv
<1>2. ProcTypeOK'
  BY <1>1, NextProcTypeOK DEF IInv
<1>. QED
  BY <1>1, <1>2, NextBegun, NextClosedOnce, NextHeld DEF PInv

-----------------------------------------------------------------------------
(* What follows for the process.                                           *)

NoneLive == \A t \in Tasks : phase[t] \notin Live

\* Past the drain no accepted broadcast is left: a manager is torn down only
\* after its broadcasts, and a process without one never took any.
LEMMA DrainedDry ==
  ASSUME IInv, PInv, closing \in {"wallet", "closed"}
  PROVE  NoneLive
<1>1. CASE runtime = None
  <2>1. \A t \in Tasks : phase[t] = "new"
    BY <1>1 DEF PInv, Begun, ProcTypeOK
  <2>. QED
    BY <2>1 DEF NoneLive, Live
<1>2. CASE runtime # None
  <2>1. released[runtime] /\ cleared = {}
    BY <1>2 DEF PInv, Held, Begun
  <2>2. \A t \in Tasks : phase[t] \in Live => owner[t] = runtime
    BY DEF PInv, Begun, Live
  <2>. QED
    BY <2>1, <2>2 DEF NoneLive, IInv, Drained
<1>. QED
  BY <1>1, <1>2

\* A process that ends has lost patience, was forced, or has nothing in flight.
LEMMA StepSettles ==
  ASSUME IInv, PInv, AcceptedSettle, [ProcNext]_procAll
  PROVE  AcceptedSettle'
<1>. USE DEF AcceptedSettle
<1>1. CASE UNCHANGED procAll
  BY <1>1 DEF procAll, procVars, shutdownVars, vars, taskVars
<1>2. CASE exit = "no" /\ exit' = "no"
  BY <1>2
<1>3. ASSUME stage # "serving" PROVE NoneLive
  BY <1>3 DEF PInv, Begun, NoneLive, Live
<1>4. ASSUME settled \/ closing = "closed" PROVE timer = "passed" \/ NoneLive
  BY <1>4, DrainedDry DEF PInv, ClosedOnce
<1>5. ASSUME NEW s \in Signals, Signal(s), exit = "no" PROVE AcceptedSettle'
  <2>0. UNCHANGED phase /\ (timer = "passed" /\ NoShutdown => timer' = "passed")
    BY <1>5 DEF Signal, vars, taskVars, NoShutdown
  <2>1. CASE stage = "serving" /\ ~settled /\ shuttingDown
    BY <1>5, <2>1 DEF Signal
  <2>2. CASE stage = "serving" /\ ~settled /\ ~shuttingDown
    BY <1>5, <2>2 DEF Signal
  <2>3. CASE ~(stage = "serving" /\ ~settled)
    <3>1. NoShutdown
      BY <1>5, <2>3 DEF Signal
    <3>. QED
      BY <1>3, <1>4, <2>0, <2>3, <3>1 DEF NoneLive
  <2>. QED
    BY <2>1, <2>2, <2>3
<1>6. CASE Settled
  <2>1. /\ closing = "closed" \/ timer = "passed"
        /\ UNCHANGED <<phase, timer>>
    BY <1>6 DEF Settled, vars, taskVars
  <2>. QED
    BY <1>4, <2>1 DEF NoneLive
<1>7. CASE FatalExit \/ LoopEmpty
  <2>1. closing = "closed" /\ UNCHANGED phase
    BY <1>7 DEF FatalExit, LoopEmpty, vars, taskVars
  <2>. QED
    BY <2>1, DrainedDry DEF NoneLive
<1>8. ASSUME \/ Create \/ Serve \/ StartFails \/ InputEnds \/ TransportCloses \/ Deadline
             \/ CloseStep \/ ManagerStep
             \/ \E c \in Calls : CallArrives(c) \/ CallStep(c)
             \/ \E c \in Calls, t \in Tasks : CallBroadcasts(c, t)
      PROVE  UNCHANGED exit
  BY <1>8 DEF Create, Serve, StartFails, InputEnds, TransportCloses, Deadline,
     CloseStep, CloseRuntime, RuntimeDrained, CloseWallet, ManagerStep, procVars,
     CallArrives, CallStep, CallGoesOn, CallEnds, CallBroadcasts
<1>. QED
  BY <1>1, <1>2, <1>5, <1>6, <1>7, <1>8 DEF ProcNext, ProcStep

LEMMA ProcInvariant == ProcSpec => [](IInv /\ PInv)
<1>1. ProcInit => IInv /\ PInv
  BY InitPInv
<1>2. IInv /\ PInv /\ [ProcNext]_procAll => IInv' /\ PInv'
  BY NextPInv
<1>. QED
  BY <1>1, <1>2, PTL DEF ProcSpec

\* Every variable of the process, and of its manager, keeps its type.
THEOREM ProcTypeCorrect == ProcSpec => []ProcTypeOK
<1>1. PInv => ProcTypeOK
  BY DEF PInv
<1>. QED
  BY <1>1, ProcInvariant, PTL

\* Starting, serving and shutting down acquire, use and release the manager as
\* ClientManager allows, so that what is proved of it holds in the process.
THEOREM ProcRefines == ProcSpec => ProcImplementsClientManager
<1>1. ProcInit => Init
  BY DEF ProcInit
<1>2. PInv /\ [ProcNext]_procAll => [Next]_vars
  BY ProcIsNext
<1>. QED
  BY <1>1, <1>2, ProcInvariant, PTL DEF ProcSpec, ProcImplementsClientManager, Spec

\* However triggers, the deadline and a second signal meet, the process ends
\* under an accepted broadcast only past the deadline or when it is forced.
THEOREM ProcSettles == ProcSpec => []AcceptedSettle
<1>1. ProcInit => AcceptedSettle
  BY DEF ProcInit, AcceptedSettle
<1>2. IInv /\ PInv /\ AcceptedSettle /\ [ProcNext]_procAll => AcceptedSettle'
  BY StepSettles
<1>. QED
  BY <1>1, <1>2, ProcInvariant, PTL DEF ProcSpec

\* Also past the deadline, no wallet is disconnected under a broadcast.
THEOREM WalletLast == ProcSpec => []WalletOutlivesBroadcasts
<1>1. IInv /\ PInv => WalletOutlivesBroadcasts
  BY DrainedDry DEF PInv, ClosedOnce, WalletOutlivesBroadcasts, NoneLive
<1>. QED
  BY <1>1, ProcInvariant, PTL
=============================================================================
