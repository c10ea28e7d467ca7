---------------------------- MODULE LazyClients ----------------------------
(***************************************************************************)
(* The clients a CosmosClientManager connects lazily (core/src/client.ts,  *)
(* getQueryClient and getSigningClient), on top of its registry, holders   *)
(* and broadcast locks (ClientManager).  A connection is made once for all *)
(* who ask while it is under way; a teardown may land at any await of it.  *)
(* A signing client owns a transport that somebody has to close; a query   *)
(* client is stateless HTTP.                                               *)
(***************************************************************************)
EXTENDS ClientManager

CONSTANTS Inits,       \* connection attempts that may be alive at once
          MaxTries     \* maxRetries of the connection's withRetry

ASSUME InitsAssumption == None \notin Inits
ASSUME MaxTriesAssumption == MaxTries \in Nat

VARIABLES
  cached,     \* kind -> manager -> the attempt whose client it holds, or None
  slot,       \* kind -> manager -> the attempt in its promise field, or None
  at,         \* attempt -> how far it is
  of,         \* attempt -> its kind and its manager
  tries,      \* attempt -> connections its withRetry has retried
  open,       \* the attempts whose signing client's transport is open
  client      \* task -> the attempt it awaits, or whose client it uses

slotVars == <<cached, slot>>
initVars == <<at, of, tries, open>>
lazyVars == <<slotVars, initVars, client>>

Kinds == {"query", "signing"}
For(k, m) == [kind |-> k, mgr |-> m]
NoOne == For("query", None)

\* An attempt is "connecting", "checking" the chain id of an open connection,
\* "connected" or "broken" when the init method has settled, "ready" or "failed"
\* when its promise, which callers await, has.
Stages == {"unused", "connecting", "checking", "connected", "broken", "ready", "failed"}
UnderWay == {"connecting", "checking", "connected", "broken"}

LazyInit ==
  /\ Init
  /\ cached = [k \in Kinds |-> [m \in Managers |-> None]]
  /\ slot = [k \in Kinds |-> [m \in Managers |-> None]]
  /\ at = [i \in Inits |-> "unused"]
  /\ of = [i \in Inits |-> NoOne]
  /\ tries = [i \in Inits |-> 0]
  /\ open = {}
  /\ client = [t \in Tasks |-> None]

-----------------------------------------------------------------------------
(* Asking for a client.                                                    *)

\* An attempt that settled is forgotten with the last that refers to it.
Unused(i) ==
  \/ at[i] = "unused"
  \/ /\ at[i] \in {"ready", "failed"}
     /\ i \notin open
     /\ \A k \in Kinds, m \in Managers : cached[k][m] # i /\ slot[k][m] # i
     /\ \A t \in Tasks : client[t] # i

\* Nothing cached and nothing under way: a new attempt takes the promise field.
StartInit(k, m, i) ==
  /\ cached[k][m] = None
  /\ slot[k][m] = None
  /\ Unused(i)
  /\ slot' = [slot EXCEPT ![k][m] = i]
  /\ at' = [at EXCEPT ![i] = "connecting"]
  /\ of' = [of EXCEPT ![i] = For(k, m)]
  /\ UNCHANGED <<cached, tries, open>>

\* A query, of any manager still referred to: queries do not ask whether it was
\* released.  An estimate, of a live manager, outside the broadcast lock.
AskQuery(m, i) ==
  /\ Built(m)
  /\ StartInit("query", m, i)
  /\ UNCHANGED <<vars, client>>

AskEstimate(m, i) ==
  /\ Active(m)
  /\ StartInit("signing", m, i)
  /\ UNCHANGED <<vars, client>>

\* A broadcast's body, on a manager that has not been released.
Asking(t) == phase[t] = "started" /\ client[t] = None /\ ~released[owner[t]]

UseCached(t) ==
  /\ Asking(t)
  /\ cached["signing"][owner[t]] # None
  /\ AcquireClient(t)
  /\ client' = [client EXCEPT ![t] = cached["signing"][owner[t]]]
  /\ UNCHANGED <<slotVars, initVars>>

JoinInit(t) ==
  /\ Asking(t)
  /\ cached["signing"][owner[t]] = None
  /\ slot["signing"][owner[t]] # None
  /\ client' = [client EXCEPT ![t] = slot["signing"][owner[t]]]
  /\ UNCHANGED <<vars, slotVars, initVars>>

AskSigning(t) ==
  \E i \in Inits :
    /\ Asking(t)
    /\ StartInit("signing", owner[t], i)
    /\ client' = [client EXCEPT ![t] = i]
    /\ UNCHANGED vars

\* The promise it awaited has settled.
Resume(t) ==
  /\ client[t] # None
  /\ at[client[t]] = "ready"
  /\ AcquireClient(t)
  /\ UNCHANGED lazyVars

\* Mutant: a failed connection also drops the broadcast from the pending ones,
\* before its lock is given up.
ResumeForgets(t) ==
  /\ client[t] # None
  /\ at[client[t]] = "failed"
  /\ phase[t] = "started"
  /\ phase' = [phase EXCEPT ![t] = "settled"]
  /\ pendingBroadcasts' = [pendingBroadcasts EXCEPT ![owner[t]] = @ \ {t}]
  /\ client' = [client EXCEPT ![t] = None]
  /\ UNCHANGED <<registryVars, holderVars, broadcastLocks, owner, signer, prev, clock, born,
                 slotVars, initVars>>

ResumeFailed(t) ==
  /\ client[t] # None
  /\ at[client[t]] = "failed"
  /\ FailBody(t)
  /\ client' = [client EXCEPT ![t] = None]
  /\ UNCHANGED <<slotVars, initVars>>

\* Cancelled or failed before it asked, or refused by a released manager.
FailEarly(t) == client[t] = None /\ FailBody(t) /\ UNCHANGED lazyVars

Settle(t) ==
  /\ SettleBody(t)
  /\ client' = [client EXCEPT ![t] = None]
  /\ UNCHANGED <<slotVars, initVars>>

-----------------------------------------------------------------------------
(* One attempt: initQueryClient or initSigningClient, and its handlers.    *)

Signing(i) == of[i].kind = "signing"
Current(i) == slot[of[i].kind][of[i].mgr] = i

Advance(i, from, to) == at[i] = from /\ at' = [at EXCEPT ![i] = to]

\* The init method settles, and its withRetry with it.
Settles(i, from, to) ==
  /\ Advance(i, from, to)
  /\ tries' = [tries EXCEPT ![i] = 0]
Retries(i, from) ==
  /\ tries[i] < MaxTries
  /\ Advance(i, from, "connecting")
  /\ tries' = [tries EXCEPT ![i] = @ + 1]

\* A query client is built once the endpoint's identity is verified; a signing
\* client connects first.
Connect(i) ==
  /\ IF Signing(i)
     THEN /\ Advance(i, "connecting", "checking")
          /\ open' = open \cup {i}
          /\ UNCHANGED tries
     ELSE /\ Settles(i, "connecting", "connected")
          /\ UNCHANGED open
  /\ UNCHANGED <<vars, slotVars, of, client>>

\* Mutant: a connection that fails its check is left open.
CheckFailsOpen(i) ==
  /\ Settles(i, "checking", "broken") \/ Retries(i, "checking")
  /\ UNCHANGED <<vars, slotVars, of, open, client>>

\* The chain id cannot be read or is another, or the client cannot be
\* configured: the connection is closed, and the attempt retried if the error
\* was transient.
CheckFails(i) ==
  /\ Settles(i, "checking", "broken") \/ Retries(i, "checking")
  /\ open' = open \ {i}
  /\ UNCHANGED <<vars, slotVars, of, client>>

CheckPasses(i) ==
  /\ Settles(i, "checking", "connected")
  /\ UNCHANGED <<vars, slotVars, of, open, client>>

\* No signer, no identity, no connection: retried, or for good.
ConnectFails(i) ==
  /\ Settles(i, "connecting", "broken") \/ Retries(i, "connecting")
  /\ UNCHANGED <<vars, slotVars, of, open, client>>

EmptySlot(k, m) == slot' = [slot EXCEPT ![k][m] = None]

\* The handler of a success, while the attempt is still the active one: its
\* client is cached and the promise field emptied.
Promote(i) ==
  /\ Advance(i, "connected", "ready")
  /\ Current(i)
  /\ cached' = [cached EXCEPT ![of[i].kind][of[i].mgr] = i]
  /\ EmptySlot(of[i].kind, of[i].mgr)
  /\ UNCHANGED <<vars, of, tries, open, client>>

\* A teardown came first.  A query client is handed over all the same; a signing
\* client is disconnected and refused.
Superseded(i) ==
  /\ Advance(i, "connected", IF Signing(i) THEN "failed" ELSE "ready")
  /\ ~Current(i)
  /\ open' = open \ {i}
  /\ UNCHANGED <<vars, slotVars, of, tries, client>>

\* Mutant: the handler takes itself for superseded, and the rejected promise
\* stays in the field (ENG-636).
BreakLatched(i) ==
  /\ Advance(i, "broken", "failed")
  /\ UNCHANGED <<vars, slotVars, of, tries, open, client>>

\* The handler of a failure empties the field if it is still its own.
Break(i) ==
  /\ Advance(i, "broken", "failed")
  /\ IF Current(i) THEN EmptySlot(of[i].kind, of[i].mgr) ELSE UNCHANGED slot
  /\ UNCHANGED <<vars, cached, of, tries, open, client>>

-----------------------------------------------------------------------------
(* teardown(): the signing client is disconnected, and both caches and both *)
(* promise fields are emptied.                                             *)

DropClients(M) ==
  /\ cached' = [k \in Kinds |-> [m \in Managers |-> IF m \in M THEN None ELSE cached[k][m]]]
  /\ slot' = [k \in Kinds |-> [m \in Managers |-> IF m \in M THEN None ELSE slot[k][m]]]
  /\ open' = open \ {cached["signing"][m] : m \in M}
  /\ UNCHANGED <<at, of, tries, client>>

TearDown(m) == (ReleaseIdle(m) \/ DrainFinalize(m)) /\ DropClients({m})

Reset ==
  /\ ClearInstances
  /\ DropClients({m \in Managers : Built(m) /\ instances[key[m]] = m})

-----------------------------------------------------------------------------

\* What leaves the clients alone.
Elsewhere(m) ==
  /\ ReleaseShared(m) \/ ReleaseBusy(m) \/ DrainAgain(m) \/ DrainCancelled(m) \/ ForgetDrain(m)
  /\ UNCHANGED lazyVars

LockStep(t) == (Submit(t) \/ StartBody(t) \/ CleanUp(t)) /\ UNCHANGED lazyVars
ClientStep(t) == \/ UseCached(t) \/ JoinInit(t) \/ AskSigning(t)
                 \/ Resume(t) \/ ResumeFailed(t) \/ FailEarly(t) \/ Settle(t)
InitStep(i) == \/ Connect(i) \/ ConnectFails(i) \/ CheckFails(i) \/ CheckPasses(i)
               \/ Promote(i) \/ Superseded(i) \/ Break(i)

LazyNext ==
  \/ Acquire /\ UNCHANGED lazyVars
  \/ Reset
  \/ \E m \in Managers : TearDown(m) \/ Elsewhere(m)
  \/ \E m \in Managers, i \in Inits : AskQuery(m, i) \/ AskEstimate(m, i)
  \/ \E t \in Tasks : LockStep(t) \/ ClientStep(t)
  \/ \E i \in Inits : InitStep(i)

lazyAll == <<vars, lazyVars>>
LazySpec == LazyInit /\ [][LazyNext]_lazyAll

-----------------------------------------------------------------------------
(* Properties.                                                             *)

LazyTypeOK ==
  /\ TypeOK
  /\ cached \in [Kinds -> [Managers -> Inits \cup {None}]]
  /\ slot \in [Kinds -> [Managers -> Inits \cup {None}]]
  /\ at \in [Inits -> Stages]
  /\ of \in [Inits -> [kind : Kinds, mgr : Managers \cup {None}]]
  /\ tries \in [Inits -> 0..MaxTries]
  /\ open \subseteq Inits
  /\ client \in [Tasks -> Inits \cup {None}]

\* No transport is orphaned, wherever a release, a forced reset or a failed
\* check lands: an open one belongs to an attempt under way or is the cached
\* client of a manager that has not been torn down, which closes it.
NoOrphanTransport ==
  \A i \in Inits :
    i \in open =>
      \/ at[i] \in UnderWay
      \/ \E m \in Managers : cached["signing"][m] = i /\ ~released[m]

\* A settled attempt never stays in the promise field, so a failed connection is
\* tried again by the next caller (ENG-636); and the field and the cache are
\* only ever of the manager and the kind the attempt was made for.
NothingLatched ==
  \A k \in Kinds, m \in Managers :
    /\ slot[k][m] # None => /\ at[slot[k][m]] \in UnderWay
                            /\ of[slot[k][m]] = For(k, m)
                            /\ cached[k][m] = None
    /\ cached[k][m] # None => /\ at[cached[k][m]] = "ready"
                              /\ of[cached[k][m]] = For(k, m)

\* A broadcast is made on an open transport, whatever was released while it
\* connected or ran: only a forced reset closes it under a broadcast.
BroadcastsOnOpenClient ==
  \A t \in Tasks :
    phase[t] = "broadcasting" =>
      owner[t] \in cleared \/ (client[t] # None /\ client[t] \in open)

\* Connecting lazily is invisible to ClientManager: every step is one of its
\* own or leaves its state alone.
ImplementsClientManager == Spec
=============================================================================
