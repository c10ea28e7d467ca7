---------------------------- MODULE SignerMutex ----------------------------
(***************************************************************************)
(* What CosmosClientManager.withBroadcastLock promises to its callers      *)
(* (core/src/client.ts): broadcasts that share a lock run one at a time,   *)
(* in the order they asked, and each one gives the lock up whether it      *)
(* succeeded or failed.  ClientManager implements this module, and         *)
(* TxExecution uses it as the lock its operations wait for.                *)
(***************************************************************************)
CONSTANTS Tasks,     \* the broadcasts that may ever ask for a lock
          Locks      \* the locks: one per signer and coordination object

VARIABLES line,      \* lock -> the tasks that wait for it or hold it
          ahead,     \* task -> the tasks it lets go first
          granted,   \* tasks whose body is running
          finished   \* tasks that gave their lock up

mutexVars == <<line, ahead, granted, finished>>

Init == /\ line = [l \in Locks |-> {}]
        /\ ahead = [t \in Tasks |-> {}]
        /\ granted = {}
        /\ finished = {}

\* Whoever is in line already goes first.
Request(t, l) ==
  /\ t \notin finished
  /\ \A k \in Locks : t \notin line[k]
  /\ line' = [line EXCEPT ![l] = @ \cup {t}]
  /\ ahead' = [ahead EXCEPT ![t] = line[l]]
  /\ UNCHANGED <<granted, finished>>

Grant(t, l) ==
  /\ t \in line[l]
  /\ t \notin granted
  /\ ahead[t] = {}
  /\ granted' = granted \cup {t}
  /\ UNCHANGED <<line, ahead, finished>>

Release(t, l) ==
  /\ t \in line[l]
  /\ t \in granted
  /\ line' = [line EXCEPT ![l] = @ \ {t}]
  /\ ahead' = [u \in Tasks |-> ahead[u] \ {t}]
  /\ granted' = granted \ {t}
  /\ finished' = finished \cup {t}

Next == \E t \in Tasks, l \in Locks :
          Request(t, l) \/ Grant(t, l) \/ Release(t, l)

Spec == Init /\ [][Next]_mutexVars

\* What the lock is for: of those in a line, one at most runs, and everybody
\* else in that line lets it go first.
Exclusive ==
  \A l \in Locks : \A t, u \in line[l] :
    t \in granted /\ t # u => u \notin granted /\ t \in ahead[u]

\* And it moves: in a line that is not empty somebody runs or has its turn.
Moving == \A l \in Locks : line[l] # {} => \E t \in line[l] : ahead[t] = {}
=============================================================================
