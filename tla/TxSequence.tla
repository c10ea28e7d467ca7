----------------------------- MODULE TxSequence -----------------------------
(***************************************************************************)
(* Local sequence tracking for one signer                                  *)
(* (core/src/internals/tx-sequence.ts), by which a burst of SYNC           *)
(* broadcasts signs consecutive sequences before any of them is included.  *)
(*                                                                         *)
(* A signer's calls run one at a time: that is withBroadcastLock, modelled *)
(* by ClientManager and TxExecution.  The chain is external: it knows the  *)
(* committed sequence, and checks a transaction or a gas simulation        *)
(* against the sequence its mempool has advanced to.                       *)
(***************************************************************************)
EXTENDS Integers

CONSTANTS MaxSeq,    \* bound on the signer's sequence
          Fees,      \* "auto": gas is simulated first; "explicit": it is not
          Events,    \* of "external", "evicted", "lost", "released": what
                     \* may happen around the calls
          None

ASSUME MaxSeqAssumption == MaxSeq \in Nat
ASSUME NoneAssumption == None \notin Nat

VARIABLES
  committed, pending,   \* the chain: committed sequence, mempool transactions
  cache,                \* the signer's entry in the SequenceCache, or None
  pc,                   \* where the call that holds the lock is
  wait,                 \* does it wait for inclusion?
  tracked,              \* was there an entry when it began?
  used,                 \* the sequence its present request carries
  estimate,             \* the sequence its gas was simulated with, or None
  disturbed             \* history: since the last acceptance the chain moved
                        \* by other means than this signer's calls

chainVars == <<committed, pending>>
callVars == <<wait, tracked, estimate>>
vars == <<chainVars, cache, pc, callVars, used, disturbed>>

\* The check state: the only sequence the node accepts next.
Check == committed + pending

\* The shadowed getSequence: the entry's sequence, or the committed one.
GetSequence == IF cache = None THEN committed ELSE cache

Init ==
  /\ committed = 0 /\ pending = 0
  /\ cache = None
  /\ pc = "idle"
  /\ wait = FALSE /\ tracked = FALSE /\ estimate = None
  /\ used = 0
  /\ disturbed = FALSE

-----------------------------------------------------------------------------
(* A call, under the signer's lock.                                        *)

Call(fee, w) ==
  /\ pc = "idle"
  /\ pc' = IF fee = "auto" THEN "estimating" ELSE "broadcasting"
  /\ wait' = w
  /\ tracked' = (cache # None)
  /\ estimate' = None
  /\ UNCHANGED <<chainVars, cache, used, disturbed>>

\* Mutant: the simulation reads the committed sequence, whatever is in flight.
EstimateCommitted ==
  /\ pc = "estimating"
  /\ pc' = "simulating"
  /\ used' = committed
  /\ UNCHANGED <<chainVars, cache, callVars, disturbed>>

\* managedSimulate: ask with the sequence the broadcast is to sign.
Estimate ==
  /\ pc = "estimating"
  /\ pc' = "simulating"
  /\ used' = GetSequence
  /\ UNCHANGED <<chainVars, cache, callVars, disturbed>>

\* The node simulates: it refuses any sequence but the check state's.
Simulated ==
  /\ pc = "simulating"
  /\ used = Check
  /\ pc' = "broadcasting"
  /\ estimate' = used
  /\ UNCHANGED <<chainVars, cache, wait, tracked, used, disturbed>>

\* A simulation that fails, for its sequence or in transit, ends the call and
\* leaves the entry alone.
SimulationFails ==
  /\ pc = "simulating"
  /\ used # Check \/ "lost" \in Events
  /\ pc' = "idle"
  /\ UNCHANGED <<chainVars, cache, callVars, used, disturbed>>

\* managedBroadcast: sign with the entry's sequence.  Without an entry a
\* blocking call reads the committed sequence and keeps none; a SYNC call seeds
\* the entry with it.
Broadcast ==
  /\ pc = "broadcasting"
  /\ pc' = "submitting"
  /\ used' = GetSequence
  /\ cache' = IF wait THEN cache ELSE GetSequence
  /\ UNCHANGED <<chainVars, callVars, disturbed>>

\* The committed sequence cannot be read: there is nothing to clean up.
SeedFails ==
  /\ pc = "broadcasting"
  /\ cache = None
  /\ pc' = "idle"
  /\ UNCHANGED <<chainVars, cache, callVars, used, disturbed>>

\* The node's CheckTx takes the transaction in.
Arrive ==
  /\ pc = "submitting"
  /\ used = Check
  /\ Check < MaxSeq
  /\ pending' = pending + 1
  /\ pc' = "accepted"
  /\ disturbed' = FALSE
  /\ UNCHANGED <<committed, cache, callVars, used>>

\* Mutants: the catch arm restores the entry the call found; a failure after
\* acceptance resets nothing.
RejectedRestores ==
  /\ pc = "submitting"
  /\ pc' = "idle"
  /\ cache' = IF tracked THEN cache ELSE None
  /\ UNCHANGED <<chainVars, callVars, used, disturbed>>
AnswerLostKept ==
  /\ pc = "accepted"
  /\ "lost" \in Events
  /\ pc' = "idle"
  /\ UNCHANGED <<chainVars, cache, callVars, used, disturbed>>

\* The catch arm: whatever went wrong, the entry goes.  The transaction was not
\* signed, did not arrive, or was refused, for its sequence or otherwise ...
Rejected ==
  /\ pc = "submitting"
  /\ pc' = "idle"
  /\ cache' = None
  /\ UNCHANGED <<chainVars, callVars, used, disturbed>>

\* ... or it was accepted, and the answer or the inclusion was not seen in time.
AnswerLost ==
  /\ pc = "accepted"
  /\ "lost" \in Events
  /\ pc' = "idle"
  /\ cache' = None
  /\ UNCHANGED <<chainVars, callVars, used, disturbed>>

\* Mutant: the sequence is not consumed.
AcceptedUncounted ==
  /\ pc = "accepted"
  /\ ~wait
  /\ pc' = "idle"
  /\ cache' = used
  /\ UNCHANGED <<chainVars, callVars, used, disturbed>>

\* A SYNC call returns: its sequence is consumed, the entry counts on.
Accepted ==
  /\ pc = "accepted"
  /\ ~wait
  /\ pc' = "idle"
  /\ cache' = used + 1
  /\ UNCHANGED <<chainVars, callVars, used, disturbed>>

\* A blocking call has seen its inclusion: the committed sequence is
\* authoritative again and the entry goes.
Confirmed ==
  /\ pc = "accepted"
  /\ wait
  /\ committed > used
  /\ pc' = "idle"
  /\ cache' = None
  /\ UNCHANGED <<chainVars, callVars, used, disturbed>>

\* teardown: the chain's last manager leaves, when no call is under way.
Forget ==
  /\ "released" \in Events
  /\ pc = "idle"
  /\ cache # None
  /\ cache' = None
  /\ UNCHANGED <<chainVars, pc, callVars, used, disturbed>>

-----------------------------------------------------------------------------
(* The chain.                                                              *)

Include ==
  /\ pending > 0
  /\ committed' = committed + 1
  /\ pending' = pending - 1
  /\ UNCHANGED <<cache, pc, callVars, used, disturbed>>

\* Another process broadcasts with the same key.
External ==
  /\ "external" \in Events
  /\ Check < MaxSeq
  /\ pending' = pending + 1
  /\ disturbed' = TRUE
  /\ UNCHANGED <<committed, cache, pc, callVars, used>>

\* The mempool drops transactions it had accepted.
Evict ==
  /\ "evicted" \in Events
  /\ \E n \in 0..MaxSeq : n < pending /\ pending' = n
  /\ disturbed' = TRUE
  /\ UNCHANGED <<committed, cache, pc, callVars, used>>

CallStep ==
  \/ \E fee \in Fees, w \in BOOLEAN : Call(fee, w)
  \/ Estimate \/ Simulated \/ SimulationFails
  \/ Broadcast \/ SeedFails \/ Arrive \/ Rejected
  \/ Accepted \/ Confirmed \/ AnswerLost

Next == CallStep \/ Forget \/ Include \/ External \/ Evict

Spec == Init /\ [][Next]_vars

\* The caller goes on calling, each call ends, and the chain makes blocks.
FairSpec == Spec /\ WF_vars(CallStep) /\ WF_vars(Include)

-----------------------------------------------------------------------------
(* Properties.                                                             *)

Pcs == {"idle", "estimating", "simulating", "broadcasting", "submitting", "accepted"}

TypeOK ==
  /\ committed \in 0..MaxSeq
  /\ pending \in 0..MaxSeq
  /\ Check \in 0..MaxSeq
  /\ cache \in 0..MaxSeq \cup {None}
  /\ pc \in Pcs
  /\ wait \in BOOLEAN
  /\ tracked \in BOOLEAN
  /\ used \in 0..MaxSeq
  /\ estimate \in 0..MaxSeq \cup {None}
  /\ disturbed \in BOOLEAN

\* Between calls an entry is exactly what the node will accept next, however
\* many blocking, SYNC, failed and unanswered calls came before, as long as
\* nothing but these calls moved the chain.
EntryExact ==
  pc = "idle" /\ cache # None /\ ~disturbed => cache = Check

\* A call that finds an entry never collides with this signer's own earlier
\* transactions, neither its simulation nor its broadcast.
NoSelfCollision ==
  pc \in {"simulating", "submitting"} /\ tracked /\ ~disturbed => used = Check

\* "Sequencing simulate too keeps the estimate on the SAME next sequence the
\* broadcast will sign" (tx-sequence.ts), also when both are out of date.
EstimateIsSigned ==
  pc \in {"submitting", "accepted"} /\ tracked /\ estimate # None => used = estimate

\* "bounds drift to a single burst" (tx-sequence.ts): an entry that the chain
\* has left behind is dropped or right again at last, if calls go on.
DriftHeals ==
  pc = "idle" /\ cache # None /\ cache # Check ~> cache = None \/ cache = Check

\* It is, if at last no call simulates: the first broadcast it makes collide
\* drops it.
ExplicitFeesHeal == <>[](pc # "estimating") => DriftHeals
=============================================================================
