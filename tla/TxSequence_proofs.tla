------------------------- MODULE TxSequence_proofs -------------------------
(***************************************************************************)
(* Safety of the local sequence tracking, for every bound, every kind of   *)
(* fee and whatever may happen around the calls.  The inductive invariant  *)
(* says, for each place a call can be at, how the entry, the sequence in   *)
(* its request and the node's check state go together.                     *)
(***************************************************************************)
EXTENDS TxSequence, TLAPS

Asking     == {"simulating", "submitting", "accepted"}
Submitting == {"submitting", "accepted"}

\* A call that found an entry still has it, and asks with it.
Held ==
  /\ pc # "idle" /\ tracked => cache # None
  /\ pc \in Asking /\ tracked => used = cache

\* The entry is exact until the node has consumed it, and one behind from
\* then until the call returns.
Exact ==
  /\ pc \notin Submitting /\ cache # None /\ ~disturbed => cache = Check
  /\ pc = "submitting" /\ tracked /\ ~disturbed => cache = Check
  /\ pc = "accepted" /\ ~disturbed => Check = used + 1
  /\ pc = "accepted" => used < MaxSeq

\* The gas of a call that found an entry was simulated with that entry.
Estimated ==
  pc \in Submitting \cup {"broadcasting"} /\ tracked /\ estimate # None
    => estimate = cache

IInv == TypeOK /\ Held /\ Exact /\ Estimated

USE MaxSeqAssumption, NoneAssumption

LEMMA InitIInv == ASSUME Init PROVE IInv
<1> USE DEF Init, Check
<1>1. TypeOK
  <2>1. /\ committed \in 0..MaxSeq /\ pending \in 0..MaxSeq
        /\ Check \in 0..MaxSeq /\ used \in 0..MaxSeq
    OBVIOUS
  <2>2. /\ cache \in 0..MaxSeq \cup {None} /\ estimate \in 0..MaxSeq \cup {None}
    OBVIOUS
  <2>3. wait \in BOOLEAN /\ tracked \in BOOLEAN /\ disturbed \in BOOLEAN
    OBVIOUS
  <2>4. QED
    BY <2>1, <2>2, <2>3 DEF TypeOK, Pcs
<1>2. Held
  BY DEF Held, Asking
<1>3. Exact
  BY DEF Exact, Submitting
<1>4. Estimated
  BY DEF Estimated, Submitting
<1>5. QED
  BY <1>1, <1>2, <1>3, <1>4 DEF IInv

\* Every step of the call that holds the lock keeps the invariant.
LEMMA CallKeeps == ASSUME IInv, CallStep PROVE IInv'
<1> USE DEF IInv, TypeOK, Held, Exact, Estimated, Check, Pcs, Asking, Submitting,
            chainVars, callVars, GetSequence
<1>1. ASSUME NEW fee \in Fees, NEW w \in BOOLEAN, Call(fee, w) PROVE IInv'
  BY <1>1 DEF Call
<1>2. CASE Estimate
  BY <1>2 DEF Estimate
<1>3. CASE Simulated
  BY <1>3 DEF Simulated
<1>4. CASE SimulationFails
  BY <1>4 DEF SimulationFails
<1>5. CASE Broadcast
  BY <1>5 DEF Broadcast
<1>6. CASE SeedFails
  BY <1>6 DEF SeedFails
<1>7. CASE Arrive
  <2>1. TypeOK'
    <3>1. /\ (committed \in 0..MaxSeq)' /\ (pending \in 0..MaxSeq)'
          /\ (Check \in 0..MaxSeq)' /\ (used \in 0..MaxSeq)'
      BY <1>7 DEF Arrive
    <3>2. (disturbed \in BOOLEAN)'
      BY <1>7 DEF Arrive
    <3>3. QED
      BY <1>7, <3>1, <3>2 DEF Arrive
  <2>2. Held'
    BY <1>7 DEF Arrive
  <2>3. Exact'
    BY <1>7 DEF Arrive
  <2>4. Estimated'
    BY <1>7 DEF Arrive
  <2>5. QED
    BY <2>1, <2>2, <2>3, <2>4
<1>8. CASE Rejected
  BY <1>8 DEF Rejected
<1>9. CASE Accepted
  BY <1>9 DEF Accepted
<1>10. CASE Confirmed
  BY <1>10 DEF Confirmed
<1>11. CASE AnswerLost
  BY <1>11 DEF AnswerLost
<1>12. QED
  BY <1>1, <1>2, <1>3, <1>4, <1>5, <1>6, <1>7, <1>8, <1>9, <1>10, <1>11 DEF CallStep

\* So does everything that happens around it.
LEMMA ChainKeeps ==
  ASSUME IInv, Forget \/ Include \/ External \/ Evict PROVE IInv'
<1> USE DEF IInv, TypeOK, Held, Exact, Estimated, Check, Pcs, Asking, Submitting,
            chainVars, callVars
<1>1. CASE Forget
  BY <1>1 DEF Forget
<1>2. CASE Include
  BY <1>2 DEF Include
<1>3. CASE External
  BY <1>3 DEF External
<1>4. CASE Evict
  BY <1>4 DEF Evict
<1>5. QED
  BY <1>1, <1>2, <1>3, <1>4

LEMMA NextIInv == ASSUME IInv, [Next]_vars PROVE IInv'
<1>1. CASE Next
  BY <1>1, CallKeeps, ChainKeeps DEF Next
<1>2. CASE UNCHANGED vars
  BY <1>2 DEF vars, IInv, TypeOK, Held, Exact, Estimated, Check, chainVars, callVars
<1>3. QED
  BY <1>1, <1>2

THEOREM IInvInvariant == Spec => []IInv
  BY InitIInv, NextIInv, PTL DEF Spec

\* The entry, like every sequence a call uses, stays within the chain's.
THEOREM TypeCorrect == Spec => []TypeOK
<1>1. IInv => TypeOK
  BY DEF IInv
<1>2. QED
  BY <1>1, IInvInvariant, PTL

\* Between undisturbed calls the entry is what the node accepts next.
THEOREM EntryIsExact == Spec => []EntryExact
<1>1. IInv => EntryExact
  BY DEF IInv, Exact, Submitting, EntryExact
<1>2. QED
  BY <1>1, IInvInvariant, PTL

\* A call that finds an entry never collides with its signer's own calls.
THEOREM SelfCollisionFree == Spec => []NoSelfCollision
<1>1. IInv => NoSelfCollision
  BY DEF IInv, Held, Exact, Asking, Submitting, NoSelfCollision
<1>2. QED
  BY <1>1, IInvInvariant, PTL

\* The sequence the gas was simulated with is the one that gets signed.
THEOREM EstimateSigned == Spec => []EstimateIsSigned
<1>1. IInv => EstimateIsSigned
  BY DEF IInv, Held, Estimated, Asking, Submitting, EstimateIsSigned
<1>2. QED
  BY <1>1, IInvInvariant, PTL
=============================================================================
