----------------------------- MODULE TxOutcome -----------------------------
(***************************************************************************)
(* What withTxExecution (core/src/internals/tx-confirmation.ts) promises   *)
(* to the callers of a transaction, whatever is retried, cancelled or      *)
(* lost: a call is answered once; until it is answered it may be committed *)
(* to submission, which nothing can recall, and then its transaction       *)
(* reaches the node once or never; and what the answer says of submission  *)
(* and acceptance is so when it is given.  TxExecution implements this     *)
(* module.                                                                 *)
(***************************************************************************)
CONSTANTS Calls,     \* transaction calls
          Answers,   \* what a caller can be told: a kind, a claim, a hash or none
          Pending    \* the answer of a call that has none yet

VARIABLES fate,      \* call -> how far its transaction got
          told       \* call -> its answer

outcomeVars == <<fate, told>>

Fates == {"unsent", "committed", "refused", "accepted"}

Init == /\ fate = [c \in Calls |-> "unsent"]
        /\ told = [c \in Calls |-> Pending]

\* markBroadcast: from here on the call counts as sent.  A caller that was
\* answered before keeps the operation from passing it.
Commit(c) ==
  /\ fate[c] = "unsent"
  /\ told[c] = Pending
  /\ fate' = [fate EXCEPT ![c] = "committed"]
  /\ UNCHANGED told

\* The transaction reaches the node, which accepts it or not.
Arrive(c) ==
  /\ fate[c] = "committed"
  /\ \E f \in {"refused", "accepted"} : fate' = [fate EXCEPT ![c] = f]
  /\ UNCHANGED told

\* "sent: false" means that it is safe to retry, "sent: true" that it may still
\* commit; a hash, or success, that the node accepted.
Honest(a, f) ==
  /\ a.claim = "unsent" => f = "unsent"
  /\ a.claim = "sent" => f # "unsent"
  /\ a.hash \/ a.kind = "ok" => f = "accepted"

Tell(c, a) ==
  /\ told[c] = Pending
  /\ a # Pending
  /\ Honest(a, fate[c])
  /\ told' = [told EXCEPT ![c] = a]
  /\ UNCHANGED fate

Next == \E c \in Calls : Commit(c) \/ Arrive(c) \/ \E a \in Answers : Tell(c, a)

Spec == Init /\ [][Next]_outcomeVars

\* The answers stay true for ever.
TellsTruth ==
  \A c \in Calls :
    /\ fate[c] \in Fates
    /\ Honest(told[c], fate[c])
=============================================================================
