--------------------------- MODULE RestoreOutcome ---------------------------
(***************************************************************************)
(* What restoreApp (fred/src/tools/restoreApp.ts) promises to its callers, *)
(* whatever is cancelled, lost or late: the source's volumes move once, to *)
(* a lease whose POST has left; a call is answered once; and what it is    *)
(* told of its fresh lease and of the volumes is so, and stays so although *)
(* create-lease and the POST may take effect after the answer.  RestoreApp *)
(* implements this module.                                                 *)
(***************************************************************************)
CONSTANTS Calls,     \* calls of restoreApp, all for one source lease
          Answers,   \* what a caller can be told
          Pending    \* the answer of a call that has none yet

VARIABLES fate,      \* call -> what became of its fresh lease
          asked,     \* calls whose POST has left: the pivot
          told       \* call -> its answer

restoreVars == <<fate, asked, told>>

Fates == {"none", "held", "ended", "moved"}

Init == /\ fate = [c \in Calls |-> "none"]
        /\ asked = {}
        /\ told = [c \in Calls |-> Pending]

\* The fresh lease exists and reserves credit.  A caller that was answered
\* before, because the inclusion was not seen, has not been told of a lease.
Reserve(c) ==
  /\ fate[c] = "none"
  /\ ~told[c].named
  /\ fate' = [fate EXCEPT ![c] = "held"]
  /\ UNCHANGED <<asked, told>>

\* The pivot, for a lease that exists.
Ask(c) ==
  /\ fate[c] # "none"
  /\ c \notin asked
  /\ told[c] = Pending
  /\ asked' = asked \cup {c}
  /\ UNCHANGED <<fate, told>>

\* The volumes move, of which only a caller that was told "unknown" may still be
\* unaware.
Move(c) ==
  /\ fate[c] = "held"
  /\ c \in asked
  /\ told[c] = Pending \/ told[c].adoption = "unknown"
  /\ \A d \in Calls : fate[d] # "moved"
  /\ fate' = [fate EXCEPT ![c] = "moved"]
  /\ UNCHANGED <<asked, told>>

\* The lease ends without the volumes: rolled back, or by other hands.
End(c) ==
  /\ fate[c] = "held"
  /\ fate' = [fate EXCEPT ![c] = "ended"]
  /\ UNCHANGED <<asked, told>>

\* A lease is named that exists; after the pivot it is always named, and the
\* volumes are said to have moved, or perhaps; before it neither is said, and
\* rolled_back only once the lease has ended.
Honest(a, f, pivoted) ==
  /\ a.named => f # "none"
  /\ pivoted => a.named
  /\ a.adoption \in {"unknown", "committed"} <=> pivoted
  /\ a.adoption = "committed" => f = "moved"
  /\ a.rolledBack => f = "ended" /\ ~pivoted
  /\ a.kind = "ok" => a.adoption = "committed"

Tell(c, a) ==
  /\ told[c] = Pending
  /\ a # Pending
  /\ Honest(a, fate[c], c \in asked)
  /\ told' = [told EXCEPT ![c] = a]
  /\ UNCHANGED <<fate, asked>>

Next == \E c \in Calls :
  Reserve(c) \/ Ask(c) \/ Move(c) \/ End(c) \/ \E a \in Answers : Tell(c, a)

Spec == Init /\ [][Next]_restoreVars

\* The answers stay true for ever, and the volumes are in one place.
TellsTruth ==
  /\ \A c \in Calls : /\ fate[c] \in Fates
                      /\ told[c] # Pending => Honest(told[c], fate[c], c \in asked)
                      /\ fate[c] = "moved" => c \in asked
  /\ \A c, d \in Calls : fate[c] = "moved" /\ fate[d] = "moved" => c = d
=============================================================================
