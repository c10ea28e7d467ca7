----------------------------- MODULE RestoreApp -----------------------------
(***************************************************************************)
(* restoreApp (fred/src/tools/restoreApp.ts): the saga that moves a closed *)
(* lease's retained volumes onto a fresh lease.  It creates the lease on   *)
(* the chain, then asks the provider to adopt the volumes: the POST is the *)
(* pivot.  Before it the fresh lease is rolled back by a compensating      *)
(* cancel-lease; from it on nothing is ever compensated.  The caller may   *)
(* cancel at any moment.                                                   *)
(*                                                                         *)
(* The chain is LeaseChain; each call's fresh lease carries the call's     *)
(* name.  The provider is external: a POST may arrive late or never, be    *)
(* refused, or be obeyed with its answer lost.                             *)
(***************************************************************************)
CONSTANTS Calls          \* calls of restoreApp, all for one source lease

VARIABLES
  pc,         \* where a call is
  aborted,    \* its signal has fired
  poll,       \* does it wait for readiness after the POST?
  why,        \* what it rolls back for: "abort" or "mint"
  answer,     \* what its caller was told
  source,     \* the provider: does the source still hold retained volumes?
  post,       \* the provider: a call's POST, on its way or answered
  adopted,    \* the provider: the fresh lease has the volumes
  provision,  \* the provider: provision_status of an adopting lease
  posted,     \* history: the POST was sent
  created,    \* history: createLease returned to the call
  lease, tx, receipt

INSTANCE LeaseChain WITH Leases <- Calls, Callers <- Calls

ledger == <<lease, tx, receipt>>
callVars == <<aborted, poll, why>>
providerVars == <<source, post, adopted, provision>>
history == <<posted, created>>
vars == <<pc, callVars, answer, providerVars, history, ledger>>

Pcs == {"idle", "reading", "creating", "waitCreate", "minting", "cancelling",
        "waitCancel", "posting", "polling", "ended"}

\* An answer: does it name the fresh lease, does it say rolled_back, and what
\* does it say of adoption ("committed" for every answer after a 202)?
Answer(k, named, rolledBack, adoption) ==
  [kind |-> k, named |-> named, rolledBack |-> rolledBack, adoption |-> adoption]
Pending  == Answer("pending", FALSE, FALSE, "unsaid")
Refused  == Answer("failed", FALSE, FALSE, "unsaid")
Answers  == [kind : {"pending", "ok", "failed", "cancelled"}, named : BOOLEAN,
             rolledBack : BOOLEAN,
             adoption : {"unsaid", "not_adopted", "unknown", "committed"}]

Init ==
  /\ pc = [c \in Calls |-> "idle"]
  /\ aborted = [c \in Calls |-> FALSE]
  /\ poll \in [Calls -> BOOLEAN]
  /\ why = [c \in Calls |-> "none"]
  /\ answer = [c \in Calls |-> Pending]
  /\ source \in {"retained", "lost"}
  /\ post = [c \in Calls |-> "none"]
  /\ adopted = [c \in Calls |-> FALSE]
  /\ provision = [c \in Calls |-> "none"]
  /\ posted = [c \in Calls |-> FALSE]
  /\ created = [c \in Calls |-> FALSE]
  /\ LeaseChainInit

-----------------------------------------------------------------------------
(* The call.                                                               *)

Goto(c, from, to) == pc[c] = from /\ pc' = [pc EXCEPT ![c] = to]

End(c, a) ==
  /\ pc' = [pc EXCEPT ![c] = "ended"]
  /\ answer' = [answer EXCEPT ![c] = a]

Begin(c) ==
  /\ ~aborted[c]
  /\ Goto(c, "idle", "reading")
  /\ UNCHANGED <<callVars, answer, providerVars, history, ledger>>

\* The caller's signal, or the call's deadline, fires.
Abort(c) ==
  /\ ~aborted[c]
  /\ answer[c] = Pending
  /\ aborted' = [aborted EXCEPT ![c] = TRUE]
  /\ UNCHANGED <<pc, poll, why, answer, providerVars, history, ledger>>

\* Aborted before anything was read, or an address, a query or the provider
\* fails, or its volumes are gone: nothing was created.
ReadFails(c) ==
  /\ pc[c] = "idle" => aborted[c]
  /\ pc[c] \in {"idle", "reading"}
  /\ End(c, Refused)
  /\ UNCHANGED <<callVars, providerVars, history, ledger>>

\* The source is retained: last look at the signal, then createLease.
Retained(c) ==
  /\ source = "retained"
  /\ ~aborted[c]
  /\ Goto(c, "reading", "creating")
  /\ UNCHANGED <<callVars, answer, providerVars, history, ledger>>

\* createLease ignores the signal.
SendCreate(c) ==
  /\ Goto(c, "creating", "waitCreate")
  /\ Submit(c, "create-lease", c)
  /\ UNCHANGED <<callVars, answer, providerVars, history>>

\* createLease rejects: not sent, executed with an error, not seen included in
\* time, or its events name no lease.
CreateFails(c) ==
  /\ pc[c] \in {"creating", "waitCreate"}
  /\ End(c, Refused)
  /\ UNCHANGED <<callVars, providerVars, history, ledger>>

\* Mutant: a cancellation after creation propagates bare.
CreatedThenThrow(c) ==
  /\ pc[c] = "waitCreate"
  /\ receipt[c] = "ok"
  /\ created' = [created EXCEPT ![c] = TRUE]
  /\ IF aborted[c] THEN End(c, Answer("cancelled", FALSE, FALSE, "unsaid"))
                   ELSE Goto(c, "waitCreate", "minting") /\ UNCHANGED answer
  /\ UNCHANGED <<callVars, providerVars, posted, ledger>>

\* The lease exists and reserves credit: from here a cancel is not free.
Created(c) ==
  /\ receipt[c] = "ok"
  /\ Goto(c, "waitCreate", IF aborted[c] THEN "cancelling" ELSE "minting")
  /\ why' = [why EXCEPT ![c] = IF aborted[c] THEN "abort" ELSE @]
  /\ created' = [created EXCEPT ![c] = TRUE]
  /\ UNCHANGED <<aborted, poll, answer, providerVars, posted, ledger>>

\* No token: the POST is never sent.
MintFails(c) ==
  /\ Goto(c, "minting", "cancelling")
  /\ why' = [why EXCEPT ![c] = "mint"]
  /\ UNCHANGED <<aborted, poll, answer, providerVars, history, ledger>>

\* Aborted while the token was minted.
MintedAborted(c) ==
  /\ aborted[c]
  /\ Goto(c, "minting", "cancelling")
  /\ why' = [why EXCEPT ![c] = "abort"]
  /\ UNCHANGED <<aborted, poll, answer, providerVars, history, ledger>>

\* The pivot.  restoreLease takes no signal.
SendPost(c) ==
  /\ ~aborted[c]
  /\ Goto(c, "minting", "posting")
  /\ post' = [post EXCEPT ![c] = "sent"]
  /\ posted' = [posted EXCEPT ![c] = TRUE]
  /\ UNCHANGED <<callVars, answer, source, adopted, provision, created, ledger>>

\* The compensating cancel-lease, without a signal.
SendCancel(c) ==
  /\ Goto(c, "cancelling", "waitCancel")
  /\ Submit(c, "cancel-lease", c)
  /\ UNCHANGED <<callVars, answer, providerVars, history>>

\* It could not be sent, failed, or was not seen included in time: an orphan.
CancelFails(c) ==
  /\ pc[c] \in {"cancelling", "waitCancel"}
  /\ End(c, Answer("failed", TRUE, FALSE, "not_adopted"))
  /\ UNCHANGED <<callVars, providerVars, history, ledger>>

\* Mutant: the rollback counts once the node has taken the cancel.
CancelledOnSubmission(c) ==
  /\ pc[c] = "waitCancel"
  /\ End(c, Answer(IF why[c] = "abort" THEN "cancelled" ELSE "failed",
                   TRUE, TRUE, "not_adopted"))
  /\ UNCHANGED <<callVars, providerVars, history, ledger>>

\* Rolled back: OPERATION_CANCELLED, or RESTORE_REJECTED after a failed mint.
Cancelled(c) ==
  /\ pc[c] = "waitCancel"
  /\ receipt[c] = "ok"
  /\ End(c, Answer(IF why[c] = "abort" THEN "cancelled" ELSE "failed",
                   TRUE, TRUE, "not_adopted"))
  /\ UNCHANGED <<callVars, providerVars, history, ledger>>

\* Mutants: a refusal is taken for proof, and rolled back; a POST without an
\* answer counts as not adopted; a POST without an answer counts as committed.
PostRefusedRollsBack(c) ==
  /\ Goto(c, "posting", "cancelling")
  /\ UNCHANGED <<callVars, answer, providerVars, history, ledger>>
PostFailsNotAdopted(c) ==
  /\ pc[c] = "posting"
  /\ End(c, Answer("failed", TRUE, FALSE, "not_adopted"))
  /\ UNCHANGED <<callVars, providerVars, history, ledger>>

\* Refused, unreachable, timed out, or a malformed 2xx: whatever went wrong,
\* adoption is unknown and nothing is compensated.
PostFails(c) ==
  /\ pc[c] = "posting"
  /\ End(c, Answer("failed", TRUE, FALSE, "unknown"))
  /\ UNCHANGED <<callVars, providerVars, history, ledger>>

Committed(kind) == Answer(kind, TRUE, FALSE, "committed")

\* The 202: committed.
PostAccepted(c) ==
  /\ pc[c] = "posting"
  /\ post[c] = "accepted"
  /\ IF poll[c] THEN Goto(c, "posting", "polling") /\ UNCHANGED answer
                ELSE End(c, Committed("ok"))
  /\ UNCHANGED <<callVars, providerVars, history, ledger>>

\* Ready: the lease is active and the provider says its provision is too.
PollReady(c) ==
  /\ pc[c] = "polling"
  /\ lease[c] = "active"
  /\ provision[c] = "ready"
  /\ End(c, Committed("ok"))
  /\ UNCHANGED <<callVars, providerVars, history, ledger>>

\* A deadline, an unreachable provider, a token that cannot be minted: still
\* provisioning, for all the call knows.
PollUnconfirmed(c) ==
  /\ pc[c] = "polling"
  /\ ~aborted[c]
  /\ End(c, Committed("ok"))
  /\ UNCHANGED <<callVars, providerVars, history, ledger>>

\* A provider's verdict is RESTORE_COMMITTED_FAILURE, unless the caller has
\* cancelled: any failure of the poll is then OPERATION_CANCELLED.
PollVerdict(c) ==
  /\ pc[c] = "polling"
  /\ ~aborted[c]
  /\ provision[c] = "failed" \/ lease[c] \in Terminal
  /\ End(c, Committed("failed"))
  /\ UNCHANGED <<callVars, providerVars, history, ledger>>

PollCancelled(c) ==
  /\ pc[c] = "polling"
  /\ aborted[c]
  /\ End(c, Committed("cancelled"))
  /\ UNCHANGED <<callVars, providerVars, history, ledger>>

-----------------------------------------------------------------------------
(* The provider.                                                           *)

\* It adopts the source's volumes for a fresh lease that is still pending.
Adopt(c) ==
  /\ post[c] = "sent"
  /\ source = "retained"
  /\ lease[c] = "pending"
  /\ post' = [post EXCEPT ![c] = "accepted"]
  /\ source' = "adopted"
  /\ adopted' = [adopted EXCEPT ![c] = TRUE]
  /\ provision' = [provision EXCEPT ![c] = "provisioning"]
  /\ UNCHANGED <<pc, callVars, answer, history, ledger>>

Refuse(c) ==
  /\ post[c] = "sent"
  /\ post' = [post EXCEPT ![c] = "refused"]
  /\ UNCHANGED <<pc, callVars, answer, source, adopted, provision, history, ledger>>

\* The source's grace period ends, or its storage is lost.
LoseSource ==
  /\ source = "retained"
  /\ source' = "lost"
  /\ UNCHANGED <<pc, callVars, answer, post, adopted, provision, history, ledger>>

Provision(c) ==
  /\ provision[c] = "provisioning"
  /\ \E p \in {"ready", "failed"} : provision' = [provision EXCEPT ![c] = p]
  /\ UNCHANGED <<pc, callVars, answer, source, post, adopted, history, ledger>>

\* The chain moves; a provider acknowledges only what it has adopted.
ChainStep(c) ==
  /\ Execute(c) \/ Evict(c) \/ Lapse(c) \/ (adopted[c] /\ Acknowledge(c))
  /\ UNCHANGED <<pc, callVars, answer, providerVars, history>>

-----------------------------------------------------------------------------

CallStep(c) ==
  \/ Begin(c) \/ ReadFails(c) \/ Retained(c)
  \/ SendCreate(c) \/ CreateFails(c) \/ Created(c)
  \/ MintFails(c) \/ MintedAborted(c) \/ SendPost(c)
  \/ SendCancel(c) \/ CancelFails(c) \/ Cancelled(c)
  \/ PostFails(c) \/ PostAccepted(c)
  \/ PollReady(c) \/ PollUnconfirmed(c) \/ PollVerdict(c) \/ PollCancelled(c)

ProviderStep(c) == Adopt(c) \/ Refuse(c) \/ Provision(c)

Next == LoseSource \/ \E c \in Calls :
          Abort(c) \/ CallStep(c) \/ ProviderStep(c) \/ ChainStep(c)

Spec == Init /\ [][Next]_vars

-----------------------------------------------------------------------------
(* Properties.                                                             *)

\* The state has its types, and a call only ever creates and cancels its own
\* fresh lease.
TypeOK ==
  /\ pc \in [Calls -> Pcs]
  /\ aborted \in [Calls -> BOOLEAN]
  /\ poll \in [Calls -> BOOLEAN]
  /\ why \in [Calls -> {"none", "abort", "mint"}]
  /\ answer \in [Calls -> Answers]
  /\ source \in {"retained", "adopted", "lost"}
  /\ post \in [Calls -> {"none", "sent", "accepted", "refused"}]
  /\ adopted \in [Calls -> BOOLEAN]
  /\ provision \in [Calls -> {"none", "provisioning", "ready", "failed"}]
  /\ posted \in [Calls -> BOOLEAN]
  /\ created \in [Calls -> BOOLEAN]
  /\ LeaseChainTypeOK
  /\ \A c \in Calls :
       tx[c] \in {NoTx, Tx("create-lease", c), Tx("cancel-lease", c)}

\* "Post-pivot: never compensate from here on" (restoreApp.ts): no cancel-lease
\* of this call is ever under way for a lease whose POST has left, however
\* late the POST arrives and whatever its answer.
NeverCancelsPosted ==
  \A c \in Calls : posted[c] => tx[c] # Tx("cancel-lease", c)

\* rolled_back: true tells the truth and keeps doing so: the fresh lease has
\* ended, its credit released, and it never has the volumes.
RolledBackTrue ==
  \A c \in Calls :
    answer[c].rolledBack => lease[c] = "rejected" /\ ~adopted[c]

\* A caller is never told wrongly that nothing was adopted: once the provider
\* has moved the volumes, during the call or after it gave up on the POST, the
\* answer names the lease they are on and does not exclude that they are.  And
\* committed: true, and every success, means that they have moved.
VolumesAccountedFor ==
  \A c \in Calls :
    /\ adopted[c] /\ answer[c] # Pending =>
         answer[c].named /\ answer[c].adoption \in {"unknown", "committed"}
    /\ answer[c].adoption = "committed" => adopted[c]

\* To its callers a restore is RestoreOutcome: however late the create-lease and
\* the POST take effect, the volumes move once and every answer stays true.
Fate(c) == IF adopted[c] THEN "moved"
           ELSE IF lease[c] = "none" THEN "none"
           ELSE IF lease[c] \in Terminal THEN "ended" ELSE "held"
Contract == INSTANCE RestoreOutcome
              WITH fate <- [c \in Calls |-> Fate(c)],
                   asked <- {c \in Calls : posted[c]}, told <- answer
ImplementsRestoreOutcome == Contract!Spec

\* A lease that createLease returned is never lost to the caller, wherever the
\* cancellation lands: every answer names it.
CreatedLeaseNamed ==
  \A c \in Calls : created[c] /\ answer[c] # Pending => answer[c].named
=============================================================================
