---------------------------- MODULE AgentDeploy ----------------------------
(***************************************************************************)
(* A tenant's deploys and teardowns together.  deployManifest is called    *)
(* directly, or by the agent's deployApp (agent-core/src/deploy-app.ts),   *)
(* which first prices the deployment and asks for confirmation, and then   *)
(* waits on, or recovers from, what fred reports.  One of its recoveries   *)
(* is a stopApp; other stopApps and closeLeases run beside it.             *)
(*                                                                         *)
(* Composes DeployManifest and StopApp over one LeaseChain, whose callers  *)
(* are the deploys and the stops.                                          *)
(***************************************************************************)
EXTENDS DeployManifest, StopApp, Naturals

CONSTANTS None,
          MaxEdits       \* bound: edits of one deploy's plan

ASSUME CallersAssumption == Callers = Leases \cup Stops /\ Leases \cap Stops = {}
ASSUME NoneAssumption == None \notin Stops
ASSUME MaxEditsAssumption == MaxEdits \in Nat

VARIABLES
  apc,        \* where an orchestrated deploy is, or "direct"
  hook,       \* input: is there an onFailure callback?
  spec,       \* the version of the confirmed spec: how often it was edited
  shown,      \* the version that the plan last shown was computed from
  answer,     \* what the agent's caller was told
  told,       \* history: onFailure was given the lease
  helper      \* the stopApp that carries out close_lease, or None

planVars == <<spec, shown>>
agentVars == <<apc, hook, planVars, answer, told, helper>>
vars == <<deployVars, providerVars, stopVars, agentVars, chainVars>>

AgentPcs == {"direct", "pricing", "asking", "recap", "deploying", "choosing",
             "waiting", "resetting", "waitReset", "resolving", "reminting",
             "reuploading", "repolling", "closing", "ended"}

\* An answer: its code, does it name the lease, does it say it was torn down?
Answer(code, named, torn) == [code |-> code, named |-> named, torn |-> torn]
NoAnswer == Answer("none", FALSE, FALSE)
Answers == [code : {"none", "OK", "FAILED", "TX_FAILED", "UNCONFIRMED", "CANCELLED"},
            named : BOOLEAN, torn : BOOLEAN]

Init ==
  /\ DeployInit
  /\ StopInit
  /\ apc \in [Leases -> {"direct", "pricing"}]
  /\ hook \in [Leases -> BOOLEAN]
  /\ spec = [l \in Leases |-> 0]
  /\ shown = [l \in Leases |-> 0]
  /\ answer = [l \in Leases |-> NoAnswer]
  /\ told = [l \in Leases |-> FALSE]
  /\ helper = [l \in Leases |-> None]
  \* The agent gives fred's poll no checkChainState; onFailure is the agent's.
  /\ \A l \in Leases : (checks[l] => apc[l] = "direct") /\ (hook[l] => apc[l] = "pricing")

-----------------------------------------------------------------------------
(* Plan and confirmation.                                                  *)

others == <<providerVars, stopVars, chainVars>>

Go(l, from, to) == apc[l] = from /\ apc' = [apc EXCEPT ![l] = to]

Tell(l, a) ==
  /\ apc' = [apc EXCEPT ![l] = "ended"]
  /\ answer' = [answer EXCEPT ![l] = a]

\* Validation, the pin, readiness or a query fails, or the signal has fired.
PricingFails(l) ==
  /\ apc[l] = "pricing"
  /\ Tell(l, Answer("FAILED", FALSE, FALSE))
  /\ UNCHANGED <<deployVars, hook, planVars, told, helper, others>>

\* The plan is computed from the spec and rendered.
Priced(l) ==
  /\ Go(l, "pricing", "asking")
  /\ shown' = [shown EXCEPT ![l] = spec[l]]
  /\ UNCHANGED <<deployVars, hook, spec, answer, told, helper, others>>

\* Mutant: an edited plan is asked about again before it is priced.
PlanEditedAskedAgain(l) ==
  /\ Go(l, "asking", "asking")
  /\ ~aborted[l]
  /\ spec[l] < MaxEdits
  /\ spec' = [spec EXCEPT ![l] = @ + 1]
  /\ UNCHANGED <<deployVars, hook, shown, answer, told, helper, others>>

\* onPlan edits the spec: everything is resolved and priced anew.
PlanEdited(l) ==
  /\ Go(l, "asking", "pricing")
  /\ ~aborted[l]
  /\ spec[l] < MaxEdits
  /\ spec' = [spec EXCEPT ![l] = @ + 1]
  /\ UNCHANGED <<deployVars, hook, shown, answer, told, helper, others>>

PlanConfirmed(l) ==
  /\ ~aborted[l]
  /\ Go(l, "asking", "recap")
  /\ UNCHANGED <<deployVars, hook, planVars, answer, told, helper, others>>

\* onPlan cancels, onConfirm declines, or the signal fires first.
PlanCancelled(l) ==
  /\ apc[l] \in {"asking", "recap"}
  /\ Tell(l, Answer("CANCELLED", FALSE, FALSE))
  /\ UNCHANGED <<deployVars, hook, planVars, told, helper, others>>

\* onConfirm agrees, and the last look at the signal passes.
Agreed(l) ==
  /\ ~aborted[l]
  /\ Go(l, "recap", "deploying")
  /\ UNCHANGED <<deployVars, hook, planVars, answer, told, helper, others>>

-----------------------------------------------------------------------------
(* What deployManifest reports.                                            *)

agentFrame == <<deployVars, hook, planVars>>

\* Ready, with a running instance in its connection details.
Deployed(l) ==
  /\ apc[l] = "deploying"
  /\ report[l].says = "ready"
  /\ Tell(l, Answer("OK", TRUE, FALSE))
  /\ UNCHANGED <<agentFrame, told, helper, others>>

\* Ready, but no running instance is seen: waitForAppReady.
NeedsWait(l) ==
  /\ report[l].says = "ready"
  /\ Go(l, "deploying", "waiting")
  /\ UNCHANGED <<agentFrame, answer, told, helper, others>>

\* No lease is known to exist.
DeployFailed(l) ==
  /\ apc[l] = "deploying"
  /\ report[l].says = "failed"
  /\ Tell(l, Answer("TX_FAILED", FALSE, FALSE))
  /\ UNCHANGED <<agentFrame, told, helper, others>>

PartiallySucceeded(l) ==
  apc[l] = "deploying" /\ report[l].says \in {"partial", "billing_only", "unconfirmed"}

\* Nobody to choose a recovery: the report's text under TX_FAILED.
NoRecovery(l) ==
  /\ PartiallySucceeded(l)
  /\ ~hook[l]
  /\ Tell(l, Answer("TX_FAILED", TRUE, FALSE))
  /\ UNCHANGED <<agentFrame, told, helper, others>>

AskRecovery(l) ==
  /\ PartiallySucceeded(l)
  /\ hook[l]
  /\ Go(l, "deploying", "choosing")
  /\ told' = [told EXCEPT ![l] = TRUE]
  /\ UNCHANGED <<agentFrame, answer, helper, others>>

-----------------------------------------------------------------------------
(* The recovery that onFailure chooses.                                    *)

\* onFailure throws: the report's text under TX_FAILED.
ChoiceFails(l) ==
  /\ apc[l] = "choosing"
  /\ Tell(l, Answer("TX_FAILED", TRUE, FALSE))
  /\ UNCHANGED <<agentFrame, told, helper, others>>

Salvaged(l) ==
  /\ apc[l] = "choosing"
  /\ Tell(l, Answer("CANCELLED", TRUE, FALSE))
  /\ UNCHANGED <<agentFrame, told, helper, others>>

\* close_lease: stopApp, blocking and without a signal.
CloseChosen(l) ==
  /\ Go(l, "choosing", "closing")
  /\ \E s \in Stops :
       /\ mode[s] = "blocking" /\ target[s] = l /\ ~fired[s]
       /\ Start(s)
       /\ helper' = [helper EXCEPT ![l] = s]
  /\ UNCHANGED <<agentFrame, answer, told, providerVars>>

Closed(l) ==
  /\ apc[l] = "closing"
  /\ outcome[helper[l]].kind \in {"confirmed", "already_inactive"}
  /\ Tell(l, Answer("CANCELLED", TRUE, TRUE))
  /\ UNCHANGED <<agentFrame, told, helper, others>>

\* stopApp's own error: it need not name the lease.
CloseFails(l) ==
  /\ apc[l] = "closing"
  /\ outcome[helper[l]].kind \in {"error", "reinvoke"}
  /\ Tell(l, Answer("FAILED", FALSE, FALSE))
  /\ UNCHANGED <<agentFrame, told, helper, others>>

\* retry_set_domain is offered when that step failed, or when no step is known
\* and a domain was asked for.
RetryChosen(l) ==
  /\ \/ report[l].step = "set_domain"
     \/ report[l].step = "none" /\ domain[l]
  /\ Go(l, "choosing", "resetting")
  /\ UNCHANGED <<agentFrame, answer, told, helper, others>>

SendReset(l) ==
  /\ Go(l, "resetting", "waitReset")
  /\ Submit(l, "set-item-custom-domain", l)
  /\ UNCHANGED <<agentFrame, answer, told, helper, providerVars, stopVars>>

Reset(l) ==
  /\ receipt[l] = "ok"
  /\ Go(l, "waitReset", "resolving")
  /\ UNCHANGED <<agentFrame, answer, told, helper, others>>

\* fetchActiveLease and resolveProviderUrl.
ProviderResolved(l) ==
  /\ Seen(l) \cap {"pending", "active"} # {}
  /\ Go(l, "resolving", "reminting")
  /\ UNCHANGED <<agentFrame, answer, told, helper, others>>

Reupload(l) ==
  /\ Go(l, "reminting", "reuploading")
  /\ upload' = [upload EXCEPT ![l] = "sent"]
  /\ UNCHANGED <<agentFrame, answer, told, helper, provision, stopVars, chainVars>>

Reuploaded(l) ==
  /\ upload[l] = "taken"
  /\ Go(l, "reuploading", "repolling")
  /\ UNCHANGED <<agentFrame, answer, told, helper, others>>

\* The transaction, the reads, the token or the POST fails: the error names the
\* lease.
RetryFails(l) ==
  /\ apc[l] \in {"resetting", "waitReset", "resolving", "reminting", "reuploading"}
  /\ Tell(l, Answer("TX_FAILED", TRUE, FALSE))
  /\ UNCHANGED <<agentFrame, told, helper, others>>

-----------------------------------------------------------------------------
(* The wait for readiness, after NeedsWait or a retry.                     *)

Waiting(l) == apc[l] \in {"waiting", "repolling"}

\* Mutant: an acknowledged lease is taken for a ready app.
WaitActive(l) ==
  /\ Waiting(l)
  /\ "active" \in Seen(l)
  /\ Tell(l, Answer("OK", TRUE, FALSE))
  /\ UNCHANGED <<agentFrame, told, helper, others>>

WaitReady(l) ==
  /\ Waiting(l)
  /\ SaysReady(l)
  /\ Tell(l, Answer("OK", TRUE, FALSE))
  /\ UNCHANGED <<agentFrame, told, helper, others>>

\* Ready, and still no running instance.
NoInstance(l) ==
  /\ Waiting(l)
  /\ SaysReady(l)
  /\ Tell(l, Answer("TX_FAILED", TRUE, FALSE))
  /\ UNCHANGED <<agentFrame, told, helper, others>>

\* Mutant: the wait's error is thrown as it is.
WaitFailsBare(l) ==
  /\ Waiting(l)
  /\ apc[l] = "waiting" => ~aborted[l]
  /\ Tell(l, Answer("TX_FAILED", FALSE, FALSE))
  /\ UNCHANGED <<agentFrame, told, helper, others>>

\* A verdict, a lease that is gone, or a token that cannot be minted.
WaitFails(l) ==
  /\ Waiting(l)
  /\ apc[l] = "waiting" => ~aborted[l]
  /\ Tell(l, Answer("TX_FAILED", TRUE, FALSE))
  /\ UNCHANGED <<agentFrame, told, helper, others>>

\* LeaseReadinessUnconfirmedError.
WaitUnconfirmed(l) ==
  /\ Waiting(l)
  /\ Tell(l, Answer("UNCONFIRMED", TRUE, FALSE))
  /\ UNCHANGED <<agentFrame, told, helper, others>>

\* The retry's wait has no signal.
WaitCancelled(l) ==
  /\ apc[l] = "waiting"
  /\ aborted[l]
  /\ Tell(l, Answer("CANCELLED", TRUE, FALSE))
  /\ UNCHANGED <<agentFrame, told, helper, others>>

AgentStep(l) ==
  \/ PricingFails(l) \/ Priced(l) \/ PlanEdited(l) \/ PlanConfirmed(l)
  \/ PlanCancelled(l) \/ Agreed(l)
  \/ Deployed(l) \/ NeedsWait(l) \/ DeployFailed(l) \/ NoRecovery(l) \/ AskRecovery(l)
  \/ ChoiceFails(l) \/ Salvaged(l) \/ CloseChosen(l) \/ Closed(l) \/ CloseFails(l)
  \/ RetryChosen(l) \/ SendReset(l) \/ Reset(l) \/ ProviderResolved(l)
  \/ Reupload(l) \/ Reuploaded(l) \/ RetryFails(l)
  \/ WaitReady(l) \/ NoInstance(l) \/ WaitFails(l) \/ WaitUnconfirmed(l) \/ WaitCancelled(l)

-----------------------------------------------------------------------------
(* The composition.                                                        *)

Answered(l) == IF apc[l] = "direct" THEN report[l] # Unreported ELSE answer[l] # NoAnswer

\* The signal of a deploy, or its deadline, fires.
Abort(l) ==
  /\ ~aborted[l]
  /\ ~Answered(l)
  /\ aborted' = [aborted EXCEPT ![l] = TRUE]
  /\ UNCHANGED <<dpc, inputVars, report, created, agentVars, others>>

Deploy(l) ==
  /\ apc[l] \in {"direct", "deploying"}
  /\ DeployStep(l)
  /\ UNCHANGED <<agentVars, stopVars>>

\* A stopApp or closeLease of its own.
Stop(s) ==
  /\ \/ Start(s) \/ StopStep(s)
     \/ Fire(s) /\ \A l \in Leases : helper[l] # s
  /\ UNCHANGED <<deployVars, providerVars, agentVars>>

\* The chain executes a stop's transaction, or lets go of it.
StopTx(s) ==
  /\ Execute(s) \/ Evict(s)
  /\ UNCHANGED <<deployVars, providerVars, stopVars, agentVars>>

World(l) ==
  /\ ProviderStep(l) \/ LeaseStep(l)
  /\ UNCHANGED <<stopVars, agentVars>>

Next ==
  \/ \E l \in Leases : Abort(l) \/ AgentStep(l) \/ Deploy(l) \/ World(l)
  \/ \E s \in Stops : Stop(s) \/ StopTx(s)

Spec == Init /\ [][Next]_vars

-----------------------------------------------------------------------------
(* Properties.                                                             *)

\* Every variable has its type, and only a deploy without checkChainState is
\* orchestrated.
TypeOK ==
  /\ DeployTypeOK
  /\ StopTypeOK
  /\ apc \in [Leases -> AgentPcs]
  /\ hook \in [Leases -> BOOLEAN]
  /\ spec \in [Leases -> 0..MaxEdits]
  /\ shown \in [Leases -> 0..MaxEdits]
  /\ answer \in [Leases -> Answers]
  /\ told \in [Leases -> BOOLEAN]
  /\ helper \in [Leases -> Stops \cup {None}]
  /\ \A l \in Leases : checks[l] => apc[l] = "direct"

\* A deployment is bought on the terms that were shown last: past the plan, the
\* spec is the one the plan was computed from, however it was edited.
DeploysWhatWasShown ==
  \A l \in Leases : dpc[l] # "idle" \/ apc[l] = "recap" => spec[l] = shown[l]

\* A lease that createLease returned is paid for, and never lost, whichever way
\* the deploy, the wait and the recovery end: the report of the deploy names it,
\* and so does the agent's answer, unless onFailure was given it.
LeaseNeverLost ==
  \A l \in Leases :
    created[l] => /\ report[l] # Unreported => report[l].named
                  /\ answer[l] # NoAnswer => answer[l].named \/ told[l]

\* Success means that the provider took the manifest and said that the app is
\* ready, through whichever of the three waits.
SuccessMeansReady ==
  \A l \in Leases :
    answer[l].code = "OK" => upload[l] = "taken" /\ provision[l] = "ready"

\* Whoever is told of a teardown is told the truth, and for good: by stopApp and
\* closeLease, and by the "completed recovery" of a deploy that stopped its lease.
TeardownTrue ==
  /\ StopAnswersTrue
  /\ \A l \in Leases : answer[l].torn => lease[l] \in Terminal
=============================================================================
