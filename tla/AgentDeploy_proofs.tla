-------------------------- MODULE AgentDeploy_proofs --------------------------
(***************************************************************************)
(* Proofs about AgentDeploy, for any number of deploys and stops.          *)
(* DeploySound(l) and StopSound(s) are the inductive parts: what the       *)
(* position of a deploy, and of a stop, says of its lease, its upload, its *)
(* transaction and its answers.  A step moves one deploy or one stop and   *)
(* perhaps a lease; leases only ever move forward (Later), and that is all *)
(* that the others rely on.                                                *)
(***************************************************************************)
EXTENDS AgentDeploy, TLAPS

BeforeCreated == {"idle", "reading", "creating", "waitCreate"}
BeforeUpload == BeforeCreated \cup {"notifying", "domain", "waitDomain", "minting"}

\* Where a deploy is, and which spec it has.
Placed(l) ==
  /\ dpc[l] # "ended" => report[l] = Unreported /\ report[l].says = "nothing"
  /\ apc[l] # "ended" => answer[l] = NoAnswer /\ answer[l].code = "none" /\ ~answer[l].torn
  /\ apc[l] \in {"pricing", "asking", "recap"} => dpc[l] = "idle"
  /\ apc[l] \notin {"direct", "pricing", "asking", "recap", "deploying", "ended"} => dpc[l] = "ended"
  /\ apc[l] \notin {"pricing", "ended"} \/ dpc[l] # "idle" => spec[l] = shown[l]
  /\ apc[l] = "choosing" => report[l].says \in {"partial", "billing_only", "unconfirmed"}

\* Who knows of the lease.
Named(l) ==
  /\ created[l] => dpc[l] \notin BeforeCreated
  /\ report[l].says = "failed" => ~created[l]
  /\ created[l] /\ dpc[l] = "ended" => report[l].named
  /\ created[l] /\ apc[l] = "ended" => answer[l].named \/ told[l]
  /\ apc[l] \in {"choosing", "closing"} => told[l]

\* The manifest is on its way at most once, and nothing runs without it.
Uploaded1(l) ==
  /\ dpc[l] \in BeforeUpload => upload[l] = "none"
  /\ report[l].says \in {"billing_only", "unconfirmed"} =>
       report[l].step \notin {"none", "set_domain"}
  /\ /\ report[l].says = "partial" /\ report[l].step \in {"none", "set_domain"}
     /\ apc[l] \in {"deploying", "choosing"}
     => upload[l] = "none"
  /\ apc[l] \in {"resetting", "waitReset", "resolving", "reminting"} => upload[l] = "none"
  /\ upload[l] # "taken" => provision[l] = "none"

\* What is said of the app and of the lease is so.
Verdicts(l) ==
  /\ report[l].says = "partial" /\ report[l].step = "poll" =>
       provision[l] = "failed" \/ lease[l] \in Terminal
  /\ report[l].says = "terminal" => lease[l] \in Terminal
  /\ dpc[l] = "connecting" \/ report[l].says = "ready" => provision[l] = "ready"
  /\ answer[l].code = "OK" => provision[l] = "ready"
  /\ apc[l] = "closing" => helper[l] \in Stops /\ target[helper[l]] = l
  /\ answer[l].torn => lease[l] \in Terminal

DeploySound(l) == Placed(l) /\ Named(l) /\ Uploaded1(l) /\ Verdicts(l)

\* A stop's transaction that was seen executed has ended its lease, and what
\* its answer says of the lease is so.
StopSound(s) ==
  /\ spc[s] = "waiting" =>
       \/ tx[s] = Tx(Subcommand(s), target[s]) /\ receipt[s] = "none"
       \/ tx[s] = NoTx /\ (receipt[s] = "ok" => lease[target[s]] = EndState(s))
  /\ outcome[s].kind \in {"confirmed", "already_inactive"} =>
       lease[target[s]] = outcome[s].state /\ lease[target[s]] \in Terminal
  /\ outcome[s].kind = "reinvoke" => lease[target[s]] \in {"active", "closed"}

IInv ==
  /\ TypeOK
  /\ \A l \in Leases : DeploySound(l)
  /\ \A s \in Stops : StopSound(s)

USE DEF Terminal, LeaseStates

\* Leases only move forward.
Later(s, t) ==
  \/ t = s
  \/ s = "none" /\ t = "pending"
  \/ s = "pending" /\ t \in {"active", "rejected", "expired"}
  \/ s = "active" /\ t = "closed"

Forward == \A l \in Leases : Later(lease[l], lease'[l])

\* What a deploy's soundness rests on, besides its lease ...
SameDeploy(l) ==
  /\ dpc'[l] = dpc[l] /\ report'[l] = report[l] /\ created'[l] = created[l]
  /\ upload'[l] = upload[l] /\ provision'[l] = provision[l]
  /\ apc'[l] = apc[l] /\ spec'[l] = spec[l] /\ shown'[l] = shown[l]
  /\ answer'[l] = answer[l] /\ told'[l] = told[l] /\ helper'[l] = helper[l]

\* ... and what a stop's does; close_lease starts one.
SameStop(s) ==
  /\ spc'[s] \in {spc[s], "querying"} /\ saw'[s] = saw[s] /\ outcome'[s] = outcome[s]
  /\ tx'[s] = tx[s] /\ receipt'[s] = receipt[s]

LEMMA SameDeploySound ==
  ASSUME NEW l \in Leases, DeploySound(l), SameDeploy(l), Forward, UNCHANGED target
  PROVE  DeploySound(l)'
<1> USE DEF DeploySound, SameDeploy
<1>1. Placed(l)'
  BY DEF Placed
<1>2. Named(l)'
  BY DEF Named
<1>3. Uploaded1(l)'
  BY DEF Uploaded1
<1>4. Verdicts(l)'
  BY DEF Verdicts, Forward, Later
<1> QED
  BY <1>1, <1>2, <1>3, <1>4

LEMMA SameStopSound ==
  ASSUME TypeOK, NEW s \in Stops, StopSound(s), SameStop(s), Forward, UNCHANGED target
  PROVE  StopSound(s)'
  BY DEF TypeOK, StopTypeOK, StopSound, SameStop, Forward, Later, Subcommand, EndState

\* What a step of deploy l leaves of the others.
DeployFrame(l) ==
  /\ \A d \in Leases \ {l} : SameDeploy(d)
  /\ \A s \in Stops : SameStop(s)
  /\ Forward
  /\ UNCHANGED target

LEMMA FrameIInv ==
  ASSUME IInv, TypeOK', NEW l \in Leases, DeploySound(l)', DeployFrame(l)
  PROVE  IInv'
  BY SameDeploySound, SameStopSound DEF IInv, DeployFrame

\* A step of the agent preserves the invariant.
LEMMA AgentStepIInv ==
  ASSUME IInv, NEW l \in Leases, AgentStep(l) \/ Abort(l)
  PROVE  IInv'
<1> USE CallersAssumption, NoneAssumption, MaxEditsAssumption
        DEF Go, Tell, others, agentFrame, deployVars, inputVars, providerVars, stopVars,
            stopInputs, agentVars, planVars, chainVars, Later, PartiallySucceeded, Waiting
<1>1. TypeOK'
  <2> USE DEF IInv, TypeOK, DeployTypeOK, StopTypeOK, LeaseChainTypeOK, DeployPcs, AgentPcs,
          StopPcs, Answers, Answer, NoAnswer, Txs, Tx, Kinds
  <2>1. CASE Abort(l)
    BY <2>1 DEF Abort
  <2>2. CASE PricingFails(l)
    BY <2>2 DEF PricingFails
  <2>3. CASE Priced(l)
    BY <2>3 DEF Priced
  <2>4. CASE PlanEdited(l)
    BY <2>4 DEF PlanEdited
  <2>5. CASE PlanConfirmed(l)
    BY <2>5 DEF PlanConfirmed
  <2>6. CASE PlanCancelled(l)
    BY <2>6 DEF PlanCancelled
  <2>7. CASE Agreed(l)
    BY <2>7 DEF Agreed
  <2>8. CASE Deployed(l)
    BY <2>8 DEF Deployed
  <2>9. CASE NeedsWait(l)
    BY <2>9 DEF NeedsWait
  <2>10. CASE DeployFailed(l)
    BY <2>10 DEF DeployFailed
  <2>11. CASE NoRecovery(l)
    BY <2>11 DEF NoRecovery
  <2>12. CASE AskRecovery(l)
    BY <2>12 DEF AskRecovery
  <2>13. CASE ChoiceFails(l)
    BY <2>13 DEF ChoiceFails
  <2>14. CASE Salvaged(l)
    BY <2>14 DEF Salvaged
  <2>15. CASE CloseChosen(l)
    BY <2>15 DEF CloseChosen, Start, Step
  <2>16. CASE Closed(l)
    BY <2>16 DEF Closed
  <2>17. CASE CloseFails(l)
    BY <2>17 DEF CloseFails
  <2>18. CASE RetryChosen(l)
    BY <2>18 DEF RetryChosen
  <2>19. CASE SendReset(l)
    BY <2>19 DEF SendReset, Submit
  <2>20. CASE Reset(l)
    BY <2>20 DEF Reset
  <2>21. CASE ProviderResolved(l)
    BY <2>21 DEF ProviderResolved
  <2>22. CASE Reupload(l)
    BY <2>22 DEF Reupload
  <2>23. CASE Reuploaded(l)
    BY <2>23 DEF Reuploaded
  <2>24. CASE RetryFails(l)
    BY <2>24 DEF RetryFails
  <2>25. CASE WaitReady(l)
    BY <2>25 DEF WaitReady
  <2>26. CASE NoInstance(l)
    BY <2>26 DEF NoInstance
  <2>27. CASE WaitFails(l)
    BY <2>27 DEF WaitFails
  <2>28. CASE WaitUnconfirmed(l)
    BY <2>28 DEF WaitUnconfirmed
  <2>29. CASE WaitCancelled(l)
    BY <2>29, SMTT(30) DEF WaitCancelled
  <2> QED
    BY <2>1, <2>2, <2>3, <2>4, <2>5, <2>6, <2>7, <2>8, <2>9, <2>10, <2>11, <2>12, <2>13, <2>14, <2>15, <2>16, <2>17, <2>18, <2>19, <2>20, <2>21, <2>22, <2>23, <2>24, <2>25, <2>26, <2>27, <2>28, <2>29 DEF AgentStep
<1>2. DeploySound(l)'
  <2> HIDE CallersAssumption, MaxEditsAssumption
  <2>0. /\ TypeOK /\ DeploySound(l)
        /\ apc[l] = "closing" => StopSound(helper[l])
    BY DEF IInv, DeploySound, Verdicts
  <2> USE <2>0 DEF TypeOK, DeployTypeOK, DeploySound, Placed, Named, Uploaded1, Verdicts,
          BeforeCreated, BeforeUpload, Answer
  <2>1. CASE Abort(l)
    BY <2>1 DEF Abort
  <2>2. CASE PricingFails(l)
    BY <2>2 DEF PricingFails
  <2>3. CASE Priced(l)
    BY <2>3 DEF Priced
  <2>4. CASE PlanEdited(l)
    BY <2>4 DEF PlanEdited
  <2>5. CASE PlanConfirmed(l)
    BY <2>5 DEF PlanConfirmed
  <2>6. CASE PlanCancelled(l)
    BY <2>6 DEF PlanCancelled
  <2>7. CASE Agreed(l)
    BY <2>7 DEF Agreed
  <2>8. CASE Deployed(l)
    BY <2>8 DEF Deployed
  <2>9. CASE NeedsWait(l)
    BY <2>9 DEF NeedsWait
  <2>10. CASE DeployFailed(l)
    BY <2>10 DEF DeployFailed
  <2>11. CASE NoRecovery(l)
    BY <2>11 DEF NoRecovery
  <2>12. CASE AskRecovery(l)
    BY <2>12 DEF AskRecovery
  <2>13. CASE ChoiceFails(l)
    BY <2>13 DEF ChoiceFails
  <2>14. CASE Salvaged(l)
    BY <2>14 DEF Salvaged
  <2>15. CASE CloseChosen(l)
    BY <2>15 DEF CloseChosen, Start, Step
  <2>16. CASE Closed(l)
    BY <2>16 DEF Closed, StopSound
  <2>17. CASE CloseFails(l)
    BY <2>17 DEF CloseFails
  <2>18. CASE RetryChosen(l)
    BY <2>18 DEF RetryChosen
  <2>19. CASE SendReset(l)
    BY <2>19 DEF SendReset, Submit
  <2>20. CASE Reset(l)
    BY <2>20 DEF Reset
  <2>21. CASE ProviderResolved(l)
    BY <2>21 DEF ProviderResolved
  <2>22. CASE Reupload(l)
    BY <2>22 DEF Reupload
  <2>23. CASE Reuploaded(l)
    BY <2>23 DEF Reuploaded
  <2>24. CASE RetryFails(l)
    BY <2>24 DEF RetryFails
  <2>25. CASE WaitReady(l)
    BY <2>25 DEF WaitReady, SaysReady
  <2>26. CASE NoInstance(l)
    BY <2>26 DEF NoInstance
  <2>27. CASE WaitFails(l)
    BY <2>27 DEF WaitFails
  <2>28. CASE WaitUnconfirmed(l)
    BY <2>28 DEF WaitUnconfirmed
  <2>29. CASE WaitCancelled(l)
    BY <2>29, SMTT(30) DEF WaitCancelled
  <2> QED
    BY <2>1, <2>2, <2>3, <2>4, <2>5, <2>6, <2>7, <2>8, <2>9, <2>10, <2>11, <2>12, <2>13, <2>14, <2>15, <2>16, <2>17, <2>18, <2>19, <2>20, <2>21, <2>22, <2>23, <2>24, <2>25, <2>26, <2>27, <2>28, <2>29 DEF AgentStep
<1>3. DeployFrame(l)
  <2> USE DEF IInv, TypeOK, DeployTypeOK, StopTypeOK, LeaseChainTypeOK, DeployFrame, SameDeploy,
          SameStop, Forward
  <2>1. CASE Abort(l)
    BY <2>1 DEF Abort
  <2>2. CASE PricingFails(l)
    BY <2>2 DEF PricingFails
  <2>3. CASE Priced(l)
    BY <2>3 DEF Priced
  <2>4. CASE PlanEdited(l)
    BY <2>4 DEF PlanEdited
  <2>5. CASE PlanConfirmed(l)
    BY <2>5 DEF PlanConfirmed
  <2>6. CASE PlanCancelled(l)
    BY <2>6 DEF PlanCancelled
  <2>7. CASE Agreed(l)
    BY <2>7 DEF Agreed
  <2>8. CASE Deployed(l)
    BY <2>8 DEF Deployed
  <2>9. CASE NeedsWait(l)
    BY <2>9 DEF NeedsWait
  <2>10. CASE DeployFailed(l)
    BY <2>10 DEF DeployFailed
  <2>11. CASE NoRecovery(l)
    BY <2>11 DEF NoRecovery
  <2>12. CASE AskRecovery(l)
    BY <2>12 DEF AskRecovery
  <2>13. CASE ChoiceFails(l)
    BY <2>13 DEF ChoiceFails
  <2>14. CASE Salvaged(l)
    BY <2>14 DEF Salvaged
  <2>15. CASE CloseChosen(l)
    BY <2>15 DEF CloseChosen, Start, Step
  <2>16. CASE Closed(l)
    BY <2>16 DEF Closed, StopSound
  <2>17. CASE CloseFails(l)
    BY <2>17 DEF CloseFails
  <2>18. CASE RetryChosen(l)
    BY <2>18 DEF RetryChosen
  <2>19. CASE SendReset(l)
    BY <2>19 DEF SendReset, Submit
  <2>20. CASE Reset(l)
    BY <2>20 DEF Reset
  <2>21. CASE ProviderResolved(l)
    BY <2>21 DEF ProviderResolved
  <2>22. CASE Reupload(l)
    BY <2>22 DEF Reupload
  <2>23. CASE Reuploaded(l)
    BY <2>23 DEF Reuploaded
  <2>24. CASE RetryFails(l)
    BY <2>24 DEF RetryFails
  <2>25. CASE WaitReady(l)
    BY <2>25 DEF WaitReady, SaysReady
  <2>26. CASE NoInstance(l)
    BY <2>26 DEF NoInstance
  <2>27. CASE WaitFails(l)
    BY <2>27 DEF WaitFails
  <2>28. CASE WaitUnconfirmed(l)
    BY <2>28 DEF WaitUnconfirmed
  <2>29. CASE WaitCancelled(l)
    BY <2>29 DEF WaitCancelled
  <2> QED
    BY <2>1, <2>2, <2>3, <2>4, <2>5, <2>6, <2>7, <2>8, <2>9, <2>10, <2>11, <2>12, <2>13, <2>14, <2>15, <2>16, <2>17, <2>18, <2>19, <2>20, <2>21, <2>22, <2>23, <2>24, <2>25, <2>26, <2>27, <2>28, <2>29 DEF AgentStep
<1> QED
  BY <1>1, <1>2, <1>3, FrameIInv

\* A step of deployManifest, called directly or by the agent, preserves it.
LEMMA DeployIInv ==
  ASSUME IInv, NEW l \in Leases, Deploy(l)
  PROVE  IInv'
<1> USE DEF Move, ReportEnd, inputVars, providerVars, stopVars, stopInputs, agentVars,
            planVars, chainVars
<1>0. /\ apc[l] \in {"direct", "deploying"} /\ DeployStep(l)
      /\ UNCHANGED <<agentVars, stopVars>>
  BY DEF Deploy
<1>1. TypeOK'
  <2> USE <1>0, CallersAssumption
          DEF IInv, TypeOK, DeployTypeOK, StopTypeOK, LeaseChainTypeOK, DeployPcs, Reports,
              Report, Partial, Txs, Tx, Kinds
  <2>1. CASE Begin(l)
    BY <2>1 DEF Begin
  <2>2. CASE ReadingFails(l)
    BY <2>2 DEF ReadingFails
  <2>3. CASE Resolved(l)
    BY <2>3 DEF Resolved
  <2>4. CASE SendCreate(l)
    BY <2>4 DEF SendCreate, Submit
  <2>5. CASE CreateFails(l)
    BY <2>5 DEF CreateFails
  <2>6. CASE Created(l)
    BY <2>6 DEF Created
  <2>7. CASE NotifyFails(l)
    BY <2>7 DEF NotifyFails
  <2>8. CASE Notified(l)
    BY <2>8 DEF Notified
  <2>9. CASE SendDomain(l)
    BY <2>9 DEF SendDomain, Submit
  <2>10. CASE DomainFails(l)
    BY <2>10 DEF DomainFails
  <2>11. CASE DomainSet(l)
    BY <2>11 DEF DomainSet
  <2>12. CASE SendUpload(l)
    BY <2>12 DEF SendUpload
  <2>13. CASE UploadFails(l)
    BY <2>13 DEF UploadFails
  <2>14. CASE BillingOnly(l)
    BY <2>14 DEF BillingOnly
  <2>15. CASE Uploaded(l)
    BY <2>15 DEF Uploaded
  <2>16. CASE PollReady(l)
    BY <2>16 DEF PollReady
  <2>17. CASE PollVerdict(l)
    BY <2>17 DEF PollVerdict
  <2>18. CASE PollChainTerminal(l)
    BY <2>18 DEF PollChainTerminal
  <2>19. CASE PollSilent(l)
    BY <2>19 DEF PollSilent
  <2>20. CASE Connected(l)
    BY <2>20, SMTT(30) DEF Connected
  <2> QED
    BY <2>1, <2>2, <2>3, <2>4, <2>5, <2>6, <2>7, <2>8, <2>9, <2>10, <2>11, <2>12, <2>13, <2>14, <2>15, <2>16, <2>17, <2>18, <2>19, <2>20 DEF DeployStep
<1>2. DeploySound(l)'
  <2>0. TypeOK /\ DeploySound(l)
    BY DEF IInv
  <2> USE <1>0, <2>0 DEF TypeOK, DeployTypeOK, DeploySound, Placed, Named, Uploaded1, Verdicts,
          BeforeCreated, BeforeUpload, Report
  <2>1. CASE Begin(l)
    BY <2>1 DEF Begin
  <2>2. CASE ReadingFails(l)
    BY <2>2 DEF ReadingFails
  <2>3. CASE Resolved(l)
    BY <2>3 DEF Resolved
  <2>4. CASE SendCreate(l)
    BY <2>4 DEF SendCreate, Submit
  <2>5. CASE CreateFails(l)
    BY <2>5 DEF CreateFails
  <2>6. CASE Created(l)
    BY <2>6 DEF Created
  <2>7. CASE NotifyFails(l)
    BY <2>7 DEF NotifyFails, Partial
  <2>8. CASE Notified(l)
    BY <2>8 DEF Notified
  <2>9. CASE SendDomain(l)
    BY <2>9 DEF SendDomain, Submit
  <2>10. CASE DomainFails(l)
    BY <2>10 DEF DomainFails, Partial
  <2>11. CASE DomainSet(l)
    BY <2>11 DEF DomainSet
  <2>12. CASE SendUpload(l)
    BY <2>12 DEF SendUpload
  <2>13. CASE UploadFails(l)
    BY <2>13 DEF UploadFails, Partial
  <2>14. CASE BillingOnly(l)
    BY <2>14 DEF BillingOnly, Partial
  <2>15. CASE Uploaded(l)
    BY <2>15 DEF Uploaded
  <2>16. CASE PollReady(l)
    BY <2>16 DEF PollReady, SaysReady
  <2>17. CASE PollVerdict(l)
    BY <2>17 DEF PollVerdict, Partial, SaysFailed
  <2>18. CASE PollChainTerminal(l)
    BY <2>18 DEF PollChainTerminal
  <2>19. CASE PollSilent(l)
    BY <2>19 DEF PollSilent
  <2>20. CASE Connected(l)
    BY <2>20 DEF Connected
  <2> QED
    BY <2>1, <2>2, <2>3, <2>4, <2>5, <2>6, <2>7, <2>8, <2>9, <2>10, <2>11, <2>12, <2>13, <2>14, <2>15, <2>16, <2>17, <2>18, <2>19, <2>20 DEF DeployStep
<1>3. DeployFrame(l)
  <2> USE <1>0, CallersAssumption DEF IInv, TypeOK, DeployTypeOK, StopTypeOK, LeaseChainTypeOK,
          DeployFrame, SameDeploy, SameStop, Forward, Later
  <2>1. CASE Begin(l)
    BY <2>1 DEF Begin
  <2>2. CASE ReadingFails(l)
    BY <2>2 DEF ReadingFails
  <2>3. CASE Resolved(l)
    BY <2>3 DEF Resolved
  <2>4. CASE SendCreate(l)
    BY <2>4 DEF SendCreate, Submit
  <2>5. CASE CreateFails(l)
    BY <2>5 DEF CreateFails
  <2>6. CASE Created(l)
    BY <2>6 DEF Created
  <2>7. CASE NotifyFails(l)
    BY <2>7 DEF NotifyFails
  <2>8. CASE Notified(l)
    BY <2>8 DEF Notified
  <2>9. CASE SendDomain(l)
    BY <2>9 DEF SendDomain, Submit
  <2>10. CASE DomainFails(l)
    BY <2>10 DEF DomainFails
  <2>11. CASE DomainSet(l)
    BY <2>11 DEF DomainSet
  <2>12. CASE SendUpload(l)
    BY <2>12 DEF SendUpload
  <2>13. CASE UploadFails(l)
    BY <2>13 DEF UploadFails
  <2>14. CASE BillingOnly(l)
    BY <2>14 DEF BillingOnly
  <2>15. CASE Uploaded(l)
    BY <2>15 DEF Uploaded
  <2>16. CASE PollReady(l)
    BY <2>16 DEF PollReady
  <2>17. CASE PollVerdict(l)
    BY <2>17 DEF PollVerdict
  <2>18. CASE PollChainTerminal(l)
    BY <2>18 DEF PollChainTerminal
  <2>19. CASE PollSilent(l)
    BY <2>19 DEF PollSilent
  <2>20. CASE Connected(l)
    BY <2>20 DEF Connected
  <2> QED
    BY <2>1, <2>2, <2>3, <2>4, <2>5, <2>6, <2>7, <2>8, <2>9, <2>10, <2>11, <2>12, <2>13, <2>14, <2>15, <2>16, <2>17, <2>18, <2>19, <2>20 DEF DeployStep
<1> QED
  BY <1>1, <1>2, <1>3, FrameIInv

\* Executing a transaction moves a lease forward, if at all.
LEMMA ExecuteForward ==
  ASSUME TypeOK, NEW c \in Callers, Execute(c)
  PROVE  /\ LeaseChainTypeOK' /\ Forward
         /\ tx' = [tx EXCEPT ![c] = NoTx]
         /\ \E r \in {"ok", "failed"} : receipt' = [receipt EXCEPT ![c] = r]
<1> USE DEF TypeOK, DeployTypeOK, LeaseChainTypeOK, Execute
<1>1. tx[c] \in [kind : Kinds, of : Leases]
  BY DEF Txs
<1>2. CASE receipt' = [receipt EXCEPT ![c] = "failed"] /\ UNCHANGED lease
  BY <1>2 DEF Forward, Later, Txs
<1>3. CASE /\ lease[tx[c].of] \in From(tx[c].kind)
           /\ lease' = [lease EXCEPT ![tx[c].of] = To(tx[c].kind, @)]
           /\ receipt' = [receipt EXCEPT ![c] = "ok"]
  <2>1. Later(lease[tx[c].of], To(tx[c].kind, lease[tx[c].of]))
    BY <1>1, <1>3 DEF From, To, Later, Kinds
  <2>2. To(tx[c].kind, lease[tx[c].of]) \in LeaseStates
    BY <1>1, <2>1 DEF Later
  <2> QED
    BY <1>1, <1>3, <2>1, <2>2 DEF Forward, Later, Txs
<1> QED
  BY <1>2, <1>3

LEMMA LapseForward ==
  ASSUME TypeOK, NEW l \in Leases, Lapse(l) \/ Acknowledge(l)
  PROVE  LeaseChainTypeOK' /\ Forward
  BY DEF TypeOK, DeployTypeOK, LeaseChainTypeOK, Lapse, Acknowledge, Forward, Later

\* A step of the provider or of the chain for a deploy preserves it.
LEMMA WorldIInv ==
  ASSUME IInv, NEW l \in Leases, World(l)
  PROVE  IInv'
<1> USE DEF inputVars, providerVars, deployVars, stopVars, stopInputs, agentVars, planVars, chainVars
<1>1. CASE ProviderStep(l)
  <2> USE <1>1 DEF World, ProviderStep, TakeUpload, RefuseUpload, Provision, IInv, TypeOK,
                   DeployTypeOK, StopTypeOK, LeaseChainTypeOK
  <2>1. TypeOK'
    OBVIOUS
  <2>2. DeploySound(l)'
    <3> HIDE DEF IInv, StopTypeOK
    <3>0. TypeOK /\ DeploySound(l)
      BY DEF IInv
    <3>1. Placed(l)' /\ Named(l)'
      BY <3>0 DEF DeploySound, Placed, Named
    <3>2. Uploaded1(l)'
      BY <3>0 DEF DeploySound, Uploaded1, BeforeCreated, BeforeUpload
    <3>3. Verdicts(l)'
      BY <3>0 DEF DeploySound, Uploaded1, Verdicts
    <3> QED
      BY <3>1, <3>2, <3>3 DEF DeploySound
  <2>3. DeployFrame(l)
    BY DEF DeployFrame, SameDeploy, SameStop, Forward, Later
  <2> QED
    BY <2>1, <2>2, <2>3, FrameIInv
<1>2. CASE LeaseStep(l)
  <2>0. TypeOK /\ l \in Callers /\ \A s \in Stops : s # l
    BY CallersAssumption DEF IInv
  <2>1. LeaseChainTypeOK' /\ Forward
    BY <1>2, <2>0, ExecuteForward, LapseForward
       DEF LeaseStep, Evict, TypeOK, DeployTypeOK, LeaseChainTypeOK, Forward, Later, Txs, NoTx
  <2>2. \A s \in Stops : tx'[s] = tx[s] /\ receipt'[s] = receipt[s]
    <3> USE <2>0, CallersAssumption DEF TypeOK, DeployTypeOK, LeaseChainTypeOK
    <3>1. CASE Execute(l)
      BY <3>1 DEF Execute
    <3>2. CASE Evict(l)
      BY <3>2 DEF Evict
    <3>3. CASE Lapse(l) \/ Acknowledge(l)
      BY <3>3 DEF Lapse, Acknowledge
    <3> QED
      BY <1>2, <3>1, <3>2, <3>3 DEF LeaseStep
  <2>3. TypeOK'
    BY <1>2, <2>0, <2>1 DEF World, LeaseStep, TypeOK, DeployTypeOK, StopTypeOK
  <2>4. (\A d \in Leases : SameDeploy(d)) /\ UNCHANGED target
    BY <1>2 DEF World, LeaseStep, SameDeploy
  <2>5. \A s \in Stops : SameStop(s)
    BY <1>2, <2>2 DEF World, LeaseStep, SameStop
  <2> QED
    BY <2>0, <2>1, <2>3, <2>4, <2>5, SameDeploySound, SameStopSound DEF IInv
<1> QED
  BY <1>1, <1>2 DEF World

\* What a step of stop s leaves of the others.
StopFrame(s) ==
  /\ \A l \in Leases : SameDeploy(l)
  /\ \A t \in Stops \ {s} : SameStop(t)
  /\ Forward
  /\ UNCHANGED target

LEMMA StopFrameIInv ==
  ASSUME IInv, TypeOK', NEW s \in Stops, StopSound(s)', StopFrame(s)
  PROVE  IInv'
  BY SameDeploySound, SameStopSound DEF IInv, StopFrame

\* What stopApp answers, and closeLease goes on to verify, keeps the types.
LEMMA AnswersTyped ==
  ASSUME StopTypeOK, NEW s \in Stops, NEW k \in {"confirmed", "already_inactive"},
         NEW v \in Terminal, StopAnswers(s, Outcome(k, v))
  PROVE  spc' \in [Stops -> StopPcs] /\ outcome' \in [Stops -> Outcomes]
<1>1. CASE mode[s] = "close"
  BY <1>1 DEF StopTypeOK, StopAnswers, StopPcs
<1>2. CASE mode[s] # "close"
  BY <1>2 DEF StopTypeOK, StopAnswers, StopEnds, StopPcs, Outcomes, Outcome
<1> QED
  BY <1>1, <1>2

\* A step of a stop preserves it.
LEMMA StopIInv ==
  ASSUME IInv, NEW s \in Stops, Stop(s)
  PROVE  IInv'
<1> USE DEF Step, StopEnds, StopAnswers, deployVars, inputVars, providerVars, stopInputs,
            agentVars, planVars, chainVars
<1>0. /\ Start(s) \/ Fire(s) \/ StopStep(s)
      /\ UNCHANGED <<deployVars, providerVars, agentVars>>
  BY DEF Stop
<1>1. TypeOK'
  <2>0. TypeOK
    BY DEF IInv
  <2> HIDE DEF StopAnswers
  <2> USE <1>0, <2>0, CallersAssumption
          DEF TypeOK, DeployTypeOK, StopTypeOK, LeaseChainTypeOK, StopPcs, Outcomes,
              Outcome, Txs, Tx, Kinds
  <2>1. CASE Start(s)
    BY <2>1 DEF Start
  <2>2. CASE Fire(s)
    BY <2>2 DEF Fire
  <2>3. CASE Declined(s)
    BY <2>3 DEF Declined
  <2>4. CASE Confirmed(s)
    BY <2>4 DEF Confirmed
  <2>5. CASE StopCancelled(s)
    BY <2>5 DEF StopCancelled
  <2>6. CASE QueryFails(s)
    BY <2>6 DEF QueryFails
  <2>7. CASE FoundInactive(s)
    <3>1. PICK v \in Terminal : StopAnswers(s, Outcome("already_inactive", v))
      BY <2>7 DEF FoundInactive
    <3> QED
      BY <2>7, <3>1, AnswersTyped DEF FoundInactive
  <2>8. CASE FoundLive(s)
    BY <2>8 DEF FoundLive, Seen, Past
  <2>9. CASE Send(s)
    BY <2>9 DEF Send, Submit, Subcommand
  <2>10. CASE TxAccepted(s)
    BY <2>10 DEF TxAccepted, EndState
  <2>11. CASE TxConfirmed(s)
    <3>1. EndState(s) \in Terminal
      BY DEF EndState
    <3> QED
      BY <2>11, <3>1, AnswersTyped DEF TxConfirmed
  <2>12. CASE TxFails(s)
    <3>0. UNCHANGED <<stopInputs, fired, saw, chainVars>>
      BY <2>12 DEF TxFails
    <3>1. CASE mode[s] = "async"
      <4>1. StopEnds(s, Outcome("error", "none"))
        BY <2>12, <3>1 DEF TxFails
      <4> QED
        BY <3>0, <4>1
    <3>2. CASE mode[s] # "async"
      <4>1. spc' = [spc EXCEPT ![s] = "requerying"] /\ UNCHANGED outcome
        BY <2>12, <3>2 DEF TxFails
      <4> QED
        BY <3>0, <4>1
    <3> QED
      BY <3>1, <3>2
  <2>13. CASE Converged(s)
    <3>1. PICK v \in Terminal : StopAnswers(s, Outcome("already_inactive", v))
      BY <2>13 DEF Converged
    <3> QED
      BY <2>13, <3>1, AnswersTyped DEF Converged
  <2>14. CASE Reinvoke(s)
    BY <2>14 DEF Reinvoke
  <2>15. CASE NotConverged(s)
    BY <2>15 DEF NotConverged
  <2>16. CASE Verified(s)
    BY <2>16 DEF Verified
  <2>17. CASE Unverified(s)
    BY <2>17 DEF Unverified
  <2> QED
    BY <1>0, <2>1, <2>2, <2>3, <2>4, <2>5, <2>6, <2>7, <2>8, <2>9, <2>10, <2>11, <2>12, <2>13, <2>14, <2>15, <2>16, <2>17 DEF StopStep
<1>2. StopSound(s)'
  <2>0. TypeOK /\ StopSound(s)
    BY DEF IInv
  <2> USE <1>0, <2>0 DEF TypeOK, StopTypeOK, StopSound, Outcome, Subcommand, EndState
  <2>1. CASE Start(s)
    BY <2>1 DEF Start
  <2>2. CASE Fire(s)
    BY <2>2 DEF Fire
  <2>3. CASE Declined(s)
    BY <2>3 DEF Declined
  <2>4. CASE Confirmed(s)
    BY <2>4 DEF Confirmed
  <2>5. CASE StopCancelled(s)
    BY <2>5 DEF StopCancelled
  <2>6. CASE QueryFails(s)
    BY <2>6 DEF QueryFails
  <2>7. CASE FoundInactive(s)
    BY <2>7 DEF FoundInactive, Seen, Past, DeployTypeOK, LeaseChainTypeOK
  <2>8. CASE FoundLive(s)
    BY <2>8 DEF FoundLive
  <2>9. CASE Send(s)
    <3>1. /\ tx'[s] = Tx(Subcommand(s), target[s]) /\ receipt'[s] = "none"
          /\ UNCHANGED <<target, saw, outcome, lease>>
      BY <2>9, CallersAssumption DEF Send, Submit, DeployTypeOK, LeaseChainTypeOK
    <3> QED
      BY <3>1
  <2>10. CASE TxAccepted(s)
    BY <2>10 DEF TxAccepted
  <2>11. CASE TxConfirmed(s)
    BY <2>11 DEF TxConfirmed
  <2>12. CASE TxFails(s)
    BY <2>12 DEF TxFails
  <2>13. CASE Converged(s)
    BY <2>13 DEF Converged, Seen, Past, DeployTypeOK, LeaseChainTypeOK
  <2>14. CASE Reinvoke(s)
    BY <2>14 DEF Reinvoke, Seen, Past, DeployTypeOK, LeaseChainTypeOK
  <2>15. CASE NotConverged(s)
    BY <2>15 DEF NotConverged
  <2>16. CASE Verified(s)
    BY <2>16 DEF Verified, Seen, Past, DeployTypeOK, LeaseChainTypeOK
  <2>17. CASE Unverified(s)
    BY <2>17 DEF Unverified
  <2> QED
    BY <1>0, <2>1, <2>2, <2>3, <2>4, <2>5, <2>6, <2>7, <2>8, <2>9, <2>10, <2>11, <2>12, <2>13, <2>14, <2>15, <2>16, <2>17 DEF StopStep
<1>3. StopFrame(s)
  <2> USE <1>0, CallersAssumption DEF IInv, TypeOK, DeployTypeOK, StopTypeOK, LeaseChainTypeOK,
          StopFrame, SameDeploy, SameStop, Forward, Later
  <2>1. CASE Start(s)
    BY <2>1 DEF Start
  <2>2. CASE Fire(s)
    BY <2>2 DEF Fire
  <2>3. CASE Declined(s)
    BY <2>3 DEF Declined
  <2>4. CASE Confirmed(s)
    BY <2>4 DEF Confirmed
  <2>5. CASE StopCancelled(s)
    BY <2>5 DEF StopCancelled
  <2>6. CASE QueryFails(s)
    BY <2>6 DEF QueryFails
  <2>7. CASE FoundInactive(s)
    BY <2>7 DEF FoundInactive
  <2>8. CASE FoundLive(s)
    BY <2>8 DEF FoundLive
  <2>9. CASE Send(s)
    BY <2>9 DEF Send, Submit
  <2>10. CASE TxAccepted(s)
    BY <2>10 DEF TxAccepted
  <2>11. CASE TxConfirmed(s)
    BY <2>11 DEF TxConfirmed
  <2>12. CASE TxFails(s)
    BY <2>12 DEF TxFails
  <2>13. CASE Converged(s)
    BY <2>13 DEF Converged
  <2>14. CASE Reinvoke(s)
    BY <2>14 DEF Reinvoke
  <2>15. CASE NotConverged(s)
    BY <2>15 DEF NotConverged
  <2>16. CASE Verified(s)
    BY <2>16 DEF Verified
  <2>17. CASE Unverified(s)
    BY <2>17 DEF Unverified
  <2> QED
    BY <1>0, <2>1, <2>2, <2>3, <2>4, <2>5, <2>6, <2>7, <2>8, <2>9, <2>10, <2>11, <2>12, <2>13, <2>14, <2>15, <2>16, <2>17 DEF StopStep
<1> QED
  BY <1>1, <1>2, <1>3, StopFrameIInv

LEMMA StopTxIInv ==
  ASSUME IInv, NEW s \in Stops, StopTx(s)
  PROVE  IInv'
<1> USE DEF deployVars, inputVars, providerVars, stopVars, stopInputs, agentVars, planVars, chainVars
<1>0. TypeOK /\ StopSound(s) /\ s \in Callers /\ Stops \subseteq Callers
  BY CallersAssumption DEF IInv
<1>1. LeaseChainTypeOK' /\ Forward
  BY <1>0, ExecuteForward
     DEF StopTx, Evict, TypeOK, DeployTypeOK, LeaseChainTypeOK, Forward, Later, Txs, NoTx
<1>2. TypeOK'
  BY <1>0, <1>1 DEF StopTx, TypeOK, DeployTypeOK, StopTypeOK
<1>3. StopFrame(s)
  <2>1. \A t \in Stops \ {s} : tx'[t] = tx[t] /\ receipt'[t] = receipt[t]
    BY <1>0, ExecuteForward DEF StopTx, Evict, TypeOK, DeployTypeOK, LeaseChainTypeOK
  <2> QED
    BY <1>1, <2>1 DEF StopTx, StopFrame, SameDeploy, SameStop
<1>4. StopSound(s)'
  <2> USE DEF StopTx, TypeOK, DeployTypeOK, StopTypeOK, LeaseChainTypeOK
  <2>1. /\ outcome[s].kind \in {"confirmed", "already_inactive"} =>
             lease'[target[s]] = outcome[s].state /\ lease'[target[s]] \in Terminal
        /\ outcome[s].kind = "reinvoke" => lease'[target[s]] \in {"active", "closed"}
    BY <1>0, <1>1 DEF StopSound, Forward, Later
  <2>2. CASE Evict(s)
    BY <1>0, <2>1, <2>2 DEF StopSound, Evict, Subcommand, EndState
  <2>3. CASE Execute(s) /\ receipt' = [receipt EXCEPT ![s] = "failed"]
    <3>1. tx'[s] = NoTx /\ receipt'[s] = "failed"
      BY <1>0, <2>3 DEF Execute
    <3> QED
      BY <2>1, <3>1 DEF StopSound, StopTx
  <2>4. CASE Execute(s) /\ receipt' # [receipt EXCEPT ![s] = "failed"]
    <3>1. /\ lease[tx[s].of] \in From(tx[s].kind)
          /\ lease' = [lease EXCEPT ![tx[s].of] = To(tx[s].kind, @)]
          /\ tx' = [tx EXCEPT ![s] = NoTx]
          /\ tx[s] # NoTx
      BY <2>4 DEF Execute
    <3>2. spc[s] = "waiting" => lease'[target[s]] = EndState(s)
      BY <1>0, <3>1 DEF StopSound, Tx, From, To, Subcommand, EndState
    <3> QED
      BY <1>0, <2>1, <3>1, <3>2 DEF StopSound, EndState
  <2> QED
    BY <2>2, <2>3, <2>4
<1> QED
  BY <1>2, <1>3, <1>4, StopFrameIInv

\* Every initial state satisfies the invariant.
LEMMA InitIInv ==
  ASSUME Init
  PROVE  IInv
<1>1. TypeOK
  BY CallersAssumption, NoneAssumption, MaxEditsAssumption
     DEF Init, DeployInit, StopInit, LeaseChainInit, TypeOK, DeployTypeOK, StopTypeOK, LeaseChainTypeOK, DeployPcs, StopPcs, AgentPcs,
         Reports, Report, Unreported, Outcomes, Outcome, NoOutcome, Answers, Answer, NoAnswer, Txs
<1>2. ASSUME NEW d \in Leases PROVE DeploySound(d)
  <2>1. /\ dpc[d] = "idle" /\ report[d] = Unreported /\ ~created[d]
        /\ upload[d] = "none" /\ provision[d] = "none"
    BY DEF Init, DeployInit
  <2>2. /\ apc[d] \in {"direct", "pricing"} /\ spec[d] = shown[d]
        /\ answer[d] = NoAnswer /\ ~told[d]
    BY DEF Init
  <2>3. report[d].says = "nothing" /\ answer[d].code = "none" /\ ~answer[d].torn
    BY <2>1, <2>2 DEF Unreported, Report, NoAnswer, Answer
  <2>4. Placed(d)
    BY <2>1, <2>2, <2>3 DEF Placed
  <2>5. Named(d)
    BY <2>1, <2>2, <2>3 DEF Named
  <2>6. Uploaded1(d)
    BY <2>1, <2>2, <2>3 DEF Uploaded1
  <2>7. Verdicts(d)
    BY <2>1, <2>2, <2>3 DEF Verdicts
  <2> QED
    BY <2>4, <2>5, <2>6, <2>7 DEF DeploySound
<1>3. ASSUME NEW s \in Stops PROVE StopSound(s)
  BY <1>3 DEF Init, StopInit, StopSound, NoOutcome, Outcome
<1> QED
  BY <1>1, <1>2, <1>3 DEF IInv

\* Every step preserves it.
LEMMA NextIInv ==
  ASSUME IInv, [Next]_vars
  PROVE  IInv'
<1>1. ASSUME NEW l \in Leases, AgentStep(l) \/ Abort(l) PROVE IInv'
  BY <1>1, AgentStepIInv
<1>2. ASSUME NEW l \in Leases, Deploy(l) PROVE IInv'
  BY <1>2, DeployIInv
<1>3. ASSUME NEW l \in Leases, World(l) PROVE IInv'
  BY <1>3, WorldIInv
<1>4. ASSUME NEW s \in Stops, Stop(s) PROVE IInv'
  BY <1>4, StopIInv
<1>5. ASSUME NEW s \in Stops, StopTx(s) PROVE IInv'
  BY <1>5, StopTxIInv
<1>6. CASE UNCHANGED vars
  <2> USE <1>6 DEF vars, deployVars, inputVars, providerVars, stopVars, stopInputs, agentVars,
                   planVars, chainVars
  <2>1. TypeOK'
    BY DEF IInv, TypeOK, DeployTypeOK, StopTypeOK, LeaseChainTypeOK
  <2>2. /\ \A l \in Leases : SameDeploy(l)
        /\ \A s \in Stops : SameStop(s)
        /\ Forward /\ UNCHANGED target
    BY DEF SameDeploy, SameStop, Forward, Later
  <2> QED
    BY <2>1, <2>2, SameDeploySound, SameStopSound DEF IInv
<1> QED
  BY <1>1, <1>2, <1>3, <1>4, <1>5, <1>6 DEF Next

\* The inductive invariant holds in every reachable state.
THEOREM IInvInvariant == Spec => []IInv
  BY InitIInv, NextIInv, PTL DEF Spec

\* Every state has its types.
THEOREM TypeCorrect == Spec => []TypeOK
<1>1. IInv => TypeOK
  BY DEF IInv
<1> QED
  BY <1>1, IInvInvariant, PTL

\* A report that the deployment failed, or that the chain ended its lease, rests
\* on a verdict, and stays true.
THEOREM FailureRests == Spec => []FailureIsVerdict
<1>1. IInv => FailureIsVerdict
  BY DEF IInv, FailureIsVerdict, DeploySound, Verdicts
<1> QED
  BY <1>1, IInvInvariant, PTL

\* What is bought is what the confirmed plan showed.
THEOREM BoughtAsShown == Spec => []DeploysWhatWasShown
<1>1. IInv => DeploysWhatWasShown
  BY DEF IInv, DeploysWhatWasShown, DeploySound, Placed
<1> QED
  BY <1>1, IInvInvariant, PTL

\* No report of a deploy and no answer of the agent loses a lease that was paid
\* for.
THEOREM LeaseKept == Spec => []LeaseNeverLost
<1>1. IInv => LeaseNeverLost
  BY DEF IInv, LeaseNeverLost, DeploySound, Placed, Named
<1> QED
  BY <1>1, IInvInvariant, PTL

\* The agent says that a deploy succeeded only of an app that is ready.
THEOREM SuccessReady == Spec => []SuccessMeansReady
<1>1. IInv => SuccessMeansReady
  BY DEF IInv, SuccessMeansReady, DeploySound, Uploaded1, Verdicts
<1> QED
  BY <1>1, IInvInvariant, PTL

\* A teardown that is answered as done is done, in the state the answer names, an
\* answer that asks to call again is about a lease that no cancel can end, and a
\* recovery that says it closed the lease did.
THEOREM TeardownHolds == Spec => []TeardownTrue
<1>1. IInv => StopAnswersTrue
  BY DEF IInv, StopAnswersTrue, StopSound
<1>2. IInv => TeardownTrue
  BY <1>1 DEF IInv, TeardownTrue, DeploySound, Verdicts
<1> QED
  BY <1>2, IInvInvariant, PTL
=============================================================================
