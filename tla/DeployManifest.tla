--------------------------- MODULE DeployManifest ---------------------------
(***************************************************************************)
(* deployManifest (fred/src/tools/deployManifest.ts): buy a lease, claim   *)
(* its domain, upload the manifest, wait until the app is ready.  The      *)
(* lease is paid for from its creation on, so every later failure is a     *)
(* partial success, and says what is to become of the lease.               *)
(*                                                                         *)
(* The chain is LeaseChain.  A deploy carries the name of the lease it     *)
(* creates.  The provider is external: an upload may arrive late or never, *)
(* be refused, or be taken with its answer lost.                           *)
(***************************************************************************)
EXTENDS LeaseChain

VARIABLES
  dpc,        \* where a deploy is
  domain,     \* input: does it claim a custom domain?
  checks,     \* input: does its poll also ask the chain (checkChainState)?
  aborted,    \* its signal has fired
  report,     \* what its caller was told
  created,    \* history: createLease returned to it
  upload,     \* the provider: the manifest's POST, on its way or answered
  provision   \* the provider: provision_status of the lease

inputVars == <<domain, checks>>
providerVars == <<upload, provision>>
deployVars == <<dpc, inputVars, aborted, report, created>>

DeployPcs == {"idle", "reading", "creating", "waitCreate", "notifying", "domain",
              "waitDomain", "minting", "uploading", "polling", "connecting", "ended"}

\* A report: what it says of the deploy, the failedStep, does it name the
\* lease, and is it coded OPERATION_CANCELLED?
Report(says, step, named, cancelled) ==
  [says |-> says, step |-> step, named |-> named, cancelled |-> cancelled]
Unreported == Report("nothing", "none", FALSE, FALSE)
Reports == [says : {"nothing", "ready", "failed", "partial", "billing_only",
                    "unconfirmed", "terminal"},
            step : {"none", "set_domain", "upload", "poll"},
            named : BOOLEAN, cancelled : BOOLEAN]

DeployInit ==
  /\ dpc = [l \in Leases |-> "idle"]
  /\ domain \in [Leases -> BOOLEAN]
  /\ checks \in [Leases -> BOOLEAN]
  /\ aborted = [l \in Leases |-> FALSE]
  /\ report = [l \in Leases |-> Unreported]
  /\ created = [l \in Leases |-> FALSE]
  /\ upload = [l \in Leases |-> "none"]
  /\ provision = [l \in Leases |-> "none"]
  /\ LeaseChainInit

-----------------------------------------------------------------------------
(* The deploy.                                                             *)

Move(l, from, to) == dpc[l] = from /\ dpc' = [dpc EXCEPT ![l] = to]

ReportEnd(l, r) ==
  /\ dpc' = [dpc EXCEPT ![l] = "ended"]
  /\ report' = [report EXCEPT ![l] = r]

Begin(l) ==
  /\ Move(l, "idle", "reading")
  /\ UNCHANGED <<inputVars, aborted, report, created, providerVars, chainVars>>

\* The input is invalid, a read fails, or the last look at the signal before
\* the broadcast finds it fired: nothing was bought.
ReadingFails(l) ==
  /\ dpc[l] = "reading"
  /\ ReportEnd(l, Report("failed", "none", FALSE, FALSE))
  /\ UNCHANGED <<inputVars, aborted, created, providerVars, chainVars>>

\* SKU, provider and compatibility are resolved.
Resolved(l) ==
  /\ ~aborted[l]
  /\ Move(l, "reading", "creating")
  /\ UNCHANGED <<inputVars, aborted, report, created, providerVars, chainVars>>

\* createLease ignores the signal.
SendCreate(l) ==
  /\ Move(l, "creating", "waitCreate")
  /\ Submit(l, "create-lease", l)
  /\ UNCHANGED <<inputVars, aborted, report, created, providerVars>>

\* createLease rejects: not sent, executed with an error, not seen included in
\* time, or its events name no lease.
CreateFails(l) ==
  /\ dpc[l] \in {"creating", "waitCreate"}
  /\ ReportEnd(l, Report("failed", "none", FALSE, FALSE))
  /\ UNCHANGED <<inputVars, aborted, created, providerVars, chainVars>>

\* The lease exists: onLeaseCreated is told.
Created(l) ==
  /\ receipt[l] = "ok"
  /\ Move(l, "waitCreate", "notifying")
  /\ created' = [created EXCEPT ![l] = TRUE]
  /\ UNCHANGED <<inputVars, aborted, report, providerVars, chainVars>>

\* The generic partial success: "Close this lease with close_lease if needed".
Partial(l, step) == Report("partial", step, TRUE, aborted[l])

\* onLeaseCreated throws, or the signal has fired meanwhile.
NotifyFails(l) ==
  /\ dpc[l] = "notifying"
  /\ ReportEnd(l, Partial(l, "none"))
  /\ UNCHANGED <<inputVars, aborted, created, providerVars, chainVars>>

Notified(l) ==
  /\ ~aborted[l]
  /\ Move(l, "notifying", IF domain[l] THEN "domain" ELSE "minting")
  /\ UNCHANGED <<inputVars, aborted, report, created, providerVars, chainVars>>

\* setItemCustomDomain ignores the signal.
SendDomain(l) ==
  /\ Move(l, "domain", "waitDomain")
  /\ Submit(l, "set-item-custom-domain", l)
  /\ UNCHANGED <<inputVars, aborted, report, created, providerVars>>

DomainFails(l) ==
  /\ dpc[l] \in {"domain", "waitDomain"}
  /\ ReportEnd(l, Partial(l, "set_domain"))
  /\ UNCHANGED <<inputVars, aborted, created, providerVars, chainVars>>

DomainSet(l) ==
  /\ receipt[l] = "ok"
  /\ Move(l, "waitDomain", "minting")
  /\ UNCHANGED <<inputVars, aborted, report, created, providerVars, chainVars>>

\* The token is minted and uploadLeaseData posts the manifest.
SendUpload(l) ==
  /\ ~aborted[l]
  /\ Move(l, "minting", "uploading")
  /\ upload' = [upload EXCEPT ![l] = "sent"]
  /\ UNCHANGED <<inputVars, aborted, report, created, provision, chainVars>>

\* No token, or the POST is refused, unanswered or aborted.
UploadFails(l) ==
  /\ dpc[l] \in {"minting", "uploading"}
  /\ ReportEnd(l, Partial(l, "upload"))
  /\ UNCHANGED <<inputVars, aborted, created, providerVars, chainVars>>

\* The refusal says that the provider bills this lease and never deploys to it;
\* it is reported even if the signal has fired.
BillingOnly(l) ==
  /\ dpc[l] = "uploading"
  /\ upload[l] = "billing_only"
  /\ ReportEnd(l, Report("billing_only", "upload", TRUE, FALSE))
  /\ UNCHANGED <<inputVars, aborted, created, providerVars, chainVars>>

Uploaded(l) ==
  /\ upload[l] = "taken"
  /\ Move(l, "uploading", "polling")
  /\ UNCHANGED <<inputVars, aborted, report, created, providerVars, chainVars>>

\* The poll, by its verdicts on what the provider says (its view of the lease
\* may lag behind the chain) ...
SaysReady(l) == "active" \in Seen(l) /\ provision[l] = "ready"
SaysFailed(l) ==
  lease[l] \in Terminal \/ ("active" \in Seen(l) /\ provision[l] = "failed")

PollReady(l) ==
  /\ SaysReady(l)
  /\ Move(l, "polling", "connecting")
  /\ UNCHANGED <<inputVars, aborted, report, created, providerVars, chainVars>>

PollVerdict(l) ==
  /\ dpc[l] = "polling"
  /\ SaysFailed(l)
  /\ ReportEnd(l, Partial(l, "poll"))
  /\ UNCHANGED <<inputVars, aborted, created, providerVars, chainVars>>

\* ... on what the chain says: the lease is gone, nothing is to be closed ...
PollChainTerminal(l) ==
  /\ dpc[l] = "polling"
  /\ checks[l]
  /\ lease[l] \in Terminal
  /\ ReportEnd(l, Report("terminal", "poll", TRUE, FALSE))
  /\ UNCHANGED <<inputVars, aborted, created, providerVars, chainVars>>

\* Mutant: whatever ends the poll is a failed deploy.
PollSilentFails(l) ==
  /\ dpc[l] = "polling"
  /\ ReportEnd(l, Partial(l, "poll"))
  /\ UNCHANGED <<inputVars, aborted, created, providerVars, chainVars>>

\* ... or by anything else (deadline, unreachable or rejecting provider, no
\* token, cancellation), which is silence and no verdict.
PollSilent(l) ==
  /\ dpc[l] = "polling"
  /\ ReportEnd(l, Report("unconfirmed", "poll", TRUE, aborted[l]))
  /\ UNCHANGED <<inputVars, aborted, created, providerVars, chainVars>>

\* The connection details are fetched, or not: the deploy has succeeded.
Connected(l) ==
  /\ dpc[l] = "connecting"
  /\ ReportEnd(l, Report("ready", "none", TRUE, FALSE))
  /\ UNCHANGED <<inputVars, aborted, created, providerVars, chainVars>>

DeployStep(l) ==
  \/ Begin(l) \/ ReadingFails(l) \/ Resolved(l)
  \/ SendCreate(l) \/ CreateFails(l) \/ Created(l)
  \/ NotifyFails(l) \/ Notified(l) \/ SendDomain(l) \/ DomainFails(l) \/ DomainSet(l)
  \/ SendUpload(l) \/ UploadFails(l) \/ BillingOnly(l) \/ Uploaded(l)
  \/ PollReady(l) \/ PollVerdict(l) \/ PollChainTerminal(l) \/ PollSilent(l)
  \/ Connected(l)

-----------------------------------------------------------------------------
(* The provider.                                                           *)

\* A manifest is taken for a lease that waits for one.
TakeUpload(l) ==
  /\ upload[l] = "sent"
  /\ lease[l] = "pending"
  /\ upload' = [upload EXCEPT ![l] = "taken"]
  /\ provision' = [provision EXCEPT ![l] = "provisioning"]
  /\ UNCHANGED <<deployVars, chainVars>>

RefuseUpload(l) ==
  /\ upload[l] = "sent"
  /\ \E why \in {"refused", "billing_only"} : upload' = [upload EXCEPT ![l] = why]
  /\ UNCHANGED <<deployVars, provision, chainVars>>

Provision(l) ==
  /\ provision[l] = "provisioning"
  /\ \E p \in {"ready", "failed"} : provision' = [provision EXCEPT ![l] = p]
  /\ UNCHANGED <<deployVars, upload, chainVars>>

ProviderStep(l) == TakeUpload(l) \/ RefuseUpload(l) \/ Provision(l)

\* The chain moves a deploy's lease; the provider acknowledges what it runs, and
\* on sight what it only bills.
LeaseStep(l) ==
  /\ \/ Execute(l) \/ Evict(l) \/ Lapse(l)
     \/ upload[l] \in {"taken", "billing_only"} /\ Acknowledge(l)
  /\ UNCHANGED <<deployVars, providerVars>>

-----------------------------------------------------------------------------
(* Properties.                                                             *)

DeployTypeOK ==
  /\ dpc \in [Leases -> DeployPcs]
  /\ domain \in [Leases -> BOOLEAN]
  /\ checks \in [Leases -> BOOLEAN]
  /\ aborted \in [Leases -> BOOLEAN]
  /\ report \in [Leases -> Reports]
  /\ created \in [Leases -> BOOLEAN]
  /\ upload \in [Leases -> {"none", "sent", "taken", "refused", "billing_only"}]
  /\ provision \in [Leases -> {"none", "provisioning", "ready", "failed"}]
  /\ LeaseChainTypeOK

\* "The ONLY thing that justifies 'the deployment failed' is the provider
\* actually saying so" (deployManifest.ts): a report that advises closing the
\* lease after the manifest was taken, or that the chain has ended it, is true,
\* and no later event makes it false.
FailureIsVerdict ==
  \A l \in Leases :
    /\ report[l].says = "partial" /\ report[l].step = "poll" =>
         provision[l] = "failed" \/ lease[l] \in Terminal
    /\ report[l].says = "terminal" => lease[l] \in Terminal
=============================================================================
