------------------------------ MODULE StopApp ------------------------------
(***************************************************************************)
(* Tearing a lease down: stopApp (core/src/tools/stopApp.ts), and          *)
(* closeLease (agent-core/src/close-lease.ts), which asks for confirmation *)
(* before it and verifies on the chain after it.                           *)
(*                                                                         *)
(* stopApp reads the lease and dispatches: close-lease for an active one,  *)
(* cancel-lease for a pending one, nothing for one that has ended.  The    *)
(* lease may move between the read and the transaction, so a failure of    *)
(* the transaction is reconciled by one more read.                         *)
(***************************************************************************)
EXTENDS LeaseChain

CONSTANT Stops

VARIABLES
  spc,        \* where a call is
  mode,       \* input: "blocking", "async" (waitForConfirmation: false), "close"
  target,     \* input: its lease
  fired,      \* its signal has fired
  saw,        \* the state its first read showed
  outcome     \* what its caller was told

stopInputs == <<mode, target>>
stopVars == <<spc, stopInputs, fired, saw, outcome>>

Modes == {"blocking", "async", "close"}
StopPcs == {"idle", "confirming", "querying", "sending", "waiting", "requerying",
            "verifying", "ended"}

\* An outcome: its kind, and the state it says the lease has.
Outcome(k, s) == [kind |-> k, state |-> s]
NoOutcome == Outcome("pending", "none")
Outcomes == [kind : {"pending", "declined", "cancelled", "error", "reinvoke", "unverified",
                     "accepted", "confirmed", "already_inactive"},
             state : {"none"} \cup Terminal]

StopInit ==
  /\ spc = [s \in Stops |-> "idle"]
  /\ mode \in [Stops -> Modes]
  /\ target \in [Stops -> Leases]
  /\ fired = [s \in Stops |-> FALSE]
  /\ saw = [s \in Stops |-> "none"]
  /\ outcome = [s \in Stops |-> NoOutcome]

-----------------------------------------------------------------------------

Step(s, from, to) == spc[s] = from /\ spc' = [spc EXCEPT ![s] = to]

StopEnds(s, o) ==
  /\ spc' = [spc EXCEPT ![s] = "ended"]
  /\ outcome' = [outcome EXCEPT ![s] = o]

\* An answer of stopApp: closeLease goes on to verify it.
StopAnswers(s, o) ==
  IF mode[s] = "close"
  THEN /\ spc' = [spc EXCEPT ![s] = "verifying"]
       /\ UNCHANGED outcome
  ELSE StopEnds(s, o)

Start(s) ==
  /\ Step(s, "idle", IF mode[s] = "close" THEN "confirming" ELSE "querying")
  /\ UNCHANGED <<stopInputs, fired, saw, outcome, chainVars>>

\* The signal fires while somebody listens to it.
Fire(s) ==
  /\ ~fired[s]
  /\ spc[s] \in IF mode[s] = "close" THEN {"confirming"} ELSE {"querying", "sending", "waiting"}
  /\ fired' = [fired EXCEPT ![s] = TRUE]
  /\ UNCHANGED <<spc, stopInputs, saw, outcome, chainVars>>

\* onConfirm says no, or loses the race with the signal.
Declined(s) ==
  /\ spc[s] = "confirming"
  /\ StopEnds(s, Outcome(IF fired[s] THEN "cancelled" ELSE "declined", "none"))
  /\ UNCHANGED <<stopInputs, fired, saw, chainVars>>

\* From here on closeLease forwards no signal.
Confirmed(s) ==
  /\ ~fired[s]
  /\ Step(s, "confirming", "querying")
  /\ UNCHANGED <<stopInputs, fired, saw, outcome, chainVars>>

\* The signal fires in the first read or under the transaction, which answers at
\* once; what was submitted stays under way.
StopCancelled(s) ==
  /\ spc[s] \in {"querying", "sending", "waiting"}
  /\ fired[s] /\ mode[s] # "close"
  /\ StopEnds(s, Outcome("cancelled", "none"))
  /\ UNCHANGED <<stopInputs, fired, saw, chainVars>>

\* The first read fails, or shows no lease.
QueryFails(s) ==
  /\ spc[s] = "querying"
  /\ StopEnds(s, Outcome("error", "none"))
  /\ UNCHANGED <<stopInputs, fired, saw, chainVars>>

FoundInactive(s) ==
  /\ spc[s] = "querying"
  /\ \E v \in Seen(target[s]) \cap Terminal : StopAnswers(s, Outcome("already_inactive", v))
  /\ UNCHANGED <<stopInputs, fired, saw, chainVars>>

FoundLive(s) ==
  /\ Step(s, "querying", "sending")
  /\ \E v \in Seen(target[s]) \cap {"pending", "active"} : saw' = [saw EXCEPT ![s] = v]
  /\ UNCHANGED <<stopInputs, fired, outcome, chainVars>>

Subcommand(s) == IF saw[s] = "active" THEN "close-lease" ELSE "cancel-lease"

EndState(s) == IF saw[s] = "active" THEN "closed" ELSE "rejected"

Send(s) ==
  /\ Step(s, "sending", "waiting")
  /\ Submit(s, Subcommand(s), target[s])
  /\ UNCHANGED <<stopInputs, fired, saw, outcome>>

\* SYNC: the node has taken it in.
TxAccepted(s) ==
  /\ spc[s] = "waiting"
  /\ mode[s] = "async"
  /\ StopEnds(s, Outcome("accepted", EndState(s)))
  /\ UNCHANGED <<stopInputs, fired, saw, chainVars>>

\* Mutant: a transaction that was sent is taken for executed.
TxConfirmedUnseen(s) ==
  /\ spc[s] = "waiting"
  /\ mode[s] # "async"
  /\ StopAnswers(s, Outcome("confirmed", EndState(s)))
  /\ UNCHANGED <<stopInputs, fired, saw, chainVars>>

\* Included and executed.
TxConfirmed(s) ==
  /\ spc[s] = "waiting"
  /\ mode[s] # "async"
  /\ receipt[s] = "ok"
  /\ StopAnswers(s, Outcome("confirmed", EndState(s)))
  /\ UNCHANGED <<stopInputs, fired, saw, chainVars>>

\* Not sent, rejected, executed with an error, or not seen included in time: a
\* blocking call reads the lease once more.
TxFails(s) ==
  /\ spc[s] \in {"sending", "waiting"}
  /\ IF mode[s] = "async"
     THEN StopEnds(s, Outcome("error", "none"))
     ELSE /\ spc' = [spc EXCEPT ![s] = "requerying"]
          /\ UNCHANGED outcome
  /\ UNCHANGED <<stopInputs, fired, saw, chainVars>>

\* It has ended after all, by this transaction or by other hands.
Converged(s) ==
  /\ spc[s] = "requerying"
  /\ \E v \in Seen(target[s]) \cap Terminal : StopAnswers(s, Outcome("already_inactive", v))
  /\ UNCHANGED <<stopInputs, fired, saw, chainVars>>

\* A cancel raced the provider's acknowledgement: never escalate to a close,
\* which settles differently; the caller is to call again.
Reinvoke(s) ==
  /\ spc[s] = "requerying"
  /\ saw[s] = "pending"
  /\ "active" \in Seen(target[s])
  /\ StopEnds(s, Outcome("reinvoke", "none"))
  /\ UNCHANGED <<stopInputs, fired, saw, chainVars>>

\* The lease stands as before, or cannot be read: the transaction's error.
NotConverged(s) ==
  /\ spc[s] = "requerying"
  /\ StopEnds(s, Outcome("error", "none"))
  /\ UNCHANGED <<stopInputs, fired, saw, chainVars>>

\* closeLease: the lease is seen to have ended ...
Verified(s) ==
  /\ spc[s] = "verifying"
  /\ \E v \in Seen(target[s]) \cap Terminal : StopEnds(s, Outcome("confirmed", v))
  /\ UNCHANGED <<stopInputs, fired, saw, chainVars>>

\* ... or it is not, or it cannot be read.
Unverified(s) ==
  /\ spc[s] = "verifying"
  /\ StopEnds(s, Outcome("unverified", "none"))
  /\ UNCHANGED <<stopInputs, fired, saw, chainVars>>

StopStep(s) ==
  \/ Declined(s) \/ Confirmed(s) \/ StopCancelled(s)
  \/ QueryFails(s) \/ FoundInactive(s) \/ FoundLive(s)
  \/ Send(s) \/ TxAccepted(s) \/ TxConfirmed(s) \/ TxFails(s)
  \/ Converged(s) \/ Reinvoke(s) \/ NotConverged(s)
  \/ Verified(s) \/ Unverified(s)

-----------------------------------------------------------------------------
(* Properties.                                                             *)

StopTypeOK ==
  /\ spc \in [Stops -> StopPcs]
  /\ mode \in [Stops -> Modes]
  /\ target \in [Stops -> Leases]
  /\ fired \in [Stops -> BOOLEAN]
  /\ saw \in [Stops -> {"none", "pending", "active"}]
  /\ outcome \in [Stops -> Outcomes]

\* confirmed: true, already_inactive, and a verified close are true and stay so:
\* the lease has ended, in the very state that the answer names, whichever of
\* the reads lagged and whoever ended it.  "state changed during teardown (now
\* ACTIVE); re-invoke stopApp to close it": the cancel has not worked and never
\* will, although it may still be under way, so that a caller who calls again
\* does not tear the lease down twice.
StopAnswersTrue ==
  \A s \in Stops :
    /\ outcome[s].kind \in {"confirmed", "already_inactive"} =>
         lease[target[s]] = outcome[s].state
    /\ outcome[s].kind = "reinvoke" => lease[target[s]] \in {"active", "closed"}
=============================================================================
