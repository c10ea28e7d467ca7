---------------------------- MODULE TxExecution ----------------------------
(***************************************************************************)
(* One transaction call of the SDK, cosmosTx (core/src/cosmos.ts) or       *)
(* executeTx (core/src/tools/executeTx.ts), run under withTxExecution      *)
(* (core/src/internals/tx-confirmation.ts): prepare, wait for the signer's *)
(* broadcast lock, then try under withRetry (core/src/retry.ts), while the *)
(* caller may cancel at any moment and be answered at once.  A cancelled   *)
(* operation goes on in the background until it reaches a checkpoint.      *)
(*                                                                         *)
(* The lock is SignerMutex, which ClientManager implements.  The node is   *)
(* external: a transaction may reach it or not, pass its check or not, and *)
(* its answer may be lost.                                                 *)
(***************************************************************************)
EXTENDS Naturals

CONSTANTS Ops,          \* transaction calls
          Signers,      \* sender addresses
          MaxRetries    \* config.retry.maxRetries

ASSUME MaxRetriesAssumption == MaxRetries \in Nat

VARIABLES
  pc,           \* where an operation is
  opts,         \* its options: has it a signal, does it wait for inclusion?
  sender,       \* the address it signs for
  attempt,      \* withRetry's attempt, from 0
  aborted,      \* its signal has fired
  sent,         \* markBroadcast was reached (or acceptance observed)
  hash,         \* acceptance was observed: the local hash is known
  outcome,      \* how the operation itself settled
  result,       \* what its caller was told
  arrived,      \* history: times its transaction reached the node
  accepted,     \* history: the node's CheckTx accepted it
  line, ahead, granted, finished       \* the signers' locks

Lock == INSTANCE SignerMutex WITH Tasks <- Ops, Locks <- Signers

opVars   == <<opts, sender>>
cancelVars == <<aborted, result>>
markVars == <<sent, hash>>
nodeVars == <<arrived, accepted>>
lockVars == <<line, ahead, granted, finished>>
vars == <<pc, opVars, attempt, cancelVars, markVars, outcome, nodeVars, lockVars>>

Pcs == {"idle", "preparing", "queued", "acquiring", "limited", "simulating",
        "signing", "submitting", "polling", "backoff", "ended"}

\* An answer: its kind, what its details say of submission ("sent: false",
\* "sent: true" or nothing), and whether they carry a transaction hash.
Answer(k, claim, h) == [kind |-> k, claim |-> claim, hash |-> h]
Pending == Answer("pending", "none", FALSE)
Answers == [kind : {"pending", "ok", "failed", "cancelled"},
            claim : {"unsent", "sent", "none"}, hash : BOOLEAN]

\* cancelledTxError: what is known at the moment of cancellation.
Cancelled(o) ==
  Answer("cancelled", IF sent[o] THEN "sent" ELSE "unsent", hash[o])

Init ==
  /\ pc = [o \in Ops |-> "idle"]
  /\ opts = [o \in Ops |-> [signal |-> FALSE, wait |-> FALSE]]
  /\ sender \in [Ops -> Signers]
  /\ attempt = [o \in Ops |-> 0]
  /\ aborted = [o \in Ops |-> FALSE]
  /\ sent = [o \in Ops |-> FALSE]
  /\ hash = [o \in Ops |-> FALSE]
  /\ outcome = [o \in Ops |-> Pending]
  /\ result = [o \in Ops |-> Pending]
  /\ arrived = [o \in Ops |-> 0]
  /\ accepted = [o \in Ops |-> FALSE]
  /\ Lock!Init

-----------------------------------------------------------------------------
(* Calling, cancelling and being answered.                                 *)

\* withTxExecution: a call whose signal has fired already is refused before
\* anything runs.
Call(o, signal, wait) ==
  /\ pc[o] = "idle"
  /\ opts' = [opts EXCEPT ![o] = [signal |-> signal, wait |-> wait]]
  /\ \/ /\ pc' = [pc EXCEPT ![o] = "preparing"]
        /\ UNCHANGED <<cancelVars, outcome>>
     \/ /\ signal
        /\ pc' = [pc EXCEPT ![o] = "ended"]
        /\ aborted' = [aborted EXCEPT ![o] = TRUE]
        /\ outcome' = [outcome EXCEPT ![o] = Cancelled(o)]
        /\ result' = [result EXCEPT ![o] = Cancelled(o)]
  /\ UNCHANGED <<sender, attempt, markVars, nodeVars, lockVars>>

\* onAbort: the signal fires, from the caller or from the deadline, and the
\* caller is answered unless the operation settled first.
Abort(o) ==
  /\ pc[o] # "idle"
  /\ opts[o].signal
  /\ ~aborted[o]
  /\ aborted' = [aborted EXCEPT ![o] = TRUE]
  /\ result' = [result EXCEPT ![o] = IF @ = Pending THEN Cancelled(o) ELSE @]
  /\ UNCHANGED <<pc, opVars, attempt, markVars, outcome, nodeVars, lockVars>>

\* Mutant: the operation's own settlement overrides a cancellation.
DeliverLate(o) ==
  /\ outcome[o] # Pending
  /\ result[o] # outcome[o]
  /\ result' = [result EXCEPT ![o] = outcome[o]]
  /\ UNCHANGED <<pc, opVars, attempt, aborted, markVars, outcome, nodeVars, lockVars>>

\* The operation's promise settles its caller's, unless that was cancelled.
Deliver(o) ==
  /\ outcome[o] # Pending
  /\ result[o] = Pending
  /\ result' = [result EXCEPT ![o] = outcome[o]]
  /\ UNCHANGED <<pc, opVars, attempt, aborted, markVars, outcome, nodeVars, lockVars>>

\* Mutant: the lock follows the caller's promise, not the operation's.
ReleaseAnswered(o) ==
  /\ result[o] # Pending
  /\ Lock!Release(o, sender[o])
  /\ UNCHANGED <<pc, opVars, attempt, cancelVars, markVars, outcome, nodeVars>>

\* The body under the lock has settled, either way: the next in line may run.
ReleaseLock(o) ==
  /\ outcome[o] # Pending
  /\ Lock!Release(o, sender[o])
  /\ UNCHANGED <<pc, opVars, attempt, cancelVars, markVars, outcome, nodeVars>>

-----------------------------------------------------------------------------
(* Running.  A step that resumes from an await checkpoints first: it goes  *)
(* on only while the signal has not fired.                                 *)

Goto(o, from, to) == pc[o] = from /\ pc' = [pc EXCEPT ![o] = to]

Step(o, from, to) ==
  /\ Goto(o, from, to)
  /\ ~aborted[o]
  /\ UNCHANGED <<opVars, attempt, cancelVars, markVars, outcome, nodeVars, lockVars>>

\* The operation settles.
End(o, answer) ==
  /\ pc' = [pc EXCEPT ![o] = "ended"]
  /\ outcome' = [outcome EXCEPT ![o] = answer]
  /\ UNCHANGED <<opVars, attempt, cancelVars, lockVars>>

Failed == Answer("failed", "none", FALSE)

\* A checkpoint, or an abortable wait, that finds the signal fired.
Checkpointed(o) ==
  /\ pc[o] \in {"preparing", "acquiring", "limited", "simulating", "backoff"}
  /\ aborted[o]
  /\ End(o, Cancelled(o))
  /\ UNCHANGED <<markVars, nodeVars>>

\* The build context, the wallet's address, or the manager refuses.
PrepareFails(o) ==
  pc[o] = "preparing" /\ End(o, Failed) /\ UNCHANGED <<markVars, nodeVars>>

\* Prepared: ask for the sender's lock.
Prepared(o) ==
  /\ ~aborted[o]
  /\ Goto(o, "preparing", "queued")
  /\ Lock!Request(o, sender[o])
  /\ UNCHANGED <<opVars, attempt, cancelVars, markVars, outcome, nodeVars>>

\* Mutant: a cancelled operation leaves its turn untaken.
RunUnlessAborted(o) ==
  /\ pc[o] = "queued"
  /\ ~aborted[o]
  /\ Lock!Grant(o, sender[o])
  /\ pc' = [pc EXCEPT ![o] = "acquiring"]
  /\ UNCHANGED <<opVars, attempt, cancelVars, markVars, outcome, nodeVars>>

\* The lock is ours; a cancelled operation gives it up without doing anything.
RunBody(o) ==
  /\ pc[o] = "queued"
  /\ Lock!Grant(o, sender[o])
  /\ \/ ~aborted[o] /\ pc' = [pc EXCEPT ![o] = "acquiring"] /\ UNCHANGED outcome
     \/ /\ aborted[o]
        /\ pc' = [pc EXCEPT ![o] = "ended"]
        /\ outcome' = [outcome EXCEPT ![o] = Cancelled(o)]
  /\ UNCHANGED <<opVars, attempt, cancelVars, markVars, nodeVars>>

\* getBroadcastClient has its own connection retries: here it works or fails.
ClientReady(o) == Step(o, "acquiring", "limited")
ClientFails(o) ==
  pc[o] = "acquiring" /\ End(o, Failed) /\ UNCHANGED <<markVars, nodeVars>>

RateLimited(o) == Step(o, "limited", "simulating")

\* Mutants: no checkpoint after the simulation; the hash of the signed bytes
\* recorded before the node has seen them.
MarkUnchecked(o) ==
  /\ Goto(o, "simulating", "signing")
  /\ sent' = [sent EXCEPT ![o] = TRUE]
  /\ UNCHANGED <<opVars, attempt, cancelVars, hash, outcome, nodeVars, lockVars>>
MarkWithHash(o) ==
  /\ ~aborted[o]
  /\ Goto(o, "simulating", "signing")
  /\ sent' = [sent EXCEPT ![o] = TRUE]
  /\ hash' = [hash EXCEPT ![o] = TRUE]
  /\ UNCHANGED <<opVars, attempt, cancelVars, outcome, nodeVars, lockVars>>

\* markBroadcast: the last checkpoint, after the fee was simulated.
MarkBroadcast(o) ==
  /\ ~aborted[o]
  /\ Goto(o, "simulating", "signing")
  /\ sent' = [sent EXCEPT ![o] = TRUE]
  /\ UNCHANGED <<opVars, attempt, cancelVars, hash, outcome, nodeVars, lockVars>>

\* An attempt fails before anything left: simulating, or signing.  Only an SDK
\* error classified as transient is retried, unless the caller cancelled.
AttemptFails(o) ==
  /\ pc[o] \in {"limited", "simulating", "signing"}
  /\ End(o, IF aborted[o] THEN Cancelled(o) ELSE Failed)
  /\ UNCHANGED <<markVars, nodeVars>>

AttemptRetried(o) ==
  /\ pc[o] \in {"simulating", "signing"}
  /\ ~aborted[o]
  /\ attempt[o] < MaxRetries
  /\ pc' = [pc EXCEPT ![o] = "backoff"]
  /\ attempt' = [attempt EXCEPT ![o] = @ + 1]
  /\ UNCHANGED <<opVars, cancelVars, markVars, outcome, nodeVars, lockVars>>

BackedOff(o) == Step(o, "backoff", "limited")

\* CosmJS signed and sends: the bytes reach the node, which checks them, or
\* never get there.  No checkpoint can stop them any more.
Send(o) ==
  /\ Goto(o, "signing", "submitting")
  /\ \/ UNCHANGED nodeVars
     \/ /\ arrived' = [arrived EXCEPT ![o] = @ + 1]
        /\ accepted' \in {accepted, [accepted EXCEPT ![o] = TRUE]}
  /\ UNCHANGED <<opVars, attempt, cancelVars, markVars, outcome, lockVars>>

\* The node's CheckTx accepted and its answer came back.  A blocking call with
\* a signal records the hash, unless its caller was answered already, and
\* polls for inclusion; a SYNC call is done.
AcceptanceSeen(o) ==
  /\ pc[o] = "submitting"
  /\ accepted[o]
  /\ IF opts[o].wait
     THEN /\ pc' = [pc EXCEPT ![o] = "polling"]
          /\ IF opts[o].signal /\ result[o] = Pending
             THEN sent' = [sent EXCEPT ![o] = TRUE] /\ hash' = [hash EXCEPT ![o] = TRUE]
             ELSE UNCHANGED markVars
          /\ UNCHANGED <<opVars, attempt, cancelVars, outcome, lockVars>>
     ELSE End(o, Answer("ok", "none", TRUE)) /\ UNCHANGED markVars
  /\ UNCHANGED nodeVars

\* Mutant: an answer that got lost counts as a transient failure.
SubmissionRetried(o) ==
  /\ pc[o] = "submitting"
  /\ ~aborted[o]
  /\ attempt[o] < MaxRetries
  /\ pc' = [pc EXCEPT ![o] = "backoff"]
  /\ attempt' = [attempt EXCEPT ![o] = @ + 1]
  /\ UNCHANGED <<opVars, cancelVars, markVars, outcome, nodeVars, lockVars>>

\* Rejected by CheckTx, never arrived, or the answer was lost: a raw error,
\* TX_FAILED, which nothing retries and which says nothing of submission.
SubmissionFails(o) ==
  /\ pc[o] = "submitting"
  /\ End(o, IF aborted[o] THEN Cancelled(o) ELSE Failed)
  /\ UNCHANGED <<markVars, nodeVars>>

\* Included, successfully or not, or unknown: a mismatched hash or no
\* inclusion within broadcastTimeoutMs fails with sent: true and the hash.
Included(o) ==
  pc[o] = "polling" /\ End(o, Answer("ok", "none", TRUE)) /\ UNCHANGED <<markVars, nodeVars>>
PollingFails(o) ==
  /\ pc[o] = "polling"
  /\ End(o, IF aborted[o] THEN Cancelled(o) ELSE Answer("failed", "sent", TRUE))
  /\ UNCHANGED <<markVars, nodeVars>>

-----------------------------------------------------------------------------

Advance(o) ==
  \/ Deliver(o) \/ ReleaseLock(o)
  \/ Checkpointed(o) \/ PrepareFails(o) \/ Prepared(o) \/ RunBody(o)
  \/ ClientReady(o) \/ ClientFails(o) \/ RateLimited(o) \/ MarkBroadcast(o)
  \/ AttemptFails(o) \/ AttemptRetried(o) \/ BackedOff(o) \/ Send(o)
  \/ AcceptanceSeen(o) \/ SubmissionFails(o) \/ Included(o) \/ PollingFails(o)

Next == \E o \in Ops :
  \/ \E signal, wait \in BOOLEAN : Call(o, signal, wait)
  \/ Abort(o)
  \/ Advance(o)

Spec == Init /\ [][Next]_vars

\* Every await under the lock ends: connection and retry ladders are bounded,
\* the rate limiter refills, and CosmJS polls under broadcastTimeoutMs.  Nobody
\* is obliged to call or to cancel.
FairSpec == Spec /\ \A o \in Ops : WF_vars(Advance(o))

-----------------------------------------------------------------------------
(* Properties.                                                             *)

TypeOK ==
  /\ pc \in [Ops -> Pcs]
  /\ opts \in [Ops -> [signal : BOOLEAN, wait : BOOLEAN]]
  /\ sender \in [Ops -> Signers]
  /\ attempt \in [Ops -> 0..MaxRetries]
  /\ aborted \in [Ops -> BOOLEAN]
  /\ sent \in [Ops -> BOOLEAN]
  /\ hash \in [Ops -> BOOLEAN]
  /\ outcome \in [Ops -> Answers]
  /\ result \in [Ops -> Answers]
  /\ arrived \in [Ops -> Nat]
  /\ accepted \in [Ops -> BOOLEAN]
  /\ line \in [Signers -> SUBSET Ops]
  /\ ahead \in [Ops -> SUBSET Ops]
  /\ granted \subseteq Ops
  /\ finished \subseteq Ops

\* "sent === false => safe to retry" (tx-confirmation.ts): a caller told that
\* nothing was sent is told the truth, now and for as long as the operation
\* goes on in the background.
UnsentNeverArrives ==
  \A o \in Ops : result[o].claim = "unsent" => arrived[o] = 0

\* withRetry never sends twice: one call, one transaction at most, although
\* answers get lost and attempts are retried.
AtMostOneArrival == \A o \in Ops : arrived[o] <= 1

\* A hash in an answer, also in a cancellation's or a failure's, is that of a
\* transaction the node accepted.
HashIsAccepted == \A o \in Ops : result[o].hash => accepted[o]

\* What an answer says of the submission is true, and stays true while the
\* operation goes on in the background.
SubmissionTrue == UnsentNeverArrives /\ HashIsAccepted

\* "reject promptly on cancellation": a caller whose signal fired has its
\* answer, however deep the operation is in a wait.
PromptCancellation == \A o \in Ops : aborted[o] => result[o] # Pending

\* The lock covers sign, submit and poll, also of an operation whose caller
\* has gone: two transactions of one sender are never under way together.
UnderWay(o) == pc[o] \in {"signing", "submitting", "polling"}
OneUnderWay ==
  \A o, p \in Ops : o # p /\ UnderWay(o) /\ UnderWay(p) => sender[o] # sender[p]

\* An answer, once given, stands: neither a late inclusion nor a late failure
\* of the background operation replaces a cancellation.
AnswersStand ==
  [][\A o \in Ops : result[o] # Pending => result'[o] = result[o]]_vars

\* To its caller a call is TxOutcome: one answer, true when it is given and ever
\* after, no submission once it said "unsent", and one arrival of a transaction
\* that was committed before, whatever was retried and whoever still waits.
Fate(o) == IF accepted[o] THEN "accepted"
           ELSE IF arrived[o] > 0 THEN "refused"
           ELSE IF sent[o] THEN "committed" ELSE "unsent"
Contract == INSTANCE TxOutcome
              WITH Calls <- Ops, fate <- [o \in Ops |-> Fate(o)], told <- result
ImplementsTxOutcome == Contract!Spec

\* Every call is answered, and gives the lock up: a cancelled or failed one
\* never wedges its sender's queue.
CallsEnd ==
  \A o \in Ops : pc[o] # "idle" ~> result[o] # Pending /\ o \notin granted /\ pc[o] = "ended"
=============================================================================
