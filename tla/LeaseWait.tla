----------------------------- MODULE LeaseWait -----------------------------
(***************************************************************************)
(* Waiting until a lease is ready or has failed:                           *)
(*   waitForLeaseStatus (fred/src/tools/waitForLeaseStatus.ts), over the   *)
(*     provider's /events WebSocket, or by polling its /status; and        *)
(*   pollLeaseReadiness (fred/src/readiness/poll-lease-readiness.ts), the  *)
(*     poll under deployManifest, restoreApp and the maintenance calls.    *)
(*                                                                         *)
(* The provider is external.  Its /status document changes, and a change   *)
(* may be published as a frame to the open socket; a frame says what the   *)
(* provision status became and nothing of the chain's state.  A read is    *)
(* served at some moment between its request and its answer, so an answer  *)
(* may be older than a frame that overtook it.                             *)
(***************************************************************************)
EXTENDS Naturals, Sequences

CONSTANTS MaxChanges,        \* bound: changes of the provider's document
          Attempts,          \* WS_MAX_RECONNECT_ATTEMPTS
          MaxFailures        \* maxConsecutiveFailures

ASSUME BoundsAssumption ==
  MaxChanges \in Nat /\ Attempts \in Nat \ {0} /\ MaxFailures \in Nat

VARIABLES
  kind,       \* input: "events" or "polling" (waitForLeaseStatus), "readiness"
  pc,         \* where the wait is
  attempt,    \* connections made
  open,       \* the socket has opened
  candidates, \* candidateSeq
  pending,    \* pendingCandidate: the version its frame announced, or 0
  reads,      \* the reads of /status under way
  misses,     \* consecutiveFailures
  late,       \* the deadline has passed
  aborted,    \* the caller's signal has fired
  outcome,    \* what the wait's caller was told
  log,        \* the provider: its /status documents, the last one current
  frames,     \* the provider: frames on their way, by the version they announce
  heard,      \* history: the newest candidate frame received
  learnt      \* history: the newest document taken into account

socketVars == <<open, candidates, pending, frames>>
signalVars == <<late, aborted>>
vars == <<kind, pc, attempt, socketVars, reads, misses, signalVars, outcome, log, heard, learnt>>

Kinds == {"events", "polling", "readiness"}
Pcs == {"wsTop", "wsMint", "streaming", "wsDelay", "pollTop", "checking", "pollMint",
        "polling", "pollSleep", "ended"}

\* A document by what the classifiers make of it: PENDING or ACTIVE and in
\* progress; retained, absent or unrecognized (never success, never failure);
\* ACTIVE and ready, ACTIVE and failed; a lease that has ended; a chain state
\* that no classifier knows.
Docs == {"progress", "unclear", "ready", "failed", "gone", "unexpected"}

\* PROVISION_IN_PROGRESS: a frame that cannot settle the wait.
Settles(doc) == doc # "progress"

\* classifyTerminal, and the switch of pollLeaseReadiness.
Verdict(k, doc) == CASE doc = "ready" -> "success"
                     [] doc \in {"failed", "gone"} -> "failure"
                     [] doc = "unexpected" /\ k = "readiness" -> "failure"
                     [] OTHER -> "pending"
VerdictOn(ver) == Verdict(kind, log[ver])

\* A read: its phase, the version it was served, the candidateSeq it captured,
\* and the candidate it is to confirm.
Slots == {"snapshot", "confirm", "poll"}
NoRead == [at |-> "none", ver |-> 0, seq |-> 0, of |-> 0]
Asked(seq, of) == [at |-> "asked", ver |-> 0, seq |-> seq, of |-> of]

\* An outcome: its kind, and the version it rests on.
Outcome(k, ver) == [kind |-> k, ver |-> ver]
NoOutcome == Outcome("none", 0)
OutcomeKinds == {"none", "success", "failure", "chain", "timeout", "unreachable",
                 "aborted", "error"}

Init ==
  /\ kind \in Kinds
  /\ pc = IF kind = "events" THEN "wsTop" ELSE "pollTop"
  /\ attempt = 0
  /\ open = FALSE /\ candidates = 0 /\ pending = 0 /\ frames = <<>>
  /\ reads = [r \in Slots |-> NoRead]
  /\ misses = 0
  /\ late = FALSE /\ aborted = FALSE
  /\ outcome = NoOutcome
  /\ \E d \in Docs : log = <<d>>
  /\ heard = 0 /\ learnt = 0

-----------------------------------------------------------------------------
(* Ends.                                                                   *)

unmoved == <<kind, signalVars, log>>

\* The socket and the reads under way are nobody's any more.
HangUp ==
  /\ reads' = [r \in Slots |-> NoRead]
  /\ open' = FALSE /\ candidates' = 0 /\ pending' = 0 /\ frames' = <<>>

\* The promise settles.
Ends(o) ==
  /\ pc' = "ended"
  /\ outcome' = o
  /\ HangUp

EndsWith(k) ==
  /\ Ends(Outcome(k, 0))
  /\ UNCHANGED <<attempt, misses, heard, learnt, unmoved>>

\* The WebSocket is given up: an abort and the deadline are surfaced, anything
\* else falls back to polling.
GiveUp ==
  IF aborted THEN Ends(Outcome("aborted", 0))
  ELSE IF late THEN Ends(Outcome("timeout", 0))
  ELSE pc' = "pollTop" /\ HangUp /\ UNCHANGED outcome

-----------------------------------------------------------------------------
(* waitViaWs and runWsConnection.                                          *)

\* Another connection, if attempts and time are left.
WsTop ==
  /\ pc = "wsTop"
  /\ IF ~aborted /\ ~late /\ attempt < Attempts
     THEN pc' = "wsMint" /\ UNCHANGED <<reads, socketVars, outcome>>
     ELSE GiveUp
  /\ UNCHANGED <<attempt, misses, heard, learnt, unmoved>>

\* No token, or a permanent close code.
WsFails ==
  /\ pc \in {"wsMint", "streaming"}
  /\ GiveUp
  /\ UNCHANGED <<attempt, misses, heard, learnt, unmoved>>

Connect ==
  /\ pc = "wsMint"
  /\ IF aborted THEN Ends(Outcome("aborted", 0)) /\ UNCHANGED attempt
     ELSE /\ pc' = "streaming"
          /\ attempt' = attempt + 1
          /\ UNCHANGED <<reads, socketVars, outcome>>
  /\ UNCHANGED <<misses, heard, learnt, unmoved>>

\* The socket closes, errs, or is silent for too long.
Dropped ==
  /\ pc = "streaming"
  /\ pc' = IF attempt < Attempts /\ ~late THEN "wsDelay" ELSE "wsTop"
  /\ HangUp
  /\ UNCHANGED <<attempt, misses, outcome, heard, learnt, unmoved>>

\* Mutant: the timer bounds the handshake, and silence bounds the stream.
HandshakeDeadline == pc = "streaming" /\ late /\ ~open /\ EndsWith("timeout")

\* The connection's own deadline timer.
ConnDeadline == pc = "streaming" /\ late /\ EndsWith("timeout")

WsDelayEnds ==
  /\ pc = "wsDelay"
  /\ pc' = "wsTop"
  /\ UNCHANGED <<attempt, reads, misses, socketVars, outcome, heard, learnt, unmoved>>

\* consider: a document settles the wait, or is progress.
Consider(ver, rest) ==
  /\ learnt' = ver
  /\ IF VerdictOn(ver) # "pending"
     THEN Ends(Outcome(VerdictOn(ver), ver))
     ELSE rest /\ UNCHANGED <<pc, outcome>>

\* The snapshot is read as soon as the socket opens.
Opened ==
  /\ pc = "streaming"
  /\ ~open
  /\ open' = TRUE
  /\ reads' = [reads EXCEPT !["snapshot"] = Asked(candidates, 0)]
  /\ UNCHANGED <<pc, attempt, misses, candidates, pending, frames, outcome, heard, learnt, unmoved>>

\* Mutant: a candidate does not supersede the snapshot.
SnapshotReturnsLate ==
  /\ reads["snapshot"].at = "served"
  /\ Consider(reads["snapshot"].ver,
              reads' = [reads EXCEPT !["snapshot"] = NoRead] /\ UNCHANGED socketVars)
  /\ UNCHANGED <<attempt, misses, heard, unmoved>>

\* A snapshot that a candidate frame has overtaken is dropped.
SnapshotReturns ==
  /\ reads["snapshot"].at = "served"
  /\ IF reads["snapshot"].seq = candidates
     THEN Consider(reads["snapshot"].ver,
                   reads' = [reads EXCEPT !["snapshot"] = NoRead] /\ UNCHANGED socketVars)
     ELSE /\ reads' = [reads EXCEPT !["snapshot"] = NoRead]
          /\ UNCHANGED <<pc, socketVars, outcome, learnt>>
  /\ UNCHANGED <<attempt, misses, heard, unmoved>>

SnapshotFails ==
  /\ reads["snapshot"].at # "none"
  /\ reads' = [reads EXCEPT !["snapshot"] = NoRead]
  /\ UNCHANGED <<pc, attempt, misses, socketVars, outcome, heard, learnt, unmoved>>

\* A frame in progress is only reported; any other asks for a confirming read,
\* one at a time, of which the newest candidate is the next.
FrameArrives ==
  /\ open
  /\ frames # <<>>
  /\ frames' = Tail(frames)
  /\ LET v == Head(frames) IN
       IF ~Settles(log[v]) THEN UNCHANGED <<reads, candidates, pending, heard>>
       ELSE /\ heard' = v
            /\ candidates' = candidates + 1
            /\ IF reads["confirm"].at = "none"
               THEN /\ reads' = [reads EXCEPT !["confirm"] = Asked(candidates + 1, v)]
                    /\ UNCHANGED pending
               ELSE pending' = v /\ UNCHANGED reads
  /\ UNCHANGED <<pc, attempt, misses, open, outcome, learnt, unmoved>>

\* The confirming loop goes on with the candidate that came meanwhile, if any.
NextCandidate ==
  /\ reads' = [reads EXCEPT !["confirm"] =
                 IF pending = 0 THEN NoRead ELSE Asked(candidates, pending)]
  /\ pending' = 0
  /\ UNCHANGED <<open, candidates, frames>>

Superseded == reads["confirm"].seq # candidates

ConfirmReturns ==
  /\ reads["confirm"].at = "served"
  /\ IF Superseded THEN NextCandidate /\ UNCHANGED <<pc, outcome, learnt>>
                   ELSE Consider(reads["confirm"].ver, NextCandidate)
  /\ UNCHANGED <<attempt, misses, heard, unmoved>>

\* Only a frame that says failed may stand for the read.
ConfirmFails ==
  /\ reads["confirm"].at # "none"
  /\ IF ~Superseded /\ log[reads["confirm"].of] = "failed"
     THEN Consider(reads["confirm"].of, NextCandidate)
     ELSE NextCandidate /\ UNCHANGED <<pc, outcome, learnt>>
  /\ UNCHANGED <<attempt, misses, heard, unmoved>>

-----------------------------------------------------------------------------
(* waitViaPoll and pollLeaseReadiness.                                     *)

PollGo(from, to) ==
  /\ pc = from
  /\ pc' = to
  /\ UNCHANGED <<attempt, reads, misses, socketVars, outcome, heard, learnt, unmoved>>

\* The top of the loop: waitViaPoll looks at the signal first, the other at the
\* deadline; both look at the signal again after each await before the read.
PollAborted ==
  /\ aborted
  /\ \/ pc = "pollTop" /\ (kind = "readiness" => ~late)
     \/ pc \in {"checking", "pollMint"} /\ kind = "readiness"
  /\ EndsWith("aborted")

PollTimedOut ==
  /\ pc = "pollTop"
  /\ late /\ (kind # "readiness" => ~aborted)
  /\ EndsWith("timeout")

PollBegins ==
  /\ ~late /\ ~aborted
  /\ PollGo("pollTop", IF kind = "readiness" THEN "checking" ELSE "pollMint")

\* checkChainState, where there is one: the lease has ended, or it throws.
ChainEnded == pc = "checking" /\ log[Len(log)] = "gone" /\ EndsWith("chain")
ChainFails == pc = "checking" /\ EndsWith("error")
Checked == ~aborted /\ PollGo("checking", "pollMint")

\* No token: the abort's reason if it has fired.
MintFails ==
  /\ pc = "pollMint"
  /\ EndsWith(IF kind # "readiness" /\ aborted THEN "aborted" ELSE "error")

AskStatus ==
  /\ pc = "pollMint"
  /\ kind = "readiness" => ~aborted
  /\ pc' = "polling"
  /\ reads' = [reads EXCEPT !["poll"] = Asked(0, 0)]
  /\ UNCHANGED <<attempt, misses, socketVars, outcome, heard, learnt, unmoved>>

\* After an answer that settles nothing: waitViaPoll looks at the deadline once
\* more.
Sleep ==
  IF late /\ kind # "readiness" THEN Ends(Outcome("timeout", 0))
  ELSE /\ pc' = "pollSleep"
       /\ reads' = [reads EXCEPT !["poll"] = NoRead]
       /\ UNCHANGED <<socketVars, outcome>>

\* A document resets the failures, and is a verdict or not.
StatusReturns ==
  /\ reads["poll"].at = "served"
  /\ LET ver == reads["poll"].ver IN
       /\ learnt' = ver
       /\ IF VerdictOn(ver) # "pending" THEN Ends(Outcome(VerdictOn(ver), ver))
                                           ELSE Sleep
  /\ misses' = 0
  /\ UNCHANGED <<attempt, heard, unmoved>>

\* A transient failure is tolerated up to the budget; the abort comes first.
StatusFails ==
  /\ reads["poll"].at # "none"
  /\ ~aborted /\ misses < MaxFailures
  /\ misses' = misses + 1
  /\ Sleep
  /\ UNCHANGED <<attempt, heard, learnt, unmoved>>

StatusLost ==
  /\ reads["poll"].at # "none"
  /\ IF aborted THEN EndsWith("aborted")
     ELSE \/ misses = MaxFailures
             /\ EndsWith(IF kind = "readiness" THEN "unreachable" ELSE "error")
          \/ EndsWith("error")          \* a failure that is not transient

SleepEnds == PollGo("pollSleep", "pollTop")

-----------------------------------------------------------------------------
(* The provider, the clock and the caller.                                 *)

\* Something changes; an ended lease stays ended.  A frame is published to an
\* open socket, or not.
Change ==
  /\ Len(log) <= MaxChanges
  /\ log[Len(log)] # "gone"
  /\ \E d \in Docs \ {log[Len(log)]} : log' = Append(log, d)
  /\ \/ open /\ frames' = Append(frames, Len(log) + 1)
     \/ UNCHANGED frames
  /\ UNCHANGED <<kind, pc, attempt, open, candidates, pending, reads, misses, signalVars,
                 outcome, heard, learnt>>

Served(rd) == [at |-> "served", ver |-> Len(log), seq |-> rd.seq, of |-> rd.of]

Serve(r) ==
  /\ reads[r].at = "asked"
  /\ reads' = [reads EXCEPT ![r] = Served(reads[r])]
  /\ UNCHANGED <<pc, attempt, misses, socketVars, outcome, heard, learnt, unmoved>>

Deadline ==
  /\ pc # "ended"
  /\ ~late
  /\ late' = TRUE
  /\ UNCHANGED <<kind, pc, attempt, socketVars, reads, misses, aborted, outcome, log, heard, learnt>>

\* A stream and a sleep end with the signal; the rest looks at it later.
Abort ==
  /\ pc # "ended"
  /\ ~aborted
  /\ aborted' = TRUE
  /\ IF pc \in {"streaming", "wsDelay", "pollSleep"} THEN Ends(Outcome("aborted", 0))
     ELSE UNCHANGED <<pc, outcome, reads, socketVars>>
  /\ UNCHANGED <<kind, attempt, misses, late, log, heard, learnt>>

Ws == WsTop \/ WsFails \/ Connect \/ Dropped \/ ConnDeadline \/ WsDelayEnds
      \/ Opened \/ FrameArrives
WsReads == SnapshotReturns \/ SnapshotFails \/ ConfirmReturns \/ ConfirmFails
PollRead == StatusReturns \/ StatusFails \/ StatusLost
Poll == PollAborted \/ PollTimedOut \/ PollBegins \/ ChainEnded \/ ChainFails \/ Checked
        \/ MintFails \/ AskStatus \/ SleepEnds

Next == Ws \/ WsReads \/ PollRead \/ Poll \/ Change \/ Deadline \/ Abort
        \/ \E r \in Slots : Serve(r)

\* The deadline passes, a timer fires, a token is minted or not, and a read is
\* answered or times out (DEFAULT_FETCH_TIMEOUT_MS).  Nothing is owed by the
\* socket: it may never open, never close, and deliver frames without end.
Fairness ==
  /\ WF_vars(Deadline)
  /\ WF_vars(WsTop) /\ WF_vars(Connect) /\ WF_vars(WsDelayEnds) /\ WF_vars(ConnDeadline)
  /\ WF_vars(Poll) /\ WF_vars(PollRead)

Spec == Init /\ [][Next]_vars /\ Fairness

-----------------------------------------------------------------------------
(* Properties.                                                             *)

Versions == 0..(MaxChanges + 1)

\* Every variable has its type, and what a read, a frame or a candidate refers to
\* is a document of the provider.
TypeOK ==
  /\ kind \in Kinds
  /\ pc \in Pcs
  /\ attempt \in 0..Attempts
  /\ open \in BOOLEAN /\ candidates \in Nat /\ pending \in Versions
  /\ frames \in Seq(Nat) /\ \A i \in 1..Len(frames) : frames[i] \in 1..Len(log)
  /\ reads \in [Slots -> [at : {"none", "asked", "served"}, ver : Versions,
                          seq : Nat, of : Versions]]
  /\ misses \in 0..MaxFailures
  /\ late \in BOOLEAN /\ aborted \in BOOLEAN
  /\ outcome \in [kind : OutcomeKinds, ver : Versions]
  /\ log \in Seq(Docs) /\ Len(log) \in 1..(MaxChanges + 1)
  /\ heard \in Versions /\ learnt \in Versions

\* "The transport changes LATENCY, never the VERDICT", "success on stale
\* evidence" (waitForLeaseStatus.ts): a verdict is that of a document the
\* provider authored, no older than any settling frame the wait has received;
\* and a document that was taken into account and is a verdict is what the wait
\* answers, whatever fails later.
VerdictTrue ==
  /\ outcome.kind \in {"success", "failure"} =>
       /\ outcome.ver \in 1..Len(log) /\ outcome.ver >= heard
       /\ outcome.kind = VerdictOn(outcome.ver)
  /\ learnt # 0 /\ VerdictOn(learnt) # "pending" =>
       outcome = Outcome(VerdictOn(learnt), learnt)

\* The wait ends, although the socket may stay open and silent, or keep talking,
\* for ever.
WaitEnds == <>(outcome # NoOutcome)
=============================================================================
