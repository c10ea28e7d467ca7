--------------------------- MODULE LeaseWait_proofs ---------------------------
(***************************************************************************)
(* Proofs about LeaseWait: the types, and VerdictTrue.                     *)
(* The inductive invariant says that a served read which no candidate has  *)
(* superseded is no older than any candidate received (Fresh), that the    *)
(* confirming loop never forgets the newest candidate (Confirming), and    *)
(* that an open wait has taken no verdict into account (Unsettled).        *)
(* A step either hangs up the socket and its reads (HangUpIInv), or leaves *)
(* the outcome alone.                                                      *)
(***************************************************************************)
EXTENDS LeaseWait, SequenceTheorems, TLAPS

\* Reads and frames exist where the wait listens to them.
Idle ==
  /\ pc # "streaming" => /\ reads["snapshot"] = NoRead /\ reads["confirm"] = NoRead
                         /\ ~open /\ candidates = 0 /\ pending = 0 /\ frames = <<>>
  /\ pc # "polling" => reads["poll"] = NoRead
  /\ pc = "wsMint" => attempt < Attempts

Unsettled ==
  /\ heard <= Len(log) /\ learnt <= Len(log)
  /\ pc # "ended" => /\ outcome = NoOutcome
                     /\ learnt = 0 \/ VerdictOn(learnt) = "pending"

Fresh ==
  \A r \in Slots :
    /\ reads[r].seq <= candidates
    /\ reads[r].at = "served" =>
         /\ reads[r].ver \in 1..Len(log)
         /\ r = "poll" \/ reads[r].seq = candidates => reads[r].ver >= heard

Confirming ==
  IF reads["confirm"].at = "none" THEN pending = 0
  ELSE /\ reads["confirm"].of \in 1..Len(log)
       /\ IF Superseded THEN pending = heard /\ pending # 0
                        ELSE pending = 0 /\ reads["confirm"].of = heard

\* TypeOK by parts.
ReadType == [at : {"none", "asked", "served"}, ver : Versions, seq : Nat, of : Versions]

ControlType ==
  /\ kind \in Kinds /\ pc \in Pcs /\ attempt \in 0..Attempts /\ misses \in 0..MaxFailures
  /\ late \in BOOLEAN /\ aborted \in BOOLEAN
  /\ heard \in Versions /\ learnt \in Versions

SocketType ==
  /\ open \in BOOLEAN /\ candidates \in Nat /\ pending \in Versions
  /\ frames \in Seq(Nat) /\ \A i \in 1..Len(frames) : frames[i] \in 1..Len(log)

ReadsType == reads \in [Slots -> ReadType]
LogType == log \in Seq(Docs) /\ Len(log) \in 1..(MaxChanges + 1)
OutcomeType == outcome \in [kind : OutcomeKinds, ver : Versions]

LEMMA Parts ==
  TypeOK <=> ControlType /\ SocketType /\ ReadsType /\ LogType /\ OutcomeType
  BY DEF TypeOK, ControlType, SocketType, ReadsType, ReadType, LogType, OutcomeType

IInv ==
  /\ ControlType /\ SocketType /\ ReadsType /\ LogType /\ OutcomeType
  /\ Idle /\ Unsettled /\ Fresh /\ Confirming /\ VerdictTrue

USE BoundsAssumption DEF Versions

LEMMA Verdicts ==
  ASSUME NEW k, NEW d
  PROVE  Verdict(k, d) \in {"success", "failure", "pending"}
  BY DEF Verdict

LEMMA NoFrames ==
  ASSUME NEW f, f = <<>>, NEW n
  PROVE  f \in Seq(Nat) /\ \A i \in 1..Len(f) : f[i] \in 1..n
<1>1. <<>> \in Seq(Nat) /\ Len(<<>>) = 0
  OBVIOUS
<1>2. 1..0 = {}
  OBVIOUS
<1>3. 1..Len(f) = {}
  BY <1>1, <1>2, Zenon
<1> QED
  BY <1>1, <1>3, Zenon

LEMMA Zero == 0 \in Nat /\ 0 \in Versions
  OBVIOUS

\* After hanging up nothing is read, and no frame comes.
LEMMA HungUp ==
  ASSUME HangUp
  PROVE  /\ SocketType' /\ ReadsType' /\ Fresh' /\ Confirming'
         /\ \A r \in Slots : reads'[r] = NoRead
         /\ ~open' /\ candidates' = 0 /\ pending' = 0 /\ frames' = <<>>
<1> USE DEF HangUp
<1>1. \A r \in Slots : reads'[r] = NoRead
  OBVIOUS
<1>2. NoRead.at = "none" /\ NoRead.seq = 0 /\ NoRead \in ReadType
  BY DEF NoRead, ReadType
<1>3. SocketType'
  <2>1. candidates' \in Nat /\ pending' \in Versions /\ open' \in BOOLEAN
    BY Zero
  <2>2. /\ frames' \in Seq(Nat)
        /\ \A i \in 1..Len(frames') : frames'[i] \in 1..Len(log')
    BY NoFrames, Zenon
  <2> QED
    BY <2>1, <2>2, Zenon DEF SocketType
<1>4. ReadsType'
  BY <1>2 DEF ReadsType
<1>5. Fresh'
  BY <1>1, <1>2 DEF Fresh
<1>6. Confirming'
  BY <1>1, <1>2 DEF Confirming, Slots
<1> QED
  BY <1>1, <1>3, <1>4, <1>5, <1>6

\* Hanging up preserves the invariant, if the outcome is right.
LEMMA HangUpIInv ==
  ASSUME IInv, HangUp, ControlType', OutcomeType', UNCHANGED <<kind, log, heard>>,
         pc' \in {"wsTop", "wsDelay", "pollTop", "pollSleep", "ended"},
         learnt' <= Len(log),
         pc' # "ended" => /\ outcome' = NoOutcome
                          /\ learnt' = 0 \/ Verdict(kind, log[learnt']) = "pending",
         VerdictTrue'
  PROVE  IInv'
<1>1. SocketType' /\ ReadsType' /\ Fresh' /\ Confirming'
  BY HungUp
<1>2. Idle'
  BY HungUp DEF Idle, Slots
<1>3. Unsettled'
  BY DEF IInv, Unsettled, VerdictOn
<1>4. LogType'
  BY DEF IInv, LogType
<1> QED
  BY <1>1, <1>2, <1>3, <1>4 DEF IInv

\* An end without a verdict.
LEMMA PlainEndIInv ==
  ASSUME IInv, pc # "ended", UNCHANGED <<kind, log, heard, attempt>>,
         misses' \in 0..MaxFailures, late' \in BOOLEAN, aborted' \in BOOLEAN,
         \/ learnt' = learnt
         \/ learnt' \in 1..Len(log) /\ VerdictOn(learnt') = "pending",
         NEW k \in OutcomeKinds \ {"success", "failure"}, Ends(Outcome(k, 0))
  PROVE  IInv'
<1>1. ControlType'
  BY DEF IInv, ControlType, LogType, Ends, Pcs
<1>2. OutcomeType'
  BY DEF OutcomeType, Ends, Outcome
<1>3. VerdictTrue'
  BY DEF IInv, Unsettled, VerdictTrue, VerdictOn, Ends, Outcome
<1> QED
  BY <1>1, <1>2, <1>3, HangUpIInv DEF IInv, Unsettled, Ends, ControlType

\* A verdict on a document that is fresh.
LEMMA VerdictIInv ==
  ASSUME IInv, UNCHANGED <<kind, log, heard, attempt, late, aborted>>,
         misses' \in 0..MaxFailures,
         NEW v \in 1..Len(log), v >= heard, VerdictOn(v) # "pending", learnt' = v,
         Ends(Outcome(VerdictOn(v), v))
  PROVE  IInv'
<1>0. v \in Versions
  BY DEF IInv, LogType
<1>1. ControlType'
  BY <1>0 DEF IInv, ControlType, Ends, Pcs
<1>2. OutcomeType'
  BY <1>0, Verdicts DEF OutcomeType, Ends, Outcome, VerdictOn, OutcomeKinds
<1>3. VerdictTrue'
  BY DEF VerdictTrue, VerdictOn, Ends, Outcome
<1> QED
  BY <1>1, <1>2, <1>3, HangUpIInv DEF Ends

\* The wait goes on, and hangs up.
LEMMA BackIInv ==
  ASSUME IInv, pc # "ended", HangUp, UNCHANGED <<kind, log, heard, attempt, late, aborted, outcome>>,
         misses' \in 0..MaxFailures,
         pc' \in {"wsTop", "wsDelay", "pollTop", "pollSleep"},
         \/ learnt' = learnt
         \/ learnt' \in 1..Len(log) /\ VerdictOn(learnt') = "pending"
  PROVE  IInv'
<1>1. ControlType'
  BY DEF IInv, ControlType, Pcs, LogType
<1>2. OutcomeType'
  BY DEF IInv, OutcomeType
<1>3. VerdictTrue'
  BY DEF IInv, Unsettled, VerdictTrue, VerdictOn, NoOutcome, Outcome
<1> QED
  BY <1>1, <1>2, <1>3, HangUpIInv DEF IInv, Unsettled, VerdictOn, ControlType

\* A step that moves on, and touches neither reads nor socket.
LEMMA MoveIInv ==
  ASSUME IInv, pc \notin {"streaming", "polling", "ended"},
         UNCHANGED <<kind, log, heard, learnt, misses, late, aborted, outcome, reads, socketVars>>,
         pc' \in Pcs \ {"polling", "ended"}, attempt' \in 0..Attempts,
         pc' = "wsMint" => attempt' < Attempts
  PROVE  IInv'
<1> USE DEF IInv, socketVars
<1>1. ControlType'
  BY DEF ControlType
<1>2. SocketType' /\ ReadsType' /\ LogType' /\ OutcomeType'
  BY DEF SocketType, ReadsType, LogType, OutcomeType
<1>3. Idle'
  BY DEF Idle
<1>4. Unsettled' /\ VerdictTrue'
  BY DEF Unsettled, VerdictTrue, VerdictOn
<1>5. Fresh' /\ Confirming'
  BY DEF Fresh, Confirming, Superseded
<1> QED
  BY <1>1, <1>2, <1>3, <1>4, <1>5

\* What is known of an open wait.
LEMMA Open ==
  ASSUME IInv
  PROVE  /\ late \in BOOLEAN /\ aborted \in BOOLEAN /\ attempt \in 0..Attempts
         /\ misses \in 0..MaxFailures /\ candidates \in Nat /\ heard \in Versions
         /\ Len(log) \in 1..(MaxChanges + 1)
         /\ \A r \in Slots : reads[r].at # "none" => pc \in {"streaming", "polling"}
         /\ open => pc = "streaming"
  BY DEF IInv, ControlType, SocketType, LogType, Idle, NoRead, Slots

\* Steps of the WebSocket driver that neither read nor hear anything.
LEMMA WsIInv ==
  ASSUME IInv,
         WsTop \/ WsFails \/ Connect \/ Dropped \/ ConnDeadline \/ WsDelayEnds
  PROVE  IInv'
<1> USE Open DEF unmoved, signalVars, Pcs, OutcomeKinds
<1>1. ASSUME pc \in {"wsTop", "wsMint", "streaming"}, GiveUp,
             UNCHANGED <<attempt, misses, heard, learnt, unmoved>>
      PROVE  IInv'
  <2>1. CASE aborted
    BY <1>1, <2>1, PlainEndIInv DEF GiveUp
  <2>2. CASE ~aborted /\ late
    BY <1>1, <2>2, PlainEndIInv DEF GiveUp
  <2>3. CASE ~aborted /\ ~late
    BY <1>1, <2>3, BackIInv DEF GiveUp
  <2> QED
    BY <2>1, <2>2, <2>3
<1>2. CASE WsTop
  <2>1. CASE ~aborted /\ ~late /\ attempt < Attempts
    BY <1>2, <2>1, MoveIInv DEF WsTop
  <2>2. CASE ~(~aborted /\ ~late /\ attempt < Attempts)
    BY <1>1, <1>2, <2>2 DEF WsTop
  <2> QED
    BY <2>1, <2>2
<1>3. CASE WsFails
  BY <1>1, <1>3 DEF WsFails
<1>4. CASE Connect
  <2>1. CASE aborted
    BY <1>4, <2>1, PlainEndIInv DEF Connect
  <2>2. CASE ~aborted
    <3>1. attempt < Attempts
      BY <1>4 DEF Connect, IInv, Idle
    <3> QED
      BY <1>4, <2>2, <3>1, MoveIInv DEF Connect
  <2> QED
    BY <2>1, <2>2
<1>5. CASE Dropped
  BY <1>5, BackIInv DEF Dropped
<1>6. CASE ConnDeadline
  BY <1>6, PlainEndIInv DEF ConnDeadline, EndsWith
<1>7. CASE WsDelayEnds
  BY <1>7, MoveIInv DEF WsDelayEnds
<1> QED
  BY <1>2, <1>3, <1>4, <1>5, <1>6, <1>7

\* A step of an open connection that changes only its reads, its socket and what
\* it has heard and learnt.
LEMMA StreamIInv ==
  ASSUME IInv, pc = "streaming",
         UNCHANGED <<kind, pc, attempt, misses, late, aborted, outcome, log>>,
         heard' \in 0..Len(log),
         \/ learnt' = learnt
         \/ learnt' \in 1..Len(log) /\ VerdictOn(learnt') = "pending",
         reads'["poll"] = reads["poll"],
         SocketType', ReadsType', Fresh', Confirming'
  PROVE  IInv'
<1> USE DEF IInv
<1>1. ControlType' /\ LogType' /\ OutcomeType'
  BY DEF ControlType, LogType, OutcomeType
<1>2. Idle' /\ Unsettled'
  BY DEF Idle, Unsettled, VerdictOn
<1>3. VerdictTrue'
  BY DEF Unsettled, VerdictTrue, VerdictOn, NoOutcome, Outcome
<1> QED
  BY <1>1, <1>2, <1>3

LEMMA ReadRecords ==
  /\ NoRead \in ReadType /\ NoRead.at = "none" /\ NoRead.seq = 0
  /\ \A n \in Nat, v \in Versions :
       /\ Asked(n, v) \in ReadType
       /\ Asked(n, v).at = "asked" /\ Asked(n, v).seq = n /\ Asked(n, v).of = v
  BY DEF NoRead, Asked, ReadType

\* One read is asked or dropped, and the socket is as it was, but for pending.
LEMMA ReadSlot ==
  ASSUME IInv, NEW r \in Slots, NEW rd \in ReadType, reads' = [reads EXCEPT ![r] = rd],
         rd.at # "served", rd.seq <= candidates,
         UNCHANGED <<candidates, frames, log, heard>>, open' \in BOOLEAN, pending' \in Versions
  PROVE  SocketType' /\ ReadsType' /\ Fresh'
<1> USE DEF IInv
<1>1. SocketType'
  BY DEF SocketType
<1>2. ReadsType'
  BY DEF ReadsType
<1>3. Fresh'
  BY DEF Fresh, ReadsType
<1> QED
  BY <1>1, <1>2, <1>3

\* The confirming loop goes on.
LEMMA NextCandidateKept ==
  ASSUME IInv, reads["confirm"].at # "none", NextCandidate, UNCHANGED <<log, heard>>
  PROVE  /\ SocketType' /\ ReadsType' /\ Fresh' /\ Confirming'
         /\ reads'["poll"] = reads["poll"]
<1> DEFINE rd == IF pending = 0 THEN NoRead ELSE Asked(candidates, pending)
<1>1. /\ reads' = [reads EXCEPT !["confirm"] = rd] /\ pending' = 0
      /\ UNCHANGED <<open, candidates, frames>>
  BY DEF NextCandidate
<1>2. candidates \in Nat /\ pending \in Versions /\ "confirm" \in Slots /\ 0 \in Versions
  BY DEF IInv, SocketType, Slots
<1>3. rd \in ReadType /\ rd.at # "served" /\ rd.seq <= candidates
  BY <1>2, ReadRecords
<1>4. /\ rd.at = "none" <=> pending = 0
      /\ pending # 0 => rd.seq = candidates /\ rd.of = pending
  BY <1>2, ReadRecords
<1>5. reads'["confirm"] = rd /\ reads'["poll"] = reads["poll"]
  BY <1>1 DEF IInv, ReadsType, Slots
<1>6. pending # 0 => pending = heard /\ pending \in 1..Len(log)
  BY <1>2 DEF IInv, Confirming, Unsettled, LogType
<1> HIDE DEF rd
<1>7. SocketType' /\ ReadsType' /\ Fresh'
  BY <1>1, <1>2, <1>3, ReadSlot DEF IInv, SocketType
<1>8. Confirming'
  BY <1>1, <1>4, <1>5, <1>6 DEF Confirming, Superseded
<1> QED
  BY <1>5, <1>7, <1>8

\* The snapshot is asked for, or dropped.
LEMMA SnapshotSlot ==
  ASSUME IInv, NEW rd \in ReadType, reads' = [reads EXCEPT !["snapshot"] = rd],
         rd.at # "served", rd.seq <= candidates,
         UNCHANGED <<candidates, pending, frames, log, heard>>, open' \in BOOLEAN
  PROVE  /\ SocketType' /\ ReadsType' /\ Fresh' /\ Confirming'
         /\ reads'["poll"] = reads["poll"]
<1>1. "snapshot" \in Slots /\ pending' \in Versions
  BY DEF Slots, IInv, SocketType
<1>2. SocketType' /\ ReadsType' /\ Fresh'
  BY <1>1, ReadSlot
<1>3. reads'["confirm"] = reads["confirm"] /\ reads'["poll"] = reads["poll"]
  BY DEF IInv, ReadsType, Slots
<1>4. Confirming'
  BY <1>3 DEF IInv, Confirming, Superseded
<1> QED
  BY <1>2, <1>3, <1>4

\* The snapshot and the confirming read.
LEMMA WsReadsIInv ==
  ASSUME IInv, Opened \/ WsReads
  PROVE  IInv'
<1> USE DEF unmoved, signalVars, socketVars
<1>0. /\ misses \in 0..MaxFailures /\ candidates \in Nat /\ heard \in 0..Len(log)
      /\ open \in BOOLEAN
      /\ reads["snapshot"].at # "none" \/ reads["confirm"].at # "none" => pc = "streaming"
      /\ \A r \in Slots : reads[r].at = "served" =>
           /\ reads[r].ver \in 1..Len(log)
           /\ reads[r].seq = candidates => reads[r].ver >= heard
  BY ReadRecords DEF IInv, ControlType, SocketType, Unsettled, Idle, Fresh
<1>1. NoRead \in ReadType /\ NoRead.at # "served" /\ NoRead.seq <= candidates
  BY <1>0, ReadRecords
<1>2. CASE Opened
  <2>1. /\ Asked(candidates, 0) \in ReadType /\ Asked(candidates, 0).at # "served"
        /\ Asked(candidates, 0).seq <= candidates
    BY <1>0, ReadRecords
  <2>2. SocketType' /\ ReadsType' /\ Fresh' /\ Confirming' /\ reads'["poll"] = reads["poll"]
    BY <1>2, <2>1, SnapshotSlot DEF Opened
  <2> QED
    BY <1>0, <1>2, <2>2, StreamIInv DEF Opened
<1>3. ASSUME reads["snapshot"].at # "none", reads' = [reads EXCEPT !["snapshot"] = NoRead],
             UNCHANGED <<pc, socketVars, outcome, attempt, misses, heard, unmoved>>,
             \/ learnt' = learnt
             \/ learnt' \in 1..Len(log) /\ VerdictOn(learnt') = "pending"
      PROVE  IInv'
  <2>1. SocketType' /\ ReadsType' /\ Fresh' /\ Confirming' /\ reads'["poll"] = reads["poll"]
    BY <1>0, <1>1, <1>3, SnapshotSlot
  <2> QED
    BY <1>0, <1>3, <2>1, StreamIInv
<1>4. CASE SnapshotReturns
  <2> DEFINE v == reads["snapshot"].ver
  <2>1. CASE reads["snapshot"].seq # candidates
    BY <1>3, <1>4, <2>1 DEF SnapshotReturns
  <2>2. CASE reads["snapshot"].seq = candidates
    <3>1. v \in 1..Len(log) /\ v >= heard
      BY <1>0, <1>4, <2>2 DEF SnapshotReturns, Slots
    <3>2. CASE VerdictOn(v) # "pending"
      <4>1. Ends(Outcome(VerdictOn(v), v)) /\ learnt' = v
        BY <1>4, <2>2, <3>2 DEF SnapshotReturns, Consider
      <4> QED
        BY <1>0, <1>4, <3>1, <3>2, <4>1, VerdictIInv DEF SnapshotReturns
    <3>3. CASE VerdictOn(v) = "pending"
      BY <1>3, <1>4, <2>2, <3>1, <3>3 DEF SnapshotReturns, Consider
    <3> QED
      BY <3>2, <3>3
  <2> QED
    BY <2>1, <2>2
<1>5. CASE SnapshotFails
  BY <1>3, <1>5 DEF SnapshotFails
<1>6. ASSUME reads["confirm"].at # "none", NextCandidate,
             UNCHANGED <<pc, outcome, attempt, misses, heard, unmoved>>,
             \/ learnt' = learnt
             \/ learnt' \in 1..Len(log) /\ VerdictOn(learnt') = "pending"
      PROVE  IInv'
  <2>1. SocketType' /\ ReadsType' /\ Fresh' /\ Confirming' /\ reads'["poll"] = reads["poll"]
    BY <1>6, NextCandidateKept
  <2> QED
    BY <1>0, <1>6, <2>1, StreamIInv
<1>7. ASSUME reads["confirm"].at # "none", NEW v \in 1..Len(log), v >= heard,
             Consider(v, NextCandidate),
             UNCHANGED <<attempt, misses, heard, unmoved>>
      PROVE  IInv'
  <2>1. CASE VerdictOn(v) # "pending"
    BY <1>0, <1>7, <2>1, VerdictIInv DEF Consider
  <2>2. CASE VerdictOn(v) = "pending"
    BY <1>6, <1>7, <2>2 DEF Consider
  <2> QED
    BY <2>1, <2>2
<1>8. CASE ConfirmReturns
  <2>1. CASE Superseded
    BY <1>6, <1>8, <2>1 DEF ConfirmReturns
  <2>2. CASE ~Superseded
    <3>1. reads["confirm"].ver \in 1..Len(log) /\ reads["confirm"].ver >= heard
      BY <1>0, <1>8, <2>2 DEF ConfirmReturns, Superseded, Slots
    <3> QED
      BY <1>7, <1>8, <2>2, <3>1 DEF ConfirmReturns
  <2> QED
    BY <2>1, <2>2
<1>9. CASE ConfirmFails
  <2>1. CASE ~(~Superseded /\ log[reads["confirm"].of] = "failed")
    BY <1>6, <1>9, <2>1 DEF ConfirmFails
  <2>2. CASE ~Superseded /\ log[reads["confirm"].of] = "failed"
    <3>1. reads["confirm"].of \in 1..Len(log) /\ reads["confirm"].of >= heard
      BY <1>0, <1>9, <2>2 DEF ConfirmFails, IInv, Confirming
    <3> QED
      BY <1>7, <1>9, <2>2, <3>1 DEF ConfirmFails
  <2> QED
    BY <2>1, <2>2
<1> QED
  BY <1>2, <1>4, <1>5, <1>8, <1>9 DEF WsReads

\* A frame arrives.
LEMMA FrameIInv ==
  ASSUME IInv, FrameArrives
  PROVE  IInv'
<1> USE DEF unmoved, signalVars
<1> DEFINE v == Head(frames)
<1>1. /\ pc = "streaming" /\ candidates \in Nat /\ frames \in Seq(Nat) /\ frames # <<>>
      /\ heard \in 0..Len(log) /\ Len(log) \in 1..(MaxChanges + 1)
      /\ \A i \in 1..Len(frames) : frames[i] \in 1..Len(log)
  BY DEF FrameArrives, IInv, SocketType, LogType, Idle, Unsettled, ControlType
<1>2. /\ Tail(frames) \in Seq(Nat) /\ v \in 1..Len(log)
      /\ \A i \in 1..Len(Tail(frames)) : Tail(frames)[i] \in 1..Len(log)
  BY <1>1, HeadTailProperties
<1> HIDE DEF v
<1>3. CASE ~Settles(log[v])
  <2>1. UNCHANGED <<reads, candidates, pending, heard, open, log>> /\ frames' = Tail(frames)
    BY <1>3 DEF FrameArrives, v
  <2>2. SocketType' /\ ReadsType' /\ Fresh' /\ Confirming'
    BY <1>2, <2>1 DEF IInv, SocketType, ReadsType, Fresh, Confirming, Superseded
  <2> QED
    BY <1>1, <2>1, <2>2, StreamIInv DEF FrameArrives
<1>4. CASE Settles(log[v])
  <2>1. /\ heard' = v /\ candidates' = candidates + 1 /\ frames' = Tail(frames)
        /\ UNCHANGED <<open, log>>
        /\ IF reads["confirm"].at = "none"
           THEN reads' = [reads EXCEPT !["confirm"] = Asked(candidates + 1, v)] /\ UNCHANGED pending
           ELSE pending' = v /\ UNCHANGED reads
    BY <1>4 DEF FrameArrives, v
  <2>2. v \in Versions /\ pending \in Versions
    BY <1>1, <1>2 DEF IInv, SocketType
  <2>3. /\ Asked(candidates + 1, v) \in ReadType /\ Asked(candidates + 1, v).at = "asked"
        /\ Asked(candidates + 1, v).seq = candidates + 1 /\ Asked(candidates + 1, v).of = v
    BY <1>1, <2>2, ReadRecords
  <2>4. SocketType'
    BY <1>1, <1>2, <2>1, <2>2 DEF IInv, SocketType
  <2>5. \A r \in Slots : reads[r].seq <= candidates /\ reads[r].seq \in Nat
    BY DEF IInv, Fresh, ReadsType, ReadType
  <2>6. CASE reads["confirm"].at = "none"
    <3>1. ReadsType'
      BY <2>1, <2>3, <2>6 DEF IInv, ReadsType
    <3>2. /\ reads'["confirm"] = Asked(candidates + 1, v)
          /\ \A r \in Slots \ {"confirm"} : reads'[r] = reads[r]
      BY <2>1, <2>6 DEF IInv, ReadsType, Slots
    <3>3. Fresh'
      <4> SUFFICES ASSUME NEW r \in Slots
                   PROVE  /\ reads'[r].seq <= candidates'
                          /\ reads'[r].at = "served" =>
                               /\ reads'[r].ver \in 1..Len(log')
                               /\ r = "poll" \/ reads'[r].seq = candidates' =>
                                    reads'[r].ver >= heard'
        BY DEF Fresh
      <4>1. CASE r = "confirm"
        BY <1>1, <2>1, <2>3, <3>2, <4>1
      <4>2. CASE r = "snapshot"
        BY <1>1, <2>1, <2>5, <3>2, <4>2, SMTT(30) DEF IInv, Fresh, Slots
      <4>3. CASE r = "poll"
        BY <1>1, <2>1, <2>5, <3>2, <4>3, ReadRecords, SMTT(30) DEF IInv, Idle, Slots
      <4> QED
        BY <4>1, <4>2, <4>3 DEF Slots
    <3>4. Confirming'
      BY <1>2, <2>1, <2>3, <2>6, <3>2 DEF IInv, Confirming, Superseded
    <3>5. reads'["poll"] = reads["poll"]
      BY <3>2 DEF Slots
    <3> QED
      BY <1>1, <1>2, <2>1, <2>4, <3>1, <3>3, <3>4, <3>5, StreamIInv, SMTT(30) DEF FrameArrives
  <2>7. CASE reads["confirm"].at # "none"
    <3>1. ReadsType'
      BY <2>1, <2>7 DEF IInv, ReadsType
    <3>2. Fresh'
      <4> SUFFICES ASSUME NEW r \in Slots
                   PROVE  /\ reads[r].seq <= candidates + 1
                          /\ reads[r].at = "served" =>
                               /\ reads[r].ver \in 1..Len(log)
                               /\ r = "poll" \/ reads[r].seq = candidates + 1 =>
                                    reads[r].ver >= v
        BY <2>1, <2>7 DEF Fresh
      <4>1. CASE r # "poll"
        BY <1>1, <2>5, <4>1 DEF IInv, Fresh
      <4>2. CASE r = "poll"
        BY <1>1, <2>5, <4>2, ReadRecords DEF IInv, Idle
      <4> QED
        BY <4>1, <4>2
    <3>3. Confirming'
      BY <1>1, <1>2, <2>1, <2>5, <2>7, SMTT(30) DEF IInv, Confirming, Superseded, Slots
    <3> QED
      BY <1>1, <1>2, <2>1, <2>4, <2>7, <3>1, <3>2, <3>3, StreamIInv, SMTT(30) DEF FrameArrives
  <2> QED
    BY <2>6, <2>7
<1> QED
  BY <1>3, <1>4

\* The poll, but for its reads.
LEMMA PollIInv ==
  ASSUME IInv, Poll
  PROVE  IInv'
<1> USE Open DEF unmoved, signalVars, Pcs, OutcomeKinds
<1>1. CASE PollAborted
  BY <1>1, PlainEndIInv DEF PollAborted, EndsWith
<1>2. CASE PollTimedOut
  BY <1>2, PlainEndIInv DEF PollTimedOut, EndsWith
<1>3. CASE PollBegins
  BY <1>3, MoveIInv DEF PollBegins, PollGo
<1>4. CASE ChainEnded
  BY <1>4, PlainEndIInv DEF ChainEnded, EndsWith
<1>5. CASE ChainFails
  BY <1>5, PlainEndIInv DEF ChainFails, EndsWith
<1>6. CASE Checked
  BY <1>6, MoveIInv DEF Checked, PollGo
<1>7. CASE MintFails
  BY <1>7, PlainEndIInv DEF MintFails, EndsWith
<1>8. CASE AskStatus
  <2> USE DEF socketVars
  <2>1. 0 \in Versions /\ 0 \in Nat /\ "poll" \in Slots
    BY DEF Slots
  <2>2. Asked(0, 0) \in ReadType /\ Asked(0, 0).at = "asked" /\ Asked(0, 0).seq = 0
    BY <2>1 DEF Asked, ReadType
  <2>3. /\ reads' = [reads EXCEPT !["poll"] = Asked(0, 0)]
        /\ open' \in BOOLEAN /\ pending' \in Versions /\ 0 <= candidates
    BY <1>8 DEF AskStatus, IInv, SocketType
  <2>4. SocketType' /\ ReadsType' /\ Fresh'
    <3>1. UNCHANGED <<candidates, frames, log, heard>>
      BY <1>8 DEF AskStatus
    <3>2. Asked(0, 0).at # "served" /\ Asked(0, 0).seq <= candidates
      BY <2>2, <2>3
    <3> QED
      BY <2>1, <2>2, <2>3, <3>1, <3>2, ReadSlot, Zenon
  <2>5. /\ reads'["confirm"] = reads["confirm"] /\ reads'["snapshot"] = reads["snapshot"]
        /\ pc = "pollMint" /\ pc' = "polling"
        /\ UNCHANGED <<kind, attempt, misses, late, aborted, outcome, log, heard, learnt,
                       socketVars>>
    BY <1>8 DEF AskStatus, IInv, ReadsType, Slots
  <2>6. ControlType' /\ LogType' /\ OutcomeType' /\ Unsettled' /\ VerdictTrue'
    BY <2>5 DEF IInv, ControlType, LogType, OutcomeType, Unsettled, VerdictTrue, VerdictOn
  <2>7. Idle' /\ Confirming'
    BY <2>5 DEF IInv, Idle, Confirming, Superseded
  <2> QED
    BY <2>4, <2>6, <2>7 DEF IInv
<1>9. CASE SleepEnds
  BY <1>9, MoveIInv DEF SleepEnds, PollGo
<1> QED
  BY <1>1, <1>2, <1>3, <1>4, <1>5, <1>6, <1>7, <1>8, <1>9 DEF Poll

\* A read of the poll is answered, or is lost.
LEMMA PollReadIInv ==
  ASSUME IInv, PollRead
  PROVE  IInv'
<1> USE DEF unmoved, signalVars, OutcomeKinds
<1>1. /\ pc = "polling" /\ misses \in 0..MaxFailures
      /\ late \in BOOLEAN /\ aborted \in BOOLEAN
      /\ \A r \in Slots \ {"poll"} : reads[r] = NoRead
      /\ open = FALSE /\ candidates = 0 /\ pending = 0 /\ frames = <<>>
      /\ reads["poll"].at = "served" =>
           reads["poll"].ver \in 1..Len(log) /\ reads["poll"].ver >= heard
  BY ReadRecords
  DEF PollRead, StatusReturns, StatusFails, StatusLost, IInv, ControlType, SocketType, Idle,
      Fresh, Slots
<1>2. ASSUME Sleep, UNCHANGED <<attempt, heard, unmoved>>, misses' \in 0..MaxFailures,
             \/ learnt' = learnt
             \/ learnt' \in 1..Len(log) /\ VerdictOn(learnt') = "pending"
      PROVE  IInv'
  <2>1. CASE late /\ kind # "readiness"
    BY <1>1, <1>2, <2>1, PlainEndIInv DEF Sleep
  <2>2. CASE ~(late /\ kind # "readiness")
    <3>1. /\ pc' = "pollSleep" /\ reads' = [reads EXCEPT !["poll"] = NoRead]
          /\ UNCHANGED <<socketVars, outcome>>
      BY <1>2, <2>2 DEF Sleep
    <3>2. HangUp
      <4>1. reads' = [q \in Slots |-> NoRead]
        <5>1. reads' = [q \in Slots |-> IF q = "poll" THEN NoRead ELSE reads[q]]
          BY <3>1 DEF IInv, ReadsType
        <5> QED
          BY <1>1, <5>1
      <4>2. open' = open /\ candidates' = candidates /\ pending' = pending /\ frames' = frames
        BY <3>1 DEF socketVars
      <4> QED
        BY <1>1, <4>1, <4>2, Zenon DEF HangUp
    <3> QED
      BY <1>1, <1>2, <3>1, <3>2, BackIInv
  <2> QED
    BY <2>1, <2>2
<1>3. CASE StatusReturns
  <2> DEFINE v == reads["poll"].ver
  <2>1. v \in 1..Len(log) /\ v >= heard /\ learnt' = v /\ misses' = 0 /\ 0 \in 0..MaxFailures
    BY <1>1, <1>3 DEF StatusReturns
  <2>2. CASE VerdictOn(v) # "pending"
    <3>1. Ends(Outcome(VerdictOn(v), v))
      BY <1>3, <2>2 DEF StatusReturns
    <3> QED
      BY <1>3, <2>1, <2>2, <3>1, VerdictIInv DEF StatusReturns
  <2>3. CASE VerdictOn(v) = "pending"
    BY <1>2, <1>3, <2>1, <2>3 DEF StatusReturns
  <2> QED
    BY <2>2, <2>3
<1>4. CASE StatusFails
  BY <1>1, <1>2, <1>4 DEF StatusFails
<1>5. CASE StatusLost
  BY <1>1, <1>5, PlainEndIInv DEF StatusLost, EndsWith
<1> QED
  BY <1>3, <1>4, <1>5 DEF PollRead

\* The provider changes: what was written stays as it was.
LEMMA ChangeIInv ==
  ASSUME IInv, Change
  PROVE  IInv'
<1> USE DEF signalVars
<1>1. PICK d \in Docs : log' = Append(log, d)
  BY DEF Change
<1>2. /\ log \in Seq(Docs) /\ Len(log) \in 1..(MaxChanges + 1) /\ Len(log) <= MaxChanges
      /\ Len(log) \in Nat
  BY DEF Change, IInv, LogType
<1>3. /\ log' \in Seq(Docs) /\ Len(log') = Len(log) + 1
      /\ \A i \in 1..Len(log) : log'[i] = log[i]
  BY <1>1, <1>2, AppendProperties
<1>4. /\ UNCHANGED <<kind, pc, attempt, open, candidates, pending, reads, misses, late, aborted,
                     outcome, heard, learnt>>
      /\ \/ open /\ frames' = Append(frames, Len(log) + 1)
         \/ UNCHANGED frames
  BY DEF Change
<1>5. ControlType' /\ LogType' /\ OutcomeType' /\ ReadsType'
  BY <1>2, <1>3, <1>4 DEF IInv, ControlType, LogType, OutcomeType, ReadsType
<1>6. SocketType'
  <2>1. frames \in Seq(Nat) /\ \A i \in 1..Len(frames) : frames[i] \in 1..Len(log)
    BY DEF IInv, SocketType
  <2>2. CASE UNCHANGED frames
    BY <1>2, <1>3, <1>4, <2>1, <2>2 DEF IInv, SocketType
  <2>3. CASE frames' = Append(frames, Len(log) + 1)
    <3>1. /\ frames' \in Seq(Nat) /\ Len(frames') = Len(frames) + 1 /\ Len(frames) \in Nat
          /\ \A i \in 1..Len(frames) : frames'[i] = frames[i]
          /\ frames'[Len(frames) + 1] = Len(log) + 1
      BY <1>2, <2>1, <2>3, AppendProperties
    <3>2. \A i \in 1..Len(frames') : frames'[i] \in 1..Len(log')
      <4>1. TAKE i \in 1..Len(frames')
      <4>2. CASE i \in 1..Len(frames)
        <5>1. frames'[i] = frames[i] /\ frames[i] \in 1..Len(log)
          BY <2>1, <3>1, <4>2
        <5> QED
          BY <1>2, <1>3, <5>1
      <4>3. CASE i = Len(frames) + 1
        BY <1>2, <1>3, <3>1, <4>3
      <4> QED
        BY <3>1, <4>2, <4>3
    <3> QED
      BY <1>4, <3>1, <3>2 DEF IInv, SocketType
  <2> QED
    BY <1>4, <2>2, <2>3
<1>7. Idle' /\ Confirming'
  BY <1>2, <1>3, <1>4 DEF IInv, SocketType, Idle, Confirming, Superseded
<1>8. Fresh'
  BY <1>2, <1>3, <1>4 DEF IInv, Fresh
<1>9. learnt # 0 => learnt \in 1..Len(log) /\ VerdictOn(learnt)' = VerdictOn(learnt)
  BY <1>2, <1>3, <1>4 DEF IInv, ControlType, Unsettled, VerdictOn
<1>10. Unsettled'
  BY <1>2, <1>3, <1>4, <1>9 DEF IInv, ControlType, Unsettled
<1>11. VerdictTrue'
  <2>1. ASSUME outcome.kind \in {"success", "failure"}
        PROVE  /\ outcome.ver \in 1..Len(log') /\ outcome.ver >= heard
               /\ outcome.kind = VerdictOn(outcome.ver)'
    BY <1>2, <1>3, <1>4, <2>1 DEF IInv, VerdictTrue, VerdictOn
  <2> QED
    BY <1>4, <1>9, <2>1 DEF IInv, VerdictTrue
<1> QED
  BY <1>5, <1>6, <1>7, <1>8, <1>10, <1>11 DEF IInv

\* The provider serves a read: its document is the current one.
LEMMA ServeIInv ==
  ASSUME IInv, NEW r \in Slots, Serve(r)
  PROVE  IInv'
<1> USE DEF unmoved, signalVars, socketVars
<1> DEFINE rd == Served(reads[r])
<1>1. /\ reads[r] \in ReadType /\ reads[r].at = "asked"
      /\ Len(log) \in 1..(MaxChanges + 1) /\ heard \in 0..Len(log)
  BY DEF Serve, IInv, ReadsType, LogType, Unsettled, ControlType
<1>2. reads' = [reads EXCEPT ![r] = rd]
  BY DEF Serve
<1>3. /\ rd \in ReadType /\ rd.at = "served" /\ rd.ver = Len(log)
      /\ rd.seq = reads[r].seq /\ rd.of = reads[r].of
  <2>1. Len(log) \in Versions /\ reads[r].seq \in Nat /\ reads[r].of \in Versions
    BY <1>1 DEF ReadType
  <2> QED
    BY <2>1 DEF Served, ReadType
<1> HIDE DEF rd
<1>4. reads'[r] = rd /\ \A q \in Slots \ {r} : reads'[q] = reads[q]
  BY <1>2 DEF IInv, ReadsType
<1>5. UNCHANGED <<kind, pc, attempt, misses, late, aborted, outcome, log, heard, learnt, socketVars>>
  BY DEF Serve
<1>6. ControlType' /\ SocketType' /\ LogType' /\ OutcomeType' /\ Unsettled' /\ VerdictTrue'
  BY <1>5
  DEF IInv, ControlType, SocketType, LogType, OutcomeType, Unsettled, VerdictTrue, VerdictOn
<1>7. ReadsType'
  BY <1>2, <1>3 DEF IInv, ReadsType
<1>8. Idle'
  <2>1. reads[r] # NoRead
    BY <1>1, ReadRecords
  <2> QED
    BY <1>4, <1>5, <2>1 DEF IInv, Idle, Slots
<1>9. Fresh'
  <2> SUFFICES ASSUME NEW q \in Slots
               PROVE  /\ reads'[q].seq <= candidates
                      /\ reads'[q].at = "served" =>
                           /\ reads'[q].ver \in 1..Len(log)
                           /\ q = "poll" \/ reads'[q].seq = candidates => reads'[q].ver >= heard
    BY <1>5 DEF Fresh
  <2>1. CASE q = r
    BY <1>1, <1>3, <1>4, <2>1 DEF IInv, Fresh
  <2>2. CASE q # r
    BY <1>4, <2>2 DEF IInv, Fresh
  <2> QED
    BY <2>1, <2>2
<1>10. Confirming'
  <2>1. /\ (reads'["confirm"].at = "none") = (reads["confirm"].at = "none")
        /\ reads'["confirm"].seq = reads["confirm"].seq /\ reads'["confirm"].of = reads["confirm"].of
    BY <1>1, <1>3, <1>4 DEF Slots
  <2> QED
    BY <1>5, <2>1 DEF IInv, Confirming, Superseded
<1> QED
  BY <1>6, <1>7, <1>8, <1>9, <1>10 DEF IInv

\* The clock, the signal, and nothing at all.
LEMMA SignalIInv ==
  ASSUME IInv, Deadline \/ Abort \/ UNCHANGED vars
  PROVE  IInv'
<1> USE DEF signalVars, socketVars
<1>1. ASSUME late' \in BOOLEAN, aborted' \in BOOLEAN,
             UNCHANGED <<kind, pc, attempt, socketVars, reads, misses, outcome, log, heard, learnt>>
      PROVE  IInv'
  <2>1. ControlType' /\ SocketType' /\ ReadsType' /\ LogType' /\ OutcomeType'
    BY <1>1 DEF IInv, ControlType, SocketType, ReadsType, LogType, OutcomeType
  <2>2. Idle' /\ Unsettled' /\ VerdictTrue'
    BY <1>1 DEF IInv, Idle, Unsettled, VerdictTrue, VerdictOn
  <2>3. Fresh' /\ Confirming'
    BY <1>1 DEF IInv, Fresh, Confirming, Superseded
  <2> QED
    BY <2>1, <2>2, <2>3 DEF IInv
<1>2. late \in BOOLEAN /\ aborted \in BOOLEAN /\ misses \in 0..MaxFailures
  BY Open
<1>3. CASE Deadline
  BY <1>1, <1>2, <1>3 DEF Deadline
<1>4. CASE Abort
  <2>1. CASE pc \in {"streaming", "wsDelay", "pollSleep"}
    BY <1>2, <1>4, <2>1, PlainEndIInv DEF Abort, OutcomeKinds
  <2>2. CASE pc \notin {"streaming", "wsDelay", "pollSleep"}
    BY <1>1, <1>2, <1>4, <2>2 DEF Abort
  <2> QED
    BY <2>1, <2>2
<1>5. CASE UNCHANGED vars
  BY <1>1, <1>2, <1>5 DEF vars
<1> QED
  BY <1>3, <1>4, <1>5

LEMMA NextIInv ==
  ASSUME IInv, [Next]_vars
  PROVE  IInv'
  BY WsIInv, WsReadsIInv, FrameIInv, PollIInv, PollReadIInv, ChangeIInv, ServeIInv, SignalIInv
  DEF Next, Ws

LEMMA InitIInv ==
  ASSUME Init
  PROVE  IInv
<1> USE DEF Init
<1>1. PICK d \in Docs : log = <<d>>
  OBVIOUS
<1>2. log \in Seq(Docs) /\ Len(log) = 1
  BY <1>1
<1>3. /\ NoOutcome.kind = "none" /\ NoOutcome.ver = 0
      /\ NoOutcome \in [kind : OutcomeKinds, ver : Versions]
  BY DEF NoOutcome, Outcome, OutcomeKinds
<1>5. ControlType /\ LogType /\ OutcomeType
  <2>1. pc \in Pcs
    BY DEF Pcs
  <2>2. 0 \in Versions /\ 0 \in 0..Attempts /\ 0 \in 0..MaxFailures /\ 1 \in 1..(MaxChanges + 1)
    OBVIOUS
  <2>3. LogType
    BY <1>2, <2>2 DEF LogType
  <2>4. OutcomeType
    BY <1>3 DEF OutcomeType
  <2> QED
    BY <2>1, <2>2, <2>3, <2>4 DEF ControlType
<1>6. SocketType
  <2>1. candidates \in Nat /\ pending \in Versions /\ open \in BOOLEAN
    BY Zero, Zenon
  <2>2. frames \in Seq(Nat) /\ \A i \in 1..Len(frames) : frames[i] \in 1..Len(log)
    BY NoFrames, Zenon
  <2> QED
    BY <2>1, <2>2, Zenon DEF SocketType
<1>7. ReadsType /\ Fresh /\ Confirming
  BY ReadRecords DEF ReadsType, Fresh, Confirming, Slots
<1>8. Idle
  BY DEF Idle, Slots
<1>9. Unsettled /\ VerdictTrue
  BY <1>2, <1>3 DEF Unsettled, VerdictTrue
<1> QED
  BY <1>5, <1>6, <1>7, <1>8, <1>9 DEF IInv

\* The inductive invariant holds in every behaviour.
THEOREM IInvInvariant == Spec => []IInv
<1>1. Init => IInv
  BY InitIInv
<1>2. IInv /\ [Next]_vars => IInv'
  BY NextIInv
<1> QED
  BY <1>1, <1>2, PTL DEF Spec

\* Whatever the socket, the provider and the clock do, every read, frame and
\* candidate refers to a document the provider wrote, and the counters of
\* connections and of failures keep within their limits.
THEOREM TypeCorrect == Spec => []TypeOK
<1>1. IInv => TypeOK
  BY Parts DEF IInv
<1> QED
  BY <1>1, IInvInvariant, PTL

\* For any number of changes, frames and reads in any order: a wait settles on a
\* document of the provider no older than the last settling frame it received,
\* and on every verdict it has seen.
THEOREM VerdictHolds == Spec => []VerdictTrue
<1>1. IInv => VerdictTrue
  BY DEF IInv
<1> QED
  BY <1>1, IInvInvariant, PTL
=============================================================================
