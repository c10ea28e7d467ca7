------------------------- MODULE TxExecution_proofs -------------------------
(***************************************************************************)
(* What a transaction call tells its caller is true for any number of      *)
(* calls, senders and retries.  IInv ties the answers to the submission    *)
(* marker, the marker to the node, and the steps under the lock to the     *)
(* order of the sender's line.                                             *)
(***************************************************************************)
EXTENDS TxExecution, FiniteSetTheorems, TLAPS

\* Steps between taking the lock and settling.
Holding == {"acquiring", "limited", "simulating", "signing", "submitting",
            "polling", "backoff"}

\* Of two operations in a sender's line, one lets the other go first.
Ranked ==
  \A s \in Signers : \A o, p \in line[s] :
    /\ sender[o] = s
    /\ o = p \/ o \in ahead[p] \/ p \in ahead[o]

\* Whoever was granted its sender's lock is in line and lets nobody go first.
HoldersLead ==
  /\ \A o \in granted : o \in line[sender[o]] /\ ahead[o] = {}
  /\ \A o \in Ops : pc[o] \in Holding => o \in granted
  /\ \A o \in Ops : outcome[o] # Pending => pc[o] = "ended"

\* The marker comes before the bytes leave.
MarkedFirst ==
  \A o \in Ops :
    /\ pc[o] \in {"signing", "submitting", "polling"} => sent[o]
    /\ arrived[o] > 0 => sent[o]
    /\ pc[o] \notin {"submitting", "polling", "ended"} => arrived[o] = 0
    /\ pc[o] = "idle" => ~sent[o] /\ ~hash[o]

\* Only a cancelled and unmarked operation is said to be unsent.
UnsentMeansUnmarked ==
  \A o \in Ops :
    result[o].claim = "unsent" \/ outcome[o].claim = "unsent"
      => aborted[o] /\ ~sent[o]

\* Hashes come from the node's acceptance.
HashesAccepted ==
  \A o \in Ops :
    hash[o] \/ pc[o] = "polling" \/ result[o].hash \/ outcome[o].hash
      => accepted[o]

IInv == /\ TypeOK
        /\ Ranked
        /\ HoldersLead
        /\ MarkedFirst
        /\ UnsentMeansUnmarked
        /\ HashesAccepted
        /\ AtMostOneArrival
        /\ PromptCancellation

LEMMA InitIInv == Init => IInv
<1>. SUFFICES ASSUME Init PROVE IInv
  OBVIOUS
<1>. USE MaxRetriesAssumption DEF Init, Lock!Init, Pending, Answer
<1>1. TypeOK
  BY DEF TypeOK, Pcs, Answers
<1>2. Ranked /\ HoldersLead /\ MarkedFirst /\ UnsentMeansUnmarked /\ HashesAccepted
  BY DEF Ranked, HoldersLead, Holding, MarkedFirst, UnsentMeansUnmarked, HashesAccepted
<1>3. AtMostOneArrival /\ PromptCancellation
  BY DEF AtMostOneArrival, PromptCancellation
<1>. QED
  BY <1>1, <1>2, <1>3 DEF IInv

\* Answers that a step gives are answers.
LEMMA AnswerTypes ==
  ASSUME TypeOK, NEW o \in Ops
  PROVE  /\ Cancelled(o) \in Answers /\ Cancelled(o) # Pending
         /\ Cancelled(o).claim = "unsent" => ~sent[o]
         /\ Cancelled(o).hash = hash[o]
         /\ Failed \in Answers /\ Failed # Pending
         /\ Failed.claim = "none" /\ Failed.hash = FALSE
         /\ Answer("ok", "none", TRUE) \in Answers
         /\ Answer("ok", "none", TRUE).claim = "none"
         /\ Answer("failed", "sent", TRUE) \in Answers
         /\ Answer("failed", "sent", TRUE).claim = "sent"
BY DEF Cancelled, Failed, Pending, Answer, Answers, TypeOK

\* Every step keeps the types.
LEMMA NextTypeOK ==
  ASSUME IInv, [Next]_vars
  PROVE  TypeOK'
<1>. USE DEF IInv, TypeOK, Pcs
<1>1. ASSUME NEW o \in Ops, NEW signal \in BOOLEAN, NEW wait \in BOOLEAN, Call(o, signal, wait)
      PROVE  TypeOK'
  <2>1. CASE pc' = [pc EXCEPT ![o] = "preparing"] /\ UNCHANGED <<cancelVars, outcome>>
    BY <1>1, <2>1 DEF Call, cancelVars, markVars, nodeVars, lockVars
  <2>2. CASE /\ pc' = [pc EXCEPT ![o] = "ended"]
             /\ aborted' = [aborted EXCEPT ![o] = TRUE]
             /\ outcome' = [outcome EXCEPT ![o] = Cancelled(o)]
             /\ result' = [result EXCEPT ![o] = Cancelled(o)]
    BY <1>1, <2>2, AnswerTypes DEF Call, markVars, nodeVars, lockVars
  <2>. QED
    BY <1>1, <2>1, <2>2 DEF Call
<1>2. ASSUME NEW o \in Ops, Abort(o)
      PROVE  TypeOK'
  BY <1>2, AnswerTypes, MaxRetriesAssumption DEF Abort,
     opVars, cancelVars, markVars, nodeVars, lockVars
<1>3. ASSUME NEW o \in Ops, Deliver(o)
      PROVE  TypeOK'
  BY <1>3, AnswerTypes, MaxRetriesAssumption DEF Deliver,
     opVars, cancelVars, markVars, nodeVars, lockVars
<1>4. ASSUME NEW o \in Ops, ReleaseLock(o)
      PROVE  TypeOK'
  BY <1>4, AnswerTypes, MaxRetriesAssumption DEF ReleaseLock, Lock!Release,
     opVars, cancelVars, markVars, nodeVars, lockVars
<1>5. ASSUME NEW o \in Ops, Checkpointed(o)
      PROVE  TypeOK'
  BY <1>5, AnswerTypes, MaxRetriesAssumption DEF Checkpointed, End,
     opVars, cancelVars, markVars, nodeVars, lockVars
<1>6. ASSUME NEW o \in Ops, PrepareFails(o) \/ ClientFails(o)
      PROVE  TypeOK'
  <2>1. /\ pc[o] \in {"preparing", "acquiring"}
        /\ End(o, Failed)
        /\ UNCHANGED <<markVars, nodeVars>>
    BY <1>6 DEF PrepareFails, ClientFails
  <2>. QED
    BY <2>1, AnswerTypes DEF End,
       opVars, cancelVars, markVars, nodeVars, lockVars
<1>7. ASSUME NEW o \in Ops, Prepared(o)
      PROVE  TypeOK'
  BY <1>7, AnswerTypes, MaxRetriesAssumption DEF Prepared, Goto, Lock!Request,
     opVars, cancelVars, markVars, nodeVars, lockVars
<1>8. ASSUME NEW o \in Ops, RunBody(o)
      PROVE  TypeOK'
  <2>1. /\ granted' = granted \cup {o}
        /\ UNCHANGED <<opVars, attempt, cancelVars, markVars, nodeVars, line, ahead, finished>>
    BY <1>8 DEF RunBody, Lock!Grant
  <2>2. CASE pc' = [pc EXCEPT ![o] = "acquiring"] /\ UNCHANGED outcome
    BY <2>1, <2>2 DEF opVars, cancelVars, markVars, nodeVars
  <2>3. CASE /\ pc' = [pc EXCEPT ![o] = "ended"]
             /\ outcome' = [outcome EXCEPT ![o] = Cancelled(o)]
    BY <2>1, <2>3, AnswerTypes DEF opVars, cancelVars, markVars, nodeVars
  <2>. QED
    BY <1>8, <2>2, <2>3 DEF RunBody
<1>9. ASSUME NEW o \in Ops, ClientReady(o) \/ RateLimited(o) \/ BackedOff(o)
      PROVE  TypeOK'
  BY <1>9, AnswerTypes, MaxRetriesAssumption DEF ClientReady, RateLimited, BackedOff, Step, Goto,
     opVars, cancelVars, markVars, nodeVars, lockVars
<1>10. ASSUME NEW o \in Ops, MarkBroadcast(o)
      PROVE  TypeOK'
  BY <1>10, AnswerTypes, MaxRetriesAssumption DEF MarkBroadcast, Goto,
     opVars, cancelVars, markVars, nodeVars, lockVars
<1>11. ASSUME NEW o \in Ops, AttemptFails(o)
      PROVE  TypeOK'
  BY <1>11, AnswerTypes, MaxRetriesAssumption DEF AttemptFails, End,
     opVars, cancelVars, markVars, nodeVars, lockVars
<1>12. ASSUME NEW o \in Ops, AttemptRetried(o)
      PROVE  TypeOK'
  BY <1>12, AnswerTypes, MaxRetriesAssumption DEF AttemptRetried,
     opVars, cancelVars, markVars, nodeVars, lockVars
<1>13. ASSUME NEW o \in Ops, Send(o)
      PROVE  TypeOK'
  <2>1. /\ pc[o] = "signing" /\ pc' = [pc EXCEPT ![o] = "submitting"]
        /\ UNCHANGED <<opVars, attempt, cancelVars, markVars, outcome, lockVars>>
    BY <1>13 DEF Send, Goto
  <2>2. arrived' \in [Ops -> Nat] /\ accepted' \in [Ops -> BOOLEAN]
    <3>1. CASE UNCHANGED nodeVars
      BY <3>1 DEF nodeVars
    <3>2. CASE /\ arrived' = [arrived EXCEPT ![o] = @ + 1]
               /\ accepted' = accepted \/ accepted' = [accepted EXCEPT ![o] = TRUE]
      <4>1. arrived' \in [Ops -> Nat]
        BY <3>2
      <4>2. accepted' \in [Ops -> BOOLEAN]
        BY <3>2, Zenon
      <4>. QED
        BY <4>1, <4>2
    <3>. QED
      BY <1>13, <3>1, <3>2 DEF Send
  <2>. QED
    BY <2>1, <2>2 DEF opVars, cancelVars, markVars, lockVars
<1>14. ASSUME NEW o \in Ops, AcceptanceSeen(o)
      PROVE  TypeOK'
  BY <1>14, AnswerTypes, MaxRetriesAssumption, ZenonT(60) DEF AcceptanceSeen, End,
     opVars, cancelVars, markVars, nodeVars, lockVars
<1>15. ASSUME NEW o \in Ops, SubmissionFails(o)
      PROVE  TypeOK'
  BY <1>15, AnswerTypes, MaxRetriesAssumption DEF SubmissionFails, End,
     opVars, cancelVars, markVars, nodeVars, lockVars
<1>16. ASSUME NEW o \in Ops, Included(o)
      PROVE  TypeOK'
  BY <1>16, AnswerTypes, MaxRetriesAssumption DEF Included, End,
     opVars, cancelVars, markVars, nodeVars, lockVars
<1>17. ASSUME NEW o \in Ops, PollingFails(o)
      PROVE  TypeOK'
  BY <1>17, AnswerTypes, MaxRetriesAssumption DEF PollingFails, End,
     opVars, cancelVars, markVars, nodeVars, lockVars
<1>18. CASE UNCHANGED vars
  BY <1>18 DEF vars, opVars, cancelVars, markVars, nodeVars, lockVars
<1>. QED
  BY <1>1, <1>2, <1>3, <1>4, <1>5, <1>6, <1>7, <1>8, <1>9, <1>10, <1>11, <1>12, <1>13, <1>14, <1>15, <1>16, <1>17, <1>18
     DEF Next, Advance

\* Every step keeps the answers true.
LEMMA NextTruth ==
  ASSUME IInv, [Next]_vars
  PROVE  MarkedFirst' /\ UnsentMeansUnmarked' /\ HashesAccepted'
<1>. USE DEF IInv, TypeOK, MarkedFirst, UnsentMeansUnmarked, HashesAccepted
<1>1. ASSUME NEW o \in Ops, NEW signal \in BOOLEAN, NEW wait \in BOOLEAN, Call(o, signal, wait)
      PROVE  MarkedFirst' /\ UnsentMeansUnmarked' /\ HashesAccepted'
  <2>1. CASE pc' = [pc EXCEPT ![o] = "preparing"] /\ UNCHANGED <<cancelVars, outcome>>
    BY <1>1, <2>1 DEF Call, cancelVars, markVars, nodeVars, lockVars
  <2>2. CASE /\ pc' = [pc EXCEPT ![o] = "ended"]
             /\ aborted' = [aborted EXCEPT ![o] = TRUE]
             /\ outcome' = [outcome EXCEPT ![o] = Cancelled(o)]
             /\ result' = [result EXCEPT ![o] = Cancelled(o)]
    BY <1>1, <2>2, AnswerTypes, ZenonT(60) DEF Call, markVars, nodeVars, lockVars
  <2>. QED
    BY <1>1, <2>1, <2>2 DEF Call
<1>2. ASSUME NEW o \in Ops, Abort(o)
      PROVE  MarkedFirst' /\ UnsentMeansUnmarked' /\ HashesAccepted'
  BY <1>2, AnswerTypes, ZenonT(60) DEF Abort,
     opVars, cancelVars, markVars, nodeVars, lockVars
<1>3. ASSUME NEW o \in Ops, Deliver(o)
      PROVE  MarkedFirst' /\ UnsentMeansUnmarked' /\ HashesAccepted'
  BY <1>3, AnswerTypes DEF Deliver,
     opVars, cancelVars, markVars, nodeVars, lockVars
<1>4. ASSUME NEW o \in Ops, ReleaseLock(o)
      PROVE  MarkedFirst' /\ UnsentMeansUnmarked' /\ HashesAccepted'
  BY <1>4, AnswerTypes DEF ReleaseLock, Lock!Release,
     opVars, cancelVars, markVars, nodeVars, lockVars
<1>5. ASSUME NEW o \in Ops, Checkpointed(o)
      PROVE  MarkedFirst' /\ UnsentMeansUnmarked' /\ HashesAccepted'
  BY <1>5, AnswerTypes, ZenonT(60) DEF Checkpointed, End,
     opVars, cancelVars, markVars, nodeVars, lockVars
<1>6. ASSUME NEW o \in Ops, PrepareFails(o) \/ ClientFails(o)
      PROVE  MarkedFirst' /\ UnsentMeansUnmarked' /\ HashesAccepted'
  <2>1. /\ pc[o] \in {"preparing", "acquiring"}
        /\ End(o, Failed)
        /\ UNCHANGED <<markVars, nodeVars>>
    BY <1>6 DEF PrepareFails, ClientFails
  <2>. QED
    BY <2>1, AnswerTypes, ZenonT(60) DEF End,
       opVars, cancelVars, markVars, nodeVars, lockVars
<1>7. ASSUME NEW o \in Ops, Prepared(o)
      PROVE  MarkedFirst' /\ UnsentMeansUnmarked' /\ HashesAccepted'
  BY <1>7, AnswerTypes DEF Prepared, Goto, Lock!Request,
     opVars, cancelVars, markVars, nodeVars, lockVars
<1>8. ASSUME NEW o \in Ops, RunBody(o)
      PROVE  MarkedFirst' /\ UnsentMeansUnmarked' /\ HashesAccepted'
  <2>1. CASE pc' = [pc EXCEPT ![o] = "acquiring"] /\ UNCHANGED outcome
    BY <1>8, <2>1 DEF RunBody, cancelVars, markVars, nodeVars
  <2>2. CASE /\ aborted[o]
             /\ pc' = [pc EXCEPT ![o] = "ended"]
             /\ outcome' = [outcome EXCEPT ![o] = Cancelled(o)]
    BY <1>8, <2>2, AnswerTypes, ZenonT(60) DEF RunBody, cancelVars, markVars, nodeVars
  <2>. QED
    BY <1>8, <2>1, <2>2 DEF RunBody
<1>9. ASSUME NEW o \in Ops, ClientReady(o) \/ RateLimited(o) \/ BackedOff(o)
      PROVE  MarkedFirst' /\ UnsentMeansUnmarked' /\ HashesAccepted'
  BY <1>9, AnswerTypes DEF ClientReady, RateLimited, BackedOff, Step, Goto,
     opVars, cancelVars, markVars, nodeVars, lockVars
<1>10. ASSUME NEW o \in Ops, MarkBroadcast(o)
      PROVE  MarkedFirst' /\ UnsentMeansUnmarked' /\ HashesAccepted'
  BY <1>10, AnswerTypes DEF MarkBroadcast, Goto,
     opVars, cancelVars, markVars, nodeVars, lockVars
<1>11. ASSUME NEW o \in Ops, AttemptFails(o)
      PROVE  MarkedFirst' /\ UnsentMeansUnmarked' /\ HashesAccepted'
  BY <1>11, AnswerTypes, ZenonT(60) DEF AttemptFails, End,
     opVars, cancelVars, markVars, nodeVars, lockVars
<1>12. ASSUME NEW o \in Ops, AttemptRetried(o)
      PROVE  MarkedFirst' /\ UnsentMeansUnmarked' /\ HashesAccepted'
  BY <1>12, AnswerTypes DEF AttemptRetried,
     opVars, cancelVars, markVars, nodeVars, lockVars
<1>13. ASSUME NEW o \in Ops, Send(o)
      PROVE  MarkedFirst' /\ UnsentMeansUnmarked' /\ HashesAccepted'
  BY <1>13, AnswerTypes DEF Send, Goto,
     opVars, cancelVars, markVars, nodeVars, lockVars
<1>14. ASSUME NEW o \in Ops, AcceptanceSeen(o)
      PROVE  MarkedFirst' /\ UnsentMeansUnmarked' /\ HashesAccepted'
  <2>1. CASE opts[o].wait
    <3>1. /\ accepted[o] /\ pc[o] = "submitting" /\ pc' = [pc EXCEPT ![o] = "polling"]
          /\ UNCHANGED <<aborted, result, outcome, arrived, accepted>>
      BY <1>14, <2>1 DEF AcceptanceSeen, cancelVars, nodeVars
    <3>2. \/ UNCHANGED <<sent, hash>>
          \/ /\ sent' = [sent EXCEPT ![o] = TRUE]
             /\ hash' = [hash EXCEPT ![o] = TRUE]
      BY <1>14, <2>1 DEF AcceptanceSeen, markVars
    <3>3. \A p \in Ops : sent'[p] = sent[p] /\ (p # o => hash'[p] = hash[p])
      BY <3>1, <3>2
    <3>4. UnsentMeansUnmarked' /\ HashesAccepted'
      BY <3>1, <3>3
    <3>5. MarkedFirst'
      BY <3>1, <3>3
    <3>. QED
      BY <3>4, <3>5
  <2>2. CASE ~opts[o].wait
    <3>1. /\ accepted[o] /\ pc[o] = "submitting"
          /\ pc' = [pc EXCEPT ![o] = "ended"]
          /\ outcome' = [outcome EXCEPT ![o] = Answer("ok", "none", TRUE)]
          /\ UNCHANGED <<aborted, result, sent, hash, arrived, accepted>>
      BY <1>14, <2>2 DEF AcceptanceSeen, End, cancelVars, markVars, nodeVars
    <3>. QED
      BY <3>1, AnswerTypes, ZenonT(60)
  <2>. QED
    BY <2>1, <2>2
<1>15. ASSUME NEW o \in Ops, SubmissionFails(o)
      PROVE  MarkedFirst' /\ UnsentMeansUnmarked' /\ HashesAccepted'
  BY <1>15, AnswerTypes, ZenonT(60) DEF SubmissionFails, End,
     opVars, cancelVars, markVars, nodeVars, lockVars
<1>16. ASSUME NEW o \in Ops, Included(o)
      PROVE  MarkedFirst' /\ UnsentMeansUnmarked' /\ HashesAccepted'
  BY <1>16, AnswerTypes, ZenonT(60) DEF Included, End,
     opVars, cancelVars, markVars, nodeVars, lockVars
<1>17. ASSUME NEW o \in Ops, PollingFails(o)
      PROVE  MarkedFirst' /\ UnsentMeansUnmarked' /\ HashesAccepted'
  BY <1>17, AnswerTypes, ZenonT(60) DEF PollingFails, End,
     opVars, cancelVars, markVars, nodeVars, lockVars
<1>18. CASE UNCHANGED vars
  BY <1>18 DEF vars, opVars, cancelVars, markVars, nodeVars, lockVars
<1>. QED
  BY <1>1, <1>2, <1>3, <1>4, <1>5, <1>6, <1>7, <1>8, <1>9, <1>10, <1>11, <1>12, <1>13, <1>14, <1>15, <1>16, <1>17, <1>18
     DEF Next, Advance

\* Every step keeps transactions single and cancellations prompt.
LEMMA NextPrompt ==
  ASSUME IInv, [Next]_vars
  PROVE  AtMostOneArrival' /\ PromptCancellation'
<1>. USE DEF IInv, TypeOK, MarkedFirst, AtMostOneArrival, PromptCancellation
<1>1. ASSUME NEW o \in Ops, NEW signal \in BOOLEAN, NEW wait \in BOOLEAN, Call(o, signal, wait)
      PROVE  AtMostOneArrival' /\ PromptCancellation'
  BY <1>1, AnswerTypes, ZenonT(60) DEF Call,
     opVars, cancelVars, markVars, nodeVars, lockVars
<1>2. ASSUME NEW o \in Ops, Abort(o)
      PROVE  AtMostOneArrival' /\ PromptCancellation'
  BY <1>2, AnswerTypes DEF Abort,
     opVars, cancelVars, markVars, nodeVars, lockVars
<1>3. ASSUME NEW o \in Ops, Deliver(o)
      PROVE  AtMostOneArrival' /\ PromptCancellation'
  BY <1>3, AnswerTypes DEF Deliver,
     opVars, cancelVars, markVars, nodeVars, lockVars
<1>4. ASSUME NEW o \in Ops, ReleaseLock(o)
      PROVE  AtMostOneArrival' /\ PromptCancellation'
  BY <1>4, AnswerTypes DEF ReleaseLock, Lock!Release,
     opVars, cancelVars, markVars, nodeVars, lockVars
<1>5. ASSUME NEW o \in Ops, Checkpointed(o)
      PROVE  AtMostOneArrival' /\ PromptCancellation'
  BY <1>5, AnswerTypes DEF Checkpointed, End,
     opVars, cancelVars, markVars, nodeVars, lockVars
<1>6. ASSUME NEW o \in Ops, PrepareFails(o) \/ ClientFails(o)
      PROVE  AtMostOneArrival' /\ PromptCancellation'
  BY <1>6, AnswerTypes DEF PrepareFails, ClientFails, End,
     opVars, cancelVars, markVars, nodeVars, lockVars
<1>7. ASSUME NEW o \in Ops, Prepared(o)
      PROVE  AtMostOneArrival' /\ PromptCancellation'
  BY <1>7, AnswerTypes DEF Prepared, Goto, Lock!Request,
     opVars, cancelVars, markVars, nodeVars, lockVars
<1>8. ASSUME NEW o \in Ops, RunBody(o)
      PROVE  AtMostOneArrival' /\ PromptCancellation'
  BY <1>8, AnswerTypes DEF RunBody, Lock!Grant,
     opVars, cancelVars, markVars, nodeVars, lockVars
<1>9. ASSUME NEW o \in Ops, ClientReady(o) \/ RateLimited(o) \/ BackedOff(o)
      PROVE  AtMostOneArrival' /\ PromptCancellation'
  BY <1>9, AnswerTypes DEF ClientReady, RateLimited, BackedOff, Step, Goto,
     opVars, cancelVars, markVars, nodeVars, lockVars
<1>10. ASSUME NEW o \in Ops, MarkBroadcast(o)
      PROVE  AtMostOneArrival' /\ PromptCancellation'
  BY <1>10, AnswerTypes DEF MarkBroadcast, Goto,
     opVars, cancelVars, markVars, nodeVars, lockVars
<1>11. ASSUME NEW o \in Ops, AttemptFails(o)
      PROVE  AtMostOneArrival' /\ PromptCancellation'
  BY <1>11, AnswerTypes DEF AttemptFails, End,
     opVars, cancelVars, markVars, nodeVars, lockVars
<1>12. ASSUME NEW o \in Ops, AttemptRetried(o)
      PROVE  AtMostOneArrival' /\ PromptCancellation'
  BY <1>12, AnswerTypes DEF AttemptRetried,
     opVars, cancelVars, markVars, nodeVars, lockVars
<1>13. ASSUME NEW o \in Ops, Send(o)
      PROVE  AtMostOneArrival' /\ PromptCancellation'
  <2>1. pc[o] = "signing" /\ UNCHANGED <<aborted, result>>
    BY <1>13 DEF Send, Goto, cancelVars
  <2>2. UNCHANGED nodeVars \/ arrived' = [arrived EXCEPT ![o] = @ + 1]
    BY <1>13 DEF Send
  <2>3. arrived[o] = 0
    BY <2>1
  <2>4. arrived' = arrived \/ arrived' = [arrived EXCEPT ![o] = 1]
    BY <2>2, <2>3 DEF nodeVars
  <2>5. ASSUME NEW p \in Ops
        PROVE  arrived'[p] <= 1
    <3>1. arrived \in [Ops -> Nat] /\ arrived[p] <= 1
      OBVIOUS
    <3>. HIDE DEF IInv, TypeOK, MarkedFirst, AtMostOneArrival, PromptCancellation
    <3>2. arrived'[p] = arrived[p] \/ arrived'[p] = 1
      BY <2>4, <3>1
    <3>. QED
      BY <3>1, <3>2
  <2>6. PromptCancellation'
    BY <2>1
  <2>. QED
    BY <2>5, <2>6 DEF AtMostOneArrival
<1>14. ASSUME NEW o \in Ops, AcceptanceSeen(o)
      PROVE  AtMostOneArrival' /\ PromptCancellation'
  BY <1>14, AnswerTypes, ZenonT(60) DEF AcceptanceSeen, End,
     opVars, cancelVars, markVars, nodeVars, lockVars
<1>15. ASSUME NEW o \in Ops, SubmissionFails(o)
      PROVE  AtMostOneArrival' /\ PromptCancellation'
  BY <1>15, AnswerTypes DEF SubmissionFails, End,
     opVars, cancelVars, markVars, nodeVars, lockVars
<1>16. ASSUME NEW o \in Ops, Included(o)
      PROVE  AtMostOneArrival' /\ PromptCancellation'
  BY <1>16, AnswerTypes DEF Included, End,
     opVars, cancelVars, markVars, nodeVars, lockVars
<1>17. ASSUME NEW o \in Ops, PollingFails(o)
      PROVE  AtMostOneArrival' /\ PromptCancellation'
  BY <1>17, AnswerTypes DEF PollingFails, End,
     opVars, cancelVars, markVars, nodeVars, lockVars
<1>18. CASE UNCHANGED vars
  BY <1>18 DEF vars, opVars, cancelVars, markVars, nodeVars, lockVars
<1>. QED
  BY <1>1, <1>2, <1>3, <1>4, <1>5, <1>6, <1>7, <1>8, <1>9, <1>10, <1>11, <1>12, <1>13, <1>14, <1>15, <1>16, <1>17, <1>18
     DEF Next, Advance

\* Every step keeps the lines ranked: a newcomer lets everybody in line go first,
\* and whoever leaves is let go first no longer.
LEMMA NextRanked ==
  ASSUME IInv, [Next]_vars
  PROVE  Ranked'
<1>. USE DEF IInv, TypeOK, Ranked
<1>1. ASSUME NEW o \in Ops, Lock!Request(o, sender[o]), UNCHANGED sender
      PROVE  Ranked'
  <2>1. /\ line' = [line EXCEPT ![sender[o]] = @ \cup {o}]
        /\ ahead' = [ahead EXCEPT ![o] = line[sender[o]]]
        /\ \A s \in Signers : o \notin line[s]
    BY <1>1 DEF Lock!Request
  <2>2. ASSUME NEW s \in Signers, NEW p \in line'[s], NEW q \in line'[s]
        PROVE  sender[p] = s /\ (p = q \/ p \in ahead'[q] \/ q \in ahead'[p])
    <3>1. /\ p = o \/ p \in line[s]
          /\ q = o \/ q \in line[s]
          /\ p = o \/ q = o => s = sender[o]
      BY <2>1
    <3>2. CASE p = o \/ q = o
      BY <2>1, <3>1, <3>2
    <3>3. CASE p # o /\ q # o
      BY <2>1, <3>1, <3>3
    <3>. QED
      BY <3>2, <3>3
  <2>. QED
    BY <1>1, <2>2
<1>2. ASSUME NEW o \in Ops, Lock!Release(o, sender[o]), UNCHANGED sender
      PROVE  Ranked'
  <2>1. /\ line' = [line EXCEPT ![sender[o]] = @ \ {o}]
        /\ ahead' = [p \in Ops |-> ahead[p] \ {o}]
    BY <1>2 DEF Lock!Release
  <2>2. \A s \in Signers : line'[s] = line[s] \ {o}
    BY <2>1
  <2>. QED
    BY <1>2, <2>1, <2>2
<1>3. CASE UNCHANGED <<line, ahead, sender>>
  BY <1>3
<1>4. ASSUME NEW o \in Ops, NEW signal \in BOOLEAN, NEW wait \in BOOLEAN, Call(o, signal, wait)
      PROVE  UNCHANGED <<line, ahead, sender>>
  BY <1>4 DEF Call, lockVars
<1>5. ASSUME NEW o \in Ops, Abort(o) \/ Deliver(o) \/ RunBody(o)
      PROVE  UNCHANGED <<line, ahead, sender>>
  BY <1>5 DEF Abort, Deliver, RunBody, Lock!Grant, opVars, lockVars
<1>6. ASSUME NEW o \in Ops,
             \/ Checkpointed(o) \/ PrepareFails(o) \/ ClientReady(o) \/ ClientFails(o)
             \/ RateLimited(o) \/ MarkBroadcast(o) \/ AttemptFails(o) \/ AttemptRetried(o)
             \/ BackedOff(o) \/ Send(o) \/ AcceptanceSeen(o) \/ SubmissionFails(o)
             \/ Included(o) \/ PollingFails(o)
      PROVE  UNCHANGED <<line, ahead, sender>>
  BY <1>6 DEF Checkpointed, PrepareFails, ClientReady, ClientFails, RateLimited,
     MarkBroadcast, AttemptFails, AttemptRetried, BackedOff, Send, AcceptanceSeen,
     SubmissionFails, Included, PollingFails, Step, End, opVars, lockVars
<1>7. CASE UNCHANGED vars
  BY <1>7 DEF vars, opVars, lockVars
<1>. QED
  BY <1>1, <1>2, <1>3, <1>4, <1>5, <1>6, <1>7
     DEF Next, Advance, Prepared, ReleaseLock, opVars

\* Every step keeps the lock's holder first in its line.
LEMMA NextLead ==
  ASSUME IInv, [Next]_vars
  PROVE  HoldersLead'
<1>. USE DEF IInv, TypeOK, HoldersLead, Holding
<1>0. /\ pc \in [Ops -> Pcs] /\ outcome \in [Ops -> Answers]
      /\ HoldersLead
  OBVIOUS
<1>1. ASSUME NEW o \in Ops, NEW signal \in BOOLEAN, NEW wait \in BOOLEAN, Call(o, signal, wait)
      PROVE  HoldersLead'
  <2>1. /\ UNCHANGED <<sender, line, ahead, granted>>
        /\ \/ pc' = [pc EXCEPT ![o] = "preparing"] /\ UNCHANGED outcome
           \/ /\ pc' = [pc EXCEPT ![o] = "ended"]
              /\ outcome' = [outcome EXCEPT ![o] = Cancelled(o)]
        /\ pc[o] = "idle"
    BY <1>1 DEF Call, lockVars
  <2>. HIDE DEF IInv, TypeOK
  <2>. QED
    BY <1>0, <2>1
<1>2. ASSUME NEW o \in Ops, Abort(o)
      PROVE  HoldersLead'
  BY <1>2, AnswerTypes DEF Abort,
     opVars, cancelVars, markVars, nodeVars, lockVars
<1>3. ASSUME NEW o \in Ops, Deliver(o)
      PROVE  HoldersLead'
  BY <1>3, AnswerTypes DEF Deliver,
     opVars, cancelVars, markVars, nodeVars, lockVars
<1>4. ASSUME NEW o \in Ops, ReleaseLock(o)
      PROVE  HoldersLead'
  <2>1. /\ o \in granted /\ o \in line[sender[o]]
        /\ line' = [line EXCEPT ![sender[o]] = @ \ {o}]
        /\ ahead' = [p \in Ops |-> ahead[p] \ {o}]
        /\ granted' = granted \ {o}
        /\ outcome[o] # Pending
        /\ UNCHANGED <<pc, sender, outcome>>
    BY <1>4 DEF ReleaseLock, Lock!Release, opVars
  <2>2. \A p \in granted' : p \in line'[sender[p]] /\ ahead'[p] = {}
    BY <2>1
  <2>3. pc[o] \notin Holding
    BY <2>1
  <2>. QED
    BY <2>1, <2>2, <2>3
<1>5. ASSUME NEW o \in Ops, Checkpointed(o)
      PROVE  HoldersLead'
  BY <1>5, AnswerTypes DEF Checkpointed, End,
     opVars, cancelVars, markVars, nodeVars, lockVars
<1>6. ASSUME NEW o \in Ops, PrepareFails(o) \/ ClientFails(o)
      PROVE  HoldersLead'
  <2>1. /\ UNCHANGED <<sender, line, ahead, granted>>
        /\ pc' = [pc EXCEPT ![o] = "ended"]
        /\ outcome' = [outcome EXCEPT ![o] = Failed]
    BY <1>6 DEF PrepareFails, ClientFails, End, opVars, lockVars
  <2>. HIDE DEF IInv, TypeOK
  <2>. QED
    BY <1>0, <2>1
<1>7. ASSUME NEW o \in Ops, Prepared(o)
      PROVE  HoldersLead'
  <2>1. /\ pc[o] = "preparing" /\ pc' = [pc EXCEPT ![o] = "queued"]
        /\ line' = [line EXCEPT ![sender[o]] = @ \cup {o}]
        /\ ahead' = [ahead EXCEPT ![o] = line[sender[o]]]
        /\ \A s \in Signers : o \notin line[s]
        /\ UNCHANGED <<granted, sender, outcome>>
    BY <1>7 DEF Prepared, Goto, Lock!Request, opVars
  <2>2. ASSUME NEW p \in granted
        PROVE  p \in line'[sender[p]] /\ ahead'[p] = {}
    BY <2>1, <2>2
  <2>. QED
    BY <2>1, <2>2
<1>8. ASSUME NEW o \in Ops, RunBody(o)
      PROVE  HoldersLead'
  <2>1. /\ UNCHANGED <<sender, line, ahead>>
        /\ granted' = granted \cup {o}
        /\ o \in line[sender[o]] /\ ahead[o] = {}
        /\ \/ pc' = [pc EXCEPT ![o] = "acquiring"] /\ UNCHANGED outcome
           \/ /\ pc' = [pc EXCEPT ![o] = "ended"]
              /\ outcome' = [outcome EXCEPT ![o] = Cancelled(o)]
        /\ pc[o] = "queued"
    BY <1>8 DEF RunBody, Lock!Grant, opVars
  <2>. HIDE DEF IInv, TypeOK
  <2>. QED
    BY <1>0, <2>1
<1>9. ASSUME NEW o \in Ops, ClientReady(o) \/ RateLimited(o) \/ BackedOff(o)
      PROVE  HoldersLead'
  BY <1>9, AnswerTypes, SMTT(30) DEF ClientReady, RateLimited, BackedOff, Step, Goto,
     opVars, cancelVars, markVars, nodeVars, lockVars
<1>10. ASSUME NEW o \in Ops, MarkBroadcast(o)
      PROVE  HoldersLead'
  BY <1>10, AnswerTypes DEF MarkBroadcast, Goto,
     opVars, cancelVars, markVars, nodeVars, lockVars
<1>11. ASSUME NEW o \in Ops, AttemptFails(o)
      PROVE  HoldersLead'
  BY <1>11, AnswerTypes DEF AttemptFails, End,
     opVars, cancelVars, markVars, nodeVars, lockVars
<1>12. ASSUME NEW o \in Ops, AttemptRetried(o)
      PROVE  HoldersLead'
  BY <1>12, AnswerTypes DEF AttemptRetried,
     opVars, cancelVars, markVars, nodeVars, lockVars
<1>13. ASSUME NEW o \in Ops, Send(o)
      PROVE  HoldersLead'
  BY <1>13, AnswerTypes DEF Send, Goto,
     opVars, cancelVars, markVars, nodeVars, lockVars
<1>14. ASSUME NEW o \in Ops, AcceptanceSeen(o)
      PROVE  HoldersLead'
  <2>1. /\ pc[o] = "submitting"
        /\ UNCHANGED <<sender, line, ahead, granted>>
    BY <1>14 DEF AcceptanceSeen, End, opVars, lockVars
  <2>2. \/ pc' = [pc EXCEPT ![o] = "polling"] /\ UNCHANGED outcome
        \/ /\ pc' = [pc EXCEPT ![o] = "ended"]
           /\ outcome' = [outcome EXCEPT ![o] = Answer("ok", "none", TRUE)]
    BY <1>14 DEF AcceptanceSeen, End
  <2>. HIDE DEF IInv, TypeOK
  <2>. QED
    BY <1>0, <2>1, <2>2
<1>15. ASSUME NEW o \in Ops, SubmissionFails(o)
      PROVE  HoldersLead'
  BY <1>15, AnswerTypes DEF SubmissionFails, End,
     opVars, cancelVars, markVars, nodeVars, lockVars
<1>16. ASSUME NEW o \in Ops, Included(o)
      PROVE  HoldersLead'
  BY <1>16, AnswerTypes DEF Included, End,
     opVars, cancelVars, markVars, nodeVars, lockVars
<1>17. ASSUME NEW o \in Ops, PollingFails(o)
      PROVE  HoldersLead'
  BY <1>17, AnswerTypes DEF PollingFails, End,
     opVars, cancelVars, markVars, nodeVars, lockVars
<1>18. CASE UNCHANGED vars
  BY <1>18 DEF vars, opVars, cancelVars, markVars, nodeVars, lockVars
<1>. QED
  BY <1>1, <1>2, <1>3, <1>4, <1>5, <1>6, <1>7, <1>8, <1>9, <1>10, <1>11, <1>12, <1>13, <1>14, <1>15, <1>16, <1>17, <1>18
     DEF Next, Advance

LEMMA NextIInv == IInv /\ [Next]_vars => IInv'
BY NextTypeOK, NextTruth, NextPrompt, NextRanked, NextLead DEF IInv

\* IInv is an invariant of every behaviour.
THEOREM IInvInvariant == Spec => []IInv
BY InitIInv, NextIInv, PTL DEF Spec

\* Every variable of a call keeps its type.
THEOREM TypeCorrect == Spec => []TypeOK
<1>1. IInv => TypeOK
  BY DEF IInv
<1>. QED
  BY <1>1, IInvInvariant, PTL

\* A caller whose cancellation says that nothing was sent may call again: the
\* operation it gave up never reaches the node, however long it goes on.  And
\* hashes in answers are those of accepted transactions.
THEOREM SubmissionTold == Spec => []SubmissionTrue
<1>1. IInv => UnsentNeverArrives
  BY DEF IInv, UnsentMeansUnmarked, MarkedFirst, UnsentNeverArrives, TypeOK
<1>2. IInv => HashIsAccepted
  BY DEF IInv, HashesAccepted, HashIsAccepted
<1>3. IInv => SubmissionTrue
  BY <1>1, <1>2 DEF SubmissionTrue
<1>. QED
  BY <1>3, IInvInvariant, PTL

\* Whatever is retried, a call's transaction reaches the node once at most.
THEOREM SentOnce == Spec => []AtMostOneArrival
<1>1. IInv => AtMostOneArrival
  BY DEF IInv
<1>. QED
  BY <1>1, IInvInvariant, PTL

\* A caller whose signal fired has its answer.
THEOREM CancellationPrompt == Spec => []PromptCancellation
<1>1. IInv => PromptCancellation
  BY DEF IInv
<1>. QED
  BY <1>1, IInvInvariant, PTL

\* Two transactions of one sender are never signed or under way together.
THEOREM OneAtATime == Spec => []OneUnderWay
<1>1. IInv => OneUnderWay
  BY DEF IInv, TypeOK, Ranked, HoldersLead, Holding, OneUnderWay, UnderWay
<1>. QED
  BY <1>1, IInvInvariant, PTL

\* An operation that was not called has no answer, and a step that gives one
\* gives it to a caller without: an answer stands.
Unanswered == \A o \in Ops : pc[o] = "idle" => result[o] = Pending

Standing == \A o \in Ops : result[o] # Pending => result'[o] = result[o]

\* Only a call, a cancellation and a settlement answer, and each answers its
\* own caller, for the first time.
LEMMA StepStands ==
  ASSUME IInv, Unanswered, [Next]_vars
  PROVE  Standing /\ Unanswered'
<1> USE DEF Standing, Unanswered
<1>1. ASSUME NEW o \in Ops, NEW signal \in BOOLEAN, NEW wait \in BOOLEAN, Call(o, signal, wait)
      PROVE  Standing /\ Unanswered'
  <2>1. pc[o] = "idle" /\ pc \in [Ops -> Pcs] /\ result \in [Ops -> Answers]
    BY <1>1 DEF Call, IInv, TypeOK
  <2>2. \/ pc' = [pc EXCEPT ![o] = "preparing"] /\ result' = result
        \/ /\ pc' = [pc EXCEPT ![o] = "ended"]
           /\ result' = [result EXCEPT ![o] = Cancelled(o)]
    BY <1>1 DEF Call, cancelVars
  <2>. QED
    BY <2>1, <2>2
<1>2. ASSUME NEW o \in Ops, Abort(o) \/ Deliver(o)
      PROVE  Standing /\ Unanswered'
  <2>1. /\ pc[o] # "idle" /\ pc' = pc
        /\ \E a : result' = [result EXCEPT ![o] = IF @ = Pending THEN a ELSE @]
    <3>1. CASE Abort(o)
      BY <3>1 DEF Abort
    <3>2. CASE Deliver(o)
      <4>1. pc[o] = "ended"
        BY <3>2 DEF Deliver, IInv, HoldersLead
      <4>. QED
        BY <3>2, <4>1 DEF Deliver
    <3>. QED
      BY <1>2, <3>1, <3>2
  <2>. QED
    BY <2>1 DEF IInv, TypeOK
<1>3. ASSUME NEW o \in Ops, Advance(o), ~Deliver(o)
      PROVE  Standing /\ Unanswered'
  <2>1. result' = result /\ \A p \in Ops : pc'[p] = "idle" => pc[p] = "idle"
    <3> USE DEF IInv, TypeOK, cancelVars, End
    <3>1. CASE ReleaseLock(o) \/ Checkpointed(o) \/ PrepareFails(o) \/ Prepared(o) \/ RunBody(o)
      BY <3>1 DEF ReleaseLock, Checkpointed, PrepareFails, Prepared, RunBody, Goto
    <3>2. CASE ClientReady(o) \/ ClientFails(o) \/ RateLimited(o) \/ MarkBroadcast(o)
      BY <3>2 DEF ClientReady, ClientFails, RateLimited, MarkBroadcast, Step, Goto
    <3>3. CASE AttemptFails(o) \/ AttemptRetried(o) \/ BackedOff(o) \/ Send(o)
      BY <3>3 DEF AttemptFails, AttemptRetried, BackedOff, Send, Step, Goto
    <3>4. CASE AcceptanceSeen(o) \/ SubmissionFails(o) \/ Included(o) \/ PollingFails(o)
      BY <3>4 DEF AcceptanceSeen, SubmissionFails, Included, PollingFails
    <3>. QED
      BY <1>3, <3>1, <3>2, <3>3, <3>4 DEF Advance
  <2>. QED
    BY <2>1
<1>4. CASE UNCHANGED vars
  BY <1>4 DEF vars, cancelVars
<1>. QED
  BY <1>1, <1>2, <1>3, <1>4 DEF Next, Advance

\* What a caller was told is never taken back by the operation that goes on in
\* the background.
THEOREM AnswersFinal == Spec => AnswersStand
<1>1. Init => Unanswered
  BY DEF Init, Unanswered
<1>2. IInv /\ Unanswered /\ [Next]_vars => Unanswered'
  BY StepStands
<1>3. IInv /\ Unanswered /\ [Next]_vars
        => [\A o \in Ops : result[o] # Pending => result'[o] = result[o]]_vars
  BY StepStands DEF Standing
<1>. QED
  BY <1>1, <1>2, <1>3, IInvInvariant, PTL DEF Spec, AnswersStand

-----------------------------------------------------------------------------
(* A call is TxOutcome to its caller.                                      *)

\* What the node accepted had arrived.
Reached == \A o \in Ops : accepted[o] => arrived[o] > 0

\* How an operation settled is so, whether its caller is still there or not.
Settlements ==
  \A o \in Ops : /\ outcome[o].claim = "sent" => sent[o]
                 /\ outcome[o].kind = "ok" => accepted[o]

\* Only a cancellation answers before the operation has settled.
Answered == \A o \in Ops : result[o] # Pending => aborted[o] \/ outcome[o] # Pending

OInv == Reached /\ Settlements /\ Answered /\ Unanswered

LEMMA InitOInv == Init => OInv
BY DEF Init, OInv, Reached, Settlements, Answered, Unanswered, Pending, Answer

\* The steps that move neither the transaction nor an answer: what settles the
\* operation, if anything, is honest.
Quiet(o) ==
  \/ ReleaseLock(o) \/ Checkpointed(o) \/ PrepareFails(o) \/ Prepared(o) \/ RunBody(o)
  \/ ClientReady(o) \/ ClientFails(o) \/ RateLimited(o)
  \/ AttemptFails(o) \/ AttemptRetried(o) \/ BackedOff(o)
  \/ AcceptanceSeen(o) \/ SubmissionFails(o) \/ Included(o) \/ PollingFails(o)

LEMMA QuietFrame ==
  ASSUME IInv, NEW o \in Ops, Quiet(o)
  PROVE  /\ UNCHANGED <<sent, arrived, accepted, aborted, result>>
         /\ outcome[o] = Pending \/ outcome' = outcome
         /\ \E a : /\ outcome' = outcome \/ outcome' = [outcome EXCEPT ![o] = a]
                   /\ a # Pending
                   /\ a.claim = "sent" => sent[o]
                   /\ a.kind = "ok" => accepted[o]
<1>. DEFINE Fits(a) == /\ a # Pending
                       /\ a.claim = "sent" => sent[o]
                       /\ a.kind = "ok" => accepted[o]
<1>0. /\ Fits(Cancelled(o)) /\ Fits(Failed)
      /\ sent[o] => Fits(Answer("failed", "sent", TRUE))
      /\ accepted[o] => Fits(Answer("ok", "none", TRUE))
  BY DEF Cancelled, Failed, Answer, Pending, IInv, TypeOK
<1>1. /\ pc[o] \in {"signing", "submitting", "polling"} => sent[o]
      /\ pc[o] = "polling" => accepted[o]
      /\ pc[o] # "ended" => outcome[o] = Pending
      /\ sent \in [Ops -> BOOLEAN]
  BY DEF IInv, TypeOK, MarkedFirst, HashesAccepted, HoldersLead
<1>2. CASE ReleaseLock(o) \/ Prepared(o) \/ ClientReady(o) \/ RateLimited(o)
           \/ AttemptRetried(o) \/ BackedOff(o)
  BY <1>0, <1>2 DEF ReleaseLock, Prepared, ClientReady, RateLimited, AttemptRetried,
     BackedOff, Step, cancelVars, markVars, nodeVars
<1>3. CASE Checkpointed(o) \/ PrepareFails(o) \/ ClientFails(o) \/ AttemptFails(o)
           \/ SubmissionFails(o)
  BY <1>0, <1>1, <1>3 DEF Checkpointed, PrepareFails, ClientFails, AttemptFails,
     SubmissionFails, End, cancelVars, markVars, nodeVars
<1>4. CASE RunBody(o)
  BY <1>0, <1>1, <1>4 DEF RunBody, cancelVars, markVars, nodeVars
<1>5. CASE AcceptanceSeen(o)
  BY <1>0, <1>1, <1>5 DEF AcceptanceSeen, End, cancelVars, markVars, nodeVars
<1>6. CASE Included(o) \/ PollingFails(o)
  BY <1>0, <1>1, <1>6 DEF Included, PollingFails, End, cancelVars, markVars, nodeVars
<1>. QED
  BY <1>2, <1>3, <1>4, <1>5, <1>6 DEF Quiet

\* A call or a cancellation answers with what is known at that moment, which
\* is the truth about the transaction.
LEMMA CancelledHonest ==
  ASSUME IInv, OInv, NEW o \in Ops
  PROVE  /\ Cancelled(o) \in Answers /\ Cancelled(o) # Pending
         /\ Contract!Honest(Cancelled(o), Fate(o))
<1>1. /\ sent[o] => Fate(o) # "unsent"
      /\ ~sent[o] => Fate(o) = "unsent"
      /\ hash[o] => Fate(o) = "accepted"
  BY DEF Fate, OInv, Reached, IInv, TypeOK, MarkedFirst, HashesAccepted
<1>. QED
  BY <1>1, AnswerTypes DEF Contract!Honest, Cancelled, Answer, IInv

\* So is what the operation settled with.
LEMMA OutcomeHonest ==
  ASSUME IInv, OInv, NEW o \in Ops, outcome[o] # Pending, result[o] = Pending
  PROVE  Contract!Honest(outcome[o], Fate(o))
<1>1. outcome[o].claim = "unsent" => Fate(o) = "unsent"
  BY DEF Fate, OInv, Reached, IInv, TypeOK, MarkedFirst, UnsentMeansUnmarked
<1>2. outcome[o].claim = "sent" => Fate(o) # "unsent"
  BY DEF Fate, OInv, Settlements
<1>3. outcome[o].hash \/ outcome[o].kind = "ok" => Fate(o) = "accepted"
  BY DEF Fate, OInv, Settlements, IInv, HashesAccepted
<1>. QED
  BY <1>1, <1>2, <1>3 DEF Contract!Honest

\* Every step keeps OInv: answers come from cancellations and settlements.
LEMMA NextOInv ==
  ASSUME IInv, OInv, [Next]_vars
  PROVE  OInv'
<1>0. Unanswered'
  BY StepStands DEF OInv
<1>. USE DEF OInv, Reached, Settlements, Answered, IInv, TypeOK
<1>1. ASSUME NEW o \in Ops, NEW signal \in BOOLEAN, NEW wait \in BOOLEAN, Call(o, signal, wait)
      PROVE  Reached' /\ Settlements' /\ Answered'
  <2>1. UNCHANGED <<sent, arrived, accepted>>
    BY <1>1 DEF Call, markVars, nodeVars
  <2>2. \/ UNCHANGED <<outcome, result, aborted>>
        \/ /\ outcome' = [outcome EXCEPT ![o] = Cancelled(o)]
           /\ aborted' = [aborted EXCEPT ![o] = TRUE]
           /\ result' = [result EXCEPT ![o] = Cancelled(o)]
    BY <1>1 DEF Call, cancelVars
  <2>3. Cancelled(o).kind # "ok" /\ (Cancelled(o).claim = "sent" => sent[o])
    BY DEF Cancelled, Answer
  <2>. QED
    BY <2>1, <2>2, <2>3
<1>2. ASSUME NEW o \in Ops, Abort(o)
      PROVE  Reached' /\ Settlements' /\ Answered'
  BY <1>2 DEF Abort, markVars, nodeVars
<1>3. ASSUME NEW o \in Ops, Deliver(o)
      PROVE  Reached' /\ Settlements' /\ Answered'
  BY <1>3 DEF Deliver, markVars, nodeVars
<1>4. ASSUME NEW o \in Ops, Quiet(o)
      PROVE  Reached' /\ Settlements' /\ Answered'
  BY <1>4, QuietFrame
<1>5. ASSUME NEW o \in Ops, MarkBroadcast(o)
      PROVE  Reached' /\ Settlements' /\ Answered'
  BY <1>5 DEF MarkBroadcast, cancelVars, nodeVars
<1>6. ASSUME NEW o \in Ops, Send(o)
      PROVE  Reached' /\ Settlements' /\ Answered'
  <2>1. UNCHANGED <<sent, outcome, aborted, result>>
    BY <1>6 DEF Send, cancelVars, markVars
  <2>2. CASE UNCHANGED nodeVars
    BY <2>1, <2>2 DEF nodeVars
  <2>3. CASE /\ arrived' = [arrived EXCEPT ![o] = @ + 1]
             /\ accepted' = accepted \/ accepted' = [accepted EXCEPT ![o] = TRUE]
    <3>1. \A p \in Ops : arrived'[p] >= arrived[p] /\ arrived'[o] > 0
      BY <2>3
    <3>2. \A p \in Ops : accepted[p] => accepted'[p]
      BY <2>3, Zenon
    <3>3. \A p \in Ops : accepted'[p] => p = o \/ accepted[p]
      BY <2>3, Zenon
    <3>4. \A p \in Ops : arrived[p] \in Nat /\ arrived'[p] \in Nat
      BY <2>3
    <3>. QED
      BY <2>1, <3>1, <3>2, <3>3, <3>4
  <2>. QED
    BY <1>6, <2>2, <2>3 DEF Send
<1>7. CASE UNCHANGED vars
  <2>1. UNCHANGED <<sent, arrived, accepted, outcome, aborted, result>>
    BY <1>7 DEF vars, cancelVars, markVars, nodeVars
  <2>. QED
    BY <1>0, <2>1
<1>8. Reached' /\ Settlements' /\ Answered'
  BY <1>1, <1>2, <1>3, <1>4, <1>5, <1>6, <1>7 DEF Next, Advance, Quiet
<1>. QED
  BY <1>0, <1>8

\* Every step is one of TxOutcome's, or none.
LEMMA StepHonoured ==
  ASSUME IInv, OInv, [Next]_vars
  PROVE  [Contract!Next]_(Contract!outcomeVars)
<1>. DEFINE F == [p \in Ops |-> Fate(p)]
<1>0. /\ \A p \in Ops : F[p] = Fate(p)
      /\ UNCHANGED <<sent, arrived, accepted>> => F' = F
  BY DEF Fate
<1>1. ASSUME NEW o \in Ops, NEW a \in Answers, UNCHANGED <<sent, arrived, accepted>>,
             result[o] = Pending, a # Pending, Contract!Honest(a, Fate(o)),
             result' = [result EXCEPT ![o] = a]
      PROVE  Contract!Next
  <2>1. Contract!Tell(o, a)
    BY <1>0, <1>1 DEF Contract!Tell
  <2>. QED
    BY <2>1 DEF Contract!Next
<1>2. ASSUME UNCHANGED <<sent, arrived, accepted, result>>
      PROVE  UNCHANGED Contract!outcomeVars
  BY <1>0, <1>2 DEF Contract!outcomeVars
<1>3. ASSUME NEW o \in Ops, NEW signal \in BOOLEAN, NEW wait \in BOOLEAN, Call(o, signal, wait)
      PROVE  [Contract!Next]_(Contract!outcomeVars)
  <2>1. UNCHANGED <<sent, arrived, accepted>> /\ result[o] = Pending
    BY <1>3 DEF Call, markVars, nodeVars, OInv, Unanswered
  <2>2. UNCHANGED result \/ result' = [result EXCEPT ![o] = Cancelled(o)]
    BY <1>3 DEF Call, cancelVars
  <2>. QED
    BY <1>1, <1>2, <2>1, <2>2, CancelledHonest
<1>4. ASSUME NEW o \in Ops, Abort(o)
      PROVE  [Contract!Next]_(Contract!outcomeVars)
  <2>1. UNCHANGED <<sent, arrived, accepted>>
    BY <1>4 DEF Abort, markVars, nodeVars
  <2>2. \/ UNCHANGED result
        \/ result[o] = Pending /\ result' = [result EXCEPT ![o] = Cancelled(o)]
    BY <1>4 DEF Abort, IInv, TypeOK
  <2>. QED
    BY <1>1, <1>2, <2>1, <2>2, CancelledHonest
<1>5. ASSUME NEW o \in Ops, Deliver(o)
      PROVE  [Contract!Next]_(Contract!outcomeVars)
  <2>1. UNCHANGED <<sent, arrived, accepted>> /\ outcome[o] \in Answers
    BY <1>5 DEF Deliver, markVars, nodeVars, IInv, TypeOK
  <2>. QED
    BY <1>1, <1>5, <2>1, OutcomeHonest DEF Deliver
<1>6. ASSUME NEW o \in Ops, Quiet(o)
      PROVE  [Contract!Next]_(Contract!outcomeVars)
  BY <1>2, <1>6, QuietFrame
<1>7. ASSUME NEW o \in Ops, MarkBroadcast(o)
      PROVE  [Contract!Next]_(Contract!outcomeVars)
  <2>1. /\ UNCHANGED <<arrived, accepted, result>>
        /\ sent' = [sent EXCEPT ![o] = TRUE]
        /\ pc[o] = "simulating" /\ ~aborted[o]
    BY <1>7 DEF MarkBroadcast, Goto, cancelVars, nodeVars
  <2>2. CASE sent[o]
    <3>1. sent' = sent
      BY <2>1, <2>2 DEF IInv, TypeOK
    <3>. QED
      BY <1>2, <2>1, <3>1
  <2>3. CASE ~sent[o]
    <3>1. result[o] = Pending
      BY <2>1 DEF OInv, Answered, IInv, HoldersLead
    <3>2. Fate(o) = "unsent" /\ Fate(o)' = "committed"
      BY <2>1, <2>3 DEF Fate, IInv, TypeOK, MarkedFirst, OInv, Reached
    <3>3. \A p \in Ops : p # o => Fate(p)' = Fate(p)
      BY <2>1 DEF Fate, IInv, TypeOK
    <3>4. F' = [F EXCEPT ![o] = "committed"]
      BY <3>2, <3>3
    <3>5. Contract!Commit(o)
      BY <1>0, <2>1, <3>1, <3>2, <3>4 DEF Contract!Commit
    <3>. QED
      BY <3>5 DEF Contract!Next
  <2>. QED
    BY <2>2, <2>3
<1>8. ASSUME NEW o \in Ops, Send(o)
      PROVE  [Contract!Next]_(Contract!outcomeVars)
  <2>1. UNCHANGED <<sent, result>> /\ pc[o] = "signing"
    BY <1>8 DEF Send, Goto, cancelVars, markVars
  <2>2. CASE UNCHANGED nodeVars
    BY <1>2, <2>1, <2>2 DEF nodeVars
  <2>3. CASE /\ arrived' = [arrived EXCEPT ![o] = @ + 1]
             /\ accepted' = accepted \/ accepted' = [accepted EXCEPT ![o] = TRUE]
    <3>1. Fate(o) = "committed"
      BY <2>1 DEF Fate, IInv, TypeOK, MarkedFirst, OInv, Reached
    <3>2. arrived'[o] > 0 /\ \A p \in Ops : p # o => arrived'[p] = arrived[p]
      BY <2>3 DEF IInv, TypeOK
    <3>3. \A p \in Ops : p # o => accepted'[p] = accepted[p]
      BY <2>3, Zenon DEF IInv, TypeOK
    <3>4. Fate(o)' \in {"refused", "accepted"}
      BY <3>2 DEF Fate
    <3>5. \A p \in Ops : p # o => Fate(p)' = Fate(p)
      BY <2>1, <3>2, <3>3 DEF Fate
    <3>6. F' = [F EXCEPT ![o] = Fate(o)']
      BY <3>5
    <3>7. Contract!Arrive(o)
      BY <1>0, <2>1, <3>1, <3>4, <3>6 DEF Contract!Arrive
    <3>. QED
      BY <3>7 DEF Contract!Next
  <2>. QED
    BY <1>8, <2>2, <2>3 DEF Send
<1>9. CASE UNCHANGED vars
  BY <1>2, <1>9 DEF vars, cancelVars, markVars, nodeVars
<1>. QED
  BY <1>3, <1>4, <1>5, <1>6, <1>7, <1>8, <1>9 DEF Next, Advance, Quiet

\* What withTxExecution promises its callers is kept, whatever is retried,
\* cancelled or lost, for any number of calls.
THEOREM OutcomeImplemented == Spec => ImplementsTxOutcome
<1>1. Init => Contract!Init
  BY DEF Init, Contract!Init, Fate
<1>2. IInv /\ OInv /\ [Next]_vars => OInv'
  BY NextOInv
<1>3. IInv /\ OInv /\ [Next]_vars => [Contract!Next]_(Contract!outcomeVars)
  BY StepHonoured
<1>. QED
  BY <1>1, <1>2, <1>3, InitOInv, IInvInvariant, PTL DEF Spec, ImplementsTxOutcome, Contract!Spec

\* Answers given under that promise stay true: each was true when it was given,
\* and after "unsent" nothing leaves while after acceptance nothing is undone.
THEOREM OutcomeTold == Contract!Spec => []Contract!TellsTruth
<1>. DEFINE F == [o \in Ops |-> Fate(o)]
            Total == DOMAIN result = Ops
<1>1. Contract!Init => Contract!TellsTruth /\ Total
  BY DEF Contract!Init, Contract!TellsTruth, Contract!Honest, Contract!Fates, Pending, Answer
<1>2. ASSUME Contract!TellsTruth, Total, [Contract!Next]_(Contract!outcomeVars)
      PROVE  Contract!TellsTruth' /\ Total'
  <2>. DEFINE True(a, f) == f \in Contract!Fates /\ Contract!Honest(a, f)
  <2>0. \A o \in Ops : F[o] = Fate(o) /\ F'[o] = Fate(o)' /\ True(result[o], Fate(o))
    BY <1>2 DEF Contract!TellsTruth
  <2>1. ASSUME NEW o \in Ops, Contract!Commit(o)
        PROVE  True(result'[o], Fate(o)')
    <3>1. result[o] = Pending /\ result' = result /\ Fate(o)' = "committed"
      BY <2>0, <2>1 DEF Contract!Commit
    <3>. QED
      BY <3>1 DEF Contract!Honest, Contract!Fates, Pending, Answer
  <2>2. ASSUME NEW o \in Ops, Contract!Arrive(o)
        PROVE  True(result'[o], Fate(o)')
    <3>1. /\ Fate(o) = "committed" /\ result' = result
          /\ Fate(o)' \in {"refused", "accepted"}
      BY <2>0, <2>2 DEF Contract!Arrive
    <3>. QED
      BY <2>0, <3>1 DEF Contract!Honest, Contract!Fates
  <2>3. ASSUME NEW o \in Ops, NEW a \in Answers, Contract!Tell(o, a)
        PROVE  True(result'[o], Fate(o)')
    <3>1. result'[o] = a /\ Fate(o)' = Fate(o) /\ Contract!Honest(a, Fate(o))
      BY <1>2, <2>0, <2>3 DEF Contract!Tell
    <3>. QED
      BY <2>0, <3>1
  <2>4. ASSUME NEW o \in Ops, NEW p \in Ops, p # o,
               \/ Contract!Commit(o) \/ Contract!Arrive(o) \/ \E a \in Answers : Contract!Tell(o, a)
        PROVE  result'[p] = result[p] /\ Fate(p)' = Fate(p)
    BY <1>2, <2>0, <2>4 DEF Contract!Commit, Contract!Arrive, Contract!Tell
  <2>5. CASE UNCHANGED Contract!outcomeVars
    BY <1>2, <2>0, <2>5 DEF Contract!outcomeVars, Contract!TellsTruth
  <2>6. CASE Contract!Next
    <3>1. PICK o \in Ops : \/ Contract!Commit(o) \/ Contract!Arrive(o)
                           \/ \E a \in Answers : Contract!Tell(o, a)
      BY <2>6 DEF Contract!Next
    <3>2. True(result'[o], Fate(o)')
      BY <2>1, <2>2, <2>3, <3>1
    <3>3. \A p \in Ops : True(result'[p], Fate(p)')
      BY <2>0, <2>4, <3>1, <3>2
    <3>4. Total'
      BY <1>2, <3>1 DEF Contract!Commit, Contract!Arrive, Contract!Tell
    <3>. QED
      BY <2>0, <3>3, <3>4 DEF Contract!TellsTruth
  <2>. QED
    BY <1>2, <2>5, <2>6
<1>. QED
  BY <1>1, <1>2, PTL DEF Contract!Spec

-----------------------------------------------------------------------------
(* The lock.                                                               *)

\* Everybody in line is in one line and has a place there, and whoever runs goes
\* first.
Lined ==
  /\ line \in [Signers -> SUBSET Ops]
  /\ ahead \in [Ops -> SUBSET Ops]
  /\ \A l, k \in Signers : \A t \in line[l] : t \in line[k] => k = l
  /\ \A l \in Signers : \A t, u \in line[l] : t = u \/ t \in ahead[u] \/ u \in ahead[t]
  /\ \A t \in granted : ahead[t] = {} /\ \E l \in Signers : t \in line[l]

\* A step of the lock keeps the places: newcomers come last, and only those who
\* leave are let go first no longer.
LEMMA LockStepLined ==
  ASSUME Lined, [Lock!Next]_(Lock!mutexVars)
  PROVE  Lined'
<1>. USE DEF Lined
<1>1. ASSUME NEW t \in Ops, NEW l \in Signers, Lock!Request(t, l)
      PROVE  Lined'
  <2>1. /\ line' = [line EXCEPT ![l] = @ \cup {t}]
        /\ ahead' = [ahead EXCEPT ![t] = line[l]]
        /\ \A k \in Signers : t \notin line[k]
        /\ granted' = granted
    BY <1>1 DEF Lock!Request
  <2>2. ASSUME NEW k \in Signers, NEW u \in line'[k], NEW v \in line'[k]
        PROVE  u = v \/ u \in ahead'[v] \/ v \in ahead'[u]
    BY <2>1
  <2>3. line' \in [Signers -> SUBSET Ops] /\ ahead' \in [Ops -> SUBSET Ops]
    BY <2>1
  <2>4. \A u \in granted' : ahead'[u] = {} /\ \E k \in Signers : u \in line'[k]
    <3>1. ASSUME NEW u \in granted
          PROVE  ahead'[u] = {} /\ \E k \in Signers : u \in line'[k]
      <4>1. PICK k \in Signers : u \in line[k]
        OBVIOUS
      <4>2. u # t /\ u \in line'[k]
        BY <2>1, <4>1
      <4>. QED
        BY <2>1, <4>1, <4>2
    <3>. QED
      BY <2>1, <3>1
  <2>5. \A j, k \in Signers : \A u \in line'[j] : u \in line'[k] => k = j
    BY <2>1
  <2>. QED
    BY <2>2, <2>3, <2>4, <2>5
<1>2. ASSUME NEW t \in Ops, NEW l \in Signers, Lock!Grant(t, l)
      PROVE  Lined'
  BY <1>2 DEF Lock!Grant
<1>3. ASSUME NEW t \in Ops, NEW l \in Signers, Lock!Release(t, l)
      PROVE  Lined'
  <2>1. /\ line' = [line EXCEPT ![l] = @ \ {t}]
        /\ ahead' = [u \in Ops |-> ahead[u] \ {t}]
        /\ granted' = granted \ {t}
    BY <1>3 DEF Lock!Release
  <2>2. line' \in [Signers -> SUBSET Ops] /\ ahead' \in [Ops -> SUBSET Ops]
    BY <2>1
  <2>3. ASSUME NEW k \in Signers, NEW u \in line'[k], NEW v \in line'[k]
        PROVE  u = v \/ u \in ahead'[v] \/ v \in ahead'[u]
    <3>1. u \in line[k] /\ v \in line[k]
      BY <2>1
    <3>2. u # t /\ v # t
      BY <1>3, <2>1, <3>1 DEF Lock!Release
    <3>. QED
      BY <2>1, <3>1, <3>2
  <2>4. ASSUME NEW u \in granted'
        PROVE  ahead'[u] = {} /\ \E k \in Signers : u \in line'[k]
    BY <2>1
  <2>5. \A j, k \in Signers : \A u \in line'[j] : u \in line'[k] => k = j
    BY <2>1
  <2>. QED
    BY <2>2, <2>3, <2>4, <2>5
<1>4. CASE UNCHANGED Lock!mutexVars
  BY <1>4 DEF Lock!mutexVars
<1>. QED
  BY <1>1, <1>2, <1>3, <1>4 DEF Lock!Next

\* The lock excludes: of those in a line one at most runs, and everybody else in
\* that line lets it go first.
THEOREM LockExcludes == Lock!Spec => []Lock!Exclusive
<1>1. Lock!Init => Lined
  BY DEF Lock!Init, Lined
<1>2. Lined /\ [Lock!Next]_(Lock!mutexVars) => Lined'
  BY LockStepLined
<1>3. Lined => Lock!Exclusive
  BY DEF Lined, Lock!Exclusive
<1>. QED
  BY <1>1, <1>2, <1>3, PTL DEF Lock!Spec

\* Lines are finite, and those whom one lets go first are in its line and let go
\* first nobody whom it does not.
Nested ==
  /\ \A l \in Signers : IsFiniteSet(line[l])
  /\ \A l \in Signers : \A t \in line[l] :
       /\ ahead[t] \subseteq line[l]
       /\ t \notin ahead[t]
       /\ \A u \in ahead[t] : ahead[u] \subseteq ahead[t]

LEMMA LockStepNested ==
  ASSUME Lined, Nested, [Lock!Next]_(Lock!mutexVars)
  PROVE  Nested'
<1>. USE DEF Lined, Nested
<1>1. ASSUME NEW t \in Ops, NEW l \in Signers, Lock!Request(t, l)
      PROVE  Nested'
  <2>1. /\ line' = [line EXCEPT ![l] = @ \cup {t}]
        /\ ahead' = [ahead EXCEPT ![t] = line[l]]
        /\ \A k \in Signers : t \notin line[k]
    BY <1>1 DEF Lock!Request
  <2>2. IsFiniteSet(line[l] \cup {t})
    BY FS_AddElement
  <2>3. \A k \in Signers : IsFiniteSet(line'[k])
    BY <2>1, <2>2
  <2>4. ASSUME NEW k \in Signers, NEW u \in line'[k]
        PROVE  /\ ahead'[u] \subseteq line'[k]
               /\ u \notin ahead'[u]
               /\ \A v \in ahead'[u] : ahead'[v] \subseteq ahead'[u]
    <3>1. CASE u = t
      <4>1. k = l /\ ahead'[u] = line[l] /\ line'[l] = line[l] \cup {t}
        BY <2>1, <3>1
      <4>2. \A v \in line[l] : ahead'[v] = ahead[v]
        BY <2>1
      <4>. QED
        BY <2>1, <3>1, <4>1, <4>2
    <3>2. CASE u # t
      <4>1. u \in line[k] /\ ahead'[u] = ahead[u] /\ line[k] \subseteq line'[k]
        BY <2>1, <3>2
      <4>2. \A v \in ahead[u] : ahead'[v] = ahead[v]
        BY <2>1, <4>1
      <4>. QED
        BY <4>1, <4>2
    <3>. QED
      BY <3>1, <3>2
  <2>. QED
    BY <2>3, <2>4
<1>2. ASSUME NEW t \in Ops, NEW l \in Signers, Lock!Grant(t, l)
      PROVE  Nested'
  BY <1>2 DEF Lock!Grant
<1>3. ASSUME NEW t \in Ops, NEW l \in Signers, Lock!Release(t, l)
      PROVE  Nested'
  <2>1. /\ line' = [line EXCEPT ![l] = @ \ {t}]
        /\ ahead' = [u \in Ops |-> ahead[u] \ {t}]
        /\ t \in line[l]
    BY <1>3 DEF Lock!Release
  <2>2. \A k \in Signers : line'[k] = line[k] \ {t}
    BY <2>1
  <2>3. \A k \in Signers : IsFiniteSet(line'[k])
    BY <2>1, <2>2, FS_RemoveElement
  <2>4. ASSUME NEW k \in Signers, NEW u \in line'[k]
        PROVE  /\ ahead'[u] \subseteq line'[k]
               /\ u \notin ahead'[u]
               /\ \A v \in ahead'[u] : ahead'[v] \subseteq ahead'[u]
    BY <2>1, <2>2
  <2>. QED
    BY <2>3, <2>4
<1>4. CASE UNCHANGED Lock!mutexVars
  BY <1>4 DEF Lock!mutexVars
<1>. QED
  BY <1>1, <1>2, <1>3, <1>4 DEF Lock!Next

\* Of the sets that those in a line let go first one contains no other, and whose
\* it is lets nobody go first.
LEMMA FirstOfLine ==
  ASSUME Lined, Nested
  PROVE  Lock!Moving
<1>. SUFFICES ASSUME NEW l \in Signers, line[l] # {}
              PROVE  \E t \in line[l] : ahead[t] = {}
  BY DEF Lock!Moving
<1>. DEFINE R == StrictSubsetOrdering(Ops)
            A == {ahead[t] : t \in line[l]}
<1>1. IsWellFoundedOn(R, FiniteSubsetsOf(Ops))
  BY FS_StrictSubsetOrderingWellFounded
<1>2. A # {} /\ A \subseteq FiniteSubsetsOf(Ops)
  <2>1. \A t \in line[l] : ahead[t] \subseteq line[l] /\ line[l] \subseteq Ops
    BY DEF Lined, Nested
  <2>2. \A t \in line[l] : IsFiniteSet(ahead[t])
    BY <2>1, FS_Subset DEF Nested
  <2>3. \A t \in line[l] : ahead[t] \in FiniteSubsetsOf(Ops)
    BY <2>1, <2>2 DEF FiniteSubsetsOf
  <2>. QED
    BY <2>3
<1>3. \E X \in A : \A Y \in A : <<Y, X>> \notin R
  <2>. HIDE DEF R, A
  <2>. QED
    BY <1>1, <1>2, WFMin
<1>4. PICK t \in line[l] : \A u \in line[l] : <<ahead[u], ahead[t]>> \notin R
  BY <1>3
<1>5. ASSUME NEW u \in ahead[t] PROVE FALSE
  <2>1. u \in line[l] /\ ahead[u] \subseteq ahead[t] /\ u \notin ahead[u] /\ t \in Ops
    BY DEF Lined, Nested
  <2>2. <<ahead[u], ahead[t]>> \in R
    BY <2>1 DEF StrictSubsetOrdering, Lined
  <2>. QED
    BY <1>4, <2>1, <2>2
<1>. QED
  BY <1>4, <1>5

\* The lock is live as far as safety says: a line never waits for itself.
THEOREM LockMoves == Lock!Spec => []Lock!Moving
<1>1. Lock!Init => Lined /\ Nested
  BY FS_EmptySet DEF Lock!Init, Lined, Nested
<1>2. Lined /\ Nested /\ [Lock!Next]_(Lock!mutexVars) => Lined' /\ Nested'
  BY LockStepLined, LockStepNested
<1>3. Lined /\ Nested => Lock!Moving
  BY FirstOfLine
<1>. QED
  BY <1>1, <1>2, <1>3, PTL DEF Lock!Spec

\* Every step of a call asks for the lock, is granted it, gives it up, or leaves
\* it alone.
LEMMA StepUsesLock ==
  ASSUME IInv, [Next]_vars
  PROVE  [Lock!Next]_(Lock!mutexVars)
<1>0. sender \in [Ops -> Signers]
  BY DEF IInv, TypeOK
<1>1. ASSUME NEW o \in Ops, Prepared(o) \/ RunBody(o) \/ ReleaseLock(o)
      PROVE  Lock!Next
  BY <1>0, <1>1 DEF Prepared, RunBody, ReleaseLock, Lock!Next
<1>2. ASSUME NEW o \in Ops, NEW signal \in BOOLEAN, NEW wait \in BOOLEAN, Call(o, signal, wait)
      PROVE  UNCHANGED Lock!mutexVars
  BY <1>2 DEF Call, lockVars, Lock!mutexVars
<1>3. ASSUME NEW o \in Ops, Abort(o) \/ Deliver(o) \/ MarkBroadcast(o) \/ Send(o)
      PROVE  UNCHANGED Lock!mutexVars
  BY <1>3 DEF Abort, Deliver, MarkBroadcast, Send, lockVars, Lock!mutexVars
<1>4. ASSUME NEW o \in Ops,
             \/ Checkpointed(o) \/ PrepareFails(o) \/ ClientReady(o) \/ ClientFails(o)
             \/ RateLimited(o) \/ AttemptFails(o) \/ AttemptRetried(o) \/ BackedOff(o)
             \/ AcceptanceSeen(o) \/ SubmissionFails(o) \/ Included(o) \/ PollingFails(o)
      PROVE  UNCHANGED Lock!mutexVars
  BY <1>4 DEF Checkpointed, PrepareFails, ClientReady, ClientFails, RateLimited, AttemptFails,
     AttemptRetried, BackedOff, AcceptanceSeen, SubmissionFails, Included, PollingFails, Step,
     End, lockVars, Lock!mutexVars
<1>5. CASE UNCHANGED vars
  BY <1>5 DEF vars, lockVars, Lock!mutexVars
<1>. QED
  BY <1>1, <1>2, <1>3, <1>4, <1>5 DEF Next, Advance

\* Calls use the lock as SignerMutex has it, which ClientManager implements.
THEOREM LockUsed == Spec => Lock!Spec
<1>1. Init => Lock!Init
  BY DEF Init
<1>2. IInv /\ [Next]_vars => [Lock!Next]_(Lock!mutexVars)
  BY StepUsesLock
<1>. QED
  BY <1>1, <1>2, IInvInvariant, PTL DEF Spec, Lock!Spec

\* A call is in its sender's line from when it is queued until it has settled and
\* given the lock up.
InLine ==
  /\ \A o \in Ops : pc[o] = "queued" => o \in line[sender[o]] /\ o \notin granted
  /\ \A o \in Ops : o \in line[sender[o]] => pc[o] = "queued" \/ o \in granted
  /\ \A o \in granted : pc[o] \in Holding \/ outcome[o] # Pending

LEMMA NextInLine ==
  ASSUME IInv, InLine, [Next]_vars
  PROVE  InLine'
<1>. USE DEF InLine, Holding
<1>0. /\ pc \in [Ops -> Pcs] /\ outcome \in [Ops -> Answers] /\ sender \in [Ops -> Signers]
      /\ line \in [Signers -> SUBSET Ops] /\ granted \subseteq Ops
      /\ \A o \in Ops : outcome[o] # Pending => pc[o] = "ended"
  BY DEF IInv, TypeOK, HoldersLead
<1>1. ASSUME NEW o \in Ops, pc[o] # "queued", UNCHANGED <<sender, line, granted>>,
             \/ pc' = [pc EXCEPT ![o] = "preparing"] /\ pc[o] = "idle" /\ UNCHANGED outcome
             \/ \E a \in Answers \ {Pending} : /\ pc' = [pc EXCEPT ![o] = "ended"]
                                               /\ outcome' = [outcome EXCEPT ![o] = a]
             \/ \E h \in Holding : /\ pc[o] \in Holding
                                   /\ pc' = [pc EXCEPT ![o] = h]
                                   /\ UNCHANGED outcome
      PROVE  InLine'
  <2>1. CASE pc' = [pc EXCEPT ![o] = "preparing"] /\ pc[o] = "idle" /\ UNCHANGED outcome
    BY <1>0, <1>1, <2>1
  <2>2. ASSUME NEW a \in Answers \ {Pending}, pc' = [pc EXCEPT ![o] = "ended"],
               outcome' = [outcome EXCEPT ![o] = a]
        PROVE  InLine'
    BY <1>0, <1>1, <2>2
  <2>3. ASSUME NEW h \in Holding, pc[o] \in Holding, pc' = [pc EXCEPT ![o] = h], UNCHANGED outcome
        PROVE  InLine'
    BY <1>0, <1>1, <2>3
  <2>. QED
    BY <1>1, <2>1, <2>2, <2>3
<1>2. CASE UNCHANGED <<pc, outcome, sender, line, granted>>
  BY <1>2
<1>3. ASSUME NEW o \in Ops, NEW signal \in BOOLEAN, NEW wait \in BOOLEAN, Call(o, signal, wait)
      PROVE  InLine'
  <2>1. /\ pc[o] = "idle" /\ UNCHANGED <<sender, line, granted>>
        /\ \/ pc' = [pc EXCEPT ![o] = "preparing"] /\ UNCHANGED outcome
           \/ /\ pc' = [pc EXCEPT ![o] = "ended"]
              /\ outcome' = [outcome EXCEPT ![o] = Cancelled(o)]
    BY <1>3 DEF Call, lockVars
  <2>2. Cancelled(o) \in Answers \ {Pending}
    BY AnswerTypes DEF IInv
  <2>. QED
    BY <1>1, <2>1, <2>2
<1>4. ASSUME NEW o \in Ops, Abort(o) \/ Deliver(o)
      PROVE  InLine'
  BY <1>2, <1>4 DEF Abort, Deliver, opVars, lockVars
<1>5. ASSUME NEW o \in Ops, ReleaseLock(o)
      PROVE  InLine'
  <2>1. /\ line' = [line EXCEPT ![sender[o]] = @ \ {o}]
        /\ granted' = granted \ {o} /\ outcome[o] # Pending
        /\ UNCHANGED <<pc, outcome, sender>>
    BY <1>5 DEF ReleaseLock, Lock!Release, opVars
  <2>2. pc[o] = "ended" /\ \A p \in Ops : p # o => (p \in line'[sender[p]] <=> p \in line[sender[p]])
    BY <1>0, <2>1
  <2>. QED
    BY <1>0, <2>1, <2>2
<1>6. ASSUME NEW o \in Ops, Prepared(o)
      PROVE  InLine'
  <2>1. /\ pc[o] = "preparing" /\ pc' = [pc EXCEPT ![o] = "queued"]
        /\ line' = [line EXCEPT ![sender[o]] = @ \cup {o}]
        /\ UNCHANGED <<granted, outcome, sender>>
    BY <1>6 DEF Prepared, Goto, Lock!Request, opVars
  <2>2. /\ o \in line'[sender[o]] /\ o \notin granted
        /\ \A p \in Ops : p # o => (p \in line'[sender[p]] <=> p \in line[sender[p]])
    BY <1>0, <2>1
  <2>. QED
    BY <1>0, <2>1, <2>2
<1>7. ASSUME NEW o \in Ops, RunBody(o)
      PROVE  InLine'
  <2>1. /\ pc[o] = "queued" /\ granted' = granted \cup {o} /\ UNCHANGED <<line, sender>>
        /\ \/ pc' = [pc EXCEPT ![o] = "acquiring"] /\ UNCHANGED outcome
           \/ /\ pc' = [pc EXCEPT ![o] = "ended"]
              /\ outcome' = [outcome EXCEPT ![o] = Cancelled(o)]
    BY <1>7 DEF RunBody, Lock!Grant, opVars
  <2>2. Cancelled(o) # Pending
    BY AnswerTypes DEF IInv
  <2>. QED
    BY <1>0, <2>1, <2>2
<1>8. ASSUME NEW o \in Ops,
             \/ Checkpointed(o) \/ PrepareFails(o) \/ ClientFails(o) \/ AttemptFails(o)
             \/ SubmissionFails(o) \/ Included(o) \/ PollingFails(o)
      PROVE  InLine'
  <2>1. /\ Cancelled(o) \in Answers \ {Pending} /\ Failed \in Answers \ {Pending}
        /\ Answer("ok", "none", TRUE) \in Answers \ {Pending}
        /\ Answer("failed", "sent", TRUE) \in Answers \ {Pending}
    BY AnswerTypes DEF IInv, Pending, Answer
  <2>2. pc[o] # "queued" /\ \E a \in Answers \ {Pending} : End(o, a)
    BY <1>8, <2>1 DEF Checkpointed, PrepareFails, ClientFails, AttemptFails, SubmissionFails,
       Included, PollingFails
  <2>. QED
    BY <1>1, <2>2 DEF End, opVars, lockVars
<1>9. ASSUME NEW o \in Ops,
             \/ ClientReady(o) \/ RateLimited(o) \/ MarkBroadcast(o) \/ AttemptRetried(o)
             \/ BackedOff(o) \/ Send(o)
      PROVE  InLine'
  <2>1. /\ pc[o] \in Holding /\ \E h \in Holding : pc' = [pc EXCEPT ![o] = h]
        /\ UNCHANGED <<sender, line, granted, outcome>>
    BY <1>9 DEF ClientReady, RateLimited, MarkBroadcast, AttemptRetried, BackedOff, Send, Step,
       Goto, opVars, lockVars
  <2>. QED
    BY <1>1, <2>1
<1>10. ASSUME NEW o \in Ops, AcceptanceSeen(o)
       PROVE  InLine'
  <2>1. Answer("ok", "none", TRUE) \in Answers \ {Pending}
    BY AnswerTypes DEF IInv, Pending, Answer
  <2>2. /\ pc[o] = "submitting" /\ UNCHANGED <<sender, line, granted>>
        /\ \/ pc' = [pc EXCEPT ![o] = "polling"] /\ UNCHANGED outcome
           \/ /\ pc' = [pc EXCEPT ![o] = "ended"]
              /\ outcome' = [outcome EXCEPT ![o] = Answer("ok", "none", TRUE)]
    BY <1>10 DEF AcceptanceSeen, End, opVars, lockVars
  <2>. QED
    BY <1>1, <2>1, <2>2
<1>11. CASE UNCHANGED vars
  BY <1>2, <1>11 DEF vars, opVars, lockVars
<1>. QED
  BY <1>3, <1>4, <1>5, <1>6, <1>7, <1>8, <1>9, <1>10, <1>11 DEF Next, Advance

\* A call that has something to do: it runs under the lock, has to give it up, or
\* its turn has come, whether its caller is still there or not.
MayAct(o) ==
  \/ pc[o] \in Holding
  \/ outcome[o] # Pending /\ o \in granted
  \/ pc[o] = "queued" /\ ahead[o] = {}

\* Whoever waits for its sender's lock waits in a line that moves.
NobodyWedged ==
  \A o \in Ops : pc[o] = "queued" =>
    \E p \in line[sender[o]] : sender[p] = sender[o] /\ MayAct(p)

\* A cancelled, failed or abandoned call never wedges its sender's others: what
\* liveness adds is only that the awaits under the lock end.
THEOREM NoneWedged == Spec => []NobodyWedged
<1>1. Init => InLine
  BY DEF Init, Lock!Init, InLine
<1>2. IInv /\ InLine /\ Lock!Moving => NobodyWedged
  <2>. SUFFICES ASSUME IInv, InLine, Lock!Moving, NEW o \in Ops, pc[o] = "queued"
                PROVE  \E p \in line[sender[o]] : sender[p] = sender[o] /\ MayAct(p)
    BY DEF NobodyWedged
  <2>1. sender[o] \in Signers /\ line[sender[o]] # {} /\ line[sender[o]] \subseteq Ops
    BY DEF IInv, TypeOK, InLine
  <2>2. PICK p \in line[sender[o]] : ahead[p] = {}
    BY <2>1 DEF Lock!Moving
  <2>3. sender[p] = sender[o]
    BY <2>1 DEF IInv, Ranked
  <2>4. MayAct(p)
    BY <2>1, <2>2, <2>3 DEF InLine, MayAct
  <2>. QED
    BY <2>3, <2>4
<1>3. IInv /\ InLine /\ [Next]_vars => InLine'
  BY NextInLine
<1>. QED
  BY <1>1, <1>2, <1>3, IInvInvariant, LockUsed, LockMoves, PTL DEF Spec
=============================================================================
