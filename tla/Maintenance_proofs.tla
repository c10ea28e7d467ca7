-------------------------- MODULE Maintenance_proofs --------------------------
(***************************************************************************)
(* Proofs about Maintenance: the types and the four safety properties.     *)
(* The inductive invariant follows a command from its call to the          *)
(* provider's record and back: the control state of a call (Calling), who  *)
(* a record belongs to (Recordings), what ran (Effects), what an answer    *)
(* that is on its way or was given rests on (Claims), and whose seconds    *)
(* are still to be spent (Tokens).                                         *)
(***************************************************************************)
EXTENDS Maintenance, SequenceTheorems, TLAPS

Calling ==
  \A c \in Calls :
    /\ pc[c] # "ended" => answer[c] = Pending
    /\ answer[c].key \in {None, key[c]}
    /\ pc[c] \in {"idle", "resolving"} => ~posted[c]
    /\ pc[c] \in {"posting", "waiting"} => posted[c]
    /\ supplied[c] # None /\ (posted[c] \/ pc[c] \in {"queued", "signing"})
         => key[c] = supplied[c]
    /\ reply[c] # "none" \/ c \in flight => posted[c]
    /\ answer[c].says = "unsent" => ~posted[c]
    /\ pc[c] = "ended" /\ posted[c] => answer[c].key = key[c]

Recordings ==
  \A i \in Ids :
    Recorded(i) => /\ by[i] \in Calls
                   /\ posted[by[i]]
                   /\ Id(by[i]) = i
                   /\ Admits(by[i])

Effects ==
  \A c \in Calls :
    /\ effect[c] <= 1
    /\ effect[c] # 0 => record[Id(c)] = "ran" /\ by[Id(c)] = c

\* A command that did not run and never will.
Settled(c) ==
  /\ record[Id(c)] # "ran"
  /\ \/ record[Id(c)] = "expired"
     \/ lostStorage
     \/ ~Admits(c)

\* Calls that were told, or will be, that their command did not run; calls that
\* were told, or will be, that it was accepted.
Settles(c) == \/ reply[c] \in {"expired", "lost", "keyRequired"}
              \/ answer[c].says = "notRun"
Accepts(c) == \/ reply[c] = "accepted"
              \/ posted[c] /\ pc[c] \in {"queued", "signing", "waiting"}
              \/ answer[c].says = "accepted"

Claims ==
  \A c \in Calls :
    /\ Settles(c) => posted[c] /\ Settled(c)
    /\ Accepts(c) => posted[c] /\ Recorded(Id(c))

\* Calls whose token is still to be spent on a POST.
Holding(c) == c \in flight \/ (pc[c] = "signing" /\ ~posted[c])

Tokens ==
  /\ \A s \in spent : s <= last
  /\ \A c \in Calls : Holding(c) => stamp[c] <= last /\ stamp[c] \notin spent
  /\ \A c, d \in Calls : Holding(c) /\ Holding(d) /\ c # d => stamp[c] # stamp[d]
  /\ NeverReplayed

IInv == TypeOK /\ Calling /\ Recordings /\ Effects /\ Claims /\ Tokens

USE NoneAssumption, KeysAssumption, BoundsAssumption DEF Ids

\* TypeOK by parts.
Saying == [says : {"pending", "unsent", "unknown", "notRecorded", "notRun", "accepted"},
           key : Keys \cup {None}]

CallType ==
  /\ pc \in [Calls -> Pcs]
  /\ mode \in [Calls -> {"pr240", "v0.13"}]
  /\ aborted \in [Calls -> BOOLEAN]
  /\ supplied \in [Calls -> Keys \cup {None}]
  /\ key \in [Calls -> Keys \cup {None}]
  /\ polls \in [Calls -> 0..MaxPolls]

AnswerType == answer \in [Calls -> Saying]

TokenType ==
  /\ queue \in Seq(Calls)
  /\ last \in Nat
  /\ stamp \in [Calls -> Nat]
  /\ clock \in Nat

ProviderType ==
  /\ provider \in {"v0.13", "pr240", "listed"}
  /\ lostStorage \in BOOLEAN
  /\ flight \subseteq Calls
  /\ reply \in [Calls -> {"none", "refused", "replayed", "keyRequired", "accepted", "expired",
                          "lost", "full"}]
  /\ record \in [Ids -> {"none", "pending", "ran", "expired"}]
  /\ by \in [Ids -> Calls \cup {None}]
  /\ spent \subseteq Nat

HistoryType ==
  /\ posted \in [Calls -> BOOLEAN]
  /\ effect \in [Calls -> Nat]

LEMMA Parts ==
  TypeOK <=> CallType /\ AnswerType /\ TokenType /\ ProviderType /\ HistoryType
  BY DEF TypeOK, CallType, AnswerType, Saying, TokenType, ProviderType, HistoryType

LEMMA IdType ==
  ASSUME CallType, NEW c \in Calls
  PROVE  Id(c) \in Ids
  BY DEF CallType, Id

LEMMA Saids ==
  ASSUME NEW s, NEW k
  PROVE  Says(s, k).says = s /\ Says(s, k).key = k
  BY DEF Says

\* What each kind of variable is changed by.
LEMMA CallTypeStep ==
  ASSUME TypeOK, [Next]_vars
  PROVE  CallType'
<1> USE Parts DEF CallType, Pcs
<1>1. ASSUME NEW c \in Calls, NEW k \in Keys \cup {None}, Begin(c, k)
      PROVE  CallType'
  BY <1>1 DEF Begin, Goto, tokenVars, fredVars, history
<1>2. ASSUME NEW c \in Calls, Abort(c)
      PROVE  CallType'
  BY <1>2 DEF Abort, config, tokenVars, fredVars, history
<1>3. ASSUME NEW c \in Calls, ResolveFails(c)
      PROVE  CallType'
  BY <1>3 DEF ResolveFails, End, config, tokenVars, fredVars, history
<1>4. ASSUME NEW c \in Calls, Resolved(c)
      PROVE  CallType'
  BY <1>4 DEF Resolved, Goto, config, fredVars, history, CommandKey, Fresh, Unused
<1>5. ASSUME NEW c \in Calls, StampIssued(c)
      PROVE  CallType'
  BY <1>5 DEF StampIssued, Stamp, Goto, config, fredVars, history
<1>6. ASSUME NEW c \in Calls, SignFails(c)
      PROVE  CallType'
  BY <1>6 DEF SignFails, End, config, tokenVars, fredVars, history
<1>7. ASSUME NEW c \in Calls, SendPost(c)
      PROVE  CallType'
  BY <1>7 DEF SendPost, Goto, config, tokenVars
<1>8. ASSUME NEW c \in Calls, PostRefused(c)
      PROVE  CallType'
  BY <1>8 DEF PostRefused, End, config, tokenVars, fredVars, history
<1>9. ASSUME NEW c \in Calls, PostUncertain(c)
      PROVE  CallType'
  BY <1>9 DEF PostUncertain, End, config, tokenVars, fredVars, history
<1>10. ASSUME NEW c \in Calls, PostAccepted(c)
      PROVE  CallType'
  BY <1>10 DEF PostAccepted, Goto, End, config, tokenVars, fredVars, history
<1>11. ASSUME NEW c \in Calls, PollAsks(c)
      PROVE  CallType'
  BY <1>11 DEF PollAsks, Goto, config, fredVars, history
<1>12. ASSUME NEW c \in Calls, PollReads(c)
      PROVE  CallType'
  BY <1>12 DEF PollReads, Goto, config, tokenVars, fredVars, history
<1>13. ASSUME NEW c \in Calls, WaitEnds(c)
      PROVE  CallType'
  BY <1>13 DEF WaitEnds, End, config, tokenVars, fredVars, history
<1>14. ASSUME NEW c \in Calls, Arrive(c)
      PROVE  CallType'
  BY <1>14 DEF Arrive, callVars, tokenVars, history
<1>15. ASSUME NEW i \in Ids, Run(i)
      PROVE  CallType'
  BY <1>15 DEF Run, callVars, tokenVars
<1>16. CASE LoseStorage
  BY <1>16 DEF LoseStorage, callVars, tokenVars, history
<1>17. CASE Tick
  BY <1>17 DEF Tick, callVars, tokenVars, fredVars, history
<1>18. CASE SetBack
  BY <1>18 DEF SetBack, callVars, tokenVars, fredVars, history
<1>19. CASE UNCHANGED vars
  BY <1>19 DEF vars, callVars, tokenVars, fredVars, history
<1> QED
  BY <1>1, <1>2, <1>3, <1>4, <1>5, <1>6, <1>7, <1>8, <1>9, <1>10,
     <1>11, <1>12, <1>13, <1>14, <1>15, <1>16, <1>17, <1>18, <1>19
     DEF Next, CallStep

LEMMA AnswerTypeStep ==
  ASSUME TypeOK, [Next]_vars
  PROVE  AnswerType'
<1> USE Parts DEF AnswerType
<1>0. ASSUME NEW c \in Calls, NEW s \in {"unsent", "unknown", "notRecorded", "notRun", "accepted"},
             NEW k \in Keys \cup {None}, End(c, Says(s, k))
      PROVE  AnswerType'
  BY <1>0 DEF End, Says, Saying
<1>1. ASSUME NEW c \in Calls, NEW k \in Keys \cup {None}, Begin(c, k)
      PROVE  AnswerType'
  BY <1>1 DEF Begin, Goto, tokenVars, fredVars, history
<1>2. ASSUME NEW c \in Calls, Abort(c)
      PROVE  AnswerType'
  BY <1>2 DEF Abort, config, tokenVars, fredVars, history
<1>3. ASSUME NEW c \in Calls, ResolveFails(c)
      PROVE  AnswerType'
  BY <1>3, <1>0 DEF ResolveFails, Unsent
<1>4. ASSUME NEW c \in Calls, Resolved(c)
      PROVE  AnswerType'
  BY <1>4 DEF Resolved, Goto, config, fredVars, history
<1>5. ASSUME NEW c \in Calls, StampIssued(c)
      PROVE  AnswerType'
  BY <1>5 DEF StampIssued, Stamp, Goto, config, fredVars, history
<1>6. ASSUME NEW c \in Calls, SignFails(c)
      PROVE  AnswerType'
  BY <1>6, <1>0 DEF SignFails, Unsent
<1>7. ASSUME NEW c \in Calls, SendPost(c)
      PROVE  AnswerType'
  BY <1>7 DEF SendPost, Goto, config, tokenVars
<1>8. ASSUME NEW c \in Calls, PostRefused(c)
      PROVE  AnswerType'
  BY <1>8, <1>0 DEF PostRefused, CallType
<1>9. ASSUME NEW c \in Calls, PostUncertain(c)
      PROVE  AnswerType'
  BY <1>9, <1>0 DEF PostUncertain, CallType
<1>10. ASSUME NEW c \in Calls, PostAccepted(c)
      PROVE  AnswerType'
  BY <1>10, <1>0 DEF PostAccepted, CallType
<1>11. ASSUME NEW c \in Calls, PollAsks(c)
      PROVE  AnswerType'
  BY <1>11 DEF PollAsks, Goto, config, fredVars, history
<1>12. ASSUME NEW c \in Calls, PollReads(c)
      PROVE  AnswerType'
  BY <1>12 DEF PollReads, Goto, config, tokenVars, fredVars, history
<1>13. ASSUME NEW c \in Calls, WaitEnds(c)
      PROVE  AnswerType'
  BY <1>13, <1>0 DEF WaitEnds, CallType
<1>14. ASSUME NEW c \in Calls, Arrive(c)
      PROVE  AnswerType'
  BY <1>14 DEF Arrive, callVars, tokenVars, history
<1>15. ASSUME NEW i \in Ids, Run(i)
      PROVE  AnswerType'
  BY <1>15 DEF Run, callVars, tokenVars
<1>16. CASE LoseStorage
  BY <1>16 DEF LoseStorage, callVars, tokenVars, history
<1>17. CASE Tick
  BY <1>17 DEF Tick, callVars, tokenVars, fredVars, history
<1>18. CASE SetBack
  BY <1>18 DEF SetBack, callVars, tokenVars, fredVars, history
<1>19. CASE UNCHANGED vars
  BY <1>19 DEF vars, callVars, tokenVars, fredVars, history
<1> QED
  BY <1>1, <1>2, <1>3, <1>4, <1>5, <1>6, <1>7, <1>8, <1>9, <1>10,
     <1>11, <1>12, <1>13, <1>14, <1>15, <1>16, <1>17, <1>18, <1>19
     DEF Next, CallStep

LEMMA TokenTypeStep ==
  ASSUME TypeOK, [Next]_vars
  PROVE  TokenType'
<1> USE Parts DEF TokenType
<1>1. ASSUME NEW c \in Calls, NEW k \in Keys \cup {None}, Begin(c, k)
      PROVE  TokenType'
  BY <1>1 DEF Begin, Goto, tokenVars, fredVars, history
<1>2. ASSUME NEW c \in Calls, Abort(c)
      PROVE  TokenType'
  BY <1>2 DEF Abort, config, tokenVars, fredVars, history
<1>3. ASSUME NEW c \in Calls, ResolveFails(c)
      PROVE  TokenType'
  BY <1>3 DEF ResolveFails, End, config, tokenVars, fredVars, history
<1>4. ASSUME NEW c \in Calls, Resolved(c)
      PROVE  TokenType'
  BY <1>4 DEF Resolved, Goto, config, fredVars, history
<1>5. ASSUME NEW c \in Calls, StampIssued(c)
      PROVE  TokenType'
  BY <1>5 DEF StampIssued, Stamp, Goto, config, fredVars, history
<1>6. ASSUME NEW c \in Calls, SignFails(c)
      PROVE  TokenType'
  BY <1>6 DEF SignFails, End, config, tokenVars, fredVars, history
<1>7. ASSUME NEW c \in Calls, SendPost(c)
      PROVE  TokenType'
  BY <1>7 DEF SendPost, Goto, config, tokenVars
<1>8. ASSUME NEW c \in Calls, PostRefused(c)
      PROVE  TokenType'
  BY <1>8 DEF PostRefused, End, config, tokenVars, fredVars, history
<1>9. ASSUME NEW c \in Calls, PostUncertain(c)
      PROVE  TokenType'
  BY <1>9 DEF PostUncertain, End, config, tokenVars, fredVars, history
<1>10. ASSUME NEW c \in Calls, PostAccepted(c)
      PROVE  TokenType'
  BY <1>10 DEF PostAccepted, Goto, End, config, tokenVars, fredVars, history
<1>11. ASSUME NEW c \in Calls, PollAsks(c)
      PROVE  TokenType'
  BY <1>11 DEF PollAsks, Goto, config, fredVars, history
<1>12. ASSUME NEW c \in Calls, PollReads(c)
      PROVE  TokenType'
  BY <1>12 DEF PollReads, Goto, config, tokenVars, fredVars, history
<1>13. ASSUME NEW c \in Calls, WaitEnds(c)
      PROVE  TokenType'
  BY <1>13 DEF WaitEnds, End, config, tokenVars, fredVars, history
<1>14. ASSUME NEW c \in Calls, Arrive(c)
      PROVE  TokenType'
  BY <1>14 DEF Arrive, callVars, tokenVars, history
<1>15. ASSUME NEW i \in Ids, Run(i)
      PROVE  TokenType'
  BY <1>15 DEF Run, callVars, tokenVars
<1>16. CASE LoseStorage
  BY <1>16 DEF LoseStorage, callVars, tokenVars, history
<1>17. CASE Tick
  BY <1>17 DEF Tick, callVars, tokenVars, fredVars, history
<1>18. CASE SetBack
  BY <1>18 DEF SetBack, callVars, tokenVars, fredVars, history
<1>19. CASE UNCHANGED vars
  BY <1>19 DEF vars, callVars, tokenVars, fredVars, history
<1> QED
  BY <1>1, <1>2, <1>3, <1>4, <1>5, <1>6, <1>7, <1>8, <1>9, <1>10,
     <1>11, <1>12, <1>13, <1>14, <1>15, <1>16, <1>17, <1>18, <1>19
     DEF Next, CallStep

LEMMA ProviderTypeStep ==
  ASSUME TypeOK, [Next]_vars
  PROVE  ProviderType'
<1> USE Parts DEF ProviderType
<1>1. ASSUME NEW c \in Calls, NEW k \in Keys \cup {None}, Begin(c, k)
      PROVE  ProviderType'
  BY <1>1 DEF Begin, Goto, tokenVars, fredVars, history
<1>2. ASSUME NEW c \in Calls, Abort(c)
      PROVE  ProviderType'
  BY <1>2 DEF Abort, config, tokenVars, fredVars, history
<1>3. ASSUME NEW c \in Calls, ResolveFails(c)
      PROVE  ProviderType'
  BY <1>3 DEF ResolveFails, End, config, tokenVars, fredVars, history
<1>4. ASSUME NEW c \in Calls, Resolved(c)
      PROVE  ProviderType'
  BY <1>4 DEF Resolved, Goto, config, fredVars, history
<1>5. ASSUME NEW c \in Calls, StampIssued(c)
      PROVE  ProviderType'
  BY <1>5 DEF StampIssued, Stamp, Goto, config, fredVars, history
<1>6. ASSUME NEW c \in Calls, SignFails(c)
      PROVE  ProviderType'
  BY <1>6 DEF SignFails, End, config, tokenVars, fredVars, history
<1>7. ASSUME NEW c \in Calls, SendPost(c)
      PROVE  ProviderType'
  BY <1>7 DEF SendPost, Goto, config, tokenVars
<1>8. ASSUME NEW c \in Calls, PostRefused(c)
      PROVE  ProviderType'
  BY <1>8 DEF PostRefused, End, config, tokenVars, fredVars, history
<1>9. ASSUME NEW c \in Calls, PostUncertain(c)
      PROVE  ProviderType'
  BY <1>9 DEF PostUncertain, End, config, tokenVars, fredVars, history
<1>10. ASSUME NEW c \in Calls, PostAccepted(c)
      PROVE  ProviderType'
  BY <1>10 DEF PostAccepted, Goto, End, config, tokenVars, fredVars, history
<1>11. ASSUME NEW c \in Calls, PollAsks(c)
      PROVE  ProviderType'
  BY <1>11 DEF PollAsks, Goto, config, fredVars, history
<1>12. ASSUME NEW c \in Calls, PollReads(c)
      PROVE  ProviderType'
  BY <1>12 DEF PollReads, Goto, config, tokenVars, fredVars, history
<1>13. ASSUME NEW c \in Calls, WaitEnds(c)
      PROVE  ProviderType'
  BY <1>13 DEF WaitEnds, End, config, tokenVars, fredVars, history
<1>14. ASSUME NEW c \in Calls, Arrive(c)
      PROVE  ProviderType'
  <2>1. reply' \in [Calls -> {"none", "refused", "replayed", "keyRequired", "accepted", "expired",
                             "lost", "full"}]
    BY <1>14 DEF Arrive, Answers, Records, Replies
  <2>2. /\ record' \in [Ids -> {"none", "pending", "ran", "expired"}]
        /\ by' \in [Ids -> Calls \cup {None}]
    BY <1>14 DEF Arrive, Answers, Records
  <2>3. flight' \subseteq Calls /\ spent' \subseteq Nat /\ UNCHANGED <<provider, lostStorage>>
    BY <1>14 DEF Arrive, TokenType
  <2> QED
    BY <2>1, <2>2, <2>3
<1>15. ASSUME NEW i \in Ids, Run(i)
      PROVE  ProviderType'
  BY <1>15 DEF Run, callVars, tokenVars, TokenType
<1>16. CASE LoseStorage
  BY <1>16 DEF LoseStorage, callVars, tokenVars, history
<1>17. CASE Tick
  BY <1>17 DEF Tick, callVars, tokenVars, fredVars, history
<1>18. CASE SetBack
  BY <1>18 DEF SetBack, callVars, tokenVars, fredVars, history
<1>19. CASE UNCHANGED vars
  BY <1>19 DEF vars, callVars, tokenVars, fredVars, history
<1> QED
  BY <1>1, <1>2, <1>3, <1>4, <1>5, <1>6, <1>7, <1>8, <1>9, <1>10,
     <1>11, <1>12, <1>13, <1>14, <1>15, <1>16, <1>17, <1>18, <1>19
     DEF Next, CallStep

LEMMA HistoryTypeStep ==
  ASSUME TypeOK, [Next]_vars
  PROVE  HistoryType'
<1> USE Parts DEF HistoryType
<1>1. ASSUME NEW c \in Calls, NEW k \in Keys \cup {None}, Begin(c, k)
      PROVE  HistoryType'
  BY <1>1 DEF Begin, Goto, tokenVars, fredVars, history
<1>2. ASSUME NEW c \in Calls, Abort(c)
      PROVE  HistoryType'
  BY <1>2 DEF Abort, config, tokenVars, fredVars, history
<1>3. ASSUME NEW c \in Calls, ResolveFails(c)
      PROVE  HistoryType'
  BY <1>3 DEF ResolveFails, End, config, tokenVars, fredVars, history
<1>4. ASSUME NEW c \in Calls, Resolved(c)
      PROVE  HistoryType'
  BY <1>4 DEF Resolved, Goto, config, fredVars, history
<1>5. ASSUME NEW c \in Calls, StampIssued(c)
      PROVE  HistoryType'
  BY <1>5 DEF StampIssued, Stamp, Goto, config, fredVars, history
<1>6. ASSUME NEW c \in Calls, SignFails(c)
      PROVE  HistoryType'
  BY <1>6 DEF SignFails, End, config, tokenVars, fredVars, history
<1>7. ASSUME NEW c \in Calls, SendPost(c)
      PROVE  HistoryType'
  BY <1>7 DEF SendPost, Goto, config, tokenVars
<1>8. ASSUME NEW c \in Calls, PostRefused(c)
      PROVE  HistoryType'
  BY <1>8 DEF PostRefused, End, config, tokenVars, fredVars, history
<1>9. ASSUME NEW c \in Calls, PostUncertain(c)
      PROVE  HistoryType'
  BY <1>9 DEF PostUncertain, End, config, tokenVars, fredVars, history
<1>10. ASSUME NEW c \in Calls, PostAccepted(c)
      PROVE  HistoryType'
  BY <1>10 DEF PostAccepted, Goto, End, config, tokenVars, fredVars, history
<1>11. ASSUME NEW c \in Calls, PollAsks(c)
      PROVE  HistoryType'
  BY <1>11 DEF PollAsks, Goto, config, fredVars, history
<1>12. ASSUME NEW c \in Calls, PollReads(c)
      PROVE  HistoryType'
  BY <1>12 DEF PollReads, Goto, config, tokenVars, fredVars, history
<1>13. ASSUME NEW c \in Calls, WaitEnds(c)
      PROVE  HistoryType'
  BY <1>13 DEF WaitEnds, End, config, tokenVars, fredVars, history
<1>14. ASSUME NEW c \in Calls, Arrive(c)
      PROVE  HistoryType'
  BY <1>14 DEF Arrive, callVars, tokenVars, history
<1>15. ASSUME NEW i \in Ids, Run(i)
      PROVE  HistoryType'
  <2>1. effect' = [c \in Calls |-> IF c = by[i] THEN effect[c] + 1 ELSE effect[c]]
    BY <1>15 DEF Run
  <2>2. posted' = posted
    BY <1>15 DEF Run
  <2>3. \A c \in Calls : effect[c] + 1 \in Nat
    OBVIOUS
  <2> QED
    BY <2>1, <2>2, <2>3
<1>16. CASE LoseStorage
  BY <1>16 DEF LoseStorage, callVars, tokenVars, history
<1>17. CASE Tick
  BY <1>17 DEF Tick, callVars, tokenVars, fredVars, history
<1>18. CASE SetBack
  BY <1>18 DEF SetBack, callVars, tokenVars, fredVars, history
<1>19. CASE UNCHANGED vars
  BY <1>19 DEF vars, callVars, tokenVars, fredVars, history
<1> QED
  BY <1>1, <1>2, <1>3, <1>4, <1>5, <1>6, <1>7, <1>8, <1>9, <1>10,
     <1>11, <1>12, <1>13, <1>14, <1>15, <1>16, <1>17, <1>18, <1>19
     DEF Next, CallStep

LEMMA TypeStep == TypeOK /\ [Next]_vars => TypeOK'
<1> SUFFICES ASSUME TypeOK, [Next]_vars PROVE TypeOK'
  OBVIOUS
<1>1. (CallType /\ AnswerType /\ TokenType /\ ProviderType /\ HistoryType)'
  BY CallTypeStep, AnswerTypeStep, TokenTypeStep, ProviderTypeStep, HistoryTypeStep, Zenon
<1> QED
  BY <1>1 DEF TypeOK, CallType, AnswerType, Saying, TokenType, ProviderType, HistoryType

LEMMA CallingStep ==
  ASSUME IInv, TypeOK', [Next]_vars
  PROVE  Calling'
<1> USE Parts DEF IInv, Calling, CallType, AnswerType, HistoryType
<1>0. ASSUME NEW c \in Calls, NEW s, NEW k, End(c, Says(s, k)), UNCHANGED <<posted, reply, flight>>,
             k \in {None, key[c]}, s = "unsent" => ~posted[c], posted[c] => k = key[c]
      PROVE  Calling'
  <2>1. /\ answer'[c].says = s /\ answer'[c].key = k
        /\ \A d \in Calls : d # c => answer'[d] = answer[d] /\ pc'[d] = pc[d]
        /\ pc'[c] = "ended" /\ UNCHANGED <<supplied, key>>
    BY <1>0, Saids DEF End, config
  <2> QED
    BY <1>0, <2>1
<1>1. ASSUME NEW c \in Calls, NEW k \in Keys \cup {None}, Begin(c, k)
      PROVE  Calling'
  <2>1. pc[c] = "idle" /\ ~posted[c]
    BY <1>1 DEF Begin, Goto
  <2>2. pc' = [pc EXCEPT ![c] = "resolving"] /\ supplied' = [supplied EXCEPT ![c] = k]
        /\ UNCHANGED <<key, answer, posted, reply, flight>>
    BY <1>1 DEF Begin, Goto, fredVars, history
  <2> QED
    BY <2>1, <2>2
<1>2. ASSUME NEW c \in Calls, Abort(c)
      PROVE  Calling'
  BY <1>2 DEF Abort, config, tokenVars, fredVars, history
<1>3. ASSUME NEW c \in Calls, ResolveFails(c)
      PROVE  Calling'
  BY <1>3, <1>0 DEF ResolveFails, fredVars, history, Unsent
<1>4. ASSUME NEW c \in Calls, Resolved(c)
      PROVE  Calling'
  <2>1. pc[c] = "resolving" /\ ~posted[c] /\ answer[c] = Pending
    BY <1>4 DEF Resolved, Goto
  <2>2. PICK k \in CommandKey(c) : key' = [key EXCEPT ![c] = k]
    BY <1>4 DEF Resolved
  <2>3. supplied[c] # None => k = supplied[c]
    BY DEF CommandKey
  <2>4. /\ pc' = [pc EXCEPT ![c] = "queued"]
        /\ UNCHANGED <<supplied, answer, posted, reply, flight>>
    BY <1>4 DEF Resolved, Goto, config, fredVars, history
  <2> QED
    BY <2>1, <2>2, <2>3, <2>4, Saids DEF Pending
<1>5. ASSUME NEW c \in Calls, StampIssued(c)
      PROVE  Calling'
  <2>1. pc[c] = "queued" /\ pc' = [pc EXCEPT ![c] = "signing"]
    BY <1>5 DEF StampIssued, Stamp, Goto
  <2>2. UNCHANGED <<supplied, key, answer, posted, reply, flight>>
    BY <1>5 DEF StampIssued, Stamp, config, fredVars, history
  <2> QED
    BY <2>1, <2>2
<1>6. ASSUME NEW c \in Calls, SignFails(c)
      PROVE  Calling'
  BY <1>6, <1>0 DEF SignFails, fredVars, history, Unsent
<1>7. ASSUME NEW c \in Calls, SendPost(c)
      PROVE  Calling'
  <2>1. pc[c] = "signing" /\ pc' = [pc EXCEPT ![c] = "posting"]
    BY <1>7 DEF SendPost, Goto
  <2>2. posted' = [posted EXCEPT ![c] = TRUE] /\ flight' = flight \cup {c}
    BY <1>7 DEF SendPost
  <2>3. UNCHANGED <<supplied, key, answer, reply>> /\ answer[c] = Pending
    BY <1>7 DEF SendPost, Goto, config
  <2> QED
    BY <2>1, <2>2, <2>3, Saids DEF Pending
<1>8. ASSUME NEW c \in Calls, PostRefused(c)
      PROVE  Calling'
  BY <1>8, <1>0 DEF PostRefused, fredVars, history
<1>9. ASSUME NEW c \in Calls, PostUncertain(c)
      PROVE  Calling'
  BY <1>9, <1>0 DEF PostUncertain, fredVars, history
<1>10. ASSUME NEW c \in Calls, PostAccepted(c)
      PROVE  Calling'
  <2>1. CASE Goto(c, "posting", "waiting") /\ UNCHANGED <<config, key, answer>>
    BY <1>10, <2>1 DEF PostAccepted, Goto, config, fredVars, history
  <2>2. CASE pc[c] = "posting" /\ End(c, Says("accepted", key[c]))
    BY <1>10, <2>2, <1>0 DEF PostAccepted, fredVars, history
  <2> QED
    BY <1>10, <2>1, <2>2 DEF PostAccepted
<1>11. ASSUME NEW c \in Calls, PollAsks(c)
      PROVE  Calling'
  BY <1>11 DEF PollAsks, Goto, config, fredVars, history
<1>12. ASSUME NEW c \in Calls, PollReads(c)
      PROVE  Calling'
  BY <1>12 DEF PollReads, Goto, config, tokenVars, fredVars, history
<1>13. ASSUME NEW c \in Calls, WaitEnds(c)
      PROVE  Calling'
  BY <1>13, <1>0 DEF WaitEnds, fredVars, history
<1>14. ASSUME NEW c \in Calls, Arrive(c)
      PROVE  Calling'
  <2>1. \A d \in Calls : reply'[d] # reply[d] => d = c
    BY <1>14 DEF Arrive, Answers, Records, Replies, ProviderType
  <2> QED
    BY <1>14, <2>1 DEF Arrive, callVars, history
<1>15. ASSUME NEW i \in Ids, Run(i)
      PROVE  Calling'
  BY <1>15 DEF Run, callVars, tokenVars
<1>16. CASE LoseStorage
  BY <1>16 DEF LoseStorage, callVars, tokenVars, history
<1>17. CASE Tick
  BY <1>17 DEF Tick, callVars, tokenVars, fredVars, history
<1>18. CASE SetBack
  BY <1>18 DEF SetBack, callVars, tokenVars, fredVars, history
<1>19. CASE UNCHANGED vars
  BY <1>19 DEF vars, callVars, tokenVars, fredVars, history
<1> QED
  BY <1>1, <1>2, <1>3, <1>4, <1>5, <1>6, <1>7, <1>8, <1>9, <1>10,
     <1>11, <1>12, <1>13, <1>14, <1>15, <1>16, <1>17, <1>18, <1>19
     DEF Next, CallStep

\* The provider's books, and what they are kept on.
books == <<key, posted, provider, record, by, effect>>

LEMMA BookSteps ==
  ASSUME [Next]_vars
  PROVE  /\ lostStorage => lostStorage'
         /\ \/ UNCHANGED books
            \/ \E c \in Calls : Resolved(c) \/ SendPost(c) \/ Arrive(c)
            \/ \E i \in Ids : Run(i)
<1> DEFINE Goal == /\ lostStorage => lostStorage'
                   /\ \/ UNCHANGED books
                      \/ \E c \in Calls : Resolved(c) \/ SendPost(c) \/ Arrive(c)
                      \/ \E i \in Ids : Run(i)
<1> SUFFICES Goal
  OBVIOUS
<1>1. ASSUME NEW c \in Calls, NEW k \in Keys \cup {None}, Begin(c, k)
      PROVE  Goal
  BY <1>1 DEF Begin, Goto, tokenVars, fredVars, history, books
<1>2. ASSUME NEW c \in Calls, Abort(c)
      PROVE  Goal
  BY <1>2 DEF Abort, config, tokenVars, fredVars, history, books
<1>3. ASSUME NEW c \in Calls, ResolveFails(c)
      PROVE  Goal
  BY <1>3 DEF ResolveFails, End, config, tokenVars, fredVars, history, books
<1>4. ASSUME NEW c \in Calls, Resolved(c)
      PROVE  Goal
  BY <1>4 DEF Resolved, fredVars
<1>5. ASSUME NEW c \in Calls, StampIssued(c)
      PROVE  Goal
  BY <1>5 DEF StampIssued, Stamp, Goto, config, fredVars, history, books
<1>6. ASSUME NEW c \in Calls, SignFails(c)
      PROVE  Goal
  BY <1>6 DEF SignFails, End, config, tokenVars, fredVars, history, books
<1>7. ASSUME NEW c \in Calls, SendPost(c)
      PROVE  Goal
  BY <1>7 DEF SendPost
<1>8. ASSUME NEW c \in Calls, PostRefused(c)
      PROVE  Goal
  BY <1>8 DEF PostRefused, End, config, tokenVars, fredVars, history, books
<1>9. ASSUME NEW c \in Calls, PostUncertain(c)
      PROVE  Goal
  BY <1>9 DEF PostUncertain, End, config, tokenVars, fredVars, history, books
<1>10. ASSUME NEW c \in Calls, PostAccepted(c)
      PROVE  Goal
  BY <1>10 DEF PostAccepted, Goto, End, config, tokenVars, fredVars, history, books
<1>11. ASSUME NEW c \in Calls, PollAsks(c)
      PROVE  Goal
  BY <1>11 DEF PollAsks, Goto, config, fredVars, history, books
<1>12. ASSUME NEW c \in Calls, PollReads(c)
      PROVE  Goal
  BY <1>12 DEF PollReads, Goto, config, tokenVars, fredVars, history, books
<1>13. ASSUME NEW c \in Calls, WaitEnds(c)
      PROVE  Goal
  BY <1>13 DEF WaitEnds, End, config, tokenVars, fredVars, history, books
<1>14. ASSUME NEW c \in Calls, Arrive(c)
      PROVE  Goal
  BY <1>14 DEF Arrive
<1>15. ASSUME NEW i \in Ids, Run(i)
      PROVE  Goal
  BY <1>15 DEF Run
<1>16. CASE LoseStorage
  BY <1>16 DEF LoseStorage, callVars, tokenVars, history, books
<1>17. CASE Tick
  BY <1>17 DEF Tick, callVars, tokenVars, fredVars, history, books
<1>18. CASE SetBack
  BY <1>18 DEF SetBack, callVars, tokenVars, fredVars, history, books
<1>19. CASE UNCHANGED vars
  BY <1>19 DEF vars, callVars, tokenVars, fredVars, history, books
<1> QED
  BY <1>1, <1>2, <1>3, <1>4, <1>5, <1>6, <1>7, <1>8, <1>9, <1>10,
     <1>11, <1>12, <1>13, <1>14, <1>15, <1>16, <1>17, <1>18, <1>19
     DEF Next, CallStep

\* Only the call itself settles its key, and before it posts.
LEMMA KeyKept ==
  ASSUME IInv, NEW c \in Calls, Resolved(c), NEW d \in Calls, posted[d]
  PROVE  key'[d] = key[d] /\ Id(d)' = Id(d) /\ Admits(d)' = Admits(d)
<1> USE Parts DEF IInv, Calling
<1>1. c # d
  BY DEF Resolved, Goto
<1>2. PICK k \in CommandKey(c) : key' = [key EXCEPT ![c] = k]
  BY DEF Resolved
<1>3. key'[d] = key[d] /\ provider' = provider
  BY <1>1, <1>2 DEF Resolved, fredVars, CallType
<1> QED
  BY <1>3 DEF Id, Admits

\* What an arrival writes: nothing, or the first record of its command.
LEMMA Books ==
  ASSUME NEW c \in Calls, Arrive(c)
  PROVE  /\ UNCHANGED <<key, posted, provider, effect, lostStorage>>
         /\ c \in flight
         /\ \/ UNCHANGED <<record, by>>
            \/ /\ Admits(c) /\ ~Recorded(Id(c)) /\ ~lostStorage
               /\ \E s \in {"pending", "expired"} : record' = [record EXCEPT ![Id(c)] = s]
               /\ by' = [by EXCEPT ![Id(c)] = c]
<1>1. UNCHANGED <<key, posted, provider, effect, lostStorage>> /\ c \in flight
  BY DEF Arrive, callVars, history
<1>2. \/ UNCHANGED <<record, by>>
      \/ Admits(c) /\ ~Recorded(Id(c)) /\ ~lostStorage /\ Records(c, "pending", "accepted")
      \/ Admits(c) /\ ~Recorded(Id(c)) /\ ~lostStorage /\ Records(c, "expired", "expired")
  BY DEF Arrive, Answers
<1> QED
  BY <1>1, <1>2 DEF Records

LEMMA RecordingsStep ==
  ASSUME IInv, TypeOK', [Next]_vars
  PROVE  Recordings'
<1> USE Parts DEF IInv, Recordings, ProviderType
<1>1. CASE UNCHANGED books
  BY <1>1 DEF books, Recorded, Id, Admits
<1>2. ASSUME NEW c \in Calls, Resolved(c)
      PROVE  Recordings'
  <2>1. UNCHANGED <<record, by, posted>>
    BY <1>2 DEF Resolved, fredVars, history
  <2> QED
    BY <1>2, <2>1, KeyKept DEF Recorded
<1>3. ASSUME NEW c \in Calls, SendPost(c)
      PROVE  Recordings'
  <2>1. UNCHANGED <<key, provider, record, by>> /\ posted' = [posted EXCEPT ![c] = TRUE]
    BY <1>3 DEF SendPost, Goto
  <2> QED
    BY <2>1 DEF Recorded, Id, Admits, HistoryType
<1>4. ASSUME NEW c \in Calls, Arrive(c)
      PROVE  Recordings'
  <2>1. posted[c] /\ Id(c) \in Ids
    BY <1>4, Books, IdType DEF Calling
  <2>2. UNCHANGED <<key, posted, provider>>
    BY <1>4, Books
  <2>3. \A d \in Calls : Id(d)' = Id(d) /\ Admits(d)' = Admits(d)
    BY <2>2 DEF Id, Admits
  <2>4. CASE UNCHANGED <<record, by>>
    BY <2>2, <2>3, <2>4 DEF Recorded
  <2>5. ASSUME Admits(c), ~Recorded(Id(c)), by' = [by EXCEPT ![Id(c)] = c],
               NEW s, record' = [record EXCEPT ![Id(c)] = s]
        PROVE  Recordings'
    BY <2>1, <2>2, <2>3, <2>5 DEF Recorded
  <2> QED
    BY <1>4, <2>4, <2>5, Books
<1>5. ASSUME NEW i \in Ids, Run(i)
      PROVE  Recordings'
  <2>1. UNCHANGED <<key, provider, by, posted>> /\ Recorded(i)
        /\ record' = [record EXCEPT ![i] = "ran"]
    BY <1>5 DEF Run, Recorded, callVars
  <2> QED
    BY <2>1 DEF Recorded, Id, Admits
<1> QED
  BY BookSteps, <1>1, <1>2, <1>3, <1>4, <1>5

LEMMA EffectsStep ==
  ASSUME IInv, TypeOK', [Next]_vars
  PROVE  Effects'
<1> USE Parts DEF IInv, Effects, ProviderType, HistoryType
<1>0. \A d \in Calls : effect[d] # 0 => posted[d] /\ Recorded(Id(d)) /\ Id(d) \in Ids
  BY IdType DEF Recordings, Recorded
<1>1. CASE UNCHANGED books
  BY <1>1 DEF books, Id
<1>2. ASSUME NEW c \in Calls, Resolved(c)
      PROVE  Effects'
  <2>1. UNCHANGED <<record, by, effect>>
    BY <1>2 DEF Resolved, fredVars, history
  <2> QED
    BY <1>0, <1>2, <2>1, KeyKept
<1>3. ASSUME NEW c \in Calls, SendPost(c)
      PROVE  Effects'
  <2>1. UNCHANGED <<key, record, by, effect>>
    BY <1>3 DEF SendPost, Goto
  <2> QED
    BY <2>1 DEF Id
<1>4. ASSUME NEW c \in Calls, Arrive(c)
      PROVE  Effects'
  <2>1. UNCHANGED <<key, effect>>
    BY <1>4, Books
  <2>2. \A d \in Calls : Id(d)' = Id(d)
    BY <2>1 DEF Id
  <2>3. \A d \in Calls : effect[d] # 0 => record'[Id(d)] = record[Id(d)] /\ by'[Id(d)] = by[Id(d)]
    BY <1>0, <1>4, Books
  <2> QED
    BY <2>1, <2>2, <2>3
<1>5. ASSUME NEW i \in Ids, Run(i)
      PROVE  Effects'
  <2>1. /\ UNCHANGED <<key, by>> /\ record[i] = "pending"
        /\ record' = [record EXCEPT ![i] = "ran"]
        /\ effect' = [effect EXCEPT ![by[i]] = @ + 1]
    BY <1>5 DEF Run, callVars
  <2>2. by[i] \in Calls /\ Id(by[i]) = i
    BY <2>1 DEF Recordings, Recorded
  <2>3. effect[by[i]] = 0
    BY <2>1, <2>2
  <2>4. \A d \in Calls : Id(d)' = Id(d)
    BY <2>1 DEF Id
  <2>5. \A d \in Calls : d # by[i] => effect'[d] = effect[d]
    BY <2>1
  <2>6. effect'[by[i]] = 1
    BY <2>1, <2>2, <2>3
  <2>7. \A d \in Calls : effect[d] # 0 => record'[Id(d)] = "ran"
    BY <1>0, <2>1
  <2>8. record'[i] = "ran"
    BY <2>1
  <2> QED
    BY <2>1, <2>2, <2>4, <2>5, <2>6, <2>7, <2>8
<1> QED
  BY BookSteps, <1>1, <1>2, <1>3, <1>4, <1>5

\* A command that was posted stays settled, or recorded, if it was.
LEMMA Stable ==
  ASSUME IInv, [Next]_vars, NEW d \in Calls, posted[d]
  PROVE  /\ posted'[d]
         /\ Settled(d) => Settled(d)'
         /\ Recorded(Id(d)) => Recorded(Id(d))'
<1> USE Parts DEF IInv, ProviderType, HistoryType
<1> DEFINE Goal == /\ posted'[d]
                   /\ Settled(d) => Settled(d)'
                   /\ Recorded(Id(d)) => Recorded(Id(d))'
<1>0. lostStorage => lostStorage'
  BY BookSteps
<1>1. CASE UNCHANGED books
  BY <1>0, <1>1 DEF books, Id, Admits, Settled, Recorded
<1>2. ASSUME NEW c \in Calls, Resolved(c)
      PROVE  Goal
  <2>1. UNCHANGED <<record, posted>>
    BY <1>2 DEF Resolved, fredVars, history
  <2> QED
    BY <1>0, <1>2, <2>1, KeyKept DEF Settled, Recorded
<1>3. ASSUME NEW c \in Calls, SendPost(c)
      PROVE  Goal
  <2>1. UNCHANGED <<key, provider, record>> /\ posted' = [posted EXCEPT ![c] = TRUE]
    BY <1>3 DEF SendPost, Goto
  <2> QED
    BY <1>0, <2>1 DEF Id, Admits, Settled, Recorded
<1>4. ASSUME NEW c \in Calls, Arrive(c)
      PROVE  Goal
  <2>1. UNCHANGED <<key, posted, provider>>
    BY <1>4, Books
  <2>2. Id(d)' = Id(d) /\ Admits(d)' = Admits(d)
    BY <2>1 DEF Id, Admits
  <2>3. CASE UNCHANGED record
    BY <1>0, <2>1, <2>2, <2>3 DEF Settled, Recorded
  <2>4. ASSUME ~Recorded(Id(c)), NEW s \in {"pending", "expired"},
               record' = [record EXCEPT ![Id(c)] = s]
        PROVE  Goal
    <3>1. Id(d) \in Ids /\ (record'[Id(d)] = record[Id(d)] \/ record'[Id(d)] = s)
      BY <2>4, IdType
    <3>2. record[Id(d)] = "expired" => record'[Id(d)] = "expired"
      BY <2>4, <3>1 DEF Recorded
    <3>3. Recorded(Id(d)) => Recorded(Id(d))'
      BY <2>2, <2>4, <3>1 DEF Recorded
    <3> QED
      BY <1>0, <2>1, <2>2, <3>1, <3>2, <3>3 DEF Settled
  <2> QED
    BY <1>4, <2>3, <2>4, Books
<1>5. ASSUME NEW i \in Ids, Run(i)
      PROVE  Goal
  <2>1. /\ UNCHANGED <<key, provider, posted>> /\ record[i] = "pending" /\ ~lostStorage
        /\ record' = [record EXCEPT ![i] = "ran"]
    BY <1>5 DEF Run, callVars
  <2>2. Id(d)' = Id(d) /\ Admits(d)' = Admits(d) /\ Id(d) \in Ids
    BY <2>1, IdType DEF Id, Admits
  <2>3. Recorded(Id(d)) => Recorded(Id(d))'
    BY <2>1, <2>2 DEF Recorded
  <2>4. ASSUME Settled(d) PROVE Id(d) # i
    <3>1. SUFFICES ASSUME Id(d) = i PROVE FALSE
      OBVIOUS
    <3>2. ~Admits(d)
      BY <2>1, <2>4, <3>1 DEF Settled
    <3>3. key[d] = None /\ i = d
      BY <3>1, <3>2 DEF Admits, Id
    <3>4. by[i] \in Calls /\ Id(by[i]) = i /\ Admits(by[i])
      BY <2>1 DEF Recordings, Recorded
    <3>5. by[i] = d
      BY <3>3, <3>4 DEF Id, CallType
    <3> QED
      BY <3>2, <3>4, <3>5
  <2> QED
    BY <2>1, <2>2, <2>3, <2>4 DEF Settled
<1> QED
  BY BookSteps, <1>1, <1>2, <1>3, <1>4, <1>5

LEMMA ClaimsStep ==
  ASSUME IInv, TypeOK', [Next]_vars
  PROVE  Claims'
<1> USE Parts DEF IInv, CallType, AnswerType
<1> DEFINE Goal == \A d \in Calls : (Settles(d)' => Settles(d)) /\ (Accepts(d)' => Accepts(d))
<1>a. ASSUME Goal PROVE Claims'
  BY <1>a, Stable DEF Claims
<1>0. ASSUME NEW c \in Calls, NEW s, NEW k, End(c, Says(s, k)), UNCHANGED <<posted, reply>>,
             s = "notRun" => Settles(c), s = "accepted" => Accepts(c)
      PROVE  Goal
  <2>1. /\ answer'[c].says = s /\ pc'[c] = "ended"
        /\ \A d \in Calls : d # c => answer'[d] = answer[d] /\ pc'[d] = pc[d]
    BY <1>0, Saids DEF End
  <2> QED
    BY <1>0, <2>1 DEF Settles, Accepts
<1> HIDE DEF Goal
<1>1. ASSUME NEW c \in Calls, NEW k \in Keys \cup {None}, Begin(c, k)
      PROVE  Claims'
  <2>1. Goal
    BY <1>1 DEF Goal, Settles, Accepts, Begin, Goto, tokenVars, fredVars, history, Calling
  <2> QED
    BY <2>1, <1>a
<1>2. ASSUME NEW c \in Calls, Abort(c)
      PROVE  Claims'
  <2>1. Goal
    BY <1>2 DEF Goal, Settles, Accepts, Abort, config, tokenVars, fredVars, history
  <2> QED
    BY <2>1, <1>a
<1>3. ASSUME NEW c \in Calls, ResolveFails(c)
      PROVE  Claims'
  <2>1. Goal
    BY <1>3, <1>0 DEF ResolveFails, fredVars, history, Unsent
  <2> QED
    BY <2>1, <1>a
<1>4. ASSUME NEW c \in Calls, Resolved(c)
      PROVE  Claims'
  <2>1. Goal
    BY <1>4 DEF Goal, Settles, Accepts, Resolved, Goto, config, fredVars, history, Calling
  <2> QED
    BY <2>1, <1>a
<1>5. ASSUME NEW c \in Calls, StampIssued(c)
      PROVE  Claims'
  <2>1. Goal
    BY <1>5 DEF Goal, Settles, Accepts, StampIssued, Stamp, Goto, config, fredVars, history
  <2> QED
    BY <2>1, <1>a
<1>6. ASSUME NEW c \in Calls, SignFails(c)
      PROVE  Claims'
  <2>1. Goal
    BY <1>6, <1>0 DEF SignFails, fredVars, history, Unsent
  <2> QED
    BY <2>1, <1>a
<1>7. ASSUME NEW c \in Calls, SendPost(c)
      PROVE  Claims'
  <2>1. Goal
    BY <1>7 DEF Goal, Settles, Accepts, SendPost, Goto, config, tokenVars
  <2> QED
    BY <2>1, <1>a
<1>8. ASSUME NEW c \in Calls, PostRefused(c)
      PROVE  Claims'
  <2>1. Goal
    BY <1>8, <1>0 DEF PostRefused, fredVars, history, Settles
  <2> QED
    BY <2>1, <1>a
<1>9. ASSUME NEW c \in Calls, PostUncertain(c)
      PROVE  Claims'
  <2>1. Goal
    BY <1>9, <1>0 DEF PostUncertain, fredVars, history
  <2> QED
    BY <2>1, <1>a
<1>10. ASSUME NEW c \in Calls, PostAccepted(c)
      PROVE  Claims'
  <2>1. CASE Goto(c, "posting", "waiting") /\ UNCHANGED answer
    <3>1. Goal
      BY <1>10, <2>1 DEF Goal, PostAccepted, Goto, fredVars, history, Settles, Accepts
    <3> QED
      BY <3>1, <1>a
  <2>2. CASE End(c, Says("accepted", key[c]))
    <3>1. Goal
      BY <1>10, <2>2, <1>0 DEF PostAccepted, fredVars, history, Accepts
    <3> QED
      BY <3>1, <1>a
  <2> QED
    BY <1>10, <2>1, <2>2 DEF PostAccepted
<1>11. ASSUME NEW c \in Calls, PollAsks(c)
      PROVE  Claims'
  <2>1. Goal
    BY <1>11 DEF Goal, Settles, Accepts, PollAsks, Goto, config, fredVars, history
  <2> QED
    BY <2>1, <1>a
<1>12. ASSUME NEW c \in Calls, PollReads(c)
      PROVE  Claims'
  <2>1. Goal
    BY <1>12 DEF Goal, Settles, Accepts, PollReads, Goto, config, tokenVars, fredVars, history
  <2> QED
    BY <2>1, <1>a
<1>13. ASSUME NEW c \in Calls, WaitEnds(c)
      PROVE  Claims'
  <2>1. Goal
    BY <1>13, <1>0 DEF WaitEnds, fredVars, history, Accepts
  <2> QED
    BY <2>1, <1>a
<1>14. ASSUME NEW c \in Calls, Arrive(c)
      PROVE  Claims'
  <2>1. UNCHANGED <<pc, answer, key, posted, provider, lostStorage>> /\ posted[c]
    BY <1>14, Books DEF Arrive, callVars, Calling
  <2>2. ASSUME NEW d \in Calls, d # c
        PROVE  (Settles(d)' => Settles(d)) /\ (Accepts(d)' => Accepts(d))
    <3>1. reply'[d] = reply[d]
      BY <1>14, <2>2 DEF Arrive, Answers, Records, Replies, ProviderType
    <3> QED
      BY <2>1, <3>1 DEF Settles, Accepts
  <2>3. Id(c) \in Ids /\ Id(c)' = Id(c) /\ Admits(c)' = Admits(c)
    BY <2>1, IdType DEF Id, Admits
  <2>4. Settles(c)' => Settles(c) \/ Settled(c)'
    <3>1. CASE reply'[c] \in {"expired", "lost", "keyRequired"} /\ reply'[c] # reply[c]
      <4>1. \/ ~Admits(c) /\ UNCHANGED record
            \/ record'[Id(c)] = "expired"
            \/ ~Recorded(Id(c)) /\ lostStorage /\ UNCHANGED record
        BY <1>14, <3>1, <2>3 DEF Arrive, Answers, Records, Replies, ProviderType
      <4>2. ~Admits(c) => record[Id(c)] = "none"
        <5>1. ASSUME ~Admits(c), record[Id(c)] # "none" PROVE FALSE
          <6>1. Id(c) = c /\ by[c] \in Calls /\ Id(by[c]) = c /\ Admits(by[c])
            BY <5>1, <2>3 DEF Admits, Id, Recordings, Recorded
          <6> QED
            BY <5>1, <6>1 DEF Id
        <5> QED
          BY <5>1
      <4> QED
        BY <4>1, <4>2, <2>1, <2>3 DEF Settled, Recorded
    <3> QED
      BY <2>1, <3>1 DEF Settles
  <2>5. Accepts(c)' => Accepts(c) \/ Recorded(Id(c))'
    <3>1. CASE reply'[c] = "accepted" /\ reply'[c] # reply[c]
      <4>1. record'[Id(c)] \in {"pending", "ran"}
        BY <1>14, <3>1, <2>3 DEF Arrive, Answers, Records, Replies, ProviderType
      <4> QED
        BY <4>1, <2>3 DEF Recorded
    <3> QED
      BY <2>1, <3>1 DEF Accepts
  <2> QED
    BY <2>1, <2>2, <2>4, <2>5, Stable DEF Claims
<1>15. ASSUME NEW i \in Ids, Run(i)
      PROVE  Claims'
  <2>1. Goal
    BY <1>15 DEF Goal, Settles, Accepts, Run, callVars, tokenVars
  <2> QED
    BY <2>1, <1>a
<1>16. CASE LoseStorage
  <2>1. Goal
    BY <1>16 DEF Goal, Settles, Accepts, LoseStorage, callVars, tokenVars, history
  <2> QED
    BY <2>1, <1>a
<1>17. CASE Tick
  <2>1. Goal
    BY <1>17 DEF Goal, Settles, Accepts, Tick, callVars, tokenVars, fredVars, history
  <2> QED
    BY <2>1, <1>a
<1>18. CASE SetBack
  <2>1. Goal
    BY <1>18 DEF Goal, Settles, Accepts, SetBack, callVars, tokenVars, fredVars, history
  <2> QED
    BY <2>1, <1>a
<1>19. CASE UNCHANGED vars
  <2>1. Goal
    BY <1>19 DEF Goal, Settles, Accepts, vars, callVars, tokenVars, fredVars, history
  <2> QED
    BY <2>1, <1>a
<1> QED
  BY <1>1, <1>2, <1>3, <1>4, <1>5, <1>6, <1>7, <1>8, <1>9, <1>10,
     <1>11, <1>12, <1>13, <1>14, <1>15, <1>16, <1>17, <1>18, <1>19
     DEF Next, CallStep

\* A step that gives no token keeps them apart, if only holders remain holders.
LEMMA TokensStep ==
  ASSUME IInv, TypeOK', [Next]_vars
  PROVE  Tokens'
<1> USE Parts DEF IInv, CallType, TokenType
<1> DEFINE Goal == /\ \A d \in Calls : Holding(d)' => Holding(d)
                   /\ UNCHANGED <<last, spent>>
                   /\ \A d \in Calls : Holding(d) => stamp'[d] = stamp[d]
                   /\ \A d \in Calls : reply'[d] = reply[d]
<1>a. ASSUME Goal PROVE Tokens'
  BY <1>a DEF Tokens, NeverReplayed
<1> HIDE DEF Goal
<1>1. ASSUME NEW c \in Calls, NEW k \in Keys \cup {None}, Begin(c, k)
      PROVE  Tokens'
  <2>1. Goal
    BY <1>1 DEF Goal, Holding, Begin, Goto, tokenVars, fredVars, history, Calling
  <2> QED
    BY <2>1, <1>a
<1>2. ASSUME NEW c \in Calls, Abort(c)
      PROVE  Tokens'
  <2>1. Goal
    BY <1>2 DEF Goal, Holding, Abort, config, tokenVars, fredVars, history
  <2> QED
    BY <2>1, <1>a
<1>3. ASSUME NEW c \in Calls, ResolveFails(c)
      PROVE  Tokens'
  <2>1. Goal
    BY <1>3 DEF Goal, Holding, ResolveFails, End, config, tokenVars, fredVars, history
  <2> QED
    BY <2>1, <1>a
<1>4. ASSUME NEW c \in Calls, Resolved(c)
      PROVE  Tokens'
  <2>1. Goal
    BY <1>4 DEF Goal, Holding, Resolved, Goto, config, fredVars, history
  <2> QED
    BY <2>1, <1>a
<1>5. ASSUME NEW c \in Calls, StampIssued(c)
      PROVE  Tokens'
  <2>1. /\ last' = clock /\ clock > last /\ pc[c] = "queued" /\ pc' = [pc EXCEPT ![c] = "signing"]
        /\ stamp' = [stamp EXCEPT ![c] = IF posted[c] THEN stamp[c] ELSE clock]
        /\ UNCHANGED <<spent, posted, flight, reply>>
    BY <1>5 DEF StampIssued, Stamp, Goto, fredVars, history
  <2>2. ASSUME NEW d \in Calls, Holding(d)'
        PROVE  \/ Holding(d) /\ stamp'[d] = stamp[d]
               \/ d = c /\ stamp'[d] = clock
    <3>1. CASE d # c
      BY <2>1, <2>2, <3>1 DEF Holding
    <3>2. CASE d = c /\ ~posted[c]
      BY <2>1, <3>2
    <3>3. CASE d = c /\ posted[c]
      <4>1. c \in flight
        BY <2>1, <2>2, <3>3 DEF Holding
      <4> QED
        BY <2>1, <3>3, <4>1 DEF Holding
    <3> QED
      BY <3>1, <3>2, <3>3
  <2>3. \A d \in Calls : Holding(d) => stamp[d] < clock /\ stamp[d] \notin spent
    BY <2>1 DEF Tokens
  <2>4. clock \notin spent /\ (\A s \in spent : s <= clock) /\ clock <= clock
    BY <2>1 DEF Tokens, ProviderType
  <2>5. /\ \A s \in spent' : s <= last'
        /\ \A d \in Calls : Holding(d)' => stamp'[d] <= last' /\ stamp'[d] \notin spent'
    BY <2>1, <2>2, <2>3, <2>4
  <2>6. ASSUME NEW d \in Calls, NEW e \in Calls, Holding(d)', Holding(e)', d # e
        PROVE  stamp'[d] # stamp'[e]
    <3>1. CASE Holding(d) /\ Holding(e) /\ stamp'[d] = stamp[d] /\ stamp'[e] = stamp[e]
      BY <2>6, <3>1 DEF Tokens
    <3>2. CASE Holding(d) /\ stamp'[d] = stamp[d] /\ stamp'[e] = clock
      BY <2>3, <3>2
    <3>3. CASE Holding(e) /\ stamp'[e] = stamp[e] /\ stamp'[d] = clock
      BY <2>3, <3>3
    <3> QED
      BY <2>2, <2>6, <3>1, <3>2, <3>3
  <2> QED
    BY <2>1, <2>5, <2>6 DEF Tokens, NeverReplayed
<1>6. ASSUME NEW c \in Calls, SignFails(c)
      PROVE  Tokens'
  <2>1. Goal
    BY <1>6 DEF Goal, Holding, SignFails, End, config, tokenVars, fredVars, history
  <2> QED
    BY <2>1, <1>a
<1>7. ASSUME NEW c \in Calls, SendPost(c)
      PROVE  Tokens'
  <2>1. Goal
    BY <1>7 DEF Goal, Holding, SendPost, Goto, config, tokenVars
  <2> QED
    BY <2>1, <1>a
<1>8. ASSUME NEW c \in Calls, PostRefused(c)
      PROVE  Tokens'
  <2>1. Goal
    BY <1>8 DEF Goal, Holding, PostRefused, End, config, tokenVars, fredVars, history
  <2> QED
    BY <2>1, <1>a
<1>9. ASSUME NEW c \in Calls, PostUncertain(c)
      PROVE  Tokens'
  <2>1. Goal
    BY <1>9 DEF Goal, Holding, PostUncertain, End, config, tokenVars, fredVars, history
  <2> QED
    BY <2>1, <1>a
<1>10. ASSUME NEW c \in Calls, PostAccepted(c)
      PROVE  Tokens'
  <2>1. CASE Goto(c, "posting", "waiting")
    <3>1. Goal
      BY <1>10, <2>1 DEF Goal, Holding, PostAccepted, Goto, tokenVars, fredVars, history
    <3> QED
      BY <3>1, <1>a
  <2>2. CASE End(c, Says("accepted", key[c]))
    <3>1. Goal
      BY <1>10, <2>2 DEF Goal, Holding, PostAccepted, End, tokenVars, fredVars, history
    <3> QED
      BY <3>1, <1>a
  <2> QED
    BY <1>10, <2>1, <2>2 DEF PostAccepted
<1>11. ASSUME NEW c \in Calls, PollAsks(c)
      PROVE  Tokens'
  <2>1. Goal
    BY <1>11 DEF Goal, Holding, PollAsks, Goto, config, fredVars, history
  <2> QED
    BY <2>1, <1>a
<1>12. ASSUME NEW c \in Calls, PollReads(c)
      PROVE  Tokens'
  <2>1. Goal
    BY <1>12 DEF Goal, Holding, PollReads, Goto, config, tokenVars, fredVars, history
  <2> QED
    BY <2>1, <1>a
<1>13. ASSUME NEW c \in Calls, WaitEnds(c)
      PROVE  Tokens'
  <2>1. Goal
    BY <1>13 DEF Goal, Holding, WaitEnds, End, config, tokenVars, fredVars, history
  <2> QED
    BY <2>1, <1>a
<1>14. ASSUME NEW c \in Calls, Arrive(c)
      PROVE  Tokens'
  <2>1. /\ c \in flight /\ flight' = flight \ {c} /\ spent' = spent \cup {stamp[c]}
        /\ UNCHANGED <<pc, posted, last, stamp>>
    BY <1>14 DEF Arrive, callVars, tokenVars, history
  <2>2. posted[c] /\ Holding(c)
    BY <2>1 DEF Calling, Holding
  <2>3. stamp[c] \notin spent /\ stamp[c] <= last
    BY <2>2 DEF Tokens
  <2>4. \A d \in Calls : Holding(d)' => Holding(d) /\ d # c
    BY <2>1, <2>2 DEF Holding
  <2>5. \A d \in Calls : reply'[d] # "replayed"
    BY <1>14, <2>3 DEF Arrive, Answers, Records, Replies, Tokens, NeverReplayed, ProviderType
  <2> QED
    BY <2>1, <2>2, <2>3, <2>4, <2>5 DEF Tokens, NeverReplayed
<1>15. ASSUME NEW i \in Ids, Run(i)
      PROVE  Tokens'
  <2>1. Goal
    BY <1>15 DEF Goal, Holding, Run, callVars, tokenVars
  <2> QED
    BY <2>1, <1>a
<1>16. CASE LoseStorage
  <2>1. Goal
    BY <1>16 DEF Goal, Holding, LoseStorage, callVars, tokenVars, history
  <2> QED
    BY <2>1, <1>a
<1>17. CASE Tick
  <2>1. Goal
    BY <1>17 DEF Goal, Holding, Tick, callVars, tokenVars, fredVars, history
  <2> QED
    BY <2>1, <1>a
<1>18. CASE SetBack
  <2>1. Goal
    BY <1>18 DEF Goal, Holding, SetBack, callVars, tokenVars, fredVars, history
  <2> QED
    BY <2>1, <1>a
<1>19. CASE UNCHANGED vars
  <2>1. Goal
    BY <1>19 DEF Goal, Holding, vars, callVars, tokenVars, fredVars, history
  <2> QED
    BY <2>1, <1>a
<1> QED
  BY <1>1, <1>2, <1>3, <1>4, <1>5, <1>6, <1>7, <1>8, <1>9, <1>10,
     <1>11, <1>12, <1>13, <1>14, <1>15, <1>16, <1>17, <1>18, <1>19
     DEF Next, CallStep

LEMMA InitIInv == Init => IInv
<1> SUFFICES ASSUME Init PROVE IInv
  OBVIOUS
<1> USE DEF Init
<1>1. TypeOK
  <2>1. CallType
    BY DEF CallType, Pcs
  <2>2. AnswerType
    BY DEF AnswerType, Saying, Pending, Says
  <2>3. TokenType /\ HistoryType
    BY DEF TokenType, HistoryType
  <2>4. ProviderType
    BY DEF ProviderType
  <2> QED
    BY <2>1, <2>2, <2>3, <2>4, Parts
<1>2. Calling
  BY Saids DEF Calling, Pending
<1>3. Recordings /\ Effects
  <2>1. \A i \in Ids : ~Recorded(i)
    BY DEF Recorded
  <2>2. \A c \in Calls : effect[c] = 0
    OBVIOUS
  <2> QED
    BY <2>1, <2>2 DEF Recordings, Effects
<1>4. Claims
  <2>1. \A c \in Calls : answer[c].says = "pending" /\ reply[c] = "none" /\ ~posted[c]
    BY Saids DEF Pending
  <2> QED
    BY <2>1 DEF Claims, Settles, Accepts
<1>5. Tokens
  <2>1. \A c \in Calls : ~Holding(c) /\ reply[c] = "none"
    BY DEF Holding
  <2>2. spent = {}
    OBVIOUS
  <2> QED
    BY <2>1, <2>2 DEF Tokens, NeverReplayed
<1> QED
  BY <1>1, <1>2, <1>3, <1>4, <1>5 DEF IInv

LEMMA StepIInv == IInv /\ [Next]_vars => IInv'
<1> SUFFICES ASSUME IInv, [Next]_vars PROVE IInv'
  OBVIOUS
<1>1. TypeOK'
  BY TypeStep DEF IInv
<1>2. Calling' /\ Recordings' /\ Effects' /\ Claims' /\ Tokens'
  BY <1>1, CallingStep, RecordingsStep, EffectsStep, ClaimsStep, TokensStep
<1> QED
  BY <1>1, <1>2 DEF IInv

\* The inductive invariant holds in every state that updateApp, restartApp and
\* their provider reach.
THEOREM Invariance == Spec => []IInv
  BY InitIInv, StepIInv, PTL DEF Spec

\* Every variable of the model keeps its type.
THEOREM TypeCorrect == Spec => []TypeOK
<1>1. IInv => TypeOK
  BY DEF IInv
<1> QED
  BY <1>1, Invariance, PTL

\* The retries of updateApp and restartApp never run one command twice
\* (RunsAtMostOnce): calls that name one key carry it, so they share the
\* provider's record, and only the call the record is of has an effect.
THEOREM RunOnce == Spec => []RunsAtMostOnce
<1>1. IInv => RunsAtMostOnce
  <2> SUFFICES ASSUME IInv PROVE RunsAtMostOnce
    OBVIOUS
  <2> USE DEF IInv
  <2>1. \A c \in Calls : effect[c] <= 1
    BY DEF Effects
  <2>2. ASSUME NEW c \in Calls, NEW d \in Calls, c # d, SameCommand(c, d),
               effect[c] # 0, effect[d] # 0
        PROVE  FALSE
    <3>1. posted[c] /\ posted[d]
      <4>1. Id(c) \in Ids /\ Id(d) \in Ids
        BY IdType, Parts
      <4>2. /\ Recorded(Id(c)) /\ by[Id(c)] = c
            /\ Recorded(Id(d)) /\ by[Id(d)] = d
        BY <2>2 DEF Effects, Recorded
      <4> QED
        BY <4>1, <4>2 DEF Recordings
    <3>2. PICK k \in Names(c) \cap Names(d) : k # None
      BY <2>2 DEF SameCommand, Names
    <3>3. key[c] = k /\ key[d] = k
      BY <3>1, <3>2 DEF Names, Calling
    <3>4. Id(c) = Id(d)
      BY <3>2, <3>3 DEF Id
    <3> QED
      BY <2>2, <3>4 DEF Effects
  <2>3. \A c \in Calls : effect[c] \in Nat
    BY Parts DEF HistoryType
  <2> QED
    BY <2>1, <2>2 DEF RunsAtMostOnce
<1> QED
  BY <1>1, Invariance, PTL

\* What updateApp and restartApp answer of a command stays true (AnswersTrue).
THEOREM AnswersHold == Spec => []AnswersTrue
<1>1. IInv => AnswersTrue
  <2> SUFFICES ASSUME IInv PROVE AnswersTrue
    OBVIOUS
  <2> USE DEF IInv
  <2>1. ASSUME NEW c \in Calls, answer[c].says = "unsent"
        PROVE  c \notin flight /\ effect[c] = 0
    <3>1. ~posted[c] /\ c \notin flight
      BY <2>1 DEF Calling
    <3>2. Id(c) \in Ids
      BY IdType, Parts
    <3> QED
      BY <3>1, <3>2 DEF Effects, Recordings, Recorded
  <2>2. \A c \in Calls : answer[c].says = "notRun" => record[Id(c)] # "ran"
    BY DEF Claims, Settles, Settled
  <2>3. \A c \in Calls : answer[c].says = "accepted" => Recorded(Id(c))
    BY DEF Claims, Accepts
  <2> QED
    BY <2>1, <2>2, <2>3 DEF AnswersTrue
<1> QED
  BY <1>1, Invariance, PTL

\* Every answer after the POST left carries the key of its command (HandleKept):
\* maintenanceError and maintenanceWaitError hand it on whatever went wrong.
THEOREM HandlesKept == Spec => []HandleKept
<1>1. IInv => HandleKept
  BY DEF IInv, Calling, HandleKept
<1> QED
  BY <1>1, Invariance, PTL

\* AuthTimestampTracker never lets two POSTs carry one second (NeverReplayed).
THEOREM TokensUnspent == Spec => []NeverReplayed
<1>1. IInv => NeverReplayed
  BY DEF IInv, Tokens
<1> QED
  BY <1>1, Invariance, PTL

-----------------------------------------------------------------------------
(* The tracker's queue.                                                    *)

\* The queue holds the calls that await a second, each in one place.
QueueExact ==
  /\ \A i \in 1..Len(queue) : pc[queue[i]] = "queued"
  /\ \A i, j \in 1..Len(queue) : queue[i] = queue[j] => i = j
  /\ \A c \in Calls : pc[c] = "queued" => \E i \in 1..Len(queue) : queue[i] = c

\* A call that asks for a second comes last.
LEMMA Joins ==
  ASSUME TypeOK, QueueExact, NEW c \in Calls, pc[c] # "queued",
         pc' = [pc EXCEPT ![c] = "queued"], queue' = Append(queue, c)
  PROVE  QueueExact'
<1>1. queue \in Seq(Calls) /\ pc \in [Calls -> Pcs]
  BY DEF TypeOK
<1>2. /\ Len(queue) \in Nat /\ Len(queue') = Len(queue) + 1
      /\ \A i \in 1..Len(queue) : queue'[i] = queue[i] /\ queue[i] \in Calls
      /\ queue'[Len(queue) + 1] = c
  BY <1>1
<1>3. \A i \in 1..Len(queue) : queue[i] # c
  BY DEF QueueExact
<1>4. \A i \in 1..Len(queue') : i = Len(queue) + 1 \/ i \in 1..Len(queue)
  BY <1>2
<1>5. \A i \in 1..Len(queue') : pc'[queue'[i]] = "queued"
  BY <1>1, <1>2, <1>3, <1>4 DEF QueueExact
<1>6. \A i, j \in 1..Len(queue') : queue'[i] = queue'[j] => i = j
  BY <1>2, <1>3, <1>4 DEF QueueExact
<1>7. \A d \in Calls : pc'[d] = "queued" => \E i \in 1..Len(queue') : queue'[i] = d
  <2>1. ASSUME NEW d \in Calls, pc'[d] = "queued", d # c
        PROVE  \E i \in 1..Len(queue') : queue'[i] = d
    <3>1. PICK i \in 1..Len(queue) : queue[i] = d
      BY <1>1, <2>1 DEF QueueExact
    <3>2. i \in 1..Len(queue') /\ queue'[i] = d
      BY <1>2, <3>1
    <3> QED
      BY <3>2
  <2>2. Len(queue) + 1 \in 1..Len(queue')
    BY <1>2
  <2> QED
    BY <1>2, <2>1, <2>2
<1> QED
  BY <1>5, <1>6, <1>7 DEF QueueExact

\* The first in the queue, served or not, makes way for the next.
LEMMA Served ==
  ASSUME TypeOK, QueueExact, NEW c \in Calls, queue # <<>>, c = Head(queue),
         pc' = [pc EXCEPT ![c] = "signing"], queue' = Tail(queue)
  PROVE  QueueExact'
<1>1. queue \in Seq(Calls) /\ pc \in [Calls -> Pcs]
  BY DEF TypeOK
<1>2. /\ Len(queue) \in Nat /\ Len(queue) > 0 /\ Len(queue') = Len(queue) - 1
      /\ \A i \in 1..Len(queue') : queue'[i] = queue[i + 1] /\ i + 1 \in 1..Len(queue)
      /\ queue[1] = c
  BY <1>1
<1>3. \A i \in 1..Len(queue') : queue'[i] # c
  BY <1>2 DEF QueueExact
<1>4. \A i \in 1..Len(queue') : pc'[queue'[i]] = "queued"
  BY <1>1, <1>2, <1>3 DEF QueueExact
<1>5. \A i, j \in 1..Len(queue') : queue'[i] = queue'[j] => i = j
  BY <1>2 DEF QueueExact
<1>6. ASSUME NEW d \in Calls, pc'[d] = "queued"
      PROVE  \E i \in 1..Len(queue') : queue'[i] = d
  <2>1. d # c /\ pc[d] = "queued"
    BY <1>1, <1>6
  <2>2. PICK i \in 1..Len(queue) : queue[i] = d
    BY <2>1 DEF QueueExact
  <2>3. i - 1 \in 1..Len(queue') /\ queue'[i - 1] = d
    BY <1>2, <2>1, <2>2
  <2> QED
    BY <2>3
<1> QED
  BY <1>4, <1>5, <1>6 DEF QueueExact

\* Nothing else brings a call into the queue or out of it.
LEMMA QueueStep ==
  ASSUME TypeOK, QueueExact, [Next]_vars
  PROVE  QueueExact'
<1>1. ASSUME UNCHANGED queue,
             \A d \in Calls : pc'[d] = "queued" <=> pc[d] = "queued"
      PROVE  QueueExact'
  <2>1. \A i \in 1..Len(queue) : queue[i] \in Calls
    BY DEF TypeOK
  <2> QED
    BY <1>1, <2>1 DEF QueueExact
<1>2. ASSUME NEW c \in Calls, Resolved(c) \/ PollAsks(c)
      PROVE  QueueExact'
  BY <1>2, Joins DEF Resolved, PollAsks, Goto
<1>3. ASSUME NEW c \in Calls, StampIssued(c)
      PROVE  QueueExact'
  BY <1>3, Served DEF StampIssued, Stamp, Goto
<1>4. ASSUME NEW c \in Calls, NEW from \in Pcs \ {"queued"}, NEW to \in Pcs \ {"queued"},
             pc[c] = from, pc' = [pc EXCEPT ![c] = to], UNCHANGED queue
      PROVE  QueueExact'
  <2>1. pc \in [Calls -> Pcs]
    BY DEF TypeOK
  <2>2. \A d \in Calls : pc'[d] = "queued" <=> pc[d] = "queued"
    BY <1>4, <2>1
  <2> QED
    BY <1>1, <1>4, <2>2
<1>5. CASE \E c \in Calls : \/ \E k \in Keys \cup {None} : Begin(c, k)
                            \/ ResolveFails(c) \/ SignFails(c) \/ SendPost(c)
                            \/ PostRefused(c) \/ PostUncertain(c) \/ PostAccepted(c)
                            \/ PollReads(c) \/ WaitEnds(c)
  <2>1. PICK c \in Calls : \/ \E k \in Keys \cup {None} : Begin(c, k)
                           \/ ResolveFails(c) \/ SignFails(c) \/ SendPost(c)
                           \/ PostRefused(c) \/ PostUncertain(c) \/ PostAccepted(c)
                           \/ PollReads(c) \/ WaitEnds(c)
    BY <1>5
  <2>2. /\ pc[c] # "queued" /\ pc[c] \in Pcs
        /\ \E to \in Pcs \ {"queued"} : pc' = [pc EXCEPT ![c] = to]
        /\ UNCHANGED queue
    BY <2>1 DEF Begin, ResolveFails, SignFails, SendPost, PostRefused, PostUncertain,
       PostAccepted, PollReads, WaitEnds, Goto, End, tokenVars, Pcs
  <2> QED
    BY <1>4, <2>2
<1>6. CASE \/ \E c \in Calls : Abort(c) \/ Arrive(c)
           \/ \E i \in Ids : Run(i)
           \/ LoseStorage \/ Tick \/ SetBack
  BY <1>1, <1>6 DEF Abort, Arrive, Run, LoseStorage, Tick, SetBack, callVars, tokenVars
<1>7. CASE UNCHANGED vars
  BY <1>1, <1>7 DEF vars, callVars, tokenVars
<1> QED
  BY <1>2, <1>3, <1>5, <1>6, <1>7 DEF Next, CallStep

\* Whoever awaits a second is in AuthTimestampTracker's queue, once, whether it
\* was aborted meanwhile or not, and whoever is first there awaits it: the queue
\* moves whenever the clock does.
THEOREM TrackerExact == Spec => []QueueExact
<1>1. Init => QueueExact
  BY DEF Init, QueueExact
<1>2. IInv => TypeOK
  BY DEF IInv
<1>3. TypeOK /\ QueueExact /\ [Next]_vars => QueueExact'
  BY QueueStep
<1> QED
  BY <1>1, <1>2, <1>3, Invariance, PTL DEF Spec
=============================================================================
