-------------------------- MODULE RestoreApp_proofs --------------------------
(***************************************************************************)
(* Proofs about RestoreApp, for any number of concurrent calls.  Sound(c)  *)
(* is the inductive part: what a call's position says about its            *)
(* transaction, its POST and its answer.  Every step but LoseSource moves  *)
(* one call's state only, so each is checked for that call and leaves the  *)
(* others' Sound alone.                                                    *)
(***************************************************************************)
EXTENDS RestoreApp, TLAPS

BeforeCreated == {"idle", "reading", "creating", "waitCreate"}

\* The call's transaction is where its position says: a compensating cancel
\* that was seen executed has ended the lease.
TxPlaced(c) ==
  /\ pc[c] \notin {"waitCreate", "waitCancel", "ended"} => tx[c] = NoTx
  /\ pc[c] = "waitCreate" => \/ tx[c] = Tx("create-lease", c) /\ receipt[c] = "none"
                             \/ tx[c] = NoTx
  /\ pc[c] = "waitCancel" => \/ tx[c] = Tx("cancel-lease", c) /\ receipt[c] = "none"
                             \/ tx[c] = NoTx /\ (receipt[c] = "ok" => lease[c] = "rejected")

\* The POST leaves from "minting", with no transaction under way and none to
\* come, and only a POST that left is answered.
PostPlaced(c) ==
  /\ posted[c] => pc[c] \in {"posting", "polling", "ended"} /\ tx[c] = NoTx
  /\ post[c] # "none" => posted[c]
  /\ adopted[c] <=> post[c] = "accepted"
  /\ pc[c] = "polling" => adopted[c]

\* What an answer says is so.
AnswerHonest(c) ==
  /\ answer[c] # Pending <=> pc[c] = "ended"
  /\ created[c] => pc[c] \notin BeforeCreated
  /\ created[c] /\ pc[c] = "ended" => answer[c].named
  /\ posted[c] => created[c]
  /\ answer[c].rolledBack => lease[c] = "rejected" /\ ~posted[c]
  /\ answer[c].adoption = "committed" => adopted[c]
  /\ posted[c] /\ pc[c] = "ended" => answer[c].adoption \in {"unknown", "committed"}
  /\ pc[c] \in {"minting", "cancelling", "waitCancel", "posting", "polling"} => created[c]

Sound(c) == TxPlaced(c) /\ PostPlaced(c) /\ AnswerHonest(c)

IInv == TypeOK /\ \A c \in Calls : Sound(c)

USE DEF Pcs, Terminal, LeaseStates, Kinds, NoTx, Tx, Txs, Answer, Answers,
        Pending, LeaseChainTypeOK, BeforeCreated

\* The initial states satisfy the invariant.
LEMMA InitIInv == Init => IInv
  BY DEF Init, LeaseChainInit, IInv, TypeOK, Sound, TxPlaced, PostPlaced, AnswerHonest

\* The calls a step does not concern.
Untouched(d) ==
  /\ pc'[d] = pc[d]
  /\ answer'[d] = answer[d]
  /\ post'[d] = post[d]
  /\ adopted'[d] = adopted[d]
  /\ posted'[d] = posted[d]
  /\ created'[d] = created[d]
  /\ lease'[d] = lease[d]
  /\ tx'[d] = tx[d]
  /\ receipt'[d] = receipt[d]

LEMMA UntouchedSound ==
  ASSUME NEW d \in Calls, Sound(d), Untouched(d)
  PROVE  Sound(d)'
  BY DEF Sound, TxPlaced, PostPlaced, AnswerHonest, Untouched

\* A step of one call preserves the invariant.
LEMMA CallStepIInv ==
  ASSUME IInv, NEW c \in Calls, CallStep(c) \/ Abort(c)
  PROVE  IInv'
<1> USE DEF Goto, End, Refused, Committed, callVars, providerVars, history, ledger
<1>1. TypeOK' /\ Sound(c)' /\ \A d \in Calls \ {c} : Untouched(d)
  <2> USE DEF IInv, TypeOK, Sound, TxPlaced, PostPlaced, AnswerHonest, Untouched
  <2>1. CASE Abort(c)
    BY <2>1 DEF Abort
  <2>2. CASE Begin(c)
    BY <2>2 DEF Begin
  <2>3. CASE ReadFails(c)
    BY <2>3 DEF ReadFails
  <2>4. CASE Retained(c)
    BY <2>4 DEF Retained
  <2>5. CASE SendCreate(c)
    BY <2>5 DEF SendCreate, Submit
  <2>6. CASE CreateFails(c)
    BY <2>6 DEF CreateFails
  <2>7. CASE Created(c)
    BY <2>7 DEF Created
  <2>8. CASE MintFails(c)
    BY <2>8 DEF MintFails
  <2>9. CASE MintedAborted(c)
    BY <2>9 DEF MintedAborted
  <2>10. CASE SendPost(c)
    BY <2>10 DEF SendPost
  <2>11. CASE SendCancel(c)
    BY <2>11 DEF SendCancel, Submit
  <2>12. CASE CancelFails(c)
    BY <2>12, SMTT(30) DEF CancelFails
  <2>13. CASE Cancelled(c)
    BY <2>13 DEF Cancelled
  <2>14. CASE PostFails(c)
    BY <2>14 DEF PostFails
  <2>15. CASE PostAccepted(c)
    <3>1. CASE poll[c]
      <4>1. /\ pc' = [pc EXCEPT ![c] = "polling"]
            /\ pc[c] = "posting" /\ post[c] = "accepted"
            /\ UNCHANGED <<callVars, answer, providerVars, history, ledger>>
        BY <2>15, <3>1 DEF PostAccepted
      <4>2. TypeOK'
        BY <4>1
      <4>3. Sound(c)'
        BY <4>1
      <4>4. \A d \in Calls \ {c} : Untouched(d)
        BY <4>1
      <4> QED
        BY <4>2, <4>3, <4>4
    <3>2. CASE ~poll[c]
      <4>1. /\ pc' = [pc EXCEPT ![c] = "ended"]
            /\ answer' = [answer EXCEPT ![c] = Answer("ok", TRUE, FALSE, "committed")]
            /\ pc[c] = "posting" /\ post[c] = "accepted"
            /\ UNCHANGED <<callVars, providerVars, history, ledger>>
        BY <2>15, <3>2 DEF PostAccepted
      <4>2. TypeOK'
        BY <4>1
      <4>3. Sound(c)'
        BY <4>1
      <4>4. \A d \in Calls \ {c} : Untouched(d)
        BY <4>1
      <4> QED
        BY <4>2, <4>3, <4>4
    <3> QED
      BY <3>1, <3>2
  <2>16. CASE PollReady(c)
    BY <2>16 DEF PollReady
  <2>17. CASE PollUnconfirmed(c)
    BY <2>17 DEF PollUnconfirmed
  <2>18. CASE PollVerdict(c)
    BY <2>18 DEF PollVerdict
  <2>19. CASE PollCancelled(c)
    BY <2>19 DEF PollCancelled
  <2> QED
    BY <2>1, <2>2, <2>3, <2>4, <2>5, <2>6, <2>7, <2>8, <2>9, <2>10, <2>11,
       <2>12, <2>13, <2>14, <2>15, <2>16, <2>17, <2>18, <2>19 DEF CallStep
<1> QED
  BY <1>1, UntouchedSound, SMTT(30) DEF IInv

\* So does a step of the provider for one call, ...
LEMMA ProviderStepIInv ==
  ASSUME IInv, NEW c \in Calls, ProviderStep(c)
  PROVE  IInv'
<1> USE DEF callVars, history, ledger
<1>1. TypeOK' /\ Sound(c)' /\ \A d \in Calls \ {c} : Untouched(d)
  <2> USE DEF IInv, TypeOK, Sound, TxPlaced, PostPlaced, AnswerHonest, Untouched
  <2>1. CASE Adopt(c)
    BY <2>1 DEF Adopt
  <2>2. CASE Refuse(c)
    BY <2>2 DEF Refuse
  <2>3. CASE Provision(c)
    BY <2>3 DEF Provision
  <2> QED
    BY <2>1, <2>2, <2>3 DEF ProviderStep
<1> QED
  BY <1>1, UntouchedSound DEF IInv

\* ... and one of the chain: a lease that was rolled back never moves again.
LEMMA ChainStepIInv ==
  ASSUME IInv, NEW c \in Calls, ChainStep(c)
  PROVE  IInv'
<1> USE DEF callVars, providerVars, history
<1>1. TypeOK' /\ Sound(c)' /\ \A d \in Calls \ {c} : Untouched(d)
  <2> USE DEF IInv, TypeOK, Sound, TxPlaced, PostPlaced, AnswerHonest, Untouched, ChainStep
  <2>1. CASE Execute(c)
    <3>1. tx[c] \in {Tx("create-lease", c), Tx("cancel-lease", c)}
      BY <2>1 DEF Execute
    <3>2. CASE receipt' = [receipt EXCEPT ![c] = "failed"] /\ UNCHANGED lease
      BY <2>1, <3>1, <3>2 DEF Execute
    <3>3. CASE /\ tx[c] = Tx("create-lease", c)
               /\ lease[c] = "none"
               /\ lease' = [lease EXCEPT ![c] = "pending"]
               /\ receipt' = [receipt EXCEPT ![c] = "ok"]
      BY <2>1, <3>3 DEF Execute
    <3>4. CASE /\ tx[c] = Tx("cancel-lease", c)
               /\ lease[c] = "pending"
               /\ lease' = [lease EXCEPT ![c] = "rejected"]
               /\ receipt' = [receipt EXCEPT ![c] = "ok"]
      BY <2>1, <3>4 DEF Execute
    <3> QED
      BY <2>1, <3>1, <3>2, <3>3, <3>4 DEF Execute, From, To
  <2>2. CASE Evict(c)
    BY <2>2 DEF Evict
  <2>3. CASE Lapse(c)
    <3>1. PICK s \in Terminal : /\ lease[c] \in {"pending", "active"}
                               /\ lease' = [lease EXCEPT ![c] = s]
      BY <2>3 DEF Lapse
    <3> QED
      BY <2>3, <3>1 DEF Lapse
  <2>4. CASE Acknowledge(c)
    BY <2>4 DEF Acknowledge
  <2> QED
    BY <2>1, <2>2, <2>3, <2>4
<1> QED
  BY <1>1, UntouchedSound DEF IInv

LEMMA NextIInv == IInv /\ [Next]_vars => IInv'
<1> SUFFICES ASSUME IInv, [Next]_vars PROVE IInv'
  OBVIOUS
<1>1. CASE LoseSource
  <2>1. \A d \in Calls : Untouched(d)
    BY <1>1 DEF LoseSource, Untouched, callVars, history, ledger
  <2>2. TypeOK'
    BY <1>1 DEF LoseSource, IInv, TypeOK, callVars, history, ledger
  <2> QED
    BY <2>1, <2>2, UntouchedSound DEF IInv
<1>2. ASSUME NEW c \in Calls, CallStep(c) \/ Abort(c) PROVE IInv'
  BY <1>2, CallStepIInv
<1>3. ASSUME NEW c \in Calls, ProviderStep(c) PROVE IInv'
  BY <1>3, ProviderStepIInv
<1>4. ASSUME NEW c \in Calls, ChainStep(c) PROVE IInv'
  BY <1>4, ChainStepIInv
<1>5. CASE UNCHANGED vars
  BY <1>5 DEF vars, callVars, providerVars, history, ledger, IInv, TypeOK,
              Sound, TxPlaced, PostPlaced, AnswerHonest
<1> QED
  BY <1>1, <1>2, <1>3, <1>4, <1>5 DEF Next

\* The inductive invariant holds in every reachable state.
THEOREM IInvInvariant == Spec => []IInv
  BY InitIInv, NextIInv, PTL DEF Spec

\* Every state has its types, and no call sends a transaction for a lease that
\* is not its own.
THEOREM TypeCorrect == Spec => []TypeOK
<1>1. IInv => TypeOK
  BY DEF IInv
<1> QED
  BY <1>1, IInvInvariant, PTL

\* After the pivot nothing is compensated (restoreApp.ts: "Post-pivot: never
\* compensate from here on").
THEOREM PivotFinal == Spec => []NeverCancelsPosted
<1>1. IInv => NeverCancelsPosted
  BY DEF IInv, NeverCancelsPosted, Sound, PostPlaced
<1> QED
  BY <1>1, IInvInvariant, PTL

\* rolled_back: true is true, and stays true.
THEOREM RollbackTrue == Spec => []RolledBackTrue
<1>1. IInv => RolledBackTrue
  BY DEF IInv, RolledBackTrue, Sound, PostPlaced, AnswerHonest
<1> QED
  BY <1>1, IInvInvariant, PTL

\* No answer denies, or is silent about, an adoption that happened or happens
\* later, and none claims one that did not happen.
THEOREM VolumesReported == Spec => []VolumesAccountedFor
<1>1. IInv => VolumesAccountedFor
  BY DEF IInv, VolumesAccountedFor, Sound, PostPlaced, AnswerHonest
<1> QED
  BY <1>1, IInvInvariant, PTL

\* Every answer after creation names the lease.
THEOREM LeaseNamed == Spec => []CreatedLeaseNamed
<1>1. IInv => CreatedLeaseNamed
  BY DEF IInv, CreatedLeaseNamed, Sound, AnswerHonest
<1> QED
  BY <1>1, IInvInvariant, PTL

-----------------------------------------------------------------------------
(* A restore is RestoreOutcome to its callers.                             *)

\* What a call knows of has happened: a creation it was told of left a lease, and
\* only a lease that was created is named.
Informed(c) ==
  /\ created[c] => lease[c] # "none"
  /\ pc[c] = "waitCreate" /\ receipt[c] = "ok" => lease[c] # "none"
  /\ answer[c].named => created[c]
  /\ pc[c] = "posting" => posted[c]

\* The source gave its volumes away to whoever has them.
OneHome == \A c \in Calls : adopted[c] => source = "adopted"

RInv == OneHome /\ \A c \in Calls : Informed(c)

LEMMA InitRInv == Init => RInv
  BY DEF Init, LeaseChainInit, RInv, OneHome, Informed

\* A step of a call keeps it, ...
LEMMA CallInformed ==
  ASSUME IInv, RInv, NEW c \in Calls, CallStep(c) \/ Abort(c)
  PROVE  RInv'
<1> USE DEF Goto, End, Refused, Committed, callVars, providerVars, history, ledger
<1>1. /\ OneHome'
      /\ Informed(c)'
      /\ \A d \in Calls \ {c} : Informed(d)'
  <2> USE DEF IInv, TypeOK, RInv, OneHome, Informed, Sound, AnswerHonest
  <2>1. CASE Abort(c)
    BY <2>1 DEF Abort
  <2>2. CASE Begin(c) \/ Retained(c) \/ MintFails(c) \/ MintedAborted(c)
    BY <2>2 DEF Begin, Retained, MintFails, MintedAborted
  <2>3. CASE ReadFails(c) \/ CreateFails(c)
    BY <2>3 DEF ReadFails, CreateFails
  <2>4. CASE SendCreate(c)
    BY <2>4 DEF SendCreate, Submit
  <2>5. CASE Created(c)
    BY <2>5 DEF Created
  <2>6. CASE SendPost(c)
    BY <2>6 DEF SendPost
  <2>7. CASE SendCancel(c)
    BY <2>7 DEF SendCancel, Submit
  <2>8. CASE CancelFails(c) \/ Cancelled(c) \/ PostFails(c)
    BY <2>8 DEF CancelFails, Cancelled, PostFails
  <2>9. CASE PostAccepted(c)
    BY <2>9 DEF PostAccepted
  <2>10. CASE PollReady(c) \/ PollUnconfirmed(c) \/ PollVerdict(c) \/ PollCancelled(c)
    BY <2>10 DEF PollReady, PollUnconfirmed, PollVerdict, PollCancelled
  <2> QED
    BY <2>1, <2>2, <2>3, <2>4, <2>5, <2>6, <2>7, <2>8, <2>9, <2>10 DEF CallStep
<1> QED
  BY <1>1 DEF RInv

\* ... and so does any step: a lease never ceases to exist.
LEMMA NextRInv ==
  ASSUME IInv, RInv, [Next]_vars
  PROVE  RInv'
<1> USE DEF RInv, OneHome, Informed, callVars, providerVars, history, ledger
<1>0. TypeOK
  BY DEF IInv
<1>1. CASE LoseSource
  BY <1>1 DEF LoseSource
<1>2. ASSUME NEW c \in Calls, CallStep(c) \/ Abort(c) PROVE RInv'
  BY <1>2, CallInformed
<1>3. ASSUME NEW c \in Calls, ProviderStep(c) PROVE RInv'
  BY <1>0, <1>3 DEF ProviderStep, Adopt, Refuse, Provision, TypeOK
<1>4. ASSUME NEW c \in Calls, ChainStep(c) PROVE RInv'
  <2>1. \A d \in Calls : lease[d] # "none" => lease'[d] # "none"
    BY <1>0, <1>4 DEF ChainStep, Execute, Evict, Lapse, Acknowledge, From, To, TypeOK
  <2>2. \A d \in Calls : pc[d] = "waitCreate" /\ receipt'[d] = "ok" => lease'[d] # "none"
    <3>1. CASE Execute(c)
      <4>1. ASSUME NEW d \in Calls, pc[d] = "waitCreate", receipt'[d] = "ok", d # c
            PROVE  lease'[d] # "none"
        BY <1>0, <3>1, <4>1, <2>1 DEF Execute, TypeOK
      <4>2. ASSUME pc[c] = "waitCreate", receipt'[c] = "ok"
            PROVE  lease'[c] # "none"
        BY <1>0, <3>1, <4>2 DEF Execute, From, To, TypeOK, IInv, Sound, TxPlaced
      <4> QED
        BY <4>1, <4>2
    <3>2. CASE Evict(c) \/ Lapse(c) \/ Acknowledge(c)
      BY <3>2, <2>1 DEF Evict, Lapse, Acknowledge
    <3> QED
      BY <1>4, <3>1, <3>2 DEF ChainStep
  <2> QED
    BY <1>4, <2>1, <2>2 DEF ChainStep
<1>5. CASE UNCHANGED vars
  BY <1>5 DEF vars
<1> QED
  BY <1>1, <1>2, <1>3, <1>4, <1>5 DEF Next

\* A step that changes at most one call's fate.
LEMMA FateMoves ==
  ASSUME NEW c \in Calls, \A d \in Calls \ {c} : Fate(d)' = Fate(d)
  PROVE  [d \in Calls |-> Fate(d)]' = [[d \in Calls |-> Fate(d)] EXCEPT ![c] = Fate(c)']
  OBVIOUS

\* An honest answer to a call that has none is a step of RestoreOutcome.
LEMMA AnswerTells ==
  ASSUME TypeOK, NEW c \in Calls, NEW a \in Answers,
         answer[c] = Pending, a # Pending, Contract!Honest(a, Fate(c), posted[c]),
         answer' = [answer EXCEPT ![c] = a],
         UNCHANGED <<adopted, lease, posted>>
  PROVE  Contract!Next
<1>1. [d \in Calls |-> Fate(d)]' = [d \in Calls |-> Fate(d)]
  BY DEF Fate
<1>2. {d \in Calls : posted[d]}' = {d \in Calls : posted[d]}
  OBVIOUS
<1>3. Contract!Honest(a, [d \in Calls |-> Fate(d)][c], c \in {d \in Calls : posted[d]})
  BY DEF Contract!Honest
<1>4. Contract!Tell(c, a)
  BY <1>1, <1>2, <1>3 DEF Contract!Tell
<1> QED
  BY <1>4 DEF Contract!Next

LEMMA CallHonours ==
  ASSUME IInv, RInv, NEW c \in Calls, CallStep(c) \/ Abort(c)
  PROVE  [Contract!Next]_(Contract!restoreVars)
<1> USE DEF Goto, End, Refused, Committed, callVars, providerVars, history, ledger
<1>0. TypeOK /\ Sound(c) /\ Informed(c)
  BY DEF IInv, RInv
<1>1. CASE UNCHANGED <<answer, adopted, lease, posted>>
  BY <1>1 DEF Contract!restoreVars, Fate
<1>2. CASE SendPost(c)
  <2>1. posted' = [posted EXCEPT ![c] = TRUE] /\ UNCHANGED <<answer, adopted, lease>>
    BY <1>2 DEF SendPost
  <2>2. [d \in Calls |-> Fate(d)]' = [d \in Calls |-> Fate(d)]
    BY <2>1 DEF Fate
  <2>3. {d \in Calls : posted[d]}' = {d \in Calls : posted[d]} \cup {c}
    BY <1>0, <2>1 DEF TypeOK
  <2>4. pc[c] = "minting" /\ ~posted[c] /\ answer[c] = Pending /\ created[c]
    BY <1>0, <1>2 DEF SendPost, Sound, PostPlaced, AnswerHonest
  <2>5. Fate(c) # "none"
    BY <1>0, <2>4 DEF Fate, Informed
  <2>6. Contract!Ask(c)
    BY <2>1, <2>2, <2>3, <2>4, <2>5 DEF Contract!Ask
  <2> QED
    BY <2>6 DEF Contract!Next
<1>3. ASSUME NEW a \in Answers, End(c, a), a # Pending, pc[c] # "ended",
             Contract!Honest(a, Fate(c), posted[c]),
             UNCHANGED <<adopted, lease, posted>>
      PROVE  Contract!Next
  <2>1. answer[c] = Pending
    BY <1>0, <1>3 DEF Sound, AnswerHonest
  <2> QED
    BY <1>0, <1>3, <2>1, AnswerTells
<1>4. CASE ReadFails(c) \/ CreateFails(c)
  <2>1. pc[c] \in {"idle", "reading", "creating", "waitCreate"} /\ End(c, Refused)
        /\ UNCHANGED <<adopted, lease, posted>>
    BY <1>4 DEF ReadFails, CreateFails
  <2>2. ~posted[c]
    BY <1>0, <2>1 DEF Sound, PostPlaced
  <2>3. Contract!Honest(Refused, Fate(c), posted[c])
    BY <2>2 DEF Contract!Honest
  <2> QED
    BY <1>3, <2>1, <2>3
<1>5. CASE CancelFails(c)
  <2>1. ~posted[c] /\ created[c] /\ pc[c] # "ended"
    BY <1>0, <1>5 DEF CancelFails, Sound, PostPlaced, AnswerHonest
  <2>2. Contract!Honest(Answer("failed", TRUE, FALSE, "not_adopted"), Fate(c), posted[c])
    BY <1>0, <2>1 DEF Contract!Honest, Fate, Informed
  <2> QED
    BY <1>3, <1>5, <2>1, <2>2 DEF CancelFails
<1>6. CASE Cancelled(c)
  <2>1. pc[c] = "waitCancel" /\ ~posted[c] /\ ~adopted[c] /\ lease[c] = "rejected"
    BY <1>0, <1>6 DEF Cancelled, Sound, TxPlaced, PostPlaced, TypeOK
  <2>2. \A k \in {"cancelled", "failed"} :
          Contract!Honest(Answer(k, TRUE, TRUE, "not_adopted"), Fate(c), posted[c])
    BY <2>1 DEF Contract!Honest, Fate
  <2>3. PICK k \in {"cancelled", "failed"} : End(c, Answer(k, TRUE, TRUE, "not_adopted"))
    BY <1>6 DEF Cancelled
  <2> QED
    BY <1>3, <1>6, <2>1, <2>2, <2>3 DEF Cancelled
<1>7. CASE PostFails(c)
  <2>1. posted[c] /\ created[c]
    BY <1>0, <1>7 DEF PostFails, Informed, Sound, AnswerHonest
  <2>2. Contract!Honest(Answer("failed", TRUE, FALSE, "unknown"), Fate(c), posted[c])
    BY <1>0, <2>1 DEF Contract!Honest, Fate, Informed
  <2> QED
    BY <1>3, <1>7, <2>2 DEF PostFails
<1>8. ASSUME NEW k \in {"ok", "failed", "cancelled"}, End(c, Committed(k)),
             pc[c] # "ended", adopted[c], UNCHANGED <<adopted, lease, posted>>
      PROVE  Contract!Next
  <2>1. posted[c]
    BY <1>0, <1>8 DEF Sound, PostPlaced
  <2>2. Contract!Honest(Committed(k), Fate(c), posted[c])
    BY <1>8, <2>1 DEF Contract!Honest, Fate
  <2> QED
    BY <1>3, <1>8, <2>2
<1>9. CASE PostAccepted(c)
  <2>1. adopted[c] /\ pc[c] = "posting"
    BY <1>0, <1>9 DEF PostAccepted, Sound, PostPlaced
  <2>2. UNCHANGED answer \/ End(c, Committed("ok"))
    BY <1>9 DEF PostAccepted
  <2> QED
    BY <1>1, <1>8, <1>9, <2>1, <2>2 DEF PostAccepted
<1>10. CASE PollReady(c) \/ PollUnconfirmed(c) \/ PollVerdict(c) \/ PollCancelled(c)
  <2>1. adopted[c]
    BY <1>0, <1>10 DEF PollReady, PollUnconfirmed, PollVerdict, PollCancelled, Sound, PostPlaced
  <2> QED
    BY <1>8, <1>10, <2>1 DEF PollReady, PollUnconfirmed, PollVerdict, PollCancelled
<1>11. CASE \/ Abort(c) \/ Begin(c) \/ Retained(c) \/ SendCreate(c) \/ Created(c)
            \/ MintFails(c) \/ MintedAborted(c) \/ SendCancel(c)
  BY <1>1, <1>11 DEF Abort, Begin, Retained, SendCreate, Submit, Created, MintFails,
                     MintedAborted, SendCancel
<1> QED
  BY <1>2, <1>4, <1>5, <1>6, <1>7, <1>9, <1>10, <1>11 DEF CallStep

\* A POST takes effect, in time or not: the volumes move to one lease.
LEMMA AdoptMoves ==
  ASSUME IInv, RInv, NEW c \in Calls, Adopt(c)
  PROVE  Contract!Next
<1>0. TypeOK /\ Sound(c) /\ Informed(c)
  BY DEF IInv, RInv
<1>1. /\ post[c] = "sent" /\ source = "retained" /\ lease[c] = "pending"
      /\ adopted' = [adopted EXCEPT ![c] = TRUE]
      /\ UNCHANGED <<answer, posted, lease>>
  BY DEF Adopt, history, ledger
<1>2. posted[c] /\ ~adopted[c]
  BY <1>0, <1>1 DEF Sound, PostPlaced
<1>3. answer[c] = Pending \/ answer[c].adoption = "unknown"
  BY <1>0, <1>2 DEF Sound, AnswerHonest
<1>4. \A d \in Calls : Fate(d) # "moved"
  BY <1>1 DEF Fate, RInv, OneHome
<1>5. Fate(c) = "held" /\ Fate(c)' = "moved"
  BY <1>0, <1>1, <1>2 DEF Fate, TypeOK
<1>6. \A d \in Calls \ {c} : Fate(d)' = Fate(d)
  BY <1>0, <1>1 DEF Fate, TypeOK
<1>7. [d \in Calls |-> Fate(d)]' = [[d \in Calls |-> Fate(d)] EXCEPT ![c] = "moved"]
  BY <1>5, <1>6, FateMoves
<1>8. {d \in Calls : posted[d]}' = {d \in Calls : posted[d]}
  BY <1>1
<1>9. Contract!Move(c)
  BY <1>1, <1>2, <1>3, <1>4, <1>5, <1>7, <1>8 DEF Contract!Move
<1> QED
  BY <1>9 DEF Contract!Next

\* A lease comes to exist, or ends, by whatever hand.
LEMMA ChainHonours ==
  ASSUME IInv, RInv, NEW c \in Calls, ChainStep(c)
  PROVE  [Contract!Next]_(Contract!restoreVars)
<1>0. TypeOK /\ Sound(c) /\ Informed(c)
  BY DEF IInv, RInv
<1>1. UNCHANGED <<answer, adopted, posted>>
  BY DEF ChainStep, providerVars, history
<1>2. \A d \in Calls \ {c} : lease'[d] = lease[d]
  BY <1>0 DEF ChainStep, Execute, Evict, Lapse, Acknowledge, TypeOK
<1>3. \A d \in Calls \ {c} : Fate(d)' = Fate(d)
  BY <1>1, <1>2 DEF Fate
<1>4. [d \in Calls |-> Fate(d)]' = [[d \in Calls |-> Fate(d)] EXCEPT ![c] = Fate(c)']
  BY <1>3, FateMoves
<1>5. {d \in Calls : posted[d]}' = {d \in Calls : posted[d]}
  BY <1>1
<1>6. CASE Fate(c)' = Fate(c)
  <2>1. [d \in Calls |-> Fate(d)]' = [d \in Calls |-> Fate(d)]
    BY <1>3, <1>6
  <2> QED
    BY <1>1, <1>5, <2>1 DEF Contract!restoreVars
<1>7. CASE Fate(c) = "none" /\ Fate(c)' = "held"
  <2>1. ~answer[c].named
    BY <1>0, <1>7 DEF Fate, Informed
  <2>2. Contract!Reserve(c)
    BY <1>1, <1>4, <1>5, <1>7, <2>1 DEF Contract!Reserve
  <2> QED
    BY <2>2 DEF Contract!Next
<1>8. CASE Fate(c) = "held" /\ Fate(c)' = "ended"
  <2>1. Contract!End(c)
    BY <1>1, <1>4, <1>5, <1>8 DEF Contract!End
  <2> QED
    BY <2>1 DEF Contract!Next
<1>9. CASE adopted[c]
  BY <1>1, <1>6, <1>9 DEF Fate
<1>10. CASE ~adopted[c]
  <2>1. \/ lease'[c] = lease[c]
        \/ lease[c] = "none" /\ lease'[c] = "pending"
        \/ lease[c] \in {"pending", "active"} /\ lease'[c] \in Terminal
    <3>1. CASE Execute(c)
      BY <1>0, <3>1 DEF Execute, From, To, TypeOK
    <3>2. CASE Lapse(c)
      BY <1>0, <3>2 DEF Lapse, TypeOK
    <3> QED
      BY <1>10, <3>1, <3>2 DEF ChainStep, Evict
  <2> QED
    BY <1>1, <1>6, <1>7, <1>8, <1>10, <2>1 DEF Fate
<1> QED
  BY <1>9, <1>10

LEMMA StepHonours ==
  ASSUME IInv, RInv, [Next]_vars
  PROVE  [Contract!Next]_(Contract!restoreVars)
<1>1. CASE UNCHANGED <<answer, adopted, lease, posted>>
  BY <1>1 DEF Contract!restoreVars, Fate
<1>2. ASSUME NEW c \in Calls, CallStep(c) \/ Abort(c)
      PROVE  [Contract!Next]_(Contract!restoreVars)
  BY <1>2, CallHonours
<1>3. ASSUME NEW c \in Calls, ProviderStep(c)
      PROVE  [Contract!Next]_(Contract!restoreVars)
  BY <1>1, <1>3, AdoptMoves DEF ProviderStep, Refuse, Provision, history, ledger
<1>4. ASSUME NEW c \in Calls, ChainStep(c)
      PROVE  [Contract!Next]_(Contract!restoreVars)
  BY <1>4, ChainHonours
<1> QED
  BY <1>1, <1>2, <1>3, <1>4
     DEF Next, LoseSource, vars, providerVars, history, ledger

\* To its callers every restore is RestoreOutcome.
THEOREM RestoreImplemented == Spec => ImplementsRestoreOutcome
<1>1. Init => Contract!Init
  BY DEF Init, LeaseChainInit, Contract!Init, Fate
<1>2. Spec => [](IInv /\ RInv)
  BY InitIInv, NextIInv, InitRInv, NextRInv, PTL DEF Spec
<1> QED
  BY <1>1, <1>2, StepHonours, PTL DEF Spec, ImplementsRestoreOutcome, Contract!Spec

\* Whatever comes late, the answers given under RestoreOutcome stay true, and the
\* volumes are never in two places.
THEOREM RestoreTold == Contract!Spec => []Contract!TellsTruth
<1>. DEFINE F == [c \in Calls |-> Fate(c)]
            Q == {c \in Calls : posted[c]}
            Total == DOMAIN answer = Calls
            True(a, f, q) == /\ f \in Contract!Fates
                             /\ a # Pending => Contract!Honest(a, f, q)
                             /\ f = "moved" => q
            Single(f) == \A c, d \in Calls : f[c] = "moved" /\ f[d] = "moved" => c = d
            Truth == (\A c \in Calls : True(answer[c], F[c], c \in Q)) /\ Single(F)
<1>1. Contract!Init => Truth /\ Total
  BY DEF Contract!Init, Contract!Fates
<1>2. ASSUME Truth, Total, [Contract!Next]_(Contract!restoreVars)
      PROVE  Truth' /\ Total'
  <2>. DEFINE Kept == (\A d \in Calls : True(answer'[d], F'[d], d \in Q')) /\ Single(F') /\ Total'
  <2>. HIDE DEF F, Q
  <2>. USE DEF Contract!Honest, Contract!Fates
  <2>0. DOMAIN F = Calls
    BY DEF F
  <2>1. ASSUME NEW c \in Calls, Contract!Reserve(c)
        PROVE  Kept
    <3>1. F[c] = "none" /\ ~answer[c].named /\ F' = [F EXCEPT ![c] = "held"] /\ Q' = Q
          /\ answer' = answer
      BY <2>1 DEF Contract!Reserve, F, Q
    <3>. QED
      BY <1>2, <2>0, <3>1
  <2>2. ASSUME NEW c \in Calls, Contract!Ask(c)
        PROVE  Kept
    <3>1. answer[c] = Pending /\ F' = F /\ Q' = Q \cup {c} /\ answer' = answer
      BY <2>2 DEF Contract!Ask, F, Q
    <3>. QED
      BY <1>2, <2>0, <3>1
  <2>3. ASSUME NEW c \in Calls, Contract!Move(c)
        PROVE  Kept
    <3>1. /\ F[c] = "held" /\ c \in Q /\ F' = [F EXCEPT ![c] = "moved"] /\ Q' = Q
          /\ \A d \in Calls : F[d] # "moved"
          /\ answer[c] = Pending \/ answer[c].adoption = "unknown"
          /\ answer' = answer
      BY <2>3 DEF Contract!Move, F, Q
    <3>. QED
      BY <1>2, <2>0, <3>1
  <2>4. ASSUME NEW c \in Calls, Contract!End(c)
        PROVE  Kept
    <3>1. F[c] = "held" /\ F' = [F EXCEPT ![c] = "ended"] /\ Q' = Q /\ answer' = answer
      BY <2>4 DEF Contract!End, F, Q
    <3>. QED
      BY <1>2, <2>0, <3>1
  <2>5. ASSUME NEW c \in Calls, NEW a \in Answers, Contract!Tell(c, a)
        PROVE  Kept
    <3>1. /\ Contract!Honest(a, F[c], c \in Q) /\ answer' = [answer EXCEPT ![c] = a]
          /\ F' = F /\ Q' = Q
      BY <2>5 DEF Contract!Tell, F, Q
    <3>2. answer'[c] = a /\ \A d \in Calls \ {c} : answer'[d] = answer[d]
      BY <1>2, <3>1
    <3>3. True(a, F[c], c \in Q)
      BY <1>2, <3>1
    <3>. HIDE DEF True
    <3>4. \A d \in Calls : True(answer'[d], F'[d], d \in Q')
      BY <1>2, <3>1, <3>2, <3>3
    <3>. QED
      BY <1>2, <3>1, <3>4
  <2>6. CASE UNCHANGED Contract!restoreVars
    <3>1. answer' = answer /\ F' = F /\ Q' = Q
      BY <2>6 DEF Contract!restoreVars, F, Q
    <3>. QED
      BY <1>2, <3>1
  <2>. QED
    BY <1>2, <2>1, <2>2, <2>3, <2>4, <2>5, <2>6 DEF Contract!Next
<1>3. Truth => Contract!TellsTruth
  BY DEF Contract!TellsTruth
<1>. QED
  BY <1>1, <1>2, <1>3, PTL DEF Contract!Spec
=============================================================================
