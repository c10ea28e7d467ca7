---------------------------- MODULE Maintenance ----------------------------
(***************************************************************************)
(* restartApp and updateApp of fred on one lease: the command key of the   *)
(* PR #240 contract and the keyless v0.13 one, the provider token that     *)
(* needs a second of its own (AuthTimestampTracker), the POST that nothing *)
(* cancels, and what each call says of its command afterwards.  Callers    *)
(* retry a command under the key they hold.                                *)
(*                                                                         *)
(* The provider is external, as the docs tell callers to expect it: it     *)
(* runs a command once per key, answers a known key from its record, and   *)
(* keys a keyless request by itself if it admits one.  A POST may arrive   *)
(* after its caller gave up on it, and its answer may be lost.             *)
(***************************************************************************)
EXTENDS Naturals, Sequences

CONSTANTS Calls,       \* calls of restartApp or updateApp on the lease
          Keys,        \* idempotency keys
          MaxPolls,    \* bound on the status reads of one call
          MaxLag,      \* bound on how far the clock falls behind the last token
          None

ASSUME NoneAssumption == None \notin Calls \cup Keys
ASSUME KeysAssumption == Calls \cap Keys = {}
ASSUME BoundsAssumption == MaxPolls \in Nat /\ MaxLag \in Nat

VARIABLES
  pc,          \* where a call is
  mode,        \* its fredCompatibility
  aborted,     \* its signal has fired, and it goes on
  supplied,    \* the key its caller supplied, or None
  key,         \* the key its command carries, or None
  polls,       \* status reads it has begun
  answer,      \* what its caller was told
  queue,       \* calls that await the tracker, in turn
  last,        \* the second the tracker gave last
  stamp,       \* the second of the token a call posts with
  clock,       \* the wall clock's second
  provider,    \* the contract the provider runs
  lostStorage, \* its storage of the lease is lost
  flight,      \* calls whose POST is on its way
  reply,       \* the provider's answer to a call's POST
  record,      \* a command's record at the provider
  by,          \* the call whose POST was recorded
  spent,       \* seconds of the tokens the provider has seen
  posted,      \* history: the POST was sent
  effect       \* history: how often the command ran for a call's POST

callVars  == <<pc, mode, aborted, supplied, key, polls, answer>>
tokenVars == <<queue, last, stamp>>
fredVars  == <<provider, lostStorage, flight, reply, record, by, spent>>
history   == <<posted, effect>>
vars      == <<callVars, tokenVars, clock, fredVars, history>>

Pcs == {"idle", "resolving", "queued", "signing", "posting", "waiting", "ended"}

\* An answer: what it says of the command, and the key it carries.
Says(s, k) == [says |-> s, key |-> k]
Pending == Says("pending", None)
Unsent  == Says("unsent", None)

\* A keyless command is named after its call.
Ids == Keys \cup Calls
Id(c) == IF key[c] # None THEN key[c] ELSE c

Init ==
  /\ pc = [c \in Calls |-> "idle"]
  /\ mode \in [Calls -> {"pr240", "v0.13"}]
  /\ aborted = [c \in Calls |-> FALSE]
  /\ supplied = [c \in Calls |-> None]
  /\ key = [c \in Calls |-> None]
  /\ polls = [c \in Calls |-> 0]
  /\ answer = [c \in Calls |-> Pending]
  /\ queue = <<>>
  /\ last = 0
  /\ stamp = [c \in Calls |-> 0]
  /\ clock = 1
  /\ provider \in {"v0.13", "pr240", "listed"}
  /\ provider = "v0.13" => \A c \in Calls : mode[c] = "v0.13"
  /\ lostStorage = FALSE
  /\ flight = {}
  /\ reply = [c \in Calls |-> "none"]
  /\ record = [i \in Ids |-> "none"]
  /\ by = [i \in Ids |-> None]
  /\ spent = {}
  /\ posted = [c \in Calls |-> FALSE]
  /\ effect = [c \in Calls |-> 0]

-----------------------------------------------------------------------------
(* Up to the token.                                                        *)

Goto(c, from, to) == pc[c] = from /\ pc' = [pc EXCEPT ![c] = to]
config == <<mode, supplied>>

End(c, a) ==
  /\ pc' = [pc EXCEPT ![c] = "ended"]
  /\ answer' = [answer EXCEPT ![c] = a]
  /\ aborted' = [aborted EXCEPT ![c] = FALSE]
  /\ UNCHANGED <<config, key, polls>>

\* Keys are interchangeable: one that is new stands for all that are.
Unused == {k \in Keys : \A c \in Calls : supplied[c] # k /\ key[c] # k}
Fresh == {k \in Unused : k = CHOOSE f \in Unused : TRUE}

\* Keys that callers hold: they made them, or an answer named them.
Held == {supplied[c] : c \in Calls} \cup {answer[c].key : c \in Calls}

\* A caller supplies no key, a new one, or one that it holds from before.
Begin(c, k) ==
  /\ Goto(c, "idle", "resolving")
  /\ k \in {None} \cup Fresh \cup Held
  /\ supplied' = [supplied EXCEPT ![c] = k]
  /\ UNCHANGED <<mode, aborted, key, polls, answer, tokenVars, clock, fredVars, history>>

\* The signal, or the call's deadline, fires.
Abort(c) ==
  /\ pc[c] \notin {"idle", "ended"}
  /\ ~aborted[c]
  /\ aborted' = [aborted EXCEPT ![c] = TRUE]
  /\ UNCHANGED <<pc, config, key, polls, answer, tokenVars, clock, fredVars, history>>

\* Its signal had fired before, a bad manifest, no active lease, no provider URL,
\* or a key that its mode does not allow.
ResolveFails(c) ==
  /\ pc[c] = "resolving"
  /\ End(c, Unsent)
  /\ UNCHANGED <<tokenVars, clock, fredVars, history>>

\* Mutant: the command is given a key of its own whatever the caller supplied.
CommandKeyMinted(c) ==
  IF mode[c] = "pr240" THEN Fresh
  ELSE IF supplied[c] = None THEN {None} ELSE {}

\* resolveMaintenanceCommandKey: the caller's key or a fresh one, and none under
\* the v0.13 contract, which refuses to be given one.
CommandKey(c) ==
  IF mode[c] = "pr240"
  THEN IF supplied[c] # None THEN {supplied[c]} ELSE Fresh
  ELSE IF supplied[c] = None THEN {None} ELSE {}

\* The key is settled; the call asks for a token.
Resolved(c) ==
  /\ Goto(c, "resolving", "queued")
  /\ \E k \in CommandKey(c) : key' = [key EXCEPT ![c] = k]
  /\ queue' = Append(queue, c)
  /\ UNCHANGED <<config, aborted, polls, answer, last, stamp, clock, fredVars, history>>

Stamp(c) ==
  /\ queue # <<>>
  /\ c = Head(queue)
  /\ queue' = Tail(queue)
  /\ last' = clock
  /\ stamp' = [stamp EXCEPT ![c] = IF posted[c] THEN @ ELSE clock]
  /\ Goto(c, "queued", "signing")
  /\ UNCHANGED <<config, aborted, key, polls, answer, clock, fredVars, history>>

\* Mutants: the clock is looked at once, after a sleep; a call that was aborted
\* while it waited never takes its turn.
StampAnyhow(c) == Stamp(c)
StampUnlessAborted(c) == ~aborted[c] /\ clock > last /\ Stamp(c)

\* AuthTimestampTracker: the first in the queue sleeps until the clock shows a
\* second that was not given yet.  Nothing aborts it.
StampIssued(c) == clock > last /\ Stamp(c)

-----------------------------------------------------------------------------
(* The POST.                                                               *)

\* The wallet does not sign, or the last look at the signal finds that it fired.
SignFails(c) ==
  /\ pc[c] = "signing"
  /\ ~posted[c]
  /\ End(c, Unsent)
  /\ UNCHANGED <<tokenVars, clock, fredVars, history>>

\* The POST, which takes no signal.
SendPost(c) ==
  /\ Goto(c, "signing", "posting")
  /\ ~posted[c]
  /\ ~aborted[c]
  /\ posted' = [posted EXCEPT ![c] = TRUE]
  /\ flight' = flight \cup {c}
  /\ UNCHANGED <<config, aborted, key, polls, answer, tokenVars, clock, provider,
                 lostStorage, reply, record, by, spent, effect>>

\* Mutant: any refusal counts as proof that the command did not run.
PostRefusedNotRun(c) ==
  /\ pc[c] = "posting"
  /\ reply[c] \in {"refused", "expired", "lost", "keyRequired", "full"}
  /\ End(c, Says(IF reply[c] = "full" THEN "notRecorded" ELSE "notRun", key[c]))
  /\ UNCHANGED <<tokenVars, clock, fredVars, history>>

\* A refusal.  Only definitive answers say that the command did not run, or was
\* not recorded; any other says nothing of an earlier attempt.
PostRefused(c) ==
  /\ pc[c] = "posting"
  /\ reply[c] \in {"refused", "expired", "lost", "keyRequired", "full"}
  /\ End(c, Says(CASE reply[c] = "refused" -> "unknown"
                   [] reply[c] = "full" -> "notRecorded"
                   [] OTHER -> "notRun", key[c]))
  /\ UNCHANGED <<tokenVars, clock, fredVars, history>>

\* No answer in time, a 5xx, or an answer that cannot be read.
PostUncertain(c) ==
  /\ pc[c] = "posting"
  /\ End(c, Says("unknown", key[c]))
  /\ UNCHANGED <<tokenVars, clock, fredVars, history>>

\* 202: on to the wait, or done if the caller wants none (pollOptions: false).
PostAccepted(c) ==
  /\ reply[c] = "accepted"
  /\ \/ /\ Goto(c, "posting", "waiting")
        /\ UNCHANGED <<config, aborted, key, polls, answer>>
     \/ pc[c] = "posting" /\ End(c, Says("accepted", key[c]))
  /\ UNCHANGED <<tokenVars, clock, fredVars, history>>

-----------------------------------------------------------------------------
(* The wait, whose reads each take a token of their own.                   *)

PollAsks(c) ==
  /\ Goto(c, "waiting", "queued")
  /\ ~aborted[c]
  /\ polls[c] < MaxPolls
  /\ polls' = [polls EXCEPT ![c] = @ + 1]
  /\ queue' = Append(queue, c)
  /\ UNCHANGED <<config, aborted, key, answer, last, stamp, clock, fredVars, history>>

PollReads(c) ==
  /\ Goto(c, "signing", "waiting")
  /\ posted[c]
  /\ ~aborted[c]
  /\ UNCHANGED <<config, aborted, key, polls, answer, tokenVars, clock, fredVars, history>>

\* Mutant: the wait's error replaces what is known of the command.
WaitEndsBare(c) ==
  /\ pc[c] \in {"waiting", "signing"}
  /\ posted[c]
  /\ End(c, Says("accepted", IF aborted[c] THEN None ELSE key[c]))
  /\ UNCHANGED <<tokenVars, clock, fredVars, history>>

\* Ready, a verdict, none in time, no token, or the signal: all of them say that
\* the command was accepted.
WaitEnds(c) ==
  /\ pc[c] \in {"waiting", "signing"}
  /\ posted[c]
  /\ End(c, Says("accepted", key[c]))
  /\ UNCHANGED <<tokenVars, clock, fredVars, history>>

-----------------------------------------------------------------------------
(* The provider.                                                           *)

\* What it does with a command it has a record of, or has not.
Recorded(i) == record[i] # "none"
Admits(c) == key[c] # None \/ provider # "pr240"
Busy(i) == \E j \in Ids \ {i} : record[j] = "pending"
Newer(i) == \E j \in Ids \ {i} : Recorded(j)

\* An answer that nobody waits for any more is lost.
Replies(c, r) == reply' = [reply EXCEPT ![c] = IF pc[c] = "posting" THEN r ELSE @]
Answers(c, r) ==
  /\ Replies(c, r)
  /\ UNCHANGED <<record, by>>
Records(c, s, r) ==
  /\ Replies(c, r)
  /\ record' = [record EXCEPT ![Id(c)] = s]
  /\ by' = [by EXCEPT ![Id(c)] = c]

\* A POST arrives: its token is spent, a known command is answered as recorded,
\* and a new one is taken, refused, or settled as older than another.
Arrive(c) ==
  LET i == Id(c) IN
  /\ c \in flight
  /\ flight' = flight \ {c}
  /\ spent' = spent \cup {stamp[c]}
  /\ \/ stamp[c] \in spent /\ Answers(c, "replayed")
     \/ /\ stamp[c] \notin spent
        /\ \/ Answers(c, "refused")
           \/ ~Admits(c) /\ Answers(c, "keyRequired")
           \/ Admits(c) /\ record[i] \in {"pending", "ran"} /\ Answers(c, "accepted")
           \/ Admits(c) /\ record[i] = "expired" /\ Answers(c, "expired")
           \/ /\ Admits(c) /\ ~Recorded(i)
              /\ \/ lostStorage /\ Answers(c, "lost")
                 \/ ~lostStorage /\ Answers(c, "full")
                 \/ ~lostStorage /\ ~Busy(i) /\ Records(c, "pending", "accepted")
                 \/ ~lostStorage /\ Newer(i) /\ Records(c, "expired", "expired")
  /\ UNCHANGED <<callVars, tokenVars, clock, provider, lostStorage, history>>

\* A recorded command runs.
Run(i) ==
  /\ record[i] = "pending"
  /\ ~lostStorage
  /\ record' = [record EXCEPT ![i] = "ran"]
  /\ effect' = [effect EXCEPT ![by[i]] = @ + 1]
  /\ UNCHANGED <<callVars, tokenVars, clock, provider, lostStorage, flight, reply, by,
                 spent, posted>>

LoseStorage ==
  /\ ~lostStorage
  /\ lostStorage' = TRUE
  /\ UNCHANGED <<callVars, tokenVars, clock, provider, flight, reply, record, by, spent,
                 history>>

\* The clock: seconds that nobody looks at are left out; it may be set back.
Tick ==
  /\ clock <= last
  /\ clock' = clock + 1
  /\ UNCHANGED <<callVars, tokenVars, fredVars, history>>

SetBack ==
  /\ clock > 0
  /\ clock + MaxLag > last
  /\ clock' = clock - 1
  /\ UNCHANGED <<callVars, tokenVars, fredVars, history>>

-----------------------------------------------------------------------------

CallStep(c) ==
  \/ ResolveFails(c) \/ Resolved(c) \/ StampIssued(c)
  \/ SignFails(c) \/ SendPost(c)
  \/ PostRefused(c) \/ PostUncertain(c) \/ PostAccepted(c)
  \/ PollAsks(c) \/ PollReads(c) \/ WaitEnds(c)

Next ==
  \/ \E c \in Calls, k \in Keys \cup {None} : Begin(c, k)
  \/ \E c \in Calls : Abort(c) \/ CallStep(c) \/ Arrive(c)
  \/ \E i \in Ids : Run(i)
  \/ LoseStorage \/ Tick \/ SetBack

\* Reads, signatures and POSTs end or time out, the wait has its deadline, and
\* the clock moves on, and is not set back for ever.  The provider owes nothing.
Fairness == /\ WF_vars(Tick)
            /\ <>[][~SetBack]_vars
            /\ \A c \in Calls : WF_vars(CallStep(c))
Spec == Init /\ [][Next]_vars /\ Fairness

-----------------------------------------------------------------------------
(* Properties.                                                             *)

TypeOK ==
  /\ pc \in [Calls -> Pcs]
  /\ mode \in [Calls -> {"pr240", "v0.13"}]
  /\ aborted \in [Calls -> BOOLEAN]
  /\ supplied \in [Calls -> Keys \cup {None}]
  /\ key \in [Calls -> Keys \cup {None}]
  /\ polls \in [Calls -> 0..MaxPolls]
  /\ answer \in [Calls -> [says : {"pending", "unsent", "unknown", "notRecorded", "notRun",
                                   "accepted"},
                           key : Keys \cup {None}]]
  /\ queue \in Seq(Calls)
  /\ last \in Nat
  /\ stamp \in [Calls -> Nat]
  /\ clock \in Nat
  /\ provider \in {"v0.13", "pr240", "listed"}
  /\ lostStorage \in BOOLEAN
  /\ flight \subseteq Calls
  /\ reply \in [Calls -> {"none", "refused", "replayed", "keyRequired", "accepted", "expired",
                          "lost", "full"}]
  /\ record \in [Ids -> {"none", "pending", "ran", "expired"}]
  /\ by \in [Ids -> Calls \cup {None}]
  /\ spent \subseteq Nat
  /\ posted \in [Calls -> BOOLEAN]
  /\ effect \in [Calls -> Nat]

\* Calls are attempts at one command if their callers know them by one key,
\* whether they supplied it or were told it.
Names(c) == {supplied[c], answer[c].key} \ {None}
SameCommand(c, d) == c = d \/ Names(c) \cap Names(d) # {}

\* A command runs at most once however often its caller retries it under the
\* key, and in whatever order the attempts reach the provider (docs: an exact
\* retry is safe under the original key, and "no mode automatically replays").
RunsAtMostOnce ==
  \A c, d \in Calls :
    /\ effect[c] <= 1
    /\ c # d /\ SameCommand(c, d) => effect[c] = 0 \/ effect[d] = 0

\* What an answer says of the command is true and stays true: not sent, did not
\* run (whatever earlier or delayed attempts with its key still do), accepted.
AnswersTrue ==
  \A c \in Calls :
    /\ answer[c].says = "unsent" => c \notin flight /\ effect[c] = 0
    /\ answer[c].says = "notRun" => record[Id(c)] # "ran"
    /\ answer[c].says = "accepted" => Recorded(Id(c))

\* Whoever was answered after the POST left holds the key of the command that
\* the provider has, or may still get: none is left that nobody can name.
HandleKept ==
  \A c \in Calls : pc[c] = "ended" /\ posted[c] => answer[c].key = key[c]

\* No POST is refused because its token repeats another's second, also when the
\* clock stands still or is set back and calls queue up behind it.
NeverReplayed == \A c \in Calls : reply[c] # "replayed"

\* Every call is answered, if the clock moves on: queueing for a second never
\* becomes waiting for ever, also behind calls that were aborted.
CallsAnswered == \A c \in Calls : pc[c] # "idle" ~> pc[c] = "ended"
=============================================================================
