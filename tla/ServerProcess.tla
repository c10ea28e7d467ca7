--------------------------- MODULE ServerProcess ---------------------------
(***************************************************************************)
(* One MCP server process (node/src/bootstrap.ts): its start, the calls it *)
(* serves, and its shutdown by end of input, by a closed transport or by a *)
(* signal, with the grace deadline and the forced exit, on top of the one  *)
(* CosmosClientManager each of the five servers acquires (ClientManager).  *)
(***************************************************************************)
EXTENDS ClientManager

CONSTANT Calls       \* tool calls the process serves

ASSUME CallsAssumption == None \notin Calls

VARIABLES
  stage,        \* main(): "starting", "created", "serving" or "failed"
  runtime,      \* the manager the server acquired, or None
  wallet,       \* is the wallet connected?
  ended,        \* has standard input ended?
  shuttingDown, \* installShutdownHandlers' flag
  closings,     \* how often closeResources was entered
  closing,      \* what closeResources does next
  timer,        \* the grace timer: "off", "on" or "passed"
  exitWith,     \* the signal whose handler exits once the shutdown settles
  settled,      \* has shutdownPromise settled, and removed the handlers?
  forcedExit,   \* did a signal find a shutdown under way?
  exit,         \* how the process ended: "no" while it runs
  call,         \* call -> "idle", "running", "aborted" or "done"
  doing,        \* call -> the broadcast it awaits, or None
  paid          \* call -> did a broadcast of it settle?

shutdownVars == <<shuttingDown, closings, timer, exitWith, settled, forcedExit>>
callVars     == <<call, doing, paid>>
procVars     == <<stage, runtime, wallet, ended, shutdownVars, closing, exit, callVars>>

Signals == {"SIGINT", "SIGTERM"}
Closing == {"no", "runtime", "drain", "wallet", "closed"}

ProcInit ==
  /\ Init
  /\ stage = "starting"
  /\ runtime = None
  /\ wallet = TRUE
  /\ ended = FALSE
  /\ shuttingDown = FALSE
  /\ closings = 0
  /\ closing = "no"
  /\ timer = "off"
  /\ exitWith = "none"
  /\ settled = FALSE
  /\ forcedExit = FALSE
  /\ exit = "no"
  /\ call = [c \in Calls |-> "idle"]
  /\ doing = [c \in Calls |-> None]
  /\ paid = [c \in Calls |-> FALSE]

-----------------------------------------------------------------------------
(* Shutting down.                                                          *)

\* server.close(), the first step of closeResources: the calls are aborted, and
\* no more are taken.
CloseServer ==
  /\ closings' = closings + 1
  /\ closing' = "runtime"
  /\ call' = [c \in Calls |-> IF call[c] = "running" THEN "aborted" ELSE call[c]]

NoShutdown == UNCHANGED <<shuttingDown, closings, closing, call, timer, exitWith>>

\* Mutant: each trigger closes the resources again.
ShutdownAgain(by) ==
  /\ CloseServer
  /\ shuttingDown' = TRUE
  /\ timer' = "on"
  /\ exitWith' = by

\* shutdown(): joins the one under way, or starts closing under the deadline.
Shutdown(by) ==
  IF shuttingDown
  THEN NoShutdown
  ELSE /\ CloseServer
       /\ shuttingDown' = TRUE
       /\ timer' = "on"
       /\ exitWith' = by

\* Standard input ends: heard once the handlers are there, and again when they
\* are installed.
InputEnds ==
  /\ ~ended
  /\ ended' = TRUE
  /\ IF stage = "serving"
     THEN Shutdown("none")
     ELSE NoShutdown
  /\ UNCHANGED <<vars, stage, runtime, wallet, settled, forcedExit, exit, doing, paid>>

\* The transport closes on its own: server.onclose.
TransportCloses ==
  /\ stage = "serving"
  /\ closing = "no"
  /\ Shutdown("none")
  /\ UNCHANGED <<vars, stage, runtime, wallet, ended, settled, forcedExit, exit, doing, paid>>

\* Mutant: the handler exits at the first signal.
SignalExits(s) ==
  /\ exit' = s
  /\ UNCHANGED <<vars, stage, runtime, wallet, ended, shutdownVars, closing, callVars>>

\* A signal.  The first shuts down and exits afterwards, any other exits at once,
\* and without handlers the process is killed.
Signal(s) ==
  /\ IF stage = "serving" /\ ~settled
     THEN /\ Shutdown(s)
          /\ forcedExit' = (forcedExit \/ shuttingDown)
          /\ exit' = IF shuttingDown THEN s ELSE exit
     ELSE /\ exit' = s
          /\ NoShutdown
          /\ UNCHANGED forcedExit
  /\ UNCHANGED <<vars, stage, runtime, wallet, ended, settled, doing, paid>>

Deadline ==
  /\ timer = "on"
  /\ ~settled
  /\ timer' = "passed"
  /\ UNCHANGED <<vars, stage, runtime, wallet, ended, shuttingDown, closings, closing,
                 exitWith, settled, forcedExit, exit, callVars>>

\* The race settles: the signal handlers go, and a signal that began the shutdown
\* exits.  After an end of input nothing does: closing goes on if it is late.
Settled ==
  /\ shuttingDown
  /\ ~settled
  /\ closing = "closed" \/ timer = "passed"
  /\ settled' = TRUE
  /\ exit' = IF exitWith \in Signals THEN exitWith ELSE exit
  /\ UNCHANGED <<vars, stage, runtime, wallet, ended, shuttingDown, closings, closing,
                 timer, exitWith, forcedExit, callVars>>

-----------------------------------------------------------------------------
(* closeResources: after the server, the runtime and then the wallet.      *)

CloseTo(from, to) == closing = from /\ closing' = to

\* Mutant: the runtime is torn down whatever it still broadcasts.
CloseRuntimeNow ==
  /\ closing = "runtime"
  /\ IF runtime = None
     THEN UNCHANGED vars
     ELSE /\ refCount' = [refCount EXCEPT ![runtime] = 0]
          /\ FinalizeRelease(runtime)
          /\ UNCHANGED <<key, coord, cleared, drain, drainWait, taskVars>>
  /\ closing' = "drain"
  /\ UNCHANGED <<stage, runtime, wallet, ended, shutdownVars, exit, callVars>>

\* disconnectWhenIdle(), if the server was created.
CloseRuntime ==
  /\ CloseTo("runtime", "drain")
  /\ IF runtime = None
     THEN UNCHANGED vars
     ELSE ReleaseIdle(runtime) \/ ReleaseBusy(runtime)
  /\ UNCHANGED <<stage, runtime, wallet, ended, shutdownVars, exit, callVars>>

\* Mutants: the promise is not awaited; or only that of a busy release settles.
DrainIgnored ==
  /\ CloseTo("drain", "wallet")
  /\ UNCHANGED <<vars, stage, runtime, wallet, ended, shutdownVars, exit, callVars>>
DrainExpected ==
  /\ CloseTo("drain", "wallet")
  /\ runtime # None => drain[runtime] = "resolved"
  /\ UNCHANGED <<vars, stage, runtime, wallet, ended, shutdownVars, exit, callVars>>

\* The promise of disconnectWhenIdle() has settled.
RuntimeDrained ==
  /\ CloseTo("drain", "wallet")
  /\ runtime # None => drain[runtime] # "waiting"
  /\ UNCHANGED <<vars, stage, runtime, wallet, ended, shutdownVars, exit, callVars>>

CloseWallet ==
  /\ CloseTo("wallet", "closed")
  /\ wallet' = FALSE
  /\ UNCHANGED <<vars, stage, runtime, ended, shutdownVars, exit, callVars>>

CloseStep == CloseRuntime \/ RuntimeDrained \/ CloseWallet

-----------------------------------------------------------------------------
(* main().                                                                 *)

\* The wallet connected and the server is made: its constructor acquires a
\* manager.
Create ==
  /\ stage = "starting"
  /\ \E k \in Keys, m \in Managers : BuildInstance(k, m) /\ runtime' = m
  /\ stage' = "created"
  /\ UNCHANGED <<wallet, ended, shutdownVars, closing, exit, callVars>>

\* Connected to the transport; the handlers are installed, and find out whether
\* standard input has ended meanwhile.
Serve ==
  /\ stage = "created"
  /\ stage' = "serving"
  /\ IF ended
     THEN Shutdown("none")
     ELSE NoShutdown
  /\ UNCHANGED <<vars, runtime, wallet, ended, settled, forcedExit, exit, doing, paid>>

\* A step of the start fails: what there is is closed, with no deadline.
StartFails ==
  /\ stage \in {"starting", "created"}
  /\ stage' = "failed"
  /\ CloseServer
  /\ UNCHANGED <<vars, runtime, wallet, ended, shuttingDown, timer, exitWith, settled,
                 forcedExit, exit, doing, paid>>

FatalExit ==
  /\ stage = "failed"
  /\ closing = "closed"
  /\ exit' = "fatal"
  /\ UNCHANGED <<vars, stage, runtime, wallet, ended, shutdownVars, closing, callVars>>

\* Nothing is left for the event loop to wait for.
LoopEmpty ==
  /\ settled
  /\ closing = "closed"
  /\ \A c \in Calls : call[c] \in {"idle", "done"}
  /\ exit' = "empty"
  /\ UNCHANGED <<vars, stage, runtime, wallet, ended, shutdownVars, closing, callVars>>

-----------------------------------------------------------------------------
(* Calls.                                                                  *)

CallArrives(c) ==
  /\ stage = "serving"
  /\ closing = "no"
  /\ call[c] = "idle"
  /\ call' = [call EXCEPT ![c] = "running"]
  /\ UNCHANGED <<vars, stage, runtime, wallet, ended, shutdownVars, closing, exit, doing, paid>>

\* A call broadcasts.  An aborted one sends nothing new, but what compensates for
\* a transaction it has sent.
CallBroadcasts(c, t) ==
  /\ call[c] = "running" \/ (call[c] = "aborted" /\ paid[c])
  /\ doing[c] = None
  /\ \E s \in Signers : WithBroadcastLock(t, runtime, s)
  /\ doing' = [doing EXCEPT ![c] = t]
  /\ UNCHANGED <<stage, runtime, wallet, ended, shutdownVars, closing, exit, call, paid>>

CallGoesOn(c) ==
  /\ doing[c] # None
  /\ phase[doing[c]] \in {"settled", "done"}
  /\ doing' = [doing EXCEPT ![c] = None]
  /\ paid' = [paid EXCEPT ![c] = TRUE]
  /\ UNCHANGED <<vars, stage, runtime, wallet, ended, shutdownVars, closing, exit, call>>

\* It answers, or fails, also because the manager refuses another broadcast.  The
\* handler of an aborted call may leave the broadcast behind.
CallEnds(c) ==
  /\ call[c] = "aborted" \/ (call[c] = "running" /\ doing[c] = None)
  /\ call' = [call EXCEPT ![c] = "done"]
  /\ UNCHANGED <<vars, stage, runtime, wallet, ended, shutdownVars, closing, exit, doing, paid>>

CallStep(c) == CallGoesOn(c) \/ CallEnds(c)

\* Promise reactions of the manager.
ManagerStep ==
  /\ \/ \E t \in Tasks : BodyStep(t)
     \/ runtime # None /\ DrainStep(runtime)
  /\ UNCHANGED procVars

-----------------------------------------------------------------------------

ProcStep ==
  \/ Create \/ Serve \/ StartFails \/ FatalExit \/ LoopEmpty
  \/ InputEnds \/ TransportCloses \/ Deadline \/ Settled
  \/ \E s \in Signals : Signal(s)
  \/ CloseStep
  \/ ManagerStep
  \/ \E c \in Calls : CallArrives(c) \/ CallStep(c)
  \/ \E c \in Calls, t \in Tasks : CallBroadcasts(c, t)

\* A process that has exited does nothing more.
ProcNext == exit = "no" /\ ProcStep

procAll == <<vars, procVars>>
ProcSpec == ProcInit /\ [][ProcNext]_procAll

\* Promise reactions, timers and the exit of an empty event loop come; a
\* broadcast's body ends, and so does a call.  Nobody has to send a signal.
Alive(A) == exit = "no" /\ A
ProcFairness ==
  /\ \A t \in Tasks : WF_procAll(Alive(BodyStep(t) /\ UNCHANGED procVars))
  /\ \A m \in Managers :
       WF_procAll(Alive(runtime = m /\ DrainStep(m) /\ UNCHANGED procVars))
  /\ WF_procAll(Alive(CloseStep))
  /\ WF_procAll(Alive(Deadline))
  /\ WF_procAll(Alive(Settled))
  /\ WF_procAll(Alive(LoopEmpty \/ FatalExit))
  /\ \A c \in Calls : WF_procAll(Alive(CallStep(c)))

FairProcSpec == ProcSpec /\ ProcFairness

-----------------------------------------------------------------------------
(* Properties.                                                             *)

ProcTypeOK ==
  /\ TypeOK
  /\ stage \in {"starting", "created", "serving", "failed"}
  /\ runtime \in Managers \cup {None}
  /\ wallet \in BOOLEAN
  /\ ended \in BOOLEAN
  /\ shuttingDown \in BOOLEAN
  /\ closings \in 0..1
  /\ closing \in Closing
  /\ timer \in {"off", "on", "passed"}
  /\ exitWith \in Signals \cup {"none"}
  /\ settled \in BOOLEAN
  /\ forcedExit \in BOOLEAN
  /\ exit \in Signals \cup {"no", "fatal", "empty"}
  /\ call \in [Calls -> {"idle", "running", "aborted", "done"}]
  /\ doing \in [Calls -> Tasks \cup {None}]
  /\ paid \in [Calls -> BOOLEAN]

\* However the process ends, and whatever triggers met, a broadcast it accepted
\* is cut off only when the grace deadline had passed or a signal found the
\* shutdown under way (CHANGELOG: it "drains already-enqueued broadcasts before
\* wallet teardown, has a 30-second ceiling, and treats a second signal as
\* immediate exit").
AcceptedSettle ==
  exit # "no" =>
    \/ timer = "passed"
    \/ forcedExit
    \/ \A t \in Tasks : phase[t] \notin Live

\* The wallet is disconnected only when no accepted broadcast is left, also when
\* closing goes on after the deadline.
WalletOutlivesBroadcasts ==
  ~wallet => \A t \in Tasks : phase[t] \notin Live

\* A shutdown once begun, or a failed start, ends the process: no drain, call or
\* missing signal keeps it alive for good.
ShutdownExits == shuttingDown \/ stage = "failed" ~> exit # "no"

\* The process uses its manager as ClientManager allows.
ProcImplementsClientManager == Spec
=============================================================================
