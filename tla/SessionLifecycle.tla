-------------------------- MODULE SessionLifecycle --------------------------
(***************************************************************************)
(* Start, restart and deletion of one runtime session, from the service    *)
(* (runtime/runtimeSession.ts) through RuntimeSession (runtime/session.ts) *)
(* to KallichoreSession (supervisor/KallichoreSession.ts), against the     *)
(* kernel process that the supervisor runs for it.                         *)
(*                                                                         *)
(* The three calls are asynchronous and may overlap.  The extension knows  *)
(* the process only through status messages on a websocket and replies of  *)
(* the supervisor's HTTP API, either of which may be late or lost.         *)
(* The supervisor and the kernel are not in the repository: proc, srv and  *)
(* the actions that change them say what the code here expects of them.    *)
(***************************************************************************)
EXTENDS Naturals, Sequences

CONSTANTS
  MaxCalls,     \* start and restart calls after the first: a bound
  MaxInbox      \* undelivered messages before a kernel report: a bound

ASSUME BoundsAssumption == MaxCalls \in Nat /\ MaxInbox \in Nat

VARIABLES
  inSessions,    \* the service lists the session; it is disposed otherwise
  state,         \* RuntimeSession.state and _runtimeState
  kernel,        \* a KallichoreSession is attached (_kernel)
  isNew,         \* _new: created by this window rather than restored
  link,          \* _socket is an open websocket
  connecting,    \* how far _connecting is, the attempt that callers share
  barrier,       \* _connected
  inbox,         \* websocket messages not yet handled
  restarting,    \* _restarting
  validating,    \* _validatingStartup
  startPc,       \* where the start call is
  retry,         \* tryStart's parameter of that name
  spawned,       \* tryStart's startProcess: the process was started by it
  restartPc,     \* where the restart call is
  deletePc,      \* where the deletion is
  exitObserved,  \* exitObserved of KallichoreSession.shutdown
  reconnecting,  \* where the adapter's disconnect handler is
  byHand,        \* reconnectSession awaits the attempt to connect
  proc,          \* external: the kernel process
  srv,           \* external: the supervisor's handling of a restart request
  asked,         \* external: the kernel holds a shutdown request
  settled,       \* history: the last start or restart succeeded, with no
                 \* shutdown under way, and none was called since
  abandoned,     \* history: a restart request timed out with the supervisor
  made           \* history: start and restart calls made after the first

client == <<inSessions, kernel, isNew>>
view   == <<state, barrier, restarting, validating>>
wire   == <<link, inbox, connecting>>
start  == <<startPc, retry, spawned>>
rejoin == <<reconnecting, byHand>>
calls  == <<start, restartPc, deletePc, exitObserved, rejoin>>
server == <<proc, srv, asked>>
past   == <<settled, abandoned, made>>
vars   == <<client, view, wire, calls, server, past>>

States == {"uninitialized", "starting", "ready", "busy", "interrupting",
           "offline", "exited"}
Messages == {"exitedStatus", "exited", "starting", "idle", "busy", "reply"}

\* Ready stands for Ready and Idle.
Usable == {"ready", "busy"}

\* KallichoreSession.shutdown has its onDidEndSession listener installed.
Listening == deletePc \in {"barrier", "reply", "exit", "kill", "confirm"}

-----------------------------------------------------------------------------
(* KallichoreSession's own steps.                                          *)

\* onStateChange: going offline closes the barrier, coming back opens it, and
\* Starting ends a restart.
ChangeState(new) ==
  /\ state' = new
  /\ barrier' = CASE new = "offline" /\ barrier = "open" -> "closed"
                  [] /\ state = "offline" /\ new \notin {"offline", "exited"}
                     /\ barrier = "closed" -> "open"
                  [] OTHER -> barrier
  /\ restarting' = (restarting /\ new # "starting")

\* connect: it joins the attempt under way, or begins one unless the session
\* has been disposed, which has _canConnect off.
MayConnect == connecting # "no" \/ inSessions

Connect ==
  /\ connecting' = IF connecting = "no" THEN "uri" ELSE connecting
  /\ barrier' = IF connecting = "no" /\ barrier = "cancelled" THEN "closed" ELSE barrier

\* _exit fires, and tells a pending shutdown.
ExitFires == exitObserved' = (exitObserved \/ Listening)

\* tryStart from the call to its first await: a new session is asked to
\* start at once, a restored one is first looked up.
BeginStart ==
  IF isNew
  THEN /\ startPc' = "spawn" /\ spawned' = TRUE
       /\ ChangeState("starting")
       /\ validating' = TRUE
  ELSE /\ startPc' = "check" /\ spawned' = FALSE
       /\ UNCHANGED view

\* The start is over, and what it knew forgotten.
EndStart == startPc' = "none" /\ retry' = TRUE /\ spawned' = FALSE

-----------------------------------------------------------------------------
(* The supervisor and the kernel.                                          *)

Send(msgs) == inbox' = IF link THEN inbox \o msgs ELSE inbox

\* The process ends by itself, on a shutdown request or on a force quit.
KernelExits ==
  /\ proc = "running"
  /\ proc' = "exited"
  /\ asked' = FALSE
  /\ Send(<<"exitedStatus", "exited">>)
  /\ UNCHANGED <<client, view, link, connecting, calls, srv, past>>

\* The kernel reports that it is busy or idle, or answers a shutdown request.
KernelReports(msg) ==
  /\ proc = "running" /\ Len(inbox) < MaxInbox
  /\ msg = "reply" => asked
  /\ asked' = (asked /\ msg # "reply")
  /\ Send(<<msg>>)
  /\ UNCHANGED <<client, view, link, connecting, calls, proc, srv, past>>

\* The supervisor performs a restart: it ends the old process, if it still
\* runs, then starts a new one.
SupervisorStops ==
  /\ srv = "asked"
  /\ srv' = "respawning"
  /\ proc' = "exited"
  /\ asked' = FALSE
  /\ IF proc = "running" THEN Send(<<"exitedStatus", "exited">>) ELSE UNCHANGED inbox
  /\ UNCHANGED <<client, view, link, connecting, calls, past>>

SupervisorRespawns ==
  /\ srv = "respawning"
  /\ srv' = "steady"
  /\ proc' = "running"
  /\ Send(<<"starting">>)
  /\ UNCHANGED <<client, view, link, connecting, calls, asked, past>>

-----------------------------------------------------------------------------
(* The websocket.                                                          *)

\* Fault: the status is taken as it is spelt by the supervisor.
StateOfRaw(msg) == msg

\* The runtime state a status message reports.
StateOf(msg) == IF msg = "idle" THEN "ready" ELSE msg

\* handleKernelMessage and the shutdown reply.
HandleMessage ==
  /\ link /\ inbox # <<>>
  /\ LET msg == Head(inbox) IN
     \/ /\ msg = "exitedStatus"
        /\ ChangeState("exited")
        /\ inbox' = Tail(inbox)
        /\ UNCHANGED <<validating, link, deletePc, exitObserved>>
     \/ \* onExited: outside a restart the connection is cleaned up
        /\ msg = "exited"
        /\ IF restarting
           THEN inbox' = Tail(inbox) /\ UNCHANGED <<link, barrier>>
           ELSE link' = FALSE /\ inbox' = <<>> /\ barrier' = "cancelled"
        /\ ExitFires
        /\ UNCHANGED <<state, restarting, validating, deletePc>>
     \/ \* 'starting' counts only as the start of a session or after an exit,
        \* and usable states are held back while a start is validated
        /\ msg \in {"starting", "idle", "busy"}
        /\ IF \/ msg = "starting" /\ state \notin {"uninitialized", "exited"}
              \/ msg # "starting" /\ validating
           THEN UNCHANGED <<state, barrier, restarting>>
           ELSE ChangeState(StateOf(msg))
        /\ inbox' = Tail(inbox)
        /\ UNCHANGED <<validating, link, deletePc, exitObserved>>
     \/ \* the reply only acknowledges the request
        /\ msg = "reply"
        /\ deletePc' = IF deletePc = "reply" THEN "exit" ELSE deletePc
        /\ inbox' = Tail(inbox)
        /\ UNCHANGED <<view, link, exitObserved>>
  /\ UNCHANGED <<client, connecting, start, restartPc, rejoin, server, past>>

\* An open socket closes by itself (onclose).
LoseConnection ==
  /\ link
  /\ link' = FALSE /\ inbox' = <<>>
  /\ barrier' = IF barrier = "open" THEN "closed" ELSE barrier
  /\ asked' = FALSE
  /\ reconnecting' = IF state # "exited" THEN "checking" ELSE reconnecting
  /\ UNCHANGED <<client, state, restarting, validating, connecting, start, restartPc,
                 deletePc, exitObserved, byHand, proc, srv, past>>

-----------------------------------------------------------------------------
(* Connecting.  An attempt awaits the address of the socket ("uri"), then  *)
(* the socket's opening; a socket closed before that ("cancelled") has yet *)
(* to say so.  Nothing limits the attempt itself: its callers time out,    *)
(* and it may succeed after they have.                                     *)

\* What the end of the attempt tells those who wait for it.
AttemptEnds(startNext, restartNext, handlerNext) ==
  /\ connecting' = "no"
  /\ startPc' = IF startPc = "linking" THEN startNext ELSE startPc
  /\ restartPc' = IF restartPc = "linking" THEN restartNext ELSE restartPc
  /\ reconnecting' = IF reconnecting = "linking" THEN handlerNext ELSE reconnecting
  /\ byHand' = FALSE
  /\ UNCHANGED <<client, validating, retry, spawned, deletePc, exitObserved, server, past>>

\* Fault: the address has come, and nobody looks whether the session has been
\* disposed meanwhile.
AddressKnownUnchecked ==
  /\ connecting = "uri"
  /\ connecting' = "opening"
  /\ link' = FALSE /\ inbox' = <<>>
  /\ barrier' = IF barrier = "open" THEN "closed" ELSE barrier
  /\ UNCHANGED <<client, state, restarting, validating, calls, server, past>>

\* Fault: messages of the replaced socket are still handled.
AddressKnownKeepingMessages ==
  /\ connecting = "uri" /\ inSessions
  /\ connecting' = "opening"
  /\ link' = FALSE /\ UNCHANGED inbox
  /\ barrier' = IF barrier = "open" THEN "closed" ELSE barrier
  /\ UNCHANGED <<client, state, restarting, validating, calls, server, past>>

\* The address has come: a socket is created in place of the present one,
\* whose messages are no longer handled.
AddressKnown ==
  /\ connecting = "uri" /\ inSessions
  /\ connecting' = "opening"
  /\ link' = FALSE /\ inbox' = <<>>
  /\ barrier' = IF barrier = "open" THEN "closed" ELSE barrier
  /\ UNCHANGED <<client, state, restarting, validating, calls, server, past>>

\* onopen.  A barrier that was cancelled meanwhile stays so.
SocketOpens ==
  /\ connecting = "opening" /\ inSessions
  /\ AttemptEnds("confirm", "info", "no")
  /\ link' = TRUE
  /\ barrier' = IF barrier = "cancelled" THEN "cancelled" ELSE "open"
  /\ UNCHANGED <<inbox, state, restarting>>

\* The attempt is refused, or its socket closes first.  reconnectSession
\* marks the session offline.
AttemptFails ==
  /\ connecting # "no"
  /\ AttemptEnds("refused", "refused", "refused")
  /\ IF byHand /\ state # "exited"
     THEN ChangeState("offline")
     ELSE UNCHANGED <<state, restarting, barrier>>
  /\ UNCHANGED <<link, inbox>>

\* addDisconnectHandler, once the supervisor is known to be up: an exited
\* session is left alone, any other is connected again.
CheckReconnect ==
  /\ reconnecting = "checking"
  /\ IF state # "exited" /\ MayConnect
     THEN reconnecting' = "linking" /\ Connect
     ELSE /\ reconnecting' = IF state = "exited" THEN "no" ELSE "refused"
          /\ UNCHANGED <<connecting, barrier>>
  /\ UNCHANGED <<client, state, restarting, validating, link, inbox, start, restartPc,
                 deletePc, exitObserved, byHand, server, past>>

\* The attempt has failed or taken too long: the session is marked offline,
\* whatever has become of it meanwhile.
ReconnectFails ==
  /\ reconnecting \in {"linking", "refused"}
  /\ reconnecting' = "no"
  /\ ChangeState("offline")
  /\ UNCHANGED <<client, validating, wire, start, restartPc, deletePc, exitObserved,
                 byHand, server, past>>

\* reconnectSession, on the user's request, of a session without a connection.
ReconnectByHand ==
  /\ state \in Usable \cup {"offline"} /\ kernel /\ proc # "exited" /\ ~link
  /\ connecting = "no" /\ inSessions
  /\ Connect
  /\ byHand' = TRUE
  /\ UNCHANGED <<client, state, restarting, validating, link, inbox, start, restartPc,
                 deletePc, exitObserved, reconnecting, server, past>>

-----------------------------------------------------------------------------
(* Start.  The service calls it for a session that is new, restored or has *)
(* exited; one start or restart of the session runs at a time.             *)

StartCall ==
  /\ inSessions /\ startPc = "none" /\ restartPc = "none"
  /\ state \in {"uninitialized", "exited"} /\ made < MaxCalls
  /\ made' = made + 1
  /\ settled' = FALSE
  /\ IF kernel
     THEN BeginStart
     ELSE startPc' = "create" /\ UNCHANGED <<view, spawned>>
  /\ UNCHANGED <<client, wire, retry, restartPc, deletePc, exitObserved, rejoin,
                 server, abandoned>>

\* createKernel resumes.  If the session was deleted meanwhile, the kernel is
\* forced to quit, if the supervisor can be reached, and the start cancelled.
KernelCreated ==
  /\ startPc = "create"
  /\ IF inSessions
     THEN kernel' = TRUE /\ BeginStart /\ UNCHANGED <<proc, asked>>
     ELSE /\ startPc' = "none"
          /\ \/ /\ proc' = IF proc = "running" THEN "exited" ELSE proc
                /\ asked' = FALSE
             \/ UNCHANGED <<proc, asked>>
          /\ UNCHANGED <<kernel, view, spawned>>
  /\ UNCHANGED <<inSessions, isNew, wire, retry, restartPc, deletePc, exitObserved,
                 rejoin, srv, past>>

\* createKernel fails: the session stays listed without a kernel.
CreateFails ==
  /\ startPc = "create"
  /\ startPc' = "none"
  /\ UNCHANGED <<client, view, wire, retry, spawned, restartPc, deletePc, exitObserved,
                 rejoin, server, past>>

\* Before it connects, the start calls attachOnStartup, if it is configured.
BeforeConnect == {"attach", "connect"}

\* The supervisor's answer decides whether the process must be started.
StartChecked ==
  /\ startPc = "check"
  /\ spawned' = (proc # "running")
  /\ IF proc = "running" THEN startPc' \in BeforeConnect ELSE startPc' = "spawn"
  /\ ChangeState("starting")
  /\ validating' = TRUE
  /\ UNCHANGED <<client, wire, retry, restartPc, deletePc, exitObserved, rejoin,
                 server, past>>

\* The startSession request runs the process.
Spawned ==
  /\ startPc = "spawn" /\ srv = "steady"
  /\ proc' = "running"
  /\ startPc' \in BeforeConnect
  /\ UNCHANGED <<client, view, wire, retry, spawned, restartPc, deletePc,
                 exitObserved, rejoin, srv, asked, past>>

\* The request finds no server there: once, tryStart has it started.
SpawnRefused ==
  /\ startPc = "spawn" /\ retry
  /\ startPc' = "server"
  /\ UNCHANGED <<client, view, wire, retry, spawned, restartPc, deletePc,
                 exitObserved, rejoin, server, past>>

\* _ensureServerRunning returns, and tryStart is called again.
ServerEnsured ==
  /\ startPc = "server"
  /\ retry' = FALSE
  /\ BeginStart
  /\ UNCHANGED <<client, wire, restartPc, deletePc, exitObserved, rejoin,
                 server, past>>

\* attachOnStartup returns or fails, which is only logged.
StartAttached ==
  /\ startPc = "attach"
  /\ startPc' = "connect"
  /\ UNCHANGED <<client, view, wire, retry, spawned, restartPc, deletePc,
                 exitObserved, rejoin, server, past>>

StartConnects ==
  /\ startPc = "connect"
  /\ IF MayConnect
     THEN startPc' = "linking" /\ Connect
     ELSE startPc' = "refused" /\ UNCHANGED <<connecting, barrier>>
  /\ UNCHANGED <<client, state, restarting, validating, link, inbox, retry, spawned,
                 restartPc, deletePc, exitObserved, rejoin, server, past>>

\* The supervisor reports a live process.  What it told of the kernel when it
\* started the process may be enough, otherwise the kernel is asked.
StartConfirmed ==
  /\ startPc = "confirm" /\ proc = "running"
  /\ startPc' = "info"
  /\ UNCHANGED <<client, view, wire, retry, spawned, restartPc, deletePc,
                 exitObserved, rejoin, server, past>>

\* The start has what it needs: markReady, unless the session was seen to
\* exit.  A process found busy is shown as such.
StartReady ==
  /\ \/ startPc = "confirm"
     \/ startPc = "info" /\ link
  /\ proc = "running" /\ state # "exited"
  /\ EndStart
  /\ validating' = FALSE
  /\ \E new \in IF spawned THEN {"ready"} ELSE {"ready", "busy"} : ChangeState(new)
  /\ settled' = (~abandoned /\ ~Listening)
  /\ UNCHANGED <<client, wire, restartPc, deletePc, exitObserved,
                 rejoin, server, abandoned, made>>

\* start() gives up, as any of its requests may fail or time out: the session
\* is reported exited.  A startSession request that timed out may have run
\* the process all the same.
StartFails ==
  /\ startPc \notin {"none", "create", "attach", "connect"}
  /\ proc' \in IF startPc = "spawn" /\ srv = "steady" THEN {proc, "running"} ELSE {proc}
  /\ EndStart
  /\ validating' = FALSE
  /\ ExitFires
  /\ ChangeState("exited")
  /\ UNCHANGED <<client, wire, restartPc, deletePc, rejoin, srv,
                 asked, past>>

-----------------------------------------------------------------------------
(* Interrupting a busy session before its restart or its deletion.         *)

\* The user answers Yes: interrupt() reports Interrupting and asks the
\* supervisor, then the call waits for a usable state.
InterruptKernel == ChangeState("interrupting")

-----------------------------------------------------------------------------
(* Restart.                                                                *)

\* restartSession on a live session; on an exited one it is a StartCall.  It
\* joins a start under way, and asks before it interrupts a busy session.
RestartCall(interrupt) ==
  /\ inSessions /\ startPc = "none" /\ restartPc = "none"
  /\ state \in Usable /\ made < MaxCalls
  /\ made' = made + 1
  /\ restartPc' = IF state = "busy" /\ interrupt THEN "prompt" ELSE "services"
  /\ UNCHANGED <<client, view, wire, start, deletePc, exitObserved,
                 rejoin, server, settled, abandoned>>

\* The user's answer.  The call goes on with the state it read at first, so
\* nothing here looks at what the session has become.
RestartPrompted(yes) ==
  /\ restartPc = "prompt"
  /\ restartPc' = IF yes /\ inSessions THEN "awaitReady" ELSE "none"
  /\ IF yes /\ inSessions
     THEN InterruptKernel
     ELSE UNCHANGED <<state, barrier, restarting>>
  /\ UNCHANGED <<client, validating, wire, start, deletePc, exitObserved,
                 rejoin, server, past>>

\* The interrupt request is answered, and the wait for the session ends or
\* times out; or the request fails.
RestartAwaited ==
  /\ restartPc = "awaitReady"
  /\ restartPc' \in IF state \in Usable THEN {"services", "none"} ELSE {"none"}
  /\ UNCHANGED <<client, view, wire, start, deletePc, exitObserved, rejoin,
                 server, past>>

\* LSP and DAP are down: KallichoreSession.restart, if the session still has
\* a kernel, looks the process up.
RestartServicesDown ==
  /\ restartPc = "services"
  /\ restartPc' = IF inSessions THEN "check" ELSE "none"
  /\ UNCHANGED <<client, view, wire, start, deletePc, exitObserved, rejoin,
                 server, past>>

\* A dead process is started; for a live one the environment of the restart
\* is put together (buildEnvVarActions).
RestartChecked ==
  /\ restartPc = "check" /\ startPc = "none"
  /\ settled' = FALSE
  /\ IF proc = "running"
     THEN /\ restarting' = TRUE
          /\ barrier' = IF barrier = "cancelled" THEN "closed" ELSE barrier
          /\ restartPc' = "env"
          /\ UNCHANGED <<state, validating, start>>
     ELSE restartPc' = "none" /\ BeginStart /\ UNCHANGED retry
  /\ UNCHANGED <<client, wire, deletePc, exitObserved, rejoin, server,
                 abandoned, made>>

RestartPrepared ==
  /\ restartPc = "env"
  /\ restartPc' = "request"
  /\ validating' = TRUE
  /\ srv' = "asked"
  /\ UNCHANGED <<client, state, barrier, restarting, wire, start, deletePc,
                 exitObserved, rejoin, proc, asked, past>>

RestartRequested ==
  /\ restartPc = "request" /\ srv = "steady"
  /\ restartPc' = "connect"
  /\ UNCHANGED <<client, view, wire, start, deletePc, exitObserved, rejoin,
                 server, past>>

RestartConnects ==
  /\ restartPc = "connect"
  /\ IF MayConnect
     THEN restartPc' = "linking" /\ Connect
     ELSE restartPc' = "refused" /\ UNCHANGED <<connecting, barrier>>
  /\ UNCHANGED <<client, state, restarting, validating, link, inbox, start, deletePc,
                 exitObserved, rejoin, server, past>>

\* The kernel has told of itself, and the supervisor reports it alive.
RestartReady ==
  /\ restartPc = "info" /\ link /\ proc = "running"
  /\ restartPc' = "none"
  /\ validating' = FALSE
  /\ ChangeState("ready")
  /\ settled' = (~abandoned /\ ~Listening)
  /\ UNCHANGED <<client, wire, start, deletePc, exitObserved, rejoin, server,
                 abandoned, made>>

\* The restart gives up, as any of its requests may fail or time out: the
\* session goes offline, except where the process could not be looked up.  A
\* request that timed out stays with the supervisor.
RestartFails ==
  /\ \/ restartPc = "check" /\ UNCHANGED view
     \/ /\ restartPc \in {"env", "request", "linking", "refused", "info"}
        /\ validating' = FALSE
        /\ state' = "offline"
        /\ restarting' = FALSE
        /\ barrier' = IF barrier = "open" THEN "closed" ELSE barrier
  /\ restartPc' = "none"
  /\ abandoned' = (abandoned \/ srv # "steady")
  /\ UNCHANGED <<client, wire, start, deletePc, exitObserved, rejoin, server,
                 settled, made>>

-----------------------------------------------------------------------------
(* Deletion.                                                               *)

\* _removeSession: the session is disposed, its connection with it, be it open
\* or about to open, and leaves the service's list, in one synchronous step.
Remove ==
  /\ inSessions' = FALSE
  /\ deletePc' = "idle"
  /\ link' = FALSE /\ inbox' = <<>>
  /\ connecting' = IF connecting = "opening" THEN "cancelled" ELSE connecting
  /\ barrier' = "cancelled"
  /\ UNCHANGED <<kernel, isNew, state, restarting, validating, exitObserved, asked>>

Retain(pc) ==
  /\ deletePc' = pc
  /\ UNCHANGED <<client, view, wire>>

\* The request waits for an open barrier and needs a socket to go out on.
Shutdown ==
  /\ exitObserved' = FALSE
  /\ IF barrier = "open" /\ link
     THEN Retain("reply") /\ asked' = TRUE
     ELSE Retain(IF barrier = "closed" THEN "barrier" ELSE "kill") /\ UNCHANGED asked

\* The part of _deleteSession after the prompt: a session that has not
\* started or has exited is removed, any other one is shut down first.
CloseSession ==
  IF state \in {"uninitialized", "exited"} \/ ~kernel THEN Remove ELSE Shutdown

\* deleteSession; a second call joins the one under way.
DeleteCall ==
  /\ inSessions /\ deletePc = "idle"
  /\ IF state = "busy"
     THEN Retain("prompt") /\ UNCHANGED <<exitObserved, asked>>
     ELSE CloseSession
  /\ UNCHANGED <<start, restartPc, rejoin, proc, srv, past>>

DeletePrompted(yes) ==
  /\ deletePc = "prompt"
  /\ deletePc' = IF yes THEN "awaitReady" ELSE "idle"
  /\ IF yes THEN InterruptKernel ELSE UNCHANGED <<state, barrier, restarting>>
  /\ UNCHANGED <<client, validating, wire, start, restartPc, exitObserved,
                 rejoin, server, past>>

DeleteAwaited ==
  /\ deletePc = "awaitReady"
  /\ \/ state \in Usable /\ CloseSession
     \/ Retain("idle") /\ UNCHANGED <<exitObserved, asked>>
  /\ UNCHANGED <<start, restartPc, rejoin, proc, srv, past>>

\* The connection is back, or gone for good, while the request waits for it.
ShutdownUnblocked ==
  /\ deletePc = "barrier" /\ barrier # "closed"
  /\ IF barrier = "open" /\ link
     THEN Retain("reply") /\ asked' = TRUE
     ELSE Retain("kill") /\ UNCHANGED asked
  /\ UNCHANGED <<start, restartPc, exitObserved, rejoin, proc, srv, past>>

\* The exit is observed: the shutdown has succeeded.
ShutdownExited ==
  /\ deletePc \in {"reply", "exit"} /\ exitObserved
  /\ Remove
  /\ UNCHANGED <<start, restartPc, rejoin, proc, srv, past>>

\* Fault: the deadline starts only when the request has been sent.
ShutdownDeadlineAfterSending ==
  /\ deletePc \in {"reply", "exit"}
  /\ IF exitObserved \/ state = "exited"
     THEN Remove
     ELSE Retain("kill") /\ UNCHANGED <<exitObserved, asked>>
  /\ UNCHANGED <<start, restartPc, rejoin, proc, srv, past>>

\* One deadline covers waiting for the connection, the reply and the exit.
ShutdownDeadline ==
  /\ deletePc \in {"barrier", "reply", "exit"}
  /\ IF exitObserved \/ state = "exited"
     THEN Remove
     ELSE Retain("kill") /\ UNCHANGED <<exitObserved, asked>>
  /\ UNCHANGED <<start, restartPc, rejoin, proc, srv, past>>

\* killSession; its failure is only logged, its time is limited.
Kill ==
  /\ deletePc = "kill"
  /\ deletePc' = "confirm"
  /\ \/ /\ srv = "steady"
        /\ IF proc = "running"
           THEN proc' = "exited" /\ Send(<<"exitedStatus", "exited">>)
           ELSE UNCHANGED <<proc, inbox>>
        /\ asked' = FALSE
     \/ UNCHANGED <<proc, asked, inbox>>
  /\ UNCHANGED <<client, view, link, connecting, exitObserved, start, restartPc,
                 rejoin, srv, past>>

\* _confirmSessionExited: the exit is observed, or the supervisor reports it.
Confirmed ==
  /\ deletePc = "confirm"
  /\ exitObserved \/ state = "exited" \/ proc = "exited"
  /\ Remove
  /\ UNCHANGED <<start, restartPc, rejoin, proc, srv, past>>

\* Its deadline passes: the deletion fails and the session is retained.
ConfirmFails ==
  /\ deletePc = "confirm" /\ ~exitObserved /\ state # "exited"
  /\ Retain("idle")
  /\ UNCHANGED <<exitObserved, asked, start, restartPc, rejoin, proc, srv, past>>

-----------------------------------------------------------------------------
\* createSession or restoreSession has listed the session, and its start has
\* been called at once.
Init ==
  /\ inSessions = TRUE
  /\ state = "uninitialized"
  /\ kernel = FALSE
  /\ isNew \in BOOLEAN
  /\ link = FALSE /\ barrier = "closed" /\ inbox = <<>> /\ connecting = "no"
  /\ restarting = FALSE /\ validating = FALSE
  /\ startPc = "create" /\ retry = TRUE /\ spawned = FALSE
  /\ restartPc = "none" /\ deletePc = "idle"
  /\ exitObserved = FALSE
  /\ reconnecting = "no" /\ byHand = FALSE
  /\ proc \in IF isNew THEN {"none"} ELSE {"running", "exited"}
  /\ srv = "steady" /\ asked = FALSE
  /\ settled = FALSE /\ abandoned = FALSE /\ made = 0

Environment ==
  \/ KernelExits \/ LoseConnection
  \/ \E msg \in {"busy", "idle", "reply"} : KernelReports(msg)

User ==
  \/ StartCall \/ DeleteCall \/ ReconnectByHand
  \/ \E yes \in BOOLEAN :
       RestartCall(yes) \/ RestartPrompted(yes) \/ DeletePrompted(yes)

Supervisor == SupervisorStops \/ SupervisorRespawns

StartLimited ==
  \/ StartChecked \/ Spawned \/ SpawnRefused \/ StartConnects \/ StartConfirmed
  \/ StartReady \/ StartFails

Start == KernelCreated \/ CreateFails \/ ServerEnsured \/ StartAttached \/ StartLimited

RestartLimited ==
  \/ RestartChecked \/ RestartRequested \/ RestartConnects \/ RestartReady
  \/ RestartFails

Restart == RestartAwaited \/ RestartServicesDown \/ RestartPrepared \/ RestartLimited

Shutting ==
  \/ ShutdownUnblocked \/ ShutdownExited \/ ShutdownDeadline
  \/ Kill \/ Confirmed \/ ConfirmFails

Connection ==
  \/ HandleMessage \/ AddressKnown \/ SocketOpens \/ AttemptFails
  \/ CheckReconnect \/ ReconnectFails

Next ==
  \/ Environment \/ User \/ Supervisor \/ Connection
  \/ Start \/ Restart \/ DeleteAwaited \/ Shutting

Spec == Init /\ [][Next]_vars

\* The awaits of a start and of a restart that have no limit: the creation of
\* the kernel and the start of the server (ensureStarted), attachOnStartup, the
\* request to interrupt, the stopping of LSP and DAP, buildEnvVarActions.
StartUnlimited   == {"create", "server", "attach"}
RestartUnlimited == {"prompt", "awaitReady", "services", "env"}

\* The other awaits of a start, a restart and a shutdown have a timer, and the
\* event loop runs it.  Nothing is assumed of the user, the supervisor, the
\* kernel, the network, nor of the awaits without a limit.
FairSpec ==
  Spec /\ WF_vars(StartLimited) /\ WF_vars(RestartLimited) /\ WF_vars(Shutting)

-----------------------------------------------------------------------------
ClientType == inSessions \in BOOLEAN /\ kernel \in BOOLEAN /\ isNew \in BOOLEAN

ViewType ==
  /\ state \in States
  /\ barrier \in {"closed", "open", "cancelled"}
  /\ restarting \in BOOLEAN /\ validating \in BOOLEAN

WireType ==
  /\ link \in BOOLEAN /\ inbox \in Seq(Messages)
  /\ connecting \in {"no", "uri", "opening", "cancelled"}

CallsType ==
  /\ startPc \in {"none", "create", "check", "spawn", "server", "attach", "connect",
                  "linking", "refused", "confirm", "info"}
  /\ retry \in BOOLEAN /\ spawned \in BOOLEAN
  /\ restartPc \in {"none", "prompt", "awaitReady", "services", "check", "env",
                    "request", "connect", "linking", "refused", "info"}
  /\ deletePc \in {"idle", "prompt", "awaitReady", "barrier", "reply", "exit",
                   "kill", "confirm"}
  /\ exitObserved \in BOOLEAN
  /\ reconnecting \in {"no", "checking", "linking", "refused"}
  /\ byHand \in BOOLEAN

ServerType ==
  /\ proc \in {"none", "running", "exited"}
  /\ srv \in {"steady", "asked", "respawning"}
  /\ asked \in BOOLEAN

PastType ==
  settled \in BOOLEAN /\ abandoned \in BOOLEAN /\ made \in Nat

TypeOK ==
  ClientType /\ ViewType /\ WireType /\ CallsType /\ ServerType /\ PastType

HasExitNotice(msgs) ==
  \E i \in DOMAIN msgs : msgs[i] \in {"exitedStatus", "exited"}

\* What the extension takes for an exit of the kernel.
SeenToExit ==
  \/ state = "exited"
  \/ Listening /\ exitObserved
  \/ HasExitNotice(inbox)

\* Once a start or a restart has succeeded, and until the next one, every
\* sign of an exit that the session has or will get is true: no notice of an
\* earlier process is left to be mistaken for one of this process
\* (KallichoreSession.ts:1700-1737, 2275-2290, 2479-2567, 2691-2731).
ExitSignsAreTrue == settled /\ SeenToExit => proc # "running"

\* Deleting a session that has been started and is not being restarted
\* removes it only when its kernel has exited, although the acknowledgement,
\* the exit notice, the connection and the kill may each be late or lost
\* (runtimeSession.ts:1242-1289, KallichoreSession.ts:2309-2393).
RemovalMeansExit == inSessions /\ ~inSessions' /\ settled => proc # "running"

\* What a settled session takes for its kernel's exit is one, and so the kernel
\* has exited when the session is removed (KallichoreSession.ts:2309-2393).
ExitsAreReal == [][ExitSignsAreTrue' /\ RemovalMeansExit]_vars

\* A removed session has no socket, open or about to open, although an attempt
\* to connect looks at its removal only at times and outlives the reconnection,
\* start or restart that asked for it (KallichoreSession.ts:2050-2112, 2421-2441).
RemovedStaysDisconnected == ~inSessions => ~link /\ connecting # "opening"

\* Every shutdown of a deletion ends, whatever the kernel, the supervisor
\* and the connection do (KallichoreSession.ts:2309-2393, 2993-3025).
DeletionSettles == Listening ~> deletePc = "idle"

\* Every start and every restart, of which there is one at a time, ends or comes
\* to an await without a limit, and so waits for nothing else
\* (KallichoreSession.ts:1404-1435, 1607-1762, 2229-2302).
StartsSettle ==
  (startPc # "none" \/ restartPc # "none")
    ~> (startPc \in {"none"} \cup StartUnlimited /\ restartPc \in {"none"} \cup RestartUnlimited)

\* No call on a session is left waiting but for what has no limit
\* (KallichoreSession.ts:1404-1435, 2229-2302, 2309-2393).
CallsSettle == DeletionSettles /\ StartsSettle

\* README.md:23: "The kernel must exit before its session is removed."
RemovedOnlyAfterExit ==
  [][inSessions /\ ~inSessions' => proc # "running"]_vars
=============================================================================
