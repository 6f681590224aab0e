--------------------------- MODULE SupervisorServer ---------------------------
(***************************************************************************)
(* The supervisor server of a window: how KallichoreAdapterApi (the        *)
(* class in supervisor/KallichoreAdapterApi.ts) starts it or reconnects to *)
(* it, notices that it has exited and starts another, and stops it.        *)
(*                                                                         *)
(* One window, one event loop: an action is what runs between two awaits.  *)
(* Sessions being created and sessions whose sockets drop meet in          *)
(* ensureStarted and testServerExited; servers crash at any time; the user *)
(* stops or restarts the server; the window closes.                        *)
(***************************************************************************)
EXTENDS Naturals, FiniteSets

CONSTANTS
  Callers,    \* calls of createSession
  Watchers,   \* what else calls testServerExited: session sockets, heartbeats
  Stopper,    \* shutdownSupervisor and restartSupervisor
  MaxStarts,  \* bound: calls of start
  MaxCrashes  \* bound: servers that exit by themselves

Starts == 1 .. MaxStarts
None   == 0
Old    == MaxStarts + 1   \* the server of an earlier window
Procs  == Callers \cup Watchers \cup {Stopper}

\* A server is named after the start that launched it.
Servers == Starts \cup {Old}

ASSUME ProcsAssumption ==
  Callers \cap Watchers = {} /\ Stopper \notin Callers \cup Watchers
ASSUME SupervisorBoundsAssumption == MaxStarts \in Nat /\ MaxCrashes \in Nat

VARIABLES
  alive,      \* servers that run
  impostor,   \* another server has taken the address of the old one
  crashes,    \* servers that have crashed
  told,       \* servers told to stop
  saved,      \* the saved server state
  api,        \* _api.state: the server that requests go to
  started,    \* _started is open
  starting,   \* _starting: the start whose promise it is
  promise,    \* those promises
  run,        \* the calls of start
  leases,     \* servers whose lease is renewed
  lease,      \* _processLease
  launcher,   \* _launcherProcess
  sessions,   \* _sessions
  task,       \* what each process does
  disposed,   \* _disposed
  stopped,    \* history: the server stopped on purpose, if no session was asked for since
  overlapped  \* history: a recovery went on over a later start

worldVars == <<alive, impostor, crashes, told>>
startVars == <<started, starting, promise, run>>
leaseVars == <<leases, lease, launcher>>
supervisorVars == <<worldVars, saved, api, startVars, leaseVars, sessions, task, disposed,
                    stopped, overlapped>>

\* Where a process stands: it awaits _stopping, a promise of a start, or one
\* within testServerExited; the creation of its session, the status of a server,
\* the removal of its record; the stop awaits a start, the answer of the server,
\* the files.
Proc == [pc : {"idle", "ensure", "wait", "await", "create", "verify", "remove",
               "stopWait", "request", "asked", "cleanup", "done", "failed"},
         on : Starts \cup {None}, server : Servers \cup {None},
         testing : BOOLEAN, retried : BOOLEAN, restarting : BOOLEAN]

Run == [pc : {"none", "load", "reconnect", "reconnected", "launch", "handshake",
              "configure", "poll", "record", "done", "failed"}]

-----------------------------------------------------------------------------
Stopping   == task[Stopper].pc \in {"stopWait", "request", "asked", "cleanup"}
UnderWay   == {i \in Starts : run[i].pc \notin {"none", "done", "failed"}}
Free       == {i \in Starts : run[i].pc = "none" /\ \A j \in 1 .. i - 1 : run[j].pc # "none"}
IsStale(s) == s = Old /\ impostor

\* What a call goes on with once the server is online, or the test is over.
After(p, q, open) ==
  IF p \in Callers /\ (open \/ ~q.testing)
  THEN [q EXCEPT !.pc = "create", !.server = api, !.retried = q.testing, !.testing = FALSE]
  ELSE IF p \in Watchers THEN [q EXCEPT !.pc = "idle", !.testing = FALSE]
  ELSE [q EXCEPT !.pc = "done"]

\* ensureStarted once no stop is awaited, with this barrier and promise.
EnsuresNow(p, q, open, current) ==
  /\ started' = open
  /\ IF open \/ current # None
     THEN /\ starting' = current
          /\ task' = [task EXCEPT ![p] = IF open THEN After(p, q, TRUE)
                                         ELSE [q EXCEPT !.pc = "wait", !.on = current]]
          /\ UNCHANGED <<promise, run>>
     ELSE \E i \in Free :
          /\ starting' = i
          /\ promise' = [promise EXCEPT ![i] = "pending"]
          /\ run' = [run EXCEPT ![i].pc = "load"]
          /\ task' = [task EXCEPT ![p] = [q EXCEPT !.pc = "wait", !.on = i]]

\* ensureStarted.
Ensures(p, q, open, current) ==
  IF Stopping
  THEN /\ task' = [task EXCEPT ![p] = [q EXCEPT !.pc = "ensure"]]
       /\ started' = open /\ starting' = current
       /\ UNCHANGED <<promise, run>>
  ELSE EnsuresNow(p, q, open, current)

\* Fault: a stop on purpose is not looked at.
TestsAnyway(p, q) ==
  task' = [task EXCEPT ![p] =
    IF starting # None THEN [q EXCEPT !.pc = "await", !.on = starting]
    ELSE IF api = None THEN After(p, q, started)
    ELSE [q EXCEPT !.pc = IF api \in alive THEN "verify" ELSE "remove", !.server = api]]

\* testServerExited up to its first await: a process that has gone needs no
\* asking, another is asked who it is.
Tests(p, q) ==
  task' = [task EXCEPT ![p] =
    IF Stopping THEN After(p, q, started)
    ELSE IF starting # None THEN [q EXCEPT !.pc = "await", !.on = starting]
    ELSE IF api = None THEN After(p, q, started)
    ELSE [q EXCEPT !.pc = IF api \in alive THEN "verify" ELSE "remove", !.server = api]]

\* Drop the lease held, and say so to a launcher that still listens.
DropLease == leases' = leases \ {lease} /\ lease' = None
StopLauncher == told' = told \cup ({launcher} \ {None}) /\ launcher' = None

-----------------------------------------------------------------------------
\* An earlier window may have left the state of a server, which still runs, has
\* gone, or has left its address to another.
SupervisorInit ==
  /\ saved \in {None, Old}
  /\ alive \in {{}, {Old}} /\ impostor \in BOOLEAN
  /\ saved = None => alive = {} /\ ~impostor
  /\ impostor => alive = {Old}
  /\ crashes = 0 /\ told = {}
  /\ api = None
  /\ started = FALSE /\ starting = None
  /\ promise = [i \in Starts |-> "none"]
  /\ run = [i \in Starts |-> [pc |-> "none"]]
  /\ leases = {} /\ lease = None /\ launcher = None
  /\ sessions = {}
  /\ task = [p \in Procs |-> [pc |-> "idle", on |-> None, server |-> None,
                              testing |-> FALSE, retried |-> FALSE, restarting |-> FALSE]]
  /\ disposed = FALSE
  /\ stopped = None /\ overlapped = FALSE

\* A server exits, by itself, or because it was told to.
ServerExits(s) ==
  /\ s \in alive
  /\ \/ s \in told /\ UNCHANGED crashes
     \/ crashes < MaxCrashes /\ crashes' = crashes + 1
  /\ alive' = alive \ {s}
  /\ UNCHANGED <<impostor, told, saved, api, startVars, leaseVars, sessions, task,
                 disposed, stopped, overlapped>>

-----------------------------------------------------------------------------
\* createSession: it ensures that the server is started.
CreateSession(p) ==
  /\ ~disposed /\ p \in Callers /\ task[p].pc = "idle"
  /\ Ensures(p, task[p], started, starting)
  /\ stopped' = None
  /\ UNCHANGED <<worldVars, saved, api, leaseVars, sessions, disposed, overlapped>>

\* The stop that ensureStarted awaited is over; if it failed so does the call.
StopAwaited(p) ==
  /\ task[p].pc = "ensure" /\ ~Stopping
  /\ IF task[Stopper].pc = "failed"
     THEN /\ task' = [task EXCEPT ![p] = IF p \in Callers /\ ~@.testing
                                        THEN [@ EXCEPT !.pc = "done"]
                                        ELSE After(p, @, started)]
          /\ UNCHANGED startVars
     ELSE EnsuresNow(p, task[p], started, starting)
  /\ UNCHANGED <<worldVars, saved, api, leaseVars, sessions, disposed, stopped, overlapped>>

\* The promise it awaits is settled.  A start that failed fails the creation of
\* the session, unless a test had begun it.
Answered(p) ==
  /\ task[p].pc \in {"wait", "await"} /\ promise[task[p].on] \in {"resolved", "rejected"}
  /\ task' = [task EXCEPT ![p] =
       IF /\ promise[task[p].on] = "rejected" /\ p \in Callers
          /\ ~task[p].testing \/ task[p].pc = "await"
       THEN [task[p] EXCEPT !.pc = "done"]
       ELSE After(p, task[p], started)]
  /\ UNCHANGED <<worldVars, saved, api, startVars, leaseVars, sessions, disposed,
                 stopped, overlapped>>

\* session.create succeeds or fails; or the server cannot be reached, or refuses
\* the token: then it is tested, the first time.
CreateReturns(p) ==
  /\ task[p].pc = "create"
  /\ \/ /\ task' = [task EXCEPT ![p].pc = "done"]
        /\ sessions' \in IF task[p].server \in alive THEN {sessions, sessions \cup {p}}
                         ELSE {sessions}
     \/ /\ ~task[p].retried
        /\ Tests(p, [task[p] EXCEPT !.testing = TRUE])
        /\ UNCHANGED sessions
  /\ UNCHANGED <<worldVars, saved, api, startVars, leaseVars, disposed, stopped, overlapped>>

\* The socket of a session drops, or a heartbeat is refused.
Watch(p) ==
  /\ ~disposed /\ p \in Watchers /\ task[p].pc = "idle"
  /\ \/ sessions # {} /\ ~Stopping
     \/ started /\ api \notin alive
  /\ Tests(p, [task[p] EXCEPT !.testing = TRUE])
  /\ UNCHANGED <<worldVars, saved, api, startVars, leaseVars, sessions, disposed,
                 stopped, overlapped>>

\* The server says who it is, or refuses, or the request fails.  Only one that
\* refuses, or is another, has exited.  (One that took the request to shut down
\* has not refused a request that was sent before.)
Verified(p) ==
  /\ task[p].pc = "verify"
  /\ \/ /\ task[p].server \in alive => IsStale(task[p].server)
        /\ task[p].server = task[Stopper].server => task[Stopper].pc = "failed"
        /\ task' = [task EXCEPT ![p] = IF Stopping THEN After(p, @, started)
                                       ELSE [@ EXCEPT !.pc = "remove"]]
     \/ task' = [task EXCEPT ![p] = After(p, @, started)]
  /\ UNCHANGED <<worldVars, saved, api, startVars, leaseVars, sessions, disposed,
                 stopped, overlapped>>

\* Its record is removed: sessions are marked as exited and forgotten, the
\* barrier and the promise are reset, whatever happened meanwhile, and the server
\* is started again.
Removed(p) ==
  /\ task[p].pc = "remove"
  /\ saved' = None /\ sessions' = {}
  /\ overlapped' = (overlapped \/ starting # None \/ api # task[p].server)
  /\ Ensures(p, task[p], FALSE, None)
  /\ UNCHANGED <<worldVars, api, leaseVars, disposed, stopped>>

-----------------------------------------------------------------------------
\* The calls of start.
Goes(i, pc) == run' = [run EXCEPT ![i].pc = pc]

\* Fault: the rejected promise stays the one to wait for.
FailsStillStarting(i) ==
  /\ Goes(i, "failed")
  /\ DropLease /\ StopLauncher
  /\ promise' = IF starting = None THEN promise ELSE [promise EXCEPT ![starting] = "rejected"]
  /\ UNCHANGED starting

\* The catch of ensureStarted: whichever promise is the current one is rejected.
Fails(i) ==
  /\ Goes(i, "failed")
  /\ DropLease /\ StopLauncher
  /\ promise' = IF starting = None THEN promise ELSE [promise EXCEPT ![starting] = "rejected"]
  /\ starting' = None

\* Fault: who waits for the start is not told that it is done.
OpensOnly(i) ==
  /\ Goes(i, "done")
  /\ started' = TRUE
  /\ starting' = None
  /\ UNCHANGED promise

\* The barrier opens, and the then of ensureStarted resolves whichever promise is
\* the current one.
Opens(i) ==
  /\ Goes(i, "done")
  /\ started' = TRUE
  /\ promise' = IF starting = None THEN promise ELSE [promise EXCEPT ![starting] = "resolved"]
  /\ starting' = None

\* The saved state is loaded; reconnect looks for its process, and asks it.
Load(i) ==
  /\ run[i].pc = "load"
  /\ IF saved # None /\ saved \in alive
     THEN api' = saved /\ Goes(i, "reconnect")
     ELSE Goes(i, "launch") /\ UNCHANGED api
  /\ UNCHANGED <<worldVars, saved, started, starting, promise, leaseVars, sessions, task,
                 disposed, stopped, overlapped>>

\* It answers, as the server that was saved, and its lease is taken, if it has one;
\* or another does, or none.
Reconnects(i) ==
  /\ run[i].pc = "reconnect"
  /\ \/ /\ api \in alive /\ ~IsStale(api)
        /\ \/ leases' = (leases \ {lease}) \cup {api} /\ lease' = api
           \/ UNCHANGED <<leases, lease>>
        /\ Goes(i, "reconnected")
     \/ Goes(i, "launch") /\ UNCHANGED <<leases, lease>>
  /\ UNCHANGED <<worldVars, saved, api, started, starting, promise, launcher, sessions,
                 task, disposed, stopped, overlapped>>

Reconnected(i) ==
  /\ run[i].pc = "reconnected"
  /\ Opens(i)
  /\ UNCHANGED <<worldVars, saved, api, leaseVars, sessions, task, disposed, stopped,
                 overlapped>>

\* The handshake socket is there: the server is launched, under a new lease.
Launch(i) ==
  /\ run[i].pc = "launch"
  /\ alive' = alive \cup {i}
  /\ leases' = (leases \ {lease}) \cup {i}
  /\ lease' = i
  /\ launcher' = i
  /\ Goes(i, "handshake")
  /\ UNCHANGED <<impostor, crashes, told, saved, api, started, starting, promise, sessions,
                 task, disposed, stopped, overlapped>>

\* There is no server to launch, or no socket.
LaunchFails(i) ==
  /\ run[i].pc = "launch"
  /\ Fails(i)
  /\ UNCHANGED <<alive, impostor, crashes, saved, api, started, sessions, task, disposed,
                 stopped, overlapped>>

\* Fault: that the window has closed is not looked at.
HandshakeAnyway(i) ==
  /\ run[i].pc = "handshake" /\ i \in alive
  /\ Goes(i, "configure")
  /\ UNCHANGED <<worldVars, saved, api, started, starting, promise, leaseVars, sessions,
                 task, disposed, stopped, overlapped>>

\* It shakes hands, unless the window has closed meanwhile.
Handshake(i) ==
  /\ run[i].pc = "handshake" /\ i \in alive /\ ~disposed
  /\ Goes(i, "configure")
  /\ UNCHANGED <<worldVars, saved, api, started, starting, promise, leaseVars, sessions,
                 task, disposed, stopped, overlapped>>

\* It does not in time, or exits, or the window has closed: it is told to stop.
HandshakeFails(i) ==
  /\ run[i].pc = "handshake"
  /\ Goes(i, "failed")
  /\ leases' = leases \ {i, lease} /\ lease' = None
  /\ told' = told \cup ({i, launcher} \ {None}) /\ launcher' = None
  /\ promise' = IF starting = None THEN promise ELSE [promise EXCEPT ![starting] = "rejected"]
  /\ starting' = None
  /\ UNCHANGED <<alive, impostor, crashes, saved, api, started, sessions, task, disposed,
                 stopped, overlapped>>

\* The launcher is configured: requests go to the server from now on.
Configured(i) ==
  /\ run[i].pc = "configure"
  /\ api' = i
  /\ Goes(i, "poll")
  /\ UNCHANGED <<worldVars, saved, started, starting, promise, leaseVars, sessions, task,
                 disposed, stopped, overlapped>>

\* It reports its status, and is saved.
Polled(i) ==
  /\ run[i].pc = "poll" /\ api \in alive
  /\ api' = i /\ saved' = i
  /\ Goes(i, "record")
  /\ UNCHANGED <<worldVars, started, starting, promise, leaseVars, sessions, task, disposed,
                 stopped, overlapped>>

\* The launcher cannot be configured, or the status does not come.
ServerStartFails(i) ==
  /\ run[i].pc \in {"configure", "poll"}
  /\ Fails(i)
  /\ UNCHANGED <<alive, impostor, crashes, saved, api, started, sessions, task, disposed,
                 stopped, overlapped>>

\* It is recorded, and the launcher let go.
Recorded(i) ==
  /\ run[i].pc = "record"
  /\ Opens(i)
  /\ launcher' = None
  /\ UNCHANGED <<worldVars, saved, api, leases, lease, sessions, task, disposed, stopped,
                 overlapped>>

-----------------------------------------------------------------------------
\* shutdownSupervisor, to stop or to restart.  (To restart a server that was
\* never started is to start it.)
Stop(restarting) ==
  /\ ~disposed /\ task[Stopper].pc = "idle"
  /\ \E q \in {[task[Stopper] EXCEPT !.restarting = restarting]} :
       IF restarting /\ ~started
       THEN Ensures(Stopper, q, started, starting)
       ELSE /\ task' = [task EXCEPT ![Stopper] =
                 IF starting # None THEN [q EXCEPT !.pc = "stopWait", !.on = starting]
                 ELSE IF started THEN [q EXCEPT !.pc = "request"]
                 ELSE [q EXCEPT !.pc = "done"]]
            /\ UNCHANGED startVars
  /\ UNCHANGED <<worldVars, saved, api, leaseVars, sessions, disposed, stopped, overlapped>>

\* The start it awaited is over; if it failed so does the stop.
StopWaited ==
  /\ task[Stopper].pc = "stopWait" /\ promise[task[Stopper].on] # "pending"
  /\ task' = [task EXCEPT ![Stopper].pc =
       IF promise[task[Stopper].on] # "resolved" THEN "failed"
       ELSE IF started THEN "request" ELSE "done"]
  /\ UNCHANGED <<worldVars, saved, api, startVars, leaseVars, sessions, disposed, stopped,
                 overlapped>>

\* The server gets the request to shut down, and may exit before it has answered.
TakesRequest ==
  /\ task[Stopper].pc = "request" /\ api \in alive
  /\ told' = told \cup {api}
  /\ task' = [task EXCEPT ![Stopper].pc = "asked", ![Stopper].server = api]
  /\ UNCHANGED <<alive, impostor, crashes, saved, api, startVars, leaseVars, sessions,
                 disposed, stopped, overlapped>>

\* It answers; or the request or the answer fails: then a stop is given up, and a
\* restart goes on.
ShutsDown ==
  /\ \/ task[Stopper].pc = "asked"
     \/ task[Stopper].pc = "request" /\ task[Stopper].restarting
  /\ DropLease
  /\ started' = FALSE /\ api' = None /\ saved' = None
  /\ sessions' = {}
  /\ task' = [task EXCEPT ![Stopper].pc = "cleanup"]
  /\ UNCHANGED <<worldVars, starting, promise, run, launcher, disposed, stopped, overlapped>>

StopFails ==
  /\ task[Stopper].pc \in {"request", "asked"} /\ ~task[Stopper].restarting
  /\ task' = [task EXCEPT ![Stopper].pc = "failed"]
  /\ UNCHANGED <<worldVars, saved, api, startVars, leaseVars, sessions, disposed, stopped,
                 overlapped>>

\* The files are written.
StopEnds ==
  /\ task[Stopper].pc = "cleanup"
  /\ IF task[Stopper].restarting
     THEN /\ EnsuresNow(Stopper, task[Stopper], started, starting)
          /\ UNCHANGED stopped
     ELSE /\ task' = [task EXCEPT ![Stopper].pc = "done"]
          /\ stopped' = IF \E p \in Callers : task[p].pc = "ensure" /\ ~task[p].testing
                        THEN None ELSE task[Stopper].server
          /\ UNCHANGED startVars
  /\ UNCHANGED <<worldVars, saved, api, leaseVars, sessions, disposed, overlapped>>

\* dispose: the window closes.  What is under way goes on.
Dispose ==
  /\ ~disposed /\ disposed' = TRUE
  /\ StopLauncher /\ DropLease
  /\ sessions' = {}
  /\ UNCHANGED <<alive, impostor, crashes, saved, api, startVars, task, stopped, overlapped>>

-----------------------------------------------------------------------------
StartGoesOn(i) ==
  \/ Load(i) \/ Reconnects(i) \/ Reconnected(i) \/ Launch(i) \/ LaunchFails(i)
  \/ Handshake(i) \/ HandshakeFails(i) \/ Configured(i) \/ Polled(i) \/ ServerStartFails(i)
  \/ Recorded(i)

ProcGoesOn(p) ==
  StopAwaited(p) \/ Answered(p) \/ CreateReturns(p) \/ Verified(p) \/ Removed(p)

StopGoesOn == StopWaited \/ TakesRequest \/ ShutsDown \/ StopFails \/ StopEnds

SupervisorNext ==
  \/ \E s \in Servers : ServerExits(s)
  \/ \E p \in Procs : CreateSession(p) \/ Watch(p) \/ ProcGoesOn(p)
  \/ \E i \in Starts : StartGoesOn(i)
  \/ \E restarting \in BOOLEAN : Stop(restarting)
  \/ StopGoesOn
  \/ Dispose

SupervisorSpec == SupervisorInit /\ [][SupervisorNext]_supervisorVars

\* What has no limit: session.create, the status for testServerExited, for reconnect
\* and for pollServerStatusUntilReady wait as long as the server runs and is silent.
AwaitsReply(p) == task[p].pc \in {"create", "verify"} /\ task[p].server \in alive
AwaitsStatus(i) == run[i].pc \in {"reconnect", "poll"} /\ api \in alive
Silence ==
  (\E p \in Procs : AwaitsReply(p)) \/ (\E i \in Starts : AwaitsStatus(i))

\* The handshake and the shutdown request have a timer (10 s, 5 s), a request to a
\* server that has gone fails, files are written, and the event loop goes on.
Fairness ==
  /\ \A i \in Starts : WF_supervisorVars(~AwaitsStatus(i) /\ StartGoesOn(i))
  /\ \A p \in Procs : WF_supervisorVars(~AwaitsReply(p) /\ ProcGoesOn(p))
  /\ WF_supervisorVars(StopGoesOn)

FairSupervisorSpec == SupervisorSpec /\ Fairness

-----------------------------------------------------------------------------
\* Type invariant, in parts.
ServerTypeOK ==
  /\ alive \subseteq Servers /\ told \subseteq Servers /\ leases \subseteq Servers
  /\ saved \in Servers \cup {None} /\ api \in Servers \cup {None}
  /\ lease \in Servers \cup {None} /\ launcher \in Servers \cup {None}
  /\ impostor \in BOOLEAN /\ crashes \in Nat

StartTypeOK ==
  /\ started \in BOOLEAN /\ starting \in Starts \cup {None}
  /\ promise \in [Starts -> {"none", "pending", "resolved", "rejected"}]
  /\ run \in [Starts -> Run]
  /\ starting # None => promise[starting] = "pending"

ProcTypeOK ==
  /\ sessions \subseteq Callers
  /\ task \in [Procs -> Proc]
  /\ \A p \in Procs : task[p].pc \in {"wait", "await", "stopWait"} => task[p].on # None
  /\ disposed \in BOOLEAN /\ stopped \in Servers \cup {None} /\ overlapped \in BOOLEAN

\* The fields have their types, and the promise of a start that others wait for
\* is not settled.
SupervisorTypeOK == ServerTypeOK /\ StartTypeOK /\ ProcTypeOK

\* The server that sessions are created on is the one that was saved or launched;
\* its lease is renewed if this window launched it (one of an earlier window may
\* have none), and no other server's; only a stop on purpose has told it to end,
\* unless two recoveries overlapped.
OnlineIsOurs ==
  (started /\ ~disposed /\ ~overlapped)
    => /\ api # None /\ ~IsStale(api)
       /\ api = Old \/ api \in leases
       /\ leases \subseteq {api}
       /\ api \in told => task[Stopper].pc \in {"asked", "failed"}

\* No server is left behind: one that was launched and runs is in use, is being
\* started, or has been told to stop or will be by its launcher, whose lease is
\* no longer renewed.  That a start fails, or the window closes at any of its
\* awaits, changes nothing in this.
NothingLeftRunning ==
  ~overlapped =>
    \A i \in Starts \cap alive :
      \/ i \in told \/ i \notin leases
      \/ i \in UnderWay
      \/ started /\ api = i /\ ~disposed

\* Servers are owned, both ways: the one in use is ours, and none that is ours
\* runs besides (KallichoreAdapterApi.ts:439-470, 549-913, 1045-1120, 1827-1849).
ServersAreOwned == OnlineIsOurs /\ NothingLeftRunning

\* A stop on purpose is final: no recovery that noticed that the server has gone
\* starts it again; a session asked for during the stop or later does.
NoRecoveryAfterStop ==
  (stopped # None /\ ~overlapped) =>
    /\ \A p \in Procs : task[p].pc = "remove" => task[p].server # stopped
    /\ UnderWay = {}

\* A session that was asked for is created, or its creation fails, unless two
\* recoveries overlapped or a server that runs leaves a request unanswered for ever:
\* no promise is left unsettled, whatever else fails, crashes or is stopped meanwhile
\* (KallichoreAdapterApi.ts:439-470, 1264-1331, 1429-1548).
CallersAreAnswered ==
  \A p \in Callers :
    (task[p].pc # "idle") ~> (task[p].pc = "done" \/ overlapped \/ []Silence)

\* "If the server is starting, this waits for the server to start.  @returns A
\* promise that resolves when the Kallichore server is online": the promise of a
\* start that is over has been settled (KallichoreAdapterApi.ts:434).
StartAnswers ==
  \A i \in Starts : run[i].pc \in {"done", "failed"} => promise[i] # "pending"
=============================================================================
