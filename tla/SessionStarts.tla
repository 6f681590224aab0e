--------------------------- MODULE SessionStarts ---------------------------
(***************************************************************************)
(* The bookkeeping of session starts in RuntimeSessionService               *)
(* (runtime/runtimeSession.ts): which starts are under way and can be       *)
(* joined, which consoles and notebooks are reserved by a start, and which  *)
(* session owns each notebook.                                              *)
(*                                                                          *)
(* Every call goes through several awaits, and other calls, state changes   *)
(* of the sessions, deletions and renames of notebooks fall between them.   *)
(* A session is started, exits and is shut down as SessionLifecycle says:   *)
(* here its kernel is external, and only the state it reports is kept.      *)
(***************************************************************************)
EXTENDS Naturals, FiniteSets

CONSTANTS
  Sessions,   \* session ids
  Calls,      \* starts, restores and restarts that can be under way at once
  Runtimes,   \* runtime ids
  Notebooks,  \* notebook URIs
  Console,    \* the place of a console session, in place of a notebook URI
  None        \* no session, no call

ASSUME DistinctAssumption ==
  /\ Runtimes \cap Notebooks = {} /\ Console \notin Notebooks
  /\ None \notin Sessions /\ None \notin Calls

Places == Notebooks \cup {Console}
Keys   == Runtimes \X Places

VARIABLES
  sessions,  \* _sessions
  used,      \* history: session ids given out, _generateSessionId is fresh
  at,        \* runtimeId, mode and notebookUri of a session
  state,     \* RuntimeSession.state, "waiting" for one neither usable nor ended
  reserved,  \* _startingConsolesByRuntimeId, _startingNotebooksByNotebookUri
  inflight,  \* _startingSessionsBySessionMapKey
  mapped,    \* _notebookSessionsByNotebookUri
  calls,     \* where each call is, its session and the key it was made with,
             \* and its wait for readiness
  closing,   \* _shuttingDownNotebookSessionsByNotebookUri: what each shuts down
  stray      \* history: reservations whose owner can no longer release them

session == <<sessions, used, at, state>>
maps    == <<reserved, inflight, mapped>>
vars    == <<session, maps, calls, closing, stray>>

-----------------------------------------------------------------------------
\* The notebook of a session, or Console.
Place(s) == at[s][2]

\* Fault: the whole key is reserved.
KeyAsSlot(key) == key

\* What a start with this key reserves: the runtime for a console, else the
\* notebook.
Slot(key) == IF key[2] = Console THEN key[1] ELSE key[2]

\* The call that makes a start of this key joinable.
Joinable(key) == inflight[key] # None

Call(pc, s, key, ready) == [pc |-> pc, of |-> s, key |-> key, ready |-> ready]

\* No call: it has not been made, or has ended.
Idle == Call("idle", None, None, "pending")

\* The calls that are under way.
Running == {c \in Calls : calls[c].pc \notin {"idle", "late"}}

\* The slots that a call will release when it ends or its session is ready.
Owned ==
  {Slot(calls[c].key) : c \in {d \in Calls : calls[d].pc = "creating"}} \cup
  {Slot(at[calls[c].of]) : c \in {d \in Calls : calls[d].pc \in {"starting", "waiting", "late", "restarting"}}}

\* The calls of a session that observe it for a late ready event.
Late(s) == {c \in Calls : calls[c].pc = "late" /\ calls[c].of = s}

\* Fault: an ended call leaves its own entry in place.
ClearKeysOnly(c, keys) ==
  /\ reserved' = reserved \ {Slot(k) : k \in keys}
  /\ inflight' = [k \in Keys |-> IF k \in keys THEN None ELSE inflight[k]]

\* clearStartingSessionMaps, and the `finally` of call c, which withdraws its
\* own entry; the first deletes an entry whoever owns it.
Clear(c, keys) ==
  /\ reserved' = reserved \ {Slot(k) : k \in keys}
  /\ inflight' = [k \in Keys |-> IF k \in keys \/ inflight[k] = c THEN None ELSE inflight[k]]

\* The session takes over its notebook.
Map(s) ==
  mapped' = IF Place(s) = Console THEN mapped ELSE [mapped EXCEPT ![Place(s)] = s]

\* updateSessionMapsAfterExit: whatever session its notebook is mapped to.
Unmap(s) ==
  mapped' = IF Place(s) = Console THEN mapped ELSE [mapped EXCEPT ![Place(s)] = None]

\* The call ends, or goes on elsewhere.
End(c) == calls' = [calls EXCEPT ![c] = Idle]
Goto(c, pc) == calls' = [calls EXCEPT ![c].pc = pc]
EndAll(C) == calls' = [c \in Calls |-> IF c \in C THEN Idle ELSE calls[c]]

\* A reservation stops being stray when it is released.
KeepStray(add) == stray' = (stray \cup add) \cap reserved'

-----------------------------------------------------------------------------
(* Calling.                                                                *)

\* validateRuntimeSessionStart lets a new start with this key go on.
Startable(key) ==
  /\ Slot(key) \notin reserved
  /\ key[2] # Console => mapped[key[2]] = None

\* startNewRuntimeSession up to its first await, when it neither joins a
\* start, nor is refused, nor returns the notebook's session.
StartNew(c, key) ==
  /\ calls[c] = Idle /\ ~Joinable(key) /\ Startable(key)
  /\ reserved' = reserved \cup {Slot(key)}
  /\ inflight' = [inflight EXCEPT ![key] = c]
  /\ calls' = [calls EXCEPT ![c] = Call("creating", None, key, "pending")]
  /\ UNCHANGED <<session, mapped, closing, stray>>

\* The manager has created the session: it is listed, and its start called.
SessionCreated(c, s) ==
  /\ calls[c].pc = "creating" /\ s \notin used
  /\ sessions' = sessions \cup {s} /\ used' = used \cup {s}
  /\ at' = [at EXCEPT ![s] = calls[c].key]
  /\ calls' = [calls EXCEPT ![c] = Call("starting", s, calls[c].key, "pending")]
  /\ UNCHANGED <<state, maps, closing, stray>>

\* Fault: the reservation of a failed creation is kept.
CreateFailsReserved(c) ==
  /\ calls[c].pc = "creating"
  /\ End(c)
  /\ inflight' = [inflight EXCEPT ![calls[c].key] = None]
  /\ UNCHANGED <<session, reserved, mapped, closing, stray>>

\* The manager fails.
CreateFails(c) ==
  /\ calls[c].pc = "creating"
  /\ End(c)
  /\ Clear(c, {calls[c].key})
  /\ KeepStray({})
  /\ UNCHANGED <<session, mapped, closing>>

\* _startExistingSession of a session that has not started or has exited.
StartExisting(c, s) ==
  /\ calls[c] = Idle /\ s \in sessions /\ ~Joinable(at[s])
  /\ state[s] \in {"uninitialized", "exited"}
  /\ reserved' = reserved \cup {Slot(at[s])}
  /\ inflight' = [inflight EXCEPT ![at[s]] = c]
  /\ calls' = [calls EXCEPT ![c] = Call("starting", s, at[s], "pending")]
  /\ UNCHANGED <<session, mapped, closing, stray>>

\* restoreRuntimeSession of a session that an earlier window left: its start
\* neither reserves anything nor can be joined.
Restore(c, s, key) ==
  /\ calls[c] = Idle /\ s \notin used
  /\ sessions' = sessions \cup {s} /\ used' = used \cup {s}
  /\ at' = [at EXCEPT ![s] = key]
  /\ calls' = [calls EXCEPT ![c] = Call("starting", s, key, "pending")]
  /\ UNCHANGED <<state, maps, closing, stray>>

\* The restart proper: the session's slot is reserved, and the entry of the
\* key, which may by now be that of another start, is overwritten.
BeginRestart(c, s, key) ==
  /\ reserved' = reserved \cup {Slot(at[s])}
  /\ inflight' = [inflight EXCEPT ![key] = c]
  /\ calls' = [calls EXCEPT ![c] = Call("restarting", s, key, "pending")]

\* _restartSession of a usable session; a busy one is interrupted first, if
\* the user agrees.  A second call joins the restart of the session.
RestartCall(c, s) ==
  /\ calls[c] = Idle /\ s \in sessions /\ state[s] = "usable"
  /\ ~Joinable(at[s])
  /\ \A d \in Calls : calls[d].of = s => calls[d].pc \notin {"prompt", "restarting"}
  /\ \/ BeginRestart(c, s, at[s])
     \/ /\ calls' = [calls EXCEPT ![c] = Call("prompt", s, at[s], "pending")]
        /\ UNCHANGED <<reserved, inflight>>
  /\ UNCHANGED <<session, mapped, closing, stray>>

\* The session is usable again.  What other calls have done meanwhile is not
\* looked at.
RestartPrompted(c) ==
  /\ calls[c].pc = "prompt" /\ state[calls[c].of] = "usable"
  /\ BeginRestart(c, calls[c].of, calls[c].key)
  /\ UNCHANGED <<session, mapped, closing, stray>>

\* The user declines, or the interrupted session does not come back.
RestartDeclined(c) ==
  /\ calls[c].pc = "prompt"
  /\ End(c)
  /\ UNCHANGED <<session, maps, closing, stray>>

-----------------------------------------------------------------------------
(* How a start or a restart ends.                                          *)

\* finalizeStart: the session takes its notebook, its key is released.
Finalize(c) ==
  /\ End(c)
  /\ Clear(c, {at[calls[c].of]})
  /\ Map(calls[c].of)

\* failStart, and for a new session the handler in _doCreateRuntimeSession.
Fail(c) ==
  /\ End(c)
  /\ Clear(c, {at[calls[c].of], calls[c].key})
  /\ UNCHANGED mapped

\* The wait for readiness has timed out: a session that is neither usable nor
\* exited is observed further, which ends the call but keeps the reservation.
TimedOut(c) ==
  CASE state[calls[c].of] = "usable" -> Finalize(c)
    [] state[calls[c].of] = "exited" -> Fail(c)
    [] OTHER -> /\ IF calls[c].of \in sessions THEN Goto(c, "late") ELSE End(c)
                /\ inflight' = [k \in Keys |-> IF inflight[k] = c THEN None ELSE inflight[k]]
                /\ UNCHANGED <<reserved, mapped>>

\* session.start() resolves, for a session that is not disposed.  It does so
\* on the kernel's answer, before an exit can be handled; an earlier exit has
\* failed the request.
StartResolves(c) ==
  /\ calls[c].pc = "starting" /\ calls[c].of \in sessions
  /\ state[calls[c].of] \in {"waiting", "usable"}
  /\ CASE calls[c].ready = "ready"    -> Finalize(c)
       [] calls[c].ready = "timedOut" -> TimedOut(c)
       [] OTHER -> Goto(c, "waiting") /\ UNCHANGED maps
  /\ KeepStray({})
  /\ UNCHANGED <<session, closing>>

\* session.start() fails: the kernel has not been created, has been reported
\* as exited, or the session is disposed.
StartRejects(c) ==
  /\ calls[c].pc = "starting"
  /\ calls[c].of \in sessions => state[calls[c].of] \in {"uninitialized", "exited"}
  /\ Fail(c)
  /\ KeepStray({})
  /\ UNCHANGED <<session, closing>>

\* Ten seconds after the start was called, _waitForSessionReady gives up.
ReadyTimeout(c) ==
  /\ calls[c].pc \in {"starting", "waiting"} /\ calls[c].ready = "pending"
  /\ IF calls[c].pc = "waiting"
     THEN /\ TimedOut(c)
          /\ KeepStray(IF calls[c].of \in sessions THEN {} ELSE {Slot(at[calls[c].of])})
     ELSE /\ calls' = [calls EXCEPT ![c].ready = "timedOut"]
          /\ UNCHANGED <<maps, stray>>
  /\ UNCHANGED <<session, closing>>

\* session.restart() has resolved and the session is usable.
RestartSucceeds(c) ==
  /\ calls[c].pc = "restarting" /\ calls[c].of \in sessions /\ state[calls[c].of] = "usable"
  /\ Finalize(c)
  /\ KeepStray({})
  /\ UNCHANGED <<session, closing>>

\* The restart fails, or the session is not ready in time: in its `finally`
\* the key is released, but the notebook is not mapped again.
RestartFails(c) ==
  /\ calls[c].pc = "restarting"
  /\ End(c)
  /\ Clear(c, {at[calls[c].of]})
  /\ KeepStray({})
  /\ UNCHANGED <<session, mapped, closing>>

-----------------------------------------------------------------------------
(* The sessions.                                                           *)

\* The kernel is being started, or is away: offline or interrupting.
BecomesWaiting(s) ==
  /\ s \in sessions /\ state[s] # "waiting"
  /\ state[s] # "usable" =>
       \E c \in Calls : calls[c].of = s /\ calls[c].pc \in {"starting", "restarting"}
  /\ state' = [state EXCEPT ![s] = "waiting"]
  /\ UNCHANGED <<sessions, used, at, maps, calls, closing, stray>>

\* A state change that makes a session usable settles what waits for it.
BecomesUsable(s) ==
  /\ s \in sessions /\ state[s] = "waiting"
  /\ state' = [state EXCEPT ![s] = "usable"]
  /\ LET waiting == {c \in Calls : calls[c].of = s /\ calls[c].pc \in {"waiting", "late"}} IN
     /\ calls' = [c \in Calls |->
          IF c \in waiting THEN Idle
          ELSE IF calls[c].of = s /\ calls[c].pc = "starting" /\ calls[c].ready = "pending"
               THEN [calls[c] EXCEPT !.ready = "ready"] ELSE calls[c]]
     /\ IF waiting = {}
        THEN UNCHANGED maps
        ELSE /\ reserved' = reserved \ {Slot(at[s])}
             /\ inflight' = [k \in Keys |-> IF k = at[s] \/ inflight[k] \in waiting
                                            THEN None ELSE inflight[k]]
             /\ Map(s)
  /\ KeepStray({})
  /\ UNCHANGED <<sessions, used, at, closing>>

\* A session exits: its notebook is unmapped, and a start observed late fails.
Exits(s) ==
  /\ s \in sessions /\ state[s] \in {"waiting", "usable"}
  /\ state' = [state EXCEPT ![s] = "exited"]
  /\ Unmap(s)
  /\ EndAll(Late(s))
  /\ IF Late(s) = {}
     THEN UNCHANGED <<reserved, inflight>>
     ELSE /\ reserved' = reserved \ {Slot(at[s])}
          /\ inflight' = [inflight EXCEPT ![at[s]] = None]
  /\ KeepStray({})
  /\ UNCHANGED <<sessions, used, at, closing>>

\* _removeSession: what observed the session is disposed, the start of its key
\* can no longer be joined, and its notebook is unmapped.
RemoveSession(s) ==
  /\ sessions' = sessions \ {s}
  /\ Unmap(s)
  /\ inflight' = [inflight EXCEPT ![at[s]] = None]
  /\ EndAll(Late(s))
  /\ UNCHANGED <<used, at, state, reserved>>
  /\ KeepStray(IF Late(s) = {} THEN {} ELSE {Slot(at[s])})

\* deleteSession, when the exit of the kernel is confirmed.  That it waits for
\* it is seen by no other call.
Delete(s) ==
  /\ s \in sessions
  /\ RemoveSession(s)
  /\ UNCHANGED closing

\* A shutdown of the notebook's session is under way and is joined; removing
\* the session ends that.
Closing(u) ==
  \E p \in closing : p[1] = u /\ (p[2] \in sessions \/ Place(p[2]) # u)

\* shutdownNotebookSession: it and a deletion do not know of each other, and
\* each removes the session when its own wait for the exit ends.
CloseNotebook(u) ==
  /\ mapped[u] # None /\ ~Closing(u)
  /\ closing' = closing \cup {<<u, mapped[u]>>}
  /\ UNCHANGED <<session, maps, calls, stray>>

CloseRemoves(u, s) ==
  /\ <<u, s>> \in closing
  /\ closing' = closing \ {<<u, s>>}
  /\ RemoveSession(s)

CloseFails(u, s) ==
  /\ <<u, s>> \in closing
  /\ closing' = closing \ {<<u, s>>}
  /\ UNCHANGED <<session, maps, calls, stray>>

\* updateNotebookSessionUri.  A start of the session under way releases the
\* new URI, not the one it reserved.
Rename(u, v) ==
  /\ u # v /\ mapped[u] # None /\ state[mapped[u]] # "exited"
  /\ LET s == mapped[u] IN
     /\ mapped' = [mapped EXCEPT ![v] = s, ![u] = None]
     /\ at' = [at EXCEPT ![s] = <<at[s][1], v>>]
     /\ stray' = IF \E c \in Running : calls[c].of = s THEN stray \cup ({u} \cap reserved) ELSE stray
  /\ UNCHANGED <<sessions, used, state, reserved, inflight, calls, closing>>

-----------------------------------------------------------------------------
Init ==
  /\ sessions = {} /\ used = {}
  /\ at = [s \in Sessions |-> None]
  /\ state = [s \in Sessions |-> "uninitialized"]
  /\ reserved = {} /\ inflight = [k \in Keys |-> None]
  /\ mapped = [u \in Notebooks |-> None]
  /\ calls = [c \in Calls |-> Idle]
  /\ closing = {}
  /\ stray = {}

Starting ==
  \E c \in Calls :
    \/ \E key \in Keys : StartNew(c, key) \/ \E s \in Sessions : Restore(c, s, key)
    \/ \E s \in Sessions : SessionCreated(c, s) \/ StartExisting(c, s) \/ RestartCall(c, s)
    \/ CreateFails(c) \/ RestartPrompted(c) \/ RestartDeclined(c)
    \/ StartResolves(c) \/ StartRejects(c) \/ ReadyTimeout(c)
    \/ RestartSucceeds(c) \/ RestartFails(c)

Changing ==
  \E s \in Sessions :
    \/ BecomesWaiting(s) \/ BecomesUsable(s) \/ Exits(s)
    \/ Delete(s)
    \/ \E u \in Notebooks : CloseRemoves(u, s) \/ CloseFails(u, s)

Notebook ==
  \E u \in Notebooks : CloseNotebook(u) \/ \E v \in Notebooks : Rename(u, v)

Next == Starting \/ Changing \/ Notebook

Spec == Init /\ [][Next]_vars

-----------------------------------------------------------------------------
SessionsType ==
  /\ sessions \subseteq used /\ used \subseteq Sessions
  /\ at \in [Sessions -> Keys \cup {None}]
  /\ state \in [Sessions -> {"uninitialized", "waiting", "usable", "exited"}]

MapsType ==
  /\ reserved \subseteq Runtimes \cup Notebooks
  /\ inflight \in [Keys -> Calls \cup {None}]
  /\ mapped \in [Notebooks -> Sessions \cup {None}]

CallsType ==
  calls \in [Calls -> [
    pc    : {"idle", "creating", "starting", "waiting", "late", "prompt", "restarting"},
    of    : Sessions \cup {None}, key : Keys \cup {None},
    ready : {"pending", "ready", "timedOut"}]]

HistoryType ==
  /\ closing \subseteq Notebooks \X used
  /\ stray \subseteq reserved

\* Ids that have been given out, keys of the starting maps, and states, are
\* of their kinds: no map holds a key of another map
\* (runtimeSession.ts:136-143).
TypeOK == SessionsType /\ MapsType /\ CallsType /\ HistoryType

\* A notebook is mapped to a session that is listed and is that notebook's,
\* through renames, exits, restarts and removals in any order
\* (runtimeSession.ts:1358-1380, 1630-1650, 2884-2925).
MappedIsCurrent ==
  \A u \in Notebooks : mapped[u] # None => mapped[u] \in sessions /\ Place(mapped[u]) = u

\* Whoever joins a start waits for a call that has not ended, even when
\* entries are overwritten or withdrawn by other calls
\* (runtimeSession.ts:786-829, 1867-1905, 2303-2355).
JoinedIsRunning ==
  \A key \in Keys : Joinable(key) => inflight[key] \in Running

\* What the maps of the service lead to is what is there: a notebook to its
\* session, whoever asks for a start under way to a call that will answer
\* (runtimeSession.ts:786-829, 1358-1380, 1867-1905, 2884-2925).
EntriesAreCurrent == MappedIsCurrent /\ JoinedIsRunning

\* A runtime or a notebook stays reserved only while a call will release it;
\* the exceptions are the removal of a session whose late start is observed,
\* and the rename of a notebook whose session is being restarted
\* (runtimeSession.ts:1599-1708, 1821-1857, 2326-2355, 2780-2791).
ReservationsAreOwned == reserved \subseteq Owned \cup stray

\* A start is refused only while another start or restart is under way:
\* "cannot be started because ... is already starting"
\* (runtimeSession.ts:2803-2806, 2821-2825).
AlreadyStarting == reserved \subseteq Owned

\* A usable session of the same runtime and notebook is used, and no other one
\* started: "reuses the existing notebook session for the same runtime and
\* notebook URI" (runtimeSessionStart.unit.test.ts:377).
ReusesNotebookSession ==
  [][\A c \in Calls, s \in Sessions :
       calls[c] = Idle /\ calls'[c].pc = "creating" /\ s \in sessions /\ state[s] = "usable"
       /\ Place(s) # Console /\ (\A d \in Running : calls[d].of # s)
       => calls'[c].key # at[s]]_vars
=============================================================================
