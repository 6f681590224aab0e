--------------------------- MODULE PlotRenderQueue ---------------------------
(***************************************************************************)
(* The queue of plot operations of one session                             *)
(* (runtime/positronPlotRenderQueue.ts).                                   *)
(*                                                                         *)
(* Plots ask their kernel to render, and for their intrinsic size and      *)
(* metadata, one operation at a time.  A comm call takes up to 30 s, and   *)
(* meanwhile plots queue more, supersede what they queued, and close; the  *)
(* runtime is busy, exits and restarts; and calls that were cancelled are  *)
(* still answered, late.                                                   *)
(***************************************************************************)
EXTENDS Naturals, Sequences

CONSTANTS
  Ops,    \* operations that are ever requested: a bound, not in the code
  Comms,  \* the comms of the session's plots
  None    \* no operation

ASSUME NoneAssumption == None \notin Ops

VARIABLES
  queue,      \* _queue
  active,     \* _activeOperation
  processing, \* _isProcessing
  disposed,   \* _disposed
  watched,    \* _commCloseListeners: comms with a close listener
  request,    \* comm, type and preview flag of each operation
  outcome,    \* how each operation's promise stands
  calls,      \* operations whose comm call has not been answered
  runtime,    \* getRuntimeState: "ready" for Idle and Ready
  closed      \* comms that have closed

control == <<queue, active, processing, watched>>
vars    == <<control, disposed, request, outcome, calls, runtime, closed>>

\* An export asks for a preview, which is always a render.
Requests ==
  [comm : Comms, type : {"render", "size", "metadata"}, preview : {FALSE}]
    \cup [comm : Comms, type : {"render"}, preview : {TRUE}]

-----------------------------------------------------------------------------
Queued == {queue[i] : i \in DOMAIN queue}
Open   == {o \in Ops : outcome[o] = "open"}
Held   == Queued \cup ({active} \ {None})

Elements(q)  == {q[i] : i \in DOMAIN q}

\* filter: the others in their order.  There is one such sequence, as a queue
\* holds no operation twice.
Without(q, gone) ==
  LET rest == Elements(q) \ gone IN
  {s \in UNION {[1 .. n -> rest] : n \in 0 .. Len(q)} :
     /\ Elements(s) = rest
     /\ \A i, j \in DOMAIN s : i < j => \E k, l \in DOMAIN q :
          k < l /\ q[k] = s[i] /\ q[l] = s[j]}

Becomes(q, act, busy, listeners) ==
  queue' = q /\ active' = act /\ processing' = busy /\ watched' = listeners

\* cancel(): a settled promise stays as it is.
Cancel(ops) ==
  outcome' = [o \in Ops |-> IF o \in ops /\ outcome[o] = "open" THEN "cancelled" ELSE outcome[o]]

\* ensureCommCloseListener: also of a comm that has closed, and that will not
\* say so again.
Watch(req, listeners) == listeners \cup {req.comm}

\* cleanupUnusedCloseListeners: the listeners that remain.
Cleanup(q, act, listeners) ==
  {c \in listeners : \E o \in Elements(q) \cup ({act} \ {None}) : request'[o].comm = c}

\* Fault: a comm is only listened to while it has operations in the queue.
ProcessQueueUnwatching(q, act, busy, listeners) ==
  IF busy \/ (q # <<>> /\ runtime' # "ready")
  THEN Becomes(q, act, busy, listeners) /\ UNCHANGED calls
  ELSE IF q = <<>>
  THEN Becomes(q, act, FALSE, Cleanup(q, act, listeners)) /\ UNCHANGED calls
  ELSE /\ Becomes(Tail(q), Head(q), TRUE, Cleanup(Tail(q), None, listeners))
       /\ calls' = calls \cup {Head(q)}

\* processQueue, from this queue, active operation, lock and listeners.
ProcessQueue(q, act, busy, listeners) ==
  IF busy \/ (q # <<>> /\ runtime' # "ready")
  THEN Becomes(q, act, busy, listeners) /\ UNCHANGED calls
  ELSE IF q = <<>>
  THEN Becomes(q, act, FALSE, Cleanup(q, act, listeners)) /\ UNCHANGED calls
  ELSE Becomes(Tail(q), Head(q), TRUE, listeners) /\ calls' = calls \cup {Head(q)}

-----------------------------------------------------------------------------
\* cancelExistingOperations: what a request that is no preview replaces.
Superseded(req) ==
  {o \in Queued : /\ ~req.preview /\ ~request[o].preview
                  /\ request[o].comm = req.comm /\ request[o].type = req.type}

\* queue, queueIntrinsicSizeRequest and queueMetadataRequest.
Queue(o, req) ==
  /\ outcome[o] = "none"
  /\ request' = [request EXCEPT ![o] = req]
  /\ UNCHANGED <<disposed, runtime, closed>>
  /\ IF disposed
     THEN outcome' = [outcome EXCEPT ![o] = "cancelled"] /\ UNCHANGED <<control, calls>>
     ELSE LET gone == Superseded(req) IN
          /\ outcome' = [p \in Ops |-> IF p = o THEN "open"
                                       ELSE IF p \in gone THEN "cancelled" ELSE outcome[p]]
          /\ \E q \in Without(queue, gone) :
               IF runtime = "ready"
               THEN ProcessQueue(Append(q, o), active, processing, Watch(req, watched))
               ELSE /\ Becomes(Append(q, o), active, processing, Watch(req, watched))
                    /\ UNCHANGED calls

\* Fault: the queue is not looked at again.
ReturnsIdle(o, result) ==
  /\ o \in calls
  /\ outcome' = [outcome EXCEPT ![o] = IF @ = "open" THEN result ELSE @]
  /\ UNCHANGED <<disposed, request, runtime, closed>>
  /\ calls' = calls \ {o}
  /\ IF active # o THEN UNCHANGED control ELSE Becomes(queue, None, FALSE, watched)

\* The comm call of an operation is answered, fails or times out: its promise
\* settles, and within the same task it is finished (finishOperation), unless it
\* is no longer the active one.
Returns(o, result) ==
  /\ o \in calls
  /\ outcome' = [outcome EXCEPT ![o] = IF @ = "open" THEN result ELSE @]
  /\ UNCHANGED <<disposed, request, runtime, closed>>
  /\ IF active # o
     THEN calls' = calls \ {o} /\ UNCHANGED control
     ELSE IF queue # <<>> /\ runtime = "ready"
     THEN /\ Becomes(Tail(queue), Head(queue), TRUE, watched)
          /\ calls' = (calls \ {o}) \cup {Head(queue)}
     ELSE /\ Becomes(queue, None, FALSE, IF queue = <<>> THEN {} ELSE watched)
          /\ calls' = calls \ {o}

\* The runtime becomes idle or ready.
RuntimeReady ==
  /\ runtime' = "ready"
  /\ UNCHANGED <<disposed, request, outcome, closed>>
  /\ IF disposed \/ queue = <<>>
     THEN UNCHANGED <<control, calls>>
     ELSE ProcessQueue(queue, active, processing, watched)

\* It becomes busy, offline, or is starting.
RuntimeBusy ==
  /\ runtime # "busy" /\ runtime' = "busy"
  /\ UNCHANGED <<control, disposed, request, outcome, calls, closed>>

\* It exits: every operation is cancelled.
RuntimeExits ==
  /\ runtime # "exited" /\ runtime' = "exited"
  /\ UNCHANGED <<disposed, request, calls, closed>>
  /\ IF disposed
     THEN UNCHANGED <<control, outcome>>
     ELSE /\ Cancel(Queued \cup {active})
          /\ Becomes(<<>>, None, active = None /\ processing, {})

\* A comm closes, which its listener is told: cancelOperationsForClosedComm.
CommCloses(c) ==
  /\ c \notin closed /\ closed' = closed \cup {c}
  /\ UNCHANGED <<disposed, request, runtime>>
  /\ IF c \notin watched
     THEN UNCHANGED <<control, outcome, calls>>
     ELSE LET gone == {o \in Held : request[o].comm = c} IN
          /\ Cancel(gone)
          /\ \E q \in Without(queue, gone) :
               ProcessQueue(q, IF active \in gone THEN None ELSE active,
                            processing /\ active \notin gone, watched \ {c})

\* dispose: the session is detached from the plots service.
Dispose ==
  /\ ~disposed /\ disposed' = TRUE
  /\ Cancel(Queued \cup {active})
  /\ Becomes(<<>>, None, FALSE, {})
  /\ UNCHANGED <<request, calls, runtime, closed>>

-----------------------------------------------------------------------------
Init ==
  /\ queue = <<>> /\ active = None /\ processing = FALSE /\ watched = {}
  /\ disposed = FALSE
  /\ request = [o \in Ops |-> None] /\ outcome = [o \in Ops |-> "none"]
  /\ calls = {}
  /\ runtime \in {"ready", "busy"}
  /\ closed = {}

Next ==
  \/ \E o \in Ops : \/ \E req \in Requests : Queue(o, req)
                    \/ \E result \in {"done", "failed"} : Returns(o, result)
  \/ RuntimeReady \/ RuntimeBusy \/ RuntimeExits
  \/ \E c \in Comms : CommCloses(c)
  \/ Dispose

Spec == Init /\ [][Next]_vars

\* Every comm call is answered or times out (30 s, positronPlotCommProxy.ts:117,
\* and 5 s for metadata).
Fairness == \A o \in Ops : WF_vars(\E result \in {"done", "failed"} : Returns(o, result))

FairSpec == Spec /\ Fairness

-----------------------------------------------------------------------------
\* Type invariant: the fields have their types, and only operations that were
\* requested are queued, active or with the kernel.
TypeOK ==
  /\ queue \in Seq(Ops)
  /\ active \in Ops \cup {None}
  /\ processing \in BOOLEAN /\ disposed \in BOOLEAN
  /\ watched \subseteq Comms /\ closed \subseteq Comms
  /\ request \in [Ops -> Requests \cup {None}]
  /\ outcome \in [Ops -> {"none", "open", "done", "failed", "cancelled"}]
  /\ calls \subseteq {o \in Ops : outcome[o] # "none"}
  /\ runtime \in {"ready", "busy", "exited"}

\* One operation at a time: the lock is held exactly while an operation is
\* active, and no comm call of another operation that someone still waits for
\* is unanswered.  (Calls of operations given up on may be.)
OneAtATime ==
  /\ processing <=> active # None
  /\ calls \cap Open \subseteq {active}

\* Nothing is stranded: while the runtime can take an operation, a queue that is
\* not empty is being worked off.
NothingStranded == (runtime = "ready" /\ queue # <<>>) => processing

\* An operation is held, in the queue or as the active one, once and exactly as
\* long as its promise is open: exits, closed comms and late answers neither
\* leave a promise open that nobody will settle nor run one that is settled.
EveryOpenIsHeld ==
  /\ Held = Open
  /\ \A i, j \in DOMAIN queue : queue[i] = queue[j] => i = j
  /\ active \notin Queued
  /\ active # None => active \in calls

\* Only the latest request of a plot waits: two that are no previews, of one
\* comm and type, are never both in the queue.
LatestOnly ==
  \A o, p \in Queued :
    /\ request[o].comm = request[p].comm /\ request[o].type = request[p].type
    /\ ~request[o].preview /\ ~request[p].preview
    => o = p

\* The lock of the queue does what it is for: operations run one at a time and
\* none waits for nothing, or behind a newer one of its plot
\* (positronPlotRenderQueue.ts:517-606, 640-700).
WorksInTurn == OneAtATime /\ NothingStranded /\ LatestOnly

\* The comm of an operation that is held is listened to, unless it closed: that
\* it closes ends the operation.
CloseIsHeard == \A o \in Held : request[o].comm \in watched \cup closed

\* Whoever waits for an operation will hear of its end: it is held as long as its
\* promise is open, and the comm it depends on is listened to
\* (positronPlotRenderQueue.ts:355-420, 700-760).
OpenIsFollowed == EveryOpenIsHeld /\ CloseIsHeard

\* An operation that was requested is worked on, in its turn, until its promise
\* is settled, and no operation is worked on besides
\* (positronPlotRenderQueue.ts:355-420, 517-700).
OpenIsWorkedOff == WorksInTurn /\ OpenIsFollowed

\* Operations settle, if the runtime keeps becoming ready: as finitely many are
\* requested, in the end none is open (positronPlotRenderQueue.ts:355-420, 517-700).
OperationsSettle == []<>(runtime = "ready") => []<>(Open = {})
=============================================================================
