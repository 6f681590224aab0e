---------------------------- MODULE RuntimeClients ----------------------------
(***************************************************************************)
(* The clients (comms) of one runtime session and the RPCs made on them:   *)
(* runtime/runtimeClientManager.ts and runtime/RuntimeClientInstance.ts.   *)
(*                                                                         *)
(* A client is opened by the kernel, or by initializeClients, which lists  *)
(* what the kernel has and creates what is missing, awaiting the kernel at *)
(* each step.  Meanwhile kernels exit and are restarted, clients are       *)
(* closed by either side, and the manager is disposed.  Kernel messages    *)
(* come over a connection, are pre-handled on arrival for clients that an  *)
(* extension took over, and for others when the session's event queue      *)
(* delivers them, of which only its promise is used here: in order, some   *)
(* time later (OrderedDelivery).                                           *)
(***************************************************************************)
EXTENDS Naturals, Sequences, FiniteSets

CONSTANTS
  Comms,        \* comm ids
  TypeOf,       \* the type of each
  Order,        \* the types initializeClients creates, in this order
  HelpType,     \* the one it asks the kernel about first, and may fail to create
  KernelComms,  \* the comms the kernel opens by itself
  Handled,      \* the types whose clients a registered handler takes over
  Rpcs,         \* requests
  None,         \* no comm, no reply
  MaxLives,     \* bound: kernel processes of the session
  MaxInits,     \* bound: calls of initializeClients that do not join another
  MaxWire       \* bound: messages under way

Types == {TypeOf[c] : c \in Comms}
Inits == 1 .. MaxInits

ASSUME CommsAssumption == None \notin Comms /\ KernelComms \subseteq Comms
ASSUME OrderAssumption == Order \in Seq(Types) /\ HelpType \in Types
ASSUME BoundsAssumption ==
  MaxLives \in Nat /\ MaxInits \in Nat /\ MaxWire \in Nat

VARIABLES
  life,         \* the kernel process: first, second ...
  up,           \* it runs
  exited,       \* the session was told of its exit and not of a new one
  open,         \* comms open in the kernel
  born,         \* the life each comm was opened in, 0 if unused
  wire,         \* kernel messages that have not arrived
  queue,        \* those that arrived unhandled and wait in the event queue
  owner,        \* _clients: who handles each client
  connected,    \* clients whose state is Connected
  knownId,      \* _variablesClientId, _uiClientId, _helpClientId
  generation,   \* _generation
  initializing, \* _initializingPromise: its call, or 0
  disposed,     \* _disposed
  calls,        \* the calls of initializeClients
  rpc,          \* the RPCs
  made,         \* history: comms created by initializeClients
  seen,         \* history: comms that were clients
  late,         \* history: clients whose opening was told of after their kernel's exit
  displaced     \* history: clients that another replaced as the known one of their type

kernelVars == <<life, up, exited, open, born>>
managerVars == <<owner, connected, knownId, generation, initializing, disposed>>
historyVars == <<made, seen, late, displaced>>
vars == <<kernelVars, wire, queue, managerVars, calls, rpc, historyVars>>

Message == [kind : {"open", "closed"}, comm : Comms]
             \cup [kind : {"reply", "busy", "idle"}, rpc : Rpcs]

\* A call of initializeClients is about to look at the clients (step), or
\* awaits the list of all clients (restore), of help clients (list), or the
\* creation of comm (create).
Call == [pc : {"unused", "restore", "list", "step", "create", "done"},
         gen : Nat, step : Nat, comm : Comms \cup {None},
         reply : (SUBSET Comms) \cup {None}]

\* A PendingRpc, its deadline timer, its completionGraceTimer, and what the
\* kernel and the caller know of it.
Rpc == [comm : Comms \cup {None}, state : {"unused", "pending", "answered", "failed"},
        timer : BOOLEAN, grace : BOOLEAN,
        kernel : {"unknown", "asked", "busy", "idle"}, replied : BOOLEAN,
        told : {"nothing", "busy", "idle"}]

-----------------------------------------------------------------------------
Tracked       == {c \in Comms : owner[c] # "none"}
OfType(t)     == {c \in Tracked : TypeOf[c] = t}
Unused        == {c \in Comms : born[c] = 0}
Known         == {c \in Comms : \E t \in Types : knownId[t] = c}
New(t)        == {c \in Unused \ KernelComms : TypeOf[c] = t}
StandardTypes == {Order[i] : i \in DOMAIN Order}
Pending(r)    == rpc[r].state = "pending"

\* _isCurrent, for the generation the call was started in.
IsCurrent(k) == ~disposed /\ generation = calls[k].gen

\* Who gets a new client: a handler of its type takes it, or none does.
OwnerOf(c) == IF TypeOf[c] \in Handled THEN "extHost" ELSE "mainThread"

\* _setKnownClientId for these comms, in any order.
KnownWith(cs) ==
  {known \in [Types -> Comms \cup {None}] : \A t \in Types :
     LET new == {c \in cs : TypeOf[c] = t} IN
     IF new = {} \/ t \notin StandardTypes THEN known[t] = knownId[t] ELSE known[t] \in new}

\* _storeClientInstance for each of these comms.
Store(cs) ==
  /\ owner' = [c \in Comms |-> IF c \in cs THEN OwnerOf(c) ELSE owner[c]]
  /\ connected' = connected \cup cs
  /\ knownId' \in KnownWith(cs)
  /\ displaced' = displaced \cup {c \in Known \cup cs : \A t \in Types : knownId'[t] # c}
  /\ seen' = seen \cup cs

\* RuntimeClientInstance.dispose cancels what is pending on these clients.
Cancelled(cs) ==
  [r \in Rpcs |-> IF Pending(r) /\ rpc[r].comm \in cs
                  THEN [rpc[r] EXCEPT !.state = "failed", !.grace = FALSE]
                  ELSE rpc[r]]

\* Session.removeClient: an exited session has no clients.
OpenWithout(cs) == IF exited THEN open ELSE open \ cs

\* _clearKnownClientId.
KnownWithout(c) == [t \in Types |-> IF knownId[t] = c THEN None ELSE knownId[t]]

-----------------------------------------------------------------------------
Init ==
  /\ life = 1 /\ up = TRUE /\ exited = FALSE
  /\ open = {} /\ born = [c \in Comms |-> 0]
  /\ wire = <<>> /\ queue = <<>>
  /\ owner = [c \in Comms |-> "none"]
  /\ connected = {}
  /\ knownId = [t \in Types |-> None]
  /\ generation = 0 /\ initializing = 0 /\ disposed = FALSE
  /\ calls = [k \in Inits |-> [pc |-> "unused", gen |-> 0, step |-> 1,
                               comm |-> None, reply |-> None]]
  /\ rpc = [r \in Rpcs |-> [comm |-> None, state |-> "unused", timer |-> FALSE,
                            grace |-> FALSE, kernel |-> "unknown",
                            replied |-> FALSE, told |-> "nothing"]]
  /\ made = {} /\ seen = {} /\ late = {} /\ displaced = {}

-----------------------------------------------------------------------------
\* The kernel.
Sends(m) == Len(wire) + Len(queue) < MaxWire /\ wire' = Append(wire, m)

KernelOpens(c) ==
  /\ up /\ c \in Unused \cap KernelComms
  /\ born' = [born EXCEPT ![c] = life]
  /\ open' = open \cup {c}
  /\ Sends([kind |-> "open", comm |-> c])
  /\ UNCHANGED <<life, up, exited, queue, managerVars, calls, rpc, historyVars>>

KernelCloses(c) ==
  /\ up /\ c \in open
  /\ open' = open \ {c}
  /\ Sends([kind |-> "closed", comm |-> c])
  /\ UNCHANGED <<life, up, exited, born, queue, managerVars, calls, rpc, historyVars>>

\* It works on a request, answers it once, and may do so after it is idle.
KernelWorks(r) ==
  /\ up /\ rpc[r].comm \in open /\ rpc[r].kernel # "unknown"
  /\ \/ /\ rpc[r].kernel \in {"asked", "idle"}
        /\ rpc' = [rpc EXCEPT ![r].kernel = "busy"]
        /\ Sends([kind |-> "busy", rpc |-> r])
     \/ /\ rpc[r].kernel = "busy"
        /\ rpc' = [rpc EXCEPT ![r].kernel = "idle"]
        /\ Sends([kind |-> "idle", rpc |-> r])
     \/ /\ ~rpc[r].replied
        /\ rpc' = [rpc EXCEPT ![r].replied = TRUE]
        /\ Sends([kind |-> "reply", rpc |-> r])
  /\ UNCHANGED <<kernelVars, queue, managerVars, calls, historyVars>>

\* The kernel process ends, and its comms with it.
KernelExits ==
  /\ up
  /\ up' = FALSE
  /\ open' = {}
  /\ UNCHANGED <<life, exited, born, wire, queue, managerVars, calls, rpc, historyVars>>

KernelRestarts ==
  /\ exited /\ life < MaxLives
  /\ life' = life + 1
  /\ up' = TRUE
  /\ exited' = FALSE
  /\ UNCHANGED <<open, born, wire, queue, managerVars, calls, rpc, historyVars>>

-----------------------------------------------------------------------------
\* handleCommOpen, where a handler takes the client, or openClientInstance.
Opened(c) ==
  IF c \in Tracked
  THEN UNCHANGED <<managerVars, historyVars>>
  ELSE /\ Store({c})
       /\ late' = IF exited \/ born[c] # life THEN late \cup {c} ELSE late
       /\ UNCHANGED <<generation, initializing, disposed, made>>

\* emitClientState(Closed): the client is disposed and forgotten.
Closed(c) ==
  /\ IF c \in Tracked
     THEN /\ owner' = [owner EXCEPT ![c] = "none"]
          /\ connected' = connected \ {c}
          /\ knownId' = KnownWithout(c)
          /\ rpc' = Cancelled({c})
     ELSE UNCHANGED <<owner, connected, knownId, rpc>>
  /\ UNCHANGED <<generation, initializing, disposed>>

\* emitMessage of the reply: it settles the RPC, if it still waits.
Replied(r) ==
  rpc' = IF rpc[r].comm \in Tracked /\ Pending(r)
         THEN [rpc EXCEPT ![r].state = "answered", ![r].grace = FALSE]
         ELSE rpc

\* Fault: an RPC that the kernel works on again keeps its completion timer.
WorkedKeepingGrace(r, s) ==
  rpc' = IF rpc[r].comm \in Tracked /\ Pending(r)
         THEN [rpc EXCEPT ![r].told = s, ![r].grace = @ \/ s = "idle"]
         ELSE [rpc EXCEPT ![r].told = s]

\* updatePendingRpcState: the completion timer runs from idle to busy.
Worked(r, s) ==
  rpc' = IF rpc[r].comm \in Tracked /\ Pending(r)
         THEN [rpc EXCEPT ![r].told = s, ![r].grace = s = "idle"]
         ELSE [rpc EXCEPT ![r].told = s]

\* A message reaches the clients.
Receive(m) ==
  CASE m.kind = "open"   -> Opened(m.comm) /\ UNCHANGED rpc
    [] m.kind = "closed" -> Closed(m.comm) /\ UNCHANGED historyVars
    [] m.kind = "reply"  -> Replied(m.rpc) /\ UNCHANGED <<managerVars, historyVars>>
    [] OTHER             -> Worked(m.rpc, m.kind) /\ UNCHANGED <<managerVars, historyVars>>

\* handleCommOpen, handleCommData and handleCommClosed: whether an extension's
\* client takes the message on arrival.
HandledOnArrival(m) ==
  \/ m.kind = "open" /\ (owner[m.comm] = "extHost"
                         \/ (owner[m.comm] = "none" /\ OwnerOf(m.comm) = "extHost"))
  \/ m.kind = "closed" /\ owner[m.comm] = "extHost"
  \/ m.kind = "reply" /\ rpc[m.rpc].comm \in Comms /\ owner[rpc[m.rpc].comm] = "extHost"

\* A kernel message arrives: it is handled, or it is put into the event queue.
Arrive ==
  /\ ~disposed /\ wire # <<>>
  /\ wire' = Tail(wire)
  /\ IF HandledOnArrival(Head(wire))
     THEN Receive(Head(wire)) /\ UNCHANGED queue
     ELSE queue' = Append(queue, Head(wire)) /\ UNCHANGED <<managerVars, rpc, historyVars>>
  /\ UNCHANGED <<kernelVars, calls>>

\* The event queue delivers its first message.
Deliver ==
  /\ ~disposed /\ queue # <<>>
  /\ queue' = Tail(queue)
  /\ Receive(Head(queue))
  /\ UNCHANGED <<kernelVars, wire, calls>>

\* What _handleRuntimeExited and dispose do to an initialization.
Forgets ==
  /\ generation' = generation + 1
  /\ initializing' = 0

\* _handleRuntimeExited: the session is told, and every client ends.
ExitReported ==
  /\ ~up /\ ~exited /\ ~disposed
  /\ exited' = TRUE
  /\ Forgets
  /\ rpc' = Cancelled(Tracked)
  /\ owner' = [c \in Comms |-> "none"]
  /\ connected' = connected \ Tracked
  /\ knownId' = [t \in Types |-> None]
  /\ UNCHANGED <<life, up, open, born, wire, queue, disposed, calls, historyVars>>

\* dispose of the manager: the known clients are removed from the kernel.
Dispose ==
  /\ ~disposed
  /\ disposed' = TRUE
  /\ Forgets
  /\ rpc' = Cancelled(Tracked)
  /\ owner' = [c \in Comms |-> "none"]
  /\ connected' = connected \ Tracked
  /\ knownId' = [t \in Types |-> None]
  /\ open' = OpenWithout(Known)
  /\ UNCHANGED <<life, up, exited, born, wire, queue, calls, historyVars>>

-----------------------------------------------------------------------------
\* Fault: what was initialized once is not initialized for the next kernel.
InitializeOnce(k) ==
  /\ ~disposed /\ ~exited /\ initializing = 0
  /\ \A j \in Inits : calls[j].pc = "unused"
  /\ initializing' = k
  /\ calls' = [calls EXCEPT ![k].pc = "restore", ![k].gen = generation]
  /\ UNCHANGED <<kernelVars, wire, queue, owner, connected, knownId, generation,
                 disposed, rpc, historyVars>>

\* initializeClients begins, unless it joins a call under way: it asks the
\* kernel for its clients.  Called on Ready, and by callMethod.  The bound
\* leaves a call to every later life.
Initialize(k) ==
  /\ ~disposed /\ ~exited /\ initializing = 0
  /\ calls[k].pc = "unused" /\ \A j \in Inits : j < k => calls[j].pc # "unused"
  /\ k <= MaxInits - (MaxLives - life)
  /\ initializing' = k
  /\ calls' = [calls EXCEPT ![k].pc = "restore", ![k].gen = generation]
  /\ UNCHANGED <<kernelVars, wire, queue, owner, connected, knownId, generation,
                 disposed, rpc, historyVars>>

\* The kernel answers listClients(type).
KernelLists(k) ==
  /\ up /\ calls[k].reply = None
  /\ \/ /\ calls[k].pc = "restore"
        /\ calls' = [calls EXCEPT ![k].reply = open]
     \/ /\ calls[k].pc = "list"
        /\ calls' = [calls EXCEPT ![k].reply = {c \in open : TypeOf[c] = HelpType}]
  /\ UNCHANGED <<kernelVars, wire, queue, managerVars, rpc, historyVars>>

\* The finally of initializeClients.
Ends(k) ==
  /\ calls' = [calls EXCEPT ![k].pc = "done", ![k].reply = None]
  /\ initializing' = IF initializing = k THEN 0 ELSE initializing

\* Fault: each await counts as a type.
GoesOnCounting(k, pc) ==
  /\ calls' = [calls EXCEPT ![k].pc = pc, ![k].step = @ + 1, ![k].reply = None]
  /\ UNCHANGED initializing

\* An await of the call is over.
GoesOn(k, pc) ==
  /\ calls' = [calls EXCEPT ![k].pc = pc, ![k].reply = None]
  /\ UNCHANGED initializing

\* The call goes on to its next type.
NextType(k) ==
  /\ calls' = [calls EXCEPT ![k].pc = "step", ![k].step = @ + 1, ![k].reply = None]
  /\ UNCHANGED initializing

\* Whatever it awaited, a call that is no longer current ends.
Stale(k) ==
  /\ ~IsCurrent(k)
  /\ \/ calls[k].pc \in {"restore", "list"} /\ calls[k].reply # None
     \/ calls[k].pc = "step"
  /\ Ends(k)
  /\ UNCHANGED <<kernelVars, wire, queue, owner, connected, knownId, generation,
                 disposed, rpc, historyVars>>

\* restoreExistingClients: those not known yet become clients.
Restore(k) ==
  /\ calls[k].pc = "restore" /\ calls[k].reply # None /\ IsCurrent(k)
  /\ Store(calls[k].reply \ Tracked)
  /\ GoesOn(k, "step")
  /\ UNCHANGED <<kernelVars, wire, queue, generation, disposed, rpc, made, late>>

\* listClients fails: the first is only logged, the second ends the step.
ListFails(k) ==
  /\ calls[k].pc \in {"restore", "list"} /\ calls[k].reply = None
  /\ IF ~IsCurrent(k) THEN Ends(k)
     ELSE IF calls[k].pc = "restore" THEN GoesOn(k, "step") ELSE NextType(k)
  /\ UNCHANGED <<kernelVars, wire, queue, owner, connected, knownId, generation,
                 disposed, rpc, historyVars>>

\* createClient of the session sends the opening to the kernel, with a new id.
\* The bound on ids leaves one to every later life.
Create(k, c) ==
  /\ c \in New(Order[calls[k].step])
  /\ Cardinality(New(Order[calls[k].step])) > MaxLives - life
  /\ born' = [born EXCEPT ![c] = life]
  /\ made' = made \cup {c}
  /\ open' = IF up THEN open \cup {c} ELSE open
  /\ calls' = [calls EXCEPT ![k].pc = "create", ![k].comm = c, ![k].reply = None]
  /\ UNCHANGED <<life, up, exited, wire, queue, managerVars, rpc, seen, late, displaced>>

\* Or it cannot be sent.
CreateUnsent(k) ==
  /\ calls' = [calls EXCEPT ![k].pc = "create", ![k].comm = None, ![k].reply = None]
  /\ UNCHANGED <<kernelVars, wire, queue, managerVars, rpc, historyVars>>

\* The next type: a client of it is made the known one, or help clients are
\* listed, or one is created.
Step(k) ==
  /\ calls[k].pc = "step" /\ IsCurrent(k) /\ calls[k].step <= Len(Order)
  /\ LET t == Order[calls[k].step] IN
     \/ \E c \in OfType(t) :
          /\ knownId' = [knownId EXCEPT ![t] = c]
          /\ displaced' = displaced \cup ({knownId[t]} \cap (Comms \ {c}))
          /\ NextType(k)
          /\ UNCHANGED <<kernelVars, wire, queue, owner, connected, generation,
                         disposed, rpc, made, seen, late>>
     \/ /\ OfType(t) = {} /\ t = HelpType
        /\ GoesOn(k, "list")
        /\ UNCHANGED <<kernelVars, wire, queue, owner, connected, knownId,
                       generation, disposed, rpc, historyVars>>
     \/ OfType(t) = {} /\ t # HelpType /\ (CreateUnsent(k) \/ \E c \in Comms : Create(k, c))

\* The help clients are listed: the first becomes a client, or one is created.
Listed(k) ==
  /\ calls[k].pc = "list" /\ calls[k].reply # None /\ IsCurrent(k)
  /\ IF calls[k].reply = {}
     THEN CreateUnsent(k) \/ \E c \in Comms : Create(k, c)
     ELSE /\ \E c \in calls[k].reply :
               IF c \in Tracked
               THEN /\ knownId' = [knownId EXCEPT ![HelpType] = c]
                    /\ displaced' = displaced \cup ({knownId[HelpType]} \cap (Comms \ {c}))
                    /\ UNCHANGED <<owner, connected, seen>>
               ELSE Store({c})
          /\ NextType(k)
          /\ UNCHANGED <<kernelVars, wire, queue, generation, disposed, rpc, made, late>>

\* Fault: what was created for a kernel or manager that is gone is not removed.
LeavesCancelled(k) == UNCHANGED open

\* _removeCancelledClient.
RemovesCancelled(k) == open' = OpenWithout({calls[k].comm})

\* createClient has sent it: it becomes a client, or is removed at once when
\* the call is no longer current.
Created(k) ==
  /\ calls[k].pc = "create" /\ calls[k].comm # None
  /\ IF IsCurrent(k)
     THEN /\ IF calls[k].comm \in Tracked
             THEN UNCHANGED <<owner, connected, knownId, seen, displaced>>
             ELSE Store({calls[k].comm})
          /\ NextType(k)
          /\ UNCHANGED open
     ELSE /\ RemovesCancelled(k)
          /\ Ends(k)
          /\ UNCHANGED <<owner, connected, knownId, seen, displaced>>
  /\ UNCHANGED <<life, up, exited, born, wire, queue, generation, disposed, rpc, made, late>>

\* createClient fails: help is optional, any other type ends the call.
CreateFails(k) ==
  /\ calls[k].pc = "create" /\ calls[k].comm = None
  /\ IF IsCurrent(k) /\ Order[calls[k].step] = HelpType THEN NextType(k) ELSE Ends(k)
  /\ UNCHANGED <<kernelVars, wire, queue, owner, connected, knownId, generation,
                 disposed, rpc, historyVars>>

\* All types have their client.
Finish(k) ==
  /\ calls[k].pc = "step" /\ IsCurrent(k) /\ calls[k].step > Len(Order)
  /\ Ends(k)
  /\ UNCHANGED <<kernelVars, wire, queue, owner, connected, knownId, generation,
                 disposed, rpc, historyVars>>

-----------------------------------------------------------------------------
\* performRpcWithBuffers on a client that somebody holds, with or without a
\* deadline.  The kernel gets the request if it has the comm.
PerformRpc(r, c, deadline) ==
  /\ rpc[r].state = "unused" /\ c \in seen
  /\ rpc' = [rpc EXCEPT ![r] = [@ EXCEPT !.comm = c, !.state = "pending",
                                 !.timer = deadline,
                                 !.kernel = IF c \in open THEN "asked" ELSE "unknown"]]
  /\ UNCHANGED <<kernelVars, wire, queue, managerVars, calls, historyVars>>

\* The deadline's timer, which is never cleared.
DeadlinePasses(r) ==
  /\ rpc[r].timer
  /\ rpc' = [rpc EXCEPT ![r].timer = FALSE,
                        ![r].state = IF Pending(r) THEN "failed" ELSE @,
                        ![r].grace = IF Pending(r) THEN FALSE ELSE @]
  /\ UNCHANGED <<kernelVars, wire, queue, managerVars, calls, historyVars>>

\* The completion timer: the kernel has been idle for 5 seconds.
GracePasses(r) ==
  /\ rpc[r].grace
  /\ rpc' = [rpc EXCEPT ![r].grace = FALSE,
                        ![r].state = IF Pending(r) THEN "failed" ELSE @]
  /\ UNCHANGED <<kernelVars, wire, queue, managerVars, calls, historyVars>>

\* dispose of a client by who holds it: the kernel's end is closed.  The
\* manager keeps it.
DisposeClient(c) ==
  /\ c \in connected
  /\ connected' = connected \ {c}
  /\ open' = OpenWithout({c})
  /\ rpc' = Cancelled({c})
  /\ UNCHANGED <<life, up, exited, born, wire, queue, owner, knownId, generation,
                 initializing, disposed, calls, historyVars>>

-----------------------------------------------------------------------------
Kernel ==
  \/ \E c \in Comms : KernelOpens(c) \/ KernelCloses(c)
  \/ \E r \in Rpcs : KernelWorks(r)
  \/ KernelExits \/ KernelRestarts

Initialization(k) ==
  \/ Initialize(k) \/ KernelLists(k) \/ Stale(k) \/ Restore(k) \/ ListFails(k)
  \/ Step(k) \/ Listed(k) \/ Created(k) \/ CreateFails(k) \/ Finish(k)

Next ==
  \/ Kernel
  \/ Arrive \/ Deliver \/ ExitReported \/ Dispose
  \/ \E k \in Inits : Initialization(k)
  \/ \E r \in Rpcs :
       \/ \E c \in Comms, deadline \in BOOLEAN : PerformRpc(r, c, deadline)
       \/ DeadlinePasses(r) \/ GracePasses(r)
  \/ \E c \in Comms : DisposeClient(c)

Spec == Init /\ [][Next]_vars

\* A kernel that runs answers, a session that becomes ready initializes its
\* clients (session.ts:512), and an await that is over is gone on from.
Fairness ==
  \A k \in Inits :
    /\ WF_vars(Initialize(k))
    /\ WF_vars(KernelLists(k))
    /\ WF_vars(Stale(k) \/ Restore(k) \/ Step(k) \/ Listed(k) \/ Created(k)
               \/ CreateFails(k) \/ Finish(k))

FairSpec == Spec /\ Fairness

-----------------------------------------------------------------------------
\* Type invariant, in parts.
KernelTypeOK ==
  /\ life \in Nat /\ up \in BOOLEAN /\ exited \in BOOLEAN
  /\ open \subseteq Comms /\ born \in [Comms -> Nat]
  /\ wire \in Seq(Message) /\ queue \in Seq(Message)

ManagerTypeOK ==
  /\ owner \in [Comms -> {"none", "extHost", "mainThread"}]
  /\ connected \subseteq Comms
  /\ knownId \in [Types -> Comms \cup {None}]
  /\ generation \in Nat /\ initializing \in Inits \cup {0} /\ disposed \in BOOLEAN

CallsTypeOK ==
  /\ calls \in [Inits -> Call]
  /\ \A k \in Inits : /\ calls[k].step \in 1 .. Len(Order) + 1
                      /\ calls[k].pc \in {"list", "create"} => calls[k].step \in DOMAIN Order

RpcTypeOK ==
  /\ rpc \in [Rpcs -> Rpc]
  /\ made \subseteq Comms /\ seen \subseteq Comms
  /\ late \subseteq Comms /\ displaced \subseteq Comms

\* The fields of the kernel, the manager, its calls and RPCs have their types, and
\* a call that awaits a client is at one of the types to create.
TypeOK == KernelTypeOK /\ ManagerTypeOK /\ CallsTypeOK /\ RpcTypeOK

\* A client that is tracked is of the kernel process that runs, or has ended and
\* not said so: no initialization that began before a restart adds clients after
\* it.  (What the event queue delivers late may: late.)
ClientsAreAlive ==
  \A c \in Tracked \ late : ~exited /\ born[c] = life

\* One initialization at a time for a kernel process: the one under way in the
\* current generation is the one that others join, and one that is joined is
\* under way.  An older one that ends does not take its place.
OneInitialization ==
  \A k \in Inits :
    (calls[k].pc \notin {"unused", "done"} /\ calls[k].gen = generation) <=> initializing = k

\* A comm created in the kernel has its client, or is about to: one created for
\* a kernel or manager that is gone is removed, and none is left to no one.
\* (dispose removes the clients known as the ones of their types, and not those
\* another displaced.)
CreatedIsKept ==
  \A c \in made \cap open :
    \/ c \in Tracked
    \/ \E k \in Inits : calls[k].pc = "create" /\ calls[k].comm = c
    \/ disposed /\ c \in displaced

\* The clients are those of the kernel that runs, both ways: none of a kernel that
\* has gone, no comm of this one without its client, and one initialization that
\* makes them (runtimeClientManager.ts, _isCurrent and its uses).
ClientsMatchKernel == ClientsAreAlive /\ CreatedIsKept /\ OneInitialization

\* An RPC is given up on for want of an answer only if the kernel, as far as
\* told, is idle and the caller still waits: the completion timer does not
\* outlive either (RuntimeClientInstance.ts:244-287).
GraceMeansIdle ==
  \A r \in Rpcs : rpc[r].grace => Pending(r) /\ rpc[r].told = "idle"

\* An RPC ends in time.  Not late: none outlives the client it was made on, and
\* when the client closes, by either side, by an exit or with the manager, the
\* caller is told, also if there is no deadline.  And not early: GraceMeansIdle
\* (RuntimeClientInstance.ts:188-345).
RpcsEndInTime ==
  [][/\ \A r \in Rpcs : Pending(r) /\ rpc[r].comm \in connected \ connected' => ~Pending(r)'
     /\ GraceMeansIdle']_vars

\* Each kernel process has its clients initialized, if it keeps running: what
\* became of the initialization of the process before does not matter.
ReadyIsInitialized ==
  \A l \in 1 .. MaxLives :
    (life = l /\ up /\ ~disposed)
      ~> (disposed \/ life # l \/ ~up
          \/ \E k \in Inits : calls[k].pc = "done" /\ calls[k].gen = generation)
=============================================================================
