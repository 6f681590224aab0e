----------------------------- MODULE LspBinding ------------------------------
(***************************************************************************)
(* The language server (LSP) of one session: runtime/session.ts, and the   *)
(* registrations of LSP factories in runtime/runtimeSession.ts.            *)
(*                                                                         *)
(* A language registers a factory; sessions are bound to an LSP object of  *)
(* the newest one, in microtasks, after the object it replaces is stopped. *)
(* The language activates and deactivates the session's LSP when it likes: *)
(* a comm, the LSP client, has the kernel start a server, and the object   *)
(* is activated with its port.  All this is asynchronous, and meanwhile    *)
(* factories are replaced and removed, requests withdrawn, the runtime     *)
(* ends and the session is disposed.                                       *)
(***************************************************************************)
EXTENDS Naturals, Sequences, FiniteSets

CONSTANTS
  MaxGeneration, \* bound: registrations
  MaxClients,    \* bound: activations, each with a client of its own
  MaxStops       \* bound: LSPs that stop by themselves

ASSUME BoundsAssumption == MaxGeneration \in Nat /\ MaxClients \in Nat /\ MaxStops \in Nat

Generations == 1 .. MaxGeneration
Clients     == 1 .. MaxClients

VARIABLES
  registered, \* generation of the factory in _lspFactoriesByLanguageId, or 0
  previous,   \* what each registration replaced
  retired,    \* registrations disposed of: registrationToken.disposed
  latest,     \* the last generation given
  jobs,       \* microtasks queued: generations to bind, and 0 to remove the factory
  draining,   \* these are being run
  lsp,        \* _lsp: the generation it was created for, or 0 for NullLanguageLsp
  bound,      \* _boundLspGeneration
  requested,  \* _lspRequestedActive
  activation, \* _lspActivationPromise: its client, or 0
  clientId,   \* _lspClientId, or 0
  open,       \* _lspClientsByKernel: clients not removed yet
  kernel,     \* _kernel is set
  usable,     \* the runtime is Ready, Idle or Busy
  disposed,   \* _disposed
  server,     \* state of the LSP object of each generation
  servedBy,   \* the client whose port that object was activated with
  act,        \* each client's _activateLsp: where it is, and its LSP
  binds,      \* bindLspFactory calls that wait: generation, LSP and client they replace
  stops,      \* deactivations and removals that wait: LSP and client
  stopped     \* clients of LSPs that stopped by themselves

registry == <<registered, previous, retired, latest, jobs, draining>>
session  == <<lsp, bound, requested, activation, clientId, open>>
life     == <<kernel, usable, disposed>>
work     == <<act, binds, stops>>
servers  == <<server, servedBy, stopped>>
vars     == <<registry, session, life, work, servers>>

\* Between microtasks nothing else runs.
Calm == jobs = <<>>

-----------------------------------------------------------------------------
\* What the code reads of an LSP object while it is being stopped.
Runs(g)     == g # 0 /\ server[g] \in {"running", "stopping"}
Inactive(g) == server[g] \in {"new", "stopped"}

\* isCurrent of an activation.
IsCurrent(c) ==
  /\ ~disposed /\ kernel /\ requested
  /\ act[c].lsp = lsp /\ act[c].lsp = bound
  /\ clientId = c

\* _releaseLspClient: the client is removed, and forgotten if it is the session's.
Released(c) ==
  /\ open' = open \ {c}
  /\ clientId' = IF c \in open /\ kernel /\ clientId = c THEN 0 ELSE clientId

\* deactivate() of an LSP object.
Stopping(g) == IF g # 0 /\ server[g] = "running" THEN [server EXCEPT ![g] = "stopping"] ELSE server

\* dispose() of an LSP object: it stops what runs.
Disposed(g) == IF Runs(g) THEN [server EXCEPT ![g] = "stopped"] ELSE server

Joins    == activation # 0
CanStart(g, state) == g # 0 /\ kernel /\ state[g] \in {"new", "stopped"}
Fresh    == {c \in Clients : act[c].pc = "none"}

\* activateLsp's request to the kernel, with a new client, for this LSP.
Starts(c, g) ==
  /\ c \in Fresh /\ \A d \in Fresh : c <= d
  /\ act' = [act EXCEPT ![c] = [pc |-> "port", lsp |-> g]]
  /\ activation' = c
  /\ clientId' = c

-----------------------------------------------------------------------------
\* registerLspFactory: sessions are bound in a microtask.
Register ==
  /\ ~draining /\ latest < MaxGeneration
  /\ latest' = latest + 1
  /\ previous' = [previous EXCEPT ![latest + 1] = registered]
  /\ registered' = latest + 1
  /\ jobs' = Append(jobs, latest + 1)
  /\ UNCHANGED <<retired, draining, session, life, work, servers>>

\* A registration is disposed of.  The one it replaced takes its place, or the
\* factory of sessions is removed in a microtask.
Retire(g) ==
  /\ ~draining /\ g <= latest /\ g \notin retired
  /\ retired' = retired \cup {g}
  /\ LET back == IF previous[g] \in retired THEN 0 ELSE previous[g] IN
     /\ registered' = IF registered = g THEN back ELSE registered
     /\ jobs' = IF registered = g /\ back = 0 THEN Append(jobs, 0) ELSE jobs
  /\ UNCHANGED <<previous, latest, draining, session, life, work, servers>>

Drains == jobs' = Tail(jobs) /\ draining' = (Len(jobs) > 1)

\* The registration to bind is replaced, or bindLspFactory returns at once.
Obsolete ==
  LET g == Head(jobs) IN registered # g \/ disposed \/ g < bound \/ (lsp = g /\ g = bound)

\* The LSP is retired before it is stopped.
Rebinds(refused, generation) ==
  LET g == Head(jobs) IN
  /\ jobs # <<>> /\ g # 0 /\ Drains
  /\ UNCHANGED <<registered, previous, retired, latest, requested, clientId, open, life,
                 act, stops, servedBy, stopped>>
  /\ IF refused
     THEN UNCHANGED <<lsp, bound, activation, binds, server>>
     ELSE /\ bound' = generation /\ lsp' = 0 /\ activation' = 0
          /\ server' = Stopping(lsp)
          /\ binds' = binds \cup {[generation |-> g, lsp |-> lsp, client |-> clientId]}

\* Fault: the binding waits for the next generation.
BindNext == Rebinds(Obsolete, Head(jobs) + 1)

\* bindLspFactory, if the registration is still the one.
Bind == Rebinds(Obsolete, Head(jobs))

\* removeLspFactory, if there is no registration.
Remove ==
  /\ jobs # <<>> /\ Head(jobs) = 0 /\ Drains
  /\ UNCHANGED <<registered, previous, retired, latest, bound, requested, clientId, open, life,
                 act, binds, servedBy, stopped>>
  /\ IF registered # 0 \/ disposed
     THEN UNCHANGED <<lsp, activation, stops, server>>
     ELSE /\ lsp' = 0 /\ activation' = 0
          /\ server' = Stopping(lsp)
          /\ stops' = stops \cup {[lsp |-> lsp, client |-> clientId, dispose |-> TRUE]}

\* Fault: a binding that is out of date is installed.
BoundLate(b) ==
  /\ Calm /\ b \in binds /\ binds' = binds \ {b} /\ ~disposed
  /\ UNCHANGED <<registry, requested, bound, life, stops, servedBy, stopped, activation, act>>
  /\ lsp' = b.generation
  /\ server' = [Disposed(b.lsp) EXCEPT ![b.generation] = "new"]
  /\ Released(b.client)

\* The rest of bindLspFactory, when the LSP it replaces is stopped or 5 s are
\* over: that LSP is disposed of and its client released, and unless the binding
\* is out of date the new LSP is there, and activated if this was asked for.
Bound(b) ==
  /\ Calm /\ b \in binds /\ binds' = binds \ {b}
  /\ UNCHANGED <<registry, requested, bound, life, stops, servedBy, stopped>>
  /\ IF disposed \/ bound # b.generation
     THEN /\ server' = Disposed(b.lsp)
          /\ Released(b.client)
          /\ UNCHANGED <<lsp, activation, act>>
     ELSE /\ lsp' = b.generation
          /\ server' = [Disposed(b.lsp) EXCEPT ![b.generation] = "new"]
          /\ IF requested /\ usable /\ ~Joins /\ CanStart(b.generation, server') /\ Fresh # {}
             THEN \E c \in Fresh : /\ Starts(c, b.generation)
                                   /\ open' = (open \ {b.client}) \cup {c}
             ELSE Released(b.client) /\ UNCHANGED <<activation, act>>

\* activateLsp by the language: a call during an activation joins it.
ActivateLsp ==
  /\ Calm /\ requested' = TRUE
  /\ UNCHANGED <<registry, lsp, bound, life, binds, stops, servers>>
  /\ IF ~Joins /\ CanStart(lsp, server)
     THEN \E c \in Fresh : Starts(c, lsp) /\ open' = open \cup {c}
     ELSE UNCHANGED <<activation, clientId, open, act>>

Ended(c) ==
  /\ act' = [act EXCEPT ![c].pc = "done"]
  /\ activation' = IF activation = c THEN 0 ELSE activation

\* The kernel tells the port, and the LSP is activated with it.
PortArrives(c) ==
  /\ Calm /\ act[c].pc = "port"
  /\ UNCHANGED <<registry, lsp, bound, requested, life, binds, stops, stopped>>
  /\ IF IsCurrent(c)
     THEN /\ server' = [server EXCEPT ![lsp] = "starting"]
          /\ servedBy' = [servedBy EXCEPT ![lsp] = c]
          /\ act' = [act EXCEPT ![c].pc = "activate"]
          /\ UNCHANGED <<activation, clientId, open>>
     ELSE Released(c) /\ Ended(c) /\ UNCHANGED <<server, servedBy>>

\* The kernel starts no server.
PortFails(c) ==
  /\ Calm /\ act[c].pc = "port"
  /\ Released(c) /\ Ended(c)
  /\ UNCHANGED <<registry, lsp, bound, requested, life, binds, stops, servers>>

\* Fault: the LSP runs, wanted or not.
ActivatedAnyway(c) ==
  /\ Calm /\ act[c].pc = "activate" /\ Ended(c)
  /\ server' = [server EXCEPT ![act[c].lsp] = "running"]
  /\ UNCHANGED <<registry, lsp, bound, requested, clientId, open, life, binds, stops,
                 servedBy, stopped>>

\* The LSP runs, and is stopped again if it is not wanted any more.
Activated(c) ==
  /\ Calm /\ act[c].pc = "activate"
  /\ UNCHANGED <<registry, lsp, bound, requested, clientId, open, life, binds, stops,
                 servedBy, stopped>>
  /\ IF IsCurrent(c)
     THEN Ended(c) /\ server' = [server EXCEPT ![act[c].lsp] = "running"]
     ELSE /\ act' = [act EXCEPT ![c].pc = "undo"]
          /\ server' = [server EXCEPT ![act[c].lsp] = "stopping"]
          /\ UNCHANGED activation

\* The LSP does not start.
ActivationFails(c) ==
  /\ Calm /\ act[c].pc = "activate"
  /\ server' = [server EXCEPT ![act[c].lsp] = "stopped"]
  /\ Released(c) /\ Ended(c)
  /\ UNCHANGED <<registry, lsp, bound, requested, life, binds, stops, servedBy, stopped>>

\* The LSP that was not wanted any more is stopped.
Undone(c) ==
  /\ Calm /\ act[c].pc = "undo" /\ server[act[c].lsp] # "stopping"
  /\ Released(c) /\ Ended(c)
  /\ UNCHANGED <<registry, lsp, bound, requested, life, binds, stops, servers>>

\* deactivateLsp: what does not run is only released.
Deactivates ==
  /\ requested' = FALSE
  /\ UNCHANGED <<registry, lsp, bound, activation, kernel, disposed, act, binds, servedBy, stopped>>
  /\ IF Runs(lsp)
     THEN /\ server' = Stopping(lsp)
          /\ stops' = stops \cup {[lsp |-> lsp, client |-> clientId, dispose |-> FALSE]}
          /\ UNCHANGED <<clientId, open>>
     ELSE Released(clientId) /\ UNCHANGED <<server, stops>>

DeactivateLsp == Calm /\ Deactivates /\ UNCHANGED usable

\* onDidEndSession.
SessionEnds == Calm /\ usable /\ Deactivates /\ usable' = FALSE

\* The rest of deactivateLsp or removeLspFactory, when the LSP is stopped.
StopReturns(s) ==
  /\ Calm /\ s \in stops /\ (s.lsp # 0 => server[s.lsp] # "stopping")
  /\ stops' = stops \ {s}
  /\ server' = IF s.dispose THEN Disposed(s.lsp) ELSE server
  /\ Released(s.client)
  /\ UNCHANGED <<registry, lsp, bound, requested, activation, life, act, binds, servedBy, stopped>>

-----------------------------------------------------------------------------
\* The LSP object that was asked to has stopped.
ServerStops(g) ==
  /\ Calm /\ server[g] = "stopping"
  /\ server' = [server EXCEPT ![g] = "stopped"]
  /\ UNCHANGED <<registry, session, life, work, servedBy, stopped>>

\* An LSP object stops by itself.
ServerDies(g) ==
  /\ Calm /\ server[g] = "running" /\ Cardinality(stopped) < MaxStops
  /\ server' = [server EXCEPT ![g] = "stopped"]
  /\ stopped' = stopped \cup {servedBy[g]}
  /\ UNCHANGED <<registry, session, life, work, servedBy>>

\* The kernel is attached, and becomes usable.
AttachKernel ==
  /\ Calm /\ ~kernel /\ ~disposed /\ kernel' = TRUE
  /\ UNCHANGED <<registry, session, usable, disposed, work, servers>>

BecomesUsable ==
  /\ Calm /\ kernel /\ ~usable /\ usable' = TRUE
  /\ UNCHANGED <<registry, session, kernel, disposed, work, servers>>

\* dispose: the LSP there is is disposed of, whatever is under way.
Dispose ==
  /\ Calm /\ ~disposed /\ disposed' = TRUE /\ kernel' = FALSE
  /\ server' = Disposed(lsp)
  /\ UNCHANGED <<registry, session, usable, work, servedBy, stopped>>

-----------------------------------------------------------------------------
\* A session created before or after the first registration.
Init ==
  /\ registered \in {0, 1} \cap (0 .. MaxGeneration) /\ latest = registered
  /\ previous = [g \in Generations |-> 0] /\ retired = {}
  /\ jobs = <<>> /\ draining = FALSE
  /\ lsp = registered /\ bound = registered
  /\ requested = FALSE /\ activation = 0 /\ clientId = 0 /\ open = {}
  /\ kernel = FALSE /\ usable = FALSE /\ disposed = FALSE
  /\ server = [g \in Generations |-> "new"] /\ servedBy = [g \in Generations |-> 0]
  /\ act = [c \in Clients |-> [pc |-> "none", lsp |-> 0]]
  /\ binds = {} /\ stops = {} /\ stopped = {}

\* What was begun goes on.
Progress ==
  \/ Bind \/ Remove
  \/ \E b \in binds : Bound(b)
  \/ \E s \in stops : StopReturns(s)
  \/ \E c \in Clients : PortArrives(c) \/ PortFails(c) \/ Activated(c) \/ ActivationFails(c) \/ Undone(c)
  \/ \E g \in Generations : ServerStops(g)

Next ==
  \/ Progress
  \/ Register \/ \E g \in Generations : Retire(g)
  \/ ActivateLsp \/ DeactivateLsp \/ SessionEnds
  \/ \E g \in Generations : ServerDies(g)
  \/ AttachKernel \/ BecomesUsable \/ Dispose

Spec == Init /\ [][Next]_vars

-----------------------------------------------------------------------------
Idle(c) == act[c].pc \in {"none", "done"}

AtRest == Calm /\ binds = {} /\ stops = {} /\ \A c \in Clients : Idle(c)

RegistryType ==
  /\ registered \in 0 .. latest /\ latest \in 0 .. MaxGeneration
  /\ previous \in [Generations -> 0 .. MaxGeneration] /\ retired \subseteq Generations
  /\ jobs \in Seq(0 .. MaxGeneration) /\ draining \in BOOLEAN

SessionType ==
  /\ lsp \in 0 .. MaxGeneration /\ bound \in 0 .. latest
  /\ requested \in BOOLEAN /\ activation \in 0 .. MaxClients /\ clientId \in 0 .. MaxClients
  /\ open \subseteq Clients

LifeType == kernel \in BOOLEAN /\ usable \in BOOLEAN /\ disposed \in BOOLEAN

WorkType ==
  /\ act \in [Clients -> [pc : {"none", "port", "activate", "undo", "done"}, lsp : 0 .. MaxGeneration]]
  /\ binds \subseteq [generation : Generations, lsp : 0 .. MaxGeneration, client : 0 .. MaxClients]
  /\ stops \subseteq [lsp : 0 .. MaxGeneration, client : 0 .. MaxClients, dispose : BOOLEAN]

ServerType ==
  /\ server \in [Generations -> {"new", "starting", "running", "stopping", "stopped"}]
  /\ servedBy \in [Generations -> 0 .. MaxClients]
  /\ stopped \subseteq Clients

\* The registrations, the session's LSP, its activations, bindings and
\* stops, and the LSP objects keep their types: a binding in particular
\* is to a generation that has been given (session.ts:1563-1606).
TypeOK == RegistryType /\ SessionType /\ LifeType /\ WorkType /\ ServerType

\* Whatever was replaced, removed, withdrawn or disposed of meanwhile: at rest the
\* only server that runs is the session's, it was asked for, and its comm is open.
OnlyWantedRuns ==
  AtRest => \A g \in Generations : server[g] # "stopped" /\ server[g] # "new"
              => /\ ~disposed /\ g = lsp /\ requested
                 /\ server[g] = "running" /\ servedBy[g] = clientId /\ clientId \in open

\* At rest the kernel holds no LSP comm but that of the LSP that runs, and those
\* of LSPs that stopped by themselves.
NoClientLeaks ==
  AtRest /\ ~disposed =>
    \A c \in open \ stopped : c = clientId /\ lsp # 0 /\ server[lsp] = "running" /\ servedBy[lsp] = c

\* The newest binding wins, whatever order the bindings end in.
NewestIsBound == lsp # 0 => lsp = bound

\* At rest a session of a language that has a factory has an LSP of that
\* registration or a newer one.
RegisteredIsBound == AtRest /\ ~disposed /\ registered # 0 => lsp >= registered

\* At rest there is one server, the right one, and nothing else: it was asked for,
\* it is of the registered factory or a newer binding, and no comm of another is
\* open (session.ts:1556-1790).
RestIsClean == OnlyWantedRuns /\ NoClientLeaks /\ RegisteredIsBound

\* An activation that is joined is under way: once it has ended, however it did,
\* the LSP can be activated again.
JoinedIsUnderWay == activation # 0 => ~Idle(activation)

\* What the session holds is what counts: the LSP of the newest binding, and an
\* activation that has not ended (session.ts:1563-1646).
HeldIsCurrent == NewestIsBound /\ JoinedIsUnderWay

\* While no factory is registered none is bound, also if it was removed while the
\* LSP it replaces was being stopped.
RemovedStaysRemoved ==
  [][lsp' # 0 /\ lsp' # lsp /\ (\A b \in binds : b.lsp # 0) => registered # 0]_vars
=============================================================================
