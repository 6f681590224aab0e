-------------------------- MODULE LspBindingProofs --------------------------
(***************************************************************************)
(* What LspBinding promises for any number of registrations, activations   *)
(* and stops: its types, that the newest binding wins, that what is joined *)
(* is under way, and that a session at rest holds one server and one comm  *)
(* at most, the right ones.                                                *)
(***************************************************************************)
EXTENDS LspBinding, TLAPS

\* What a registration replaced was registered before it.
PreviousKnown == \A g \in Generations : previous[g] \in 0 .. latest

\* An LSP object that has been given a port knows whose it is.
ServedKnown ==
  /\ \A g \in Generations : server[g] \notin {"new", "stopped"} => servedBy[g] \in Clients
  /\ \A c \in Clients :
       act[c].pc \in {"activate", "undo"} /\ act[c].lsp \in Generations
         => servedBy[act[c].lsp] \in Clients

IInv == TypeOK /\ PreviousKnown /\ ServedKnown /\ NewestIsBound /\ JoinedIsUnderWay
-----------------------------------------------------------------------------
LEMMA ReleasedTyped ==
  ASSUME SessionType, NEW c, Released(c)
  PROVE  open' \subseteq Clients /\ clientId' \in 0 .. MaxClients
  BY BoundsAssumption DEF SessionType, Released

LEMMA PhaseTyped ==
  ASSUME WorkType, NEW c \in Clients, NEW pc \in {"none", "port", "activate", "undo", "done"},
         act' = [act EXCEPT ![c].pc = pc]
  PROVE  /\ act' \in [Clients -> [pc : {"none", "port", "activate", "undo", "done"}, lsp : 0 .. MaxGeneration]]
         /\ \A d \in Clients : act'[d].lsp = act[d].lsp /\ act'[d].pc = IF d = c THEN pc ELSE act[d].pc
  BY DEF WorkType

LEMMA EndedTyped ==
  ASSUME WorkType, SessionType, JoinedIsUnderWay, NEW c \in Clients, Ended(c)
  PROVE  /\ act' \in [Clients -> [pc : {"none", "port", "activate", "undo", "done"}, lsp : 0 .. MaxGeneration]]
         /\ \A d \in Clients : act'[d].lsp = act[d].lsp /\ act'[d].pc = IF d = c THEN "done" ELSE act[d].pc
         /\ activation' \in 0 .. MaxClients
         /\ JoinedIsUnderWay'
<1>1. /\ act' \in [Clients -> [pc : {"none", "port", "activate", "undo", "done"}, lsp : 0 .. MaxGeneration]]
      /\ \A d \in Clients : act'[d].lsp = act[d].lsp /\ act'[d].pc = IF d = c THEN "done" ELSE act[d].pc
  BY PhaseTyped DEF Ended
<1>2. activation' \in 0 .. MaxClients /\ (activation' # 0 => activation' = activation /\ activation # c)
  BY BoundsAssumption DEF Ended, SessionType
<1>3. JoinedIsUnderWay'
  BY <1>1, <1>2 DEF JoinedIsUnderWay, Idle, Clients
<1>. QED
  BY <1>1, <1>2, <1>3

LEMMA StartsTyped ==
  ASSUME WorkType, NEW c, NEW g \in 0 .. MaxGeneration, Starts(c, g)
  PROVE  /\ c \in Clients /\ c \in 1 .. MaxClients /\ c \in 0 .. MaxClients
         /\ act' \in [Clients -> [pc : {"none", "port", "activate", "undo", "done"}, lsp : 0 .. MaxGeneration]]
         /\ \A d \in Clients \ {c} : act'[d] = act[d]
         /\ act'[c].pc = "port" /\ activation' = c /\ clientId' = c
         /\ JoinedIsUnderWay'
<1>1. c \in Clients /\ c \in 1 .. MaxClients /\ c \in 0 .. MaxClients
  BY BoundsAssumption DEF Starts, Fresh, Clients
<1>2. /\ act' \in [Clients -> [pc : {"none", "port", "activate", "undo", "done"}, lsp : 0 .. MaxGeneration]]
      /\ act'[c] = [pc |-> "port", lsp |-> g]
      /\ \A d \in Clients \ {c} : act'[d] = act[d]
  BY <1>1 DEF WorkType, Starts
<1>. QED
  BY <1>1, <1>2 DEF Starts, JoinedIsUnderWay, Idle

LEMMA RegisterKeeps ==
  ASSUME IInv, Register
  PROVE  IInv'
<1>. USE BoundsAssumption DEF IInv, TypeOK
<1>1. RegistryType'
  BY DEF RegistryType, Generations, Register
<1>2. SessionType'
  BY DEF SessionType, RegistryType, session, Register
<1>3. LifeType'
  BY DEF LifeType, registry, life, Register
<1>4. WorkType'
  BY DEF WorkType, work, Register
<1>5. ServerType'
  BY DEF ServerType, servers, Register
<1>6. PreviousKnown'
  BY DEF PreviousKnown, RegistryType, Register
<1>7. ServedKnown'
  BY DEF ServedKnown, work, servers, Register
<1>8. NewestIsBound'
  BY DEF NewestIsBound, session, Register
<1>9. JoinedIsUnderWay'
  BY DEF JoinedIsUnderWay, Idle, session, work, Register
<1>. QED
  BY <1>1, <1>2, <1>3, <1>4, <1>5, <1>6, <1>7, <1>8, <1>9

LEMMA RetireKeeps ==
  ASSUME IInv, NEW g \in Generations, Retire(g)
  PROVE  IInv'
<1>. USE BoundsAssumption DEF IInv, TypeOK
<1>1. RegistryType'
  <2>1. registered' \in 0 .. latest
    BY DEF RegistryType, PreviousKnown, Retire
  <2>2. jobs' \in Seq(0 .. MaxGeneration)
    <3>1. jobs \in Seq(0 .. MaxGeneration) /\ 0 \in 0 .. MaxGeneration /\ (jobs' = jobs \/ jobs' = Append(jobs, 0))
      BY DEF RegistryType, Retire
    <3>. QED
      BY <3>1
  <2>. QED
    BY <2>1, <2>2 DEF RegistryType, Retire
<1>2. SessionType'
  BY DEF SessionType, session, Retire
<1>3. LifeType'
  BY DEF LifeType, life, Retire
<1>4. WorkType'
  BY DEF WorkType, work, Retire
<1>5. ServerType'
  BY DEF ServerType, servers, Retire
<1>6. PreviousKnown'
  BY DEF PreviousKnown, Retire
<1>7. ServedKnown'
  BY DEF ServedKnown, work, servers, Retire
<1>8. NewestIsBound'
  BY DEF NewestIsBound, session, Retire
<1>9. JoinedIsUnderWay'
  BY DEF JoinedIsUnderWay, Idle, session, work, Retire
<1>. QED
  BY <1>1, <1>2, <1>3, <1>4, <1>5, <1>6, <1>7, <1>8, <1>9

LEMMA BindKeeps ==
  ASSUME IInv, Bind
  PROVE  IInv'
<1>. USE BoundsAssumption DEF IInv, TypeOK
<1>1. RegistryType'
  BY DEF RegistryType, Bind, Rebinds, Drains
<1>2. SessionType'
  BY DEF SessionType, RegistryType, Bind, Rebinds, Obsolete
<1>3. LifeType'
  BY DEF LifeType, life, Bind, Rebinds
<1>4. WorkType'
  <2>1. Head(jobs) \in Generations /\ clientId \in 0 .. MaxClients /\ lsp \in 0 .. MaxGeneration
    BY DEF RegistryType, SessionType, Generations, Bind, Rebinds
  <2>. QED
    BY <2>1 DEF WorkType, Bind, Rebinds
<1>5. ServerType'
  BY DEF ServerType, Bind, Rebinds, Stopping
<1>6. PreviousKnown'
  BY DEF PreviousKnown, Bind, Rebinds
<1>7. ServedKnown'
  BY DEF ServedKnown, ServerType, Bind, Rebinds, Stopping
<1>8. NewestIsBound'
  BY DEF NewestIsBound, Bind, Rebinds
<1>9. JoinedIsUnderWay'
  BY DEF JoinedIsUnderWay, Idle, Bind, Rebinds
<1>. QED
  BY <1>1, <1>2, <1>3, <1>4, <1>5, <1>6, <1>7, <1>8, <1>9

LEMMA RemoveKeeps ==
  ASSUME IInv, Remove
  PROVE  IInv'
<1>. USE BoundsAssumption DEF IInv, TypeOK
<1>1. RegistryType'
  BY DEF RegistryType, Remove, Drains
<1>2. SessionType'
  BY DEF SessionType, Remove
<1>3. LifeType'
  BY DEF LifeType, life, Remove
<1>4. WorkType'
  <2>1. clientId \in 0 .. MaxClients /\ lsp \in 0 .. MaxGeneration
    BY DEF SessionType
  <2>2. [lsp |-> lsp, client |-> clientId, dispose |-> TRUE]
          \in [lsp : 0 .. MaxGeneration, client : 0 .. MaxClients, dispose : BOOLEAN]
    BY <2>1, Zenon
  <2>3. stops' \subseteq [lsp : 0 .. MaxGeneration, client : 0 .. MaxClients, dispose : BOOLEAN]
    BY <2>2 DEF WorkType, Remove
  <2>. QED
    BY <2>3 DEF WorkType, Remove
<1>5. ServerType'
  BY DEF ServerType, Remove, Stopping
<1>6. PreviousKnown'
  BY DEF PreviousKnown, Remove
<1>7. ServedKnown'
  BY DEF ServedKnown, ServerType, Remove, Stopping
<1>8. NewestIsBound'
  BY DEF NewestIsBound, Remove
<1>9. JoinedIsUnderWay'
  BY DEF JoinedIsUnderWay, Idle, Remove
<1>. QED
  BY <1>1, <1>2, <1>3, <1>4, <1>5, <1>6, <1>7, <1>8, <1>9

LEMMA BoundKeeps ==
  ASSUME IInv, NEW b \in binds, Bound(b)
  PROVE  IInv'
<1>. USE BoundsAssumption DEF IInv, TypeOK
<1>t. b.generation \in Generations /\ b.generation \in 0 .. MaxGeneration /\ b.client \in 0 .. MaxClients
  BY DEF WorkType, Generations
<1>a. \/ UNCHANGED <<activation, act>> /\ Released(b.client)
      \/ \E c \in Fresh : Starts(c, b.generation) /\ open' = (open \ {b.client}) \cup {c}
  BY DEF Bound
<1>s. ASSUME NEW c, Starts(c, b.generation)
      PROVE  /\ c \in Clients /\ c \in 0 .. MaxClients
             /\ act' \in [Clients -> [pc : {"none", "port", "activate", "undo", "done"}, lsp : 0 .. MaxGeneration]]
             /\ \A d \in Clients \ {c} : act'[d] = act[d]
             /\ act'[c].pc = "port" /\ activation' = c /\ clientId' = c
             /\ JoinedIsUnderWay'
  BY <1>s, <1>t, StartsTyped
<1>1. RegistryType'
  BY DEF RegistryType, registry, Bound
<1>2. SessionType'
  <2>1. lsp' \in 0 .. MaxGeneration /\ bound' \in 0 .. latest' /\ requested' \in BOOLEAN
    BY <1>t DEF SessionType, registry, Bound
  <2>2. activation' \in 0 .. MaxClients /\ clientId' \in 0 .. MaxClients /\ open' \subseteq Clients
    <3>1. CASE UNCHANGED <<activation, act>> /\ Released(b.client)
      BY <3>1, ReleasedTyped DEF SessionType
    <3>2. CASE \E c \in Fresh : Starts(c, b.generation) /\ open' = (open \ {b.client}) \cup {c}
      BY <3>2, <1>s DEF SessionType
    <3>. QED
      BY <1>a, <3>1, <3>2
  <2>. QED
    BY <2>1, <2>2 DEF SessionType
<1>3. LifeType'
  BY DEF LifeType, life, Bound
<1>4. WorkType'
  <2>1. binds' \subseteq binds /\ UNCHANGED stops
    BY DEF Bound
  <2>2. act' \in [Clients -> [pc : {"none", "port", "activate", "undo", "done"}, lsp : 0 .. MaxGeneration]]
    BY <1>a, <1>s DEF WorkType
  <2>. QED
    BY <2>1, <2>2 DEF WorkType
<1>5. ServerType'
  BY DEF ServerType, Bound, Disposed
<1>6. PreviousKnown'
  BY DEF PreviousKnown, registry, Bound
<1>7. ServedKnown'
  <2>1. \A g \in Generations : server'[g] \notin {"new", "stopped"} => servedBy'[g] \in Clients
    BY DEF ServedKnown, ServerType, Bound, Disposed, Runs
  <2>2. \A d \in Clients : act'[d] = act[d] \/ act'[d].pc = "port"
    BY <1>a, <1>s
  <2>. QED
    BY <2>1, <2>2 DEF ServedKnown, Bound
<1>8. NewestIsBound'
  BY DEF NewestIsBound, Bound
<1>9. JoinedIsUnderWay'
  <2>1. CASE UNCHANGED <<activation, act>>
    BY <2>1 DEF JoinedIsUnderWay, Idle
  <2>. QED
    BY <1>a, <1>s, <2>1
<1>. QED
  BY <1>1, <1>2, <1>3, <1>4, <1>5, <1>6, <1>7, <1>8, <1>9

LEMMA ActivateLspKeeps ==
  ASSUME IInv, ActivateLsp
  PROVE  IInv'
<1>. USE BoundsAssumption DEF IInv, TypeOK
<1>1. RegistryType'
  BY DEF RegistryType, registry, ActivateLsp
<1>2. SessionType'
  BY StartsTyped DEF SessionType, RegistryType, Generations, registry, ActivateLsp
<1>3. LifeType'
  BY DEF LifeType, life, ActivateLsp
<1>4. WorkType'
  BY StartsTyped DEF WorkType, SessionType, ActivateLsp
<1>5. ServerType'
  BY DEF ServerType, servers, ActivateLsp
<1>6. PreviousKnown'
  BY DEF PreviousKnown, registry, ActivateLsp
<1>7. ServedKnown'
  BY StartsTyped DEF ServedKnown, SessionType, servers, ActivateLsp
<1>8. NewestIsBound'
  BY DEF NewestIsBound, ActivateLsp
<1>9. JoinedIsUnderWay'
  <2>1. CASE UNCHANGED <<activation, act>>
    BY <2>1 DEF JoinedIsUnderWay, Idle
  <2>2. CASE \E c \in Fresh : Starts(c, lsp)
    BY <2>2, StartsTyped DEF SessionType
  <2>. QED
    BY <2>1, <2>2 DEF ActivateLsp
<1>. QED
  BY <1>1, <1>2, <1>3, <1>4, <1>5, <1>6, <1>7, <1>8, <1>9

LEMMA PortArrivesKeeps ==
  ASSUME IInv, NEW c \in Clients, PortArrives(c)
  PROVE  IInv'
<1>. USE BoundsAssumption DEF IInv, TypeOK
<1>1. RegistryType'
  BY DEF RegistryType, registry, PortArrives
<1>2. SessionType'
  BY ReleasedTyped, EndedTyped DEF SessionType, registry, PortArrives
<1>3. LifeType'
  BY DEF LifeType, life, PortArrives
<1>4. WorkType'
  BY EndedTyped DEF WorkType, PortArrives
<1>5. ServerType'
  BY DEF ServerType, Clients, PortArrives
<1>6. PreviousKnown'
  BY DEF PreviousKnown, registry, PortArrives
<1>7. ServedKnown'
  <2>1. CASE IsCurrent(c)
    <3>1. act[c].lsp = lsp /\ server' = [server EXCEPT ![lsp] = "starting"]
          /\ servedBy' = [servedBy EXCEPT ![lsp] = c] /\ act' = [act EXCEPT ![c].pc = "activate"]
      BY <2>1 DEF PortArrives, IsCurrent
    <3>2. \A g \in Generations : servedBy'[g] = IF g = lsp THEN c ELSE servedBy[g]
      BY <3>1 DEF ServerType
    <3>3. \A g \in Generations : server'[g] \notin {"new", "stopped"} => servedBy'[g] \in Clients
      BY <3>1, <3>2 DEF ServedKnown, ServerType
    <3>4. \A d \in Clients :
            act'[d].pc \in {"activate", "undo"} /\ act'[d].lsp \in Generations => servedBy'[act'[d].lsp] \in Clients
      BY <3>1, <3>2, PhaseTyped DEF ServedKnown
    <3>. QED
      BY <3>3, <3>4 DEF ServedKnown
  <2>2. CASE ~IsCurrent(c)
    BY <2>2, EndedTyped DEF ServedKnown, PortArrives
  <2>. QED
    BY <2>1, <2>2
<1>8. NewestIsBound'
  BY DEF NewestIsBound, PortArrives
<1>9. JoinedIsUnderWay'
  <2>1. CASE IsCurrent(c)
    BY <2>1, PhaseTyped DEF JoinedIsUnderWay, Idle, SessionType, Clients, PortArrives
  <2>2. CASE ~IsCurrent(c)
    BY <2>2, EndedTyped DEF PortArrives
  <2>. QED
    BY <2>1, <2>2
<1>. QED
  BY <1>1, <1>2, <1>3, <1>4, <1>5, <1>6, <1>7, <1>8, <1>9

LEMMA PortFailsKeeps ==
  ASSUME IInv, NEW c \in Clients, PortFails(c)
  PROVE  IInv'
<1>. USE BoundsAssumption DEF IInv, TypeOK
<1>1. RegistryType'
  BY DEF RegistryType, registry, PortFails
<1>2. SessionType'
  BY ReleasedTyped, EndedTyped DEF SessionType, registry, PortFails
<1>3. LifeType'
  BY DEF LifeType, life, PortFails
<1>4. WorkType'
  BY EndedTyped DEF WorkType, PortFails
<1>5. ServerType'
  BY DEF ServerType, servers, PortFails
<1>6. PreviousKnown'
  BY DEF PreviousKnown, registry, PortFails
<1>7. ServedKnown'
  BY EndedTyped DEF ServedKnown, servers, PortFails
<1>8. NewestIsBound'
  BY DEF NewestIsBound, PortFails
<1>9. JoinedIsUnderWay'
  BY EndedTyped DEF PortFails
<1>. QED
  BY <1>1, <1>2, <1>3, <1>4, <1>5, <1>6, <1>7, <1>8, <1>9

LEMMA ActivatedKeeps ==
  ASSUME IInv, NEW c \in Clients, Activated(c)
  PROVE  IInv'
<1>. USE BoundsAssumption DEF IInv, TypeOK
<1>1. RegistryType'
  BY DEF RegistryType, registry, Activated
<1>2. SessionType'
  BY EndedTyped DEF SessionType, registry, Activated
<1>3. LifeType'
  BY DEF LifeType, life, Activated
<1>4. WorkType'
  BY EndedTyped DEF WorkType, Activated
<1>5. ServerType'
  BY DEF ServerType, Activated
<1>6. PreviousKnown'
  BY DEF PreviousKnown, registry, Activated
<1>7. ServedKnown'
  <2>1. CASE IsCurrent(c)
    BY <2>1, EndedTyped DEF ServedKnown, ServerType, Activated
  <2>2. CASE ~IsCurrent(c)
    BY <2>2, PhaseTyped DEF ServedKnown, ServerType, Activated
  <2>. QED
    BY <2>1, <2>2
<1>8. NewestIsBound'
  BY DEF NewestIsBound, Activated
<1>9. JoinedIsUnderWay'
  <2>1. CASE IsCurrent(c)
    BY <2>1, EndedTyped DEF Activated
  <2>2. CASE ~IsCurrent(c)
    BY <2>2, PhaseTyped DEF JoinedIsUnderWay, Idle, SessionType, Clients, Activated
  <2>. QED
    BY <2>1, <2>2
<1>. QED
  BY <1>1, <1>2, <1>3, <1>4, <1>5, <1>6, <1>7, <1>8, <1>9

LEMMA ActivationFailsKeeps ==
  ASSUME IInv, NEW c \in Clients, ActivationFails(c)
  PROVE  IInv'
<1>. USE BoundsAssumption DEF IInv, TypeOK
<1>1. RegistryType'
  BY DEF RegistryType, registry, ActivationFails
<1>2. SessionType'
  BY ReleasedTyped, EndedTyped DEF SessionType, registry, ActivationFails
<1>3. LifeType'
  BY DEF LifeType, life, ActivationFails
<1>4. WorkType'
  BY EndedTyped DEF WorkType, ActivationFails
<1>5. ServerType'
  BY DEF ServerType, ActivationFails
<1>6. PreviousKnown'
  BY DEF PreviousKnown, registry, ActivationFails
<1>7. ServedKnown'
  BY EndedTyped DEF ServedKnown, ActivationFails
<1>8. NewestIsBound'
  BY DEF NewestIsBound, ActivationFails
<1>9. JoinedIsUnderWay'
  BY EndedTyped DEF ActivationFails
<1>. QED
  BY <1>1, <1>2, <1>3, <1>4, <1>5, <1>6, <1>7, <1>8, <1>9

LEMMA UndoneKeeps ==
  ASSUME IInv, NEW c \in Clients, Undone(c)
  PROVE  IInv'
<1>. USE BoundsAssumption DEF IInv, TypeOK
<1>1. RegistryType'
  BY DEF RegistryType, registry, Undone
<1>2. SessionType'
  BY ReleasedTyped, EndedTyped DEF SessionType, registry, Undone
<1>3. LifeType'
  BY DEF LifeType, life, Undone
<1>4. WorkType'
  BY EndedTyped DEF WorkType, Undone
<1>5. ServerType'
  BY DEF ServerType, servers, Undone
<1>6. PreviousKnown'
  BY DEF PreviousKnown, registry, Undone
<1>7. ServedKnown'
  BY EndedTyped DEF ServedKnown, servers, Undone
<1>8. NewestIsBound'
  BY DEF NewestIsBound, Undone
<1>9. JoinedIsUnderWay'
  BY EndedTyped DEF Undone
<1>. QED
  BY <1>1, <1>2, <1>3, <1>4, <1>5, <1>6, <1>7, <1>8, <1>9

LEMMA DeactivatesKeeps ==
  ASSUME IInv, Deactivates, UNCHANGED usable \/ usable' = FALSE
  PROVE  IInv'
<1>. USE BoundsAssumption DEF IInv, TypeOK
<1>1. RegistryType'
  BY DEF RegistryType, registry, Deactivates
<1>2. SessionType'
  BY ReleasedTyped DEF SessionType, registry, Deactivates
<1>3. LifeType'
  BY DEF LifeType, Deactivates
<1>4. WorkType'
  <2>1. clientId \in 0 .. MaxClients /\ lsp \in 0 .. MaxGeneration
    BY DEF SessionType
  <2>2. [lsp |-> lsp, client |-> clientId, dispose |-> FALSE]
          \in [lsp : 0 .. MaxGeneration, client : 0 .. MaxClients, dispose : BOOLEAN]
    BY <2>1, Zenon
  <2>3. stops' \subseteq [lsp : 0 .. MaxGeneration, client : 0 .. MaxClients, dispose : BOOLEAN]
    BY <2>2 DEF WorkType, Deactivates
  <2>. QED
    BY <2>3 DEF WorkType, Deactivates
<1>5. ServerType'
  BY DEF ServerType, Deactivates, Stopping
<1>6. PreviousKnown'
  BY DEF PreviousKnown, registry, Deactivates
<1>7. ServedKnown'
  BY DEF ServedKnown, ServerType, Deactivates, Stopping
<1>8. NewestIsBound'
  BY DEF NewestIsBound, Deactivates
<1>9. JoinedIsUnderWay'
  BY DEF JoinedIsUnderWay, Idle, Deactivates
<1>. QED
  BY <1>1, <1>2, <1>3, <1>4, <1>5, <1>6, <1>7, <1>8, <1>9

LEMMA StopReturnsKeeps ==
  ASSUME IInv, NEW s \in stops, StopReturns(s)
  PROVE  IInv'
<1>. USE BoundsAssumption DEF IInv, TypeOK
<1>1. RegistryType'
  BY DEF RegistryType, registry, StopReturns
<1>2. SessionType'
  BY ReleasedTyped DEF SessionType, registry, StopReturns
<1>3. LifeType'
  BY DEF LifeType, life, StopReturns
<1>4. WorkType'
  BY DEF WorkType, StopReturns
<1>5. ServerType'
  BY DEF ServerType, StopReturns, Disposed
<1>6. PreviousKnown'
  BY DEF PreviousKnown, registry, StopReturns
<1>7. ServedKnown'
  BY DEF ServedKnown, StopReturns, Disposed
<1>8. NewestIsBound'
  BY DEF NewestIsBound, StopReturns
<1>9. JoinedIsUnderWay'
  BY DEF JoinedIsUnderWay, Idle, StopReturns
<1>. QED
  BY <1>1, <1>2, <1>3, <1>4, <1>5, <1>6, <1>7, <1>8, <1>9

LEMMA ServerStopsKeeps ==
  ASSUME IInv, NEW g \in Generations, ServerStops(g)
  PROVE  IInv'
<1>. USE BoundsAssumption DEF IInv, TypeOK
<1>1. RegistryType'
  BY DEF RegistryType, registry, ServerStops
<1>2. SessionType'
  BY DEF SessionType, registry, session, ServerStops
<1>3. LifeType'
  BY DEF LifeType, life, ServerStops
<1>4. WorkType'
  BY DEF WorkType, work, ServerStops
<1>5. ServerType'
  BY DEF ServerType, ServerStops
<1>6. PreviousKnown'
  BY DEF PreviousKnown, registry, ServerStops
<1>7. ServedKnown'
  BY DEF ServedKnown, work, ServerStops
<1>8. NewestIsBound'
  BY DEF NewestIsBound, session, ServerStops
<1>9. JoinedIsUnderWay'
  BY DEF JoinedIsUnderWay, Idle, session, work, ServerStops
<1>. QED
  BY <1>1, <1>2, <1>3, <1>4, <1>5, <1>6, <1>7, <1>8, <1>9

LEMMA ServerDiesKeeps ==
  ASSUME IInv, NEW g \in Generations, ServerDies(g)
  PROVE  IInv'
<1>. USE BoundsAssumption DEF IInv, TypeOK
<1>1. RegistryType'
  BY DEF RegistryType, registry, ServerDies
<1>2. SessionType'
  BY DEF SessionType, registry, session, ServerDies
<1>3. LifeType'
  BY DEF LifeType, life, ServerDies
<1>4. WorkType'
  BY DEF WorkType, work, ServerDies
<1>5. ServerType'
  BY DEF ServerType, ServedKnown, ServerDies
<1>6. PreviousKnown'
  BY DEF PreviousKnown, registry, ServerDies
<1>7. ServedKnown'
  BY DEF ServedKnown, work, ServerDies
<1>8. NewestIsBound'
  BY DEF NewestIsBound, session, ServerDies
<1>9. JoinedIsUnderWay'
  BY DEF JoinedIsUnderWay, Idle, session, work, ServerDies
<1>. QED
  BY <1>1, <1>2, <1>3, <1>4, <1>5, <1>6, <1>7, <1>8, <1>9

LEMMA AttachKernelKeeps ==
  ASSUME IInv, AttachKernel
  PROVE  IInv'
<1>. USE BoundsAssumption DEF IInv, TypeOK
<1>1. RegistryType'
  BY DEF RegistryType, registry, AttachKernel
<1>2. SessionType'
  BY DEF SessionType, registry, session, AttachKernel
<1>3. LifeType'
  BY DEF LifeType, AttachKernel
<1>4. WorkType'
  BY DEF WorkType, work, AttachKernel
<1>5. ServerType'
  BY DEF ServerType, servers, AttachKernel
<1>6. PreviousKnown'
  BY DEF PreviousKnown, registry, AttachKernel
<1>7. ServedKnown'
  BY DEF ServedKnown, work, servers, AttachKernel
<1>8. NewestIsBound'
  BY DEF NewestIsBound, session, AttachKernel
<1>9. JoinedIsUnderWay'
  BY DEF JoinedIsUnderWay, Idle, session, work, AttachKernel
<1>. QED
  BY <1>1, <1>2, <1>3, <1>4, <1>5, <1>6, <1>7, <1>8, <1>9

LEMMA BecomesUsableKeeps ==
  ASSUME IInv, BecomesUsable
  PROVE  IInv'
<1>. USE BoundsAssumption DEF IInv, TypeOK
<1>1. RegistryType'
  BY DEF RegistryType, registry, BecomesUsable
<1>2. SessionType'
  BY DEF SessionType, registry, session, BecomesUsable
<1>3. LifeType'
  BY DEF LifeType, BecomesUsable
<1>4. WorkType'
  BY DEF WorkType, work, BecomesUsable
<1>5. ServerType'
  BY DEF ServerType, servers, BecomesUsable
<1>6. PreviousKnown'
  BY DEF PreviousKnown, registry, BecomesUsable
<1>7. ServedKnown'
  BY DEF ServedKnown, work, servers, BecomesUsable
<1>8. NewestIsBound'
  BY DEF NewestIsBound, session, BecomesUsable
<1>9. JoinedIsUnderWay'
  BY DEF JoinedIsUnderWay, Idle, session, work, BecomesUsable
<1>. QED
  BY <1>1, <1>2, <1>3, <1>4, <1>5, <1>6, <1>7, <1>8, <1>9

LEMMA DisposeKeeps ==
  ASSUME IInv, Dispose
  PROVE  IInv'
<1>. USE BoundsAssumption DEF IInv, TypeOK
<1>1. RegistryType'
  BY DEF RegistryType, registry, Dispose
<1>2. SessionType'
  BY DEF SessionType, registry, session, Dispose
<1>3. LifeType'
  BY DEF LifeType, Dispose
<1>4. WorkType'
  BY DEF WorkType, work, Dispose
<1>5. ServerType'
  BY DEF ServerType, Dispose, Disposed
<1>6. PreviousKnown'
  BY DEF PreviousKnown, registry, Dispose
<1>7. ServedKnown'
  BY DEF ServedKnown, work, Dispose, Disposed
<1>8. NewestIsBound'
  BY DEF NewestIsBound, session, Dispose
<1>9. JoinedIsUnderWay'
  BY DEF JoinedIsUnderWay, Idle, session, work, Dispose
<1>. QED
  BY <1>1, <1>2, <1>3, <1>4, <1>5, <1>6, <1>7, <1>8, <1>9

LEMMA StepKeeps == IInv /\ [Next]_vars => IInv'
<1>1. ASSUME IInv, UNCHANGED vars PROVE IInv'
  BY <1>1 DEF IInv, TypeOK, RegistryType, SessionType, LifeType, WorkType, ServerType, PreviousKnown, ServedKnown,
     NewestIsBound, JoinedIsUnderWay, Idle, vars, registry, session, life, work, servers
<1>2. ASSUME IInv, Progress PROVE IInv'
  BY <1>2, BindKeeps, RemoveKeeps, BoundKeeps, StopReturnsKeeps, PortArrivesKeeps, PortFailsKeeps,
     ActivatedKeeps, ActivationFailsKeeps, UndoneKeeps, ServerStopsKeeps DEF Progress
<1>3. ASSUME IInv, DeactivateLsp \/ SessionEnds PROVE IInv'
  BY <1>3, DeactivatesKeeps DEF DeactivateLsp, SessionEnds
<1>. QED
  BY <1>1, <1>2, <1>3, RegisterKeeps, RetireKeeps, ActivateLspKeeps, ServerDiesKeeps, AttachKernelKeeps,
     BecomesUsableKeeps, DisposeKeeps DEF Next

LEMMA InitInv == Init => IInv
<1>. SUFFICES ASSUME Init PROVE IInv
  OBVIOUS
<1>. USE BoundsAssumption DEF Init
<1>0. registered \in 0 .. MaxGeneration /\ registered \in 0 .. latest /\ latest \in 0 .. MaxGeneration
  BY DEF Generations
<1>1. RegistryType
  <2>1. previous \in [Generations -> 0 .. MaxGeneration]
    BY DEF Generations
  <2>2. jobs \in Seq(0 .. MaxGeneration)
    BY SMT
  <2>. QED
    BY <1>0, <2>1, <2>2 DEF RegistryType
<1>2. SessionType /\ LifeType
  <2>1. lsp \in 0 .. MaxGeneration /\ bound \in 0 .. latest
    BY <1>0
  <2>2. activation \in 0 .. MaxClients /\ clientId \in 0 .. MaxClients /\ open \subseteq Clients
    BY SMT
  <2>3. requested \in BOOLEAN /\ kernel \in BOOLEAN /\ usable \in BOOLEAN /\ disposed \in BOOLEAN
    OBVIOUS
  <2>. QED
    BY <2>1, <2>2, <2>3 DEF SessionType, LifeType
<1>3. WorkType
  BY DEF WorkType, Clients
<1>4. ServerType
  BY DEF ServerType
<1>5. PreviousKnown
  BY DEF PreviousKnown
<1>6. ServedKnown
  BY DEF ServedKnown
<1>7. NewestIsBound /\ JoinedIsUnderWay
  BY DEF NewestIsBound, JoinedIsUnderWay
<1>. QED
  BY <1>1, <1>2, <1>3, <1>4, <1>5, <1>6, <1>7 DEF IInv, TypeOK

LEMMA Invariant == Spec => []IInv
  BY InitInv, StepKeeps, PTL DEF Spec
-----------------------------------------------------------------------------
\* The session's LSP, its activations, bindings and stops keep their types
\* whatever overlaps (session.ts:1563-1799).
THEOREM TypeCorrect == Spec => []TypeOK
<1>1. IInv => TypeOK
  BY DEF IInv
<1>. QED
  BY <1>1, Invariant, PTL

\* An LSP is installed for the newest binding only: one that is overtaken
\* while the LSP it replaces is stopped installs nothing.  An activation that
\* can be joined has not ended, however it ended: the LSP of a failed or
\* obsolete one can be activated again (session.ts:1563-1646).
THEOREM HeldStaysCurrent == Spec => []HeldIsCurrent
<1>1. IInv => HeldIsCurrent
  BY DEF IInv, HeldIsCurrent
<1>. QED
  BY <1>1, Invariant, PTL
-----------------------------------------------------------------------------
\* A binding waits that is not out of date.
Pending == \E b \in binds : b.generation = bound

\* A generation that was bound before, and is not the one that is to be installed.
Left(g) == g <= bound /\ (Pending => g < bound)

\* Generations are bound in order, each once.
JobsAhead ==
  /\ jobs = <<>> => ~draining
  /\ \A i \in DOMAIN jobs : jobs[i] # 0 => bound < jobs[i] /\ jobs[i] <= latest
  /\ \A i, j \in DOMAIN jobs : i < j /\ jobs[i] # 0 /\ jobs[j] # 0 => jobs[i] < jobs[j]

BindsInOrder ==
  /\ \A b \in binds : b.generation <= bound /\ b.lsp < b.generation
  /\ \A a, b \in binds : a.generation = b.generation => a = b
  /\ Pending => lsp = 0

\* What there is of this generation or newer: a microtask, a binding that waits, or
\* the session's LSP.
Covered(g) == (\E i \in DOMAIN jobs : jobs[i] = g) \/ lsp >= g \/ (Pending /\ bound >= g)

\* The same holds of what a registration that has not been bound yet replaced, so
\* that it can be taken back.
RegisteredIsCovered ==
  /\ \A g \in Generations : previous[g] < g
  /\ ~disposed /\ registered # 0 => Covered(registered)
  /\ ~disposed /\ ~draining =>
       \A i \in DOMAIN jobs : jobs[i] # 0 /\ previous[jobs[i]] # 0 => Covered(previous[jobs[i]])

\* A client has an activation, of an LSP that has not come since: what replaced or
\* removed an LSP will not release the client of another.
ClientsKnown ==
  /\ \A c \in Clients :
       IF act[c].pc = "none" THEN c \notin open /\ act[c].lsp = 0
       ELSE act[c].lsp \in Generations /\ Left(act[c].lsp)
  /\ clientId # 0 => act[clientId].pc # "none"
  /\ clientId # 0 /\ ~disposed => kernel /\ clientId \in open
  /\ \A b \in binds : b.client # 0 =>
       act[b.client].pc # "none" /\ act[b.client].lsp < b.generation
  /\ \A s \in stops :
       /\ Left(s.lsp)
       /\ s.dispose => s.lsp = 0 \/ s.lsp # lsp
       /\ s.client # 0 =>
            /\ act[s.client].pc # "none"
            /\ s.dispose \/ act[s.client].pc \in {"port", "activate"} => act[s.client].lsp # lsp

\* An LSP is activated by one activation at a time: that of the session's LSP is
\* joined.
ActsAlone ==
  /\ activation # 0 => act[activation].lsp = lsp
  /\ \A c \in Clients : ~Idle(c) /\ act[c].lsp = lsp => activation = c
  /\ \A c, d \in Clients : ~Idle(c) /\ ~Idle(d) /\ act[c].lsp = act[d].lsp => c = d
  /\ \A c \in Clients :
       /\ act[c].pc = "port" /\ act[c].lsp = lsp => Inactive(lsp)
       /\ act[c].pc = "activate" => server[act[c].lsp] = "starting" /\ servedBy[act[c].lsp] = c
       /\ act[c].pc = "undo" => server[act[c].lsp] \in {"stopping", "stopped"}

\* An LSP object that is active has somebody who will stop it, or is wanted.
ServersOwned ==
  \A g \in Generations :
    /\ server[g] = "starting" => \E c \in Clients : act[c].pc = "activate" /\ act[c].lsp = g
    /\ server[g] = "stopping" =>
         \/ \E b \in binds : b.lsp = g
         \/ \E s \in stops : s.lsp = g
         \/ \E c \in Clients : act[c].pc = "undo" /\ act[c].lsp = g
    /\ server[g] = "running" =>
         /\ ~disposed /\ requested /\ g = lsp /\ servedBy[g] = clientId /\ clientId # 0
         /\ act[clientId].pc = "done" /\ act[clientId].lsp = lsp
         /\ \A s \in stops : s.client # clientId

\* A comm that is open has somebody who will release it, or is in use.
OpenOwned ==
  ~disposed =>
    \A c \in open \ stopped :
      \/ ~Idle(c)
      \/ \E b \in binds : b.client = c
      \/ \E s \in stops : s.client = c
      \/ c = clientId /\ lsp # 0 /\ server[lsp] = "running"

\* What is bound, and in which order; and what each server and comm is there for.
QueueInv == JobsAhead /\ BindsInOrder /\ RegisteredIsCovered
WorkInv  == ClientsKnown /\ ActsAlone /\ ServersOwned /\ OpenOwned
RInv == IInv /\ QueueInv /\ WorkInv
-----------------------------------------------------------------------------
LEMMA QueueFrame ==
  ASSUME QueueInv, UNCHANGED <<registry, lsp, bound, binds>>, UNCHANGED disposed \/ disposed'
  PROVE  QueueInv'
<1>. USE DEF registry
<1>1. Pending' = Pending
  BY DEF Pending
<1>2. JobsAhead' /\ BindsInOrder'
  BY <1>1 DEF QueueInv, JobsAhead, BindsInOrder
<1>3. \A g : Covered(g) => Covered(g)'
  BY <1>1 DEF Covered
<1>4. RegisteredIsCovered'
  BY <1>3 DEF QueueInv, RegisteredIsCovered
<1>. QED
  BY <1>2, <1>4 DEF QueueInv

LEMMA RegisterQueue ==
  ASSUME RInv, Register
  PROVE  QueueInv'
<1>. USE BoundsAssumption DEF RInv, QueueInv, IInv, TypeOK
<1>1. /\ latest \in Nat /\ bound \in Nat /\ bound <= latest /\ registered \in 0 .. latest
      /\ jobs \in Seq(0 .. MaxGeneration) /\ latest + 1 \in Generations
  BY DEF RegistryType, SessionType, Register, Generations
<1>2. /\ Len(jobs') = Len(jobs) + 1
      /\ \A i \in DOMAIN jobs : i \in DOMAIN jobs' /\ jobs'[i] = jobs[i]
      /\ \A i \in DOMAIN jobs' : i \in DOMAIN jobs \/ i = Len(jobs) + 1
      /\ jobs'[Len(jobs) + 1] = latest + 1 /\ Len(jobs) \in Nat
      /\ DOMAIN jobs = 1 .. Len(jobs) /\ DOMAIN jobs' = 1 .. Len(jobs) + 1
  BY <1>1 DEF Register
<1>3. JobsAhead'
  <2>1. jobs' # <<>> /\ ~draining' /\ UNCHANGED bound /\ latest' = latest + 1
    BY <1>1 DEF Register, session
  <2>2. \A i \in DOMAIN jobs : jobs[i] # 0 => bound < jobs[i] /\ jobs[i] <= latest /\ jobs[i] \in Nat
    BY <1>1 DEF JobsAhead
  <2>3. \A i \in DOMAIN jobs' : jobs'[i] # 0 => bound' < jobs'[i] /\ jobs'[i] <= latest'
    BY <1>1, <1>2, <2>1, <2>2
  <2>4. \A i, j \in DOMAIN jobs' : i < j /\ jobs'[i] # 0 /\ jobs'[j] # 0 => jobs'[i] < jobs'[j]
    <3>1. SUFFICES ASSUME NEW i \in DOMAIN jobs', NEW j \in DOMAIN jobs', i < j, jobs'[i] # 0, jobs'[j] # 0
                   PROVE  jobs'[i] < jobs'[j]
      OBVIOUS
    <3>2. i \in DOMAIN jobs /\ jobs'[i] = jobs[i]
      BY <1>2, <3>1
    <3>3. CASE j \in DOMAIN jobs
      BY <1>2, <3>1, <3>2, <3>3 DEF JobsAhead
    <3>4. CASE j = Len(jobs) + 1
      BY <1>1, <1>2, <2>2, <3>1, <3>2, <3>4
    <3>. QED
      BY <1>2, <3>3, <3>4
  <2>. QED
    BY <2>1, <2>3, <2>4 DEF JobsAhead
<1>4. Pending' = Pending
  BY DEF Pending, Register, session, work
<1>5. BindsInOrder'
  BY <1>4 DEF BindsInOrder, Register, session, work
<1>6. \A g : Covered(g) => Covered(g)'
  BY <1>2, <1>4 DEF Covered, Register, session, work
<1>7. RegisteredIsCovered'
  <2>1. /\ registered' = latest + 1 /\ previous' = [previous EXCEPT ![latest + 1] = registered]
        /\ UNCHANGED <<disposed, draining>> /\ ~draining
    BY DEF Register, life
  <2>2. /\ previous \in [Generations -> 0 .. MaxGeneration]
        /\ \A g \in Generations : previous[g] < g
        /\ ~disposed /\ registered # 0 => Covered(registered)
        /\ ~disposed => \A i \in DOMAIN jobs : jobs[i] # 0 /\ previous[jobs[i]] # 0 => Covered(previous[jobs[i]])
    BY <2>1 DEF RegisteredIsCovered, RegistryType
  <2>3. \A g \in Generations : previous'[g] < g
    BY <1>1, <2>1, <2>2
  <2>4. Covered(registered)'
    BY <1>2, <2>1 DEF Covered
  <2>5. ASSUME ~disposed', NEW i \in DOMAIN jobs', jobs'[i] # 0, previous'[jobs'[i]] # 0
        PROVE  Covered(previous[jobs[i]])'
    <3>1. CASE i \in DOMAIN jobs
      <4>1. jobs'[i] = jobs[i] /\ jobs[i] <= latest /\ jobs[i] \in Generations
        BY <1>1, <1>2, <2>5, <3>1 DEF JobsAhead, Generations
      <4>2. previous'[jobs'[i]] = previous[jobs[i]]
        BY <1>1, <2>1, <2>2, <4>1
      <4>3. PICK h : h = previous[jobs[i]]
        OBVIOUS
      <4>4. Covered(h)
        BY <2>1, <2>2, <2>5, <3>1, <4>1, <4>2, <4>3
      <4>. QED
        BY <1>6, <4>2, <4>3, <4>4 DEF Covered
    <3>2. CASE i = Len(jobs) + 1
      <4>1. previous'[jobs'[i]] = registered
        BY <1>1, <1>2, <2>1, <2>2, <3>2
      <4>2. PICK h : h = registered
        OBVIOUS
      <4>3. Covered(h)
        BY <2>1, <2>2, <2>5, <4>1, <4>2
      <4>. QED
        BY <1>6, <4>1, <4>2, <4>3 DEF Covered
    <3>. QED
      BY <1>2, <3>1, <3>2
  <2>. QED
    BY <2>3, <2>4, <2>5 DEF RegisteredIsCovered
<1>. QED
  BY <1>3, <1>5, <1>7

LEMMA RetireQueue ==
  ASSUME RInv, NEW g \in Generations, Retire(g)
  PROVE  QueueInv'
<1>. USE BoundsAssumption DEF RInv, QueueInv, IInv, TypeOK
<1>1. /\ jobs \in Seq(0 .. MaxGeneration) /\ previous \in [Generations -> 0 .. MaxGeneration]
      /\ lsp \in Nat /\ bound \in Nat /\ latest \in Nat
  BY DEF RegistryType, SessionType
<1>2. /\ UNCHANGED <<previous, latest, draining, lsp, bound, binds, disposed>> /\ ~draining
      /\ \/ UNCHANGED <<registered, jobs>>
         \/ registered = g /\ registered' = 0 /\ jobs' = Append(jobs, 0)
         \/ registered = g /\ registered' = previous[g] /\ registered' # 0 /\ UNCHANGED jobs
  BY DEF Retire, session, life, work
<1>3. Pending' = Pending
  BY <1>2 DEF Pending
<1>4. BindsInOrder'
  BY <1>2, <1>3 DEF BindsInOrder
<1>5. /\ \A i \in DOMAIN jobs : i \in DOMAIN jobs' /\ jobs'[i] = jobs[i]
      /\ \A i \in DOMAIN jobs' : i \in DOMAIN jobs \/ jobs'[i] = 0
  <2>1. CASE UNCHANGED jobs
    BY <2>1
  <2>2. CASE jobs' = Append(jobs, 0)
    BY <1>1, <2>2
  <2>. QED
    BY <1>2, <2>1, <2>2
<1>6. JobsAhead'
  BY <1>1, <1>2, <1>5 DEF JobsAhead
<1>7. \A h : Covered(h) => Covered(h)'
  BY <1>2, <1>3, <1>5 DEF Covered
<1>8. RegisteredIsCovered'
  <2>1. /\ \A h \in Generations : previous[h] < h
        /\ ~disposed /\ registered # 0 => Covered(registered)
        /\ ~disposed => \A i \in DOMAIN jobs : jobs[i] # 0 /\ previous[jobs[i]] # 0 => Covered(previous[jobs[i]])
    BY <1>2 DEF RegisteredIsCovered
  <2>2. ASSUME ~disposed, registered' # 0 PROVE Covered(registered)'
    <3>1. CASE registered' = registered
      <4>1. PICK h : h = registered
        OBVIOUS
      <4>2. Covered(h)
        BY <2>1, <2>2, <3>1, <4>1
      <4>. QED
        BY <1>7, <3>1, <4>1, <4>2 DEF Covered
    <3>2. CASE registered = g /\ registered' = previous[g]
      <4>1. g # 0 /\ g \in Nat /\ previous[g] \in Nat /\ previous[g] < g /\ Covered(g)
        BY <1>1, <2>1, <2>2, <3>2 DEF Generations
      <4>2. PICK h : h = previous[g]
        OBVIOUS
      <4>3. Covered(h)
        <5>1. CASE \E i \in DOMAIN jobs : jobs[i] = g
          BY <2>1, <2>2, <3>2, <4>1, <4>2, <5>1
        <5>2. CASE lsp >= g \/ (Pending /\ bound >= g)
          BY <1>1, <4>1, <4>2, <5>2 DEF Covered
        <5>. QED
          BY <4>1, <5>1, <5>2 DEF Covered
      <4>. QED
        BY <1>7, <3>2, <4>2, <4>3 DEF Covered
    <3>. QED
      BY <1>2, <2>2, <3>1, <3>2
  <2>3. ASSUME ~disposed, NEW i \in DOMAIN jobs', jobs'[i] # 0, previous[jobs'[i]] # 0
        PROVE  Covered(previous[jobs[i]])'
    <3>1. PICK h : h = previous[jobs'[i]]
      OBVIOUS
    <3>2. Covered(h)
      BY <1>2, <1>5, <2>1, <2>3, <3>1
    <3>. QED
      BY <1>2, <1>7, <3>1, <3>2 DEF Covered
  <2>. QED
    BY <1>2, <2>1, <2>2, <2>3 DEF RegisteredIsCovered, Covered
<1>. QED
  BY <1>4, <1>6, <1>8

\* A microtask ends: the rest is bound in the same order.
LEMMA DrainsOrdered ==
  ASSUME JobsAhead, jobs \in Seq(0 .. MaxGeneration), jobs # <<>>, Drains, bound \in Nat, latest \in Nat
  PROVE  /\ Head(jobs) = jobs[1] /\ Head(jobs) \in 0 .. MaxGeneration
         /\ Head(jobs) # 0 => bound < Head(jobs) /\ Head(jobs) <= latest
         /\ \A i \in DOMAIN jobs' : i + 1 \in DOMAIN jobs /\ jobs'[i] = jobs[i + 1]
         /\ \A i \in DOMAIN jobs : i = 1 \/ (i - 1 \in DOMAIN jobs' /\ jobs'[i - 1] = jobs[i])
         /\ \A i \in DOMAIN jobs' : jobs'[i] # 0 =>
              /\ bound < jobs'[i] /\ jobs'[i] <= latest
              /\ Head(jobs) # 0 => Head(jobs) < jobs'[i]
         /\ \A i, j \in DOMAIN jobs' : i < j /\ jobs'[i] # 0 /\ jobs'[j] # 0 => jobs'[i] < jobs'[j]
         /\ ~draining' <=> jobs' = <<>>
<1>. USE BoundsAssumption
<1>1. /\ Len(jobs) \in Nat /\ Len(jobs) > 0 /\ DOMAIN jobs = 1 .. Len(jobs)
      /\ Len(jobs') = Len(jobs) - 1 /\ DOMAIN jobs' = 1 .. (Len(jobs) - 1)
      /\ \A i \in 1 .. (Len(jobs) - 1) : jobs'[i] = jobs[i + 1]
      /\ Head(jobs) = jobs[1] /\ jobs' \in Seq(0 .. MaxGeneration)
  BY DEF Drains
<1>2. Head(jobs) \in 0 .. MaxGeneration /\ 1 \in DOMAIN jobs
  BY <1>1
<1>3. \A i \in DOMAIN jobs' : i \in Nat /\ i + 1 \in DOMAIN jobs /\ jobs'[i] = jobs[i + 1] /\ i + 1 > 1
  BY <1>1
<1>4. ~draining' <=> jobs' = <<>>
  <2>1. draining' <=> Len(jobs) > 1
    BY DEF Drains
  <2>2. jobs' = <<>> <=> Len(jobs') = 0
    <3>1. jobs' \in Seq(0 .. MaxGeneration)
      BY <1>1
    <3>. QED
      BY <3>1
  <2>3. Len(jobs') = 0 <=> ~(Len(jobs) > 1)
    <3>1. PICK n \in Nat : n = Len(jobs) /\ n > 0
      BY <1>1
    <3>2. Len(jobs') = n - 1
      BY <1>1, <3>1
    <3>3. CASE n = 1
      BY <3>1, <3>2, <3>3
    <3>4. CASE n > 1
      <4>1. Len(jobs') # 0
        BY <3>2, <3>4
      <4>. QED
        BY <3>1, <3>4, <4>1
    <3>. QED
      BY <3>1, <3>3, <3>4
  <2>. QED
    BY <2>1, <2>2, <2>3
<1>5. \A i \in DOMAIN jobs : i = 1 \/ (i - 1 \in DOMAIN jobs' /\ jobs'[i - 1] = jobs[i])
  BY <1>1
<1>6. \A i, j \in DOMAIN jobs' : i < j /\ jobs'[i] # 0 /\ jobs'[j] # 0 => jobs'[i] < jobs'[j]
  BY <1>3 DEF JobsAhead
<1>7. \A i \in DOMAIN jobs' : jobs'[i] # 0 => 
              /\ bound < jobs'[i] /\ jobs'[i] <= latest
              /\ Head(jobs) # 0 => Head(jobs) < jobs'[i]
  BY <1>1, <1>2, <1>3 DEF JobsAhead
<1>8. Head(jobs) # 0 => bound < Head(jobs) /\ Head(jobs) <= latest
  BY <1>1, <1>2 DEF JobsAhead
<1>. QED
  BY <1>1, <1>2, <1>3, <1>4, <1>5, <1>6, <1>7, <1>8

LEMMA BindQueue ==
  ASSUME RInv, Bind
  PROVE  QueueInv'
<1>. USE BoundsAssumption DEF RInv, QueueInv, IInv, TypeOK
<1>1. /\ jobs \in Seq(0 .. MaxGeneration) /\ lsp \in Nat /\ bound \in Nat /\ latest \in Nat
      /\ registered \in Nat /\ (lsp # 0 => lsp = bound)
  BY DEF RegistryType, SessionType, NewestIsBound
<1>2. PICK g : g = Head(jobs)
  OBVIOUS
<1>3. jobs # <<>> /\ g # 0 /\ Drains /\ UNCHANGED <<registered, previous, latest, disposed>>
  BY <1>2 DEF Bind, Rebinds, life
<1>4. /\ g = jobs[1] /\ g \in Nat /\ g <= latest /\ bound < g
      /\ \A i \in DOMAIN jobs : i = 1 \/ (i - 1 \in DOMAIN jobs' /\ jobs'[i - 1] = jobs[i])
      /\ \A i \in DOMAIN jobs' : jobs'[i] # 0 => bound < jobs'[i] /\ jobs'[i] <= latest /\ g < jobs'[i]
      /\ \A i, j \in DOMAIN jobs' : i < j /\ jobs'[i] # 0 /\ jobs'[j] # 0 => jobs'[i] < jobs'[j]
      /\ ~draining' <=> jobs' = <<>>
  BY <1>1, <1>2, <1>3, DrainsOrdered
<1>5. CASE Obsolete
  <2>1. (registered # g \/ disposed) /\ UNCHANGED <<lsp, bound, binds>>
    BY <1>1, <1>2, <1>4, <1>5 DEF Obsolete, Bind, Rebinds
  <2>2. Pending' = Pending
    BY <2>1 DEF Pending
  <2>3. JobsAhead'
    BY <1>3, <1>4, <2>1 DEF JobsAhead
  <2>4. BindsInOrder'
    BY <2>1, <2>2 DEF BindsInOrder
  <2>5. ~disposed /\ registered # 0 => Covered(registered)'
    BY <1>3, <1>4, <2>1, <2>2 DEF RegisteredIsCovered, Covered
  <2>6. ~draining' => DOMAIN jobs' = {}
    BY <1>4
  <2>7. RegisteredIsCovered'
    BY <1>3, <2>5, <2>6 DEF RegisteredIsCovered, Covered
  <2>. QED
    BY <2>3, <2>4, <2>7
<1>6. CASE ~Obsolete
  <2>1. /\ registered = g /\ ~disposed /\ bound' = g /\ lsp' = 0
        /\ binds' = binds \cup {[generation |-> g, lsp |-> lsp, client |-> clientId]}
    BY <1>2, <1>6 DEF Obsolete, Bind, Rebinds
  <2>2. Pending'
    <3>1. [generation |-> g, lsp |-> lsp, client |-> clientId].generation = g
      OBVIOUS
    <3>. QED
      BY <2>1, <3>1 DEF Pending
  <2>3. JobsAhead'
    BY <1>3, <1>4, <2>1 DEF JobsAhead
  <2>4. BindsInOrder'
    <3>1. \A b \in binds : b.generation <= bound /\ b.lsp < b.generation /\ b.generation \in Nat
      BY DEF BindsInOrder, WorkType, Generations
    <3>2. \A b \in binds' : b.generation <= bound' /\ b.lsp < b.generation
      BY <1>1, <1>4, <2>1, <3>1
    <3>3. \A a, b \in binds' : a.generation = b.generation => a = b
      BY <1>1, <1>4, <2>1, <3>1 DEF BindsInOrder
    <3>. QED
      BY <2>1, <3>2, <3>3 DEF BindsInOrder
  <2>5. Covered(registered)'
    BY <1>3, <1>4, <2>1, <2>2 DEF Covered
  <2>6. ~draining' => DOMAIN jobs' = {}
    BY <1>4
  <2>7. RegisteredIsCovered'
    BY <1>3, <2>5, <2>6 DEF RegisteredIsCovered, Covered
  <2>. QED
    BY <2>3, <2>4, <2>7
<1>. QED
  BY <1>5, <1>6

LEMMA RemoveQueue ==
  ASSUME RInv, Remove
  PROVE  QueueInv'
<1>. USE BoundsAssumption DEF RInv, QueueInv, IInv, TypeOK
<1>1. /\ jobs \in Seq(0 .. MaxGeneration) /\ lsp \in Nat /\ bound \in Nat /\ latest \in Nat
      /\ registered \in Nat
  BY DEF RegistryType, SessionType
<1>2. /\ jobs # <<>> /\ Head(jobs) = 0 /\ Drains
      /\ UNCHANGED <<registered, previous, latest, disposed, bound, binds>>
      /\ \/ UNCHANGED lsp
         \/ lsp' = 0 /\ registered = 0
  BY DEF Remove, life
<1>3. /\ jobs[1] = 0
      /\ \A i \in DOMAIN jobs : i = 1 \/ (i - 1 \in DOMAIN jobs' /\ jobs'[i - 1] = jobs[i])
      /\ \A i \in DOMAIN jobs' : jobs'[i] # 0 => bound < jobs'[i] /\ jobs'[i] <= latest
      /\ \A i, j \in DOMAIN jobs' : i < j /\ jobs'[i] # 0 /\ jobs'[j] # 0 => jobs'[i] < jobs'[j]
      /\ ~draining' <=> jobs' = <<>>
  BY <1>1, <1>2, DrainsOrdered
<1>4. Pending' = Pending
  BY <1>2 DEF Pending
<1>5. JobsAhead'
  BY <1>2, <1>3 DEF JobsAhead
<1>6. BindsInOrder'
  BY <1>2, <1>4 DEF BindsInOrder
<1>7. ~disposed /\ registered # 0 => Covered(registered)'
  BY <1>2, <1>3, <1>4 DEF RegisteredIsCovered, Covered
<1>8. ~draining' => DOMAIN jobs' = {}
  BY <1>3
<1>9. RegisteredIsCovered'
  BY <1>2, <1>7, <1>8 DEF RegisteredIsCovered, Covered
<1>. QED
  BY <1>5, <1>6, <1>9

LEMMA BoundQueue ==
  ASSUME RInv, NEW b \in binds, Bound(b)
  PROVE  QueueInv'
<1>. USE BoundsAssumption DEF RInv, QueueInv, IInv, TypeOK
<1>1. /\ lsp \in Nat /\ bound \in Nat /\ latest \in Nat /\ registered \in Nat
      /\ (lsp # 0 => lsp = bound) /\ b.generation \in Nat
  BY DEF RegistryType, SessionType, NewestIsBound, WorkType, Generations
<1>2. /\ jobs = <<>> /\ binds' = binds \ {b} /\ DOMAIN jobs = {}
      /\ UNCHANGED <<registered, previous, latest, jobs, draining, bound, disposed>>
      /\ \/ (disposed \/ bound # b.generation) /\ UNCHANGED lsp
         \/ bound = b.generation /\ lsp' = bound
  BY DEF Bound, Calm, registry, life
<1>3. Pending' => Pending /\ UNCHANGED lsp
  BY <1>2 DEF Pending, BindsInOrder
<1>4. JobsAhead' /\ BindsInOrder'
  BY <1>2, <1>3 DEF JobsAhead, BindsInOrder
<1>5. ASSUME ~disposed, registered # 0
      PROVE  Covered(registered)'
  <2>1. lsp >= registered \/ (Pending /\ bound >= registered)
    BY <1>2, <1>5 DEF RegisteredIsCovered, Covered
  <2>2. CASE bound = b.generation /\ lsp' = bound
    BY <1>1, <1>2, <1>5, <2>1, <2>2 DEF Covered
  <2>3. CASE bound # b.generation /\ UNCHANGED lsp
    <3>1. Pending => Pending'
      BY <1>2, <2>3 DEF Pending
    <3>. QED
      BY <1>2, <2>1, <2>3, <3>1 DEF Covered
  <2>. QED
    BY <1>2, <1>5, <2>2, <2>3
<1>6. RegisteredIsCovered'
  BY <1>2, <1>5 DEF RegisteredIsCovered, Covered
<1>. QED
  BY <1>4, <1>6
-----------------------------------------------------------------------------
LEMMA WorkFrame ==
  ASSUME WorkInv, UNCHANGED <<lsp, bound, requested, activation, clientId, open, kernel, disposed, work, servers>>
  PROVE  WorkInv'
<1>. USE DEF WorkInv, work, servers
<1>1. ClientsKnown'
  BY DEF ClientsKnown, Left, Pending
<1>2. ActsAlone'
  BY DEF ActsAlone, Idle, Inactive
<1>3. ServersOwned'
  BY DEF ServersOwned
<1>4. OpenOwned'
  BY DEF OpenOwned, Idle
<1>. QED
  BY <1>1, <1>2, <1>3, <1>4

\* What the invariant says of the session's own LSP.
LEMMA RestFacts ==
  ASSUME RInv
  PROVE  /\ lsp \in 0 .. MaxGeneration /\ lsp \in Nat /\ bound \in Nat
         /\ clientId \in 0 .. MaxClients
         /\ lsp # 0 => lsp = bound /\ ~Pending /\ lsp \in Generations
         /\ Pending => lsp = 0 /\ bound # 0
         /\ Left(lsp)
         /\ activation = 0 => \A c \in Clients : ~Idle(c) => act[c].lsp # lsp
         /\ lsp = 0 => activation = 0
<1>. USE BoundsAssumption DEF RInv, IInv, TypeOK, QueueInv, WorkInv
<1>1. lsp \in 0 .. MaxGeneration /\ lsp \in Nat /\ bound \in Nat /\ clientId \in 0 .. MaxClients
  BY DEF SessionType, RegistryType
<1>2. lsp # 0 => lsp = bound /\ ~Pending /\ lsp \in Generations
  BY <1>1 DEF NewestIsBound, BindsInOrder, Generations
<1>3. Pending => lsp = 0 /\ bound # 0
  BY DEF BindsInOrder, WorkType, Pending, Generations
<1>4. Left(lsp)
  BY <1>1, <1>2, <1>3 DEF Left
<1>5. activation = 0 => \A c \in Clients : ~Idle(c) => act[c].lsp # lsp
  BY DEF ActsAlone, Clients
<1>6. lsp = 0 => activation = 0
  <2>1. SUFFICES ASSUME activation # 0, lsp = 0 PROVE FALSE
    OBVIOUS
  <2>2. activation \in Clients
    BY <2>1 DEF SessionType, Clients
  <2>3. ~Idle(activation) /\ act[activation].lsp = 0
    BY <2>1 DEF JoinedIsUnderWay, ActsAlone
  <2>4. act[activation].lsp \in Generations
    BY <2>2, <2>3 DEF ClientsKnown, Idle
  <2>. QED
    BY <2>3, <2>4 DEF Generations
<1>. QED
  BY <1>1, <1>2, <1>3, <1>4, <1>5, <1>6

LEMMA StoppingServers ==
  ASSUME ServerType, lsp \in 0 .. MaxGeneration, server' = Stopping(lsp)
  PROVE  \A g \in Generations :
           server'[g] = IF g = lsp /\ server[g] = "running" THEN "stopping" ELSE server[g]
  BY BoundsAssumption DEF Stopping, ServerType, Generations

LEMMA DisposedServers ==
  ASSUME ServerType, NEW h \in 0 .. MaxGeneration
  PROVE  /\ Disposed(h) \in [Generations -> {"new", "starting", "running", "stopping", "stopped"}]
         /\ \A g \in Generations :
              Disposed(h)[g] = IF g = h /\ server[g] \in {"running", "stopping"} THEN "stopped" ELSE server[g]
  BY BoundsAssumption DEF Disposed, Runs, ServerType, Generations

LEMMA BindWork ==
  ASSUME RInv, Bind
  PROVE  WorkInv'
<1>. USE BoundsAssumption DEF RInv, IInv, TypeOK, WorkInv
<1>1. CASE Obsolete
  <2>1. UNCHANGED <<lsp, bound, requested, activation, clientId, open, kernel, disposed, work, servers>>
    BY <1>1 DEF Bind, Rebinds, life, work, servers
  <2>. QED
    BY <2>1, WorkFrame
<1>2. CASE ~Obsolete
  <2>1. PICK g : g = Head(jobs)
    OBVIOUS
  <2>2. /\ g \in Nat /\ g \in Generations /\ bound < g
    BY <2>1, DrainsOrdered DEF Bind, Rebinds, RegistryType, SessionType, Generations, QueueInv
  <2>3. /\ UNCHANGED <<requested, clientId, open, kernel, disposed, act, stops, servedBy, stopped>>
        /\ bound' = g /\ lsp' = 0 /\ activation' = 0
        /\ binds' = binds \cup {[generation |-> g, lsp |-> lsp, client |-> clientId]}
        /\ server' = Stopping(lsp)
    BY <1>2, <2>1 DEF Bind, Rebinds, life
  <2>4. \A h \in Generations :
           server'[h] = IF h = lsp /\ server[h] = "running" THEN "stopping" ELSE server[h]
    BY <2>3, StoppingServers DEF SessionType
  <2>5. /\ lsp \in Nat /\ bound \in Nat /\ clientId \in 0 .. MaxClients
    BY RestFacts
  <2>6. \A h \in Nat : Left(h) => h < g /\ Left(h)'
    BY <2>2, <2>3, <2>5 DEF Left
  <2>7. \A c \in Clients : act[c].lsp \in Nat /\ (act[c].pc # "none" => act[c].lsp # 0)
    BY DEF ClientsKnown, WorkType, Generations
  <2>8. ClientsKnown'
    <3>1. \A c \in Clients :
            IF act[c].pc = "none" THEN c \notin open /\ act[c].lsp = 0
            ELSE act[c].lsp \in Generations /\ Left(act[c].lsp)'
      BY <2>3, <2>6, <2>7 DEF ClientsKnown, Left
    <3>2. \A b \in binds' : b.client # 0 => act[b.client].pc # "none" /\ act[b.client].lsp < b.generation
      <4>1. SUFFICES ASSUME clientId # 0 PROVE act[clientId].pc # "none" /\ act[clientId].lsp < g
        BY <2>3, <4>1 DEF ClientsKnown
      <4>2. clientId \in Clients
        BY <2>5, <4>1 DEF Clients
      <4>. QED
        BY <2>6, <2>7, <4>1, <4>2 DEF ClientsKnown
    <3>3. \A s \in stops : s.lsp \in Nat /\ Left(s.lsp) /\ (s.client # 0 => s.client \in Clients)
      BY DEF ClientsKnown, WorkType, Clients
    <3>4. \A s \in stops :
             /\ Left(s.lsp)'
             /\ s.client # 0 => act[s.client].pc # "none" /\ act[s.client].lsp # 0
      BY <2>6, <2>7, <3>3 DEF ClientsKnown
    <3>. QED
      BY <2>3, <3>1, <3>2, <3>4 DEF ClientsKnown
  <2>9. ActsAlone'
    BY <2>3, <2>4, <2>7 DEF ActsAlone, Idle, ClientsKnown, Inactive
  <2>10. ServersOwned'
    <3>1. /\ [generation |-> g, lsp |-> lsp, client |-> clientId] \in binds' /\ binds \subseteq binds'
          /\ [generation |-> g, lsp |-> lsp, client |-> clientId].lsp = lsp
      BY <2>3
    <3>2. \A h \in Generations : server'[h] = "starting" => server[h] = "starting"
      BY <2>4
    <3>3. \A h \in Generations : server'[h] = "stopping" => server[h] = "stopping" \/ h = lsp
      BY <2>4
    <3>4. \A h \in Generations : server'[h] # "running"
      BY <2>4 DEF ServersOwned
    <3>5. PICK r \in binds' : r.lsp = lsp
      BY <3>1
    <3>6. \A h \in Generations : server[h] = "stopping" =>
             \/ \E b \in binds : b.lsp = h
             \/ \E s \in stops : s.lsp = h
             \/ \E c \in Clients : act[c].pc = "undo" /\ act[c].lsp = h
      BY DEF ServersOwned
    <3>7. \A h \in Generations : server'[h] = "stopping" =>
             \/ \E b \in binds' : b.lsp = h
             \/ \E s \in stops : s.lsp = h
             \/ \E c \in Clients : act[c].pc = "undo" /\ act[c].lsp = h
      BY <3>1, <3>3, <3>5, <3>6, Zenon
    <3>8. \A h \in Generations : server'[h] = "starting" =>
             \E c \in Clients : act[c].pc = "activate" /\ act[c].lsp = h
      BY <3>2 DEF ServersOwned
    <3>9. act' = act /\ stops' = stops
      BY <2>3
    <3>. QED
      BY <3>4, <3>7, <3>8, <3>9 DEF ServersOwned
  <2>11. OpenOwned'
    <3>1. /\ [generation |-> g, lsp |-> lsp, client |-> clientId] \in binds' /\ binds \subseteq binds'
          /\ [generation |-> g, lsp |-> lsp, client |-> clientId].client = clientId
      BY <2>3
    <3>. QED
      BY <2>3, <3>1 DEF OpenOwned, Idle
  <2>. QED
    BY <2>8, <2>9, <2>10, <2>11
<1>. QED
  BY <1>1, <1>2

LEMMA RemoveWork ==
  ASSUME RInv, Remove
  PROVE  WorkInv'
<1>. USE BoundsAssumption DEF RInv, IInv, TypeOK, WorkInv
<1>1. CASE registered # 0 \/ disposed
  <2>1. UNCHANGED <<lsp, bound, requested, activation, clientId, open, kernel, disposed, work, servers>>
    BY <1>1 DEF Remove, life, work, servers
  <2>. QED
    BY <2>1, WorkFrame
<1>2. CASE ~(registered # 0 \/ disposed)
  <2>1. PICK r : r = [lsp |-> lsp, client |-> clientId, dispose |-> TRUE]
    OBVIOUS
  <2>2. r.lsp = lsp /\ r.client = clientId /\ r.dispose
    BY <2>1
  <2>3. /\ UNCHANGED <<requested, clientId, open, kernel, disposed, act, binds, bound, servedBy, stopped>>
        /\ lsp' = 0 /\ activation' = 0 /\ stops' = stops \cup {r} /\ server' = Stopping(lsp)
    BY <1>2, <2>1 DEF Remove, life
  <2>4. \A h \in Generations :
           server'[h] = IF h = lsp /\ server[h] = "running" THEN "stopping" ELSE server[h]
    BY <2>3, StoppingServers DEF SessionType
  <2>5. /\ lsp \in Nat /\ bound \in Nat /\ clientId \in 0 .. MaxClients /\ Left(lsp)
    BY RestFacts
  <2>6. \A h : Left(h)' = Left(h)
    BY <2>3 DEF Left, Pending
  <2>7. \A c \in Clients : act[c].lsp \in Nat /\ (act[c].pc # "none" => act[c].lsp # 0)
    BY DEF ClientsKnown, WorkType, Generations
  <2>8. ClientsKnown'
    <3>1. \A s \in stops' : /\ Left(s.lsp)
                            /\ s.client # 0 => act[s.client].pc # "none" /\ act[s.client].lsp # 0
      <4>1. \A s \in stops' : s.client # 0 => s.client \in Clients
        BY <2>2, <2>3, <2>5 DEF WorkType, Clients
      <4>2. \A s \in stops' : Left(s.lsp) /\ (s.client # 0 => act[s.client].pc # "none")
        BY <2>2, <2>3, <2>5 DEF ClientsKnown
      <4>. QED
        BY <2>7, <4>1, <4>2
    <3>. QED
      BY <2>3, <2>6, <3>1 DEF ClientsKnown
  <2>9. ActsAlone'
    BY <2>3, <2>4, <2>7 DEF ActsAlone, Idle, ClientsKnown, Inactive
  <2>10. ServersOwned'
    BY <2>2, <2>3, <2>4 DEF ServersOwned
  <2>11. OpenOwned'
    BY <2>2, <2>3 DEF OpenOwned, Idle
  <2>. QED
    BY <2>8, <2>9, <2>10, <2>11
<1>. QED
  BY <1>1, <1>2

\* What a release does to the session's client.
LEMMA ReleasedFacts ==
  ASSUME ClientsKnown, NEW c, Released(c), UNCHANGED <<kernel, disposed>>
  PROVE  /\ open' = open \ {c}
         /\ clientId' = clientId \/ (clientId' = 0 /\ clientId = c)
         /\ clientId' # 0 => clientId' = clientId
         /\ clientId' # 0 /\ ~disposed => kernel /\ clientId \in open /\ clientId # c
         /\ clientId # c => clientId' = clientId
  BY DEF ClientsKnown, Released

LEMMA BoundWorkLate ==
  ASSUME RInv, NEW b \in binds, Bound(b), disposed \/ bound # b.generation
  PROVE  WorkInv'
<1>. USE BoundsAssumption DEF RInv, IInv, TypeOK, WorkInv
<1>1. /\ UNCHANGED <<lsp, bound, requested, activation, act, kernel, disposed, stops, servedBy, stopped>>
      /\ binds' = binds \ {b} /\ server' = Disposed(b.lsp) /\ Released(b.client)
  BY DEF Bound, life
<1>2. /\ lsp \in Nat /\ bound \in Nat /\ (lsp # 0 => lsp = bound)
      /\ b.lsp \in 0 .. MaxGeneration /\ b.lsp \in Nat /\ b.generation \in Nat
      /\ b.generation <= bound /\ b.lsp < b.generation
  BY RestFacts DEF WorkType, QueueInv, BindsInOrder, Generations
<1>3. \A g \in Generations :
        server'[g] = IF g = b.lsp /\ server[g] \in {"running", "stopping"} THEN "stopped" ELSE server[g]
  BY <1>1, <1>2, DisposedServers
<1>4. /\ open' = open \ {b.client}
      /\ clientId' # 0 => clientId' = clientId
      /\ clientId' # 0 /\ ~disposed => kernel /\ clientId \in open /\ clientId # b.client
      /\ clientId # b.client => clientId' = clientId
  BY <1>1, ReleasedFacts
<1>5. ~disposed => Pending' = Pending
  BY <1>1 DEF Pending
<1>6. Pending' => Pending
  BY <1>1 DEF Pending
<1>7. \A g : Left(g) => Left(g)'
  BY <1>1, <1>6 DEF Left
<1>8. ClientsKnown'
  <2>1. \A c \in Clients :
            IF act[c].pc = "none" THEN c \notin open /\ act[c].lsp = 0
            ELSE act[c].lsp \in Generations /\ Left(act[c].lsp)'
    BY <1>1, <1>6 DEF ClientsKnown, Left
  <2>2. \A s \in stops : Left(s.lsp)'
    BY <1>1, <1>6 DEF ClientsKnown, Left
  <2>. QED
    BY <1>1, <1>4, <2>1, <2>2 DEF ClientsKnown
<1>9. ActsAlone'
  BY <1>1, <1>3 DEF ActsAlone, Idle, ClientsKnown, Inactive
<1>10. ServersOwned'
  <2>1. \A g \in Generations : server'[g] = "starting" => server[g] = "starting"
    BY <1>3
  <2>2. \A g \in Generations : server'[g] = "stopping" => server[g] = "stopping" /\ g # b.lsp
    BY <1>3
  <2>3. \A g \in Generations : server'[g] = "stopping" =>
             \/ \E a \in binds' : a.lsp = g
             \/ \E s \in stops : s.lsp = g
             \/ \E c \in Clients : act[c].pc = "undo" /\ act[c].lsp = g
    BY <1>1, <2>2 DEF ServersOwned
  <2>4. ASSUME NEW g \in Generations, server'[g] = "running"
        PROVE  server[g] = "running" /\ clientId' = clientId
    <3>1. server[g] = "running" /\ g = lsp /\ clientId # 0 /\ act[clientId].lsp = lsp /\ lsp # 0 /\ ~disposed
      BY <1>3, <2>4 DEF ServersOwned, Generations
    <3>2. clientId # b.client
      BY <1>2, <3>1 DEF ClientsKnown
    <3>. QED
      BY <1>4, <3>1, <3>2
  <2>. QED
    BY <1>1, <2>1, <2>3, <2>4 DEF ServersOwned
<1>11. OpenOwned'
  <2>1. SUFFICES ASSUME ~disposed, NEW c \in open' \ stopped
                 PROVE  \/ ~Idle(c)
                        \/ \E a \in binds' : a.client = c
                        \/ \E s \in stops : s.client = c
                        \/ c = clientId' /\ lsp # 0 /\ server'[lsp] = "running"
    BY <1>1 DEF OpenOwned, Idle
  <2>2. c \in open \ stopped /\ c # b.client
    BY <1>4, <2>1
  <2>3. CASE c = clientId /\ lsp # 0 /\ server[lsp] = "running"
    <3>1. lsp # b.lsp /\ lsp \in Generations
      BY <1>2, <2>3, RestFacts
    <3>. QED
      BY <1>3, <1>4, <2>2, <2>3, <3>1
  <2>. QED
    BY <1>1, <2>1, <2>2, <2>3 DEF OpenOwned
<1>. QED
  BY <1>8, <1>9, <1>10, <1>11

\* While a binding waits that is not out of date there is no LSP: none is
\* activated for what it installs.
LEMMA PendingFacts ==
  ASSUME RInv, NEW b \in binds, b.generation = bound, binds' = binds \ {b}, UNCHANGED bound
  PROVE  /\ Pending /\ ~Pending' /\ lsp = 0 /\ activation = 0
         /\ \A g \in Nat : Left(g) => g < bound
         /\ \A g \in Nat : g <= bound => Left(g)'
         /\ \A c \in Clients : act[c].pc # "none" => act[c].lsp \in Generations /\ act[c].lsp < bound
<1>. USE BoundsAssumption DEF RInv, IInv, TypeOK, WorkInv
<1>1. Pending
  BY DEF Pending
<1>2. ~Pending'
  BY DEF Pending, QueueInv, BindsInOrder
<1>3. lsp = 0 /\ activation = 0 /\ bound \in Nat
  BY <1>1, RestFacts
<1>. QED
  BY <1>1, <1>2, <1>3 DEF Left, ClientsKnown, Generations

\* The LSP is there, and is not activated.
LEMMA InstalledWork ==
  ASSUME RInv, NEW b \in binds, Bound(b), ~disposed, bound = b.generation,
         Released(b.client), UNCHANGED <<activation, act>>
  PROVE  WorkInv'
<1>. USE BoundsAssumption DEF RInv, IInv, TypeOK, WorkInv
<1>1. /\ UNCHANGED <<bound, requested, activation, act, kernel, disposed, stops, servedBy, stopped>>
      /\ binds' = binds \ {b} /\ server' = [Disposed(b.lsp) EXCEPT ![bound] = "new"] /\ lsp' = bound
  BY DEF Bound, life
<1>2. /\ bound \in Nat /\ bound \in Generations /\ b.lsp \in 0 .. MaxGeneration
  BY RestFacts DEF WorkType
<1>3. \A g \in Generations :
        server'[g] = IF g = bound THEN "new"
                     ELSE IF g = b.lsp /\ server[g] \in {"running", "stopping"} THEN "stopped" ELSE server[g]
  BY <1>1, <1>2, DisposedServers
<1>4. /\ open' = open \ {b.client}
      /\ clientId' # 0 => clientId' = clientId
      /\ clientId' # 0 /\ ~disposed => kernel /\ clientId \in open /\ clientId # b.client
      /\ clientId # b.client => clientId' = clientId
  BY <1>1, ReleasedFacts
<1>5. /\ Pending /\ ~Pending' /\ lsp = 0 /\ activation = 0
      /\ \A g \in Nat : Left(g) => g < bound
      /\ \A c \in Clients : act[c].pc # "none" => act[c].lsp \in Generations /\ act[c].lsp < bound
  BY <1>1, PendingFacts
<1>6. \A c \in Clients : act[c].pc # "none" => act[c].lsp # bound
  BY <1>2, <1>5 DEF Generations
<1>8. ClientsKnown'
  <2>1. \A c \in Clients :
            IF act[c].pc = "none" THEN c \notin open /\ act[c].lsp = 0
            ELSE act[c].lsp \in Generations /\ Left(act[c].lsp)'
    BY <1>1, <1>5 DEF ClientsKnown, Left
  <2>2. \A s \in stops : s.lsp \in Nat /\ (s.client # 0 => s.client \in Clients)
    BY DEF WorkType, Clients
  <2>3. \A s \in stops : Left(s.lsp)' /\ s.lsp # bound /\ (s.client # 0 => act[s.client].lsp # bound)
    BY <1>1, <1>2, <1>5, <1>6, <2>2 DEF ClientsKnown, Left
  <2>. QED
    BY <1>1, <1>4, <2>1, <2>3 DEF ClientsKnown
<1>9. ActsAlone'
  <2>1. \A c \in Clients : ~Idle(c) => act[c].lsp \in Generations /\ act[c].lsp # bound
    BY <1>5, <1>6 DEF Idle
  <2>2. \A c \in Clients : ~Idle(c) =>
          /\ server[act[c].lsp] = "starting" => server'[act[c].lsp] = "starting"
          /\ server[act[c].lsp] \in {"stopping", "stopped"} => server'[act[c].lsp] \in {"stopping", "stopped"}
    BY <1>3, <2>1
  <2>. QED
    BY <1>1, <1>5, <2>1, <2>2 DEF ActsAlone, Idle
<1>10. ServersOwned'
  <2>1. \A g \in Generations : server'[g] = "starting" => server[g] = "starting"
    BY <1>3
  <2>2. \A g \in Generations : server'[g] = "stopping" => server[g] = "stopping" /\ g # b.lsp
    BY <1>3
  <2>3. \A g \in Generations : server'[g] = "stopping" =>
             \/ \E a \in binds' : a.lsp = g
             \/ \E s \in stops : s.lsp = g
             \/ \E c \in Clients : act[c].pc = "undo" /\ act[c].lsp = g
    BY <1>1, <2>2 DEF ServersOwned
  <2>4. \A g \in Generations : server'[g] # "running"
    BY <1>3, <1>5 DEF ServersOwned, Generations
  <2>. QED
    BY <1>1, <2>1, <2>3, <2>4 DEF ServersOwned
<1>11. OpenOwned'
  BY <1>1, <1>4, <1>5 DEF OpenOwned, Idle
<1>. QED
  BY <1>8, <1>9, <1>10, <1>11

LEMMA InstalledStartsWork ==
  ASSUME RInv, NEW b \in binds, Bound(b), ~disposed, bound = b.generation, kernel,
         NEW c, Starts(c, b.generation), open' = (open \ {b.client}) \cup {c}
  PROVE  WorkInv'
<1>. USE BoundsAssumption DEF RInv, IInv, TypeOK, WorkInv
<1>1. /\ UNCHANGED <<bound, requested, kernel, disposed, stops, servedBy, stopped>>
      /\ binds' = binds \ {b} /\ server' = [Disposed(b.lsp) EXCEPT ![bound] = "new"] /\ lsp' = bound
  BY DEF Bound, life
<1>2. /\ bound \in Nat /\ bound \in Generations /\ b.lsp \in 0 .. MaxGeneration
  BY RestFacts DEF WorkType
<1>3. \A g \in Generations :
        server'[g] = IF g = bound THEN "new"
                     ELSE IF g = b.lsp /\ server[g] \in {"running", "stopping"} THEN "stopped" ELSE server[g]
  BY <1>1, <1>2, DisposedServers
<1>4. /\ c \in Clients /\ act[c].pc = "none" /\ activation' = c /\ clientId' = c /\ c # 0
      /\ act'[c].pc = "port" /\ act'[c].lsp = bound
      /\ \A d \in Clients \ {c} : act'[d] = act[d]
  <2>1. c \in Clients /\ act[c].pc = "none" /\ act' = [act EXCEPT ![c] = [pc |-> "port", lsp |-> bound]]
    BY DEF Starts, Fresh
  <2>. QED
    BY <2>1 DEF Starts, WorkType, Clients
<1>5. /\ Pending /\ ~Pending' /\ lsp = 0 /\ activation = 0
      /\ \A g \in Nat : Left(g) => g < bound
      /\ \A d \in Clients : act[d].pc # "none" => act[d].lsp \in Generations /\ act[d].lsp < bound
  BY <1>1, PendingFacts
<1>6. \A d \in Clients : act[d].pc # "none" => act[d].lsp # bound /\ d # c
  BY <1>2, <1>4, <1>5 DEF Generations
<1>8. ClientsKnown'
  <2>1. \A d \in Clients :
            IF act'[d].pc = "none" THEN d \notin open' /\ act'[d].lsp = 0
            ELSE act'[d].lsp \in Generations /\ act'[d].lsp <= bound
    BY <1>1, <1>2, <1>4, <1>5 DEF ClientsKnown, Generations
  <2>2. \A s \in stops : s.lsp \in Nat /\ (s.client # 0 => s.client \in Clients)
    BY DEF WorkType, Clients
  <2>3. \A s \in stops : /\ s.lsp <= bound /\ s.lsp # bound
                         /\ s.client # 0 =>
                              act'[s.client].lsp # bound /\ act'[s.client].pc # "none"
    BY <1>1, <1>2, <1>4, <1>5, <1>6, <2>2 DEF ClientsKnown, Left
  <2>4. \A a \in binds : a.client # 0 =>
          a.client \in Clients /\ act'[a.client].pc # "none" /\ act'[a.client].lsp < a.generation
    <3>1. \A a \in binds : a.client # 0 =>
            a.client \in Clients /\ act[a.client].pc # "none" /\ act[a.client].lsp < a.generation
      BY DEF ClientsKnown, WorkType, Clients
    <3>2. \A d \in Clients : act[d].pc # "none" => act'[d] = act[d]
      BY <1>4
    <3>. QED
      BY <3>1, <3>2
  <2>. QED
    BY <1>1, <1>4, <1>5, <2>1, <2>3, <2>4 DEF ClientsKnown, Left
<1>9. ActsAlone'
  <2>1. \A d \in Clients \ {c} : ~Idle(d) => act[d].lsp \in Generations /\ act[d].lsp # bound
    BY <1>5, <1>6 DEF Idle
  <2>2. \A d \in Clients \ {c} : ~Idle(d) =>
          /\ server[act[d].lsp] = "starting" => server'[act[d].lsp] = "starting"
          /\ server[act[d].lsp] \in {"stopping", "stopped"} => server'[act[d].lsp] \in {"stopping", "stopped"}
    BY <1>3, <2>1
  <2>3. \A d \in Clients \ {c} : Idle(d)' = Idle(d)
    BY <1>4 DEF Idle
  <2>4. server'[bound] = "new"
    BY <1>2, <1>3
  <2>. QED
    BY <1>1, <1>4, <1>5, <2>1, <2>2, <2>3, <2>4 DEF ActsAlone, Idle, Inactive
<1>10. ServersOwned'
  <2>1. \A g \in Generations : server'[g] = "starting" => server[g] = "starting"
    BY <1>3
  <2>2. \A g \in Generations : server'[g] = "stopping" => server[g] = "stopping" /\ g # b.lsp
    BY <1>3
  <2>3. \A g \in Generations : server'[g] = "stopping" =>
             \/ \E a \in binds' : a.lsp = g
             \/ \E s \in stops : s.lsp = g
             \/ \E d \in Clients : act'[d].pc = "undo" /\ act'[d].lsp = g
    BY <1>1, <1>4, <2>2 DEF ServersOwned
  <2>4. \A g \in Generations : server'[g] # "running"
    BY <1>3, <1>5 DEF ServersOwned, Generations
  <2>5. \A g \in Generations : server'[g] = "starting" =>
             \E d \in Clients : act'[d].pc = "activate" /\ act'[d].lsp = g
    BY <1>4, <2>1 DEF ServersOwned
  <2>. QED
    BY <1>1, <2>5, <2>3, <2>4 DEF ServersOwned
<1>11. OpenOwned'
  <2>1. SUFFICES ASSUME NEW d \in open' \ stopped, d # c
                 PROVE  \/ ~Idle(d)'
                        \/ \E a \in binds' : a.client = d
                        \/ \E s \in stops : s.client = d
    BY <1>1, <1>4 DEF OpenOwned, Idle
  <2>2. d \in open \ stopped /\ d # b.client /\ d \in Clients
    BY <2>1 DEF SessionType
  <2>3. Idle(d)' = Idle(d)
    BY <1>4, <2>1, <2>2 DEF Idle
  <2>. QED
    BY <1>1, <1>5, <2>2, <2>3 DEF OpenOwned
<1>. QED
  BY <1>8, <1>9, <1>10, <1>11

LEMMA BoundWork ==
  ASSUME RInv, NEW b \in binds, Bound(b)
  PROVE  WorkInv'
<1>1. CASE disposed \/ bound # b.generation
  BY <1>1, BoundWorkLate
<1>2. CASE ~(disposed \/ bound # b.generation)
  <2>1. \/ Released(b.client) /\ UNCHANGED <<activation, act>>
        \/ kernel /\ \E c \in Fresh : Starts(c, b.generation) /\ open' = (open \ {b.client}) \cup {c}
    BY <1>2 DEF Bound, CanStart
  <2>. QED
    BY <1>2, <2>1, InstalledWork, InstalledStartsWork
<1>. QED
  BY <1>1, <1>2

LEMMA ActivateLspWork ==
  ASSUME RInv, ActivateLsp
  PROVE  WorkInv'
<1>. USE BoundsAssumption DEF RInv, IInv, TypeOK, WorkInv
<1>1. /\ UNCHANGED <<lsp, bound, kernel, disposed, binds, stops, server, servedBy, stopped>> /\ requested'
      /\ Pending' = Pending
  BY DEF ActivateLsp, life, servers, Pending
<1>2. CASE UNCHANGED <<activation, clientId, open, act>>
  BY <1>1, <1>2 DEF ClientsKnown, Left, ActsAlone, Idle, Inactive, ServersOwned, OpenOwned
<1>3. CASE activation = 0 /\ CanStart(lsp, server) /\ \E c \in Fresh : Starts(c, lsp) /\ open' = open \cup {c}
  <2>1. PICK c \in Fresh : Starts(c, lsp) /\ open' = open \cup {c}
    BY <1>3
  <2>2. /\ lsp \in Generations /\ server[lsp] \in {"new", "stopped"} /\ kernel /\ Left(lsp)
        /\ \A d \in Clients : ~Idle(d) => act[d].lsp # lsp
    BY <1>3, RestFacts DEF CanStart
  <2>3. /\ c \in Clients /\ act[c].pc = "none" /\ activation' = c /\ clientId' = c /\ c # 0
        /\ act'[c].pc = "port" /\ act'[c].lsp = lsp
        /\ \A d \in Clients \ {c} : act'[d] = act[d]
    <3>1. c \in Clients /\ act[c].pc = "none" /\ act' = [act EXCEPT ![c] = [pc |-> "port", lsp |-> lsp]]
      BY <2>1 DEF Starts, Fresh
    <3>. QED
      BY <2>1, <3>1 DEF Starts, WorkType, Clients
  <2>4. \A d \in Clients : act[d].pc # "none" => d # c /\ act'[d] = act[d]
    BY <2>3
  <2>5. ClientsKnown'
    <3>1. \A d \in Clients :
            IF act'[d].pc = "none" THEN d \notin open' /\ act'[d].lsp = 0
            ELSE act'[d].lsp \in Generations /\ Left(act'[d].lsp)
      BY <2>1, <2>2, <2>3 DEF ClientsKnown
    <3>2. \A d \in Clients : act'[d].pc # "none" => Left(act[d].lsp)'
      BY <1>1, <2>3, <3>1 DEF Left
    <3>3. \A s \in stops : /\ Left(s.lsp)' /\ (s.dispose => s.lsp = 0 \/ s.lsp # lsp)
                           /\ s.client # 0 =>
                                /\ act'[s.client].pc # "none"
                                /\ s.dispose \/ act'[s.client].pc \in {"port", "activate"}
                                     => act'[s.client].lsp # lsp
      <4>1. \A s \in stops : s.client # 0 => s.client \in Clients
        BY DEF WorkType, Clients
      <4>. QED
        BY <1>1, <2>4, <4>1 DEF ClientsKnown, Left
    <3>4. \A b \in binds : b.client # 0 => act'[b.client].pc # "none" /\ act'[b.client].lsp < b.generation
      <4>1. \A b \in binds : b.client # 0 => b.client \in Clients
        BY DEF WorkType, Clients
      <4>. QED
        BY <2>4, <4>1 DEF ClientsKnown
    <3>. QED
      BY <1>1, <2>1, <2>2, <2>3, <3>1, <3>2, <3>3, <3>4 DEF ClientsKnown
  <2>6. ActsAlone'
    <3>1. \A d \in Clients \ {c} : Idle(d)' = Idle(d)
      BY <2>3 DEF Idle
    <3>. QED
      BY <1>1, <2>2, <2>3, <3>1 DEF ActsAlone, Inactive
  <2>7. ServersOwned'
    <3>1. \A g \in Generations : server[g] # "running"
      BY <2>2 DEF ServersOwned
    <3>2. \A g \in Generations : server[g] = "starting" =>
             \E d \in Clients : act'[d].pc = "activate" /\ act'[d].lsp = g
      BY <2>4 DEF ServersOwned
    <3>3. \A g \in Generations : server[g] = "stopping" =>
             \/ \E a \in binds : a.lsp = g
             \/ \E s \in stops : s.lsp = g
             \/ \E d \in Clients : act'[d].pc = "undo" /\ act'[d].lsp = g
      BY <2>4 DEF ServersOwned
    <3>. QED
      BY <1>1, <3>1, <3>2, <3>3 DEF ServersOwned
  <2>8. OpenOwned'
    <3>1. ~Idle(c)' /\ \A d \in Clients \ {c} : Idle(d)' = Idle(d)
      BY <2>3 DEF Idle
    <3>. QED
      BY <1>1, <2>1, <2>2, <3>1 DEF OpenOwned, SessionType
  <2>. QED
    BY <2>5, <2>6, <2>7, <2>8
<1>. QED
  BY <1>2, <1>3 DEF ActivateLsp, Joins

\* An activation ends with nothing: its LSP, if it was given a port, is stopped.
LEMMA GivesUpWork ==
  ASSUME RInv, NEW c \in Clients, ~Idle(c), Released(c), Ended(c),
         UNCHANGED <<lsp, bound, requested, life, binds, stops, servedBy, stopped>>,
         IF act[c].pc = "activate" THEN server' = [server EXCEPT ![act[c].lsp] = "stopped"] ELSE server' = server,
         act[c].pc = "undo" => server[act[c].lsp] # "stopping"
  PROVE  WorkInv'
<1>. USE BoundsAssumption DEF RInv, IInv, TypeOK, WorkInv
<1>1. UNCHANGED <<kernel, disposed>> /\ Pending' = Pending
  BY DEF life, Pending
<1>2. /\ \A d \in Clients : act'[d].lsp = act[d].lsp /\ act'[d].pc = IF d = c THEN "done" ELSE act[d].pc
      /\ activation' = IF activation = c THEN 0 ELSE activation
  BY EndedTyped DEF Ended
<1>3. /\ open' = open \ {c}
      /\ clientId' # 0 => clientId' = clientId
      /\ clientId' # 0 /\ ~disposed => kernel /\ clientId \in open /\ clientId # c
      /\ clientId # c => clientId' = clientId
  BY <1>1, ReleasedFacts
<1>4. /\ act[c].lsp \in Generations /\ act[c].pc \in {"port", "activate", "undo"}
      /\ \A g \in Generations :
           server'[g] = IF g = act[c].lsp /\ act[c].pc = "activate" THEN "stopped" ELSE server[g]
      /\ act[c].pc = "activate" => server[act[c].lsp] = "starting"
      /\ \A d \in Clients \ {c} : ~Idle(d) => act[d].lsp # act[c].lsp
  BY DEF ClientsKnown, ActsAlone, Idle, WorkType, ServerType
<1>5. ClientsKnown'
  <2>1. \A d \in Clients :
            IF act'[d].pc = "none" THEN d \notin open' /\ act'[d].lsp = 0
            ELSE act'[d].lsp \in Generations /\ Left(act[d].lsp)'
    BY <1>1, <1>2, <1>3, <1>4 DEF ClientsKnown, Left
  <2>2. \A s \in stops : /\ Left(s.lsp)' /\ (s.dispose => s.lsp = 0 \/ s.lsp # lsp)
                         /\ s.client # 0 =>
                              /\ act'[s.client].pc # "none"
                              /\ s.dispose \/ act'[s.client].pc \in {"port", "activate"}
                                   => act'[s.client].lsp # lsp
    <3>1. \A s \in stops : s.client # 0 => s.client \in Clients
      BY DEF WorkType, Clients
    <3>. QED
      BY <1>1, <1>2, <3>1 DEF ClientsKnown, Left
  <2>3. \A b \in binds : b.client # 0 => act'[b.client].pc # "none" /\ act'[b.client].lsp < b.generation
    <3>1. \A b \in binds : b.client # 0 => b.client \in Clients
      BY DEF WorkType, Clients
    <3>. QED
      BY <1>2, <3>1 DEF ClientsKnown
  <2>4. clientId' # 0 => clientId' \in Clients /\ act'[clientId'].pc # "none"
    <3>1. clientId # 0 => clientId \in Clients
      BY DEF SessionType, Clients
    <3>. QED
      BY <1>2, <1>3, <3>1 DEF ClientsKnown
  <2>. QED
    BY <1>1, <1>2, <1>3, <2>1, <2>2, <2>3, <2>4 DEF ClientsKnown, Left
<1>6. ActsAlone'
  <2>1. Idle(c)' /\ \A d \in Clients \ {c} : Idle(d)' = Idle(d)
    BY <1>2 DEF Idle
  <2>2. \A d \in Clients \ {c} : ~Idle(d) => server'[act[d].lsp] = server[act[d].lsp]
    BY <1>4 DEF ClientsKnown, Idle
  <2>3. activation' # 0 => activation' = activation /\ activation \in Clients
    BY <1>2 DEF SessionType, Clients
  <2>4. \A d \in Clients : act'[d].pc \in {"port", "activate", "undo"} => d # c /\ act'[d].pc = act[d].pc /\ ~Idle(d)
    BY <1>2 DEF Idle
  <2>5. \A d \in Clients :
       /\ act'[d].pc = "port" /\ act'[d].lsp = lsp => server'[lsp] \in {"new", "stopped"}
       /\ act'[d].pc = "activate" => server'[act'[d].lsp] = "starting" /\ servedBy[act'[d].lsp] = d
       /\ act'[d].pc = "undo" => server'[act'[d].lsp] \in {"stopping", "stopped"}
    BY <1>2, <2>2, <2>4 DEF ActsAlone, Inactive
  <2>6. /\ activation' # 0 => act'[activation'].lsp = lsp
        /\ \A d \in Clients : ~Idle(d)' /\ act'[d].lsp = lsp => activation' = d
        /\ \A d, e \in Clients : ~Idle(d)' /\ ~Idle(e)' /\ act'[d].lsp = act'[e].lsp => d = e
    BY <1>2, <2>1, <2>3 DEF ActsAlone
  <2>. QED
    BY <2>5, <2>6 DEF ActsAlone, Inactive
<1>7. ServersOwned'
  <2>1. ASSUME NEW g \in Generations, server'[g] = "starting"
        PROVE  \E d \in Clients : act'[d].pc = "activate" /\ act'[d].lsp = g
    <3>1. server[g] = "starting" /\ ~(g = act[c].lsp /\ act[c].pc = "activate")
      BY <1>4, <2>1
    <3>2. PICK d \in Clients : act[d].pc = "activate" /\ act[d].lsp = g
      BY <3>1 DEF ServersOwned
    <3>3. d # c
      BY <3>1, <3>2
    <3>. QED
      BY <1>2, <3>2, <3>3
  <2>2. ASSUME NEW g \in Generations, server'[g] = "stopping"
        PROVE  \/ \E a \in binds : a.lsp = g
               \/ \E s \in stops : s.lsp = g
               \/ \E d \in Clients : act'[d].pc = "undo" /\ act'[d].lsp = g
    <3>1. server[g] = "stopping" /\ (act[c].pc = "undo" => act[c].lsp # g)
      BY <1>4, <2>2
    <3>2. SUFFICES ASSUME NEW d \in Clients, act[d].pc = "undo", act[d].lsp = g
                   PROVE  act'[d].pc = "undo" /\ act'[d].lsp = g
      BY <3>1, <3>2 DEF ServersOwned
    <3>. QED
      BY <1>2, <3>1, <3>2
  <2>3. ASSUME NEW g \in Generations, server'[g] = "running"
        PROVE  /\ server[g] = "running" /\ clientId' = clientId
               /\ act'[clientId] = act'[clientId] /\ act'[clientId].pc = "done" /\ act'[clientId].lsp = lsp
    <3>1. server[g] = "running"
      BY <1>4, <2>3
    <3>2. clientId # 0 /\ act[clientId].pc = "done" /\ act[clientId].lsp = lsp /\ clientId \in Clients
      BY <3>1 DEF ServersOwned, SessionType, Clients
    <3>3. clientId # c
      BY <1>4, <3>2
    <3>. QED
      BY <1>2, <1>3, <3>1, <3>2, <3>3
  <2>. QED
    BY <1>1, <2>1, <2>2, <2>3 DEF ServersOwned
<1>8. OpenOwned'
  <2>1. SUFFICES ASSUME ~disposed, NEW d \in open' \ stopped
                 PROVE  \/ ~Idle(d)'
                        \/ \E b \in binds : b.client = d
                        \/ \E s \in stops : s.client = d
                        \/ d = clientId' /\ lsp # 0 /\ server'[lsp] = "running"
    BY <1>1 DEF OpenOwned
  <2>2. d \in open \ stopped /\ d # c /\ d \in Clients
    BY <1>3, <2>1 DEF SessionType
  <2>3. Idle(d)' = Idle(d)
    BY <1>2, <2>2 DEF Idle
  <2>4. CASE d = clientId /\ lsp # 0 /\ server[lsp] = "running"
    <3>1. server'[lsp] = "running"
      BY <1>4, <2>4, RestFacts
    <3>. QED
      BY <1>3, <2>2, <2>4, <3>1
  <2>. QED
    BY <2>1, <2>2, <2>3, <2>4 DEF OpenOwned
<1>. QED
  BY <1>5, <1>6, <1>7, <1>8

LEMMA PortArrivesWork ==
  ASSUME RInv, NEW c \in Clients, PortArrives(c)
  PROVE  WorkInv'
<1>. USE BoundsAssumption DEF RInv, IInv, TypeOK, WorkInv
<1>0. UNCHANGED <<lsp, bound, requested, life, kernel, disposed, binds, stops, stopped>> /\ Pending' = Pending
      /\ act[c].pc = "port"
  BY DEF PortArrives, life, Pending
<1>1. CASE ~IsCurrent(c)
  <2>1. ~Idle(c) /\ Released(c) /\ Ended(c) /\ server' = server /\ servedBy' = servedBy
    BY <1>0, <1>1 DEF PortArrives, Idle
  <2>. QED
    BY <1>0, <2>1, GivesUpWork
<1>2. CASE IsCurrent(c)
  <2>1. /\ clientId = c /\ act[c].lsp = lsp /\ lsp \in Generations
        /\ UNCHANGED <<activation, clientId, open>>
        /\ server' = [server EXCEPT ![lsp] = "starting"] /\ servedBy' = [servedBy EXCEPT ![lsp] = c]
        /\ act' = [act EXCEPT ![c].pc = "activate"]
    BY <1>0, <1>2 DEF IsCurrent, PortArrives, ClientsKnown
  <2>2. /\ \A d \in Clients : act'[d].lsp = act[d].lsp /\ act'[d].pc = IF d = c THEN "activate" ELSE act[d].pc
        /\ \A g \in Generations : server'[g] = IF g = lsp THEN "starting" ELSE server[g]
        /\ \A g \in Generations : servedBy'[g] = IF g = lsp THEN c ELSE servedBy[g]
    BY <2>1, PhaseTyped DEF ServerType
  <2>3. /\ server[lsp] \in {"new", "stopped"} /\ ~Idle(c)
        /\ \A d \in Clients \ {c} : ~Idle(d) => act[d].lsp # lsp
        /\ \A s \in stops : s.client # c
    BY <1>0, <2>1 DEF ActsAlone, Idle, Inactive, ClientsKnown, Clients
  <2>4. \A d \in Clients : Idle(d)' = Idle(d)
    BY <1>0, <2>2 DEF Idle
  <2>5. ClientsKnown'
    <3>1. \A d \in Clients :
            IF act'[d].pc = "none" THEN d \notin open /\ act'[d].lsp = 0
            ELSE act'[d].lsp \in Generations /\ Left(act[d].lsp)'
      BY <1>0, <2>2 DEF ClientsKnown, Left
    <3>2. \A s \in stops : /\ Left(s.lsp)' /\ (s.dispose => s.lsp = 0 \/ s.lsp # lsp)
                           /\ s.client # 0 =>
                                /\ act'[s.client].pc # "none"
                                /\ s.dispose \/ act'[s.client].pc \in {"port", "activate"}
                                     => act'[s.client].lsp # lsp
      <4>1. \A s \in stops : s.client # 0 => s.client \in Clients
        BY DEF WorkType, Clients
      <4>. QED
        BY <1>0, <2>2, <2>3, <4>1 DEF ClientsKnown, Left
    <3>3. \A b \in binds : b.client # 0 => act'[b.client].pc # "none" /\ act'[b.client].lsp < b.generation
      <4>1. \A b \in binds : b.client # 0 => b.client \in Clients
        BY DEF WorkType, Clients
      <4>. QED
        BY <1>0, <2>2, <4>1 DEF ClientsKnown
    <3>. QED
      BY <1>0, <2>1, <2>2, <3>1, <3>2, <3>3 DEF ClientsKnown, Left
  <2>6. ActsAlone'
    <3>1. \A d \in Clients \ {c} : ~Idle(d) =>
            server'[act[d].lsp] = server[act[d].lsp] /\ servedBy'[act[d].lsp] = servedBy[act[d].lsp]
      BY <2>2, <2>3 DEF ClientsKnown, Idle
    <3>2. \A d \in Clients \ {c} :
       /\ act[d].pc = "port" => act[d].lsp # lsp
       /\ act[d].pc = "activate" => server'[act[d].lsp] = "starting" /\ servedBy'[act[d].lsp] = d
       /\ act[d].pc = "undo" => server'[act[d].lsp] \in {"stopping", "stopped"}
      BY <2>3, <3>1 DEF ActsAlone, Idle
    <3>3. server'[lsp] = "starting" /\ servedBy'[lsp] = c
      BY <2>1, <2>2
    <3>4. activation # 0 => activation \in Clients
      BY DEF SessionType, Clients
    <3>. QED
      BY <1>0, <2>1, <2>2, <2>4, <3>2, <3>3, <3>4 DEF ActsAlone, Inactive
  <2>7. ServersOwned'
    <3>1. \A g \in Generations : server'[g] # "running"
      BY <2>2, <2>3 DEF ServersOwned
    <3>2. \A g \in Generations : server'[g] = "starting" =>
             \E d \in Clients : act'[d].pc = "activate" /\ act'[d].lsp = g
      <4>1. \A g \in Generations : server'[g] = "starting" => g = lsp \/ server[g] = "starting"
        BY <2>2
      <4>2. act'[c].pc = "activate" /\ act'[c].lsp = lsp
        BY <2>1, <2>2
      <4>3. \A d \in Clients : act[d].pc = "activate" => act'[d].pc = "activate" /\ act'[d].lsp = act[d].lsp
        BY <2>2
      <4>. QED
        BY <4>1, <4>2, <4>3 DEF ServersOwned
    <3>3. \A g \in Generations : server'[g] = "stopping" =>
             \/ \E a \in binds : a.lsp = g
             \/ \E s \in stops : s.lsp = g
             \/ \E d \in Clients : act'[d].pc = "undo" /\ act'[d].lsp = g
      BY <1>0, <2>2 DEF ServersOwned
    <3>. QED
      BY <1>0, <3>1, <3>2, <3>3 DEF ServersOwned
  <2>8. OpenOwned'
    <3>1. \A d \in open \ stopped : d = clientId => ~Idle(d)
      BY <2>1, <2>3
    <3>. QED
      BY <1>0, <2>1, <2>4, <3>1 DEF OpenOwned, SessionType
  <2>. QED
    BY <2>5, <2>6, <2>7, <2>8
<1>. QED
  BY <1>1, <1>2

LEMMA ActivatedWork ==
  ASSUME RInv, NEW c \in Clients, Activated(c)
  PROVE  WorkInv'
<1>. USE BoundsAssumption DEF RInv, IInv, TypeOK, WorkInv
<1>0. /\ UNCHANGED <<lsp, bound, requested, clientId, open, kernel, disposed, binds, stops, servedBy, stopped>>
      /\ Pending' = Pending /\ act[c].pc = "activate"
  BY DEF Activated, life, Pending
<1>1. /\ server[act[c].lsp] = "starting" /\ servedBy[act[c].lsp] = c /\ act[c].lsp \in Generations /\ ~Idle(c)
      /\ \A d \in Clients \ {c} : ~Idle(d) => act[d].lsp # act[c].lsp
  BY <1>0 DEF ActsAlone, Idle, ClientsKnown
<1>2. \/ /\ IsCurrent(c) /\ server' = [server EXCEPT ![act[c].lsp] = "running"]
         /\ act' = [act EXCEPT ![c].pc = "done"]
         /\ activation' = IF activation = c THEN 0 ELSE activation
      \/ /\ server' = [server EXCEPT ![act[c].lsp] = "stopping"] /\ activation' = activation
         /\ act' = [act EXCEPT ![c].pc = "undo"]
  BY DEF Activated, Ended
<1>3. PICK pc \in {"done", "undo"} :
        /\ act' = [act EXCEPT ![c].pc = pc]
        /\ server' = [server EXCEPT ![act[c].lsp] = IF pc = "done" THEN "running" ELSE "stopping"]
        /\ activation' = IF pc = "done" /\ activation = c THEN 0 ELSE activation
        /\ pc = "done" => IsCurrent(c)
  BY <1>2
<1>4. /\ \A d \in Clients : act'[d].lsp = act[d].lsp /\ act'[d].pc = IF d = c THEN pc ELSE act[d].pc
      /\ \A g \in Generations :
           server'[g] = IF g = act[c].lsp THEN (IF pc = "done" THEN "running" ELSE "stopping") ELSE server[g]
  <2>1. \A d \in Clients : act'[d].lsp = act[d].lsp /\ act'[d].pc = IF d = c THEN pc ELSE act[d].pc
    BY <1>3 DEF WorkType
  <2>2. \A g \in Generations :
           server'[g] = IF g = act[c].lsp THEN (IF pc = "done" THEN "running" ELSE "stopping") ELSE server[g]
    BY <1>1, <1>3 DEF ServerType
  <2>. QED
    BY <2>1, <2>2
<1>5. pc = "done" =>
        /\ ~disposed /\ requested /\ act[c].lsp = lsp /\ clientId = c /\ c # 0
        /\ \A s \in stops : s.client # c
  BY <1>0, <1>3 DEF IsCurrent, ClientsKnown, Clients
<1>6. Idle(c)' = (pc = "done") /\ \A d \in Clients \ {c} : Idle(d)' = Idle(d)
  BY <1>3, <1>4 DEF Idle
<1>7. ClientsKnown'
  <2>1. \A d \in Clients :
            IF act'[d].pc = "none" THEN d \notin open /\ act'[d].lsp = 0
            ELSE act'[d].lsp \in Generations /\ Left(act[d].lsp)'
    BY <1>0, <1>3, <1>4 DEF ClientsKnown, Left
  <2>2. \A s \in stops : /\ Left(s.lsp)' /\ (s.dispose => s.lsp = 0 \/ s.lsp # lsp)
                         /\ s.client # 0 =>
                              /\ act'[s.client].pc # "none"
                              /\ s.dispose \/ act'[s.client].pc \in {"port", "activate"}
                                   => act'[s.client].lsp # lsp
    <3>1. \A s \in stops : s.client # 0 => s.client \in Clients
      BY DEF WorkType, Clients
    <3>. QED
      BY <1>0, <1>3, <1>4, <3>1 DEF ClientsKnown, Left
  <2>3. \A b \in binds : b.client # 0 => act'[b.client].pc # "none" /\ act'[b.client].lsp < b.generation
    <3>1. \A b \in binds : b.client # 0 => b.client \in Clients
      BY DEF WorkType, Clients
    <3>. QED
      BY <1>3, <1>4, <3>1 DEF ClientsKnown
  <2>4. clientId # 0 => act'[clientId].pc # "none"
    <3>1. clientId # 0 => clientId \in Clients
      BY DEF SessionType, Clients
    <3>. QED
      BY <1>3, <1>4, <3>1 DEF ClientsKnown
  <2>. QED
    BY <1>0, <2>1, <2>2, <2>3, <2>4 DEF ClientsKnown, Left
<1>8. ActsAlone'
  <2>1. \A d \in Clients \ {c} : ~Idle(d) => server'[act[d].lsp] = server[act[d].lsp]
    BY <1>1, <1>4 DEF ClientsKnown, Idle
  <2>2. \A d \in Clients \ {c} : act'[d].pc = act[d].pc /\ act'[d].lsp = act[d].lsp
    BY <1>4
  <2>3. \A d \in Clients \ {c} :
       /\ act'[d].pc = "port" /\ act'[d].lsp = lsp => server'[lsp] \in {"new", "stopped"}
       /\ act'[d].pc = "activate" => server'[act'[d].lsp] = "starting" /\ servedBy[act'[d].lsp] = d
       /\ act'[d].pc = "undo" => server'[act'[d].lsp] \in {"stopping", "stopped"}
    BY <2>1, <2>2 DEF ActsAlone, Inactive, Idle
  <2>4. /\ act'[c].pc \in {"done", "undo"} /\ act'[c].lsp = act[c].lsp
        /\ act'[c].pc = "undo" => server'[act[c].lsp] = "stopping"
    BY <1>1, <1>3, <1>4
  <2>5. \A d \in Clients :
       /\ act'[d].pc = "port" /\ act'[d].lsp = lsp => server'[lsp] \in {"new", "stopped"}
       /\ act'[d].pc = "activate" => server'[act'[d].lsp] = "starting" /\ servedBy[act'[d].lsp] = d
       /\ act'[d].pc = "undo" => server'[act'[d].lsp] \in {"stopping", "stopped"}
    BY <2>3, <2>4
  <2>6. activation' # 0 => activation' = activation /\ activation \in Clients
    BY <1>3 DEF SessionType, Clients
  <2>7. \A d \in Clients : ~Idle(d)' => ~Idle(d)
    BY <1>1, <1>6
  <2>8. activation' # 0 => act'[activation'].lsp = lsp
    BY <1>4, <2>6 DEF ActsAlone
  <2>9. \A d \in Clients : ~Idle(d)' /\ act'[d].lsp = lsp => activation' = d
    BY <1>3, <1>4, <1>6, <2>7 DEF ActsAlone
  <2>10. \A d, e \in Clients : ~Idle(d)' /\ ~Idle(e)' /\ act'[d].lsp = act'[e].lsp => d = e
    BY <1>4, <2>7 DEF ActsAlone
  <2>. QED
    BY <1>0, <2>5, <2>8, <2>9, <2>10 DEF ActsAlone, Inactive
<1>9. ServersOwned'
  <2>1. ASSUME NEW g \in Generations, server'[g] = "starting"
        PROVE  \E d \in Clients : act'[d].pc = "activate" /\ act'[d].lsp = g
    <3>1. server[g] = "starting" /\ g # act[c].lsp
      BY <1>3, <1>4, <2>1
    <3>2. PICK d \in Clients : act[d].pc = "activate" /\ act[d].lsp = g
      BY <3>1 DEF ServersOwned
    <3>3. d # c
      BY <3>1, <3>2
    <3>. QED
      BY <1>4, <3>2, <3>3
  <2>2. ASSUME NEW g \in Generations, server'[g] = "stopping"
        PROVE  \/ \E a \in binds : a.lsp = g
               \/ \E s \in stops : s.lsp = g
               \/ \E d \in Clients : act'[d].pc = "undo" /\ act'[d].lsp = g
    <3>1. CASE g = act[c].lsp
      <4>1. pc = "undo"
        BY <1>3, <1>4, <2>2, <3>1
      <4>. QED
        BY <1>4, <3>1, <4>1
    <3>2. CASE g # act[c].lsp
      <4>1. server[g] = "stopping"
        BY <1>4, <2>2, <3>2
      <4>2. \A d \in Clients : act[d].pc = "undo" => act'[d].pc = "undo" /\ act'[d].lsp = act[d].lsp
        BY <1>0, <1>4
      <4>. QED
        BY <4>1, <4>2 DEF ServersOwned
    <3>. QED
      BY <3>1, <3>2
  <2>3. ASSUME NEW g \in Generations, server'[g] = "running"
        PROVE  /\ ~disposed /\ requested /\ g = lsp /\ servedBy[g] = clientId /\ clientId # 0
               /\ act'[clientId].pc = "done" /\ act'[clientId].lsp = lsp
               /\ \A s \in stops : s.client # clientId
    <3>1. CASE g = act[c].lsp
      <4>1. pc = "done"
        BY <1>3, <1>4, <2>3, <3>1
      <4>. QED
        BY <1>1, <1>4, <1>5, <3>1, <4>1
    <3>2. CASE g # act[c].lsp
      <4>1. server[g] = "running"
        BY <1>4, <2>3, <3>2
      <4>2. clientId \in Clients /\ clientId # c
        BY <1>0, <4>1 DEF ServersOwned, SessionType, Clients
      <4>. QED
        BY <1>4, <4>1, <4>2 DEF ServersOwned
    <3>. QED
      BY <3>1, <3>2
  <2>. QED
    BY <1>0, <2>1, <2>2, <2>3 DEF ServersOwned
<1>10. OpenOwned'
  <2>1. SUFFICES ASSUME ~disposed, NEW d \in open \ stopped
                 PROVE  \/ ~Idle(d)'
                        \/ \E b \in binds : b.client = d
                        \/ \E s \in stops : s.client = d
                        \/ d = clientId /\ lsp # 0 /\ server'[lsp] = "running"
    BY <1>0 DEF OpenOwned
  <2>2. d \in Clients
    BY <2>1 DEF SessionType
  <2>3. CASE d = c
    <3>1. CASE pc = "done"
      <4>1. lsp \in Generations /\ lsp # 0 /\ server'[lsp] = "running" /\ clientId = c
        BY <1>1, <1>4, <1>5, <3>1 DEF Generations
      <4>. QED
        BY <2>3, <4>1
    <3>2. CASE pc # "done"
      BY <1>6, <2>3, <3>2
    <3>. QED
      BY <3>1, <3>2
  <2>4. CASE d # c
    <3>1. Idle(d)' = Idle(d)
      BY <1>6, <2>2, <2>4
    <3>2. CASE d = clientId /\ lsp # 0 /\ server[lsp] = "running"
      <4>1. lsp \in Generations /\ lsp # act[c].lsp
        BY <1>1, <3>2, RestFacts
      <4>. QED
        BY <1>4, <3>2, <4>1
    <3>. QED
      BY <2>1, <3>1, <3>2 DEF OpenOwned
  <2>. QED
    BY <2>3, <2>4
<1>. QED
  BY <1>7, <1>8, <1>9, <1>10

LEMMA DeactivatesWork ==
  ASSUME RInv, Deactivates
  PROVE  WorkInv'
<1>. USE BoundsAssumption DEF RInv, IInv, TypeOK, WorkInv
<1>0. /\ UNCHANGED <<lsp, bound, activation, kernel, disposed, act, binds, servedBy, stopped>>
      /\ Pending' = Pending
  BY DEF Deactivates, Pending
<1>1. CASE Runs(lsp)
  <2>1. PICK r : r = [lsp |-> lsp, client |-> clientId, dispose |-> FALSE]
    OBVIOUS
  <2>2. r.lsp = lsp /\ r.client = clientId /\ ~r.dispose
    BY <2>1
  <2>3. stops' = stops \cup {r} /\ server' = Stopping(lsp) /\ UNCHANGED <<clientId, open>>
    BY <1>1, <2>1 DEF Deactivates
  <2>4. \A h \in Generations :
           server'[h] = IF h = lsp /\ server[h] = "running" THEN "stopping" ELSE server[h]
    BY <2>3, StoppingServers DEF SessionType
  <2>5. /\ lsp \in Generations /\ server[lsp] \in {"running", "stopping"} /\ Left(lsp)
        /\ clientId # 0 => clientId \in Clients
    BY <1>1, RestFacts DEF Runs, Clients
  <2>6. ClientsKnown'
    <3>1. clientId # 0 /\ act[clientId].pc \in {"port", "activate"} => act[clientId].lsp # lsp
      BY <2>5 DEF ActsAlone, Inactive
    <3>2. \A s \in stops' :
             /\ Left(s.lsp)
             /\ s.dispose => s.lsp = 0 \/ s.lsp # lsp
             /\ s.client # 0 =>
                  /\ act[s.client].pc # "none"
                  /\ s.dispose \/ act[s.client].pc \in {"port", "activate"} => act[s.client].lsp # lsp
      BY <2>2, <2>3, <2>5, <3>1 DEF ClientsKnown
    <3>. QED
      BY <1>0, <2>3, <3>2 DEF ClientsKnown, Left
  <2>7. ActsAlone'
    <3>1. \A c \in Clients : act[c].pc = "activate" => server'[act[c].lsp] = "starting"
      BY <2>4 DEF ActsAlone, ClientsKnown
    <3>2. \A c \in Clients : act[c].pc = "undo" => server'[act[c].lsp] \in {"stopping", "stopped"}
      BY <2>4 DEF ActsAlone, ClientsKnown
    <3>3. \A c \in Clients : act[c].pc = "port" => act[c].lsp # lsp
      BY <2>5 DEF ActsAlone, Inactive
    <3>. QED
      BY <1>0, <3>1, <3>2, <3>3 DEF ActsAlone, Idle
  <2>8. ServersOwned'
    <3>1. r \in stops' /\ stops \subseteq stops'
      BY <2>3
    <3>2. \A g \in Generations : server'[g] = "starting" => server[g] = "starting"
      BY <2>4
    <3>3. \A g \in Generations : server'[g] # "running"
      BY <2>4 DEF ServersOwned
    <3>4. \A g \in Generations : server'[g] = "stopping" =>
             \/ \E b \in binds : b.lsp = g
             \/ \E s \in stops' : s.lsp = g
             \/ \E c \in Clients : act[c].pc = "undo" /\ act[c].lsp = g
      BY <2>2, <2>4, <3>1 DEF ServersOwned
    <3>. QED
      BY <1>0, <3>2, <3>3, <3>4 DEF ServersOwned
  <2>9. OpenOwned'
    <3>1. r \in stops' /\ stops \subseteq stops'
      BY <2>3
    <3>. QED
      BY <1>0, <2>2, <2>3, <3>1 DEF OpenOwned, Idle
  <2>. QED
    BY <2>6, <2>7, <2>8, <2>9
<1>2. CASE ~Runs(lsp)
  <2>1. Released(clientId) /\ UNCHANGED <<server, stops>>
    BY <1>2 DEF Deactivates
  <2>2. /\ open' = open \ {clientId}
        /\ clientId' = clientId \/ clientId' = 0
        /\ clientId' # 0 /\ ~disposed => FALSE
    BY <1>0, <2>1, ReleasedFacts
  <2>3. \A g \in Generations : server[g] # "running"
    BY <1>2 DEF Runs, ServersOwned, Generations
  <2>4. ClientsKnown'
    <3>1. clientId' # 0 => act[clientId'].pc # "none"
      BY <2>2 DEF ClientsKnown
    <3>. QED
      BY <1>0, <2>1, <2>2, <3>1 DEF ClientsKnown, Left
  <2>5. ActsAlone'
    BY <1>0, <2>1 DEF ActsAlone, Idle, Inactive
  <2>6. ServersOwned'
    BY <1>0, <2>1, <2>3 DEF ServersOwned
  <2>7. OpenOwned'
    BY <1>0, <2>1, <2>2 DEF OpenOwned, Idle
  <2>. QED
    BY <2>4, <2>5, <2>6, <2>7
<1>. QED
  BY <1>1, <1>2

LEMMA StopReturnsWork ==
  ASSUME RInv, NEW s \in stops, StopReturns(s)
  PROVE  WorkInv'
<1>. USE BoundsAssumption DEF RInv, IInv, TypeOK, WorkInv
<1>1. /\ UNCHANGED <<lsp, bound, requested, activation, kernel, disposed, act, binds, servedBy, stopped>>
      /\ stops' = stops \ {s} /\ Released(s.client) /\ Pending' = Pending
      /\ server' = IF s.dispose THEN Disposed(s.lsp) ELSE server
      /\ s.lsp # 0 => server[s.lsp] # "stopping"
  BY DEF StopReturns, life, Pending
<1>2. s.lsp \in 0 .. MaxGeneration /\ (s.lsp = 0 \/ s.lsp \in Generations)
  BY DEF WorkType, Generations
<1>3. \A g \in Generations :
        server'[g] = IF s.dispose /\ g = s.lsp /\ server[g] \in {"running", "stopping"} THEN "stopped" ELSE server[g]
  BY <1>1, <1>2, DisposedServers
<1>4. /\ open' = open \ {s.client}
      /\ clientId' # 0 => clientId' = clientId
      /\ clientId' # 0 /\ ~disposed => kernel /\ clientId \in open /\ clientId # s.client
      /\ clientId # s.client => clientId' = clientId
  BY <1>1, ReleasedFacts
<1>5. ClientsKnown'
  BY <1>1, <1>4 DEF ClientsKnown, Left
<1>6. ActsAlone'
  <2>1. \A c \in Clients : act[c].pc = "activate" => server'[act[c].lsp] = "starting"
    BY <1>3 DEF ActsAlone, ClientsKnown
  <2>2. \A c \in Clients : act[c].pc = "undo" => server'[act[c].lsp] \in {"stopping", "stopped"}
    BY <1>3 DEF ActsAlone, ClientsKnown
  <2>3. \A c \in Clients : act[c].pc = "port" /\ act[c].lsp = lsp => server'[lsp] \in {"new", "stopped"}
    BY <1>3 DEF ActsAlone, ClientsKnown, Inactive
  <2>. QED
    BY <1>1, <2>1, <2>2, <2>3 DEF ActsAlone, Idle, Inactive
<1>7. ServersOwned'
  <2>1. \A g \in Generations : server'[g] = "starting" => server[g] = "starting"
    BY <1>3
  <2>2. \A g \in Generations : server'[g] = "stopping" => server[g] = "stopping" /\ g # s.lsp
    BY <1>1, <1>3 DEF Generations
  <2>3. \A g \in Generations : server'[g] = "stopping" =>
             \/ \E b \in binds : b.lsp = g
             \/ \E t \in stops' : t.lsp = g
             \/ \E c \in Clients : act[c].pc = "undo" /\ act[c].lsp = g
    BY <1>1, <2>2 DEF ServersOwned
  <2>4. \A g \in Generations : server'[g] = "running" => server[g] = "running" /\ clientId' = clientId
    BY <1>3, <1>4 DEF ServersOwned
  <2>. QED
    BY <1>1, <2>1, <2>3, <2>4 DEF ServersOwned
<1>8. OpenOwned'
  <2>1. SUFFICES ASSUME ~disposed, NEW c \in open' \ stopped
                 PROVE  \/ ~Idle(c)
                        \/ \E b \in binds : b.client = c
                        \/ \E t \in stops' : t.client = c
                        \/ c = clientId' /\ lsp # 0 /\ server'[lsp] = "running"
    BY <1>1 DEF OpenOwned, Idle
  <2>2. c \in open \ stopped /\ c # s.client
    BY <1>4, <2>1
  <2>3. CASE c = clientId /\ lsp # 0 /\ server[lsp] = "running"
    <3>1. lsp \in Generations /\ ~(s.dispose /\ lsp = s.lsp)
      BY <2>3, RestFacts DEF ClientsKnown
    <3>. QED
      BY <1>3, <1>4, <2>2, <2>3, <3>1
  <2>. QED
    BY <1>1, <2>1, <2>2, <2>3 DEF OpenOwned
<1>. QED
  BY <1>5, <1>6, <1>7, <1>8

LEMMA ServerStopsWork ==
  ASSUME RInv, NEW g \in Generations, ServerStops(g)
  PROVE  WorkInv'
<1>. USE BoundsAssumption DEF RInv, IInv, TypeOK, WorkInv
<1>1. /\ UNCHANGED <<lsp, bound, requested, activation, clientId, open, kernel, disposed, act, binds, stops, servedBy, stopped>>
      /\ Pending' = Pending
      /\ \A h \in Generations : server'[h] = IF h = g THEN "stopped" ELSE server[h]
      /\ server[g] = "stopping"
  BY DEF ServerStops, session, life, work, Pending, ServerType
<1>2. ClientsKnown'
  BY <1>1 DEF ClientsKnown, Left
<1>3. ActsAlone'
  <2>1. \A c \in Clients : act[c].pc = "activate" => server'[act[c].lsp] = "starting"
    BY <1>1 DEF ActsAlone, ClientsKnown
  <2>2. \A c \in Clients : act[c].pc = "undo" => server'[act[c].lsp] \in {"stopping", "stopped"}
    BY <1>1 DEF ActsAlone, ClientsKnown
  <2>3. \A c \in Clients : act[c].pc = "port" /\ act[c].lsp = lsp => server'[lsp] \in {"new", "stopped"}
    BY <1>1 DEF ActsAlone, ClientsKnown, Inactive
  <2>. QED
    BY <1>1, <2>1, <2>2, <2>3 DEF ActsAlone, Idle, Inactive
<1>4. ServersOwned'
  BY <1>1 DEF ServersOwned
<1>5. OpenOwned'
  BY <1>1, RestFacts DEF OpenOwned, Idle
<1>. QED
  BY <1>2, <1>3, <1>4, <1>5

LEMMA ServerDiesWork ==
  ASSUME RInv, NEW g \in Generations, ServerDies(g)
  PROVE  WorkInv'
<1>. USE BoundsAssumption DEF RInv, IInv, TypeOK, WorkInv
<1>1. /\ UNCHANGED <<lsp, bound, requested, activation, clientId, open, kernel, disposed, act, binds, stops, servedBy>>
      /\ Pending' = Pending /\ stopped' = stopped \cup {servedBy[g]}
      /\ \A h \in Generations : server'[h] = IF h = g THEN "stopped" ELSE server[h]
      /\ server[g] = "running"
  BY DEF ServerDies, session, life, work, Pending, ServerType
<1>2. ClientsKnown'
  BY <1>1 DEF ClientsKnown, Left
<1>3. ActsAlone'
  <2>1. \A c \in Clients : act[c].pc = "activate" => server'[act[c].lsp] = "starting"
    BY <1>1 DEF ActsAlone, ClientsKnown
  <2>2. \A c \in Clients : act[c].pc = "undo" => server'[act[c].lsp] \in {"stopping", "stopped"}
    BY <1>1 DEF ActsAlone, ClientsKnown
  <2>3. \A c \in Clients : act[c].pc = "port" /\ act[c].lsp = lsp => server'[lsp] \in {"new", "stopped"}
    BY <1>1 DEF ActsAlone, ClientsKnown, Inactive
  <2>. QED
    BY <1>1, <2>1, <2>2, <2>3 DEF ActsAlone, Idle, Inactive
<1>4. ServersOwned'
  BY <1>1 DEF ServersOwned
<1>5. OpenOwned'
  <2>1. servedBy[g] = clientId
    BY <1>1 DEF ServersOwned
  <2>. QED
    BY <1>1, <2>1 DEF OpenOwned, Idle
<1>. QED
  BY <1>2, <1>3, <1>4, <1>5

LEMMA AttachKernelWork ==
  ASSUME RInv, AttachKernel
  PROVE  WorkInv'
<1>. USE BoundsAssumption DEF RInv, WorkInv
<1>1. /\ UNCHANGED <<lsp, bound, requested, activation, clientId, open, disposed, act, binds, stops,
                     server, servedBy, stopped>>
      /\ Pending' = Pending /\ kernel'
  BY DEF AttachKernel, session, servers, work, Pending
<1>2. ClientsKnown'
  BY <1>1 DEF ClientsKnown, Left
<1>3. ActsAlone' /\ ServersOwned' /\ OpenOwned'
  BY <1>1 DEF ActsAlone, ServersOwned, OpenOwned, Idle, Inactive
<1>. QED
  BY <1>2, <1>3

LEMMA DisposeWork ==
  ASSUME RInv, Dispose
  PROVE  WorkInv'
<1>. USE BoundsAssumption DEF RInv, IInv, TypeOK, WorkInv
<1>1. /\ UNCHANGED <<lsp, bound, requested, activation, clientId, open, act, binds, stops, servedBy, stopped>>
      /\ Pending' = Pending /\ disposed' /\ server' = Disposed(lsp) /\ lsp \in 0 .. MaxGeneration
  BY DEF Dispose, session, work, Pending, SessionType
<1>2. \A h \in Generations :
        server'[h] = IF h = lsp /\ server[h] \in {"running", "stopping"} THEN "stopped" ELSE server[h]
  BY <1>1, DisposedServers
<1>3. ClientsKnown'
  BY <1>1 DEF ClientsKnown, Left
<1>4. ActsAlone'
  <2>1. \A c \in Clients : act[c].pc = "activate" => server'[act[c].lsp] = "starting"
    BY <1>2 DEF ActsAlone, ClientsKnown
  <2>2. \A c \in Clients : act[c].pc = "undo" => server'[act[c].lsp] \in {"stopping", "stopped"}
    BY <1>2 DEF ActsAlone, ClientsKnown
  <2>3. \A c \in Clients : act[c].pc = "port" /\ act[c].lsp = lsp => server'[lsp] \in {"new", "stopped"}
    BY <1>2 DEF ActsAlone, ClientsKnown, Inactive
  <2>. QED
    BY <1>1, <2>1, <2>2, <2>3 DEF ActsAlone, Idle, Inactive
<1>5. ServersOwned'
  <2>1. \A g \in Generations : server'[g] # "running"
    BY <1>2 DEF ServersOwned
  <2>. QED
    BY <1>1, <1>2, <2>1 DEF ServersOwned
<1>6. OpenOwned'
  BY <1>1 DEF OpenOwned
<1>. QED
  BY <1>3, <1>4, <1>5, <1>6
-----------------------------------------------------------------------------
LEMMA RestProgress ==
  ASSUME RInv, Progress
  PROVE  QueueInv' /\ WorkInv'
<1>1. ASSUME Bind \/ Remove PROVE QueueInv' /\ WorkInv'
  BY <1>1, BindQueue, BindWork, RemoveQueue, RemoveWork
<1>2. ASSUME NEW b \in binds, Bound(b) PROVE QueueInv' /\ WorkInv'
  BY <1>2, BoundQueue, BoundWork
<1>3. ASSUME UNCHANGED <<registry, lsp, bound, binds, life>> PROVE QueueInv'
  BY <1>3, QueueFrame DEF RInv, life
<1>4. ASSUME NEW s \in stops, StopReturns(s) PROVE QueueInv' /\ WorkInv'
  BY <1>3, <1>4, StopReturnsWork DEF StopReturns
<1>5. ASSUME NEW c \in Clients, PortArrives(c) PROVE QueueInv' /\ WorkInv'
  BY <1>3, <1>5, PortArrivesWork DEF PortArrives
<1>6. ASSUME NEW c \in Clients, PortFails(c) PROVE QueueInv' /\ WorkInv'
  <2>1. /\ ~Idle(c) /\ Released(c) /\ Ended(c) /\ act[c].pc = "port"
        /\ UNCHANGED <<registry, lsp, bound, requested, life, binds, stops, server, servedBy, stopped>>
    BY <1>6 DEF PortFails, Idle, servers
  <2>2. WorkInv'
    BY <2>1, GivesUpWork
  <2>. QED
    BY <1>3, <2>1, <2>2
<1>7. ASSUME NEW c \in Clients, Activated(c) PROVE QueueInv' /\ WorkInv'
  BY <1>3, <1>7, ActivatedWork DEF Activated
<1>8. ASSUME NEW c \in Clients, ActivationFails(c) PROVE QueueInv' /\ WorkInv'
  <2>1. /\ ~Idle(c) /\ Released(c) /\ Ended(c) /\ act[c].pc = "activate"
        /\ server' = [server EXCEPT ![act[c].lsp] = "stopped"]
        /\ UNCHANGED <<registry, lsp, bound, requested, life, binds, stops, servedBy, stopped>>
    BY <1>8 DEF ActivationFails, Idle
  <2>2. WorkInv'
    BY <2>1, GivesUpWork
  <2>. QED
    BY <1>3, <2>1, <2>2
<1>9. ASSUME NEW c \in Clients, Undone(c) PROVE QueueInv' /\ WorkInv'
  <2>1. /\ ~Idle(c) /\ Released(c) /\ Ended(c) /\ act[c].pc = "undo" /\ server[act[c].lsp] # "stopping"
        /\ UNCHANGED <<registry, lsp, bound, requested, life, binds, stops, server, servedBy, stopped>>
    BY <1>9 DEF Undone, Idle, servers
  <2>2. WorkInv'
    BY <2>1, GivesUpWork
  <2>. QED
    BY <1>3, <2>1, <2>2
<1>10. ASSUME NEW g \in Generations, ServerStops(g) PROVE QueueInv' /\ WorkInv'
  BY <1>3, <1>10, ServerStopsWork DEF ServerStops, session, work
<1>. QED
  BY <1>1, <1>2, <1>4, <1>5, <1>6, <1>7, <1>8, <1>9, <1>10 DEF Progress

LEMMA RestStep == RInv /\ [Next]_vars => RInv'
<1>. SUFFICES ASSUME RInv, [Next]_vars PROVE QueueInv' /\ WorkInv'
  BY StepKeeps DEF RInv
<1>1. ASSUME UNCHANGED <<registry, lsp, bound, binds>>, UNCHANGED disposed \/ disposed' PROVE QueueInv'
  BY <1>1, QueueFrame DEF RInv
<1>2. ASSUME UNCHANGED <<session, kernel, disposed, work, servers>> PROVE WorkInv'
  BY <1>2, WorkFrame DEF RInv, session
<1>3. CASE UNCHANGED vars
  BY <1>1, <1>2, <1>3 DEF vars, session, life, work
<1>4. CASE Progress
  BY <1>4, RestProgress
<1>5. CASE Register
  BY <1>2, <1>5, RegisterQueue DEF Register, life
<1>6. CASE \E g \in Generations : Retire(g)
  BY <1>2, <1>6, RetireQueue DEF Retire, life
<1>7. CASE ActivateLsp
  BY <1>1, <1>7, ActivateLspWork DEF ActivateLsp, life
<1>8. CASE DeactivateLsp \/ SessionEnds
  <2>1. Deactivates
    BY <1>8 DEF DeactivateLsp, SessionEnds
  <2>. QED
    BY <1>1, <2>1, DeactivatesWork DEF Deactivates
<1>9. CASE \E g \in Generations : ServerDies(g)
  BY <1>1, <1>9, ServerDiesWork DEF ServerDies, session, life, work
<1>10. CASE AttachKernel
  BY <1>1, <1>10, AttachKernelWork DEF AttachKernel, session, work
<1>11. CASE BecomesUsable
  BY <1>1, <1>2, <1>11 DEF BecomesUsable, session, work
<1>12. CASE Dispose
  BY <1>1, <1>12, DisposeWork DEF Dispose, session, work
<1>. QED
  BY <1>3, <1>4, <1>5, <1>6, <1>7, <1>8, <1>9, <1>10, <1>11, <1>12 DEF Next

LEMMA RestInit == Init => RInv
<1>. SUFFICES ASSUME Init PROVE QueueInv /\ WorkInv
  BY InitInv DEF RInv
<1>. USE BoundsAssumption DEF Init
<1>1. DOMAIN jobs = {} /\ ~Pending
  BY DEF Pending
<1>2. JobsAhead /\ BindsInOrder
  BY <1>1 DEF JobsAhead, BindsInOrder
<1>3. RegisteredIsCovered
  <2>1. \A g \in Generations : previous[g] < g
    BY DEF Generations
  <2>2. Covered(registered)
    BY DEF Covered, Generations
  <2>. QED
    BY <1>1, <2>1, <2>2 DEF RegisteredIsCovered
<1>4. ClientsKnown
  BY DEF ClientsKnown
<1>5. ActsAlone
  BY DEF ActsAlone, Idle, Clients
<1>6. ServersOwned /\ OpenOwned
  BY DEF ServersOwned, OpenOwned
<1>. QED
  BY <1>2, <1>3, <1>4, <1>5, <1>6 DEF QueueInv, WorkInv

LEMMA RestInvariant == Spec => []RInv
  BY RestInit, RestStep, PTL DEF Spec

\* At rest there is one server, the right one, and nothing else: whatever bindings,
\* removals, activations and deactivations overlapped, a server that still runs is
\* the session's and was asked for, no comm of another is open, and a registered
\* factory is bound (session.ts:1556-1790).
THEOREM RestStaysClean == Spec => []RestIsClean
<1>1. ASSUME RInv PROVE RestIsClean
  <2>. USE BoundsAssumption DEF RInv, IInv, TypeOK, QueueInv, WorkInv
  <2>1. SUFFICES ASSUME AtRest PROVE RestIsClean
    BY DEF RestIsClean, OnlyWantedRuns, NoClientLeaks, RegisteredIsBound
  <2>2. binds = {} /\ stops = {} /\ jobs = <<>> /\ DOMAIN jobs = {} /\ \A c \in Clients : Idle(c)
    BY <2>1 DEF AtRest, Calm
  <2>3. OnlyWantedRuns
    <3>1. SUFFICES ASSUME NEW g \in Generations, server[g] # "stopped", server[g] # "new"
                   PROVE  /\ ~disposed /\ g = lsp /\ requested
                          /\ server[g] = "running" /\ servedBy[g] = clientId /\ clientId \in open
      BY DEF OnlyWantedRuns
    <3>2. server[g] = "running"
      BY <1>1, <2>2, <3>1 DEF ServersOwned, ServerType, Idle
    <3>. QED
      BY <1>1, <3>2 DEF ServersOwned, ClientsKnown
  <2>4. NoClientLeaks
    <3>1. SUFFICES ASSUME ~disposed, NEW c \in open \ stopped
                   PROVE  c = clientId /\ lsp # 0 /\ server[lsp] = "running" /\ servedBy[lsp] = c
      BY DEF NoClientLeaks
    <3>2. c = clientId /\ lsp # 0 /\ server[lsp] = "running" /\ lsp \in Generations
      BY <1>1, <2>2, <3>1, RestFacts DEF OpenOwned, SessionType
    <3>. QED
      BY <1>1, <3>2 DEF ServersOwned
  <2>5. RegisteredIsBound
    BY <1>1, <2>2 DEF RegisteredIsBound, RegisteredIsCovered, Covered, Pending
  <2>. QED
    BY <2>3, <2>4, <2>5 DEF RestIsClean
<1>. QED
  BY <1>1, RestInvariant, PTL
=============================================================================
