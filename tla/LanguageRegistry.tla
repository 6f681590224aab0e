---------------------------- MODULE LanguageRegistry ----------------------------
(***************************************************************************)
(* languageRegistry/languageCapabilityRegistry.ts for one language and its *)
(* owner: registrations that replace each other, the optional capabilities *)
(* each of them activates in the order of their dependencies, and those    *)
(* who wait for a capability.                                              *)
(*                                                                         *)
(* An extension's activate function is awaited, and may return or fail at  *)
(* any later time, whatever has become of the registration by then.  The   *)
(* state of a capability is stored under a key without a generation, so    *)
(* that successive registrations write to the same place.                  *)
(***************************************************************************)
EXTENDS Naturals, Sequences, SequencesExt

CONSTANTS
  Caps,           \* ids of optional capabilities
  Offers,         \* the optional capabilities of each revision, in their order
  Needs,          \* their dependencies: Needs[r][c]
  MaxGeneration,  \* bound: registrations
  MaxLeases,      \* bound: handles of one registration
  MaxRetries      \* bound: calls of retry

Revisions   == DOMAIN Offers
Generations == 1 .. MaxGeneration
Offered(r)  == ToSet(Offers[r])

ASSUME OffersAssumption ==
  /\ Revisions \subseteq Nat \ {0}
  /\ \A r \in Revisions : /\ Offers[r] \in Seq(Caps) /\ IsInjective(Offers[r])
                          /\ Needs[r] \in [Caps -> SUBSET Caps]
ASSUME BoundsAssumption ==
  MaxGeneration \in Nat /\ MaxLeases \in Nat \ {0} /\ MaxRetries \in Nat

VARIABLES
  reg,       \* _registrationsByLanguageId: the generation registered, or 0
  next,      \* _nextGeneration
  revision,  \* the revision of each generation, 0 before it is committed
  phase,     \* the phase of each generation
  leases,    \* its handles that were not disposed
  installed, \* generations whose installation has not been disposed
  states,     \* _capabilityStates
  held,      \* optionalDisposables: generation and capability
  passes,    \* generations whose capabilities a microtask is to activate
  running,   \* activate functions that are awaited
  waiting,   \* observers in waitForCapability: generation and capability
  disposed,  \* _disposed
  retries    \* calls of retry so far

registration == <<reg, next, revision, phase, leases, installed, disposed>>
registryVars == <<registration, states, held, passes, running, waiting, retries>>

Pending == {"registered", "activating"}
Settled == {"ready", "degraded", "failed", "disposed"}

Has(g, c)    == states[c].gen = g
OfPhase(ps)  == {c \in Caps : states[c].phase \in ps}
OwnedBy(g)   == {c \in Caps : Has(g, c)}
IsCurrent(g) == g = reg /\ phase[g] = "active"

RegistryInit ==
  /\ reg = 0 /\ next = 1 /\ disposed = FALSE
  /\ revision = [g \in Generations |-> 0]
  /\ phase = [g \in Generations |-> "unused"]
  /\ leases = [g \in Generations |-> 0]
  /\ installed = {}
  /\ states = [c \in Caps |-> [gen |-> 0, phase |-> "none"]]
  /\ held = {} /\ passes = {} /\ running = {} /\ waiting = {}
  /\ retries = 0

-----------------------------------------------------------------------------
\* The capabilities that the loop of _activateReadyOptionalCapabilities degrades
\* when the states were st: one they depend on has no state, or failed, or is
\* degraded, by this loop if it comes earlier.  One that only a former
\* registration had is found disposed instead.
Degrades(g, st) ==
  LET offers == Offers[revision[g]] IN
  LET blocked[i \in DOMAIN offers] ==
        \E d \in Needs[revision[g]][offers[i]] :
          \/ st[d].phase \in {"none", "failed", "degraded"}
          \/ st[d].phase = "registered" /\ \E j \in 1 .. i - 1 : offers[j] = d /\ blocked[j]
  IN {offers[i] : i \in {k \in DOMAIN offers : st[offers[k]].phase = "registered" /\ blocked[k]}}

\* Those the loop activates.
Starts(g, st) ==
  {c \in Offered(revision[g]) :
     /\ st[c].phase = "registered"
     /\ \A d \in Needs[revision[g]][c] : st[d].phase = "ready"}

\* _activateReadyOptionalCapabilities, when the states are st, the awaited
\* activations going and the observers that are still waiting obs.
Activates(g, st, going, obs) ==
  LET down == Degrades(g, st)
      up   == Starts(g, st) \ down IN
  /\ states' = [c \in Caps |-> CASE c \in down -> [st[c] EXCEPT !.phase = "degraded"]
                                [] c \in up   -> [st[c] EXCEPT !.phase = "activating"]
                                [] OTHER      -> st[c]]
  /\ running' = going \cup ({g} \X up)
  /\ waiting' = obs \ ({g} \X down)

\* The states of a registration that has ended: _setState in _retire.
Ended(g, st) ==
  [c \in Caps |-> IF st[c].gen = g THEN [st[c] EXCEPT !.phase = "disposed"] ELSE st[c]]

\* _publishInitialStates.
Published(g, r, st) ==
  [c \in Caps |-> IF c \in Offered(r) THEN [gen |-> g, phase |-> "registered"] ELSE st[c]]

\* Observers told by the states of g that _retire sets.
ToldOf(g, st) == {<<g, c>> : c \in {d \in Caps : st[d].gen = g}}

\* The rest of _retire: the results of g and what was installed for it go.
HeldWithout(g) == {h \in held : h[1] # g}

-----------------------------------------------------------------------------
\* commit, of what the registered revision already has: one more handle.
CommitsAgain(g) ==
  /\ ~disposed /\ g = reg /\ leases[g] < MaxLeases
  /\ leases' = [leases EXCEPT ![g] = @ + 1]
  /\ UNCHANGED <<reg, next, revision, phase, installed, disposed, states, held,
                 passes, running, waiting, retries>>

\* commit retires the former registration before the states under the same
\* keys become those of the new one.
Replaces(g, r) ==
  /\ states' = Published(g, r, IF reg = 0 THEN states ELSE Ended(reg, states))
  /\ waiting' = IF reg = 0 THEN waiting ELSE waiting \ ToldOf(reg, states)

\* commit, of the first or a later revision.
Commits(r) ==
  LET g == next IN
  /\ ~disposed /\ g \in Generations
  /\ reg # 0 => r > revision[reg]
  /\ reg' = g /\ next' = next + 1
  /\ revision' = [revision EXCEPT ![g] = r]
  /\ phase' = [h \in Generations |-> CASE h = g -> "active"
                                       [] h = reg -> "superseded"
                                       [] OTHER -> phase[h]]
  /\ leases' = [leases EXCEPT ![g] = 1]
  /\ installed' = (installed \ {reg}) \cup {g}
  /\ Replaces(g, r)
  /\ held' = HeldWithout(reg)
  /\ passes' = passes \cup {g}
  /\ UNCHANGED <<disposed, running, retries>>

\* The microtask of commit and of retry.
Pass(g) ==
  /\ g \in passes
  /\ passes' = passes \ {g}
  /\ IF IsCurrent(g) THEN Activates(g, states, running, waiting)
     ELSE UNCHANGED <<states, running, waiting>>
  /\ UNCHANGED <<registration, held, retries>>

\* Fault: nobody looks at the registration after the await.
KeepsAnyway(g, c) ==
  /\ held' = held \cup {<<g, c>>}
  /\ Activates(g, [states EXCEPT ![c].phase = "ready"],
               running \ {<<g, c>>}, waiting \ {<<g, c>>})

\* What _activateOptionalCapability does with a result: keep it and see what
\* has become ready, or dispose of it.
Keeps(g, c) ==
  IF IsCurrent(g)
  THEN /\ held' = held \cup {<<g, c>>}
       /\ Activates(g, [states EXCEPT ![c].phase = "ready"],
                    running \ {<<g, c>>}, waiting \ {<<g, c>>})
  ELSE /\ running' = running \ {<<g, c>>}
       /\ UNCHANGED <<held, states, waiting>>

\* An activate function returns.
Returns(g, c) ==
  /\ <<g, c>> \in running
  /\ Keeps(g, c)
  /\ UNCHANGED <<registration, passes, retries>>

\* Fault: what depends on the failed capability is left alone.
FailsAlone(g, c) ==
  /\ states' = [states EXCEPT ![c].phase = "failed"]
  /\ running' = running \ {<<g, c>>}
  /\ waiting' = waiting \ {<<g, c>>}

\* The catch of _activateOptionalCapability, for the registration that is
\* current.
FailsNow(g, c) ==
  Activates(g, [states EXCEPT ![c].phase = "failed"],
            running \ {<<g, c>>}, waiting \ {<<g, c>>})

\* An activate function fails.
Fails(g, c) ==
  /\ <<g, c>> \in running
  /\ IF IsCurrent(g) THEN FailsNow(g, c)
     ELSE running' = running \ {<<g, c>>} /\ UNCHANGED <<states, waiting>>
  /\ UNCHANGED <<registration, held, passes, retries>>

\* retry of these capabilities, one or all; those whose dependencies were at
\* fault are tried again as well.
Retries(g, cs) ==
  /\ retries < MaxRetries /\ leases[g] > 0 /\ g = reg
  /\ retries' = retries + 1
  /\ states' = [c \in Caps |->
       IF c \in Offered(revision[g])
          /\ (states[c].phase = "degraded" \/ (c \in cs /\ states[c].phase = "failed"))
       THEN [states[c] EXCEPT !.phase = "registered"] ELSE states[c]]
  /\ passes' = passes \cup {g}
  /\ UNCHANGED <<registration, held, running, waiting>>

Retry(g) == Retries(g, Caps) \/ \E c \in Caps : Retries(g, {c})

\* Fault: the registration stays in the map.
RetiresInPlace ==
  /\ reg' = reg
  /\ phase' = [phase EXCEPT ![reg] = "disposed"]
  /\ installed' = installed \ {reg}
  /\ states' = Ended(reg, states)
  /\ waiting' = waiting \ ToldOf(reg, states)
  /\ held' = HeldWithout(reg)

\* _retire of the registered generation as disposed, after which none is
\* registered.
RetiresLast ==
  /\ reg' = 0
  /\ phase' = [phase EXCEPT ![reg] = "disposed"]
  /\ installed' = installed \ {reg}
  /\ states' = Ended(reg, states)
  /\ waiting' = waiting \ ToldOf(reg, states)
  /\ held' = HeldWithout(reg)

\* releaseLease of the last handle.
Releases(g) ==
  /\ leases[g] = 1 /\ g = reg
  /\ RetiresLast

\* A handle is disposed; only the last of the registered generation matters.
Disposes(g) ==
  /\ leases[g] > 0
  /\ leases' = [leases EXCEPT ![g] = @ - 1]
  /\ \/ Releases(g)
     \/ /\ ~(leases[g] = 1 /\ g = reg)
        /\ UNCHANGED <<reg, phase, installed, states, waiting, held>>
  /\ UNCHANGED <<next, revision, disposed, passes, running, retries>>

\* dispose of the registry.
DisposesAll ==
  /\ ~disposed /\ disposed' = TRUE
  /\ IF reg # 0 THEN RetiresLast
     ELSE UNCHANGED <<reg, phase, installed, states, waiting, held>>
  /\ UNCHANGED <<next, revision, leases, passes, running, retries>>

\* waitForCapability, of a capability of the snapshot's generation that has
\* not settled; it answers at once or throws otherwise.
Waits(g, c) ==
  /\ Has(g, c) /\ states[c].phase \in Pending /\ <<g, c>> \notin waiting
  /\ waiting' = waiting \cup {<<g, c>>}
  /\ UNCHANGED <<registration, states, held, passes, running, retries>>

\* An observer's timeout or abort signal.
GivesUp(g, c) ==
  /\ <<g, c>> \in waiting
  /\ waiting' = waiting \ {<<g, c>>}
  /\ UNCHANGED <<registration, states, held, passes, running, retries>>

Ends(g, c) == Returns(g, c) \/ Fails(g, c)

RegistryNext ==
  \/ \E r \in Revisions : Commits(r)
  \/ DisposesAll
  \/ \E g \in Generations :
       \/ CommitsAgain(g) \/ Pass(g) \/ Retry(g) \/ Disposes(g)
       \/ \E c \in Caps : Ends(g, c) \/ Waits(g, c) \/ GivesUp(g, c)

\* Microtasks run; that activate functions end is assumed of the extensions.
\* Of both there are finitely many, so that none is passed over for ever.
RegistryFairness ==
  /\ WF_registryVars(\E g \in Generations : Pass(g))
  /\ WF_registryVars(\E g \in Generations, c \in Caps : Ends(g, c))

RegistrySpec == RegistryInit /\ [][RegistryNext]_registryVars /\ RegistryFairness

-----------------------------------------------------------------------------
\* The states are those of the registrations made so far, and the map has one
\* that is active (commit, _retire, releaseLease, dispose).
RegistryTypeOK ==
  /\ reg \in {0} \cup {g \in Generations : phase[g] = "active"}
  /\ next \in 1 .. MaxGeneration + 1
  /\ revision \in [Generations -> Revisions \cup {0}]
  /\ phase \in [Generations -> {"unused", "active", "superseded", "disposed"}]
  /\ leases \in [Generations -> 0 .. MaxLeases]
  /\ states \in [Caps -> [gen : 0 .. MaxGeneration, phase : {"none"} \cup Pending \cup Settled]]
  /\ installed \subseteq Generations /\ passes \subseteq Generations
  /\ held \cup running \cup waiting \subseteq Generations \X Caps
  /\ disposed \in BOOLEAN /\ retries \in 0 .. MaxRetries

\* The results that have not been disposed are those of the registered
\* generation's ready capabilities, and so with what was installed for it.
ResultsHaveOwners ==
  /\ held = {<<reg, c>> : c \in {d \in OwnedBy(reg) : states[d].phase = "ready"}}
  /\ installed = {reg} \ {0}

\* Who waits for a capability will be told of it: its state is still that of
\* the generation and has not settled, so that an event is yet to come.
ObserversAreTold ==
  \A w \in waiting : Has(w[1], w[2]) /\ states[w[2]].phase \in Pending

\* Whatever happens while activate functions are awaited, what they return is
\* kept by the registration it is for or disposed of, and nobody waits for a
\* capability of which nothing more is to be heard (the check after the await in
\* _activateOptionalCapability, _retire, commit, which retires before it
\* publishes, waitForCapability, retry).
RegistrationsAreKept == ResultsHaveOwners /\ ObserversAreTold

\* The order in which every capability of the revision comes after what it
\* depends on.
InOrder(r) ==
  \A i \in DOMAIN Offers[r] :
    Needs[r][Offers[r][i]] \subseteq {Offers[r][j] : j \in 1 .. i - 1}

\* A capability that was registered settles, if its revision lists dependencies
\* first and activate functions end (_activateReadyOptionalCapabilities, which
\* looks again at what waits for others whenever one has settled).
CapabilitiesSettle ==
  \A g \in Generations, c \in Caps :
    (Has(g, c) /\ states[c].phase \in Pending /\ InOrder(revision[g]))
      ~> (~Has(g, c) \/ states[c].phase \in Settled)
=============================================================================
