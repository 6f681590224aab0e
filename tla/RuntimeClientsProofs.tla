------------------------ MODULE RuntimeClientsProofs ------------------------
(* Safety of the clients of a session and of the RPCs on them, for any     *)
(* comms, types and numbers of kernel processes, calls and messages.       *)
EXTENDS RuntimeClients, SequenceTheorems, TLAPS

Active(k) == calls[k].pc \notin {"unused", "done"}

\* No call is of a generation to come.
Generations == \A k \in Inits : calls[k].gen <= generation

\* A completion timer runs for an RPC that waits, of a client that is tracked and
\* hears what the kernel does.
Graces ==
  \A r \in Rpcs :
    rpc[r].grace => Pending(r) /\ rpc[r].told = "idle" /\ rpc[r].comm \in Tracked

\* The comms open in the kernel are of the process that runs.
KernelOpen ==
  /\ life # 0
  /\ exited => ~up
  /\ ~up => open = {}
  /\ \A c \in open : born[c] = life

\* A comm the kernel said it closed is not opened again.
ClosedIn(messages) ==
  \A i \in 1 .. Len(messages) :
    messages[i].kind = "closed" => messages[i].comm \notin open /\ born[messages[i].comm] # 0
ClosedForGood == ClosedIn(wire) /\ ClosedIn(queue)

\* What a current call was told or has created is of the kernel that runs.
CurrentKnows ==
  \A k \in Inits : Active(k) /\ IsCurrent(k) =>
    /\ ~exited
    /\ calls[k].reply # None => \A c \in calls[k].reply : born[c] = life
    /\ calls[k].pc = "create" /\ calls[k].comm # None => born[calls[k].comm] = life

\* Only a call that awaits a list has been given one.
RepliesAwaited == \A k \in Inits : calls[k].reply # None => calls[k].pc \in {"restore", "list"}

\* Comms are created once.
MadeOnce == \A c \in made : born[c] # 0

\* A client is the known one of its type, or has been displaced.
KnownOrDisplaced == Tracked \subseteq Known \cup displaced

IInv ==
  /\ KernelTypeOK /\ ManagerTypeOK /\ CallsTypeOK /\ RpcTypeOK
  /\ Generations /\ OneInitialization
  /\ Graces
  /\ KernelOpen /\ ClosedForGood /\ CurrentKnows /\ RepliesAwaited /\ MadeOnce /\ KnownOrDisplaced
  /\ ClientsAreAlive /\ CreatedIsKept

-----------------------------------------------------------------------------
\* Clients are stored: they are tracked, and each that is not the known one of
\* its type has been displaced.
LEMMA StoreFacts ==
  ASSUME ManagerTypeOK, RpcTypeOK, KnownOrDisplaced, NEW cs \in SUBSET Comms, Store(cs)
  PROVE  /\ Tracked' = Tracked \cup cs
         /\ owner' \in [Comms -> {"none", "extHost", "mainThread"}]
         /\ connected' \subseteq Comms
         /\ knownId' \in [Types -> Comms \cup {None}]
         /\ displaced' \subseteq Comms /\ displaced \subseteq displaced'
         /\ seen' \subseteq Comms
         /\ KnownOrDisplaced'
<1>1. \A c \in Comms : OwnerOf(c) \in {"extHost", "mainThread"}
  BY DEF OwnerOf
<1>2. owner' = [c \in Comms |-> IF c \in cs THEN OwnerOf(c) ELSE owner[c]]
      /\ connected' = connected \cup cs /\ seen' = seen \cup cs
      /\ displaced' = displaced \cup {c \in Known \cup cs : \A t \in Types : knownId'[t] # c}
      /\ knownId' \in [Types -> Comms \cup {None}]
  BY DEF Store, KnownWith
<1>3. Tracked' = Tracked \cup cs
  BY <1>1, <1>2 DEF Tracked
<1>4. owner' \in [Comms -> {"none", "extHost", "mainThread"}]
  BY <1>1, <1>2 DEF ManagerTypeOK
<1>5. Known \subseteq Comms
  BY DEF Known
<1>6. Known' = {c \in Comms : \E t \in Types : knownId'[t] = c}
  BY DEF Known
<1>7. Known \cup cs \subseteq Known' \cup displaced'
  BY <1>2, <1>5, <1>6
<1>8. KnownOrDisplaced'
  BY <1>2, <1>3, <1>7 DEF KnownOrDisplaced
<1>. QED
  BY <1>2, <1>3, <1>4, <1>5, <1>8 DEF ManagerTypeOK, RpcTypeOK

\* Cancelling settles what is pending on some clients, and stops their timers.
LEMMA CancelledFacts ==
  ASSUME RpcTypeOK, NEW cs \in SUBSET Comms, rpc' = Cancelled(cs)
  PROVE  /\ rpc' \in [Rpcs -> Rpc]
         /\ \A r \in Rpcs :
              /\ Pending(r) /\ rpc[r].comm \in cs => ~Pending(r)' /\ ~rpc'[r].grace
              /\ ~(Pending(r) /\ rpc[r].comm \in cs) => rpc'[r] = rpc[r]
<1>1. ASSUME NEW r \in Rpcs
      PROVE  [rpc[r] EXCEPT !.state = "failed", !.grace = FALSE] \in Rpc
  <2>1. rpc[r] \in Rpc
    BY DEF RpcTypeOK
  <2>. QED
    BY <2>1 DEF Rpc
<1>2. rpc' \in [Rpcs -> Rpc]
  BY <1>1 DEF RpcTypeOK, Cancelled
<1>3. ASSUME NEW r \in Rpcs, Pending(r) /\ rpc[r].comm \in cs
      PROVE  ~Pending(r)' /\ ~rpc'[r].grace
  <2>1. rpc[r] \in Rpc /\ rpc'[r] = [rpc[r] EXCEPT !.state = "failed", !.grace = FALSE]
    BY <1>3 DEF RpcTypeOK, Cancelled
  <2>2. rpc'[r].state = "failed" /\ rpc'[r].grace = FALSE
    BY <2>1
  <2>. QED
    BY <2>2 DEF Pending
<1>4. \A r \in Rpcs : ~(Pending(r) /\ rpc[r].comm \in cs) => rpc'[r] = rpc[r]
  BY DEF Cancelled
<1>. QED
  BY <1>2, <1>3, <1>4

\* What is said of the calls by one that goes on: it stays the call it was.
Moves(k) ==
  /\ CallsTypeOK' /\ Generations' /\ OneInitialization'
  /\ \A j \in Inits : j # k => calls'[j] = calls[j]
  /\ calls'[k].gen = calls[k].gen /\ calls'[k].reply = None

LEMMA GoesOnMoves ==
  ASSUME IInv, NEW k \in Inits, Active(k), NEW pc \in {"step", "list", "create"},
         pc # "step" => calls[k].step \in DOMAIN Order,
         GoesOn(k, pc), UNCHANGED generation
  PROVE  Moves(k) /\ calls'[k].pc = pc
<1>1. calls \in [Inits -> Call] /\ calls[k] \in Call
  BY DEF IInv, CallsTypeOK
<1>. DEFINE x == [calls[k] EXCEPT !.pc = pc, !.reply = None]
<1>2. calls' = [calls EXCEPT ![k] = x] /\ initializing' = initializing
  BY <1>1 DEF GoesOn
<1>3. /\ x \in Call /\ x.pc = pc /\ x.gen = calls[k].gen /\ x.step = calls[k].step /\ x.reply = None
  BY <1>1 DEF Call
<1>. HIDE DEF x
<1>4. calls' \in [Inits -> Call] /\ calls'[k] = x /\ \A j \in Inits : j # k => calls'[j] = calls[j]
  BY <1>1, <1>2, <1>3
<1>5. CallsTypeOK'
  BY <1>3, <1>4 DEF IInv, CallsTypeOK
<1>6. Generations' /\ OneInitialization'
  BY <1>2, <1>3, <1>4 DEF IInv, Generations, OneInitialization, Active
<1>. QED
  BY <1>3, <1>4, <1>5, <1>6 DEF Moves

LEMMA NextTypeMoves ==
  ASSUME IInv, NEW k \in Inits, Active(k), calls[k].step <= Len(Order),
         NextType(k), UNCHANGED generation
  PROVE  Moves(k) /\ calls'[k].pc = "step"
<1>1. calls \in [Inits -> Call] /\ calls[k] \in Call /\ calls[k].step \in 1 .. Len(Order) + 1
  BY DEF IInv, CallsTypeOK
<1>. DEFINE x == [calls[k] EXCEPT !.pc = "step", !.step = @ + 1, !.reply = None]
<1>2. calls' = [calls EXCEPT ![k] = x] /\ initializing' = initializing
  BY <1>1 DEF NextType
<1>3. /\ x \in Call /\ x.pc = "step" /\ x.gen = calls[k].gen /\ x.step = calls[k].step + 1 /\ x.reply = None
  <2>1. calls[k] \in Call /\ calls[k].step \in Nat
    BY <1>1
  <2>2. calls[k].step + 1 \in Nat
    BY <2>1
  <2>. QED
    BY <2>1, <2>2 DEF Call
<1>. HIDE DEF x
<1>4. calls' \in [Inits -> Call] /\ calls'[k] = x /\ \A j \in Inits : j # k => calls'[j] = calls[j]
  BY <1>1, <1>2, <1>3
<1>5. Len(Order) \in Nat
  BY OrderAssumption
<1>6. CallsTypeOK'
  BY <1>1, <1>3, <1>4, <1>5 DEF IInv, CallsTypeOK
<1>7. Generations' /\ OneInitialization'
  BY <1>2, <1>3, <1>4 DEF IInv, Generations, OneInitialization, Active
<1>. QED
  BY <1>3, <1>4, <1>6, <1>7 DEF Moves

LEMMA EndsMoves ==
  ASSUME IInv, NEW k \in Inits, Active(k), Ends(k), UNCHANGED generation
  PROVE  Moves(k) /\ calls'[k].pc = "done" /\ initializing' \in Inits \cup {0}
<1>1. calls \in [Inits -> Call] /\ calls[k] \in Call
  BY DEF IInv, CallsTypeOK
<1>. DEFINE x == [calls[k] EXCEPT !.pc = "done", !.reply = None]
<1>2. calls' = [calls EXCEPT ![k] = x]
      /\ initializing' = IF initializing = k THEN 0 ELSE initializing
  BY <1>1 DEF Ends
<1>3. /\ x \in Call /\ x.pc = "done" /\ x.gen = calls[k].gen /\ x.step = calls[k].step /\ x.reply = None
  BY <1>1 DEF Call
<1>. HIDE DEF x
<1>4. calls' \in [Inits -> Call] /\ calls'[k] = x /\ \A j \in Inits : j # k => calls'[j] = calls[j]
  BY <1>1, <1>2, <1>3
<1>5. CallsTypeOK'
  BY <1>3, <1>4 DEF IInv, CallsTypeOK
<1>6. \A j \in Inits : j # 0
  BY DEF Inits
<1>7. Generations' /\ OneInitialization'
  BY <1>2, <1>3, <1>4, <1>6 DEF IInv, Generations, OneInitialization
<1>8. initializing' \in Inits \cup {0}
  BY <1>2 DEF IInv, ManagerTypeOK
<1>. QED
  BY <1>3, <1>4, <1>5, <1>7, <1>8 DEF Moves

LEMMA CreatesMoves ==
  ASSUME IInv, NEW k \in Inits, Active(k), NEW c \in Comms \cup {None},
         calls[k].step \in DOMAIN Order,
         calls' = [calls EXCEPT ![k].pc = "create", ![k].comm = c, ![k].reply = None],
         UNCHANGED <<initializing, generation>>
  PROVE  Moves(k) /\ calls'[k].pc = "create" /\ calls'[k].comm = c
<1>1. calls \in [Inits -> Call] /\ calls[k] \in Call
  BY DEF IInv, CallsTypeOK
<1>. DEFINE x == [calls[k] EXCEPT !.pc = "create", !.comm = c, !.reply = None]
<1>2. calls' = [calls EXCEPT ![k] = x]
  BY <1>1
<1>3. /\ x \in Call /\ x.pc = "create" /\ x.gen = calls[k].gen /\ x.step = calls[k].step
      /\ x.comm = c /\ x.reply = None
  BY <1>1 DEF Call
<1>. HIDE DEF x
<1>4. calls' \in [Inits -> Call] /\ calls'[k] = x /\ \A j \in Inits : j # k => calls'[j] = calls[j]
  <2>1. [calls EXCEPT ![k] = x] \in [Inits -> Call]
    BY <1>1, <1>3
  <2>2. [calls EXCEPT ![k] = x][k] = x
    BY <1>1
  <2>3. \A j \in Inits : j # k => [calls EXCEPT ![k] = x][j] = calls[j]
    BY <1>1
  <2>. QED
    BY <1>2, <2>1, <2>2, <2>3
<1>5. CallsTypeOK'
  BY <1>3, <1>4 DEF IInv, CallsTypeOK
<1>6. Generations' /\ OneInitialization'
  BY <1>3, <1>4 DEF IInv, Generations, OneInitialization, Active
<1>. QED
  BY <1>3, <1>4, <1>5, <1>6 DEF Moves

\* A message is added to those under way.
LEMMA ClosedAppend ==
  ASSUME NEW messages \in Seq(Message), NEW m \in Message, ClosedIn(messages),
         m.kind = "closed" => m.comm \notin open /\ born[m.comm] # 0
  PROVE  Append(messages, m) \in Seq(Message) /\ ClosedIn(Append(messages, m))
<1>1. /\ Append(messages, m) \in Seq(Message)
      /\ Len(Append(messages, m)) = Len(messages) + 1 /\ Len(messages) \in Nat
      /\ \A i \in 1 .. Len(messages) : Append(messages, m)[i] = messages[i]
      /\ Append(messages, m)[Len(messages) + 1] = m
  BY LenProperties
<1>. QED
  BY <1>1 DEF ClosedIn

\* The first of them is taken.
LEMMA ClosedTail ==
  ASSUME NEW messages \in Seq(Message), messages # <<>>, ClosedIn(messages)
  PROVE  /\ Tail(messages) \in Seq(Message) /\ ClosedIn(Tail(messages))
         /\ Head(messages) \in Message
         /\ Head(messages).kind = "closed" =>
              Head(messages).comm \notin open /\ born[Head(messages).comm] # 0
<1>1. /\ Tail(messages) \in Seq(Message) /\ Head(messages) \in Message
      /\ Len(Tail(messages)) = Len(messages) - 1 /\ Len(messages) \in Nat \ {0}
      /\ \A i \in 1 .. Len(Tail(messages)) : Tail(messages)[i] = messages[i + 1]
      /\ Head(messages) = messages[1]
  BY EmptySeq
<1>. QED
  BY <1>1 DEF ClosedIn

-----------------------------------------------------------------------------

\* A call that goes on, or ends, with new clients of the kernel that runs or
\* none, and with the client it had created kept.
LEMMA MovesOn ==
  ASSUME IInv, NEW k \in Inits, Active(k), Moves(k),
         calls'[k].pc = "create" => calls'[k].comm = None,
         calls[k].pc = "create" /\ calls[k].comm # None => calls[k].comm \in Tracked' \cup (Comms \ open),
         initializing' \in Inits \cup {0},
         owner' \in [Comms -> {"none", "extHost", "mainThread"}], connected' \subseteq Comms,
         knownId' \in [Types -> Comms \cup {None}], seen' \subseteq Comms,
         displaced' \subseteq Comms, displaced \subseteq displaced',
         Tracked \subseteq Tracked', KnownOrDisplaced',
         \A c \in Tracked' \ Tracked : ~exited /\ born[c] = life,
         UNCHANGED <<kernelVars, wire, queue, generation, disposed, rpc, made, late>>
  PROVE  IInv'
<1>. USE DEF IInv
<1>1. KernelTypeOK' /\ ManagerTypeOK' /\ CallsTypeOK' /\ RpcTypeOK'
  BY DEF KernelTypeOK, ManagerTypeOK, RpcTypeOK, Moves, kernelVars
<1>2. Generations' /\ OneInitialization'
  BY DEF Moves
<1>3. Graces'
  BY DEF Graces, Pending
<1>4. KernelOpen' /\ ClosedForGood' /\ MadeOnce'
  BY DEF KernelOpen, ClosedForGood, ClosedIn, MadeOnce, kernelVars
<1>5. CurrentKnows'
  <2>1. ASSUME NEW j \in Inits, Active(j)', IsCurrent(j)'
        PROVE  /\ ~exited
               /\ calls'[j].reply # None => \A c \in calls'[j].reply : born[c] = life
               /\ calls'[j].pc = "create" /\ calls'[j].comm # None => born[calls'[j].comm] = life
    BY <2>1 DEF Moves, Active, IsCurrent, CurrentKnows
  <2>. QED
    BY <2>1 DEF CurrentKnows, kernelVars
<1>6. ClientsAreAlive'
  BY DEF ClientsAreAlive, kernelVars
<1>7. CreatedIsKept'
  <2>. SUFFICES ASSUME NEW c \in made \cap open, c \notin Tracked', ~(disposed /\ c \in displaced')
                PROVE  \E j \in Inits : calls'[j].pc = "create" /\ calls'[j].comm = c
    BY DEF CreatedIsKept, kernelVars
  <2>1. PICK j \in Inits : calls[j].pc = "create" /\ calls[j].comm = c
    BY DEF CreatedIsKept
  <2>2. c # None /\ j # k
    BY <2>1, CommsAssumption DEF KernelTypeOK
  <2>. QED
    BY <2>1, <2>2 DEF Moves
<1>8. RepliesAwaited'
  BY DEF Moves, RepliesAwaited
<1>. QED
  BY <1>1, <1>2, <1>3, <1>4, <1>5, <1>6, <1>7, <1>8

\* The same, when nothing but the call changes.
LEMMA MovesAlone ==
  ASSUME IInv, NEW k \in Inits, Active(k), Moves(k),
         calls'[k].pc = "create" => calls'[k].comm = None,
         ~(calls[k].pc = "create" /\ calls[k].comm # None),
         initializing' \in Inits \cup {0},
         UNCHANGED <<kernelVars, wire, queue, owner, connected, knownId,
                     generation, disposed, rpc, historyVars>>
  PROVE  IInv'
<1>1. Tracked' = Tracked /\ KnownOrDisplaced'
  BY DEF IInv, KnownOrDisplaced, Tracked, Known, historyVars
<1>. QED
  BY <1>1, MovesOn DEF IInv, ManagerTypeOK, RpcTypeOK, historyVars

\* The kernel opens a comm of its own, not used before.
LEMMA KernelOpensInv ==
  ASSUME IInv, NEW c \in Comms, KernelOpens(c)
  PROVE  IInv'
<1>. USE DEF IInv
<1>1. /\ up /\ c \in Comms \ made /\ born[c] = 0 /\ c \in KernelComms
      /\ born' = [born EXCEPT ![c] = life] /\ open' = open \cup {c}
      /\ wire' = Append(wire, [kind |-> "open", comm |-> c])
      /\ UNCHANGED <<life, up, exited, queue, managerVars, calls, rpc, historyVars>>
  BY DEF KernelOpens, Sends, Unused, MadeOnce
<1>2. /\ ClosedIn(Append(wire, [kind |-> "open", comm |-> c]))
      /\ wire' \in Seq(Message) /\ Len(wire') = Len(wire) + 1
  BY <1>1, ClosedAppend DEF Message, ClosedForGood, KernelTypeOK
<1>3. KernelTypeOK'
  BY <1>1, <1>2 DEF KernelTypeOK
<1>4. KernelOpen'
  BY <1>1 DEF KernelTypeOK, KernelOpen
<1>5. ClosedForGood'
  BY <1>1, <1>2 DEF ClosedForGood, ClosedIn
<1>6. CurrentKnows'
  BY <1>1, <1>2 DEF CurrentKnows, Active, IsCurrent, managerVars
<1>7. MadeOnce'
  BY <1>1, <1>2 DEF MadeOnce, historyVars
<1>8. ClientsAreAlive'
  BY <1>1, <1>2 DEF ClientsAreAlive, Tracked, managerVars, historyVars
<1>9. CreatedIsKept'
  BY <1>1, <1>2 DEF CreatedIsKept, Tracked, managerVars, historyVars
<1>10. ManagerTypeOK' /\ CallsTypeOK' /\ RpcTypeOK' /\ Generations' /\ OneInitialization'
  BY <1>1, <1>2 DEF ManagerTypeOK, CallsTypeOK, RpcTypeOK, Generations, OneInitialization, managerVars, historyVars
<1>11. Graces' /\ RepliesAwaited' /\ KnownOrDisplaced'
  BY <1>1, <1>2 DEF Graces, Pending, Tracked, RepliesAwaited, KnownOrDisplaced, Known, managerVars, historyVars
<1>. QED
  BY <1>3, <1>4, <1>5, <1>6, <1>7, <1>8, <1>9, <1>10, <1>11

\* The kernel closes one of its comms.
LEMMA KernelClosesInv ==
  ASSUME IInv, NEW c \in Comms, KernelCloses(c)
  PROVE  IInv'
<1>. USE DEF IInv
<1>1. /\ up /\ c \in open /\ born[c] # 0 /\ open' = open \ {c}
      /\ wire' = Append(wire, [kind |-> "closed", comm |-> c])
      /\ UNCHANGED <<life, up, exited, born, queue, managerVars, calls, rpc, historyVars>>
  BY DEF KernelCloses, Sends, KernelOpen
<1>2. [kind |-> "closed", comm |-> c] \in Message
  BY DEF Message
<1>3. wire' \in Seq(Message)
  BY <1>1, <1>2 DEF KernelTypeOK
<1>4. KernelTypeOK'
  BY <1>1, <1>2, <1>3 DEF KernelTypeOK
<1>5. KernelOpen'
  BY <1>1, <1>2, <1>3 DEF KernelOpen
<1>6. ClosedForGood'
  BY <1>1, <1>2, <1>3 DEF ClosedForGood, ClosedIn
<1>7. CreatedIsKept'
  BY <1>1, <1>2, <1>3 DEF CreatedIsKept, Tracked, managerVars, historyVars
<1>8. ManagerTypeOK' /\ CallsTypeOK' /\ RpcTypeOK' /\ Generations' /\ OneInitialization'
  BY <1>1, <1>2, <1>3 DEF ManagerTypeOK, CallsTypeOK, RpcTypeOK, Generations, OneInitialization, managerVars, historyVars
<1>9. Graces' /\ CurrentKnows' /\ RepliesAwaited' /\ MadeOnce' /\ KnownOrDisplaced'
  BY <1>1, <1>2, <1>3 DEF Graces, Pending, Tracked, CurrentKnows, Active, IsCurrent, RepliesAwaited, MadeOnce, KnownOrDisplaced, Known, managerVars, historyVars
<1>10. ClientsAreAlive'
  BY <1>1, <1>2, <1>3 DEF ClientsAreAlive, Tracked, managerVars, historyVars
<1>. QED
  BY <1>4, <1>5, <1>6, <1>7, <1>8, <1>9, <1>10

\* The kernel works on a request: what it sends is not the end of a comm.
LEMMA KernelWorksInv ==
  ASSUME IInv, NEW r \in Rpcs, KernelWorks(r)
  PROVE  IInv'
<1>. USE DEF IInv
<1>1. UNCHANGED <<kernelVars, queue, managerVars, calls, historyVars>>
  BY DEF KernelWorks
<1>2. \/ \E s \in {"busy", "idle"} : rpc' = [rpc EXCEPT ![r] = [@ EXCEPT !.kernel = s]]
      \/ rpc' = [rpc EXCEPT ![r] = [@ EXCEPT !.replied = TRUE]]
  BY DEF KernelWorks
<1>3. PICK m : wire' = Append(wire, m) /\ m \in Message /\ m.kind # "closed"
  BY DEF KernelWorks, Sends, Message
<1>4. rpc \in [Rpcs -> Rpc]
  BY DEF RpcTypeOK
<1>5. rpc' \in [Rpcs -> Rpc]
  <2>1. ASSUME NEW s \in {"busy", "idle"} PROVE [rpc[r] EXCEPT !.kernel = s] \in Rpc
    BY <1>4 DEF Rpc
  <2>2. [rpc[r] EXCEPT !.replied = TRUE] \in Rpc
    BY <1>4 DEF Rpc
  <2>. QED
    BY <1>2, <1>4, <2>1, <2>2
<1>6. \A s \in Rpcs : /\ rpc'[s].grace = rpc[s].grace /\ rpc'[s].state = rpc[s].state
                      /\ rpc'[s].told = rpc[s].told /\ rpc'[s].comm = rpc[s].comm
  BY <1>2, <1>4 DEF Rpc
<1>7. wire' \in Seq(Message) /\ ClosedIn(Append(wire, m))
  BY <1>3, ClosedAppend DEF ClosedForGood, KernelTypeOK
<1>8. KernelTypeOK'
  BY <1>1, <1>7 DEF KernelTypeOK, kernelVars
<1>9. RpcTypeOK'
  BY <1>1, <1>5 DEF RpcTypeOK, historyVars
<1>10. Graces'
  BY <1>1, <1>6 DEF Graces, Pending, Tracked, managerVars
<1>11. ClosedForGood'
  BY <1>1, <1>3, <1>7 DEF ClosedForGood, ClosedIn, kernelVars
<1>12. ManagerTypeOK' /\ CallsTypeOK' /\ Generations' /\ OneInitialization' /\ KernelOpen'
  BY <1>1, <1>2, <1>3, <1>4, <1>5, <1>6, <1>7 DEF ManagerTypeOK, CallsTypeOK, Generations, OneInitialization, KernelOpen, kernelVars, managerVars
<1>13. CurrentKnows' /\ RepliesAwaited' /\ MadeOnce' /\ KnownOrDisplaced' /\ ClientsAreAlive'
  BY <1>1, <1>2, <1>3, <1>4, <1>5, <1>6, <1>7 DEF CurrentKnows, Active, IsCurrent, RepliesAwaited, MadeOnce, KnownOrDisplaced, Tracked, Known, ClientsAreAlive, kernelVars, managerVars, historyVars
<1>14. CreatedIsKept'
  BY <1>1, <1>2, <1>3, <1>4, <1>5, <1>6, <1>7 DEF CreatedIsKept, Tracked, kernelVars, managerVars, historyVars
<1>. QED
  BY <1>8, <1>9, <1>10, <1>11, <1>12, <1>13, <1>14

\* The kernel process ends.
LEMMA KernelExitsInv ==
  ASSUME IInv, KernelExits
  PROVE  IInv'
<1>. USE DEF IInv
<1>1. KernelTypeOK'
  BY DEF KernelTypeOK, KernelExits
<1>2. KernelOpen'
  BY DEF KernelOpen, KernelExits
<1>3. ClosedForGood'
  BY DEF ClosedForGood, ClosedIn, KernelExits
<1>4. CreatedIsKept'
  BY DEF CreatedIsKept, KernelExits
<1>5. ManagerTypeOK' /\ CallsTypeOK' /\ RpcTypeOK' /\ Generations' /\ OneInitialization'
  BY DEF ManagerTypeOK, CallsTypeOK, RpcTypeOK, Generations, OneInitialization, KernelExits, managerVars, historyVars
<1>6. Graces' /\ CurrentKnows' /\ RepliesAwaited' /\ MadeOnce' /\ KnownOrDisplaced'
  BY DEF Graces, Pending, Tracked, CurrentKnows, Active, IsCurrent, RepliesAwaited, MadeOnce, KnownOrDisplaced, Known, KernelExits, managerVars, historyVars
<1>7. ClientsAreAlive'
  BY DEF ClientsAreAlive, Tracked, KernelExits, managerVars, historyVars
<1>. QED
  BY <1>1, <1>2, <1>3, <1>4, <1>5, <1>6, <1>7

\* A new kernel process is started.
LEMMA KernelRestartsInv ==
  ASSUME IInv, KernelRestarts
  PROVE  IInv'
<1>. USE DEF IInv
<1>1. life' = life + 1 /\ life \in Nat /\ up' = TRUE /\ exited' = FALSE /\ exited /\ open = {}
      /\ UNCHANGED <<open, born, wire, queue, managerVars, calls, rpc, historyVars>>
  BY DEF KernelRestarts, KernelTypeOK, KernelOpen
<1>2. life' \in Nat
  BY <1>1
<1>3. KernelTypeOK'
  BY <1>1, <1>2 DEF KernelTypeOK
<1>4. KernelOpen'
  BY <1>1, <1>2 DEF KernelOpen
<1>5. CurrentKnows'
  BY <1>1, <1>2 DEF CurrentKnows, Active, IsCurrent, managerVars
<1>6. ClientsAreAlive'
  BY <1>1, <1>2 DEF ClientsAreAlive, Tracked, managerVars, historyVars
<1>7. ManagerTypeOK' /\ CallsTypeOK' /\ RpcTypeOK' /\ Generations' /\ OneInitialization'
  BY <1>1, <1>2 DEF ManagerTypeOK, CallsTypeOK, RpcTypeOK, Generations, OneInitialization, managerVars, historyVars
<1>8. Graces' /\ ClosedForGood' /\ RepliesAwaited' /\ MadeOnce' /\ KnownOrDisplaced'
  BY <1>1, <1>2 DEF Graces, Pending, Tracked, ClosedForGood, ClosedIn, RepliesAwaited, MadeOnce, KnownOrDisplaced, Known, managerVars, historyVars
<1>9. CreatedIsKept'
  BY <1>1, <1>2 DEF CreatedIsKept
<1>. QED
  BY <1>3, <1>4, <1>5, <1>6, <1>7, <1>8, <1>9

\* A new client is stored, late if its kernel has gone.
LEMMA OpenedInv ==
  ASSUME IInv, NEW c \in Comms, Opened(c), UNCHANGED rpc,
         wire' \in Seq(Message), queue' \in Seq(Message),
         ClosedIn(wire'), ClosedIn(queue'), UNCHANGED <<kernelVars, calls>>
  PROVE  IInv'
<1>. USE DEF IInv
<1>1. /\ Tracked' = Tracked \cup {c}
      /\ owner' \in [Comms -> {"none", "extHost", "mainThread"}] /\ connected' \subseteq Comms
      /\ knownId' \in [Types -> Comms \cup {None}] /\ seen' \subseteq Comms
      /\ displaced' \subseteq Comms /\ displaced \subseteq displaced'
      /\ KnownOrDisplaced'
  <2>1. CASE c \in Tracked
    BY <2>1 DEF Opened, managerVars, historyVars, Tracked, KnownOrDisplaced, Known, ManagerTypeOK, RpcTypeOK
  <2>2. CASE c \notin Tracked
    BY <2>2, StoreFacts DEF Opened
  <2>. QED
    BY <2>1, <2>2
<1>2. /\ UNCHANGED <<generation, initializing, disposed, made>>
      /\ late \subseteq late' /\ late' \subseteq Comms
      /\ c \in Tracked \/ c \in late' \/ (~exited /\ born[c] = life)
  BY DEF Opened, managerVars, historyVars, RpcTypeOK
<1>3. KernelTypeOK'
  BY DEF KernelTypeOK, kernelVars
<1>4. ClosedForGood'
  BY DEF ClosedForGood, ClosedIn, kernelVars
<1>5. ManagerTypeOK'
  BY <1>1, <1>2 DEF ManagerTypeOK
<1>6. RpcTypeOK'
  BY <1>1, <1>2 DEF RpcTypeOK
<1>7. Graces'
  BY <1>1, <1>2 DEF Graces, Pending
<1>8. ClientsAreAlive'
  BY <1>1, <1>2 DEF ClientsAreAlive, kernelVars
<1>9. CreatedIsKept'
  BY <1>1, <1>2 DEF CreatedIsKept, kernelVars
<1>10. CallsTypeOK' /\ Generations' /\ OneInitialization' /\ KernelOpen' /\ CurrentKnows'
  BY <1>1, <1>2 DEF CallsTypeOK, Generations, OneInitialization, KernelOpen, CurrentKnows, Active, IsCurrent, kernelVars
<1>11. RepliesAwaited' /\ MadeOnce' /\ KnownOrDisplaced'
  BY <1>1, <1>2 DEF RepliesAwaited, MadeOnce, kernelVars
<1>. QED
  BY <1>3, <1>4, <1>5, <1>6, <1>7, <1>8, <1>9, <1>10, <1>11

\* A client is closed by the kernel, and forgotten.
LEMMA ClosedInv ==
  ASSUME IInv, NEW c \in Comms, c \notin open, Closed(c), UNCHANGED historyVars,
         wire' \in Seq(Message), queue' \in Seq(Message),
         ClosedIn(wire'), ClosedIn(queue'), UNCHANGED <<kernelVars, calls>>
  PROVE  IInv'
<1>. USE DEF IInv
<1>1. Tracked' = Tracked \ {c} /\ UNCHANGED <<generation, initializing, disposed>>
  BY DEF Closed, Tracked, ManagerTypeOK
<1>2. /\ rpc' \in [Rpcs -> Rpc]
      /\ \A r \in Rpcs : rpc'[r].grace => rpc'[r] = rpc[r] /\ ~(Pending(r) /\ rpc[r].comm = c /\ c \in Tracked)
  BY CancelledFacts DEF Closed, RpcTypeOK
<1>3. /\ owner' \in [Comms -> {"none", "extHost", "mainThread"}]
      /\ connected' \subseteq Comms
      /\ knownId' \in [Types -> Comms \cup {None}]
  BY DEF Closed, KnownWithout, ManagerTypeOK
<1>4. Known \ {c} \subseteq Known'
  BY DEF Closed, KnownWithout, Known
<1>5. KernelTypeOK'
  BY DEF KernelTypeOK, kernelVars
<1>6. ClosedForGood'
  BY DEF ClosedForGood, ClosedIn, kernelVars
<1>7. ManagerTypeOK'
  BY <1>1, <1>2, <1>3, <1>4 DEF ManagerTypeOK
<1>8. RpcTypeOK'
  BY <1>1, <1>2, <1>3, <1>4 DEF RpcTypeOK, historyVars
<1>9. Graces'
  BY <1>1, <1>2, <1>3, <1>4 DEF Graces, Pending
<1>10. KnownOrDisplaced'
  BY <1>1, <1>2, <1>3, <1>4 DEF KnownOrDisplaced, historyVars
<1>11. ClientsAreAlive'
  BY <1>1, <1>2, <1>3, <1>4 DEF ClientsAreAlive, kernelVars, historyVars
<1>12. CreatedIsKept'
  BY <1>1, <1>2, <1>3, <1>4 DEF CreatedIsKept, kernelVars, historyVars
<1>13. CallsTypeOK' /\ Generations' /\ OneInitialization' /\ KernelOpen' /\ CurrentKnows'
  BY <1>1, <1>2, <1>3, <1>4 DEF CallsTypeOK, Generations, OneInitialization, KernelOpen, CurrentKnows, Active, IsCurrent, kernelVars
<1>14. RepliesAwaited' /\ MadeOnce'
  BY <1>1, <1>2, <1>3, <1>4 DEF RepliesAwaited, MadeOnce, kernelVars, historyVars
<1>. QED
  BY <1>5, <1>6, <1>7, <1>8, <1>9, <1>10, <1>11, <1>12, <1>13, <1>14

\* A reply settles its RPC.
LEMMA RepliedInv ==
  ASSUME IInv, NEW r \in Rpcs, Replied(r), UNCHANGED <<managerVars, historyVars>>,
         wire' \in Seq(Message), queue' \in Seq(Message),
         ClosedIn(wire'), ClosedIn(queue'), UNCHANGED <<kernelVars, calls>>
  PROVE  IInv'
<1>. USE DEF IInv
<1>1. rpc \in [Rpcs -> Rpc]
  BY DEF RpcTypeOK
<1>2. rpc' = rpc \/ rpc' = [rpc EXCEPT ![r] = [@ EXCEPT !.state = "answered", !.grace = FALSE]]
  BY DEF Replied
<1>3. [rpc[r] EXCEPT !.state = "answered", !.grace = FALSE] \in Rpc
  BY <1>1 DEF Rpc
<1>4. rpc' \in [Rpcs -> Rpc]
  BY <1>1, <1>2, <1>3
<1>5. \A s \in Rpcs : rpc'[s].grace => rpc'[s] = rpc[s]
  BY <1>1, <1>2 DEF Rpc
<1>6. KernelTypeOK'
  BY DEF KernelTypeOK, kernelVars
<1>7. ClosedForGood'
  BY DEF ClosedForGood, ClosedIn, kernelVars
<1>8. RpcTypeOK'
  BY <1>1, <1>2, <1>3, <1>4, <1>5 DEF RpcTypeOK, historyVars
<1>9. Graces'
  BY <1>1, <1>2, <1>3, <1>4, <1>5 DEF Graces, Pending, Tracked, managerVars
<1>10. ManagerTypeOK' /\ CallsTypeOK' /\ Generations' /\ OneInitialization' /\ KernelOpen'
  BY <1>1, <1>2, <1>3, <1>4, <1>5 DEF ManagerTypeOK, CallsTypeOK, Generations, OneInitialization, KernelOpen, kernelVars, managerVars
<1>11. CurrentKnows' /\ RepliesAwaited' /\ MadeOnce' /\ KnownOrDisplaced' /\ ClientsAreAlive'
  BY <1>1, <1>2, <1>3, <1>4, <1>5 DEF CurrentKnows, Active, IsCurrent, RepliesAwaited, MadeOnce, KnownOrDisplaced, Tracked, Known, ClientsAreAlive, kernelVars, managerVars, historyVars
<1>12. CreatedIsKept'
  BY <1>1, <1>2, <1>3, <1>4, <1>5 DEF CreatedIsKept, Tracked, kernelVars, managerVars, historyVars
<1>. QED
  BY <1>6, <1>7, <1>8, <1>9, <1>10, <1>11, <1>12

\* What the kernel does starts the completion timer of an RPC, or stops it.
LEMMA WorkedInv ==
  ASSUME IInv, NEW r \in Rpcs, NEW s \in {"busy", "idle"}, Worked(r, s), UNCHANGED <<managerVars, historyVars>>,
         wire' \in Seq(Message), queue' \in Seq(Message),
         ClosedIn(wire'), ClosedIn(queue'), UNCHANGED <<kernelVars, calls>>
  PROVE  IInv'
<1>. USE DEF IInv
<1>1. rpc \in [Rpcs -> Rpc] /\ rpc[r] \in Rpc
  BY DEF RpcTypeOK
<1>2. rpc' = [rpc EXCEPT ![r] = IF rpc[r].comm \in Tracked /\ Pending(r)
                                THEN [rpc[r] EXCEPT !.told = s, !.grace = s = "idle"]
                                ELSE [rpc[r] EXCEPT !.told = s]]
  BY <1>1 DEF Worked
<1>3. [rpc[r] EXCEPT !.told = s] \in Rpc
  BY <1>1 DEF Rpc
<1>4. [rpc[r] EXCEPT !.told = s, !.grace = s = "idle"] \in Rpc
  BY <1>1 DEF Rpc
<1>5. rpc' \in [Rpcs -> Rpc] /\ \A q \in Rpcs : q # r => rpc'[q] = rpc[q]
  BY <1>1, <1>2, <1>3, <1>4
<1>6. rpc'[r].grace => Pending(r)' /\ rpc'[r].told = "idle" /\ rpc'[r].comm \in Tracked
  <2>1. CASE rpc[r].comm \in Tracked /\ Pending(r)
    <3>1. rpc'[r] = [rpc[r] EXCEPT !.told = s, !.grace = s = "idle"]
      BY <1>1, <1>2, <2>1
    <3>2. /\ rpc'[r].told = s /\ rpc'[r].grace = (s = "idle")
          /\ rpc'[r].comm = rpc[r].comm /\ rpc'[r].state = rpc[r].state
      BY <1>1, <3>1
    <3>. QED
      BY <2>1, <3>2 DEF Pending
  <2>2. CASE ~(rpc[r].comm \in Tracked /\ Pending(r))
    <3>1. rpc'[r] = [rpc[r] EXCEPT !.told = s] /\ ~rpc[r].grace
      BY <1>1, <1>2, <2>2 DEF Graces
    <3>2. rpc'[r].grace = rpc[r].grace
      BY <1>1, <3>1
    <3>. QED
      BY <3>1, <3>2
  <2>. QED
    BY <2>1, <2>2
<1>7. KernelTypeOK'
  BY DEF KernelTypeOK, kernelVars
<1>8. ClosedForGood'
  BY DEF ClosedForGood, ClosedIn, kernelVars
<1>9. RpcTypeOK'
  BY <1>1, <1>2, <1>3, <1>4, <1>5, <1>6 DEF RpcTypeOK, historyVars
<1>10. Graces'
  BY <1>1, <1>2, <1>3, <1>4, <1>5, <1>6 DEF Graces, Pending, Tracked, managerVars
<1>11. ManagerTypeOK' /\ CallsTypeOK' /\ Generations' /\ OneInitialization' /\ KernelOpen'
  BY <1>1, <1>2, <1>3, <1>4, <1>5, <1>6 DEF ManagerTypeOK, CallsTypeOK, Generations, OneInitialization, KernelOpen, kernelVars, managerVars
<1>12. CurrentKnows' /\ RepliesAwaited' /\ MadeOnce' /\ KnownOrDisplaced' /\ ClientsAreAlive'
  BY <1>1, <1>2, <1>3, <1>4, <1>5, <1>6 DEF CurrentKnows, Active, IsCurrent, RepliesAwaited, MadeOnce, KnownOrDisplaced, Tracked, Known, ClientsAreAlive, kernelVars, managerVars, historyVars
<1>13. CreatedIsKept'
  BY <1>1, <1>2, <1>3, <1>4, <1>5, <1>6 DEF CreatedIsKept, Tracked, kernelVars, managerVars, historyVars
<1>. QED
  BY <1>7, <1>8, <1>9, <1>10, <1>11, <1>12, <1>13

\* A message waits in the event queue.
LEMMA WaitsInv ==
  ASSUME IInv, UNCHANGED <<managerVars, rpc, historyVars>>,
         wire' \in Seq(Message), queue' \in Seq(Message),
         ClosedIn(wire'), ClosedIn(queue'), UNCHANGED <<kernelVars, calls>>
  PROVE  IInv'
<1>. USE DEF IInv
<1>1. KernelTypeOK'
  BY DEF KernelTypeOK, kernelVars
<1>2. ClosedForGood'
  BY DEF ClosedForGood, ClosedIn, kernelVars
<1>3. Graces'
  BY DEF Graces, Pending, Tracked, managerVars
<1>4. CreatedIsKept'
  BY DEF CreatedIsKept, Tracked, kernelVars, managerVars, historyVars
<1>5. ManagerTypeOK' /\ CallsTypeOK' /\ RpcTypeOK' /\ Generations' /\ OneInitialization'
  BY DEF ManagerTypeOK, CallsTypeOK, RpcTypeOK, Generations, OneInitialization, managerVars, historyVars
<1>6. KernelOpen' /\ CurrentKnows' /\ RepliesAwaited' /\ MadeOnce' /\ KnownOrDisplaced'
  BY DEF KernelOpen, CurrentKnows, Active, IsCurrent, RepliesAwaited, MadeOnce, KnownOrDisplaced, Tracked, Known, kernelVars, managerVars, historyVars
<1>7. ClientsAreAlive'
  BY DEF ClientsAreAlive, Tracked, kernelVars, managerVars, historyVars
<1>. QED
  BY <1>1, <1>2, <1>3, <1>4, <1>5, <1>6, <1>7

\* Any message that reaches the clients.
LEMMA ReceiveInv ==
  ASSUME IInv, NEW m \in Message, m.kind = "closed" => m.comm \notin open, Receive(m),
         wire' \in Seq(Message), queue' \in Seq(Message),
         ClosedIn(wire'), ClosedIn(queue'), UNCHANGED <<kernelVars, calls>>
  PROVE  IInv'
<1>1. CASE m.kind = "open"
  <2>1. m.comm \in Comms /\ Opened(m.comm) /\ UNCHANGED rpc
    BY <1>1 DEF Receive, Message
  <2>. QED
    BY <2>1, OpenedInv
<1>2. CASE m.kind = "closed"
  <2>1. m.comm \in Comms /\ Closed(m.comm) /\ UNCHANGED historyVars
    BY <1>2 DEF Receive, Message
  <2>. QED
    BY <1>2, <2>1, ClosedInv
<1>3. CASE m.kind = "reply"
  <2>1. m.rpc \in Rpcs /\ Replied(m.rpc) /\ UNCHANGED <<managerVars, historyVars>>
    BY <1>3 DEF Receive, Message
  <2>. QED
    BY <2>1, RepliedInv
<1>4. CASE m.kind \notin {"open", "closed", "reply"}
  <2>1. m.rpc \in Rpcs /\ m.kind \in {"busy", "idle"}
    BY <1>4 DEF Message
  <2>2. Worked(m.rpc, m.kind) /\ UNCHANGED <<managerVars, historyVars>>
    BY <1>4 DEF Receive
  <2>. QED
    BY <2>1, <2>2, WorkedInv
<1>. QED
  BY <1>1, <1>2, <1>3, <1>4

LEMMA DeliverInv == IInv /\ Deliver => IInv'
<1>. SUFFICES ASSUME IInv, Deliver PROVE IInv'
  OBVIOUS
<1>1. /\ queue' = Tail(queue) /\ Receive(Head(queue))
      /\ UNCHANGED <<kernelVars, wire, calls>>
      /\ queue # <<>> /\ queue \in Seq(Message) /\ wire \in Seq(Message)
      /\ ClosedIn(wire) /\ ClosedIn(queue)
  BY DEF Deliver, IInv, KernelTypeOK, ClosedForGood
<1>2. /\ Head(queue) \in Message
      /\ Head(queue).kind = "closed" => Head(queue).comm \notin open
      /\ queue' \in Seq(Message) /\ ClosedIn(queue')
  BY <1>1, ClosedTail
<1>. QED
  BY <1>1, <1>2, ReceiveInv

LEMMA ArriveInv == IInv /\ Arrive => IInv'
<1>. SUFFICES ASSUME IInv, Arrive PROVE IInv'
  OBVIOUS
<1>. DEFINE m == Head(wire)
<1>1. /\ wire' = Tail(wire) /\ UNCHANGED <<kernelVars, calls>>
      /\ wire # <<>> /\ queue \in Seq(Message) /\ wire \in Seq(Message)
      /\ ClosedIn(wire) /\ ClosedIn(queue)
  BY DEF Arrive, IInv, KernelTypeOK, ClosedForGood
<1>2. /\ m \in Message /\ (m.kind = "closed" => m.comm \notin open /\ born[m.comm] # 0)
      /\ wire' \in Seq(Message) /\ ClosedIn(wire')
  BY <1>1, ClosedTail
<1>3. CASE HandledOnArrival(m)
  BY <1>1, <1>2, <1>3, ReceiveInv DEF Arrive
<1>4. CASE ~HandledOnArrival(m)
  <2>1. queue' = Append(queue, m) /\ UNCHANGED <<managerVars, rpc, historyVars>>
    BY <1>4 DEF Arrive
  <2>2. queue' \in Seq(Message) /\ ClosedIn(queue')
    BY <1>1, <1>2, <2>1, ClosedAppend
  <2>. QED
    BY <1>1, <1>2, <2>1, <2>2, WaitsInv
<1>. QED
  BY <1>3, <1>4

\* The exit of the kernel is reported: every client ends, and so does the generation.
LEMMA ExitReportedInv ==
  ASSUME IInv, ExitReported
  PROVE  IInv'
<1>. USE DEF IInv
<1>1. /\ generation' = generation + 1 /\ initializing' = 0 /\ generation \in Nat
      /\ UNCHANGED calls
  BY DEF ExitReported, Forgets, ManagerTypeOK
<1>2. Tracked' = {}
  BY DEF ExitReported, Tracked
<1>3. /\ rpc' \in [Rpcs -> Rpc]
      /\ \A r \in Rpcs : rpc'[r].grace => rpc'[r] = rpc[r] /\ ~(Pending(r) /\ rpc[r].comm \in Tracked)
  <2>1. rpc' = Cancelled(Tracked) /\ Tracked \subseteq Comms
    BY DEF ExitReported, Tracked
  <2>. QED
    BY <2>1, CancelledFacts
<1>4. \A k \in Inits : calls[k].gen <= generation /\ calls[k].gen \in Nat
  BY DEF Generations, CallsTypeOK, Call
<1>5. \A k \in Inits : calls[k].gen # generation' /\ calls[k].gen <= generation' /\ k # 0
  BY <1>1, <1>4 DEF Inits
<1>6. KernelTypeOK'
  BY <1>1, <1>2, <1>3, <1>4, <1>5 DEF KernelTypeOK, ExitReported
<1>7. ManagerTypeOK'
  BY <1>1, <1>2, <1>3, <1>4, <1>5 DEF ManagerTypeOK, ExitReported
<1>8. RpcTypeOK'
  BY <1>1, <1>2, <1>3, <1>4, <1>5 DEF RpcTypeOK, ExitReported, historyVars
<1>9. Generations'
  BY <1>1, <1>5 DEF Generations
<1>10. OneInitialization'
  BY <1>1, <1>5 DEF OneInitialization
<1>11. Graces'
  BY <1>2, <1>3 DEF Graces
<1>12. KernelOpen'
  BY <1>1, <1>2, <1>3, <1>4, <1>5 DEF KernelOpen, ExitReported
<1>13. CurrentKnows'
  BY <1>1, <1>5 DEF CurrentKnows, IsCurrent
<1>14. KnownOrDisplaced'
  BY <1>2 DEF KnownOrDisplaced
<1>15. ClientsAreAlive'
  BY <1>2 DEF ClientsAreAlive
<1>16. CreatedIsKept'
  BY DEF CreatedIsKept, ExitReported, KernelOpen
<1>17. CallsTypeOK' /\ ClosedForGood' /\ RepliesAwaited' /\ MadeOnce'
  BY <1>1, <1>2, <1>3, <1>4, <1>5 DEF CallsTypeOK, ClosedForGood, ClosedIn, RepliesAwaited, MadeOnce, ExitReported, historyVars
<1>. QED
  BY <1>6, <1>7, <1>8, <1>9, <1>10, <1>11, <1>12, <1>13, <1>14, <1>15, <1>16, <1>17

\* The manager is disposed of, and removes the known clients from the kernel.
LEMMA DisposeInv ==
  ASSUME IInv, Dispose
  PROVE  IInv'
<1>. USE DEF IInv
<1>1. /\ generation' = generation + 1 /\ initializing' = 0 /\ generation \in Nat
      /\ UNCHANGED calls
  BY DEF Dispose, Forgets, ManagerTypeOK
<1>2. Tracked' = {}
  BY DEF Dispose, Tracked
<1>3. /\ rpc' \in [Rpcs -> Rpc]
      /\ \A r \in Rpcs : rpc'[r].grace => rpc'[r] = rpc[r] /\ ~(Pending(r) /\ rpc[r].comm \in Tracked)
  <2>1. rpc' = Cancelled(Tracked) /\ Tracked \subseteq Comms
    BY DEF Dispose, Tracked
  <2>. QED
    BY <2>1, CancelledFacts
<1>4. \A k \in Inits : calls[k].gen <= generation /\ calls[k].gen \in Nat
  BY DEF Generations, CallsTypeOK, Call
<1>5. \A k \in Inits : calls[k].gen # generation' /\ calls[k].gen <= generation' /\ k # 0
  BY <1>1, <1>4 DEF Inits
<1>6. open' \subseteq open /\ open' \cap Known = {} /\ disposed' = TRUE
      /\ UNCHANGED <<life, up, exited, born, wire, queue, historyVars>>
  BY DEF Dispose, OpenWithout, KernelOpen
<1>7. KernelTypeOK'
  BY <1>1, <1>2, <1>3, <1>4, <1>5, <1>6 DEF KernelTypeOK
<1>8. ManagerTypeOK'
  BY <1>1, <1>2, <1>3, <1>4, <1>5, <1>6 DEF ManagerTypeOK, Dispose
<1>9. RpcTypeOK'
  BY <1>1, <1>2, <1>3, <1>4, <1>5, <1>6 DEF RpcTypeOK, historyVars
<1>10. Generations'
  BY <1>1, <1>5 DEF Generations
<1>11. OneInitialization'
  BY <1>1, <1>5 DEF OneInitialization
<1>12. Graces'
  BY <1>2, <1>3 DEF Graces
<1>13. KernelOpen'
  BY <1>1, <1>2, <1>3, <1>4, <1>5, <1>6 DEF KernelOpen
<1>14. CurrentKnows'
  BY <1>1, <1>5 DEF CurrentKnows, IsCurrent
<1>15. ClosedForGood'
  BY <1>1, <1>2, <1>3, <1>4, <1>5, <1>6 DEF ClosedForGood, ClosedIn
<1>16. KnownOrDisplaced'
  BY <1>2 DEF KnownOrDisplaced
<1>17. ClientsAreAlive'
  BY <1>2 DEF ClientsAreAlive
<1>18. CreatedIsKept'
  <2>. SUFFICES ASSUME NEW c \in made \cap open', ~\E k \in Inits : calls[k].pc = "create" /\ calls[k].comm = c
                PROVE  c \in displaced
    BY <1>1, <1>6 DEF CreatedIsKept, historyVars
  <2>1. c \in Tracked \/ c \in displaced
    BY <1>6 DEF CreatedIsKept
  <2>. QED
    BY <1>6, <2>1 DEF KnownOrDisplaced
<1>19. CallsTypeOK' /\ RepliesAwaited' /\ MadeOnce'
  BY <1>1, <1>2, <1>3, <1>4, <1>5, <1>6 DEF CallsTypeOK, RepliesAwaited, MadeOnce, historyVars
<1>. QED
  BY <1>7, <1>8, <1>9, <1>10, <1>11, <1>12, <1>13, <1>14, <1>15, <1>16, <1>17, <1>18, <1>19

\* A call begins, and is the one that others join.
LEMMA InitializeInv ==
  ASSUME IInv, NEW k \in Inits, Initialize(k)
  PROVE  IInv'
<1>. USE DEF IInv
<1>. DEFINE x == [calls[k] EXCEPT !.pc = "restore", !.gen = generation]
<1>1. calls \in [Inits -> Call] /\ calls[k] \in Call /\ generation \in Nat
  BY DEF CallsTypeOK, ManagerTypeOK
<1>2. /\ ~disposed /\ ~exited /\ initializing = 0 /\ initializing' = k /\ calls[k].pc = "unused"
      /\ UNCHANGED <<kernelVars, wire, queue, owner, connected, knownId, generation,
                     disposed, rpc, historyVars>>
  BY DEF Initialize
<1>3. calls' = [calls EXCEPT ![k] = x]
  BY <1>1 DEF Initialize
<1>4. /\ x \in Call /\ x.pc = "restore" /\ x.gen = generation /\ x.step = calls[k].step
      /\ x.reply = calls[k].reply
  BY <1>1 DEF Call
<1>. HIDE DEF x
<1>5. calls' \in [Inits -> Call] /\ calls'[k] = x /\ \A j \in Inits : j # k => calls'[j] = calls[j]
  BY <1>1, <1>3, <1>4
<1>6. KernelTypeOK' /\ ManagerTypeOK' /\ RpcTypeOK'
  BY <1>2 DEF KernelTypeOK, ManagerTypeOK, RpcTypeOK, kernelVars, historyVars
<1>7. CallsTypeOK'
  BY <1>4, <1>5 DEF CallsTypeOK
<1>8. Generations'
  BY <1>1, <1>2, <1>4, <1>5 DEF Generations
<1>9. OneInitialization'
  <2>1. \A j \in Inits : j # 0
    BY DEF Inits
  <2>. QED
    BY <1>2, <1>4, <1>5, <2>1 DEF OneInitialization
<1>10. Graces' /\ KernelOpen' /\ ClosedForGood' /\ MadeOnce' /\ KnownOrDisplaced' /\ ClientsAreAlive'
  BY <1>2 DEF Graces, Pending, Tracked, KernelOpen, ClosedForGood, ClosedIn, MadeOnce,
              KnownOrDisplaced, Known, ClientsAreAlive, kernelVars, historyVars
<1>11. CurrentKnows'
  <2>1. calls[k].reply = None
    BY <1>2 DEF RepliesAwaited
  <2>. QED
    BY <1>2, <1>4, <1>5, <2>1 DEF CurrentKnows, Active, IsCurrent, kernelVars
<1>12. CreatedIsKept'
  BY <1>2, <1>4, <1>5 DEF CreatedIsKept, Tracked, kernelVars, historyVars
<1>13. RepliesAwaited'
  BY <1>2, <1>4, <1>5 DEF RepliesAwaited
<1>. QED
  BY <1>6, <1>7, <1>8, <1>9, <1>10, <1>11, <1>12, <1>13

\* The kernel answers with comms it has open.
LEMMA KernelListsInv ==
  ASSUME IInv, NEW k \in Inits, KernelLists(k)
  PROVE  IInv'
<1>. USE DEF IInv
<1>1. /\ calls \in [Inits -> Call] /\ calls[k] \in Call /\ calls[k].pc \in {"restore", "list"} /\ up
      /\ UNCHANGED <<kernelVars, wire, queue, managerVars, rpc, historyVars>>
  BY DEF CallsTypeOK, KernelLists
<1>2. PICK cs \in SUBSET open : calls' = [calls EXCEPT ![k] = [@ EXCEPT !.reply = cs]]
  BY <1>1 DEF KernelLists
<1>. DEFINE x == [calls[k] EXCEPT !.reply = cs]
<1>3. cs \subseteq Comms /\ \A c \in cs : born[c] = life
  BY DEF KernelTypeOK, KernelOpen
<1>4. /\ x \in Call /\ x.pc = calls[k].pc /\ x.gen = calls[k].gen /\ x.step = calls[k].step
      /\ x.comm = calls[k].comm /\ x.reply = cs
  BY <1>1, <1>3 DEF Call
<1>5. calls' = [calls EXCEPT ![k] = x]
  BY <1>1, <1>2
<1>. HIDE DEF x
<1>6. calls' \in [Inits -> Call] /\ calls'[k] = x /\ \A j \in Inits : j # k => calls'[j] = calls[j]
  BY <1>1, <1>4, <1>5
<1>7. CallsTypeOK'
  BY <1>4, <1>6 DEF CallsTypeOK
<1>8. Generations'
  BY <1>1, <1>4, <1>6 DEF Generations, managerVars
<1>9. OneInitialization'
  BY <1>1, <1>4, <1>6 DEF OneInitialization, managerVars
<1>10. CurrentKnows'
  BY <1>1, <1>3, <1>4, <1>6 DEF CurrentKnows, Active, IsCurrent, kernelVars, managerVars
<1>11. RepliesAwaited'
  BY <1>1, <1>4, <1>6 DEF RepliesAwaited
<1>12. CreatedIsKept'
  BY <1>1, <1>4, <1>6 DEF CreatedIsKept, Tracked, kernelVars, managerVars, historyVars
<1>13. KernelTypeOK' /\ ManagerTypeOK' /\ RpcTypeOK' /\ Graces' /\ KernelOpen'
  BY <1>1, <1>2, <1>3, <1>4, <1>5, <1>6 DEF KernelTypeOK, ManagerTypeOK, RpcTypeOK, Graces, Pending, Tracked, KernelOpen, kernelVars, managerVars, historyVars
<1>14. ClosedForGood' /\ MadeOnce' /\ KnownOrDisplaced' /\ ClientsAreAlive'
  BY <1>1, <1>2, <1>3, <1>4, <1>5, <1>6 DEF ClosedForGood, ClosedIn, MadeOnce, KnownOrDisplaced, Tracked, Known, ClientsAreAlive, kernelVars, managerVars, historyVars
<1>. QED
  BY <1>7, <1>8, <1>9, <1>10, <1>11, <1>12, <1>13, <1>14

\* Calls that end or go on without a change of the clients.
LEMMA StaleInv ==
  ASSUME IInv, NEW k \in Inits, Stale(k)
  PROVE  IInv'
<1>1. Active(k) /\ calls[k].pc # "create" /\ Ends(k)
      /\ UNCHANGED <<kernelVars, wire, queue, owner, connected, knownId, generation,
                     disposed, rpc, historyVars>>
  BY DEF Stale, Active
<1>. QED
  BY <1>1, EndsMoves, MovesAlone

LEMMA FinishInv ==
  ASSUME IInv, NEW k \in Inits, Finish(k)
  PROVE  IInv'
<1>1. Active(k) /\ calls[k].pc # "create" /\ Ends(k)
      /\ UNCHANGED <<kernelVars, wire, queue, owner, connected, knownId, generation,
                     disposed, rpc, historyVars>>
  BY DEF Finish, Active
<1>. QED
  BY <1>1, EndsMoves, MovesAlone

LEMMA ListFailsInv ==
  ASSUME IInv, NEW k \in Inits, ListFails(k)
  PROVE  IInv'
<1>1. /\ Active(k) /\ calls[k].pc \in {"restore", "list"}
      /\ UNCHANGED <<kernelVars, wire, queue, owner, connected, knownId, generation,
                     disposed, rpc, historyVars>>
  BY DEF ListFails, Active
<1>2. initializing \in Inits \cup {0}
  BY DEF IInv, ManagerTypeOK
<1>3. CASE Ends(k)
  BY <1>1, <1>3, EndsMoves, MovesAlone
<1>4. CASE GoesOn(k, "step")
  <2>1. Moves(k) /\ calls'[k].pc = "step"
    BY <1>1, <1>4, GoesOnMoves
  <2>. QED
    BY <1>1, <1>2, <1>4, <2>1, MovesAlone DEF GoesOn
<1>5. CASE NextType(k) /\ calls[k].pc = "list"
  <2>1. calls[k].step <= Len(Order)
    BY <1>5 DEF IInv, CallsTypeOK
  <2>2. Moves(k) /\ calls'[k].pc = "step"
    BY <1>1, <1>5, <2>1, NextTypeMoves
  <2>. QED
    BY <1>1, <1>2, <1>5, <2>2, MovesAlone DEF NextType
<1>6. Ends(k) \/ GoesOn(k, "step") \/ (NextType(k) /\ calls[k].pc = "list")
  BY <1>1 DEF ListFails
<1>. QED
  BY <1>3, <1>4, <1>5, <1>6

LEMMA CreateFailsInv ==
  ASSUME IInv, NEW k \in Inits, CreateFails(k)
  PROVE  IInv'
<1>1. /\ Active(k) /\ calls[k].pc = "create" /\ calls[k].comm = None
      /\ UNCHANGED <<kernelVars, wire, queue, owner, connected, knownId, generation,
                     disposed, rpc, historyVars>>
  BY DEF CreateFails, Active
<1>2. initializing \in Inits \cup {0} /\ calls[k].step <= Len(Order)
  BY <1>1 DEF IInv, ManagerTypeOK, CallsTypeOK
<1>3. CASE Ends(k)
  BY <1>1, <1>3, EndsMoves, MovesAlone
<1>4. CASE NextType(k)
  BY <1>1, <1>2, <1>4, NextTypeMoves, MovesAlone DEF NextType
<1>. QED
  BY <1>3, <1>4 DEF CreateFails

\* A call asks for a client of a type and gets none from the kernel.
LEMMA CreateUnsentInv ==
  ASSUME IInv, NEW k \in Inits, CreateUnsent(k), calls[k].pc \in {"step", "list"},
         calls[k].step \in DOMAIN Order
  PROVE  IInv'
<1>1. /\ Active(k) /\ calls[k].pc # "create"
      /\ calls' = [calls EXCEPT ![k].pc = "create", ![k].comm = None, ![k].reply = None]
      /\ UNCHANGED <<kernelVars, wire, queue, managerVars, rpc, historyVars>>
  BY DEF CreateUnsent, Active
<1>2. Moves(k) /\ calls'[k].comm = None
  BY <1>1, CreatesMoves DEF managerVars
<1>3. initializing' \in Inits \cup {0}
  BY <1>1 DEF IInv, ManagerTypeOK, managerVars
<1>. QED
  BY <1>1, <1>2, <1>3, MovesAlone DEF managerVars

\* A comm is created for a client, with an id not used before.
LEMMA CreateInv ==
  ASSUME IInv, NEW k \in Inits, NEW c \in Comms, Create(k, c), calls[k].pc \in {"step", "list"},
         calls[k].step \in DOMAIN Order, IsCurrent(k)
  PROVE  IInv'
<1>. USE DEF IInv
<1>1. /\ Active(k) /\ born[c] = 0 /\ born' = [born EXCEPT ![c] = life]
      /\ made' = made \cup {c} /\ open' = (IF up THEN open \cup {c} ELSE open)
      /\ calls' = [calls EXCEPT ![k].pc = "create", ![k].comm = c, ![k].reply = None]
      /\ UNCHANGED <<life, up, exited, wire, queue, managerVars, rpc, seen, late, displaced>>
  BY DEF Create, New, Unused, Active
<1>2. Moves(k) /\ calls'[k].pc = "create" /\ calls'[k].comm = c
  BY <1>1, CreatesMoves DEF managerVars
<1>3. KernelTypeOK'
  BY <1>1 DEF KernelTypeOK
<1>4. ManagerTypeOK'
  BY <1>1 DEF ManagerTypeOK, managerVars
<1>5. CallsTypeOK'
  BY <1>2 DEF Moves
<1>6. RpcTypeOK'
  BY <1>1 DEF RpcTypeOK
<1>7. Generations'
  BY <1>2 DEF Moves
<1>8. OneInitialization'
  BY <1>2 DEF Moves
<1>9. KernelOpen'
  BY <1>1 DEF KernelTypeOK, KernelOpen
<1>10. ClosedForGood'
  BY <1>1 DEF ClosedForGood, ClosedIn
<1>11. CurrentKnows'
  <2>1. ASSUME NEW j \in Inits, Active(j)', IsCurrent(j)'
        PROVE  /\ ~exited
               /\ calls'[j].reply # None => \A d \in calls'[j].reply : born'[d] = life
               /\ calls'[j].pc = "create" /\ calls'[j].comm # None => born'[calls'[j].comm] = life
    <3>1. \A d \in Comms : born[d] = life => born'[d] = life
      BY <1>1
    <3>2. CASE j = k
      BY <1>1, <1>2, <3>2 DEF Moves, CurrentKnows, KernelTypeOK
    <3>3. CASE j # k
      <4>1. calls'[j] = calls[j] /\ Active(j) /\ IsCurrent(j) /\ calls[j] \in Call
        BY <1>1, <1>2, <2>1, <3>3 DEF Active, IsCurrent, managerVars, CallsTypeOK
      <4>. QED
        BY <3>1, <4>1 DEF CurrentKnows, Call
    <3>. QED
      BY <3>2, <3>3
  <2>. QED
    BY <1>1, <2>1 DEF CurrentKnows
<1>12. RepliesAwaited'
  BY <1>2 DEF Moves, RepliesAwaited
<1>13. MadeOnce'
  BY <1>1 DEF MadeOnce, KernelTypeOK, KernelOpen
<1>14. ClientsAreAlive'
  BY <1>1 DEF ClientsAreAlive, Tracked, managerVars
<1>15. CreatedIsKept'
  <2>. SUFFICES ASSUME NEW d \in made' \cap open', d \notin Tracked, ~(disposed /\ d \in displaced)
                PROVE  \E j \in Inits : calls'[j].pc = "create" /\ calls'[j].comm = d
    BY <1>1 DEF CreatedIsKept, Tracked, managerVars
  <2>1. CASE d = c
    BY <1>2, <2>1
  <2>2. CASE d # c
    <3>1. d \in made \cap open
      BY <1>1, <2>2
    <3>2. PICK j \in Inits : calls[j].pc = "create" /\ calls[j].comm = d
      BY <3>1 DEF CreatedIsKept
    <3>3. j # k
      BY <3>2
    <3>. QED
      BY <1>2, <3>2, <3>3 DEF Moves
  <2>. QED
    BY <2>1, <2>2
<1>16. Graces' /\ KnownOrDisplaced'
  BY <1>1, <1>2 DEF Graces, Pending, Tracked, KnownOrDisplaced, Known, managerVars
<1>. QED
  BY <1>3, <1>4, <1>5, <1>6, <1>7, <1>8, <1>9, <1>10, <1>11, <1>12, <1>13, <1>14, <1>15, <1>16

\* A client becomes the known one of its type, in place of another.
LEMMA TakesPlace ==
  ASSUME ManagerTypeOK, KnownOrDisplaced, NEW t \in Types, NEW c \in Comms,
         knownId' = [knownId EXCEPT ![t] = c],
         displaced' = displaced \cup ({knownId[t]} \cap (Comms \ {c})),
         Tracked' = Tracked
  PROVE  KnownOrDisplaced'
<1>1. knownId'[t] = c /\ \A u \in Types : u # t => knownId'[u] = knownId[u]
  BY DEF ManagerTypeOK
<1>2. Known \subseteq Known' \cup displaced'
  BY <1>1 DEF Known
<1>. QED
  BY <1>2 DEF KnownOrDisplaced

\* The next type of a call.
LEMMA StepInv ==
  ASSUME IInv, NEW k \in Inits, Step(k)
  PROVE  IInv'
<1>. DEFINE t == Order[calls[k].step]
<1>1. /\ Active(k) /\ IsCurrent(k) /\ calls[k].pc = "step" /\ calls[k].step <= Len(Order)
      /\ calls[k].step \in DOMAIN Order /\ t \in Types
  BY OrderAssumption DEF Step, Active, IInv, CallsTypeOK
<1>2. ASSUME NEW c \in OfType(t), knownId' = [knownId EXCEPT ![t] = c],
             displaced' = displaced \cup ({knownId[t]} \cap (Comms \ {c})),
             NextType(k),
             UNCHANGED <<kernelVars, wire, queue, owner, connected, generation,
                         disposed, rpc, made, seen, late>>
      PROVE  IInv'
  <2>1. Moves(k) /\ calls'[k].pc = "step" /\ initializing' = initializing
    BY <1>1, <1>2, NextTypeMoves DEF NextType
  <2>2. Tracked' = Tracked
    BY <1>2 DEF Tracked
  <2>3. c \in Comms
    BY DEF OfType, Tracked
  <2>4. KnownOrDisplaced'
    BY <1>1, <1>2, <2>2, <2>3, TakesPlace DEF IInv
  <2>. QED
    BY <1>1, <1>2, <2>1, <2>2, <2>3, <2>4, MovesOn DEF IInv, ManagerTypeOK, RpcTypeOK
<1>3. ASSUME GoesOn(k, "list"),
             UNCHANGED <<kernelVars, wire, queue, owner, connected, knownId,
                         generation, disposed, rpc, historyVars>>
      PROVE  IInv'
  <2>1. Moves(k) /\ calls'[k].pc = "list" /\ initializing' = initializing
    BY <1>1, <1>3, GoesOnMoves DEF GoesOn
  <2>. QED
    BY <1>1, <1>3, <2>1, MovesAlone DEF IInv, ManagerTypeOK
<1>4. CASE CreateUnsent(k)
  BY <1>1, <1>4, CreateUnsentInv
<1>5. ASSUME NEW c \in Comms, Create(k, c) PROVE IInv'
  BY <1>1, <1>5, CreateInv
<1>. QED
  BY <1>2, <1>3, <1>4, <1>5 DEF Step

\* Help clients are listed.
LEMMA ListedInv ==
  ASSUME IInv, NEW k \in Inits, Listed(k)
  PROVE  IInv'
<1>1. /\ Active(k) /\ IsCurrent(k) /\ calls[k].pc = "list" /\ calls[k].step <= Len(Order)
      /\ calls[k].step \in DOMAIN Order /\ calls[k].reply # None
  BY DEF Listed, Active, IInv, CallsTypeOK
<1>2. CASE CreateUnsent(k)
  BY <1>1, <1>2, CreateUnsentInv
<1>3. ASSUME NEW c \in Comms, Create(k, c) PROVE IInv'
  BY <1>1, <1>3, CreateInv
<1>4. CASE calls[k].reply # {}
  <2>1. PICK c \in calls[k].reply :
          IF c \in Tracked
          THEN /\ knownId' = [knownId EXCEPT ![HelpType] = c]
               /\ displaced' = displaced \cup ({knownId[HelpType]} \cap (Comms \ {c}))
               /\ UNCHANGED <<owner, connected, seen>>
          ELSE Store({c})
    BY <1>4 DEF Listed
  <2>2. NextType(k) /\ UNCHANGED <<kernelVars, wire, queue, generation, disposed, rpc, made, late>>
    BY <1>4 DEF Listed
  <2>3. Moves(k) /\ calls'[k].pc = "step" /\ initializing' = initializing
    BY <1>1, <2>2, NextTypeMoves DEF NextType
  <2>4. c \in Comms /\ ~exited /\ born[c] = life
    BY <1>1 DEF IInv, CurrentKnows, CallsTypeOK, Call
  <2>5. CASE c \in Tracked
    <3>1. Tracked' = Tracked
      BY <2>1, <2>5 DEF Tracked
    <3>2. KnownOrDisplaced'
      BY <2>1, <2>4, <2>5, <3>1, TakesPlace, OrderAssumption DEF IInv
    <3>. QED
      BY <1>1, <2>1, <2>2, <2>3, <2>4, <2>5, <3>1, <3>2, MovesOn
         DEF IInv, ManagerTypeOK, RpcTypeOK
  <2>6. CASE c \notin Tracked
    <3>1. Store({c})
      BY <2>1, <2>6
    <3>. QED
      BY <1>1, <2>2, <2>3, <2>4, <3>1, StoreFacts, MovesOn DEF IInv, ManagerTypeOK
  <2>. QED
    BY <2>5, <2>6
<1>. QED
  BY <1>2, <1>3, <1>4 DEF Listed

\* The clients the kernel has are restored.
LEMMA RestoreInv ==
  ASSUME IInv, NEW k \in Inits, Restore(k)
  PROVE  IInv'
<1>. DEFINE cs == calls[k].reply \ Tracked
<1>1. /\ Active(k) /\ IsCurrent(k) /\ calls[k].pc = "restore" /\ calls[k].reply # None
      /\ Store(cs) /\ GoesOn(k, "step")
      /\ UNCHANGED <<kernelVars, wire, queue, generation, disposed, rpc, made, late>>
  BY DEF Restore, Active
<1>2. cs \in SUBSET Comms /\ \A c \in cs : ~exited /\ born[c] = life
  BY <1>1 DEF IInv, CurrentKnows, CallsTypeOK, Call
<1>3. Moves(k) /\ calls'[k].pc = "step" /\ initializing' = initializing
  BY <1>1, GoesOnMoves DEF GoesOn
<1>. QED
  BY <1>1, <1>2, <1>3, StoreFacts, MovesOn DEF IInv, ManagerTypeOK

\* The client a call has created is stored, or removed when the call is no
\* longer current.
LEMMA CreatedInv ==
  ASSUME IInv, NEW k \in Inits, Created(k)
  PROVE  IInv'
<1>. DEFINE c == calls[k].comm
<1>1. /\ Active(k) /\ calls[k].pc = "create" /\ c \in Comms /\ c # None
      /\ calls[k].step <= Len(Order)
      /\ UNCHANGED <<life, up, exited, born, wire, queue, generation, disposed, rpc, made, late>>
  BY DEF Created, Active, IInv, CallsTypeOK, Call
<1>2. CASE IsCurrent(k)
  <2>1. NextType(k) /\ UNCHANGED open
        /\ IF c \in Tracked
           THEN UNCHANGED <<owner, connected, knownId, seen, displaced>>
           ELSE Store({c})
    BY <1>2 DEF Created
  <2>2. Moves(k) /\ calls'[k].pc = "step" /\ initializing' = initializing
    BY <1>1, <2>1, NextTypeMoves DEF NextType
  <2>3. ~exited /\ born[c] = life
    BY <1>1, <1>2 DEF IInv, CurrentKnows
  <2>4. UNCHANGED kernelVars
    BY <1>1, <2>1 DEF kernelVars
  <2>5. CASE c \in Tracked
    <3>1. Tracked' = Tracked /\ KnownOrDisplaced'
      BY <2>1, <2>5 DEF IInv, Tracked, KnownOrDisplaced, Known
    <3>. QED
      BY <1>1, <2>1, <2>2, <2>4, <2>5, <3>1, MovesOn DEF IInv, ManagerTypeOK, RpcTypeOK
  <2>6. CASE c \notin Tracked
    <3>1. Store({c})
      BY <2>1, <2>6
    <3>. QED
      BY <1>1, <2>2, <2>3, <2>4, <3>1, StoreFacts, MovesOn DEF IInv, ManagerTypeOK
  <2>. QED
    BY <2>5, <2>6
<1>3. CASE ~IsCurrent(k)
  <2>. USE DEF IInv
  <2>1. /\ open' \subseteq open /\ c \notin open' /\ Ends(k)
        /\ UNCHANGED <<life, up, exited, born, wire, queue, owner, connected, knownId,
                       generation, disposed, rpc, historyVars>>
    BY <1>1, <1>3 DEF Created, RemovesCancelled, OpenWithout, KernelOpen, historyVars
  <2>2. Moves(k) /\ calls'[k].pc = "done" /\ initializing' \in Inits \cup {0}
    BY <1>1, <2>1, EndsMoves
  <2>3. KernelTypeOK' /\ ManagerTypeOK' /\ CallsTypeOK' /\ RpcTypeOK'
    BY <2>1, <2>2 DEF KernelTypeOK, ManagerTypeOK, RpcTypeOK, historyVars, Moves
  <2>4. Generations' /\ OneInitialization' /\ RepliesAwaited'
    BY <2>2 DEF Moves, RepliesAwaited
  <2>5. Graces' /\ KernelOpen' /\ ClosedForGood' /\ MadeOnce' /\ KnownOrDisplaced' /\ ClientsAreAlive'
    BY <2>1 DEF Graces, Pending, Tracked, KernelOpen, ClosedForGood, ClosedIn, MadeOnce,
                KnownOrDisplaced, Known, ClientsAreAlive, historyVars
  <2>6. CurrentKnows'
    BY <2>1, <2>2 DEF Moves, CurrentKnows, Active, IsCurrent
  <2>7. CreatedIsKept'
    <3>. SUFFICES ASSUME NEW d \in made \cap open', d \notin Tracked, ~(disposed /\ d \in displaced)
                  PROVE  \E j \in Inits : calls'[j].pc = "create" /\ calls'[j].comm = d
      BY <2>1 DEF CreatedIsKept, Tracked, historyVars
    <3>1. PICK j \in Inits : calls[j].pc = "create" /\ calls[j].comm = d
      BY <2>1 DEF CreatedIsKept
    <3>2. j # k
      BY <2>1, <3>1
    <3>. QED
      BY <2>2, <3>1, <3>2 DEF Moves
  <2>. QED
    BY <2>3, <2>4, <2>5, <2>6, <2>7
<1>. QED
  BY <1>2, <1>3

\* An RPC is started, or one of its timers fires: no other part is disturbed.
LEMMA RpcInv ==
  ASSUME IInv, rpc' \in [Rpcs -> Rpc], Graces',
         UNCHANGED <<kernelVars, wire, queue, managerVars, calls, historyVars>>
  PROVE  IInv'
<1>. USE DEF IInv
<1>1. KernelTypeOK' /\ ManagerTypeOK' /\ CallsTypeOK' /\ RpcTypeOK'
  BY DEF KernelTypeOK, ManagerTypeOK, CallsTypeOK, RpcTypeOK, kernelVars, managerVars, historyVars
<1>2. Generations' /\ OneInitialization' /\ RepliesAwaited' /\ CurrentKnows'
  BY DEF Generations, OneInitialization, RepliesAwaited, CurrentKnows, Active, IsCurrent,
         kernelVars, managerVars
<1>3. KernelOpen' /\ ClosedForGood' /\ MadeOnce'
  BY DEF KernelOpen, ClosedForGood, ClosedIn, MadeOnce, kernelVars, historyVars
<1>4. KnownOrDisplaced' /\ ClientsAreAlive' /\ CreatedIsKept'
  BY DEF KnownOrDisplaced, Known, Tracked, ClientsAreAlive, CreatedIsKept,
         kernelVars, managerVars, historyVars
<1>. QED
  BY <1>1, <1>2, <1>3, <1>4

LEMMA PerformRpcInv ==
  ASSUME IInv, NEW r \in Rpcs, NEW c \in Comms, NEW deadline \in BOOLEAN, PerformRpc(r, c, deadline)
  PROVE  IInv'
<1>. DEFINE x == [rpc[r] EXCEPT !.comm = c, !.state = "pending", !.timer = deadline,
                               !.kernel = IF c \in open THEN "asked" ELSE "unknown"]
<1>1. rpc \in [Rpcs -> Rpc] /\ rpc[r] \in Rpc /\ rpc[r].state = "unused"
  BY DEF IInv, RpcTypeOK, PerformRpc
<1>2. rpc' = [rpc EXCEPT ![r] = x]
  BY <1>1 DEF PerformRpc
<1>3. x \in Rpc
  BY <1>1 DEF Rpc
<1>4. ~rpc[r].grace
  BY <1>1 DEF IInv, Graces, Pending
<1>5. x.grace = rpc[r].grace
  BY <1>1
<1>. HIDE DEF x
<1>6. rpc' \in [Rpcs -> Rpc] /\ rpc'[r] = x /\ \A s \in Rpcs : s # r => rpc'[s] = rpc[s]
  BY <1>1, <1>2, <1>3
<1>7. UNCHANGED <<kernelVars, wire, queue, managerVars, calls, historyVars>>
  BY DEF PerformRpc
<1>8. Graces'
  BY <1>4, <1>5, <1>6, <1>7 DEF IInv, Graces, Pending, Tracked, managerVars
<1>. QED
  BY <1>6, <1>7, <1>8, RpcInv

LEMMA DeadlinePassesInv ==
  ASSUME IInv, NEW r \in Rpcs, DeadlinePasses(r)
  PROVE  IInv'
<1>. DEFINE x == [rpc[r] EXCEPT !.timer = FALSE, !.state = "failed", !.grace = FALSE]
            y == [rpc[r] EXCEPT !.timer = FALSE]
<1>1. rpc \in [Rpcs -> Rpc] /\ rpc[r] \in Rpc
  BY DEF IInv, RpcTypeOK
<1>2. rpc' = [rpc EXCEPT ![r] = x] \/ rpc' = [rpc EXCEPT ![r] = y]
  <2>1. CASE Pending(r)
    BY <1>1, <2>1 DEF DeadlinePasses
  <2>2. CASE ~Pending(r)
    <3>1. rpc' = [rpc EXCEPT ![r].timer = FALSE, ![r].state = @, ![r].grace = @]
      BY <2>2 DEF DeadlinePasses
    <3>2. [rpc[r] EXCEPT !.timer = FALSE, !.state = @, !.grace = @] = y
      BY <1>1
    <3>. QED
      BY <1>1, <3>1, <3>2
  <2>. QED
    BY <2>1, <2>2
<1>3. x \in Rpc /\ ~x.grace
  BY <1>1 DEF Rpc
<1>4. /\ y \in Rpc /\ y.grace = rpc[r].grace /\ y.state = rpc[r].state
      /\ y.told = rpc[r].told /\ y.comm = rpc[r].comm
  BY <1>1 DEF Rpc
<1>. HIDE DEF x, y
<1>5. /\ rpc' \in [Rpcs -> Rpc] /\ \A s \in Rpcs : s # r => rpc'[s] = rpc[s]
      /\ rpc'[r] \in {x, y}
  BY <1>1, <1>2, <1>3, <1>4
<1>6. UNCHANGED <<kernelVars, wire, queue, managerVars, calls, historyVars>>
  BY DEF DeadlinePasses
<1>7. Graces'
  BY <1>3, <1>4, <1>5, <1>6 DEF IInv, Graces, Pending, Tracked, managerVars
<1>. QED
  BY <1>5, <1>6, <1>7, RpcInv

LEMMA GracePassesInv ==
  ASSUME IInv, NEW r \in Rpcs, GracePasses(r)
  PROVE  IInv'
<1>. DEFINE x == [rpc[r] EXCEPT !.grace = FALSE, !.state = "failed"]
<1>1. rpc \in [Rpcs -> Rpc] /\ rpc[r] \in Rpc /\ Pending(r)
  BY DEF IInv, RpcTypeOK, GracePasses, Graces
<1>2. rpc' = [rpc EXCEPT ![r] = x]
  BY <1>1 DEF GracePasses
<1>3. x \in Rpc /\ ~x.grace
  BY <1>1 DEF Rpc
<1>. HIDE DEF x
<1>4. rpc' \in [Rpcs -> Rpc] /\ rpc'[r] = x /\ \A s \in Rpcs : s # r => rpc'[s] = rpc[s]
  BY <1>1, <1>2, <1>3
<1>5. UNCHANGED <<kernelVars, wire, queue, managerVars, calls, historyVars>>
  BY DEF GracePasses
<1>6. Graces'
  BY <1>3, <1>4, <1>5 DEF IInv, Graces, Pending, Tracked, managerVars
<1>. QED
  BY <1>4, <1>5, <1>6, RpcInv

\* A client is disposed of by who holds it.
LEMMA DisposeClientInv ==
  ASSUME IInv, NEW c \in Comms, DisposeClient(c)
  PROVE  IInv'
<1>. USE DEF IInv
<1>1. /\ open' \subseteq open /\ connected' \subseteq connected /\ rpc' = Cancelled({c})
      /\ UNCHANGED <<life, up, exited, born, wire, queue, owner, knownId, generation,
                     initializing, disposed, calls, historyVars>>
  BY DEF DisposeClient, OpenWithout
<1>2. /\ rpc' \in [Rpcs -> Rpc]
      /\ \A r \in Rpcs : rpc'[r].grace => rpc'[r] = rpc[r]
  BY <1>1, CancelledFacts
<1>3. KernelTypeOK'
  BY <1>1, <1>2 DEF KernelTypeOK
<1>4. ManagerTypeOK'
  BY <1>1, <1>2 DEF ManagerTypeOK
<1>5. RpcTypeOK'
  BY <1>1, <1>2 DEF RpcTypeOK, historyVars
<1>6. Graces'
  BY <1>1, <1>2 DEF Graces, Pending, Tracked
<1>7. KernelOpen'
  BY <1>1, <1>2 DEF KernelOpen
<1>8. ClosedForGood'
  BY <1>1, <1>2 DEF ClosedForGood, ClosedIn
<1>9. CreatedIsKept'
  BY <1>1, <1>2 DEF CreatedIsKept, Tracked, historyVars
<1>10. CallsTypeOK' /\ Generations' /\ OneInitialization' /\ CurrentKnows' /\ RepliesAwaited'
  BY <1>1, <1>2 DEF CallsTypeOK, Generations, OneInitialization, CurrentKnows, Active, IsCurrent, RepliesAwaited
<1>11. MadeOnce' /\ KnownOrDisplaced' /\ ClientsAreAlive'
  BY <1>1, <1>2 DEF MadeOnce, KnownOrDisplaced, Tracked, Known, ClientsAreAlive, historyVars
<1>. QED
  BY <1>3, <1>4, <1>5, <1>6, <1>7, <1>8, <1>9, <1>10, <1>11

-----------------------------------------------------------------------------
LEMMA InitInv == Init => IInv
<1>. SUFFICES ASSUME Init PROVE IInv
  OBVIOUS
<1>. USE DEF Init
<1>1. KernelTypeOK /\ ManagerTypeOK
  <2>1. <<>> \in Seq(Message)
    OBVIOUS
  <2>2. KernelTypeOK
    BY <2>1 DEF KernelTypeOK
  <2>. QED
    BY <2>2 DEF ManagerTypeOK
<1>2. CallsTypeOK
  <2>1. Len(Order) + 1 \in Nat \ {0}
    BY OrderAssumption
  <2>2. calls \in [Inits -> Call]
    BY DEF Call
  <2>. QED
    BY <2>1, <2>2 DEF CallsTypeOK
<1>3. RpcTypeOK
  <2>1. [comm |-> None, state |-> "unused", timer |-> FALSE, grace |-> FALSE,
         kernel |-> "unknown", replied |-> FALSE, told |-> "nothing"] \in Rpc
    BY DEF Rpc
  <2>. QED
    BY <2>1 DEF RpcTypeOK
<1>4. Tracked = {}
  BY DEF Tracked
<1>5. \A k \in Inits : k # 0
  BY DEF Inits
<1>6. Generations /\ OneInitialization
  BY <1>5 DEF Generations, OneInitialization
<1>7. Graces /\ KernelOpen /\ ClosedForGood /\ CurrentKnows /\ RepliesAwaited /\ MadeOnce
  BY DEF Graces, KernelOpen, ClosedForGood, ClosedIn, CurrentKnows, RepliesAwaited, MadeOnce
<1>8. KnownOrDisplaced /\ ClientsAreAlive /\ CreatedIsKept
  BY <1>4 DEF KnownOrDisplaced, ClientsAreAlive, CreatedIsKept
<1>. QED
  BY <1>1, <1>2, <1>3, <1>6, <1>7, <1>8 DEF IInv

\* The invariant survives every step.
LEMMA NextInv == IInv /\ [Next]_vars => IInv'
<1>. SUFFICES ASSUME IInv, [Next]_vars PROVE IInv'
  OBVIOUS
<1>1. CASE Kernel
  BY <1>1, KernelOpensInv, KernelClosesInv, KernelWorksInv, KernelExitsInv, KernelRestartsInv DEF Kernel
<1>2. CASE Arrive \/ Deliver \/ ExitReported \/ Dispose
  BY <1>2, ArriveInv, DeliverInv, ExitReportedInv, DisposeInv
<1>3. ASSUME NEW k \in Inits, Initialization(k) PROVE IInv'
  <2>1. CASE Initialize(k) \/ KernelLists(k) \/ Stale(k) \/ Restore(k) \/ ListFails(k)
    BY <2>1, InitializeInv, KernelListsInv, StaleInv, RestoreInv, ListFailsInv
  <2>2. CASE Step(k) \/ Listed(k) \/ Created(k) \/ CreateFails(k) \/ Finish(k)
    BY <2>2, StepInv, ListedInv, CreatedInv, CreateFailsInv, FinishInv
  <2>. QED
    BY <1>3, <2>1, <2>2 DEF Initialization
<1>4. ASSUME NEW r \in Rpcs,
             \/ \E c \in Comms, deadline \in BOOLEAN : PerformRpc(r, c, deadline)
             \/ DeadlinePasses(r) \/ GracePasses(r)
      PROVE  IInv'
  BY <1>4, PerformRpcInv, DeadlinePassesInv, GracePassesInv
<1>5. ASSUME NEW c \in Comms, DisposeClient(c) PROVE IInv'
  BY <1>5, DisposeClientInv
<1>6. CASE UNCHANGED vars
  <2>1. Graces' /\ UNCHANGED <<kernelVars, wire, queue, managerVars, calls, rpc, historyVars>>
    BY <1>6 DEF vars, IInv, Graces, Pending, Tracked, managerVars
  <2>. QED
    BY <2>1, RpcInv DEF IInv, RpcTypeOK
<1>. QED
  BY <1>1, <1>2, <1>3, <1>4, <1>5, <1>6 DEF Next

LEMMA Invariance == Spec => []IInv
  BY InitInv, NextInv, PTL DEF Spec

\* The state of the manager, its calls and its RPCs keeps its types
\* (RuntimeClientManager and RuntimeClientInstance).
THEOREM TypeCorrect == Spec => []TypeOK
<1>1. IInv => TypeOK
  BY DEF IInv, TypeOK
<1>. QED
  BY <1>1, Invariance, PTL

\* The clients are those of the kernel that runs, and each comm created for them
\* is one, is about to be, or is removed, whichever of restarts, exits, closes and
\* a disposal come between the awaits of initializeClients.  The initialization that
\* others join is the one of the current generation, and there is no second one.
THEOREM ClientsAreTheKernels == Spec => []ClientsMatchKernel
<1>1. IInv => ClientsMatchKernel
  BY DEF IInv, ClientsMatchKernel
<1>. QED
  BY <1>1, Invariance, PTL

\* The completion timer of an RPC runs only while its caller waits and the kernel
\* is, as far as told, idle (updatePendingRpcState).
LEMMA GraceOnlyIdle == IInv => GraceMeansIdle
  BY DEF IInv, Graces, GraceMeansIdle

\* No RPC is left pending on a client that a step ends: a close by the kernel or
\* its holder, an exit, a disposal.
LEMMA StepEndsRpcs ==
  ASSUME IInv, [Next]_vars, NEW r \in Rpcs, Pending(r), rpc[r].comm \in connected \ connected'
  PROVE  ~Pending(r)'
<1>1. RpcTypeOK /\ ManagerTypeOK
  BY DEF IInv
<1>2. ASSUME NEW cs \in SUBSET Comms, rpc' = Cancelled(cs), connected' = connected \ cs
      PROVE  ~Pending(r)'
  BY <1>1, <1>2, CancelledFacts
<1>3. ASSUME NEW m, Receive(m) PROVE ~Pending(r)'
  <2>1. ASSUME NEW c, Opened(c) PROVE FALSE
    BY <2>1 DEF Opened, Store, managerVars
  <2>2. ASSUME NEW c, Closed(c) PROVE ~Pending(r)'
    <3>1. c \in Tracked /\ c \in Comms /\ rpc' = Cancelled({c}) /\ connected' = connected \ {c}
      BY <2>2 DEF Closed, Tracked
    <3>. QED
      BY <1>2, <3>1
  <2>3. connected' # connected
    OBVIOUS
  <2>. QED
    BY <1>3, <2>1, <2>2, <2>3 DEF Receive, managerVars
<1>4. CASE ExitReported \/ Dispose
  <2>1. rpc' = Cancelled(Tracked) /\ connected' = connected \ Tracked /\ Tracked \subseteq Comms
    BY <1>4 DEF ExitReported, Dispose, Tracked
  <2>. QED
    BY <1>2, <2>1
<1>5. CASE Arrive \/ Deliver
  BY <1>3, <1>5 DEF Arrive, Deliver, managerVars
<1>6. ASSUME NEW c \in Comms, DisposeClient(c) PROVE ~Pending(r)'
  BY <1>2, <1>6 DEF DisposeClient
<1>7. ASSUME NEW k \in Inits, Initialization(k) PROVE FALSE
  <2>1. connected \subseteq connected'
    BY <1>7 DEF Initialization, Initialize, KernelLists, Stale, Restore, ListFails, Step, Listed,
                Created, CreateFails, Finish, Create, CreateUnsent, Store, managerVars
  <2>. QED
    BY <2>1
<1>8. CASE Kernel
  BY <1>8 DEF Kernel, KernelOpens, KernelCloses, KernelWorks, KernelExits, KernelRestarts, managerVars
<1>9. ASSUME NEW q \in Rpcs,
             \/ \E c \in Comms, deadline \in BOOLEAN : PerformRpc(q, c, deadline)
             \/ DeadlinePasses(q) \/ GracePasses(q)
      PROVE  FALSE
  BY <1>9 DEF PerformRpc, DeadlinePasses, GracePasses, managerVars
<1>10. ~UNCHANGED vars
  BY DEF vars, managerVars
<1>. QED
  BY <1>4, <1>5, <1>6, <1>7, <1>8, <1>9, <1>10 DEF Next

\* No RPC outlives the client it was made on, also one without a deadline, and
\* none is given up on for want of an answer while the kernel is at work on it
\* (RuntimeClientInstance.ts:188-345).
THEOREM RpcsEnd == Spec => RpcsEndInTime
<1>1. IInv /\ [Next]_vars
        => [\A r \in Rpcs : Pending(r) /\ rpc[r].comm \in connected \ connected' => ~Pending(r)']_vars
  BY StepEndsRpcs
<1>2. IInv' => GraceMeansIdle'
  BY GraceOnlyIdle, PTL
<1>3. IInv /\ IInv' /\ [Next]_vars
        => [/\ \A r \in Rpcs : Pending(r) /\ rpc[r].comm \in connected \ connected' => ~Pending(r)'
            /\ GraceMeansIdle']_vars
  BY <1>1, <1>2
<1>. QED
  BY <1>3, Invariance, PTL DEF Spec, RpcsEndInTime
=============================================================================
