-------------------------- MODULE SupervisorProofs --------------------------
(***************************************************************************)
(* Safety of what supervisor/ does, for any values of the constants: first *)
(* the start, restart and deletion of one session (SessionLifecycle), then *)
(* the server that its kernels run on (SupervisorServer).  Neither part    *)
(* uses the other.                                                         *)
(***************************************************************************)
EXTENDS SessionLifecycle, SupervisorServer, SequenceTheorems, TLAPS

(***************************************************************************)
(* Start, restart and deletion, for any number of restarts, lost           *)
(* connections and undelivered messages.                                   *)
(***************************************************************************)
\* A start and a restart of the session do not run together.
OneCall == startPc = "none" \/ restartPc = "none"

\* Before its first kernel nothing but a start or a removal concerns the
\* session.
Bare ==
  ~kernel => /\ state = "uninitialized"
             /\ startPc \in {"none", "create"} /\ restartPc = "none"
             /\ deletePc = "idle" /\ reconnecting = "no" /\ ~byHand
             /\ ~link /\ inbox = <<>> /\ connecting = "no"

\* A socket that is about to open has replaced the open one, and a message
\* comes only on an open one.
Wired ==
  /\ ~link => inbox = <<>>
  /\ connecting = "opening" => ~link

\* A restart request that the supervisor still has is the one awaited, or was
\* given up.
RequestKnown == srv # "steady" => restartPc = "request" \/ abandoned

\* While a session counts as settled no call can run a process for it.
Quiet ==
  settled => /\ startPc = "none"
             /\ restartPc \notin {"env", "request", "connect", "linking", "refused", "info"}
             /\ ~abandoned
             /\ kernel /\ state # "uninitialized"

\* An exit notice on the connection of the current process is its own.
OwnNotices ==
  /\ startPc \in {"confirm", "info"} \/ restartPc = "info" \/ settled
  /\ ~abandoned
  /\ HasExitNotice(inbox)
  => proc # "running"

IInv ==
  /\ TypeOK
  /\ OneCall
  /\ Bare
  /\ RequestKnown
  /\ Quiet
  /\ Wired
  /\ OwnNotices
  /\ ExitSignsAreTrue
-----------------------------------------------------------------------------
LEMMA NoticeEmpty == ~HasExitNotice(<<>>)
  BY DEF HasExitNotice

\* The notices of a connection after a message has come in.
LEMMA NoticeAppend ==
  ASSUME NEW s \in Seq(Messages), NEW m \in Messages
  PROVE  /\ s \o <<m>> \in Seq(Messages)
         /\ HasExitNotice(s \o <<m>>) <=>
              HasExitNotice(s) \/ m \in {"exitedStatus", "exited"}
<1>1. /\ Len(s \o <<m>>) = Len(s) + 1
      /\ \A i \in 1 .. Len(s) : (s \o <<m>>)[i] = s[i]
      /\ (s \o <<m>>)[Len(s) + 1] = m
      /\ Len(s) \in Nat
  OBVIOUS
<1>2. DOMAIN s = 1 .. Len(s) /\ DOMAIN (s \o <<m>>) = 1 .. Len(s) + 1
  BY <1>1
<1>3. 1 .. Len(s) + 1 = (1 .. Len(s)) \cup {Len(s) + 1}
  BY <1>1
<1>4. s \o <<m>> \in Seq(Messages)
  OBVIOUS
<1>. QED
  BY <1>1, <1>2, <1>3, <1>4 DEF HasExitNotice

\* Sending keeps the queue a queue and adds only its own notices.
LEMMA SentOne ==
  ASSUME TypeOK, NEW m \in Messages, Send(<<m>>)
  PROVE  /\ inbox' \in Seq(Messages)
         /\ ~link => inbox' = inbox
         /\ m \notin {"exitedStatus", "exited"} =>
              (HasExitNotice(inbox') <=> HasExitNotice(inbox))
<1>1. CASE ~link
  BY <1>1 DEF Send, TypeOK, WireType
<1>2. CASE link
  <2>1. inbox \in Seq(Messages) /\ inbox' = inbox \o <<m>>
    BY <1>2 DEF TypeOK, WireType, Send
  <2>. QED
    BY <1>2, <2>1, NoticeAppend
<1>. QED
  BY <1>1, <1>2

LEMMA SentExit ==
  ASSUME TypeOK, Send(<<"exitedStatus", "exited">>)
  PROVE  inbox' \in Seq(Messages) /\ (~link => inbox' = inbox)
<1>1. inbox \in Seq(Messages) /\ <<"exitedStatus", "exited">> \in Seq(Messages)
  BY DEF TypeOK, WireType, Messages
<1>. QED
  BY <1>1 DEF Send

\* Handling a message leaves the notices that follow it.
LEMMA NoticeTail ==
  ASSUME NEW s \in Seq(Messages), s # <<>>
  PROVE  /\ Head(s) \in Messages /\ Tail(s) \in Seq(Messages)
         /\ HasExitNotice(Tail(s)) => HasExitNotice(s)
         /\ Head(s) \in {"exitedStatus", "exited"} => HasExitNotice(s)
<1>1. /\ Len(s) \in Nat \ {0} /\ Head(s) = s[1]
      /\ Tail(s) \in Seq(Messages) /\ Len(Tail(s)) = Len(s) - 1
      /\ \A i \in 1 .. Len(s) - 1 : Tail(s)[i] = s[i + 1]
      /\ Head(s) \in Messages
  OBVIOUS
<1>2. DOMAIN s = 1 .. Len(s) /\ DOMAIN Tail(s) = 1 .. Len(s) - 1
  BY <1>1
<1>3. 1 \in 1 .. Len(s) /\ \A i \in 1 .. Len(s) - 1 : i + 1 \in 1 .. Len(s)
  BY <1>1
<1>. QED
  BY <1>1, <1>2, <1>3 DEF HasExitNotice

LEMMA NoMessages == <<>> \in Seq(Messages)
  OBVIOUS

LEMMA ChangeStateType ==
  ASSUME ViewType, NEW new \in States, ChangeState(new), validating' \in BOOLEAN
  PROVE  ViewType'
<1>1. barrier \in {"closed", "open", "cancelled"}
  BY DEF ViewType
<1>2. barrier' \in {"closed", "open", "cancelled"}
  BY <1>1 DEF ChangeState
<1>3. (restarting /\ new # "starting") \in BOOLEAN
  OBVIOUS
<1>4. restarting' \in BOOLEAN
  BY <1>3 DEF ChangeState
<1>. QED
  BY <1>2, <1>4 DEF ChangeState, ViewType

LEMMA ExitFiresType == ASSUME ExitFires PROVE exitObserved' \in BOOLEAN
<1>1. (exitObserved \/ Listening) \in BOOLEAN
  OBVIOUS
<1>. QED
  BY <1>1 DEF ExitFires

\* What a step leaves unchanged keeps its type.
LEMMA Unchanged ==
  ASSUME TypeOK
  PROVE  /\ UNCHANGED client => ClientType'
         /\ UNCHANGED view => ViewType'
         /\ UNCHANGED wire => WireType'
         /\ UNCHANGED calls => CallsType'
         /\ UNCHANGED server => ServerType'
         /\ UNCHANGED past => PastType'
<1>. USE DEF TypeOK
<1>1. UNCHANGED client => ClientType'
  BY DEF ClientType, client
<1>2. UNCHANGED view => ViewType'
  BY DEF ViewType, view
<1>3. UNCHANGED wire => WireType'
  BY DEF WireType, wire
<1>4. UNCHANGED calls => CallsType'
  BY DEF CallsType, calls, start, rejoin
<1>5. UNCHANGED server => ServerType'
  BY DEF ServerType, server
<1>6. UNCHANGED past => PastType'
  BY DEF PastType, past
<1>. QED
  BY <1>1, <1>2, <1>3, <1>4, <1>5, <1>6

\* What a removal, a shutdown and the choice between them leave behind.
LEMMA CloseType ==
  ASSUME TypeOK, CloseSession \/ Remove \/ Shutdown
  PROVE  /\ ClientType' /\ ViewType' /\ WireType'
         /\ deletePc' \in {"idle", "barrier", "reply", "kill"}
         /\ exitObserved' \in BOOLEAN /\ asked' \in BOOLEAN
<1>1. CASE Remove
  <2>1. ClientType' /\ ViewType' /\ asked' \in BOOLEAN
    BY <1>1 DEF Remove, TypeOK, ClientType, ViewType, ServerType
  <2>2. WireType'
    BY <1>1, NoMessages DEF Remove, TypeOK, WireType
  <2>. QED
    BY <1>1, <2>1, <2>2 DEF Remove, TypeOK, CallsType
<1>2. CASE Shutdown
  <2>1. ClientType' /\ ViewType' /\ WireType'
    BY <1>2, Unchanged DEF Shutdown, Retain
  <2>. QED
    BY <1>2, <2>1 DEF Shutdown, Retain, TypeOK, ServerType
<1>. QED
  BY <1>1, <1>2 DEF CloseSession

\* Every step keeps the types.
LEMMA TypeStep ==
  ASSUME TypeOK, [Next]_vars
  PROVE  TypeOK'
<1>1. CASE KernelExits
  <2>1. WireType'
    BY <1>1, SentExit DEF KernelExits, TypeOK, WireType
  <2>2. ServerType'
    BY <1>1 DEF KernelExits, TypeOK, ServerType
  <2>3. ClientType' /\ ViewType' /\ CallsType' /\ PastType'
    BY <1>1, Unchanged DEF KernelExits
  <2>. QED
    BY <2>1, <2>2, <2>3 DEF TypeOK
<1>2. CASE LoseConnection
  <2>1. ViewType'
    BY <1>2 DEF LoseConnection, TypeOK, ViewType
  <2>2. WireType'
    BY <1>2, NoMessages DEF LoseConnection, TypeOK, WireType
  <2>3. CallsType'
    BY <1>2 DEF LoseConnection, start, rejoin, TypeOK, CallsType
  <2>4. ServerType'
    BY <1>2 DEF LoseConnection, TypeOK, ServerType
  <2>5. ClientType' /\ PastType'
    BY <1>2, Unchanged DEF LoseConnection
  <2>. QED
    BY <2>1, <2>2, <2>3, <2>4, <2>5 DEF TypeOK
<1>3. ASSUME NEW msg \in {"busy", "idle", "reply"}, KernelReports(msg) PROVE TypeOK'
  <2>1. WireType'
    BY <1>3, SentOne DEF KernelReports, Messages, TypeOK, WireType
  <2>2. ServerType'
    BY <1>3 DEF KernelReports, TypeOK, ServerType
  <2>3. ClientType' /\ ViewType' /\ CallsType' /\ PastType'
    BY <1>3, Unchanged DEF KernelReports
  <2>. QED
    BY <2>1, <2>2, <2>3 DEF TypeOK
<1>4. CASE StartCall
  <2>1. ViewType'
    BY <1>4, Unchanged, ChangeStateType DEF StartCall, BeginStart, TypeOK, States, ViewType
  <2>2. CallsType'
    BY <1>4 DEF StartCall, BeginStart, start, rejoin, TypeOK, CallsType
  <2>3. PastType'
    <3>1. made' \in Nat
      BY <1>4 DEF StartCall, TypeOK, PastType
    <3>2. settled' \in BOOLEAN /\ abandoned' \in BOOLEAN
      BY <1>4 DEF StartCall, TypeOK, PastType
    <3>. QED
      BY <3>1, <3>2 DEF PastType
  <2>4. ClientType' /\ WireType' /\ ServerType'
    BY <1>4, Unchanged DEF StartCall
  <2>. QED
    BY <2>1, <2>2, <2>3, <2>4 DEF TypeOK
<1>5. CASE DeleteCall
  <2>1. ClientType'
    BY <1>5, Unchanged, CloseType DEF DeleteCall, Retain
  <2>2. ViewType'
    BY <1>5, Unchanged, CloseType DEF DeleteCall, Retain
  <2>3. WireType'
    BY <1>5, Unchanged, CloseType DEF DeleteCall, Retain
  <2>4. CallsType'
    BY <1>5, Unchanged, CloseType DEF DeleteCall, Retain, start, rejoin, TypeOK, CallsType
  <2>5. ServerType'
    BY <1>5, Unchanged, CloseType DEF DeleteCall, Retain, TypeOK, ServerType
  <2>6. PastType'
    BY <1>5, Unchanged DEF DeleteCall
  <2>. QED
    BY <2>1, <2>2, <2>3, <2>4, <2>5, <2>6 DEF TypeOK
<1>6. CASE ReconnectByHand
  <2>1. ViewType'
    BY <1>6 DEF ReconnectByHand, Connect, TypeOK, ViewType
  <2>2. WireType'
    BY <1>6 DEF ReconnectByHand, Connect, TypeOK, WireType
  <2>3. CallsType'
    BY <1>6 DEF ReconnectByHand, start, rejoin, TypeOK, CallsType
  <2>4. ClientType' /\ ServerType' /\ PastType'
    BY <1>6, Unchanged DEF ReconnectByHand
  <2>. QED
    BY <2>1, <2>2, <2>3, <2>4 DEF TypeOK
<1>7. ASSUME NEW yes \in BOOLEAN, RestartCall(yes) PROVE TypeOK'
  <2>1. CallsType'
    BY <1>7 DEF RestartCall, start, rejoin, TypeOK, CallsType
  <2>2. PastType'
    BY <1>7 DEF RestartCall, TypeOK, PastType
  <2>3. ClientType' /\ ViewType' /\ WireType' /\ ServerType'
    BY <1>7, Unchanged DEF RestartCall
  <2>. QED
    BY <2>1, <2>2, <2>3 DEF TypeOK
<1>8. ASSUME NEW yes \in BOOLEAN, RestartPrompted(yes) PROVE TypeOK'
  <2>1. ViewType'
    BY <1>8, ChangeStateType DEF RestartPrompted, InterruptKernel, TypeOK, ViewType, States
  <2>2. CallsType'
    BY <1>8 DEF RestartPrompted, start, rejoin, TypeOK, CallsType
  <2>3. ClientType' /\ WireType' /\ ServerType' /\ PastType'
    BY <1>8, Unchanged DEF RestartPrompted
  <2>. QED
    BY <2>1, <2>2, <2>3 DEF TypeOK
<1>9. ASSUME NEW yes \in BOOLEAN, DeletePrompted(yes) PROVE TypeOK'
  <2>1. ViewType'
    BY <1>9, ChangeStateType DEF DeletePrompted, InterruptKernel, TypeOK, ViewType, States
  <2>2. CallsType'
    BY <1>9 DEF DeletePrompted, start, rejoin, TypeOK, CallsType
  <2>3. ClientType' /\ WireType' /\ ServerType' /\ PastType'
    BY <1>9, Unchanged DEF DeletePrompted
  <2>. QED
    BY <2>1, <2>2, <2>3 DEF TypeOK
<1>10. CASE SupervisorStops
  <2>1. WireType'
    BY <1>10, SentExit DEF SupervisorStops, TypeOK, WireType
  <2>2. ServerType'
    BY <1>10 DEF SupervisorStops, TypeOK, ServerType
  <2>3. ClientType' /\ ViewType' /\ CallsType' /\ PastType'
    BY <1>10, Unchanged DEF SupervisorStops
  <2>. QED
    BY <2>1, <2>2, <2>3 DEF TypeOK
<1>11. CASE SupervisorRespawns
  <2>1. WireType'
    BY <1>11, SentOne DEF SupervisorRespawns, Messages, TypeOK, WireType
  <2>2. ServerType'
    BY <1>11 DEF SupervisorRespawns, TypeOK, ServerType
  <2>3. ClientType' /\ ViewType' /\ CallsType' /\ PastType'
    BY <1>11, Unchanged DEF SupervisorRespawns
  <2>. QED
    BY <2>1, <2>2, <2>3 DEF TypeOK
<1>12. CASE HandleMessage
  <2>1. ViewType'
    BY <1>12, Unchanged, ChangeStateType DEF HandleMessage, StateOf, TypeOK, ViewType,
       States
  <2>2. WireType'
    <3>1. /\ link /\ inbox # <<>> /\ inbox \in Seq(Messages) /\ link \in BOOLEAN
          /\ connecting' = connecting
      BY <1>12 DEF HandleMessage, TypeOK, WireType
    <3>2. Tail(inbox) \in Seq(Messages)
      BY <3>1, NoticeTail
    <3>3. /\ inbox' \in {<<>>, Tail(inbox)}
          /\ link' = link \/ link' = FALSE
      BY <1>12 DEF HandleMessage
    <3>. QED
      BY <3>1, <3>2, <3>3, NoMessages DEF TypeOK, WireType
  <2>3. CallsType'
    <3>1. exitObserved' \in BOOLEAN
      BY <1>12, ExitFiresType DEF HandleMessage, TypeOK, CallsType
    <3>2. deletePc' \in {deletePc, "exit"}
      BY <1>12 DEF HandleMessage
    <3>3. UNCHANGED <<start, restartPc, rejoin>>
      BY <1>12 DEF HandleMessage
    <3>. QED
      BY <3>1, <3>2, <3>3 DEF start, rejoin, TypeOK, CallsType
  <2>4. ClientType' /\ ServerType' /\ PastType'
    BY <1>12, Unchanged DEF HandleMessage
  <2>. QED
    BY <2>1, <2>2, <2>3, <2>4 DEF TypeOK
<1>13. CASE AddressKnown
  <2>1. ViewType'
    BY <1>13 DEF AddressKnown, TypeOK, ViewType
  <2>2. WireType'
    BY <1>13, NoMessages DEF AddressKnown, TypeOK, WireType
  <2>3. ClientType' /\ CallsType' /\ ServerType' /\ PastType'
    BY <1>13, Unchanged DEF AddressKnown
  <2>. QED
    BY <2>1, <2>2, <2>3 DEF TypeOK
<1>14. CASE SocketOpens
  <2>1. ViewType'
    BY <1>14 DEF SocketOpens, AttemptEnds, TypeOK, ViewType
  <2>2. WireType'
    BY <1>14 DEF SocketOpens, AttemptEnds, TypeOK, WireType
  <2>3. CallsType'
    BY <1>14 DEF SocketOpens, AttemptEnds, start, rejoin, TypeOK, CallsType
  <2>4. ClientType' /\ ServerType' /\ PastType'
    BY <1>14, Unchanged DEF SocketOpens, AttemptEnds
  <2>. QED
    BY <2>1, <2>2, <2>3, <2>4 DEF TypeOK
<1>15. CASE AttemptFails
  <2>1. ViewType'
    BY <1>15, ChangeStateType DEF AttemptFails, AttemptEnds, TypeOK, ViewType, States
  <2>2. WireType'
    BY <1>15 DEF AttemptFails, AttemptEnds, TypeOK, WireType
  <2>3. CallsType'
    BY <1>15 DEF AttemptFails, AttemptEnds, start, rejoin, TypeOK, CallsType
  <2>4. ClientType' /\ ServerType' /\ PastType'
    BY <1>15, Unchanged DEF AttemptFails, AttemptEnds
  <2>. QED
    BY <2>1, <2>2, <2>3, <2>4 DEF TypeOK
<1>16. CASE CheckReconnect
  <2>1. ViewType'
    BY <1>16 DEF CheckReconnect, Connect, TypeOK, ViewType
  <2>2. WireType'
    BY <1>16 DEF CheckReconnect, Connect, TypeOK, WireType
  <2>3. CallsType'
    BY <1>16 DEF CheckReconnect, start, rejoin, TypeOK, CallsType
  <2>4. ClientType' /\ ServerType' /\ PastType'
    BY <1>16, Unchanged DEF CheckReconnect
  <2>. QED
    BY <2>1, <2>2, <2>3, <2>4 DEF TypeOK
<1>17. CASE ReconnectFails
  <2>1. ViewType'
    BY <1>17, ChangeStateType DEF ReconnectFails, TypeOK, ViewType, States
  <2>2. CallsType'
    BY <1>17 DEF ReconnectFails, start, rejoin, TypeOK, CallsType
  <2>3. ClientType' /\ WireType' /\ ServerType' /\ PastType'
    BY <1>17, Unchanged DEF ReconnectFails
  <2>. QED
    BY <2>1, <2>2, <2>3 DEF TypeOK
<1>18. CASE KernelCreated
  <2>1. ClientType'
    BY <1>18 DEF KernelCreated, TypeOK, ClientType
  <2>2. ViewType'
    BY <1>18, Unchanged, ChangeStateType DEF KernelCreated, BeginStart, TypeOK, States,
       ViewType
  <2>3. CallsType'
    <3>1. /\ startPc' \in {"none", "spawn", "check"}
          /\ spawned' = spawned \/ spawned' = TRUE \/ spawned' = FALSE
      BY <1>18 DEF KernelCreated, BeginStart
    <3>2. spawned' \in BOOLEAN
      BY <3>1 DEF TypeOK, CallsType
    <3>3. UNCHANGED <<retry, restartPc, deletePc, exitObserved, rejoin>>
      BY <1>18 DEF KernelCreated
    <3>. QED
      BY <3>1, <3>2, <3>3 DEF rejoin, TypeOK, CallsType
  <2>4. ServerType'
    BY <1>18 DEF KernelCreated, TypeOK, ServerType
  <2>5. WireType' /\ PastType'
    BY <1>18, Unchanged DEF KernelCreated
  <2>. QED
    BY <2>1, <2>2, <2>3, <2>4, <2>5 DEF TypeOK
<1>19. CASE CreateFails
  <2>1. CallsType'
    BY <1>19 DEF CreateFails, start, rejoin, TypeOK, CallsType
  <2>2. ClientType' /\ ViewType' /\ WireType' /\ ServerType' /\ PastType'
    BY <1>19, Unchanged DEF CreateFails
  <2>. QED
    BY <2>1, <2>2 DEF TypeOK
<1>20. CASE ServerEnsured
  <2>1. ViewType'
    BY <1>20, Unchanged, ChangeStateType DEF ServerEnsured, BeginStart, TypeOK, States,
       ViewType
  <2>2. CallsType'
    BY <1>20 DEF ServerEnsured, BeginStart, start, rejoin, TypeOK, CallsType
  <2>3. ClientType' /\ WireType' /\ ServerType' /\ PastType'
    BY <1>20, Unchanged DEF ServerEnsured
  <2>. QED
    BY <2>1, <2>2, <2>3 DEF TypeOK
<1>21. CASE StartAttached
  <2>1. CallsType'
    BY <1>21 DEF StartAttached, start, rejoin, TypeOK, CallsType
  <2>2. ClientType' /\ ViewType' /\ WireType' /\ ServerType' /\ PastType'
    BY <1>21, Unchanged DEF StartAttached
  <2>. QED
    BY <2>1, <2>2 DEF TypeOK
<1>22. CASE StartChecked
  <2>1. ViewType'
    BY <1>22, ChangeStateType DEF StartChecked, TypeOK, ViewType, States
  <2>2. CallsType'
    BY <1>22 DEF StartChecked, BeforeConnect, start, rejoin, TypeOK, CallsType
  <2>3. ClientType' /\ WireType' /\ ServerType' /\ PastType'
    BY <1>22, Unchanged DEF StartChecked
  <2>. QED
    BY <2>1, <2>2, <2>3 DEF TypeOK
<1>23. CASE Spawned
  <2>1. CallsType'
    BY <1>23 DEF Spawned, BeforeConnect, start, rejoin, TypeOK, CallsType
  <2>2. ServerType'
    BY <1>23 DEF Spawned, TypeOK, ServerType
  <2>3. ClientType' /\ ViewType' /\ WireType' /\ PastType'
    BY <1>23, Unchanged DEF Spawned
  <2>. QED
    BY <2>1, <2>2, <2>3 DEF TypeOK
<1>24. CASE SpawnRefused
  <2>1. CallsType'
    BY <1>24 DEF SpawnRefused, start, rejoin, TypeOK, CallsType
  <2>2. ClientType' /\ ViewType' /\ WireType' /\ ServerType' /\ PastType'
    BY <1>24, Unchanged DEF SpawnRefused
  <2>. QED
    BY <2>1, <2>2 DEF TypeOK
<1>25. CASE StartConnects
  <2>1. ViewType'
    BY <1>25 DEF StartConnects, Connect, TypeOK, ViewType
  <2>2. WireType'
    BY <1>25 DEF StartConnects, Connect, TypeOK, WireType
  <2>3. CallsType'
    BY <1>25 DEF StartConnects, start, rejoin, TypeOK, CallsType
  <2>4. ClientType' /\ ServerType' /\ PastType'
    BY <1>25, Unchanged DEF StartConnects
  <2>. QED
    BY <2>1, <2>2, <2>3, <2>4 DEF TypeOK
<1>26. CASE StartConfirmed
  <2>1. CallsType'
    BY <1>26 DEF StartConfirmed, start, rejoin, TypeOK, CallsType
  <2>2. ClientType' /\ ViewType' /\ WireType' /\ ServerType' /\ PastType'
    BY <1>26, Unchanged DEF StartConfirmed
  <2>. QED
    BY <2>1, <2>2 DEF TypeOK
<1>27. CASE StartReady
  <2>1. ViewType'
    BY <1>27, ChangeStateType DEF StartReady, TypeOK, ViewType, States
  <2>2. CallsType'
    BY <1>27 DEF StartReady, EndStart, start, rejoin, TypeOK, CallsType
  <2>3. PastType'
    BY <1>27 DEF StartReady, TypeOK, PastType
  <2>4. ClientType' /\ WireType' /\ ServerType'
    BY <1>27, Unchanged DEF StartReady
  <2>. QED
    BY <2>1, <2>2, <2>3, <2>4 DEF TypeOK
<1>28. CASE StartFails
  <2>1. ViewType'
    BY <1>28, ChangeStateType DEF StartFails, TypeOK, ViewType, States
  <2>2. CallsType'
    BY <1>28 DEF StartFails, EndStart, ExitFires, start, rejoin, TypeOK, CallsType
  <2>3. ServerType'
    BY <1>28 DEF StartFails, TypeOK, ServerType
  <2>4. ClientType' /\ WireType' /\ PastType'
    BY <1>28, Unchanged DEF StartFails
  <2>. QED
    BY <2>1, <2>2, <2>3, <2>4 DEF TypeOK
<1>29. CASE RestartAwaited
  <2>1. CallsType'
    BY <1>29 DEF RestartAwaited, start, rejoin, TypeOK, CallsType
  <2>2. ClientType' /\ ViewType' /\ WireType' /\ ServerType' /\ PastType'
    BY <1>29, Unchanged DEF RestartAwaited
  <2>. QED
    BY <2>1, <2>2 DEF TypeOK
<1>30. CASE RestartServicesDown
  <2>1. CallsType'
    BY <1>30 DEF RestartServicesDown, start, rejoin, TypeOK, CallsType
  <2>2. ClientType' /\ ViewType' /\ WireType' /\ ServerType' /\ PastType'
    BY <1>30, Unchanged DEF RestartServicesDown
  <2>. QED
    BY <2>1, <2>2 DEF TypeOK
<1>31. CASE RestartPrepared
  <2>1. ViewType'
    BY <1>31 DEF RestartPrepared, TypeOK, ViewType
  <2>2. CallsType'
    BY <1>31 DEF RestartPrepared, start, rejoin, TypeOK, CallsType
  <2>3. ServerType'
    BY <1>31 DEF RestartPrepared, TypeOK, ServerType
  <2>4. ClientType' /\ WireType' /\ PastType'
    BY <1>31, Unchanged DEF RestartPrepared
  <2>. QED
    BY <2>1, <2>2, <2>3, <2>4 DEF TypeOK
<1>32. CASE RestartChecked
  <2>1. ViewType'
    BY <1>32, Unchanged, ChangeStateType DEF RestartChecked, BeginStart, TypeOK,
       ViewType, States
  <2>2. CallsType'
    BY <1>32 DEF RestartChecked, BeginStart, start, rejoin, TypeOK, CallsType
  <2>3. PastType'
    BY <1>32 DEF RestartChecked, TypeOK, PastType
  <2>4. ClientType' /\ WireType' /\ ServerType'
    BY <1>32, Unchanged DEF RestartChecked
  <2>. QED
    BY <2>1, <2>2, <2>3, <2>4 DEF TypeOK
<1>33. CASE RestartRequested
  <2>1. CallsType'
    BY <1>33 DEF RestartRequested, start, rejoin, TypeOK, CallsType
  <2>2. ClientType' /\ ViewType' /\ WireType' /\ ServerType' /\ PastType'
    BY <1>33, Unchanged DEF RestartRequested
  <2>. QED
    BY <2>1, <2>2 DEF TypeOK
<1>34. CASE RestartConnects
  <2>1. ViewType'
    BY <1>34 DEF RestartConnects, Connect, TypeOK, ViewType
  <2>2. WireType'
    BY <1>34 DEF RestartConnects, Connect, TypeOK, WireType
  <2>3. CallsType'
    BY <1>34 DEF RestartConnects, start, rejoin, TypeOK, CallsType
  <2>4. ClientType' /\ ServerType' /\ PastType'
    BY <1>34, Unchanged DEF RestartConnects
  <2>. QED
    BY <2>1, <2>2, <2>3, <2>4 DEF TypeOK
<1>35. CASE RestartReady
  <2>1. ViewType'
    BY <1>35, ChangeStateType DEF RestartReady, TypeOK, ViewType, States
  <2>2. CallsType'
    BY <1>35 DEF RestartReady, start, rejoin, TypeOK, CallsType
  <2>3. PastType'
    BY <1>35 DEF RestartReady, TypeOK, PastType
  <2>4. ClientType' /\ WireType' /\ ServerType'
    BY <1>35, Unchanged DEF RestartReady
  <2>. QED
    BY <2>1, <2>2, <2>3, <2>4 DEF TypeOK
<1>36. CASE RestartFails
  <2>1. ViewType'
    <3>1. CASE UNCHANGED view
      BY <3>1, Unchanged
    <3>2. CASE ~UNCHANGED view
      BY <1>36, <3>2 DEF RestartFails, TypeOK, ViewType, States
    <3>. QED
      BY <3>1, <3>2
  <2>2. CallsType'
    BY <1>36 DEF RestartFails, start, rejoin, TypeOK, CallsType
  <2>3. PastType'
    BY <1>36 DEF RestartFails, TypeOK, PastType
  <2>4. ClientType' /\ WireType' /\ ServerType'
    BY <1>36, Unchanged DEF RestartFails
  <2>. QED
    BY <2>1, <2>2, <2>3, <2>4 DEF TypeOK
<1>37. CASE DeleteAwaited
  <2>1. ClientType'
    BY <1>37, Unchanged, CloseType DEF DeleteAwaited, Retain
  <2>2. ViewType'
    BY <1>37, Unchanged, CloseType DEF DeleteAwaited, Retain
  <2>3. WireType'
    BY <1>37, Unchanged, CloseType DEF DeleteAwaited, Retain
  <2>4. CallsType'
    BY <1>37, Unchanged, CloseType DEF DeleteAwaited, Retain, start, rejoin, TypeOK,
       CallsType
  <2>5. ServerType'
    BY <1>37, Unchanged, CloseType DEF DeleteAwaited, Retain, TypeOK, ServerType
  <2>6. PastType'
    BY <1>37, Unchanged DEF DeleteAwaited
  <2>. QED
    BY <2>1, <2>2, <2>3, <2>4, <2>5, <2>6 DEF TypeOK
<1>38. CASE ShutdownUnblocked
  <2>1. CallsType'
    BY <1>38 DEF ShutdownUnblocked, Retain, start, rejoin, TypeOK, CallsType
  <2>2. ServerType'
    BY <1>38 DEF ShutdownUnblocked, TypeOK, ServerType
  <2>3. ClientType' /\ ViewType' /\ WireType' /\ PastType'
    BY <1>38, Unchanged DEF ShutdownUnblocked, Retain
  <2>. QED
    BY <2>1, <2>2, <2>3 DEF TypeOK
<1>39. CASE ShutdownExited
  <2>1. ClientType'
    BY <1>39, Unchanged, CloseType DEF ShutdownExited, Retain
  <2>2. ViewType'
    BY <1>39, Unchanged, CloseType DEF ShutdownExited, Retain
  <2>3. WireType'
    BY <1>39, Unchanged, CloseType DEF ShutdownExited, Retain
  <2>4. CallsType'
    BY <1>39, Unchanged, CloseType DEF ShutdownExited, Retain, start, rejoin, TypeOK,
       CallsType
  <2>5. ServerType'
    BY <1>39, Unchanged, CloseType DEF ShutdownExited, Retain, TypeOK, ServerType
  <2>6. PastType'
    BY <1>39, Unchanged DEF ShutdownExited
  <2>. QED
    BY <2>1, <2>2, <2>3, <2>4, <2>5, <2>6 DEF TypeOK
<1>40. CASE ShutdownDeadline
  <2>1. ClientType'
    BY <1>40, Unchanged, CloseType DEF ShutdownDeadline, Retain
  <2>2. ViewType'
    BY <1>40, Unchanged, CloseType DEF ShutdownDeadline, Retain
  <2>3. WireType'
    BY <1>40, Unchanged, CloseType DEF ShutdownDeadline, Retain
  <2>4. CallsType'
    BY <1>40, Unchanged, CloseType DEF ShutdownDeadline, Retain, start, rejoin, TypeOK,
       CallsType
  <2>5. ServerType'
    BY <1>40, Unchanged, CloseType DEF ShutdownDeadline, Retain, TypeOK, ServerType
  <2>6. PastType'
    BY <1>40, Unchanged DEF ShutdownDeadline
  <2>. QED
    BY <2>1, <2>2, <2>3, <2>4, <2>5, <2>6 DEF TypeOK
<1>41. CASE Kill
  <2>1. WireType'
    BY <1>41, SentExit DEF Kill, TypeOK, WireType
  <2>2. CallsType'
    BY <1>41 DEF Kill, start, rejoin, TypeOK, CallsType
  <2>3. ServerType'
    BY <1>41 DEF Kill, TypeOK, ServerType
  <2>4. ClientType' /\ ViewType' /\ PastType'
    BY <1>41, Unchanged DEF Kill
  <2>. QED
    BY <2>1, <2>2, <2>3, <2>4 DEF TypeOK
<1>42. CASE Confirmed
  <2>1. ClientType'
    BY <1>42, Unchanged, CloseType DEF Confirmed, Retain
  <2>2. ViewType'
    BY <1>42, Unchanged, CloseType DEF Confirmed, Retain
  <2>3. WireType'
    BY <1>42, Unchanged, CloseType DEF Confirmed, Retain
  <2>4. CallsType'
    BY <1>42, Unchanged, CloseType DEF Confirmed, Retain, start, rejoin, TypeOK, CallsType
  <2>5. ServerType'
    BY <1>42, Unchanged, CloseType DEF Confirmed, Retain, TypeOK, ServerType
  <2>6. PastType'
    BY <1>42, Unchanged DEF Confirmed
  <2>. QED
    BY <2>1, <2>2, <2>3, <2>4, <2>5, <2>6 DEF TypeOK
<1>43. CASE ConfirmFails
  <2>1. CallsType'
    BY <1>43 DEF ConfirmFails, Retain, start, rejoin, TypeOK, CallsType
  <2>2. ClientType' /\ ViewType' /\ WireType' /\ ServerType' /\ PastType'
    BY <1>43, Unchanged DEF ConfirmFails, Retain, server
  <2>. QED
    BY <2>1, <2>2 DEF TypeOK
<1>44. CASE UNCHANGED vars
  BY <1>44, Unchanged DEF vars, TypeOK
<1>. QED
  BY <1>1, <1>2, <1>3, <1>4, <1>5, <1>6, <1>7, <1>8, <1>9, <1>10, <1>11, <1>12, <1>13,
     <1>14, <1>15, <1>16, <1>17, <1>18, <1>19, <1>20, <1>21, <1>22, <1>23, <1>24, <1>25,
     <1>26, <1>27, <1>28, <1>29, <1>30, <1>31, <1>32, <1>33, <1>34, <1>35, <1>36, <1>37,
     <1>38, <1>39, <1>40, <1>41, <1>42, <1>43, <1>44 DEF Next, Environment, User,
     Supervisor, Connection, Start, StartLimited, Restart, RestartLimited, Shutting

\* Every step keeps what the invariant says of the calls, the connection and
\* the process.
LEMMA InvStep ==
  ASSUME IInv, [Next]_vars
  PROVE  IInv'
<1>. USE DEF IInv, client, view, wire, start, rejoin, calls, server, past
<1>1. TypeOK'
  BY TypeStep
<1>2. CASE KernelExits
  <2>1. OneCall' /\ Bare' /\ RequestKnown' /\ Quiet' /\ Wired'
    BY <1>2 DEF KernelExits, Send, OneCall, Bare, RequestKnown, Quiet, Wired
  <2>2. OwnNotices' /\ ExitSignsAreTrue'
    BY <1>2 DEF KernelExits, OwnNotices, ExitSignsAreTrue, SeenToExit, Listening,
       OneCall, Quiet, Wired
  <2>. QED
    BY <1>1, <2>1, <2>2
<1>3. CASE LoseConnection
  <2>1. OneCall' /\ Bare' /\ RequestKnown' /\ Quiet' /\ Wired'
    BY <1>3 DEF LoseConnection, OneCall, Bare, RequestKnown, Quiet, Wired
  <2>2. OwnNotices' /\ ExitSignsAreTrue'
    BY <1>3, NoticeEmpty DEF LoseConnection, OwnNotices, ExitSignsAreTrue, SeenToExit,
       Listening, OneCall, Quiet, Wired
  <2>. QED
    BY <1>1, <2>1, <2>2
<1>4. ASSUME NEW msg \in {"busy", "idle", "reply"}, KernelReports(msg) PROVE IInv'
  <2>1. OneCall' /\ Bare' /\ RequestKnown' /\ Quiet' /\ Wired'
    BY <1>4, SentOne DEF KernelReports, Send, Messages, OneCall, Bare, RequestKnown,
       Quiet, Wired
  <2>2. OwnNotices' /\ ExitSignsAreTrue'
    BY <1>4, SentOne DEF KernelReports, Messages, OwnNotices, ExitSignsAreTrue,
       SeenToExit, Listening, OneCall, Quiet, Wired
  <2>. QED
    BY <1>1, <2>1, <2>2
<1>5. CASE StartCall
  <2>1. OneCall' /\ Bare' /\ RequestKnown' /\ Quiet' /\ Wired'
    BY <1>5 DEF StartCall, BeginStart, OneCall, Bare, RequestKnown, Quiet, Wired
  <2>2. OwnNotices' /\ ExitSignsAreTrue'
    BY <1>5 DEF StartCall, BeginStart, OwnNotices, ExitSignsAreTrue, SeenToExit,
       Listening, OneCall, Quiet, Wired
  <2>. QED
    BY <1>1, <2>1, <2>2
<1>6. CASE DeleteCall
  <2>1. OneCall' /\ Bare' /\ RequestKnown' /\ Quiet' /\ Wired'
    BY <1>6 DEF DeleteCall, Retain, CloseSession, Remove, Shutdown, OneCall, Bare,
       RequestKnown, Quiet, Wired
  <2>2. OwnNotices' /\ ExitSignsAreTrue'
    BY <1>6, NoticeEmpty DEF DeleteCall, Retain, CloseSession, Remove, Shutdown,
       OwnNotices, ExitSignsAreTrue, SeenToExit, Listening, OneCall, Quiet, Wired
  <2>. QED
    BY <1>1, <2>1, <2>2
<1>7. CASE ReconnectByHand
  <2>1. OneCall' /\ Bare' /\ RequestKnown' /\ Quiet' /\ Wired'
    BY <1>7 DEF ReconnectByHand, Connect, OneCall, Bare, RequestKnown, Quiet, Wired
  <2>2. OwnNotices' /\ ExitSignsAreTrue'
    BY <1>7 DEF ReconnectByHand, Connect, OwnNotices, ExitSignsAreTrue, SeenToExit,
       Listening, OneCall, Quiet, Wired
  <2>. QED
    BY <1>1, <2>1, <2>2
<1>8. ASSUME NEW yes \in BOOLEAN, RestartCall(yes) PROVE IInv'
  <2>1. OneCall' /\ Bare' /\ RequestKnown' /\ Quiet' /\ Wired'
    BY <1>8 DEF RestartCall, Usable, OneCall, Bare, RequestKnown, Quiet, Wired
  <2>2. OwnNotices' /\ ExitSignsAreTrue'
    BY <1>8 DEF RestartCall, OwnNotices, ExitSignsAreTrue, SeenToExit, Listening,
       OneCall, Quiet, Wired
  <2>. QED
    BY <1>1, <2>1, <2>2
<1>9. ASSUME NEW yes \in BOOLEAN, RestartPrompted(yes) PROVE IInv'
  <2>1. OneCall' /\ Bare' /\ RequestKnown' /\ Quiet' /\ Wired'
    BY <1>9 DEF RestartPrompted, InterruptKernel, ChangeState, OneCall, Bare,
       RequestKnown, Quiet, Wired
  <2>2. OwnNotices' /\ ExitSignsAreTrue'
    BY <1>9 DEF RestartPrompted, InterruptKernel, ChangeState, OwnNotices,
       ExitSignsAreTrue, SeenToExit, Listening, OneCall, Quiet, Wired
  <2>. QED
    BY <1>1, <2>1, <2>2
<1>10. ASSUME NEW yes \in BOOLEAN, DeletePrompted(yes) PROVE IInv'
  <2>1. OneCall' /\ Bare' /\ RequestKnown' /\ Quiet' /\ Wired'
    BY <1>10 DEF DeletePrompted, InterruptKernel, ChangeState, OneCall, Bare,
       RequestKnown, Quiet, Wired
  <2>2. OwnNotices' /\ ExitSignsAreTrue'
    BY <1>10 DEF DeletePrompted, InterruptKernel, ChangeState, OwnNotices,
       ExitSignsAreTrue, SeenToExit, Listening, OneCall, Quiet, Wired
  <2>. QED
    BY <1>1, <2>1, <2>2
<1>11. CASE SupervisorStops
  <2>1. OneCall' /\ Bare' /\ RequestKnown' /\ Quiet' /\ Wired'
    BY <1>11 DEF SupervisorStops, Send, OneCall, Bare, RequestKnown, Quiet, Wired
  <2>2. OwnNotices' /\ ExitSignsAreTrue'
    BY <1>11 DEF SupervisorStops, OwnNotices, ExitSignsAreTrue, SeenToExit, Listening,
       OneCall, Quiet, Wired
  <2>. QED
    BY <1>1, <2>1, <2>2
<1>12. CASE SupervisorRespawns
  <2>1. OneCall' /\ Bare' /\ RequestKnown' /\ Quiet' /\ Wired'
    BY <1>12, SentOne DEF SupervisorRespawns, Send, Messages, OneCall, Bare,
       RequestKnown, Quiet, Wired
  <2>2. OwnNotices' /\ ExitSignsAreTrue'
    BY <1>12 DEF SupervisorRespawns, RequestKnown, OwnNotices, ExitSignsAreTrue,
       SeenToExit, Listening, OneCall, Quiet, Wired
  <2>. QED
    BY <1>1, <2>1, <2>2
<1>13. CASE HandleMessage
  <2>1. /\ inbox # <<>> /\ inbox \in Seq(Messages)
        /\ Head(inbox) \in {"exitedStatus", "exited"} => HasExitNotice(inbox)
        /\ HasExitNotice(Tail(inbox)) => HasExitNotice(inbox)
    BY <1>13, NoticeTail DEF HandleMessage, TypeOK, WireType
  <2>2. HasExitNotice(inbox') => HasExitNotice(inbox)
    BY <1>13, <2>1 DEF HandleMessage
  <2>3. /\ state' = "exited" => state = "exited" \/ HasExitNotice(inbox)
        /\ state # "uninitialized" => state' # "uninitialized"
    BY <1>13, <2>1 DEF HandleMessage, StateOf, ChangeState
  <2>4. exitObserved' => exitObserved \/ HasExitNotice(inbox)
    BY <1>13, <2>1 DEF HandleMessage
  <2>5. OneCall' /\ Bare' /\ RequestKnown' /\ Quiet' /\ Wired'
    BY <1>13, <2>3 DEF HandleMessage, OneCall, Bare, RequestKnown, Quiet, Wired
  <2>6. OwnNotices' /\ ExitSignsAreTrue'
    BY <1>13, <2>2, <2>3, <2>4 DEF HandleMessage, OwnNotices, ExitSignsAreTrue,
       SeenToExit, Listening
  <2>. QED
    BY <1>1, <2>5, <2>6
<1>14. CASE AddressKnown
  <2>1. OneCall' /\ Bare' /\ RequestKnown' /\ Quiet' /\ Wired'
    BY <1>14 DEF AddressKnown, OneCall, Bare, RequestKnown, Quiet, Wired
  <2>2. OwnNotices' /\ ExitSignsAreTrue'
    BY <1>14, NoticeEmpty DEF AddressKnown, OwnNotices, ExitSignsAreTrue, SeenToExit,
       Listening, OneCall, Quiet, Wired
  <2>. QED
    BY <1>1, <2>1, <2>2
<1>15. CASE SocketOpens
  <2>1. OneCall' /\ Bare' /\ RequestKnown' /\ Quiet' /\ Wired'
    BY <1>15 DEF SocketOpens, AttemptEnds, OneCall, Bare, RequestKnown, Quiet, Wired
  <2>2. OwnNotices' /\ ExitSignsAreTrue'
    BY <1>15, NoticeEmpty DEF SocketOpens, AttemptEnds, OwnNotices, ExitSignsAreTrue,
       SeenToExit, Listening, OneCall, Quiet, Wired
  <2>. QED
    BY <1>1, <2>1, <2>2
<1>16. CASE AttemptFails
  <2>1. OneCall' /\ Bare' /\ RequestKnown' /\ Quiet' /\ Wired'
    BY <1>16 DEF AttemptFails, AttemptEnds, ChangeState, OneCall, Bare, RequestKnown,
       Quiet, Wired
  <2>2. OwnNotices' /\ ExitSignsAreTrue'
    BY <1>16 DEF AttemptFails, AttemptEnds, ChangeState, OwnNotices, ExitSignsAreTrue,
       SeenToExit, Listening, OneCall, Quiet, Wired
  <2>. QED
    BY <1>1, <2>1, <2>2
<1>17. CASE CheckReconnect
  <2>1. OneCall' /\ Bare' /\ RequestKnown' /\ Quiet' /\ Wired'
    BY <1>17 DEF CheckReconnect, Connect, OneCall, Bare, RequestKnown, Quiet, Wired
  <2>2. OwnNotices' /\ ExitSignsAreTrue'
    BY <1>17 DEF CheckReconnect, Connect, OwnNotices, ExitSignsAreTrue, SeenToExit,
       Listening, OneCall, Quiet, Wired
  <2>. QED
    BY <1>1, <2>1, <2>2
<1>18. CASE ReconnectFails
  <2>1. OneCall' /\ Bare' /\ RequestKnown' /\ Quiet' /\ Wired'
    BY <1>18 DEF ReconnectFails, ChangeState, OneCall, Bare, RequestKnown, Quiet, Wired
  <2>2. OwnNotices' /\ ExitSignsAreTrue'
    BY <1>18 DEF ReconnectFails, ChangeState, OwnNotices, ExitSignsAreTrue, SeenToExit,
       Listening, OneCall, Quiet, Wired
  <2>. QED
    BY <1>1, <2>1, <2>2
<1>19. CASE KernelCreated
  <2>1. OneCall' /\ Bare' /\ RequestKnown' /\ Quiet' /\ Wired'
    BY <1>19 DEF KernelCreated, BeginStart, ChangeState, OneCall, Bare, RequestKnown,
       Quiet, Wired
  <2>2. OwnNotices' /\ ExitSignsAreTrue'
    BY <1>19 DEF KernelCreated, BeginStart, OwnNotices, ExitSignsAreTrue, SeenToExit,
       Listening, OneCall, Quiet, Wired
  <2>. QED
    BY <1>1, <2>1, <2>2
<1>20. CASE CreateFails
  <2>1. OneCall' /\ Bare' /\ RequestKnown' /\ Quiet' /\ Wired'
    BY <1>20 DEF CreateFails, OneCall, Bare, RequestKnown, Quiet, Wired
  <2>2. OwnNotices' /\ ExitSignsAreTrue'
    BY <1>20 DEF CreateFails, OwnNotices, ExitSignsAreTrue, SeenToExit, Listening,
       OneCall, Quiet, Wired
  <2>. QED
    BY <1>1, <2>1, <2>2
<1>21. CASE ServerEnsured
  <2>1. OneCall' /\ Bare' /\ RequestKnown' /\ Quiet' /\ Wired'
    BY <1>21 DEF ServerEnsured, BeginStart, ChangeState, OneCall, Bare, RequestKnown,
       Quiet, Wired
  <2>2. OwnNotices' /\ ExitSignsAreTrue'
    BY <1>21 DEF ServerEnsured, BeginStart, OwnNotices, ExitSignsAreTrue, SeenToExit,
       Listening, OneCall, Quiet, Wired
  <2>. QED
    BY <1>1, <2>1, <2>2
<1>22. CASE StartAttached
  <2>1. OneCall' /\ Bare' /\ RequestKnown' /\ Quiet' /\ Wired'
    BY <1>22 DEF StartAttached, OneCall, Bare, RequestKnown, Quiet, Wired
  <2>2. OwnNotices' /\ ExitSignsAreTrue'
    BY <1>22 DEF StartAttached, OwnNotices, ExitSignsAreTrue, SeenToExit, Listening,
       OneCall, Quiet, Wired
  <2>. QED
    BY <1>1, <2>1, <2>2
<1>23. CASE StartChecked
  <2>1. OneCall' /\ Bare' /\ RequestKnown' /\ Quiet' /\ Wired'
    BY <1>23 DEF StartChecked, BeforeConnect, ChangeState, OneCall, Bare, RequestKnown,
       Quiet, Wired
  <2>2. OwnNotices' /\ ExitSignsAreTrue'
    BY <1>23 DEF StartChecked, BeforeConnect, OwnNotices, ExitSignsAreTrue, SeenToExit,
       Listening, OneCall, Quiet, Wired
  <2>. QED
    BY <1>1, <2>1, <2>2
<1>24. CASE Spawned
  <2>1. OneCall' /\ Bare' /\ RequestKnown' /\ Quiet' /\ Wired'
    BY <1>24 DEF Spawned, BeforeConnect, OneCall, Bare, RequestKnown, Quiet, Wired
  <2>2. OwnNotices' /\ ExitSignsAreTrue'
    BY <1>24 DEF Spawned, BeforeConnect, OwnNotices, ExitSignsAreTrue, SeenToExit,
       Listening, OneCall, Quiet, Wired
  <2>. QED
    BY <1>1, <2>1, <2>2
<1>25. CASE SpawnRefused
  <2>1. OneCall' /\ Bare' /\ RequestKnown' /\ Quiet' /\ Wired'
    BY <1>25 DEF SpawnRefused, OneCall, Bare, RequestKnown, Quiet, Wired
  <2>2. OwnNotices' /\ ExitSignsAreTrue'
    BY <1>25 DEF SpawnRefused, OwnNotices, ExitSignsAreTrue, SeenToExit, Listening,
       OneCall, Quiet, Wired
  <2>. QED
    BY <1>1, <2>1, <2>2
<1>26. CASE StartConnects
  <2>1. OneCall' /\ Bare' /\ RequestKnown' /\ Quiet' /\ Wired'
    BY <1>26 DEF StartConnects, Connect, OneCall, Bare, RequestKnown, Quiet, Wired
  <2>2. OwnNotices' /\ ExitSignsAreTrue'
    BY <1>26 DEF StartConnects, Connect, OwnNotices, ExitSignsAreTrue, SeenToExit,
       Listening, OneCall, Quiet, Wired
  <2>. QED
    BY <1>1, <2>1, <2>2
<1>27. CASE StartConfirmed
  <2>1. OneCall' /\ Bare' /\ RequestKnown' /\ Quiet' /\ Wired'
    BY <1>27 DEF StartConfirmed, OneCall, Bare, RequestKnown, Quiet, Wired
  <2>2. OwnNotices' /\ ExitSignsAreTrue'
    BY <1>27 DEF StartConfirmed, OwnNotices, ExitSignsAreTrue, SeenToExit, Listening,
       OneCall, Quiet, Wired
  <2>. QED
    BY <1>1, <2>1, <2>2
<1>28. CASE StartReady
  <2>1. OneCall' /\ Bare' /\ RequestKnown' /\ Quiet' /\ Wired'
    BY <1>28 DEF StartReady, EndStart, ChangeState, OneCall, Bare, RequestKnown, Quiet,
       Wired
  <2>2. OwnNotices' /\ ExitSignsAreTrue'
    BY <1>28 DEF StartReady, EndStart, ChangeState, OwnNotices, ExitSignsAreTrue,
       SeenToExit, Listening, OneCall, Quiet, Wired
  <2>. QED
    BY <1>1, <2>1, <2>2
<1>29. CASE StartFails
  <2>1. OneCall' /\ Bare' /\ RequestKnown' /\ Quiet' /\ Wired'
    BY <1>29 DEF StartFails, EndStart, ChangeState, OneCall, Bare, RequestKnown, Quiet,
       Wired
  <2>2. OwnNotices' /\ ExitSignsAreTrue'
    BY <1>29 DEF StartFails, EndStart, OwnNotices, ExitSignsAreTrue, SeenToExit,
       Listening, OneCall, Quiet, Wired
  <2>. QED
    BY <1>1, <2>1, <2>2
<1>30. CASE RestartAwaited
  <2>1. OneCall' /\ Bare' /\ RequestKnown' /\ Quiet' /\ Wired'
    BY <1>30 DEF RestartAwaited, OneCall, Bare, RequestKnown, Quiet, Wired
  <2>2. OwnNotices' /\ ExitSignsAreTrue'
    BY <1>30 DEF RestartAwaited, OwnNotices, ExitSignsAreTrue, SeenToExit, Listening,
       OneCall, Quiet, Wired
  <2>. QED
    BY <1>1, <2>1, <2>2
<1>31. CASE RestartServicesDown
  <2>1. OneCall' /\ Bare' /\ RequestKnown' /\ Quiet' /\ Wired'
    BY <1>31 DEF RestartServicesDown, OneCall, Bare, RequestKnown, Quiet, Wired
  <2>2. OwnNotices' /\ ExitSignsAreTrue'
    BY <1>31 DEF RestartServicesDown, OwnNotices, ExitSignsAreTrue, SeenToExit,
       Listening, OneCall, Quiet, Wired
  <2>. QED
    BY <1>1, <2>1, <2>2
<1>32. CASE RestartPrepared
  <2>1. OneCall' /\ Bare' /\ RequestKnown' /\ Quiet' /\ Wired'
    BY <1>32 DEF RestartPrepared, OneCall, Bare, RequestKnown, Quiet, Wired
  <2>2. OwnNotices' /\ ExitSignsAreTrue'
    BY <1>32 DEF RestartPrepared, OwnNotices, ExitSignsAreTrue, SeenToExit, Listening,
       OneCall, Quiet, Wired
  <2>. QED
    BY <1>1, <2>1, <2>2
<1>33. CASE RestartChecked
  <2>1. OneCall' /\ Bare' /\ RequestKnown' /\ Quiet' /\ Wired'
    BY <1>33 DEF RestartChecked, BeginStart, ChangeState, OneCall, Bare, RequestKnown,
       Quiet, Wired
  <2>2. OwnNotices' /\ ExitSignsAreTrue'
    BY <1>33 DEF RestartChecked, BeginStart, OwnNotices, ExitSignsAreTrue, SeenToExit,
       Listening, OneCall, Quiet, Wired
  <2>. QED
    BY <1>1, <2>1, <2>2
<1>34. CASE RestartRequested
  <2>1. OneCall' /\ Bare' /\ RequestKnown' /\ Quiet' /\ Wired'
    BY <1>34 DEF RestartRequested, OneCall, Bare, RequestKnown, Quiet, Wired
  <2>2. OwnNotices' /\ ExitSignsAreTrue'
    BY <1>34 DEF RestartRequested, OwnNotices, ExitSignsAreTrue, SeenToExit, Listening,
       OneCall, Quiet, Wired
  <2>. QED
    BY <1>1, <2>1, <2>2
<1>35. CASE RestartConnects
  <2>1. OneCall' /\ Bare' /\ RequestKnown' /\ Quiet' /\ Wired'
    BY <1>35 DEF RestartConnects, Connect, OneCall, Bare, RequestKnown, Quiet, Wired
  <2>2. OwnNotices' /\ ExitSignsAreTrue'
    BY <1>35 DEF RestartConnects, Connect, OwnNotices, ExitSignsAreTrue, SeenToExit,
       Listening, OneCall, Quiet, Wired
  <2>. QED
    BY <1>1, <2>1, <2>2
<1>36. CASE RestartReady
  <2>1. OneCall' /\ Bare' /\ RequestKnown' /\ Quiet' /\ Wired'
    BY <1>36 DEF RestartReady, ChangeState, OneCall, Bare, RequestKnown, Quiet, Wired
  <2>2. OwnNotices' /\ ExitSignsAreTrue'
    BY <1>36 DEF RestartReady, ChangeState, OwnNotices, ExitSignsAreTrue, SeenToExit,
       Listening, OneCall, Quiet, Wired
  <2>. QED
    BY <1>1, <2>1, <2>2
<1>37. CASE RestartFails
  <2>1. OneCall' /\ Bare' /\ RequestKnown' /\ Quiet' /\ Wired'
    BY <1>37 DEF RestartFails, OneCall, Bare, RequestKnown, Quiet, Wired
  <2>2. OwnNotices' /\ ExitSignsAreTrue'
    BY <1>37 DEF RestartFails, OwnNotices, ExitSignsAreTrue, SeenToExit, Listening,
       OneCall, Quiet, Wired
  <2>. QED
    BY <1>1, <2>1, <2>2
<1>38. CASE DeleteAwaited
  <2>1. OneCall' /\ Bare' /\ RequestKnown' /\ Quiet' /\ Wired'
    BY <1>38 DEF DeleteAwaited, Retain, CloseSession, Remove, Shutdown, OneCall, Bare,
       RequestKnown, Quiet, Wired
  <2>2. OwnNotices' /\ ExitSignsAreTrue'
    BY <1>38, NoticeEmpty DEF DeleteAwaited, Retain, CloseSession, Remove, Shutdown,
       OwnNotices, ExitSignsAreTrue, SeenToExit, Listening, OneCall, Quiet, Wired
  <2>. QED
    BY <1>1, <2>1, <2>2
<1>39. CASE ShutdownUnblocked
  <2>1. OneCall' /\ Bare' /\ RequestKnown' /\ Quiet' /\ Wired'
    BY <1>39 DEF ShutdownUnblocked, Retain, OneCall, Bare, RequestKnown, Quiet, Wired
  <2>2. OwnNotices' /\ ExitSignsAreTrue'
    BY <1>39 DEF ShutdownUnblocked, Retain, OwnNotices, ExitSignsAreTrue, SeenToExit,
       Listening, OneCall, Quiet, Wired
  <2>. QED
    BY <1>1, <2>1, <2>2
<1>40. CASE ShutdownExited
  <2>1. OneCall' /\ Bare' /\ RequestKnown' /\ Quiet' /\ Wired'
    BY <1>40 DEF ShutdownExited, Remove, OneCall, Bare, RequestKnown, Quiet, Wired
  <2>2. OwnNotices' /\ ExitSignsAreTrue'
    BY <1>40, NoticeEmpty DEF ShutdownExited, Remove, OwnNotices, ExitSignsAreTrue,
       SeenToExit, Listening, OneCall, Quiet, Wired
  <2>. QED
    BY <1>1, <2>1, <2>2
<1>41. CASE ShutdownDeadline
  <2>1. OneCall' /\ Bare' /\ RequestKnown' /\ Quiet' /\ Wired'
    BY <1>41 DEF ShutdownDeadline, Remove, Retain, OneCall, Bare, RequestKnown, Quiet, Wired
  <2>2. OwnNotices' /\ ExitSignsAreTrue'
    BY <1>41, NoticeEmpty DEF ShutdownDeadline, Remove, Retain, OwnNotices,
       ExitSignsAreTrue, SeenToExit, Listening, OneCall, Quiet, Wired
  <2>. QED
    BY <1>1, <2>1, <2>2
<1>42. CASE Kill
  <2>1. OneCall' /\ Bare' /\ RequestKnown' /\ Quiet' /\ Wired'
    BY <1>42 DEF Kill, Send, OneCall, Bare, RequestKnown, Quiet, Wired
  <2>2. OwnNotices' /\ ExitSignsAreTrue'
    BY <1>42 DEF Kill, OwnNotices, ExitSignsAreTrue, SeenToExit, Listening, OneCall,
       Quiet, Wired
  <2>. QED
    BY <1>1, <2>1, <2>2
<1>43. CASE Confirmed
  <2>1. OneCall' /\ Bare' /\ RequestKnown' /\ Quiet' /\ Wired'
    BY <1>43 DEF Confirmed, Remove, OneCall, Bare, RequestKnown, Quiet, Wired
  <2>2. OwnNotices' /\ ExitSignsAreTrue'
    BY <1>43, NoticeEmpty DEF Confirmed, Remove, OwnNotices, ExitSignsAreTrue,
       SeenToExit, Listening, OneCall, Quiet, Wired
  <2>. QED
    BY <1>1, <2>1, <2>2
<1>44. CASE ConfirmFails
  <2>1. OneCall' /\ Bare' /\ RequestKnown' /\ Quiet' /\ Wired'
    BY <1>44 DEF ConfirmFails, Retain, OneCall, Bare, RequestKnown, Quiet, Wired
  <2>2. OwnNotices' /\ ExitSignsAreTrue'
    BY <1>44 DEF ConfirmFails, Retain, OwnNotices, ExitSignsAreTrue, SeenToExit,
       Listening, OneCall, Quiet, Wired
  <2>. QED
    BY <1>1, <2>1, <2>2
<1>45. CASE UNCHANGED vars
  BY <1>1, <1>45 DEF vars, OneCall, Bare, RequestKnown, Quiet, Wired, OwnNotices,
     ExitSignsAreTrue, SeenToExit, Listening
<1>. QED
  BY <1>2, <1>3, <1>4, <1>5, <1>6, <1>7, <1>8, <1>9, <1>10, <1>11, <1>12, <1>13, <1>14,
     <1>15, <1>16, <1>17, <1>18, <1>19, <1>20, <1>21, <1>22, <1>23, <1>24, <1>25, <1>26,
     <1>27, <1>28, <1>29, <1>30, <1>31, <1>32, <1>33, <1>34, <1>35, <1>36, <1>37, <1>38,
     <1>39, <1>40, <1>41, <1>42, <1>43, <1>44, <1>45 DEF Next, Environment, User,
     Supervisor, Connection, Start, StartLimited, Restart, RestartLimited, Shutting

LEMMA InvInit == Init => IInv
<1>. SUFFICES ASSUME Init PROVE IInv
  OBVIOUS
<1>1. WireType
  BY NoMessages DEF Init, WireType
<1>2. ClientType /\ ViewType /\ CallsType /\ ServerType /\ PastType
  BY DEF Init, ClientType, ViewType, States, CallsType, ServerType, PastType
<1>3. /\ OneCall /\ Bare /\ RequestKnown /\ Quiet /\ Wired
      /\ OwnNotices /\ ExitSignsAreTrue
  BY DEF Init, OneCall, Bare, RequestKnown, Quiet, Wired, OwnNotices, ExitSignsAreTrue
<1>. QED
  BY <1>1, <1>2, <1>3 DEF IInv, TypeOK

LEMMA Invariant == Spec => []IInv
  BY InvInit, InvStep, PTL DEF Spec

\* The state stays within its types.
THEOREM TypeCorrect == Spec => []TypeOK
<1>1. IInv => TypeOK
  BY DEF IInv
<1>. QED
  BY <1>1, Invariant, PTL

\* What the extension takes for an exit of a settled session's kernel is one.
THEOREM ExitSigns == Spec => []ExitSignsAreTrue
<1>1. IInv => ExitSignsAreTrue
  BY DEF IInv
<1>. QED
  BY <1>1, Invariant, PTL
-----------------------------------------------------------------------------
\* The session stays listed or not as it is, and once removed opens no socket.
Apart ==
  /\ inSessions' = inSessions
  /\ ~inSessions' => (link' => link) /\ (connecting' = "opening" => connecting = "opening")

\* Who can take the session off the list, and who can connect it.
LEMMA ListedStep ==
  ASSUME [Next]_vars
  PROVE  \/ Apart
         \/ /\ ~inSessions' /\ ~link' /\ connecting' # "opening"
            /\ DeleteCall \/ DeleteAwaited \/ ShutdownExited \/ ShutdownDeadline \/ Confirmed
<1>. USE DEF client, wire
<1>1. ASSUME KernelExits PROVE Apart
  BY <1>1 DEF KernelExits, Apart
<1>2. ASSUME LoseConnection PROVE Apart
  BY <1>2 DEF LoseConnection, Apart
<1>3. ASSUME NEW msg \in {"busy", "idle", "reply"}, KernelReports(msg) PROVE Apart
  BY <1>3 DEF KernelReports, Apart
<1>4. ASSUME StartCall PROVE Apart
  BY <1>4 DEF StartCall, Apart
<1>5. CASE DeleteCall
  BY <1>5 DEF DeleteCall, Retain, CloseSession, Remove, Shutdown, Apart
<1>6. ASSUME ReconnectByHand PROVE Apart
  BY <1>6 DEF ReconnectByHand, Connect, Apart
<1>7. ASSUME NEW yes \in BOOLEAN, RestartCall(yes) PROVE Apart
  BY <1>7 DEF RestartCall, Apart
<1>8. ASSUME NEW yes \in BOOLEAN, RestartPrompted(yes) PROVE Apart
  BY <1>8 DEF RestartPrompted, Apart
<1>9. ASSUME NEW yes \in BOOLEAN, DeletePrompted(yes) PROVE Apart
  BY <1>9 DEF DeletePrompted, Apart
<1>10. ASSUME SupervisorStops PROVE Apart
  BY <1>10 DEF SupervisorStops, Apart
<1>11. ASSUME SupervisorRespawns PROVE Apart
  BY <1>11 DEF SupervisorRespawns, Apart
<1>12. ASSUME HandleMessage PROVE Apart
  BY <1>12 DEF HandleMessage, Apart
<1>13. ASSUME AddressKnown PROVE Apart
  BY <1>13 DEF AddressKnown, Apart
<1>14. ASSUME SocketOpens PROVE Apart
  BY <1>14 DEF SocketOpens, AttemptEnds, Apart
<1>15. ASSUME AttemptFails PROVE Apart
  BY <1>15 DEF AttemptFails, AttemptEnds, Apart
<1>16. ASSUME CheckReconnect PROVE Apart
  BY <1>16 DEF CheckReconnect, Connect, Apart
<1>17. ASSUME ReconnectFails PROVE Apart
  BY <1>17 DEF ReconnectFails, Apart
<1>18. ASSUME KernelCreated PROVE Apart
  BY <1>18 DEF KernelCreated, Apart
<1>19. ASSUME CreateFails PROVE Apart
  BY <1>19 DEF CreateFails, Apart
<1>20. ASSUME ServerEnsured PROVE Apart
  BY <1>20 DEF ServerEnsured, Apart
<1>21. ASSUME StartAttached PROVE Apart
  BY <1>21 DEF StartAttached, Apart
<1>22. ASSUME StartChecked PROVE Apart
  BY <1>22 DEF StartChecked, Apart
<1>23. ASSUME Spawned PROVE Apart
  BY <1>23 DEF Spawned, Apart
<1>24. ASSUME SpawnRefused PROVE Apart
  BY <1>24 DEF SpawnRefused, Apart
<1>25. ASSUME StartConnects PROVE Apart
  BY <1>25 DEF StartConnects, Connect, Apart
<1>26. ASSUME StartConfirmed PROVE Apart
  BY <1>26 DEF StartConfirmed, Apart
<1>27. ASSUME StartReady PROVE Apart
  BY <1>27 DEF StartReady, Apart
<1>28. ASSUME StartFails PROVE Apart
  BY <1>28 DEF StartFails, Apart
<1>29. ASSUME RestartAwaited PROVE Apart
  BY <1>29 DEF RestartAwaited, Apart
<1>30. ASSUME RestartServicesDown PROVE Apart
  BY <1>30 DEF RestartServicesDown, Apart
<1>31. ASSUME RestartPrepared PROVE Apart
  BY <1>31 DEF RestartPrepared, Apart
<1>32. ASSUME RestartChecked PROVE Apart
  BY <1>32 DEF RestartChecked, Apart
<1>33. ASSUME RestartRequested PROVE Apart
  BY <1>33 DEF RestartRequested, Apart
<1>34. ASSUME RestartConnects PROVE Apart
  BY <1>34 DEF RestartConnects, Connect, Apart
<1>35. ASSUME RestartReady PROVE Apart
  BY <1>35 DEF RestartReady, Apart
<1>36. ASSUME RestartFails PROVE Apart
  BY <1>36 DEF RestartFails, Apart
<1>37. CASE DeleteAwaited
  BY <1>37 DEF DeleteAwaited, Retain, CloseSession, Remove, Shutdown, Apart
<1>38. ASSUME ShutdownUnblocked PROVE Apart
  BY <1>38 DEF ShutdownUnblocked, Retain, Apart
<1>39. CASE ShutdownExited
  BY <1>39 DEF ShutdownExited, Remove, Apart
<1>40. CASE ShutdownDeadline
  BY <1>40 DEF ShutdownDeadline, Remove, Retain, Apart
<1>41. ASSUME Kill PROVE Apart
  BY <1>41 DEF Kill, Apart
<1>42. CASE Confirmed
  BY <1>42 DEF Confirmed, Remove, Apart
<1>43. ASSUME ConfirmFails PROVE Apart
  BY <1>43 DEF ConfirmFails, Retain, Apart
<1>44. CASE UNCHANGED vars
  BY <1>44 DEF vars, Apart
<1>. QED
  BY <1>1, <1>2, <1>3, <1>4, <1>5, <1>6, <1>7, <1>8, <1>9, <1>10, <1>11, <1>12, <1>13,
     <1>14, <1>15, <1>16, <1>17, <1>18, <1>19, <1>20, <1>21, <1>22, <1>23, <1>24, <1>25,
     <1>26, <1>27, <1>28, <1>29, <1>30, <1>31, <1>32, <1>33, <1>34, <1>35, <1>36, <1>37,
     <1>38, <1>39, <1>40, <1>41, <1>42, <1>43, <1>44 DEF Next, Environment, User,
     Supervisor, Connection, Start, StartLimited, Restart, RestartLimited, Shutting

\* A removed session has no socket, open or about to open, however many
\* attempts to connect it are or were under way.
THEOREM NeverReconnected == Spec => []RemovedStaysDisconnected
<1>1. Init => RemovedStaysDisconnected
  BY DEF Init, RemovedStaysDisconnected
<1>2. RemovedStaysDisconnected /\ [Next]_vars => RemovedStaysDisconnected'
  BY ListedStep DEF RemovedStaysDisconnected, Apart
<1>. QED
  BY <1>1, <1>2, PTL DEF Spec

\* What a settled session takes for its kernel's exit is one, and a deletion
\* removes it only when its kernel has exited.
THEOREM ExitsReal == Spec => ExitsAreReal
<1>1. IInv /\ [Next]_vars => RemovalMeansExit
  <2>. SUFFICES ASSUME IInv, [Next]_vars, inSessions, ~inSessions', settled
                PROVE  proc # "running"
    BY DEF RemovalMeansExit
  <2>. USE DEF IInv, ExitSignsAreTrue, SeenToExit, Listening, Quiet
  <2>1. CASE DeleteCall
    BY <2>1 DEF DeleteCall, Retain, CloseSession, Shutdown, client
  <2>2. CASE DeleteAwaited
    BY <2>2 DEF DeleteAwaited, Retain, CloseSession, Shutdown, client
  <2>3. CASE ShutdownExited
    BY <2>3 DEF ShutdownExited
  <2>4. CASE ShutdownDeadline
    BY <2>4 DEF ShutdownDeadline, Retain, client
  <2>5. CASE Confirmed
    BY <2>5 DEF Confirmed
  <2>. QED
    BY <2>1, <2>2, <2>3, <2>4, <2>5, ListedStep DEF Apart
<1>2. IInv' => ExitSignsAreTrue'
  BY DEF IInv
<1>. QED
  BY <1>1, <1>2, Invariant, PTL DEF Spec, ExitsAreReal

-----------------------------------------------------------------------------
(***************************************************************************)
(* The server, for any calls, watchers, starts and crashes.  What holds    *)
(* also when two recoveries overlap comes first: BaseInv; SafeInv holds    *)
(* until they do.                                                          *)
(***************************************************************************)
\* A start has come to its server, or is over.
Launched(i) == run[i].pc \notin {"none", "load", "reconnect", "reconnected", "launch"}

\* A server that has gone does not come back.
Gone(s)  == s \notin alive \/ IsStale(s)
Known(s) == s \in Starts => Launched(s)

ServersKnown ==
  /\ \A s \in alive \cup told \cup {api, saved, lease, launcher} : Known(s)
  /\ \A p \in Procs : Known(task[p].server)
  /\ launcher # Old

\* The lease that is held is the only one that is renewed.
OneLease == leases = {lease} \ {None}

\* What is to be removed has gone, and the stop tests nothing.
ProcsKnown ==
  /\ task[Stopper].pc \in {"idle", "wait", "stopWait", "request", "asked", "cleanup", "done",
                       "failed"}
  /\ \A p \in Procs : /\ task[p].pc \in {"verify", "remove"} => task[p].server # None
                      /\ task[p].pc = "remove" => Gone(task[p].server)
                      /\ task[p].pc = "create" => p \in Callers
  /\ \A p \in Callers : task[p].pc = "idle" => ~task[p].testing

\* One start at a time, none while the server is online or is stopped, and what is
\* saved is the server of an earlier window or of the start that has ended.
OneStart ==
  /\ \A i \in Starts : i \in UnderWay <=> starting = i
  /\ started => starting = None
  /\ task[Stopper].pc \in {"request", "asked", "cleanup"} => starting = None
  /\ saved \in Starts => started \/ (starting # None /\ run[starting].pc = "record")

\* What a start has done so far.
StartKnown ==
  \A i \in Starts :
    /\ run[i].pc \in {"reconnect", "reconnected"} => api = Old /\ saved = Old
    /\ run[i].pc = "reconnected" => ~IsStale(Old)
    /\ run[i].pc \in {"handshake", "configure", "poll", "record"} /\ ~disposed => lease = i /\ i \notin told
    /\ run[i].pc \in {"configure", "poll", "record"} /\ disposed => lease = None
    /\ run[i].pc \in {"poll", "record"} => api = i
    /\ run[i].pc = "record" => saved = i

\* The server that is online is the one whose lease is held.
OnlineKnown ==
  /\ started =>
       /\ api # None /\ ~IsStale(api)
       /\ ~disposed => api = lease \/ (api = Old /\ lease = None)
  /\ ~disposed /\ api \in told /\ started => task[Stopper].pc \in {"asked", "failed"}
  /\ ~disposed /\ Old \in told /\ saved = Old => task[Stopper].pc \in {"asked", "failed"}

\* While the server of an earlier window is the one that is saved, and no other has
\* been launched in its place, no lease but its own is held.
OldKnown ==
  (/\ saved = Old
   /\ \A i \in Starts : run[i].pc \notin {"handshake", "configure", "poll", "record"})
  => lease \in {None, Old}

\* A process that waits for the end of the stop to recover the server.
Recovers(p) == task[p].pc = "ensure" /\ (p \notin Callers \/ task[p].testing)

\* The server a stop has asked is not one that anybody is about to recover.
StopKnown ==
  /\ task[Stopper].pc \in {"request", "asked"} => ~IsStale(api)
  /\ task[Stopper].pc = "asked" => api = task[Stopper].server
  /\ task[Stopper].pc = "cleanup" => api = None /\ ~started
  /\ task[Stopper].pc = "idle" => \A p \in Procs : task[p].pc # "ensure"
  /\ \A p \in Procs :
       /\ Recovers(p) /\ task[Stopper].pc = "stopWait" => ~started /\ starting = None
       /\ Recovers(p) /\ task[Stopper].pc = "request" => api \notin alive
       /\ task[Stopper].pc \in {"asked", "cleanup"} /\ ~task[Stopper].restarting =>
            /\ ~Recovers(p)
            /\ task[p].pc = "remove" => task[p].server # task[Stopper].server
       /\ task[Stopper].pc = "asked" /\ task[p].pc = "remove" => task[p].server # task[Stopper].server

\* After a stop on purpose nothing is left that would recover the server.
StoppedKnown ==
  /\ task[Stopper].pc # "done" => stopped = None
  /\ stopped # None =>
       /\ api = None /\ starting = None /\ ~started
       /\ stopped = task[Stopper].server
       /\ \A p \in Procs : /\ task[p].pc # "ensure"
                           /\ task[p].pc = "remove" => task[p].server # stopped
\* A server that was launched and runs is in use, is being started, or ends.
NoneLeft ==
  \A i \in Starts \cap alive :
    \/ i \in told \/ i \notin leases
    \/ i \in UnderWay
    \/ started /\ api = i /\ ~disposed

SafeInv ==
  OneStart /\ StartKnown /\ OnlineKnown /\ OldKnown /\ StopKnown /\ StoppedKnown /\ NoneLeft

-----------------------------------------------------------------------------
LEMMA Constants ==
  /\ Starts \subseteq Nat \ {0} /\ Old \in Nat /\ Old # None /\ None \notin Starts /\ Old \notin Starts
  /\ None \notin Servers /\ Starts \subseteq Servers /\ Old \in Servers
  /\ Stopper \in Procs /\ Stopper \notin Callers /\ Stopper \notin Watchers
  /\ \A p \in Procs : p \in Callers => p \notin Watchers /\ p # Stopper
  /\ \A p \in Watchers : p \in Procs /\ p # Stopper
  /\ \A p \in Callers : p \in Procs
  /\ \A s : IsStale(s) => s = Old
  BY SupervisorBoundsAssumption, ProcsAssumption DEF Starts, Old, None, Servers, Procs, IsStale

\* What a process does once its wait is over.
LEMMA AfterFacts ==
  ASSUME SupervisorTypeOK, NEW p \in Procs, NEW q \in Proc, NEW open \in BOOLEAN
  PROVE  \E r \in Proc :
           /\ r = After(p, q, open)
           /\ r.pc \in {"create", "idle", "done"}
           /\ r.pc = "create" => p \in Callers
           /\ r.pc = "idle" => p \in Watchers
           /\ r.server = q.server \/ r.server = api
<1>1. After(p, q, open) \in Proc
  BY DEF After, Proc, SupervisorTypeOK, ServerTypeOK
<1>2. /\ After(p, q, open).pc \in {"create", "idle", "done"}
      /\ After(p, q, open).pc = "create" => p \in Callers
      /\ After(p, q, open).pc = "idle" => p \in Watchers
      /\ After(p, q, open).server = q.server \/ After(p, q, open).server = api
  BY DEF After, Proc
<1>. QED
  BY <1>1, <1>2

LEMMA TestsFacts ==
  ASSUME SupervisorTypeOK, NEW p \in Procs, NEW q \in Proc, Tests(p, q)
  PROVE  \E r \in Proc :
           /\ task' = [task EXCEPT ![p] = r]
           /\ r.pc \in {"create", "idle", "done", "await", "verify", "remove"}
           /\ r.pc = "create" => p \in Callers
           /\ r.pc = "idle" => p \in Watchers
           /\ r.pc = "await" => r.on # None
           /\ r.pc \in {"verify", "remove"} =>
                ~Stopping /\ starting = None /\ api # None /\ r.server = api
           /\ r.pc = "remove" => api \notin alive
           /\ r.server = q.server \/ r.server = api
<1>. USE Constants DEF SupervisorTypeOK
<1>1. PICK a \in Proc :
           /\ a = After(p, q, started)
           /\ a.pc \in {"create", "idle", "done"}
           /\ a.pc = "create" => p \in Callers
           /\ a.pc = "idle" => p \in Watchers
           /\ a.server = q.server \/ a.server = api
  BY AfterFacts DEF StartTypeOK
<1>2. CASE Stopping \/ (starting = None /\ api = None)
  <2>1. task' = [task EXCEPT ![p] = a]
    BY <1>1, <1>2 DEF Tests
  <2>. QED
    BY <1>1, <2>1
<1>3. CASE ~Stopping /\ starting # None
  <2>1. PICK r : r = [q EXCEPT !.pc = "await", !.on = starting]
    OBVIOUS
  <2>2. r \in Proc /\ r.pc = "await" /\ r.on # None /\ r.server = q.server
    BY <1>3, <2>1 DEF Proc, StartTypeOK
  <2>3. task' = [task EXCEPT ![p] = r]
    BY <1>3, <2>1 DEF Tests
  <2>. QED
    BY <2>2, <2>3
<1>4. CASE ~Stopping /\ starting = None /\ api # None
  <2>1. PICK r : r = [q EXCEPT !.pc = IF api \in alive THEN "verify" ELSE "remove", !.server = api]
    OBVIOUS
  <2>2. /\ r \in Proc /\ r.pc \in {"verify", "remove"} /\ r.server = api
        /\ r.pc = "remove" => api \notin alive
    BY <1>4, <2>1 DEF Proc, ServerTypeOK
  <2>3. task' = [task EXCEPT ![p] = r]
    BY <1>4, <2>1 DEF Tests
  <2>. QED
    BY <1>4, <2>2, <2>3
<1>. QED
  BY <1>2, <1>3, <1>4

\* The server is online, a start is under way, or one begins.
LEMMA EnsuresNowFacts ==
  ASSUME SupervisorTypeOK, NEW p \in Procs, NEW q \in Proc, NEW open \in BOOLEAN, NEW current \in Starts \cup {None},
         EnsuresNow(p, q, open, current)
  PROVE  /\ started' = open
         /\ \E r \in Proc :
              /\ task' = [task EXCEPT ![p] = r]
              /\ r.pc \in {"create", "idle", "done", "wait"}
              /\ r.pc = "create" => p \in Callers
              /\ r.pc = "idle" => p \in Watchers
              /\ r.pc = "wait" => r.on # None
              /\ r.server = q.server \/ r.server = api
              /\ \/ (open \/ current # None) /\ starting' = current /\ UNCHANGED <<promise, run>>
                 \/ /\ ~open /\ current = None /\ r.pc = "wait"
                    /\ \E i \in Starts :
                         /\ run[i].pc = "none" /\ starting' = i
                         /\ promise' = [promise EXCEPT ![i] = "pending"]
                         /\ run' = [run EXCEPT ![i].pc = "load"]
<1>. USE Constants
<1>0. started' = open
  BY DEF EnsuresNow
<1>1. CASE open
  <2>1. PICK a \in Proc :
           /\ a = After(p, q, TRUE)
           /\ a.pc \in {"create", "idle", "done"}
           /\ a.pc = "create" => p \in Callers
           /\ a.pc = "idle" => p \in Watchers
           /\ a.server = q.server \/ a.server = api
    BY AfterFacts
  <2>2. task' = [task EXCEPT ![p] = a] /\ starting' = current /\ UNCHANGED <<promise, run>>
    BY <1>1, <2>1 DEF EnsuresNow
  <2>. QED
    BY <1>0, <1>1, <2>1, <2>2
<1>2. CASE ~open /\ current # None
  <2>1. PICK r : r = [q EXCEPT !.pc = "wait", !.on = current]
    OBVIOUS
  <2>2. r \in Proc /\ r.pc = "wait" /\ r.on # None /\ r.server = q.server
    BY <1>2, <2>1 DEF Proc
  <2>3. task' = [task EXCEPT ![p] = r] /\ starting' = current /\ UNCHANGED <<promise, run>>
    BY <1>2, <2>1 DEF EnsuresNow
  <2>. QED
    BY <1>0, <1>2, <2>2, <2>3
<1>3. CASE ~open /\ current = None
  <2>1. PICK i \in Free :
          /\ starting' = i
          /\ promise' = [promise EXCEPT ![i] = "pending"]
          /\ run' = [run EXCEPT ![i].pc = "load"]
          /\ task' = [task EXCEPT ![p] = [q EXCEPT !.pc = "wait", !.on = i]]
    BY <1>3 DEF EnsuresNow
  <2>2. PICK r : r = [q EXCEPT !.pc = "wait", !.on = i]
    OBVIOUS
  <2>3. i \in Starts /\ run[i].pc = "none"
    BY DEF Free
  <2>4. r \in Proc /\ r.pc = "wait" /\ r.on # None /\ r.server = q.server
    BY <2>2, <2>3 DEF Proc
  <2>. QED
    BY <1>0, <1>3, <2>1, <2>2, <2>3, <2>4
<1>. QED
  BY <1>1, <1>2, <1>3

LEMMA EnsuresFacts ==
  ASSUME SupervisorTypeOK, NEW p \in Procs, NEW q \in Proc, NEW open \in BOOLEAN, NEW current \in Starts \cup {None},
         Ensures(p, q, open, current)
  PROVE  /\ started' = open
         /\ \E r \in Proc :
              /\ task' = [task EXCEPT ![p] = r]
              /\ r.pc \in {"create", "idle", "done", "wait", "ensure"}
              /\ r.pc = "create" => p \in Callers
              /\ r.pc = "idle" => p \in Watchers
              /\ r.pc = "wait" => r.on # None
              /\ r.pc = "ensure" => Stopping /\ r.testing = q.testing
              /\ r.server = q.server \/ r.server = api
              /\ \/ (open \/ current # None \/ Stopping) /\ starting' = current /\ UNCHANGED <<promise, run>>
                 \/ /\ ~open /\ current = None /\ ~Stopping /\ r.pc = "wait"
                    /\ \E i \in Starts :
                         /\ run[i].pc = "none" /\ starting' = i
                         /\ promise' = [promise EXCEPT ![i] = "pending"]
                         /\ run' = [run EXCEPT ![i].pc = "load"]
<1>1. CASE Stopping
  <2>1. PICK r : r = [q EXCEPT !.pc = "ensure"]
    OBVIOUS
  <2>2. r \in Proc /\ r.pc = "ensure" /\ r.server = q.server /\ r.testing = q.testing
    BY <2>1 DEF Proc
  <2>3. task' = [task EXCEPT ![p] = r] /\ started' = open /\ starting' = current /\ UNCHANGED <<promise, run>>
    BY <1>1, <2>1 DEF Ensures
  <2>. QED
    BY <1>1, <2>2, <2>3
<1>2. CASE ~Stopping
  <2>1. EnsuresNow(p, q, open, current)
    BY <1>2 DEF Ensures
  <2>2. PICK r \in Proc :
              /\ task' = [task EXCEPT ![p] = r]
              /\ r.pc \in {"create", "idle", "done", "wait"}
              /\ r.pc = "create" => p \in Callers
              /\ r.pc = "idle" => p \in Watchers
              /\ r.pc = "wait" => r.on # None
              /\ r.server = q.server \/ r.server = api
              /\ \/ (open \/ current # None) /\ starting' = current /\ UNCHANGED <<promise, run>>
                 \/ /\ ~open /\ current = None /\ r.pc = "wait"
                    /\ \E i \in Starts :
                         /\ run[i].pc = "none" /\ starting' = i
                         /\ promise' = [promise EXCEPT ![i] = "pending"]
                         /\ run' = [run EXCEPT ![i].pc = "load"]
    BY <2>1, EnsuresNowFacts
  <2>3. started' = open
    BY <2>1 DEF EnsuresNow
  <2>. QED
    BY <1>2, <2>2, <2>3
<1>. QED
  BY <1>1, <1>2
-----------------------------------------------------------------------------
LEMMA ProcMoves ==
  ASSUME ProcTypeOK, NEW p \in Procs, NEW r \in Proc, task' = [task EXCEPT ![p] = r],
         r.pc \in {"wait", "await", "stopWait"} => r.on # None,
         sessions' \subseteq Callers, disposed' \in BOOLEAN, stopped' \in Servers \cup {None},
         overlapped' \in BOOLEAN
  PROVE  ProcTypeOK' /\ task'[p] = r /\ \A t \in Procs \ {p} : task'[t] = task[t]
<1>1. task'[p] = r /\ (\A t \in Procs \ {p} : task'[t] = task[t]) /\ task' \in [Procs -> Proc]
  BY DEF ProcTypeOK
<1>2. \A t \in Procs : task'[t].pc \in {"wait", "await", "stopWait"} => task'[t].on # None
  BY <1>1 DEF ProcTypeOK
<1>. QED
  BY <1>1, <1>2 DEF ProcTypeOK

LEMMA RunGoes ==
  ASSUME StartTypeOK, NEW i \in Starts,
         NEW pc \in {"load", "reconnect", "reconnected", "launch", "handshake",
                     "configure", "poll", "record", "done", "failed"},
         run' = [run EXCEPT ![i].pc = pc]
  PROVE  run' \in [Starts -> Run] /\ \A j \in Starts : run'[j].pc = IF j = i THEN pc ELSE run[j].pc
  BY DEF StartTypeOK, Run

LEMMA RunLoads ==
  ASSUME StartTypeOK, NEW i \in Starts, run' = [run EXCEPT ![i].pc = "load"]
  PROVE  \A j \in Starts : run'[j].pc = IF j = i THEN "load" ELSE run[j].pc
BY DEF StartTypeOK, Run

LEMMA SettlesTyped ==
  ASSUME StartTypeOK, NEW how \in {"resolved", "rejected"}, started' \in BOOLEAN, run' \in [Starts -> Run],
         promise' = (IF starting = None THEN promise ELSE [promise EXCEPT ![starting] = how]), starting' = None
  PROVE  StartTypeOK'
  BY DEF StartTypeOK

\* A call of ensureStarted leaves what it ensures well typed.
LEMMA EnsuredTyped ==
  ASSUME StartTypeOK, NEW open \in BOOLEAN, NEW current \in {None, starting}, started' = open,
         \/ starting' = current /\ UNCHANGED <<promise, run>>
         \/ \E i \in Starts :
              /\ starting' = i
              /\ promise' = [promise EXCEPT ![i] = "pending"]
              /\ run' = [run EXCEPT ![i].pc = "load"]
  PROVE  StartTypeOK'
<1>. USE Constants
<1>1. CASE starting' = current /\ UNCHANGED <<promise, run>>
  BY <1>1 DEF StartTypeOK
<1>2. ASSUME NEW i \in Starts, starting' = i, promise' = [promise EXCEPT ![i] = "pending"],
             run' = [run EXCEPT ![i].pc = "load"]
      PROVE  StartTypeOK'
  <2>1. run' \in [Starts -> Run]
    BY <1>2, RunGoes
  <2>. QED
    BY <1>2, <2>1 DEF StartTypeOK
<1>. QED
  BY <1>1, <1>2

LEMMA ServerExitsTyped ==
  ASSUME SupervisorTypeOK, NEW s \in Servers, ServerExits(s)
  PROVE  SupervisorTypeOK'
<1>. USE DEF SupervisorTypeOK, ServerExits
<1>1. ServerTypeOK'
  BY DEF ServerTypeOK, leaseVars
<1>2. StartTypeOK'
  BY DEF StartTypeOK, startVars
<1>3. ProcTypeOK'
  BY DEF ProcTypeOK
<1>. QED
  BY <1>1, <1>2, <1>3

\* A process goes on, and may have created its session.
LEMMA MovesTyped ==
  ASSUME SupervisorTypeOK, NEW p \in Procs, NEW r \in Proc, task' = [task EXCEPT ![p] = r],
         r.pc \in {"wait", "await", "stopWait"} => r.on # None,
         sessions' \subseteq Callers,
         UNCHANGED <<worldVars, saved, api, startVars, leaseVars, disposed, stopped, overlapped>>
  PROVE  SupervisorTypeOK' /\ task'[p] = r /\ \A t \in Procs \ {p} : task'[t] = task[t]
<1>. USE DEF SupervisorTypeOK
<1>1. ServerTypeOK'
  BY DEF ServerTypeOK, worldVars, leaseVars
<1>2. StartTypeOK'
  BY DEF StartTypeOK, startVars
<1>3. ProcTypeOK' /\ task'[p] = r /\ \A t \in Procs \ {p} : task'[t] = task[t]
  BY ProcMoves DEF ProcTypeOK
<1>. QED
  BY <1>1, <1>2, <1>3

\* What the moves of a process come to that starts no server.
LEMMA AnsweredFacts ==
  ASSUME SupervisorTypeOK, NEW p \in Procs, Answered(p)
  PROVE  /\ task[p].pc \in {"wait", "await"}
         /\ \E r \in Proc :
              /\ task' = [task EXCEPT ![p] = r] /\ r.pc \in {"create", "idle", "done"}
              /\ r.pc = "create" => p \in Callers
              /\ r.pc = "idle" => p \in Watchers
              /\ r.server = task[p].server \/ r.server = api
<1>. USE DEF SupervisorTypeOK
<1>1. task[p] \in Proc
  BY DEF ProcTypeOK
<1>2. CASE /\ promise[task[p].on] = "rejected" /\ p \in Callers
           /\ ~task[p].testing \/ task[p].pc = "await"
  <2>1. PICK r : r = [task[p] EXCEPT !.pc = "done"]
    OBVIOUS
  <2>2. r \in Proc /\ r.pc = "done" /\ r.server = task[p].server
    BY <1>1, <2>1 DEF Proc
  <2>. QED
    BY <1>2, <2>1, <2>2 DEF Answered
<1>3. CASE ~(/\ promise[task[p].on] = "rejected" /\ p \in Callers
             /\ ~task[p].testing \/ task[p].pc = "await")
  <2>1. PICK r \in Proc :
           /\ r = After(p, task[p], started)
           /\ r.pc \in {"create", "idle", "done"}
           /\ r.pc = "create" => p \in Callers
           /\ r.pc = "idle" => p \in Watchers
           /\ r.server = task[p].server \/ r.server = api
    BY <1>1, AfterFacts DEF StartTypeOK
  <2>2. task' = [task EXCEPT ![p] = r]
    BY <1>3, <2>1 DEF Answered
  <2>. QED
    BY <2>1, <2>2 DEF Answered
<1>. QED
  BY <1>2, <1>3

LEMMA VerifiedFacts ==
  ASSUME SupervisorTypeOK, NEW p \in Procs, Verified(p)
  PROVE  /\ task[p].pc = "verify"
         /\ \E r \in Proc :
              /\ task' = [task EXCEPT ![p] = r] /\ r.pc \in {"create", "idle", "done", "remove"}
              /\ r.pc = "create" => p \in Callers
              /\ r.pc = "idle" => p \in Watchers
              /\ r.pc = "remove" =>
                   /\ ~Stopping /\ Gone(task[p].server) /\ r.server = task[p].server
                   /\ r.server = task[Stopper].server => task[Stopper].pc = "failed"
              /\ r.server = task[p].server \/ r.server = api
<1>. USE DEF SupervisorTypeOK
<1>1. task[p] \in Proc
  BY DEF ProcTypeOK
<1>2. PICK a \in Proc :
           /\ a = After(p, task[p], started)
           /\ a.pc \in {"create", "idle", "done"}
           /\ a.pc = "create" => p \in Callers
           /\ a.pc = "idle" => p \in Watchers
           /\ a.server = task[p].server \/ a.server = api
  BY <1>1, AfterFacts DEF StartTypeOK
<1>3. PICK r : r = [task[p] EXCEPT !.pc = "remove"]
  OBVIOUS
<1>4. r \in Proc /\ r.pc = "remove" /\ r.server = task[p].server
  BY <1>1, <1>3 DEF Proc
<1>5. \/ task' = [task EXCEPT ![p] = a]
      \/ /\ ~Stopping /\ Gone(task[p].server) /\ task' = [task EXCEPT ![p] = r]
         /\ r.server = task[Stopper].server => task[Stopper].pc = "failed"
  BY <1>2, <1>3, <1>4 DEF Verified, Gone, ProcTypeOK
<1>. QED
  BY <1>2, <1>4, <1>5 DEF Verified

LEMMA WatchFacts ==
  ASSUME SupervisorTypeOK, NEW p \in Procs, Watch(p)
  PROVE  \E r \in Proc :
           /\ task' = [task EXCEPT ![p] = r]
           /\ r.pc \in {"create", "idle", "done", "await", "verify", "remove"}
           /\ r.pc = "create" => p \in Callers
           /\ r.pc = "idle" => p \in Watchers
           /\ r.pc = "await" => r.on # None
           /\ r.pc \in {"verify", "remove"} =>
                ~Stopping /\ starting = None /\ api # None /\ r.server = api
           /\ r.pc = "remove" => api \notin alive
           /\ r.server = task[p].server \/ r.server = api
<1>1. PICK q : q = [task[p] EXCEPT !.testing = TRUE]
  OBVIOUS
<1>2. q \in Proc /\ q.server = task[p].server
  BY <1>1 DEF SupervisorTypeOK, ProcTypeOK, Proc
<1>3. Tests(p, q)
  BY <1>1 DEF Watch
<1>. QED
  BY <1>2, <1>3, TestsFacts

LEMMA CreateReturnsFacts ==
  ASSUME SupervisorTypeOK, NEW p \in Procs, CreateReturns(p)
  PROVE  /\ task[p].pc = "create"
         /\ sessions' \subseteq sessions \cup {p} /\ sessions \subseteq Callers
         /\ \E r \in Proc :
              /\ task' = [task EXCEPT ![p] = r]
              /\ r.pc \in {"create", "idle", "done", "await", "verify", "remove"}
              /\ r.pc = "create" => p \in Callers
              /\ r.pc = "idle" => p \in Watchers
              /\ r.pc = "await" => r.on # None
              /\ r.pc \in {"verify", "remove"} =>
                   ~Stopping /\ starting = None /\ api # None /\ r.server = api
              /\ r.pc = "remove" => api \notin alive
              /\ r.server = task[p].server \/ r.server = api
<1>0. task[p] \in Proc /\ task[p].pc = "create"
  BY DEF SupervisorTypeOK, ProcTypeOK, CreateReturns
<1>1. sessions' \subseteq sessions \cup {p} /\ sessions \subseteq Callers
  BY DEF CreateReturns, SupervisorTypeOK, ProcTypeOK
<1>2. CASE task' = [task EXCEPT ![p].pc = "done"]
  <2>1. PICK r : r = [task[p] EXCEPT !.pc = "done"]
    OBVIOUS
  <2>2. r \in Proc /\ r.pc = "done" /\ r.server = task[p].server
    BY <1>0, <2>1 DEF Proc
  <2>3. task' = [task EXCEPT ![p] = r]
    BY <1>2, <2>1
  <2>. QED
    BY <1>0, <1>1, <2>2, <2>3
<1>3. CASE Tests(p, [task[p] EXCEPT !.testing = TRUE])
  <2>1. PICK q : q = [task[p] EXCEPT !.testing = TRUE]
    OBVIOUS
  <2>2. q \in Proc /\ q.server = task[p].server
    BY <1>0, <2>1 DEF Proc
  <2>3. Tests(p, q)
    BY <1>3, <2>1
  <2>. QED
    BY <1>0, <1>1, <2>2, <2>3, TestsFacts
<1>. QED
  BY <1>2, <1>3 DEF CreateReturns

LEMMA MoveKeepsTypes ==
  ASSUME SupervisorTypeOK, ProcsKnown, NEW p \in Procs, Answered(p) \/ CreateReturns(p) \/ Verified(p) \/ Watch(p)
  PROVE  SupervisorTypeOK'
<1>. USE DEF SupervisorTypeOK
<1>1. CASE Answered(p)
  <2>1. PICK r \in Proc : task' = [task EXCEPT ![p] = r] /\ r.pc \in {"create", "idle", "done"}
    BY <1>1, AnsweredFacts
  <2>2. /\ UNCHANGED <<worldVars, saved, api, startVars, leaseVars, sessions, disposed, stopped, overlapped>>
        /\ sessions' \subseteq Callers
    BY <1>1 DEF Answered, ProcTypeOK
  <2>. QED
    BY <2>1, <2>2, MovesTyped
<1>2. CASE CreateReturns(p)
  <2>1. PICK r \in Proc :
          /\ task' = [task EXCEPT ![p] = r]
          /\ r.pc \in {"create", "idle", "done", "await", "verify", "remove"} /\ (r.pc = "await" => r.on # None)
    BY <1>2, CreateReturnsFacts
  <2>2. p \in Callers /\ sessions' \subseteq Callers
    BY <1>2, CreateReturnsFacts DEF ProcsKnown
  <2>. QED
    BY <1>2, <2>1, <2>2, MovesTyped DEF CreateReturns
<1>3. CASE Verified(p)
  <2>1. PICK r \in Proc : task' = [task EXCEPT ![p] = r] /\ r.pc \in {"create", "idle", "done", "remove"}
    BY <1>3, VerifiedFacts
  <2>. QED
    BY <1>3, <2>1, MovesTyped DEF Verified, ProcTypeOK
<1>4. CASE Watch(p)
  <2>1. PICK r \in Proc :
          /\ task' = [task EXCEPT ![p] = r]
          /\ r.pc \in {"create", "idle", "done", "await", "verify", "remove"} /\ (r.pc = "await" => r.on # None)
    BY <1>4, WatchFacts
  <2>. QED
    BY <1>4, <2>1, MovesTyped DEF Watch, ProcTypeOK
<1>. QED
  BY <1>1, <1>2, <1>3, <1>4

LEMMA CreateSessionTyped ==
  ASSUME SupervisorTypeOK, NEW p \in Procs, CreateSession(p)
  PROVE  SupervisorTypeOK'
<1>. USE Constants DEF SupervisorTypeOK
<1>1. ServerTypeOK'
  BY DEF ServerTypeOK, worldVars, leaseVars, CreateSession
<1>2. task[p] \in Proc /\ started \in BOOLEAN /\ starting \in Starts \cup {None}
      /\ Ensures(p, task[p], started, starting)
  BY DEF ProcTypeOK, StartTypeOK, CreateSession
<1>3. StartTypeOK'
  <2>1. /\ started' = started
        /\ \/ starting' = starting /\ UNCHANGED <<promise, run>>
           \/ \E i \in Starts :
                /\ starting' = i
                /\ promise' = [promise EXCEPT ![i] = "pending"]
                /\ run' = [run EXCEPT ![i].pc = "load"]
    BY <1>2, EnsuresFacts
  <2>. QED
    BY <1>2, <2>1, EnsuredTyped
<1>4. ProcTypeOK'
  <2>1. PICK r \in Proc : task' = [task EXCEPT ![p] = r] /\ (r.pc = "wait" => r.on # None)
          /\ r.pc \in {"create", "idle", "done", "wait", "ensure"}
    BY <1>2, EnsuresFacts
  <2>. QED
    BY <2>1, ProcMoves DEF ProcTypeOK, CreateSession
<1>. QED
  BY <1>1, <1>3, <1>4

\* What a call of ensureStarted comes to that awaited the stop.
LEMMA StopAwaitedFacts ==
  ASSUME SupervisorTypeOK, NEW p \in Procs, StopAwaited(p)
  PROVE  /\ task[p].pc = "ensure" /\ ~Stopping /\ started' = started
         /\ UNCHANGED <<worldVars, saved, api, leaseVars, sessions, disposed, stopped, overlapped>>
         /\ \E r \in Proc :
              /\ task' = [task EXCEPT ![p] = r]
              /\ r.pc \in {"create", "idle", "done", "wait"}
              /\ r.pc = "create" => p \in Callers
              /\ r.pc = "idle" => p \in Watchers
              /\ r.pc = "wait" => r.on # None
              /\ r.server = task[p].server \/ r.server = api
              /\ \/ starting' = starting /\ UNCHANGED <<promise, run>>
                 \/ /\ ~started /\ starting = None /\ r.pc = "wait"
                    /\ \E i \in Starts :
                         /\ run[i].pc = "none" /\ starting' = i
                         /\ promise' = [promise EXCEPT ![i] = "pending"]
                         /\ run' = [run EXCEPT ![i].pc = "load"]
<1>. USE Constants DEF SupervisorTypeOK
<1>1. /\ task[p] \in Proc /\ started \in BOOLEAN /\ starting \in Starts \cup {None}
      /\ task[p].pc = "ensure" /\ ~Stopping
      /\ UNCHANGED <<worldVars, saved, api, leaseVars, sessions, disposed, stopped, overlapped>>
  BY DEF ProcTypeOK, StartTypeOK, StopAwaited
<1>2. CASE task[Stopper].pc # "failed"
  <2>1. EnsuresNow(p, task[p], started, starting)
    BY <1>2 DEF StopAwaited
  <2>2. PICK r \in Proc :
              /\ task' = [task EXCEPT ![p] = r]
              /\ r.pc \in {"create", "idle", "done", "wait"}
              /\ r.pc = "create" => p \in Callers
              /\ r.pc = "idle" => p \in Watchers
              /\ r.pc = "wait" => r.on # None
              /\ r.server = task[p].server \/ r.server = api
              /\ \/ (started \/ starting # None) /\ starting' = starting /\ UNCHANGED <<promise, run>>
                 \/ /\ ~started /\ starting = None /\ r.pc = "wait"
                    /\ \E i \in Starts :
                         /\ run[i].pc = "none" /\ starting' = i
                         /\ promise' = [promise EXCEPT ![i] = "pending"]
                         /\ run' = [run EXCEPT ![i].pc = "load"]
    BY <1>1, <2>1, EnsuresNowFacts
  <2>3. started' = started
    BY <2>1 DEF EnsuresNow
  <2>. QED
    BY <1>1, <2>2, <2>3
<1>3. CASE task[Stopper].pc = "failed"
  <2>1. PICK a \in Proc :
           /\ a = After(p, task[p], started)
           /\ a.pc \in {"create", "idle", "done"}
           /\ a.pc = "create" => p \in Callers
           /\ a.pc = "idle" => p \in Watchers
           /\ a.server = task[p].server \/ a.server = api
    BY <1>1, AfterFacts
  <2>2. PICK r : r = [task[p] EXCEPT !.pc = "done"]
    OBVIOUS
  <2>3. r \in Proc /\ r.pc = "done" /\ r.server = task[p].server
    BY <1>1, <2>2 DEF Proc
  <2>4. /\ task' = [task EXCEPT ![p] = a] \/ task' = [task EXCEPT ![p] = r]
        /\ UNCHANGED <<started, starting, promise, run>>
    BY <1>3, <2>1, <2>2 DEF StopAwaited, ProcTypeOK, startVars
  <2>. QED
    BY <1>1, <2>1, <2>3, <2>4
<1>. QED
  BY <1>2, <1>3

LEMMA StopAwaitedTyped ==
  ASSUME SupervisorTypeOK, NEW p \in Procs, StopAwaited(p)
  PROVE  SupervisorTypeOK'
<1>. USE Constants DEF SupervisorTypeOK
<1>1. ServerTypeOK'
  BY DEF ServerTypeOK, worldVars, leaseVars, StopAwaited
<1>2. PICK r \in Proc :
        /\ task' = [task EXCEPT ![p] = r] /\ (r.pc = "wait" => r.on # None)
        /\ r.pc \in {"create", "idle", "done", "wait"} /\ started' = started
        /\ \/ starting' = starting /\ UNCHANGED <<promise, run>>
           \/ \E i \in Starts :
                /\ starting' = i
                /\ promise' = [promise EXCEPT ![i] = "pending"]
                /\ run' = [run EXCEPT ![i].pc = "load"]
  BY StopAwaitedFacts
<1>3. StartTypeOK'
  BY <1>2, EnsuredTyped DEF StartTypeOK
<1>4. ProcTypeOK'
  BY <1>2, ProcMoves DEF ProcTypeOK, StopAwaited
<1>. QED
  BY <1>1, <1>3, <1>4

LEMMA EnsuresStarts ==
  ASSUME NEW p, NEW q, Ensures(p, q, FALSE, None)
  PROVE  /\ started' = FALSE
         /\ \/ starting' = None /\ UNCHANGED <<promise, run>>
            \/ \E i \in Starts :
                 /\ starting' = i
                 /\ promise' = [promise EXCEPT ![i] = "pending"]
                 /\ run' = [run EXCEPT ![i].pc = "load"]
<1>1. CASE Stopping
  BY <1>1 DEF Ensures
<1>2. CASE ~Stopping
  BY <1>2 DEF Ensures, EnsuresNow, Free
<1>. QED
  BY <1>1, <1>2

LEMMA RemovedTyped ==
  ASSUME SupervisorTypeOK, NEW p \in Procs, Removed(p)
  PROVE  SupervisorTypeOK'
<1>. USE Constants DEF SupervisorTypeOK
<1>1. ServerTypeOK'
  BY DEF ServerTypeOK, worldVars, leaseVars, Removed
<1>2. task[p] \in Proc /\ FALSE \in BOOLEAN /\ None \in Starts \cup {None} /\ Ensures(p, task[p], FALSE, None)
  BY DEF ProcTypeOK, Removed
<1>3. StartTypeOK'
  <2>1. /\ started' = FALSE
        /\ \/ starting' = None /\ UNCHANGED <<promise, run>>
           \/ \E i \in Starts :
                /\ starting' = i
                /\ promise' = [promise EXCEPT ![i] = "pending"]
                /\ run' = [run EXCEPT ![i].pc = "load"]
    BY <1>2, EnsuresStarts
  <2>. QED
    BY <1>2, <2>1, EnsuredTyped
<1>4. ProcTypeOK'
  <2>1. PICK r \in Proc : task' = [task EXCEPT ![p] = r] /\ (r.pc = "wait" => r.on # None)
          /\ r.pc \in {"create", "idle", "done", "wait", "ensure"}
    BY <1>2, EnsuresFacts
  <2>. QED
    BY <2>1, ProcMoves DEF ProcTypeOK, Removed
<1>. QED
  BY <1>1, <1>3, <1>4

\* A start goes on, fails or ends.
LEMMA StartGoesOnTyped ==
  ASSUME SupervisorTypeOK, NEW i \in Starts, StartGoesOn(i)
  PROVE  SupervisorTypeOK'
<1>. USE Constants DEF SupervisorTypeOK
<1>1. ServerTypeOK'
  BY DEF ServerTypeOK, worldVars, leaseVars, StartGoesOn, Load, Reconnects, Reconnected, Launch, LaunchFails, Handshake,
     HandshakeFails, Configured, Polled, ServerStartFails, Recorded, Fails, DropLease, StopLauncher
<1>2. StartTypeOK'
  <2>1. ASSUME NEW pc \in {"load", "reconnect", "reconnected", "launch", "handshake",
                           "configure", "poll", "record", "done", "failed"},
               Goes(i, pc), UNCHANGED <<started, starting, promise>>
        PROVE  StartTypeOK'
    BY <2>1, RunGoes DEF Goes, StartTypeOK
  <2>2. ASSUME Opens(i) PROVE StartTypeOK'
    <3>1. run' \in [Starts -> Run]
      BY <2>2, RunGoes DEF Opens, Goes
    <3>. QED
      BY <2>2, <3>1, SettlesTyped DEF Opens
  <2>3. ASSUME Goes(i, "failed"), UNCHANGED started, starting' = None,
               promise' = IF starting = None THEN promise ELSE [promise EXCEPT ![starting] = "rejected"]
        PROVE  StartTypeOK'
    <3>1. run' \in [Starts -> Run]
      BY <2>3, RunGoes DEF Goes
    <3>2. started' \in BOOLEAN
      BY <2>3 DEF StartTypeOK
    <3>. QED
      BY <2>3, <3>1, <3>2, SettlesTyped
  <2>4. CASE Load(i)
    BY <2>1, <2>4 DEF Load
  <2>5. CASE Reconnects(i)
    BY <2>1, <2>5 DEF Reconnects
  <2>6. CASE Reconnected(i) \/ Recorded(i)
    BY <2>2, <2>6 DEF Reconnected, Recorded
  <2>7. CASE Launch(i) \/ Handshake(i)
    BY <2>1, <2>7 DEF Launch, Handshake
  <2>8. CASE LaunchFails(i) \/ ServerStartFails(i) \/ HandshakeFails(i)
    BY <2>3, <2>8 DEF LaunchFails, ServerStartFails, HandshakeFails, Fails
  <2>9. CASE Configured(i) \/ Polled(i)
    BY <2>1, <2>9 DEF Configured, Polled
  <2>. QED
    BY <2>4, <2>5, <2>6, <2>7, <2>8, <2>9 DEF StartGoesOn
<1>3. ProcTypeOK'
  BY DEF ProcTypeOK, StartGoesOn, Load, Reconnects, Reconnected, Launch, LaunchFails, Handshake,
     HandshakeFails, Configured, Polled, ServerStartFails, Recorded
<1>. QED
  BY <1>1, <1>2, <1>3

\* What a request to stop or restart the server comes to.
LEMMA StopFacts ==
  ASSUME SupervisorTypeOK, NEW again \in BOOLEAN, Stop(again)
  PROVE  /\ task[Stopper].pc = "idle" /\ ~Stopping
         /\ UNCHANGED <<worldVars, saved, api, leaseVars, sessions, disposed, stopped, overlapped>>
         /\ \E r \in Proc :
              /\ task' = [task EXCEPT ![Stopper] = r] /\ started' = started
              /\ r.pc \in {"wait", "done", "stopWait", "request"}
              /\ r.pc \in {"wait", "stopWait"} => r.on # None
              /\ r.server = task[Stopper].server \/ r.server = api
              /\ r.pc = "request" => started /\ starting = None
              /\ \/ starting' = starting /\ UNCHANGED <<promise, run>>
                 \/ /\ ~started /\ starting = None
                    /\ \E i \in Starts :
                         /\ run[i].pc = "none" /\ starting' = i
                         /\ promise' = [promise EXCEPT ![i] = "pending"]
                         /\ run' = [run EXCEPT ![i].pc = "load"]
<1>. USE Constants DEF SupervisorTypeOK
<1>1. PICK q : q = [task[Stopper] EXCEPT !.restarting = again]
  OBVIOUS
<1>2. q \in Proc /\ q.server = task[Stopper].server
  BY <1>1 DEF ProcTypeOK, Proc
<1>3. task[Stopper].pc = "idle" /\ ~Stopping
  BY DEF Stop, Stopping
<1>4. UNCHANGED <<worldVars, saved, api, leaseVars, sessions, disposed, stopped, overlapped>>
  BY DEF Stop
<1>5. CASE again /\ ~started
  <2>1. Ensures(Stopper, q, started, starting) /\ started \in BOOLEAN /\ starting \in Starts \cup {None}
    BY <1>1, <1>5 DEF Stop, StartTypeOK
  <2>2. PICK r \in Proc :
              /\ task' = [task EXCEPT ![Stopper] = r]
              /\ r.pc \in {"create", "idle", "done", "wait", "ensure"}
              /\ r.pc = "create" => Stopper \in Callers
              /\ r.pc = "idle" => Stopper \in Watchers
              /\ r.pc = "wait" => r.on # None
              /\ r.pc = "ensure" => Stopping
              /\ r.server = q.server \/ r.server = api
              /\ \/ (started \/ starting # None \/ Stopping) /\ starting' = starting /\ UNCHANGED <<promise, run>>
                 \/ /\ ~started /\ starting = None /\ ~Stopping /\ r.pc = "wait"
                    /\ \E i \in Starts :
                         /\ run[i].pc = "none" /\ starting' = i
                         /\ promise' = [promise EXCEPT ![i] = "pending"]
                         /\ run' = [run EXCEPT ![i].pc = "load"]
    BY <1>2, <2>1, EnsuresFacts
  <2>3. started' = started
    BY <1>2, <2>1, EnsuresFacts
  <2>4. r.pc \in {"wait", "done"}
    BY <1>3, <2>2
  <2>. QED
    BY <1>2, <1>3, <1>4, <2>2, <2>3, <2>4
<1>6. CASE ~(again /\ ~started)
  <2>1. PICK r : r = IF starting # None THEN [q EXCEPT !.pc = "stopWait", !.on = starting]
                     ELSE IF started THEN [q EXCEPT !.pc = "request"]
                     ELSE [q EXCEPT !.pc = "done"]
    OBVIOUS
  <2>2. /\ r \in Proc /\ r.pc \in {"done", "stopWait", "request"} /\ r.server = q.server
        /\ r.pc = "stopWait" => r.on # None
        /\ r.pc = "request" => started /\ starting = None
    BY <1>2, <2>1 DEF Proc, StartTypeOK
  <2>3. task' = [task EXCEPT ![Stopper] = r] /\ UNCHANGED startVars
    BY <1>1, <1>6, <2>1 DEF Stop
  <2>. QED
    BY <1>2, <1>3, <1>4, <2>2, <2>3 DEF startVars
<1>. QED
  BY <1>5, <1>6

LEMMA StopTyped ==
  ASSUME SupervisorTypeOK, NEW again \in BOOLEAN, Stop(again)
  PROVE  SupervisorTypeOK'
<1>. USE Constants DEF SupervisorTypeOK
<1>1. PICK r \in Proc :
              /\ task' = [task EXCEPT ![Stopper] = r] /\ started' = started
              /\ r.pc \in {"wait", "done", "stopWait", "request"}
              /\ r.pc \in {"wait", "stopWait"} => r.on # None
              /\ \/ starting' = starting /\ UNCHANGED <<promise, run>>
                 \/ /\ ~started /\ starting = None
                    /\ \E i \in Starts :
                         /\ run[i].pc = "none" /\ starting' = i
                         /\ promise' = [promise EXCEPT ![i] = "pending"]
                         /\ run' = [run EXCEPT ![i].pc = "load"]
  BY StopFacts
<1>2. UNCHANGED <<worldVars, saved, api, leaseVars, sessions, disposed, stopped, overlapped>>
  BY StopFacts
<1>3. ServerTypeOK'
  BY <1>2 DEF ServerTypeOK, worldVars, leaseVars
<1>4. StartTypeOK'
  BY <1>1, EnsuredTyped DEF StartTypeOK
<1>5. ProcTypeOK'
  BY <1>1, <1>2, ProcMoves DEF ProcTypeOK
<1>. QED
  BY <1>3, <1>4, <1>5

\* The steps of the stop before its end.
LEMMA StopMovesFacts ==
  ASSUME SupervisorTypeOK, StopWaited \/ TakesRequest \/ ShutsDown \/ StopFails
  PROVE  \E r \in Proc :
           /\ task' = [task EXCEPT ![Stopper] = r]
           /\ r.pc \in {"request", "asked", "cleanup", "done", "failed"} /\ r.restarting = task[Stopper].restarting
           /\ StopWaited => /\ task[Stopper].pc = "stopWait" /\ r.server = task[Stopper].server
                            /\ r.pc \in {"request", "done", "failed"} /\ (r.pc = "request" => started)
           /\ TakesRequest => task[Stopper].pc = "request" /\ r.pc = "asked" /\ r.server = api
           /\ ShutsDown => /\ r.pc = "cleanup" /\ r.server = task[Stopper].server
                           /\ task[Stopper].pc \in {"request", "asked"}
                           /\ task[Stopper].pc = "request" => r.restarting
           /\ StopFails => /\ r.pc = "failed" /\ r.server = task[Stopper].server
                           /\ task[Stopper].pc \in {"request", "asked"}
<1>. USE Constants DEF SupervisorTypeOK
<1>0. task[Stopper] \in Proc
  BY DEF ProcTypeOK
<1>1. CASE StopWaited
  <2>1. PICK r : r = [task[Stopper] EXCEPT !.pc =
                        IF promise[task[Stopper].on] # "resolved" THEN "failed"
                        ELSE IF started THEN "request" ELSE "done"]
    OBVIOUS
  <2>2. r \in Proc /\ r.pc \in {"request", "done", "failed"} /\ (r.pc = "request" => started)
        /\ r.server = task[Stopper].server /\ r.restarting = task[Stopper].restarting
    BY <1>0, <2>1 DEF Proc
  <2>3. task' = [task EXCEPT ![Stopper] = r] /\ task[Stopper].pc = "stopWait"
    BY <1>1, <2>1 DEF StopWaited
  <2>4. ~TakesRequest /\ ~ShutsDown /\ ~StopFails
    BY <2>3 DEF TakesRequest, ShutsDown, StopFails
  <2>. QED
    BY <2>2, <2>3, <2>4
<1>2. CASE TakesRequest
  <2>1. PICK r : r = [task[Stopper] EXCEPT !.pc = "asked", !.server = api]
    OBVIOUS
  <2>2. r \in Proc /\ r.pc = "asked" /\ r.server = api /\ r.restarting = task[Stopper].restarting
    BY <1>0, <2>1 DEF Proc, ServerTypeOK
  <2>3. task' = [task EXCEPT ![Stopper] = r] /\ task[Stopper].pc = "request"
    BY <1>0, <1>2, <2>1 DEF TakesRequest, ProcTypeOK
  <2>4. ~StopWaited
    BY <2>3 DEF StopWaited
  <2>5. task'[Stopper] = r
    BY <2>3 DEF ProcTypeOK
  <2>6. ~ShutsDown /\ ~StopFails
    <3>1. ShutsDown => task'[Stopper].pc = "cleanup"
      BY <1>0 DEF ShutsDown, ProcTypeOK, Proc
    <3>2. StopFails => task'[Stopper].pc = "failed"
      BY <1>0 DEF StopFails, ProcTypeOK, Proc
    <3>. QED
      BY <2>2, <2>5, <3>1, <3>2
  <2>. QED
    BY <2>2, <2>3, <2>4, <2>6
<1>3. CASE ShutsDown \/ StopFails
  <2>1. PICK pc \in {"cleanup", "failed"} :
          /\ task' = [task EXCEPT ![Stopper].pc = pc]
          /\ task[Stopper].pc \in {"request", "asked"}
          /\ pc = "cleanup" /\ task[Stopper].pc = "request" => task[Stopper].restarting
    BY <1>3 DEF ShutsDown, StopFails
  <2>2. PICK r : r = [task[Stopper] EXCEPT !.pc = pc]
    OBVIOUS
  <2>3. r \in Proc /\ r.pc = pc /\ r.server = task[Stopper].server /\ r.restarting = task[Stopper].restarting
    BY <1>0, <2>1, <2>2 DEF Proc
  <2>4. task' = [task EXCEPT ![Stopper] = r] /\ task'[Stopper] = r
    BY <2>1, <2>2 DEF ProcTypeOK
  <2>5. ShutsDown => pc = "cleanup"
    BY <1>0, <2>3, <2>4 DEF ShutsDown, ProcTypeOK, Proc
  <2>6. StopFails => pc = "failed"
    BY <1>0, <2>3, <2>4 DEF StopFails, ProcTypeOK, Proc
  <2>7. ~StopWaited /\ (TakesRequest => pc = "asked")
    BY <1>0, <2>1, <2>3, <2>4 DEF StopWaited, TakesRequest, ProcTypeOK, Proc
  <2>. QED
    BY <2>1, <2>3, <2>4, <2>5, <2>6, <2>7
<1>. QED
  BY <1>1, <1>2, <1>3

LEMMA StopMovesTyped ==
  ASSUME SupervisorTypeOK, StopWaited \/ TakesRequest \/ ShutsDown \/ StopFails
  PROVE  SupervisorTypeOK'
<1>. USE Constants DEF SupervisorTypeOK
<1>1. PICK r \in Proc : task' = [task EXCEPT ![Stopper] = r] /\ r.pc \in {"request", "asked", "cleanup", "done", "failed"}
  BY StopMovesFacts
<1>2. ServerTypeOK'
  BY DEF ServerTypeOK, worldVars, leaseVars, StopWaited, TakesRequest, ShutsDown, StopFails, DropLease
<1>3. StartTypeOK'
  BY DEF StartTypeOK, startVars, StopWaited, TakesRequest, ShutsDown, StopFails
<1>4. sessions' \subseteq Callers /\ disposed' \in BOOLEAN /\ stopped' \in Servers \cup {None} /\ overlapped' \in BOOLEAN
  BY DEF ProcTypeOK, StopWaited, TakesRequest, ShutsDown, StopFails
<1>5. ProcTypeOK'
  BY <1>1, <1>4, ProcMoves
<1>. QED
  BY <1>2, <1>3, <1>5

LEMMA StopEndsFacts ==
  ASSUME SupervisorTypeOK, StopEnds
  PROVE  /\ task[Stopper].pc = "cleanup"
         /\ UNCHANGED <<worldVars, saved, api, leaseVars, sessions, disposed, overlapped>>
         /\ \E r \in Proc :
              /\ task' = [task EXCEPT ![Stopper] = r] /\ started' = started
              /\ r.pc \in {"wait", "done"}
              /\ r.pc = "wait" => r.on # None
              /\ r.server = task[Stopper].server \/ r.server = api
              /\ \/ /\ starting' = starting /\ UNCHANGED <<promise, run>> /\ r.pc = "done"
                    /\ ~task[Stopper].restarting
                    /\ stopped' = IF \E p \in Callers : task[p].pc = "ensure" /\ ~task[p].testing
                                  THEN None ELSE task[Stopper].server
                 \/ starting' = starting /\ UNCHANGED <<promise, run, stopped>> /\ task[Stopper].restarting
                    /\ (started \/ starting # None)
                 \/ /\ ~started /\ starting = None /\ task[Stopper].restarting /\ UNCHANGED stopped /\ r.pc = "wait"
                    /\ \E i \in Starts :
                         /\ run[i].pc = "none" /\ starting' = i
                         /\ promise' = [promise EXCEPT ![i] = "pending"]
                         /\ run' = [run EXCEPT ![i].pc = "load"]
<1>. USE Constants DEF SupervisorTypeOK
<1>0. task[Stopper] \in Proc
  BY DEF ProcTypeOK
<1>1. /\ task[Stopper].pc = "cleanup"
      /\ UNCHANGED <<worldVars, saved, api, leaseVars, sessions, disposed, overlapped>>
  BY DEF StopEnds
<1>2. CASE task[Stopper].restarting
  <2>1. /\ EnsuresNow(Stopper, task[Stopper], started, starting) /\ UNCHANGED stopped
        /\ started \in BOOLEAN /\ starting \in Starts \cup {None}
    BY <1>2 DEF StopEnds, StartTypeOK
  <2>2. PICK r \in Proc :
              /\ task' = [task EXCEPT ![Stopper] = r]
              /\ r.pc \in {"create", "idle", "done", "wait"}
              /\ r.pc = "create" => Stopper \in Callers
              /\ r.pc = "idle" => Stopper \in Watchers
              /\ r.pc = "wait" => r.on # None
              /\ r.server = task[Stopper].server \/ r.server = api
              /\ \/ (started \/ starting # None) /\ starting' = starting /\ UNCHANGED <<promise, run>>
                 \/ /\ ~started /\ starting = None /\ r.pc = "wait"
                    /\ \E i \in Starts :
                         /\ run[i].pc = "none" /\ starting' = i
                         /\ promise' = [promise EXCEPT ![i] = "pending"]
                         /\ run' = [run EXCEPT ![i].pc = "load"]
    BY <1>0, <2>1, EnsuresNowFacts
  <2>3. started' = started
    BY <2>1 DEF EnsuresNow
  <2>. QED
    BY <1>1, <1>2, <2>1, <2>2, <2>3
<1>3. CASE ~task[Stopper].restarting
  <2>1. PICK r : r = [task[Stopper] EXCEPT !.pc = "done"]
    OBVIOUS
  <2>2. r \in Proc /\ r.pc = "done" /\ r.server = task[Stopper].server
    BY <1>0, <2>1 DEF Proc
  <2>3. /\ task' = [task EXCEPT ![Stopper] = r] /\ UNCHANGED <<started, starting, promise, run>>
        /\ stopped' = IF \E p \in Callers : task[p].pc = "ensure" /\ ~task[p].testing
                      THEN None ELSE task[Stopper].server
    BY <1>3, <2>1 DEF StopEnds, startVars
  <2>. QED
    BY <1>1, <1>3, <2>2, <2>3
<1>. QED
  BY <1>2, <1>3

LEMMA StopEndsTyped ==
  ASSUME SupervisorTypeOK, StopEnds
  PROVE  SupervisorTypeOK'
<1>. USE Constants DEF SupervisorTypeOK
<1>1. PICK r \in Proc :
              /\ task' = [task EXCEPT ![Stopper] = r] /\ started' = started
              /\ r.pc \in {"wait", "done"}
              /\ r.pc = "wait" => r.on # None
              /\ \/ starting' = starting /\ UNCHANGED <<promise, run>>
                 \/ /\ starting = None
                    /\ \E i \in Starts :
                         /\ run[i].pc = "none" /\ starting' = i
                         /\ promise' = [promise EXCEPT ![i] = "pending"]
                         /\ run' = [run EXCEPT ![i].pc = "load"]
              /\ stopped' \in {stopped, None, task[Stopper].server}
  BY StopEndsFacts
<1>2. UNCHANGED <<worldVars, saved, api, leaseVars, sessions, disposed, overlapped>>
  BY StopEndsFacts
<1>3. ServerTypeOK'
  BY <1>2 DEF ServerTypeOK, worldVars, leaseVars
<1>4. StartTypeOK'
  BY <1>1, EnsuredTyped DEF StartTypeOK
<1>5. task[Stopper].server \in Servers \cup {None}
  BY DEF ProcTypeOK, Proc
<1>6. ProcTypeOK'
  BY <1>1, <1>2, <1>5, ProcMoves DEF ProcTypeOK
<1>. QED
  BY <1>3, <1>4, <1>6

LEMMA DisposeTyped ==
  ASSUME SupervisorTypeOK, Dispose
  PROVE  SupervisorTypeOK'
<1>. USE Constants DEF SupervisorTypeOK
<1>1. ServerTypeOK'
  BY DEF ServerTypeOK, Dispose, DropLease, StopLauncher
<1>2. StartTypeOK'
  BY DEF StartTypeOK, startVars, Dispose
<1>3. ProcTypeOK'
  BY DEF ProcTypeOK, Dispose
<1>. QED
  BY <1>1, <1>2, <1>3

LEMMA StutterTyped ==
  ASSUME SupervisorTypeOK, UNCHANGED supervisorVars
  PROVE  SupervisorTypeOK'
<1>. USE DEF supervisorVars, worldVars, startVars, leaseVars
<1>1. ServerTypeOK'
  BY DEF SupervisorTypeOK, ServerTypeOK
<1>2. StartTypeOK' /\ ProcTypeOK'
  BY DEF SupervisorTypeOK, StartTypeOK, ProcTypeOK
<1>. QED
  BY <1>1, <1>2 DEF SupervisorTypeOK

LEMMA StepTyped ==
  ASSUME SupervisorTypeOK, ProcsKnown, [SupervisorNext]_supervisorVars
  PROVE  SupervisorTypeOK'
<1>1. ASSUME NEW p \in Procs, ProcGoesOn(p) PROVE SupervisorTypeOK'
  BY <1>1, StopAwaitedTyped, MoveKeepsTypes, RemovedTyped DEF ProcGoesOn
<1>2. ASSUME StopGoesOn PROVE SupervisorTypeOK'
  BY <1>2, StopMovesTyped, StopEndsTyped DEF StopGoesOn
<1>3. ASSUME NEW p \in Procs, CreateSession(p) \/ Watch(p) PROVE SupervisorTypeOK'
  BY <1>3, CreateSessionTyped, MoveKeepsTypes
<1>. QED
  BY <1>1, <1>2, <1>3, ServerExitsTyped, StartGoesOnTyped, StopTyped, DisposeTyped, StutterTyped DEF SupervisorNext
-----------------------------------------------------------------------------
BaseInv == SupervisorTypeOK /\ ServersKnown /\ OneLease /\ ProcsKnown

\* Servers stay known while starts go on and none is taken from nowhere.
LEMMA KnownFrame ==
  ASSUME ServersKnown, \A i \in Starts : Launched(i) => Launched(i)',
         \A s \in alive' \cup told' \cup {api', saved', lease', launcher'} :
           \/ s \in alive \cup told \cup {api, saved, lease, launcher, None}
           \/ s \in Starts /\ Launched(s)',
         \A p \in Procs : task'[p].server = task[p].server \/ task'[p].server = api,
         launcher' # Old
  PROVE  ServersKnown'
<1>. USE Constants
<1>1. \A s : Known(s) => Known(s)'
  BY DEF Known
<1>2. \A s \in alive' \cup told' \cup {api', saved', lease', launcher'} : Known(s)'
  <2>1. SUFFICES ASSUME NEW s \in alive' \cup told' \cup {api', saved', lease', launcher'} PROVE Known(s)'
    OBVIOUS
  <2>2. CASE s \in Starts /\ Launched(s)'
    BY <2>2 DEF Known
  <2>3. CASE s = None
    BY <2>3 DEF Known
  <2>4. CASE s \in alive \cup told \cup {api, saved, lease, launcher}
    BY <1>1, <2>4 DEF ServersKnown
  <2>. QED
    BY <2>2, <2>3, <2>4
<1>3. \A p \in Procs : \A s : s = task'[p].server => Known(s)'
  BY <1>1 DEF ServersKnown
<1>4. \A p \in Procs : Known(task[p].server)'
  <2>1. SUFFICES ASSUME NEW p \in Procs PROVE Known(task[p].server)'
    OBVIOUS
  <2>2. PICK s : s = task'[p].server
    OBVIOUS
  <2>3. Known(s)'
    BY <1>3, <2>2
  <2>. QED
    BY <2>2, <2>3 DEF Known, Launched
<1>. QED
  BY <1>2, <1>4 DEF ServersKnown, Known

\* A server that has gone stays away: only one that is new is launched.
LEMMA GoneFrame ==
  ASSUME UNCHANGED impostor, \A s \in alive' : s \in alive \/ (s \in Starts /\ ~Launched(s))
  PROVE  \A s : Known(s) /\ Gone(s) => Gone(s)'
  BY DEF Known, Gone, IsStale

LEMMA ProcsFrame ==
  ASSUME BaseInv, UNCHANGED impostor, \A s \in alive' : s \in alive \/ (s \in Starts /\ ~Launched(s)),
         NEW p \in Procs, NEW r \in Proc, task' = [task EXCEPT ![p] = r],
         r.pc \in {"verify", "remove"} => r.server # None /\ p # Stopper,
         r.pc = "remove" => Known(r.server) /\ Gone(r.server),
         r.pc = "create" => p \in Callers,
         r.pc = "idle" => p \in Watchers,
         p = Stopper => r.pc \in {"wait", "stopWait", "request", "asked", "cleanup", "done", "failed"}
  PROVE  ProcsKnown'
<1>. USE Constants
<1>1. task'[p] = r /\ \A t \in Procs \ {p} : task'[t] = task[t]
  BY DEF BaseInv, SupervisorTypeOK, ProcTypeOK
<1>2. \A s : Known(s) /\ Gone(s) => Gone(s)'
  BY GoneFrame
<1>3. task'[Stopper].pc \in {"idle", "wait", "stopWait", "request", "asked", "cleanup", "done", "failed"}
  BY <1>1 DEF BaseInv, ProcsKnown
<1>4. ASSUME NEW t \in Procs
      PROVE  /\ task'[t].pc \in {"verify", "remove"} => task'[t].server # None
             /\ task'[t].pc = "create" => t \in Callers
             /\ t \in Callers /\ task'[t].pc = "idle" => ~task'[t].testing
  <2>1. CASE t = p
    BY <1>1, <2>1
  <2>2. CASE t # p
    BY <1>1, <2>2 DEF BaseInv, ProcsKnown
  <2>. QED
    BY <2>1, <2>2
<1>5. ASSUME NEW t \in Procs, task'[t].pc = "remove"
      PROVE  Gone(task[t].server)' 
  <2>1. PICK s : s = task'[t].server
    OBVIOUS
  <2>2. Known(s) /\ Gone(s)
    <3>1. CASE t = p
      BY <1>1, <1>5, <2>1, <3>1
    <3>2. CASE t # p
      BY <1>1, <1>5, <2>1, <3>2 DEF BaseInv, ProcsKnown, ServersKnown
    <3>. QED
      BY <3>1, <3>2
  <2>3. Gone(s)'
    BY <1>2, <2>2
  <2>. QED
    BY <2>1, <2>3 DEF Gone, IsStale
<1>. QED
  BY <1>3, <1>4, <1>5 DEF ProcsKnown

LEMMA ProcsStay ==
  ASSUME BaseInv, UNCHANGED <<impostor, task>>, \A s \in alive' : s \in alive \/ (s \in Starts /\ ~Launched(s))
  PROVE  ProcsKnown'
<1>1. \A s : Known(s) /\ Gone(s) => Gone(s)'
  BY GoneFrame
<1>2. \A t \in Procs : task[t].pc = "remove" => Gone(task[t].server)'
  <2>1. SUFFICES ASSUME NEW t \in Procs, task[t].pc = "remove" PROVE Gone(task[t].server)'
    OBVIOUS
  <2>2. PICK s : s = task[t].server
    OBVIOUS
  <2>3. Gone(s)'
    BY <1>1, <2>1, <2>2 DEF BaseInv, ProcsKnown, ServersKnown
  <2>. QED
    BY <2>2, <2>3 DEF Gone, IsStale
<1>. QED
  BY <1>2 DEF BaseInv, ProcsKnown

\* The steps of processes: the servers are what they were, and a start may begin.
LEMMA MovesKnown ==
  ASSUME BaseInv, UNCHANGED <<worldVars, api, leaseVars>>, saved' = saved \/ saved' = None,
         UNCHANGED run \/ \E i \in Starts : run[i].pc = "none" /\ run' = [run EXCEPT ![i].pc = "load"],
         NEW p \in Procs, NEW r \in Proc, task' = [task EXCEPT ![p] = r],
         r.server = task[p].server \/ r.server = api,
         r.pc \in {"verify", "remove"} => r.server # None /\ p # Stopper,
         r.pc = "remove" => Gone(r.server),
         r.pc = "create" => p \in Callers,
         r.pc = "idle" => p \in Watchers,
         p = Stopper => r.pc \in {"wait", "stopWait", "request", "asked", "cleanup", "done", "failed"}
  PROVE  ServersKnown' /\ OneLease' /\ ProcsKnown'
<1>. USE Constants
<1>1. task'[p] = r /\ \A t \in Procs \ {p} : task'[t] = task[t]
  BY DEF BaseInv, SupervisorTypeOK, ProcTypeOK
<1>2. UNCHANGED <<alive, told, impostor, api, lease, leases, launcher>>
  BY DEF worldVars, leaseVars
<1>3. \A i \in Starts : Launched(i) => Launched(i)'
  <2>1. ASSUME NEW j \in Starts, run[j].pc = "none", run' = [run EXCEPT ![j].pc = "load"]
        PROVE  \A i \in Starts : run'[i].pc = IF i = j THEN "load" ELSE run[i].pc
    <3>1. StartTypeOK
      BY DEF BaseInv, SupervisorTypeOK
    <3>. QED
      BY <2>1, <3>1, RunLoads
  <2>. QED
    BY <2>1 DEF Launched
<1>4. \A t \in Procs : task'[t].server = task[t].server \/ task'[t].server = api
  BY <1>1
<1>5. ServersKnown'
  BY <1>2, <1>3, <1>4, KnownFrame DEF BaseInv, ServersKnown
<1>6. OneLease'
  BY <1>2 DEF BaseInv, OneLease
<1>7. r.pc = "remove" => Known(r.server)
  BY DEF BaseInv, ServersKnown
<1>8. ProcsKnown'
  BY <1>2, <1>7, ProcsFrame
<1>. QED
  BY <1>5, <1>6, <1>8

LEMMA MoveKeepsBase ==
  ASSUME BaseInv, NEW p \in Procs, Answered(p) \/ CreateReturns(p) \/ Verified(p) \/ Watch(p)
  PROVE  BaseInv'
<1>. USE Constants
<1>0. SupervisorTypeOK'
  BY MoveKeepsTypes DEF BaseInv
<1>1. UNCHANGED <<worldVars, saved, api, leaseVars, run>>
  BY DEF Answered, CreateReturns, Verified, Watch, startVars
<1>2. \E r \in Proc :
        /\ task' = [task EXCEPT ![p] = r]
        /\ r.server = task[p].server \/ r.server = api
        /\ r.pc \in {"verify", "remove"} => r.server # None /\ p # Stopper
        /\ r.pc = "remove" => Gone(r.server)
        /\ r.pc = "create" => p \in Callers
        /\ r.pc = "idle" => p \in Watchers
        /\ p = Stopper => r.pc = "done"
  <2>1. CASE Answered(p)
    <3>1. PICK r \in Proc :
              /\ task' = [task EXCEPT ![p] = r] /\ r.pc \in {"create", "idle", "done"}
              /\ r.pc = "create" => p \in Callers
              /\ r.pc = "idle" => p \in Watchers
              /\ r.server = task[p].server \/ r.server = api
      BY <2>1, AnsweredFacts DEF BaseInv
    <3>. QED
      BY <3>1
  <2>2. CASE CreateReturns(p) \/ Watch(p)
    <3>1. PICK r \in Proc :
           /\ task' = [task EXCEPT ![p] = r]
           /\ r.pc \in {"create", "idle", "done", "await", "verify", "remove"}
           /\ r.pc = "create" => p \in Callers
           /\ r.pc = "idle" => p \in Watchers
           /\ r.pc \in {"verify", "remove"} => api # None /\ r.server = api
           /\ r.pc = "remove" => api \notin alive
           /\ r.server = task[p].server \/ r.server = api
      BY <2>2, CreateReturnsFacts, WatchFacts DEF BaseInv
    <3>2. p # Stopper
      BY <2>2, CreateReturnsFacts DEF BaseInv, ProcsKnown, Watch
    <3>. QED
      BY <3>1, <3>2 DEF Gone
  <2>3. CASE Verified(p)
    <3>1. PICK r \in Proc :
              /\ task' = [task EXCEPT ![p] = r] /\ r.pc \in {"create", "idle", "done", "remove"}
              /\ r.pc = "create" => p \in Callers
              /\ r.pc = "idle" => p \in Watchers
              /\ r.pc = "remove" => Gone(task[p].server) /\ r.server = task[p].server
              /\ r.server = task[p].server \/ r.server = api
      BY <2>3, VerifiedFacts DEF BaseInv
    <3>2. p # Stopper /\ task[p].server # None
      BY <2>3, VerifiedFacts DEF BaseInv, ProcsKnown
    <3>. QED
      BY <3>1, <3>2
  <2>. QED
    BY <2>1, <2>2, <2>3
<1>3. ServersKnown' /\ OneLease' /\ ProcsKnown'
  BY <1>1, <1>2, MovesKnown
<1>. QED
  BY <1>0, <1>3 DEF BaseInv

LEMMA EnsureKeepsBase ==
  ASSUME BaseInv, NEW p \in Procs, CreateSession(p) \/ StopAwaited(p) \/ Removed(p)
  PROVE  BaseInv'
<1>. USE Constants
<1>0. SupervisorTypeOK'
  BY CreateSessionTyped, StopAwaitedTyped, RemovedTyped DEF BaseInv
<1>1. UNCHANGED <<worldVars, api, leaseVars>> /\ (saved' = saved \/ saved' = None)
  BY DEF CreateSession, StopAwaited, Removed
<1>2. task[p] \in Proc /\ started \in BOOLEAN /\ starting \in Starts \cup {None} /\ FALSE \in BOOLEAN
  BY DEF BaseInv, SupervisorTypeOK, ProcTypeOK, StartTypeOK
<1>3. p # Stopper
  BY DEF CreateSession, StopAwaited, Removed, BaseInv, ProcsKnown
<1>4. \E r \in Proc :
        /\ task' = [task EXCEPT ![p] = r]
        /\ r.pc \in {"create", "idle", "done", "wait", "ensure"}
        /\ r.pc = "create" => p \in Callers
        /\ r.pc = "idle" => p \in Watchers
        /\ r.server = task[p].server \/ r.server = api
        /\ UNCHANGED run \/ \E i \in Starts : run[i].pc = "none" /\ run' = [run EXCEPT ![i].pc = "load"]
  <2>1. ASSUME NEW open \in BOOLEAN, NEW current \in Starts \cup {None}, Ensures(p, task[p], open, current)
        PROVE  \E r \in Proc :
                 /\ task' = [task EXCEPT ![p] = r]
                 /\ r.pc \in {"create", "idle", "done", "wait", "ensure"}
                 /\ r.pc = "create" => p \in Callers
                 /\ r.pc = "idle" => p \in Watchers
                 /\ r.server = task[p].server \/ r.server = api
                 /\ UNCHANGED run \/ \E i \in Starts : run[i].pc = "none" /\ run' = [run EXCEPT ![i].pc = "load"]
    <3>1. PICK r \in Proc :
                 /\ task' = [task EXCEPT ![p] = r]
                 /\ r.pc \in {"create", "idle", "done", "wait", "ensure"}
                 /\ r.pc = "create" => p \in Callers
                 /\ r.pc = "idle" => p \in Watchers
                 /\ r.server = task[p].server \/ r.server = api
                 /\ \/ UNCHANGED run
                    \/ \E i \in Starts : run[i].pc = "none" /\ run' = [run EXCEPT ![i].pc = "load"]
      BY <1>2, <2>1, EnsuresFacts DEF BaseInv
    <3>. QED
      BY <3>1
  <2>2. CASE CreateSession(p)
    BY <1>2, <2>1, <2>2 DEF CreateSession
  <2>3. CASE Removed(p)
    BY <1>2, <2>1, <2>3 DEF Removed
  <2>4. CASE StopAwaited(p)
    <3>1. PICK r \in Proc :
                 /\ task' = [task EXCEPT ![p] = r]
                 /\ r.pc \in {"create", "idle", "done", "wait"}
                 /\ r.pc = "create" => p \in Callers
                 /\ r.pc = "idle" => p \in Watchers
                 /\ r.server = task[p].server \/ r.server = api
                 /\ \/ UNCHANGED run
                    \/ \E i \in Starts : run[i].pc = "none" /\ run' = [run EXCEPT ![i].pc = "load"]
      BY <2>4, StopAwaitedFacts DEF BaseInv
    <3>. QED
      BY <3>1
  <2>. QED
    BY <2>2, <2>3, <2>4
<1>5. PICK r \in Proc :
        /\ task' = [task EXCEPT ![p] = r]
        /\ r.pc \in {"create", "idle", "done", "wait", "ensure"}
        /\ r.pc = "create" => p \in Callers
        /\ r.pc = "idle" => p \in Watchers
        /\ r.server = task[p].server \/ r.server = api
        /\ UNCHANGED run \/ \E i \in Starts : run[i].pc = "none" /\ run' = [run EXCEPT ![i].pc = "load"]
  BY <1>4
<1>6. ServersKnown' /\ OneLease' /\ ProcsKnown'
  BY <1>1, <1>3, <1>5, MovesKnown
<1>. QED
  BY <1>0, <1>6 DEF BaseInv

LEMMA StopKeepsBase ==
  ASSUME BaseInv, (\E again \in BOOLEAN : Stop(again)) \/ StopEnds
  PROVE  BaseInv'
<1>. USE Constants
<1>0. SupervisorTypeOK'
  BY StopTyped, StopEndsTyped DEF BaseInv
<1>1. UNCHANGED <<worldVars, saved, api, leaseVars>>
  BY DEF Stop, StopEnds
<1>2. PICK r \in Proc :
        /\ task' = [task EXCEPT ![Stopper] = r]
        /\ r.pc \in {"wait", "done", "stopWait", "request"}
        /\ r.server = task[Stopper].server \/ r.server = api
        /\ UNCHANGED run \/ \E i \in Starts : run[i].pc = "none" /\ run' = [run EXCEPT ![i].pc = "load"]
  <2>1. CASE \E again \in BOOLEAN : Stop(again)
    BY <2>1, StopFacts DEF BaseInv
  <2>2. CASE StopEnds
    BY <2>2, StopEndsFacts DEF BaseInv
  <2>. QED
    BY <2>1, <2>2
<1>3. ServersKnown' /\ OneLease' /\ ProcsKnown'
  BY <1>1, <1>2, MovesKnown
<1>. QED
  BY <1>0, <1>3 DEF BaseInv

LEMMA StopMovesKeepBase ==
  ASSUME BaseInv, StopWaited \/ TakesRequest \/ ShutsDown \/ StopFails
  PROVE  BaseInv'
<1>. USE Constants
<1>0. SupervisorTypeOK'
  BY StopMovesTyped DEF BaseInv
<1>1. PICK r \in Proc :
        /\ task' = [task EXCEPT ![Stopper] = r]
        /\ r.pc \in {"request", "asked", "cleanup", "done", "failed"}
        /\ r.server = task[Stopper].server \/ r.server = api
  BY StopMovesFacts DEF BaseInv
<1>2. task'[Stopper] = r /\ \A t \in Procs \ {Stopper} : task'[t] = task[t]
  BY <1>1 DEF BaseInv, SupervisorTypeOK, ProcTypeOK
<1>3. /\ UNCHANGED <<alive, impostor, run, launcher>>
      /\ told' \subseteq told \cup {api} /\ api' \in {api, None} /\ saved' \in {saved, None}
      /\ \/ UNCHANGED <<lease, leases>>
         \/ lease' = None /\ leases' = leases \ {lease}
  BY DEF StopWaited, TakesRequest, ShutsDown, StopFails, worldVars, startVars, leaseVars, DropLease
<1>4. ServersKnown'
  <2>1. \A i \in Starts : Launched(i) => Launched(i)'
    BY <1>3 DEF Launched
  <2>2. \A t \in Procs : task'[t].server = task[t].server \/ task'[t].server = api
    BY <1>1, <1>2
  <2>. QED
    BY <1>3, <2>1, <2>2, KnownFrame DEF BaseInv, ServersKnown
<1>5. OneLease'
  BY <1>3 DEF BaseInv, OneLease
<1>6. ProcsKnown'
  BY <1>1, <1>3, ProcsFrame
<1>. QED
  BY <1>0, <1>4, <1>5, <1>6 DEF BaseInv

LEMMA ExitsKeepsBase ==
  ASSUME BaseInv, NEW s \in Servers, ServerExits(s)
  PROVE  BaseInv'
<1>0. SupervisorTypeOK'
  BY ServerExitsTyped DEF BaseInv
<1>1. UNCHANGED <<impostor, told, saved, api, run, lease, leases, launcher, task>> /\ alive' \subseteq alive
  BY DEF ServerExits, startVars, leaseVars
<1>2. ServersKnown'
  BY <1>1 DEF BaseInv, ServersKnown, Known, Launched
<1>3. OneLease' /\ ProcsKnown'
  BY <1>1, ProcsStay DEF BaseInv, OneLease
<1>. QED
  BY <1>0, <1>2, <1>3 DEF BaseInv

LEMMA DisposeKeepsBase ==
  ASSUME BaseInv, Dispose
  PROVE  BaseInv'
<1>. USE Constants
<1>0. SupervisorTypeOK'
  BY DisposeTyped DEF BaseInv
<1>1. /\ UNCHANGED <<alive, impostor, saved, api, run, task>> /\ told' \subseteq told \cup {launcher}
      /\ lease' = None /\ launcher' = None /\ leases' = leases \ {lease}
  BY DEF Dispose, startVars, StopLauncher, DropLease
<1>2. ServersKnown'
  BY <1>1 DEF BaseInv, ServersKnown, Known, Launched
<1>3. OneLease' /\ ProcsKnown'
  BY <1>1, ProcsStay DEF BaseInv, OneLease
<1>. QED
  BY <1>0, <1>2, <1>3 DEF BaseInv

\* How far a start has come, and what it has changed.
LEMMA StartFacts ==
  ASSUME SupervisorTypeOK, NEW i \in Starts, StartGoesOn(i)
  PROVE  \E pc \in {"reconnect", "reconnected", "launch", "handshake", "configure", "poll", "record",
                    "done", "failed"} :
           /\ \A j \in Starts : run'[j].pc = IF j = i THEN pc ELSE run[j].pc
           /\ Launched(i) => pc \in {"configure", "poll", "record", "done", "failed"}
           /\ pc \in {"handshake", "configure", "poll", "record"} => Launched(i) \/ run[i].pc = "launch"
           /\ UNCHANGED <<impostor, task, sessions, disposed, stopped, overlapped>>
           /\ alive' = IF pc = "handshake" THEN alive \cup {i} ELSE alive
<1>1. ASSUME NEW pc \in {"reconnect", "reconnected", "launch", "handshake", "configure", "poll", "record",
                         "done", "failed"}, Goes(i, pc)
      PROVE  \A j \in Starts : run'[j].pc = IF j = i THEN pc ELSE run[j].pc
  BY <1>1 DEF Goes, SupervisorTypeOK, StartTypeOK, Run
<1>. USE DEF Launched, worldVars
<1>2. CASE Load(i) \/ Reconnects(i)
  <2>1. PICK pc \in {"reconnect", "reconnected", "launch"} : Goes(i, pc)
    BY <1>2 DEF Load, Reconnects
  <2>. QED
    BY <1>1, <1>2, <2>1 DEF Load, Reconnects
<1>3. CASE Reconnected(i) \/ Recorded(i)
  <2>1. Goes(i, "done")
    BY <1>3 DEF Reconnected, Recorded, Opens
  <2>. QED
    BY <1>1, <1>3, <2>1 DEF Reconnected, Recorded
<1>4. CASE Launch(i)
  BY <1>1, <1>4 DEF Launch
<1>5. CASE LaunchFails(i) \/ ServerStartFails(i) \/ HandshakeFails(i)
  <2>1. Goes(i, "failed")
    BY <1>5 DEF LaunchFails, ServerStartFails, HandshakeFails, Fails
  <2>. QED
    BY <1>1, <1>5, <2>1 DEF LaunchFails, ServerStartFails, HandshakeFails
<1>6. CASE Handshake(i)
  BY <1>1, <1>6 DEF Handshake
<1>7. CASE Configured(i)
  BY <1>1, <1>7 DEF Configured
<1>8. CASE Polled(i)
  BY <1>1, <1>8 DEF Polled
<1>. QED
  BY <1>2, <1>3, <1>4, <1>5, <1>6, <1>7, <1>8 DEF StartGoesOn

LEMMA StartKeepsBase ==
  ASSUME BaseInv, NEW i \in Starts, StartGoesOn(i)
  PROVE  BaseInv'
<1>. USE Constants
<1>0. SupervisorTypeOK'
  BY StartGoesOnTyped DEF BaseInv
<1>1. PICK pc \in {"reconnect", "reconnected", "launch", "handshake", "configure", "poll", "record",
                   "done", "failed"} :
           /\ \A j \in Starts : run'[j].pc = IF j = i THEN pc ELSE run[j].pc
           /\ Launched(i) => pc \in {"configure", "poll", "record", "done", "failed"}
           /\ UNCHANGED <<impostor, task>>
           /\ pc \in {"handshake", "configure", "poll", "record"} => Launched(i) \/ run[i].pc = "launch"
           /\ alive' = IF pc = "handshake" THEN alive \cup {i} ELSE alive
  BY StartFacts DEF BaseInv
<1>2. \A j \in Starts : Launched(j) => Launched(j)'
  BY <1>1 DEF Launched
<1>3. /\ launcher' = launcher \/ launcher' = None \/ (launcher' = i /\ Launched(i)')
      /\ told' \subseteq told \cup {launcher} \/ (told' \subseteq told \cup {launcher, i} /\ Launched(i)')
      /\ \/ UNCHANGED <<lease, leases>>
         \/ lease' = None /\ leases' = leases \ {lease}
         \/ lease' = None /\ leases' = leases \ {i, lease}
         \/ lease' = api /\ api # None /\ leases' = (leases \ {lease}) \cup {api}
         \/ lease' = i /\ Launched(i)' /\ leases' = (leases \ {lease}) \cup {i}
  <2>1. CASE Load(i) \/ Handshake(i) \/ Configured(i) \/ Polled(i) \/ Reconnected(i)
    BY <2>1 DEF worldVars, leaseVars, Load, Handshake, Configured, Polled, Reconnected
  <2>2. CASE Reconnects(i)
    <3>1. alive \subseteq Servers /\ None \notin Servers
      BY DEF BaseInv, SupervisorTypeOK, ServerTypeOK
    <3>2. UNCHANGED <<launcher, told>>
      BY <2>2 DEF worldVars, Reconnects
    <3>3. UNCHANGED <<lease, leases>> \/ (lease' = api /\ api \in alive /\ leases' = (leases \ {lease}) \cup {api})
      BY <2>2 DEF Reconnects
    <3>. QED
      BY <3>1, <3>2, <3>3
  <2>3. CASE Launch(i)
    <3>1. run'[i].pc = "handshake"
      BY <2>3 DEF Launch, Goes, BaseInv, SupervisorTypeOK, StartTypeOK, Run
    <3>2. Launched(i)'
      BY <3>1 DEF Launched
    <3>. QED
      BY <2>3, <3>2 DEF Launch
  <2>4. CASE LaunchFails(i) \/ ServerStartFails(i)
    BY <2>4 DEF LaunchFails, ServerStartFails, Fails, DropLease, StopLauncher
  <2>5. CASE HandshakeFails(i)
    <3>1. Launched(i)'
      BY <2>5, RunGoes DEF HandshakeFails, Goes, Launched, BaseInv, SupervisorTypeOK
    <3>. QED
      BY <2>5, <3>1 DEF HandshakeFails
  <2>6. CASE Recorded(i)
    BY <2>6 DEF Recorded, worldVars
  <2>. QED
    BY <2>1, <2>2, <2>3, <2>4, <2>5, <2>6 DEF StartGoesOn
<1>4. /\ api' = api \/ api' = saved \/ (api' = i /\ Launched(i)')
      /\ saved' = saved \/ (saved' = i /\ Launched(i)')
  <2>1. CASE Configured(i) \/ Polled(i)
    <3>1. Launched(i)'
      BY <2>1, RunGoes DEF Configured, Polled, Goes, Launched, BaseInv, SupervisorTypeOK
    <3>. QED
      BY <2>1, <3>1 DEF Configured, Polled
  <2>2. CASE ~(Configured(i) \/ Polled(i))
    BY <2>2 DEF StartGoesOn, Load, Reconnects, Reconnected, Launch, LaunchFails, Handshake, HandshakeFails,
       ServerStartFails, Recorded
  <2>. QED
    BY <2>1, <2>2
<1>5. ServersKnown'
  <2>1. pc = "handshake" => Launched(i)'
    BY <1>1 DEF Launched
  <2>2. \A s \in alive' \cup told' \cup {api', saved', lease', launcher'} :
           \/ s \in alive \cup told \cup {api, saved, lease, launcher, None}
           \/ s = i /\ Launched(i)'
    BY <1>1, <1>3, <1>4, <2>1
  <2>3. \A s \in alive' \cup told' \cup {api', saved', lease', launcher'} :
           \/ s \in alive \cup told \cup {api, saved, lease, launcher, None}
           \/ s \in Starts /\ Launched(s)'
    BY <2>2 DEF Launched
  <2>4. launcher' # Old
    BY <1>3 DEF BaseInv, ServersKnown
  <2>5. \A t \in Procs : task'[t].server = task[t].server
    BY <1>1
  <2>. QED
    BY <1>2, <2>3, <2>4, <2>5, KnownFrame DEF BaseInv
<1>6. OneLease'
  BY <1>3 DEF BaseInv, OneLease
<1>7. ProcsKnown'
  <2>1. pc = "handshake" => ~Launched(i)
    BY <1>1
  <2>. QED
    BY <1>1, <2>1, ProcsStay
<1>. QED
  BY <1>0, <1>5, <1>6, <1>7 DEF BaseInv

LEMMA BaseStep == BaseInv /\ [SupervisorNext]_supervisorVars => BaseInv'
<1>1. ASSUME BaseInv, UNCHANGED supervisorVars PROVE BaseInv'
  <2>1. SupervisorTypeOK'
    BY <1>1, StutterTyped DEF BaseInv
  <2>2. ServersKnown' /\ OneLease' /\ ProcsKnown'
    BY <1>1 DEF BaseInv, ServersKnown, OneLease, ProcsKnown, Known, Launched, Gone, IsStale,
       supervisorVars, worldVars, startVars, leaseVars
  <2>. QED
    BY <2>1, <2>2 DEF BaseInv
<1>2. ASSUME BaseInv, NEW p \in Procs, ProcGoesOn(p) \/ CreateSession(p) \/ Watch(p) PROVE BaseInv'
  BY <1>2, MoveKeepsBase, EnsureKeepsBase DEF ProcGoesOn
<1>3. ASSUME BaseInv, StopGoesOn PROVE BaseInv'
  BY <1>3, StopMovesKeepBase, StopKeepsBase DEF StopGoesOn
<1>. QED
  BY <1>1, <1>2, <1>3, ExitsKeepsBase, StartKeepsBase, StopKeepsBase, DisposeKeepsBase DEF SupervisorNext

LEMMA BaseInit == SupervisorInit => BaseInv
<1>. SUFFICES ASSUME SupervisorInit PROVE BaseInv
  OBVIOUS
<1>. USE Constants DEF SupervisorInit
<1>1. ServerTypeOK
  BY DEF ServerTypeOK
<1>2. StartTypeOK
  BY DEF StartTypeOK, Run
<1>3. ProcTypeOK
  BY DEF ProcTypeOK, Proc
<1>4. ServersKnown
  BY DEF ServersKnown, Known
<1>5. OneLease /\ ProcsKnown
  BY DEF OneLease, ProcsKnown
<1>. QED
  BY <1>1, <1>2, <1>3, <1>4, <1>5 DEF BaseInv, SupervisorTypeOK

LEMMA BaseInvariant == SupervisorSpec => []BaseInv
  BY BaseInit, BaseStep, PTL DEF SupervisorSpec

\* For any calls, starts and crashes, also when recoveries overlap, the state of the
\* adapter keeps its type, and a start that is waited for has not been settled
\* (KallichoreAdapterApi.ts:439-470).
THEOREM SupervisorTypeCorrect == SupervisorSpec => []SupervisorTypeOK
<1>1. BaseInv => SupervisorTypeOK
  BY DEF BaseInv
<1>. QED
  BY <1>1, BaseInvariant, PTL
-----------------------------------------------------------------------------
\* A start begins only when none is under way.
LEMMA StartBegins ==
  ASSUME BaseInv, SafeInv, starting = None, NEW i \in Starts, starting' = i, run[i].pc = "none",
         run' = [run EXCEPT ![i].pc = "load"], ~started', saved' \notin Starts,
         UNCHANGED <<api, lease, disposed, told, impostor>>,
         task'[Stopper].pc \notin {"request", "asked", "cleanup"}
  PROVE  OneStart' /\ StartKnown' /\ (\A j \in UnderWay : j \in UnderWay')
<1>. USE Constants
<1>1. \A j \in Starts : run'[j].pc = IF j = i THEN "load" ELSE run[j].pc
  BY RunGoes DEF BaseInv, SupervisorTypeOK
<1>2. \A j \in Starts : j \notin UnderWay
  BY DEF SafeInv, OneStart
<1>3. \A j \in Starts : run[j].pc \in {"none", "done", "failed"}
  BY <1>2 DEF UnderWay
<1>5. OneStart'
  <2>1. \A j \in Starts : (j \in UnderWay)' <=> j = i
    BY <1>1, <1>3 DEF UnderWay
  <2>. QED
    BY <2>1 DEF OneStart
<1>6. StartKnown'
  BY <1>1, <1>3 DEF StartKnown
<1>. QED
  BY <1>2, <1>5, <1>6 DEF UnderWay

\* A start that begins has launched nothing.
LEMMA LoadsOld ==
  ASSUME BaseInv, OldKnown, UNCHANGED <<saved, lease, leases>>,
         UNCHANGED run \/ \E i \in Starts : run[i].pc = "none" /\ run' = [run EXCEPT ![i].pc = "load"]
  PROVE  OldKnown'
<1>1. CASE UNCHANGED run
  BY <1>1 DEF OldKnown
<1>2. ASSUME NEW i \in Starts, run[i].pc = "none", run' = [run EXCEPT ![i].pc = "load"] PROVE OldKnown'
  <2>1. \A j \in Starts : run'[j].pc = IF j = i THEN "load" ELSE run[j].pc
    BY <1>2, RunLoads DEF BaseInv, SupervisorTypeOK
  <2>2. \A j \in Starts : run'[j].pc \in {"handshake", "configure", "poll", "record"} <=>
                          run[j].pc \in {"handshake", "configure", "poll", "record"}
    BY <1>2, <2>1
  <2>. QED
    BY <2>2 DEF OldKnown
<1>. QED
  BY <1>1, <1>2

\* The steps of a process that begin no start.
LEMMA MoveKeepsSafe ==
  ASSUME BaseInv, SafeInv, NEW p \in Procs, Answered(p) \/ CreateReturns(p) \/ Verified(p) \/ Watch(p)
  PROVE  SafeInv'
<1>. USE Constants
<1>1. /\ UNCHANGED <<alive, impostor, told>> /\ UNCHANGED <<saved, api, disposed, stopped>>
      /\ UNCHANGED <<started, starting, run>> /\ UNCHANGED <<lease, leases>>
  BY DEF Answered, CreateReturns, Verified, Watch, startVars, worldVars, leaseVars
<1>2. \E r \in Proc :
        /\ task' = [task EXCEPT ![p] = r]
        /\ r.pc \in {"create", "idle", "done", "await", "verify", "remove"}
        /\ r.pc \in {"verify", "remove"} => ~Stopping
        /\ r.pc = "remove" /\ stopped # None => r.server # stopped
        /\ p = Stopper => r.pc = "done" /\ task[p].pc = "wait"
  <2>1. CASE Answered(p)
    <3>1. PICK r \in Proc :
              /\ task' = [task EXCEPT ![p] = r] /\ r.pc \in {"create", "idle", "done"}
              /\ r.pc = "create" => p \in Callers
              /\ r.pc = "idle" => p \in Watchers
      BY <2>1, AnsweredFacts DEF BaseInv
    <3>2. p = Stopper => task[p].pc = "wait"
      BY <2>1, AnsweredFacts DEF BaseInv, ProcsKnown
    <3>. QED
      BY <3>1, <3>2
  <2>2. CASE CreateReturns(p) \/ Watch(p)
    <3>1. PICK r \in Proc :
           /\ task' = [task EXCEPT ![p] = r]
           /\ r.pc \in {"create", "idle", "done", "await", "verify", "remove"}
           /\ r.pc \in {"verify", "remove"} => ~Stopping /\ api # None
      BY <2>2, CreateReturnsFacts, WatchFacts DEF BaseInv
    <3>2. p # Stopper
      BY <2>2, CreateReturnsFacts DEF BaseInv, ProcsKnown, Watch
    <3>3. api # None => stopped = None
      BY DEF SafeInv, StoppedKnown
    <3>. QED
      BY <3>1, <3>2, <3>3
  <2>3. CASE Verified(p)
    <3>1. PICK r \in Proc :
              /\ task' = [task EXCEPT ![p] = r] /\ r.pc \in {"create", "idle", "done", "remove"}
              /\ r.pc = "remove" => ~Stopping
              /\ r.pc = "remove" /\ r.server = task[Stopper].server => task[Stopper].pc = "failed"
      BY <2>3, VerifiedFacts DEF BaseInv
    <3>2. p # Stopper
      BY <2>3, VerifiedFacts DEF BaseInv, ProcsKnown
    <3>3. stopped # None => stopped = task[Stopper].server /\ task[Stopper].pc = "done"
      BY DEF SafeInv, StoppedKnown
    <3>. QED
      BY <3>1, <3>2, <3>3
  <2>. QED
    BY <2>1, <2>2, <2>3
<1>3. PICK r \in Proc :
        /\ task' = [task EXCEPT ![p] = r]
        /\ r.pc \in {"create", "idle", "done", "await", "verify", "remove"}
        /\ r.pc \in {"verify", "remove"} => ~Stopping
        /\ r.pc = "remove" /\ stopped # None => r.server # stopped
        /\ p = Stopper => r.pc = "done" /\ task[p].pc = "wait"
  BY <1>2
<1>4. task'[p] = r /\ \A t \in Procs \ {p} : task'[t] = task[t]
  BY <1>3 DEF BaseInv, SupervisorTypeOK, ProcTypeOK
<1>5. task'[Stopper] = task[Stopper] \/ (task[Stopper].pc = "wait" /\ task'[Stopper].pc = "done")
  BY <1>3, <1>4
<1>6. \A t \in Procs : \/ task'[t] = task[t]
                       \/ /\ task'[t].pc # "ensure"
                          /\ task'[t].pc = "remove" => ~Stopping
                          /\ task'[t].pc = "remove" /\ stopped # None => task'[t].server # stopped
  BY <1>3, <1>4
<1>7. OneStart'
  BY <1>1, <1>5 DEF SafeInv, OneStart, UnderWay
<1>8. StartKnown'
  BY <1>1 DEF SafeInv, StartKnown, IsStale
<1>9. OnlineKnown'
  BY <1>1, <1>5 DEF SafeInv, OnlineKnown, IsStale
<1>10. StopKnown'
  BY <1>1, <1>5, <1>6 DEF SafeInv, StopKnown, IsStale, Recovers, Stopping
<1>11. StoppedKnown'
  BY <1>1, <1>5, <1>6 DEF SafeInv, StoppedKnown
<1>12. NoneLeft'
  BY <1>1 DEF SafeInv, NoneLeft, UnderWay
<1>13. OldKnown'
  BY <1>1 DEF SafeInv, OldKnown
<1>. QED
  BY <1>7, <1>8, <1>9, <1>10, <1>11, <1>12, <1>13 DEF SafeInv

\* A session is asked for, at once or after a stop.
LEMMA AskKeepsSafe ==
  ASSUME BaseInv, SafeInv, NEW p \in Procs, CreateSession(p) \/ StopAwaited(p)
  PROVE  SafeInv'
<1>. USE Constants
<1>1. /\ UNCHANGED <<alive, impostor, told>> /\ UNCHANGED <<saved, api, disposed>>
      /\ UNCHANGED <<lease, leases>>
  BY DEF CreateSession, StopAwaited, worldVars, leaseVars
<1>2. p # Stopper
  BY DEF CreateSession, StopAwaited, BaseInv, ProcsKnown
<1>3. stopped' = None
  BY DEF CreateSession, StopAwaited, SafeInv, StoppedKnown
<1>4. task[p] \in Proc /\ started \in BOOLEAN /\ starting \in Starts \cup {None}
  BY DEF BaseInv, SupervisorTypeOK, ProcTypeOK, StartTypeOK
<1>5. \E r \in Proc :
        /\ task' = [task EXCEPT ![p] = r] /\ started' = started
        /\ r.pc \in {"create", "idle", "done", "wait", "ensure"}
        /\ r.pc = "ensure" => Stopping /\ p \in Callers /\ ~r.testing
        /\ \/ starting' = starting /\ UNCHANGED run
           \/ /\ ~started /\ starting = None /\ ~Stopping
              /\ \E i \in Starts : run[i].pc = "none" /\ starting' = i /\ run' = [run EXCEPT ![i].pc = "load"]
  <2>1. CASE CreateSession(p)
    <3>1. Ensures(p, task[p], started, starting) /\ p \in Callers /\ ~task[p].testing
      BY <2>1 DEF CreateSession, BaseInv, ProcsKnown
    <3>2. PICK r \in Proc :
              /\ task' = [task EXCEPT ![p] = r]
              /\ r.pc \in {"create", "idle", "done", "wait", "ensure"}
              /\ r.pc = "ensure" => Stopping /\ r.testing = task[p].testing
              /\ \/ starting' = starting /\ UNCHANGED <<promise, run>>
                 \/ /\ ~started /\ starting = None /\ ~Stopping
                    /\ \E i \in Starts :
                         /\ run[i].pc = "none" /\ starting' = i
                         /\ run' = [run EXCEPT ![i].pc = "load"]
      BY <1>4, <3>1, EnsuresFacts DEF BaseInv
    <3>3. started' = started
      BY <1>4, <3>1, EnsuresFacts DEF BaseInv
    <3>. QED
      BY <3>1, <3>2, <3>3
  <2>2. CASE StopAwaited(p)
    <3>1. PICK r \in Proc :
              /\ task' = [task EXCEPT ![p] = r]
              /\ r.pc \in {"create", "idle", "done", "wait"}
              /\ \/ starting' = starting /\ UNCHANGED <<promise, run>>
                 \/ /\ ~started /\ starting = None
                    /\ \E i \in Starts :
                         /\ run[i].pc = "none" /\ starting' = i
                         /\ run' = [run EXCEPT ![i].pc = "load"]
      BY <2>2, StopAwaitedFacts DEF BaseInv
    <3>2. started' = started /\ ~Stopping
      BY <2>2, StopAwaitedFacts DEF BaseInv
    <3>. QED
      BY <3>1, <3>2
  <2>. QED
    BY <2>1, <2>2
<1>6. PICK r \in Proc :
        /\ task' = [task EXCEPT ![p] = r] /\ started' = started
        /\ r.pc \in {"create", "idle", "done", "wait", "ensure"}
        /\ r.pc = "ensure" => Stopping /\ p \in Callers /\ ~r.testing
        /\ \/ starting' = starting /\ UNCHANGED run
           \/ /\ ~started /\ starting = None /\ ~Stopping
              /\ \E i \in Starts : run[i].pc = "none" /\ starting' = i /\ run' = [run EXCEPT ![i].pc = "load"]
  BY <1>5
<1>7. task'[p] = r /\ (\A t \in Procs \ {p} : task'[t] = task[t]) /\ task'[Stopper] = task[Stopper]
  BY <1>2, <1>6 DEF BaseInv, SupervisorTypeOK, ProcTypeOK
<1>8. OneStart' /\ StartKnown' /\ NoneLeft'
  <2>1. CASE starting' = starting /\ UNCHANGED run
    <3>1. OneStart'
      BY <1>1, <1>6, <1>7, <2>1 DEF SafeInv, OneStart, UnderWay
    <3>2. StartKnown'
      BY <1>1, <2>1 DEF SafeInv, StartKnown, IsStale
    <3>3. NoneLeft'
      BY <1>1, <1>6, <2>1 DEF SafeInv, NoneLeft, UnderWay
    <3>. QED
      BY <3>1, <3>2, <3>3
  <2>2. CASE ~(starting' = starting /\ UNCHANGED run)
    <3>1. PICK i \in Starts : run[i].pc = "none" /\ starting' = i /\ run' = [run EXCEPT ![i].pc = "load"]
      BY <1>6, <2>2
    <3>2. ~started /\ starting = None /\ ~Stopping
      BY <1>6, <2>2
    <3>3. task'[Stopper].pc \notin {"request", "asked", "cleanup"}
      BY <1>7, <3>2 DEF Stopping
    <3>4. OneStart' /\ StartKnown' /\ (\A j \in UnderWay : j \in UnderWay')
      <4>1. saved' \notin Starts
        BY <1>1, <3>2 DEF SafeInv, OneStart
      <4>. QED
        BY <1>1, <1>6, <3>1, <3>2, <3>3, <4>1, StartBegins
    <3>5. NoneLeft'
      BY <1>1, <1>6, <3>4 DEF SafeInv, NoneLeft
    <3>. QED
      BY <3>4, <3>5
  <2>. QED
    BY <2>1, <2>2
<1>9. OnlineKnown'
  BY <1>1, <1>6, <1>7 DEF SafeInv, OnlineKnown, IsStale
<1>10. \A t \in Procs : Recovers(t)' => Recovers(t)
  BY <1>6, <1>7 DEF Recovers
<1>11. Stopping => starting' = starting
  BY <1>6
<1>12. StopKnown'
  <2>1. \A t \in Procs : task'[t].pc = "ensure" => task[t].pc = "ensure" \/ Stopping
    BY <1>6, <1>7
  <2>2. \A t \in Procs : task'[t].pc = "remove" => task[t].pc = "remove" /\ task'[t].server = task[t].server
    BY <1>6, <1>7
  <2>. QED
    BY <1>1, <1>6, <1>7, <1>10, <1>11, <2>1, <2>2 DEF SafeInv, StopKnown, IsStale, Stopping
<1>13. StoppedKnown'
  BY <1>3 DEF StoppedKnown
<1>14. OldKnown'
  BY <1>1, <1>6, LoadsOld DEF SafeInv
<1>. QED
  BY <1>8, <1>9, <1>12, <1>13, <1>14 DEF SafeInv

\* A recovery begins, at the server that was online: no start is under way.
LEMMA RemovedKeepsSafe ==
  ASSUME BaseInv, SafeInv, NEW p \in Procs, Removed(p), ~overlapped'
  PROVE  SafeInv'
<1>. USE Constants
<1>1. /\ UNCHANGED <<alive, impostor, told>> /\ UNCHANGED <<api, disposed, stopped>>
      /\ UNCHANGED <<lease, leases>> /\ saved' = None
  BY DEF Removed, worldVars, leaseVars
<1>2. task[p].pc = "remove" /\ starting = None /\ api = task[p].server
  BY DEF Removed
<1>3. p # Stopper /\ Gone(api) /\ api # None
  BY <1>2 DEF BaseInv, ProcsKnown
<1>4. task[p] \in Proc /\ FALSE \in BOOLEAN /\ None \in Starts \cup {None}
  BY DEF BaseInv, SupervisorTypeOK, ProcTypeOK
<1>5. Ensures(p, task[p], FALSE, None)
  BY DEF Removed
<1>6. ~started'
  BY <1>4, <1>5, EnsuresFacts DEF BaseInv
<1>7. PICK r \in Proc :
        /\ task' = [task EXCEPT ![p] = r]
        /\ r.pc \in {"create", "idle", "done", "wait", "ensure"}
        /\ r.pc = "ensure" => Stopping
        /\ \/ Stopping /\ starting' = None /\ UNCHANGED <<promise, run>>
           \/ /\ ~Stopping
              /\ \E i \in Starts :
                   /\ run[i].pc = "none" /\ starting' = i
                   /\ promise' = [promise EXCEPT ![i] = "pending"]
                   /\ run' = [run EXCEPT ![i].pc = "load"]
  <2>1. PICK open \in BOOLEAN, current \in Starts \cup {None} :
             Ensures(p, task[p], open, current) /\ ~open /\ current = None
    BY <1>5
  <2>2. PICK r \in Proc :
        /\ task' = [task EXCEPT ![p] = r]
        /\ r.pc \in {"create", "idle", "done", "wait", "ensure"}
        /\ r.pc = "ensure" => Stopping /\ r.testing = task[p].testing
        /\ \/ (open \/ current # None \/ Stopping) /\ starting' = current /\ UNCHANGED <<promise, run>>
           \/ /\ ~open /\ current = None /\ ~Stopping /\ r.pc = "wait"
              /\ \E i \in Starts :
                   /\ run[i].pc = "none" /\ starting' = i
                   /\ promise' = [promise EXCEPT ![i] = "pending"]
                   /\ run' = [run EXCEPT ![i].pc = "load"]
    BY <1>4, <2>1, EnsuresFacts DEF BaseInv
  <2>. QED
    BY <2>1, <2>2
<1>8. task'[p] = r /\ (\A t \in Procs \ {p} : task'[t] = task[t]) /\ task'[Stopper] = task[Stopper]
  BY <1>3, <1>7 DEF BaseInv, SupervisorTypeOK, ProcTypeOK
<1>9. task[Stopper].pc \notin {"asked", "cleanup"}
  BY <1>2, <1>3 DEF SafeInv, StopKnown
<1>10. stopped = None
  BY <1>3 DEF SafeInv, StoppedKnown
<1>11. task[Stopper].pc = "request" => api \notin alive
  BY <1>3 DEF SafeInv, StopKnown, Gone
<1>12. OneStart' /\ StartKnown' /\ (\A j \in UnderWay : j \in UnderWay')
  <2>1. CASE Stopping /\ starting' = None /\ UNCHANGED <<promise, run>>
    <3>1. OneStart'
      BY <1>1, <1>2, <1>6, <2>1 DEF SafeInv, OneStart, UnderWay
    <3>2. \A i \in Starts : run[i].pc \in {"none", "done", "failed"}
      BY <1>2 DEF SafeInv, OneStart, UnderWay
    <3>3. StartKnown' /\ (\A j \in UnderWay : j \in UnderWay')
      BY <2>1, <3>2 DEF StartKnown, UnderWay
    <3>. QED
      BY <3>1, <3>3
  <2>2. ASSUME ~Stopping, NEW i \in Starts, run[i].pc = "none", starting' = i, run' = [run EXCEPT ![i].pc = "load"]
        PROVE  OneStart' /\ StartKnown' /\ (\A j \in UnderWay : j \in UnderWay')
    <3>1. task'[Stopper].pc \notin {"request", "asked", "cleanup"}
      BY <1>8, <2>2 DEF Stopping
    <3>. QED
      BY <1>1, <1>2, <1>6, <2>2, <3>1, StartBegins
  <2>. QED
    BY <1>7, <2>1, <2>2
<1>13. OnlineKnown'
  BY <1>1, <1>6 DEF OnlineKnown
<1>14. StopKnown'
  <2>1. task[Stopper].pc \in {"stopWait", "request"} => starting' = None
    BY <1>7 DEF Stopping
  <2>2. task'[Stopper].pc \notin {"asked", "cleanup"}
    BY <1>8, <1>9
  <2>3. task'[Stopper].pc = "request" => (~IsStale(api))'
    BY <1>1, <1>8 DEF SafeInv, StopKnown, IsStale
  <2>4. task'[Stopper].pc = "idle" => \A t \in Procs : task'[t].pc # "ensure"
    BY <1>7, <1>8 DEF SafeInv, StopKnown, Stopping
  <2>. QED
    BY <1>1, <1>6, <1>8, <1>11, <2>1, <2>2, <2>3, <2>4 DEF StopKnown
<1>15. StoppedKnown'
  BY <1>1, <1>10 DEF StoppedKnown
<1>16. NoneLeft'
  <2>1. ASSUME NEW i \in Starts, i \in alive PROVE ~(api = i)
    BY <1>3, <2>1 DEF Gone, IsStale
  <2>. QED
    BY <1>1, <1>12, <2>1 DEF SafeInv, NoneLeft
<1>17. OldKnown'
  BY <1>1 DEF OldKnown
<1>. QED
  BY <1>12, <1>13, <1>14, <1>15, <1>16, <1>17 DEF SafeInv

\* The stop begins, or the server is restarted once it has been stopped.
LEMMA StopKeepsSafe ==
  ASSUME BaseInv, SafeInv, (\E again \in BOOLEAN : Stop(again)) \/ StopEnds
  PROVE  SafeInv'
<1>. USE Constants
<1>1. /\ UNCHANGED <<alive, impostor, told>> /\ UNCHANGED <<saved, api, disposed>>
      /\ UNCHANGED <<lease, leases>>
  BY DEF Stop, StopEnds, worldVars, leaseVars
<1>2. \E r \in Proc :
        /\ task' = [task EXCEPT ![Stopper] = r] /\ started' = started
        /\ r.pc \in {"wait", "done", "stopWait", "request"}
        /\ r.pc = "request" => started /\ starting = None
        /\ r.pc \in {"stopWait", "request"} => task[Stopper].pc = "idle"
        /\ \/ starting' = starting /\ UNCHANGED run
           \/ /\ ~started /\ starting = None
              /\ \E i \in Starts : run[i].pc = "none" /\ starting' = i /\ run' = [run EXCEPT ![i].pc = "load"]
  <2>1. CASE \E again \in BOOLEAN : Stop(again)
    <3>1. PICK again \in BOOLEAN : Stop(again)
      BY <2>1
    <3>2. PICK r \in Proc :
              /\ task' = [task EXCEPT ![Stopper] = r] /\ started' = started
              /\ r.pc \in {"wait", "done", "stopWait", "request"}
              /\ r.pc = "request" => started /\ starting = None
              /\ \/ starting' = starting /\ UNCHANGED <<promise, run>>
                 \/ /\ ~started /\ starting = None
                    /\ \E i \in Starts : run[i].pc = "none" /\ starting' = i /\ run' = [run EXCEPT ![i].pc = "load"]
      BY <3>1, StopFacts DEF BaseInv
    <3>3. task[Stopper].pc = "idle"
      BY <3>1 DEF Stop
    <3>. QED
      BY <3>2, <3>3
  <2>2. CASE StopEnds
    <3>1. PICK r \in Proc :
              /\ task' = [task EXCEPT ![Stopper] = r] /\ started' = started
              /\ r.pc \in {"wait", "done"}
              /\ \/ starting' = starting /\ UNCHANGED run
                 \/ /\ ~started /\ starting = None
                    /\ \E i \in Starts : run[i].pc = "none" /\ starting' = i /\ run' = [run EXCEPT ![i].pc = "load"]
      BY <2>2, StopEndsFacts DEF BaseInv
    <3>. QED
      BY <3>1
  <2>. QED
    BY <2>1, <2>2
<1>3. PICK r \in Proc :
        /\ task' = [task EXCEPT ![Stopper] = r] /\ started' = started
        /\ r.pc \in {"wait", "done", "stopWait", "request"}
        /\ r.pc = "request" => started /\ starting = None
        /\ r.pc \in {"stopWait", "request"} => task[Stopper].pc = "idle"
        /\ \/ starting' = starting /\ UNCHANGED run
           \/ /\ ~started /\ starting = None
              /\ \E i \in Starts : run[i].pc = "none" /\ starting' = i /\ run' = [run EXCEPT ![i].pc = "load"]
  BY <1>2
<1>4. task'[Stopper] = r /\ \A t \in Procs \ {Stopper} : task'[t] = task[t]
  BY <1>3 DEF BaseInv, SupervisorTypeOK, ProcTypeOK
<1>5. task[Stopper].pc = "idle" \/ (task[Stopper].pc = "cleanup" /\ StopEnds)
  BY StopFacts, StopEndsFacts DEF BaseInv
<1>6. OneStart' /\ StartKnown' /\ NoneLeft'
  <2>1. CASE starting' = starting /\ UNCHANGED run
    <3>1. OneStart'
      BY <1>1, <1>3, <1>4, <2>1 DEF SafeInv, OneStart, UnderWay
    <3>2. StartKnown'
      BY <1>1, <2>1 DEF SafeInv, StartKnown, IsStale
    <3>3. NoneLeft'
      BY <1>1, <1>3, <2>1 DEF SafeInv, NoneLeft, UnderWay
    <3>. QED
      BY <3>1, <3>2, <3>3
  <2>2. ASSUME ~started, starting = None, NEW i \in Starts, run[i].pc = "none", starting' = i,
               run' = [run EXCEPT ![i].pc = "load"]
        PROVE  OneStart' /\ StartKnown' /\ NoneLeft'
    <3>1. task'[Stopper].pc \notin {"request", "asked", "cleanup"} /\ saved' \notin Starts /\ ~started'
      BY <1>1, <1>3, <1>4, <2>2 DEF SafeInv, OneStart
    <3>2. OneStart' /\ StartKnown' /\ (\A j \in UnderWay : j \in UnderWay')
      BY <1>1, <2>2, <3>1, StartBegins
    <3>3. NoneLeft'
      BY <1>1, <1>3, <3>2 DEF SafeInv, NoneLeft
    <3>. QED
      BY <3>2, <3>3
  <2>. QED
    BY <1>3, <2>1, <2>2
<1>7. OnlineKnown'
  BY <1>1, <1>3, <1>5 DEF SafeInv, OnlineKnown, IsStale
<1>8. StopKnown'
  <2>1. task'[Stopper].pc = "request" => (~IsStale(api))'
    BY <1>1, <1>3, <1>4 DEF SafeInv, OnlineKnown, IsStale
  <2>2. \A t \in Procs : task'[Stopper].pc \in {"stopWait", "request"} => ~(Recovers(t))'
    <3>1. task'[Stopper].pc \in {"stopWait", "request"} => task[Stopper].pc = "idle"
      BY <1>3, <1>4
    <3>. QED
      BY <1>3, <1>4, <3>1 DEF SafeInv, StopKnown, Recovers
  <2>3. task'[Stopper].pc \notin {"idle", "asked", "cleanup"}
    BY <1>3, <1>4
  <2>. QED
    BY <2>1, <2>2, <2>3 DEF StopKnown
<1>9. StoppedKnown'
  <2>1. stopped = None
    BY <1>5 DEF SafeInv, StoppedKnown
  <2>2. CASE stopped' = None
    BY <2>2 DEF StoppedKnown
  <2>3. CASE stopped' # None
    <3>1. StopEnds
      BY <2>1, <2>3 DEF Stop
    <3>2. task[Stopper].pc = "cleanup"
      BY <3>1, StopEndsFacts DEF BaseInv
    <3>3. /\ starting' = starting /\ task' = [task EXCEPT ![Stopper].pc = "done"] /\ ~task[Stopper].restarting
          /\ stopped' = task[Stopper].server
          /\ \A t \in Callers : ~(task[t].pc = "ensure" /\ ~task[t].testing)
      BY <2>1, <2>3, <3>1 DEF StopEnds, startVars
    <3>4. task'[Stopper].pc = "done" /\ task'[Stopper].server = task[Stopper].server
      BY <3>3 DEF BaseInv, SupervisorTypeOK, ProcTypeOK, Proc
    <3>5. api = None /\ starting = None /\ ~started
      BY <3>2 DEF SafeInv, StopKnown, OneStart
    <3>6. \A t \in Procs : /\ task[t].pc # "ensure"
                           /\ task[t].pc = "remove" => task[t].server # stopped'
      BY <3>2, <3>3 DEF SafeInv, StopKnown, Recovers
    <3>. QED
      BY <1>1, <1>3, <1>4, <3>3, <3>4, <3>5, <3>6 DEF StoppedKnown
  <2>. QED
    BY <2>2, <2>3
<1>10. OldKnown'
  BY <1>1, <1>3, LoadsOld DEF SafeInv
<1>. QED
  BY <1>6, <1>7, <1>8, <1>9, <1>10 DEF SafeInv

\* The steps of the stop up to its end.
LEMMA StopMovesKeepSafe ==
  ASSUME BaseInv, SafeInv, StopWaited \/ TakesRequest \/ ShutsDown \/ StopFails
  PROVE  SafeInv'
<1>. USE Constants
<1>1. PICK r \in Proc :
           /\ task' = [task EXCEPT ![Stopper] = r]
           /\ r.pc \in {"request", "asked", "cleanup", "done", "failed"} /\ r.restarting = task[Stopper].restarting
           /\ StopWaited => /\ task[Stopper].pc = "stopWait" /\ r.server = task[Stopper].server
                            /\ r.pc \in {"request", "done", "failed"} /\ (r.pc = "request" => started)
           /\ TakesRequest => task[Stopper].pc = "request" /\ r.pc = "asked" /\ r.server = api
           /\ ShutsDown => /\ r.pc = "cleanup" /\ r.server = task[Stopper].server
                           /\ task[Stopper].pc \in {"request", "asked"}
                           /\ task[Stopper].pc = "request" => r.restarting
           /\ StopFails => /\ r.pc = "failed" /\ r.server = task[Stopper].server
                           /\ task[Stopper].pc \in {"request", "asked"}
  BY StopMovesFacts DEF BaseInv
<1>2. task'[Stopper] = r /\ \A t \in Procs \ {Stopper} : task'[t] = task[t]
  BY <1>1 DEF BaseInv, SupervisorTypeOK, ProcTypeOK
<1>3. /\ UNCHANGED <<alive, impostor>> /\ UNCHANGED <<starting, run>> /\ UNCHANGED <<disposed, stopped>>
  BY DEF StopWaited, TakesRequest, ShutsDown, StopFails, worldVars, startVars
<1>4. task[Stopper].pc \in {"stopWait", "request", "asked"}
  BY <1>1
<1>5. stopped' = None
  BY <1>3, <1>4 DEF SafeInv, StoppedKnown
<1>6. StoppedKnown'
  BY <1>5 DEF StoppedKnown
<1>7. \A t \in Procs : Recovers(t)' => Recovers(t)
  BY <1>1, <1>2 DEF Recovers
<1>8. CASE StopWaited \/ StopFails
  <2>1. /\ UNCHANGED <<told, saved, api>> /\ UNCHANGED started /\ UNCHANGED <<lease, leases>>
    BY <1>8 DEF StopWaited, StopFails, worldVars, startVars, leaseVars
  <2>2. r.pc \in {"request", "done", "failed"} /\ (r.pc = "request" => started /\ StopWaited)
    BY <1>1, <1>8
  <2>3. OneStart'
    BY <1>2, <1>3, <2>1, <2>2 DEF SafeInv, OneStart, UnderWay
  <2>4. StartKnown'
    BY <1>3, <2>1 DEF SafeInv, StartKnown, IsStale
  <2>5. OnlineKnown'
    <3>1. task[Stopper].pc # "failed" /\ (task[Stopper].pc = "asked" => r.pc = "failed")
      BY <1>1, <1>8
    <3>. QED
      BY <1>2, <1>3, <2>1, <3>1 DEF SafeInv, OnlineKnown, IsStale
  <2>6. StopKnown'
    <3>1. r.pc = "request" => ~IsStale(api) /\ \A t \in Procs : ~Recovers(t)
      BY <1>1, <2>2 DEF SafeInv, OnlineKnown, StopKnown
    <3>2. r.pc = "request" => (~IsStale(api))'
      BY <1>3, <2>1, <3>1 DEF IsStale
    <3>. QED
      BY <1>2, <1>7, <2>2, <3>1, <3>2 DEF StopKnown
  <2>7. NoneLeft'
    BY <1>3, <2>1 DEF SafeInv, NoneLeft, UnderWay
  <2>8. OldKnown'
    BY <1>3, <2>1 DEF SafeInv, OldKnown
  <2>. QED
    BY <1>6, <2>3, <2>4, <2>5, <2>6, <2>7, <2>8 DEF SafeInv
<1>10. CASE TakesRequest
  <2>1. /\ UNCHANGED <<saved, api>> /\ UNCHANGED started /\ UNCHANGED <<lease, leases>>
        /\ told' = told \cup {api} /\ api \in alive
    BY <1>10 DEF TakesRequest, startVars, leaseVars
  <2>2. task[Stopper].pc = "request" /\ r.pc = "asked" /\ r.server = api
    BY <1>1, <1>10
  <2>3. starting = None /\ \A i \in Starts : run[i].pc \in {"none", "done", "failed"}
    BY <2>2 DEF SafeInv, OneStart, UnderWay
  <2>4. OneStart'
    BY <1>2, <1>3, <2>1, <2>3 DEF SafeInv, OneStart, UnderWay
  <2>5. StartKnown'
    BY <1>3, <2>3 DEF StartKnown
  <2>6. OnlineKnown'
    BY <1>2, <1>3, <2>1, <2>2 DEF SafeInv, OnlineKnown, IsStale
  <2>7. ~IsStale(api) /\ ~Gone(api) /\ \A t \in Procs : ~Recovers(t)
    BY <2>1, <2>2 DEF SafeInv, StopKnown, Gone
  <2>8. (~IsStale(api))'
    BY <1>3, <2>1, <2>7 DEF IsStale
  <2>9. \A t \in Procs : task'[t].pc = "remove" => task'[t].server # api
    BY <1>2, <2>2, <2>7 DEF BaseInv, ProcsKnown
  <2>10. StopKnown'
    BY <1>2, <1>7, <2>1, <2>2, <2>7, <2>8, <2>9 DEF StopKnown
  <2>11. NoneLeft'
    BY <1>3, <2>1 DEF SafeInv, NoneLeft, UnderWay
  <2>12. OldKnown'
    BY <1>3, <2>1 DEF SafeInv, OldKnown
  <2>. QED
    BY <1>6, <2>4, <2>5, <2>6, <2>10, <2>11, <2>12 DEF SafeInv
<1>11. CASE ShutsDown
  <2>1. /\ UNCHANGED told /\ leases' = leases \ {lease} /\ lease' = None
        /\ ~started' /\ api' = None /\ saved' = None
    BY <1>11 DEF ShutsDown, worldVars, DropLease
  <2>2. /\ task[Stopper].pc \in {"request", "asked"} /\ r.pc = "cleanup" /\ r.server = task[Stopper].server
        /\ task[Stopper].pc = "request" => r.restarting
    BY <1>1, <1>11
  <2>3. starting = None /\ \A i \in Starts : run[i].pc \in {"none", "done", "failed"}
    BY <2>2 DEF SafeInv, OneStart, UnderWay
  <2>4. OneStart'
    BY <1>2, <1>3, <2>1, <2>3 DEF SafeInv, OneStart, UnderWay
  <2>5. StartKnown'
    BY <1>3, <2>3 DEF StartKnown
  <2>6. OnlineKnown'
    BY <2>1 DEF OnlineKnown
  <2>7. \A t \in Procs : task'[t].pc = "remove" => task[t].pc = "remove" /\ task'[t].server = task[t].server
    BY <1>2, <2>2
  <2>8. StopKnown'
    BY <1>1, <1>2, <1>7, <2>1, <2>2, <2>7 DEF SafeInv, StopKnown
  <2>9. NoneLeft'
    BY <1>3, <2>1 DEF BaseInv, OneLease, NoneLeft
  <2>10. OldKnown'
    BY <2>1 DEF OldKnown
  <2>. QED
    BY <1>6, <2>4, <2>5, <2>6, <2>8, <2>9, <2>10 DEF SafeInv
<1>. QED
  BY <1>8, <1>10, <1>11

LEMMA ExitsKeepsSafe ==
  ASSUME BaseInv, SafeInv, NEW s \in Servers, ServerExits(s)
  PROVE  SafeInv'
<1>1. /\ UNCHANGED <<impostor, told>> /\ UNCHANGED <<saved, api, disposed, stopped, task>>
      /\ UNCHANGED <<started, starting, run>> /\ UNCHANGED <<lease, leases>> /\ alive' \subseteq alive
  BY DEF ServerExits, startVars, leaseVars
<1>2. OneStart' /\ StartKnown' /\ OnlineKnown'
  BY <1>1 DEF SafeInv, OneStart, StartKnown, OnlineKnown, UnderWay, IsStale
<1>3. StopKnown'
  BY <1>1 DEF SafeInv, StopKnown, IsStale, Recovers
<1>4. StoppedKnown' /\ NoneLeft'
  BY <1>1 DEF SafeInv, StoppedKnown, NoneLeft, UnderWay
<1>5. OldKnown'
  BY <1>1 DEF SafeInv, OldKnown
<1>. QED
  BY <1>2, <1>3, <1>4, <1>5 DEF SafeInv

LEMMA DisposeKeepsSafe ==
  ASSUME BaseInv, SafeInv, Dispose
  PROVE  SafeInv'
<1>1. /\ UNCHANGED <<alive, impostor>> /\ UNCHANGED <<saved, api, stopped, task>>
      /\ UNCHANGED <<started, starting, run>> /\ disposed' /\ lease' = None /\ leases' = leases \ {lease}
  BY DEF Dispose, startVars, DropLease
<1>2. OneStart'
  BY <1>1 DEF SafeInv, OneStart, UnderWay
<1>3. StartKnown' /\ OnlineKnown'
  BY <1>1 DEF SafeInv, StartKnown, OnlineKnown, IsStale
<1>4. StopKnown'
  BY <1>1 DEF SafeInv, StopKnown, IsStale, Recovers
<1>5. StoppedKnown' /\ NoneLeft'
  BY <1>1 DEF SafeInv, StoppedKnown, NoneLeft, BaseInv, OneLease
<1>6. OldKnown'
  BY <1>1 DEF OldKnown
<1>. QED
  BY <1>2, <1>3, <1>4, <1>5, <1>6 DEF SafeInv

\* Only one start is under way; while it is, nobody is stopping the server.
LEMMA StartAlone ==
  ASSUME BaseInv, SafeInv, NEW i \in Starts, StartGoesOn(i)
  PROVE  /\ starting = i /\ ~started /\ stopped = None /\ i # None /\ i # Old
         /\ run[i].pc \notin {"none", "done", "failed"}
         /\ \A j \in Starts \ {i} : run[j].pc \in {"none", "done", "failed"}
         /\ task[Stopper].pc \notin {"request", "asked", "cleanup"}
         /\ saved \in Starts => run[i].pc = "record"
         /\ task[Stopper].pc = "stopWait" => \A p \in Procs : ~Recovers(p)
         /\ UNCHANGED <<impostor, task, disposed, stopped, overlapped>>
<1>. USE Constants
<1>1. run[i].pc \notin {"none", "done", "failed"} /\ UNCHANGED <<impostor, task, disposed, stopped, overlapped>>
  BY DEF StartGoesOn, Load, Reconnects, Reconnected, Launch, LaunchFails, Handshake, HandshakeFails, Configured,
     Polled, ServerStartFails, Recorded, worldVars
<1>2. starting = i /\ \A j \in Starts \ {i} : run[j].pc \in {"none", "done", "failed"}
  BY <1>1 DEF SafeInv, OneStart, UnderWay
<1>3. i # None
  OBVIOUS
<1>4. ~started /\ stopped = None /\ task[Stopper].pc \notin {"request", "asked", "cleanup"}
  BY <1>2, <1>3 DEF SafeInv, OneStart, StoppedKnown
<1>5. saved \in Starts => run[i].pc = "record"
  BY <1>2, <1>4 DEF SafeInv, OneStart
<1>6. task[Stopper].pc = "stopWait" => \A p \in Procs : ~Recovers(p)
  BY <1>2, <1>3 DEF SafeInv, StopKnown
<1>. QED
  BY <1>1, <1>2, <1>3, <1>4, <1>5, <1>6

\* What a start does about the stop: nothing.
LEMMA StartLeavesStop ==
  ASSUME BaseInv, SafeInv, NEW i \in Starts, StartGoesOn(i)
  PROVE  StopKnown' /\ StoppedKnown'
<1>. USE Constants
<1>1. /\ stopped' = None /\ task' = task /\ task[Stopper].pc \notin {"request", "asked", "cleanup"}
      /\ task[Stopper].pc = "stopWait" => \A p \in Procs : ~Recovers(p)
  BY StartAlone
<1>2. \A p \in Procs : Recovers(p)' => Recovers(p)
  BY <1>1 DEF Recovers
<1>. QED
  BY <1>1, <1>2 DEF SafeInv, StopKnown, StoppedKnown

\* The start goes on, and has reached pc.
LEMMA StartMoves ==
  ASSUME BaseInv, NEW i \in Starts,
         NEW pc \in {"reconnect", "reconnected", "launch", "handshake", "configure", "poll", "record",
                     "done", "failed"}, Goes(i, pc)
  PROVE  run'[i].pc = pc /\ \A j \in Starts \ {i} : run'[j] = run[j]
  BY DEF Goes, BaseInv, SupervisorTypeOK, StartTypeOK, Run

\* A start that is over leaves no other under way.
LEMMA StartOver ==
  ASSUME BaseInv, SafeInv, NEW i \in Starts, StartGoesOn(i), Goes(i, "done") \/ Goes(i, "failed"), starting' = None,
         saved' = saved, Goes(i, "done") => started', Goes(i, "failed") => run[i].pc # "record"
  PROVE  OneStart' /\ StartKnown'
<1>. USE Constants
<1>1. PICK pc \in {"done", "failed"} : Goes(i, pc)
  OBVIOUS
<1>2. run'[i].pc = pc /\ \A j \in Starts \ {i} : run'[j] = run[j]
  BY <1>1, StartMoves
<1>3. \A j \in Starts : run'[j].pc \in {"none", "done", "failed"}
  BY <1>1, <1>2, StartAlone
<1>4. OneStart'
  BY <1>1, <1>3, StartAlone DEF OneStart, UnderWay
<1>5. StartKnown'
  BY <1>3 DEF StartKnown
<1>. QED
  BY <1>4, <1>5

\* A start that goes on stays the only one.
LEMMA StartOn ==
  ASSUME BaseInv, SafeInv, NEW i \in Starts, StartGoesOn(i),
         NEW pc \in {"reconnect", "reconnected", "launch", "handshake", "configure", "poll", "record"},
         Goes(i, pc), starting' = starting, started' = started, saved' = saved \/ (saved' = i /\ pc = "record"),
         run[i].pc # "record"
  PROVE  OneStart' /\ i \in UnderWay' /\ ~started' /\ run'[i].pc = pc
         /\ \A j \in Starts \ {i} : run'[j].pc \in {"none", "done", "failed"}
<1>. USE Constants
<1>1. run'[i].pc = pc /\ \A j \in Starts \ {i} : run'[j] = run[j]
  BY StartMoves
<1>2. \A j \in Starts \ {i} : run'[j].pc \in {"none", "done", "failed"}
  BY <1>1, StartAlone
<1>3. \A j \in Starts : (j \in UnderWay)' <=> j = i
  BY <1>1, <1>2 DEF UnderWay
<1>4. OneStart'
  BY <1>1, <1>3, StartAlone DEF OneStart
<1>5. i \in UnderWay'
  BY <1>1 DEF UnderWay
<1>. QED
  BY <1>1, <1>2, <1>4, <1>5, StartAlone

\* A start that has not launched a server, and launches none.
LEMMA StartOld ==
  ASSUME BaseInv, SafeInv, NEW i \in Starts, StartGoesOn(i), saved' = saved, lease' \in {lease, None, Old},
         run[i].pc \in {"load", "reconnect", "reconnected"}
  PROVE  OldKnown'
<1>1. \A j \in Starts : run[j].pc \notin {"handshake", "configure", "poll", "record"}
  BY StartAlone
<1>. QED
  BY <1>1 DEF SafeInv, OldKnown

\* The steps of a start that look for its server.
LEMMA LoadKeepsSafe ==
  ASSUME BaseInv, SafeInv, NEW i \in Starts, Load(i)
  PROVE  SafeInv'
<1>. USE Constants
<1>1. StartGoesOn(i) /\ run[i].pc = "load"
  BY DEF StartGoesOn, Load
<1>2. /\ UNCHANGED <<alive, impostor, told>> /\ UNCHANGED <<saved, disposed, lease, leases, task>>
      /\ UNCHANGED <<started, starting>>
  BY DEF Load, worldVars, leaseVars
<1>3. PICK pc \in {"reconnect", "launch"} : Goes(i, pc) /\ (pc = "reconnect" => api' = saved /\ saved # None)
  BY DEF Load
<1>4. /\ OneStart' /\ i \in UnderWay' /\ ~started' /\ run'[i].pc = pc
      /\ \A j \in Starts \ {i} : run'[j].pc \in {"none", "done", "failed"}
  BY <1>1, <1>2, <1>3, StartOn
<1>5. saved \in {None, Old}
  BY <1>1, StartAlone DEF BaseInv, SupervisorTypeOK, ServerTypeOK, Servers
<1>6. StartKnown'
  BY <1>2, <1>3, <1>4, <1>5 DEF StartKnown
<1>7. OnlineKnown'
  BY <1>2, <1>4 DEF SafeInv, OnlineKnown
<1>8. NoneLeft'
  BY <1>1, <1>2, <1>4, StartAlone DEF SafeInv, NoneLeft, UnderWay
<1>9. StopKnown' /\ StoppedKnown'
  BY <1>1, StartLeavesStop
<1>10. OldKnown'
  BY <1>1, <1>2, StartOld
<1>. QED
  BY <1>4, <1>6, <1>7, <1>8, <1>9, <1>10 DEF SafeInv

LEMMA ReconnectsKeepsSafe ==
  ASSUME BaseInv, SafeInv, NEW i \in Starts, Reconnects(i)
  PROVE  SafeInv'
<1>. USE Constants
<1>1. StartGoesOn(i) /\ run[i].pc = "reconnect"
  BY DEF StartGoesOn, Reconnects
<1>2. /\ UNCHANGED <<alive, impostor, told>> /\ UNCHANGED <<saved, api, disposed, task>>
      /\ UNCHANGED <<started, starting>>
  BY DEF Reconnects, worldVars
<1>3. api = Old /\ saved = Old
  BY <1>1 DEF SafeInv, StartKnown
<1>4. PICK pc \in {"reconnected", "launch"} :
        /\ Goes(i, pc)
        /\ pc = "reconnected" => ~IsStale(api)
        /\ UNCHANGED <<lease, leases>> \/ (lease' = api /\ leases' = (leases \ {lease}) \cup {api})
  BY DEF Reconnects
<1>5. /\ OneStart' /\ i \in UnderWay' /\ ~started' /\ run'[i].pc = pc
      /\ \A j \in Starts \ {i} : run'[j].pc \in {"none", "done", "failed"}
  BY <1>1, <1>2, <1>4, StartOn
<1>6. StartKnown'
  BY <1>2, <1>3, <1>4, <1>5 DEF StartKnown, IsStale
<1>7. OnlineKnown'
  BY <1>2, <1>5 DEF SafeInv, OnlineKnown
<1>8. NoneLeft'
  <2>1. \A j \in Starts \ {i} : j \notin UnderWay
    BY <1>1, StartAlone DEF UnderWay
  <2>2. \A j \in Starts : j \in leases' => j \in leases
    BY <1>3, <1>4
  <2>3. ~started
    BY <1>1, StartAlone
  <2>. QED
    BY <1>2, <1>5, <2>1, <2>2, <2>3 DEF SafeInv, NoneLeft
<1>9. StopKnown' /\ StoppedKnown'
  BY <1>1, StartLeavesStop
<1>10. OldKnown'
  BY <1>1, <1>2, <1>3, <1>4, StartOld
<1>. QED
  BY <1>5, <1>6, <1>7, <1>8, <1>9, <1>10 DEF SafeInv

LEMMA ReconnectedKeepsSafe ==
  ASSUME BaseInv, SafeInv, NEW i \in Starts, Reconnected(i)
  PROVE  SafeInv'
<1>. USE Constants
<1>1. StartGoesOn(i) /\ run[i].pc = "reconnected"
  BY DEF StartGoesOn, Reconnected
<1>2. /\ UNCHANGED <<alive, impostor, told>> /\ UNCHANGED <<saved, api, disposed, lease, leases, task>>
      /\ Goes(i, "done") /\ started' /\ starting' = None
  BY DEF Reconnected, Opens, worldVars, leaseVars
<1>3. OneStart' /\ StartKnown'
  BY <1>1, <1>2, StartOver DEF Goes
<1>4. api = Old /\ saved = Old /\ ~IsStale(Old) /\ lease \in {None, Old}
  <2>1. \A j \in Starts : run[j].pc \notin {"handshake", "configure", "poll", "record"}
    BY <1>1, StartAlone
  <2>2. api = Old /\ saved = Old /\ ~IsStale(Old)
    BY <1>1 DEF SafeInv, StartKnown
  <2>. QED
    BY <2>1, <2>2 DEF SafeInv, OldKnown
<1>5. OnlineKnown'
  BY <1>2, <1>4 DEF SafeInv, OnlineKnown, IsStale
<1>6. NoneLeft'
  <2>1. \A j \in Starts : j \notin leases'
    BY <1>2, <1>4 DEF BaseInv, OneLease
  <2>. QED
    BY <2>1 DEF NoneLeft
<1>7. StopKnown' /\ StoppedKnown'
  BY <1>1, StartLeavesStop
<1>8. OldKnown'
  BY <1>1, <1>2, StartOld
<1>. QED
  BY <1>3, <1>5, <1>6, <1>7, <1>8 DEF SafeInv

\* The steps of a start that launches a server.
LEMMA LaunchKeepsSafe ==
  ASSUME BaseInv, SafeInv, NEW i \in Starts, Launch(i)
  PROVE  SafeInv'
<1>. USE Constants
<1>1. StartGoesOn(i) /\ run[i].pc = "launch"
  BY DEF StartGoesOn, Launch
<1>2. /\ UNCHANGED <<impostor, told>> /\ UNCHANGED <<saved, api, disposed, task>>
      /\ UNCHANGED <<started, starting>> /\ Goes(i, "handshake")
      /\ alive' = alive \cup {i} /\ leases' = (leases \ {lease}) \cup {i} /\ lease' = i
  BY DEF Launch
<1>3. /\ OneStart' /\ i \in UnderWay' /\ ~started' /\ run'[i].pc = "handshake"
      /\ \A j \in Starts \ {i} : run'[j].pc \in {"none", "done", "failed"}
  BY <1>1, <1>2, StartOn
<1>4. i \notin told
  BY <1>1 DEF BaseInv, ServersKnown, Known, Launched
<1>5. StartKnown'
  BY <1>2, <1>3, <1>4 DEF StartKnown
<1>6. OnlineKnown'
  BY <1>2, <1>3 DEF SafeInv, OnlineKnown
<1>7. NoneLeft'
  <2>1. \A j \in Starts \ {i} : j \notin leases'
    BY <1>2 DEF BaseInv, OneLease
  <2>. QED
    BY <1>3, <2>1 DEF NoneLeft
<1>8. StopKnown' /\ StoppedKnown'
  BY <1>1, StartLeavesStop
<1>9. OldKnown'
  BY <1>3 DEF OldKnown
<1>. QED
  BY <1>3, <1>5, <1>6, <1>7, <1>8, <1>9 DEF SafeInv

LEMMA FailsKeepsSafe ==
  ASSUME BaseInv, SafeInv, NEW i \in Starts, LaunchFails(i) \/ HandshakeFails(i) \/ ServerStartFails(i)
  PROVE  SafeInv'
<1>. USE Constants
<1>1. StartGoesOn(i) /\ run[i].pc # "record"
  BY DEF StartGoesOn, LaunchFails, HandshakeFails, ServerStartFails
<1>2. /\ UNCHANGED <<alive, impostor>> /\ UNCHANGED <<saved, api, disposed, task>>
      /\ Goes(i, "failed") /\ starting' = None /\ started' = started
      /\ told' \subseteq told \cup {i, launcher}
      /\ leases' \subseteq leases \ {lease} /\ lease' = None
  BY DEF LaunchFails, HandshakeFails, ServerStartFails, Fails, DropLease, StopLauncher
<1>3. ~started'
  BY <1>1, <1>2, StartAlone
<1>4. run'[i].pc = "failed"
  BY <1>2, StartMoves
<1>5. ~Goes(i, "done")
  <2>1. ASSUME Goes(i, "done") PROVE FALSE
    BY <1>4, <2>1, StartMoves
  <2>. QED
    BY <2>1
<1>6. OneStart' /\ StartKnown'
  BY <1>1, <1>2, <1>5, StartOver
<1>7. OnlineKnown'
  <2>1. Old \in told' => Old \in told
    BY <1>2 DEF BaseInv, ServersKnown
  <2>. QED
    BY <1>2, <1>3, <2>1 DEF SafeInv, OnlineKnown
<1>8. NoneLeft'
  <2>1. leases' = {}
    BY <1>2 DEF BaseInv, OneLease
  <2>. QED
    BY <2>1 DEF NoneLeft
<1>9. StopKnown' /\ StoppedKnown'
  BY <1>1, StartLeavesStop
<1>10. OldKnown'
  BY <1>2 DEF OldKnown
<1>. QED
  BY <1>6, <1>7, <1>8, <1>9, <1>10 DEF SafeInv

LEMMA HandshakeKeepsSafe ==
  ASSUME BaseInv, SafeInv, NEW i \in Starts, Handshake(i) \/ Configured(i) \/ Polled(i)
  PROVE  SafeInv'
<1>. USE Constants
<1>1. StartGoesOn(i) /\ run[i].pc \in {"handshake", "configure", "poll"}
  BY DEF StartGoesOn, Handshake, Configured, Polled
<1>2. /\ UNCHANGED <<alive, impostor, told>> /\ UNCHANGED <<disposed, lease, leases, task>>
      /\ UNCHANGED <<started, starting>>
  BY DEF Handshake, Configured, Polled, worldVars, leaseVars
<1>3. PICK pc \in {"configure", "poll", "record"} :
        /\ Goes(i, pc)
        /\ IF pc = "record" THEN saved' = i ELSE saved' = saved
        /\ pc = "configure" => ~disposed
        /\ pc \in {"poll", "record"} => api' = i /\ run[i].pc \in {"configure", "poll"}
  BY DEF Handshake, Configured, Polled
<1>4. /\ OneStart' /\ i \in UnderWay' /\ ~started' /\ run'[i].pc = pc
      /\ \A j \in Starts \ {i} : run'[j].pc \in {"none", "done", "failed"}
  <2>1. run[i].pc # "record" /\ starting' = starting /\ started' = started
    BY <1>1, <1>2
  <2>. QED
    BY <1>1, <1>3, <2>1, StartOn
<1>5. /\ ~disposed => lease = i /\ i \notin told
      /\ run[i].pc \in {"configure", "poll"} /\ disposed => lease = None
  BY <1>1 DEF SafeInv, StartKnown
<1>6. StartKnown'
  <2>1. /\ ~disposed' => lease' = i /\ i \notin told'
        /\ disposed' => lease' = None
        /\ run'[i].pc \in {"poll", "record"} => api' = i
        /\ run'[i].pc = "record" => saved' = i
    BY <1>2, <1>3, <1>4, <1>5
  <2>2. run'[i].pc \notin {"reconnect", "reconnected"}
    BY <1>4
  <2>. QED
    BY <1>4, <2>1, <2>2 DEF StartKnown
<1>7. OnlineKnown'
  <2>1. saved' = Old => saved = Old
    BY <1>3
  <2>. QED
    BY <1>2, <1>4, <2>1 DEF SafeInv, OnlineKnown
<1>8. NoneLeft'
  <2>1. \A j \in Starts \ {i} : j \notin UnderWay
    BY <1>1, StartAlone DEF UnderWay
  <2>2. ~started
    BY <1>1, StartAlone
  <2>. QED
    BY <1>2, <1>4, <2>1, <2>2 DEF SafeInv, NoneLeft
<1>9. StopKnown' /\ StoppedKnown'
  BY <1>1, StartLeavesStop
<1>10. OldKnown'
  BY <1>4 DEF OldKnown
<1>. QED
  BY <1>4, <1>6, <1>7, <1>8, <1>9, <1>10 DEF SafeInv

LEMMA RecordedKeepsSafe ==
  ASSUME BaseInv, SafeInv, NEW i \in Starts, Recorded(i)
  PROVE  SafeInv'
<1>. USE Constants
<1>1. StartGoesOn(i) /\ run[i].pc = "record"
  BY DEF StartGoesOn, Recorded
<1>2. /\ UNCHANGED <<alive, impostor, told>> /\ UNCHANGED <<saved, api, disposed, lease, leases, task>>
      /\ Goes(i, "done") /\ started' /\ starting' = None
  BY DEF Recorded, Opens, worldVars
<1>3. run'[i].pc = "done"
  BY <1>2, StartMoves
<1>4. ~Goes(i, "failed")
  <2>1. ASSUME Goes(i, "failed") PROVE FALSE
    BY <1>3, <2>1, StartMoves
  <2>. QED
    BY <2>1
<1>5. OneStart' /\ StartKnown'
  BY <1>1, <1>2, <1>4, StartOver
<1>6. /\ api = i /\ saved = i
      /\ ~disposed => lease = i /\ i \notin told
      /\ disposed => lease = None
  BY <1>1 DEF SafeInv, StartKnown
<1>7. OnlineKnown'
  <2>1. api # None /\ ~IsStale(api) /\ (~IsStale(api))'
    BY <1>2, <1>6 DEF IsStale
  <2>. QED
    BY <1>2, <1>6, <2>1 DEF SafeInv, OnlineKnown
<1>8. NoneLeft'
  <2>1. \A j \in Starts : j \in leases' => j = lease
    BY <1>2 DEF BaseInv, OneLease
  <2>2. CASE disposed
    BY <1>6, <2>1, <2>2 DEF NoneLeft
  <2>3. CASE ~disposed
    BY <1>2, <1>6, <2>1, <2>3 DEF NoneLeft
  <2>. QED
    BY <2>2, <2>3
<1>9. StopKnown' /\ StoppedKnown'
  BY <1>1, StartLeavesStop
<1>10. OldKnown'
  <2>1. saved' # Old
    BY <1>2, <1>6
  <2>. QED
    BY <2>1 DEF OldKnown
<1>. QED
  BY <1>5, <1>7, <1>8, <1>9, <1>10 DEF SafeInv

\* The whole invariant: once two recoveries have overlapped, only the base is left.
SupInv == BaseInv /\ (~overlapped => SafeInv)

LEMMA SafeStep ==
  ASSUME SupInv, [SupervisorNext]_supervisorVars
  PROVE  SupInv'
<1>1. BaseInv /\ BaseInv'
  BY BaseStep DEF SupInv
<1>2. ~overlapped' => ~overlapped
  <2>1. CASE \E s \in Servers : ServerExits(s)
    BY <2>1 DEF ServerExits
  <2>2. ASSUME NEW p \in Procs, CreateSession(p) \/ Watch(p) \/ ProcGoesOn(p) PROVE ~overlapped' => ~overlapped
    BY <2>2 DEF CreateSession, Watch, ProcGoesOn, StopAwaited, Answered, CreateReturns, Verified, Removed
  <2>3. ASSUME NEW i \in Starts, StartGoesOn(i) PROVE ~overlapped' => ~overlapped
    BY <2>3, StartFacts, <1>1 DEF BaseInv
  <2>4. CASE (\E again \in BOOLEAN : Stop(again)) \/ StopGoesOn \/ Dispose \/ UNCHANGED supervisorVars
    BY <2>4 DEF Stop, StopGoesOn, StopWaited, TakesRequest, ShutsDown, StopFails, StopEnds, Dispose, supervisorVars
  <2>. QED
    BY <2>1, <2>2, <2>3, <2>4 DEF SupervisorNext
<1>3. SUFFICES ASSUME ~overlapped', SafeInv PROVE SafeInv'
  BY <1>1, <1>2 DEF SupInv
<1>4. ASSUME NEW p \in Procs, CreateSession(p) \/ Watch(p) \/ ProcGoesOn(p) PROVE SafeInv'
  BY <1>1, <1>3, <1>4, MoveKeepsSafe, AskKeepsSafe, RemovedKeepsSafe DEF ProcGoesOn
<1>5. ASSUME NEW i \in Starts, StartGoesOn(i) PROVE SafeInv'
  BY <1>1, <1>3, <1>5, LoadKeepsSafe, ReconnectsKeepsSafe, ReconnectedKeepsSafe, LaunchKeepsSafe, FailsKeepsSafe,
     HandshakeKeepsSafe, RecordedKeepsSafe DEF StartGoesOn
<1>6. CASE (\E again \in BOOLEAN : Stop(again)) \/ StopGoesOn
  BY <1>1, <1>3, <1>6, StopKeepsSafe, StopMovesKeepSafe DEF StopGoesOn
<1>7. CASE UNCHANGED supervisorVars
  BY <1>3, <1>7 DEF SafeInv, OneStart, StartKnown, OnlineKnown, OldKnown, StopKnown, StoppedKnown, NoneLeft, UnderWay, IsStale,
     Recovers, supervisorVars, worldVars, startVars, leaseVars
<1>. QED
  BY <1>1, <1>3, <1>4, <1>5, <1>6, <1>7, ExitsKeepsSafe, DisposeKeepsSafe DEF SupervisorNext

LEMMA SafeInit == SupervisorInit => SupInv
<1>. SUFFICES ASSUME SupervisorInit PROVE SupInv
  OBVIOUS
<1>. USE Constants
<1>1. BaseInv
  BY BaseInit
<1>2. \A i \in Starts : run[i].pc = "none"
  BY DEF SupervisorInit
<1>3. \A p \in Procs : task[p].pc = "idle"
  BY DEF SupervisorInit
<1>4. OneStart
  BY <1>2, <1>3 DEF SupervisorInit, OneStart, UnderWay
<1>5. StartKnown /\ OnlineKnown
  BY <1>2 DEF SupervisorInit, StartKnown, OnlineKnown
<1>6. StopKnown /\ StoppedKnown
  BY <1>3 DEF SupervisorInit, StopKnown, StoppedKnown, Recovers
<1>7. NoneLeft
  BY DEF SupervisorInit, NoneLeft
<1>8. OldKnown
  BY DEF SupervisorInit, OldKnown
<1>. QED
  BY <1>1, <1>4, <1>5, <1>6, <1>7, <1>8 DEF SupInv, SafeInv

LEMMA SupInvariant == SupervisorSpec => []SupInv
<1>1. SupInv /\ [SupervisorNext]_supervisorVars => SupInv'
  BY SafeStep
<1>. QED
  BY <1>1, SafeInit, PTL DEF SupervisorSpec

\* For any calls, watchers, starts and crashes: the server that sessions go to is the
\* one that was saved or launched, the lease of a launched one and no other lease is
\* held, and no other server that was launched is left running, whatever fails, and
\* when the window closes
\* (KallichoreAdapterApi.ts:439-470, 549-913, 1045-1120, 1827-1849).
THEOREM Owned == SupervisorSpec => []ServersAreOwned
<1>1. SupInv => ServersAreOwned
  <2>. SUFFICES ASSUME SupInv PROVE ServersAreOwned
    OBVIOUS
  <2>1. OnlineIsOurs
    <3>. SUFFICES ASSUME started, ~disposed, ~overlapped
                  PROVE  /\ api # None /\ ~IsStale(api)
                         /\ api = Old \/ api \in leases
                         /\ leases \subseteq {api}
                         /\ api \in told => task[Stopper].pc \in {"asked", "failed"}
      BY DEF OnlineIsOurs
    <3>1. OnlineKnown /\ OneLease
      BY DEF SupInv, SafeInv, BaseInv
    <3>. QED
      BY <3>1 DEF OnlineKnown, OneLease
  <2>2. NothingLeftRunning
    BY DEF SupInv, SafeInv, NoneLeft, NothingLeftRunning
  <2>. QED
    BY <2>1, <2>2 DEF ServersAreOwned
<1>. QED
  BY <1>1, SupInvariant, PTL

\* A stop on purpose is final, for any calls, watchers, starts and crashes: nothing that
\* noticed that the server has gone starts it again
\* (KallichoreAdapterApi.ts:1045-1120, 1827-1849).
THEOREM StopIsFinal == SupervisorSpec => []NoRecoveryAfterStop
<1>1. SupInv => NoRecoveryAfterStop
  <2>. SUFFICES ASSUME SupInv, stopped # None, ~overlapped
                PROVE  /\ \A p \in Procs : task[p].pc = "remove" => task[p].server # stopped
                       /\ UnderWay = {}
    BY DEF NoRecoveryAfterStop
  <2>1. starting = None /\ \A p \in Procs : task[p].pc = "remove" => task[p].server # stopped
    BY DEF SupInv, SafeInv, StoppedKnown
  <2>2. UnderWay = {}
    BY <2>1, Constants DEF SupInv, SafeInv, OneStart, UnderWay
  <2>. QED
    BY <2>1, <2>2
<1>. QED
  BY <1>1, SupInvariant, PTL
=============================================================================
