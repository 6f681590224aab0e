---------------------------- MODULE RegistryProofs ----------------------------
(***************************************************************************)
(* Proofs about SessionStarts, for any sessions, calls, runtimes and       *)
(* notebooks: the bookkeeping of starts is safe.  Then, about              *)
(* LanguageRegistry, for any revisions, capabilities and bounds: results   *)
(* are kept by the registration they are for, and whoever waits for a      *)
(* capability will be told.                                                *)
(***************************************************************************)
EXTENDS SessionStarts, LanguageRegistry, TLAPS

\* What is known of a session that has been given out, and of one that has not.
SessionsKnown ==
  /\ \A s \in used : at[s] \in Keys
  /\ \A s \in Sessions \ used : state[s] = "uninitialized"

\* A call that has a key, and one that has a session.
CallsKnown ==
  \A c \in Calls :
    /\ calls[c].pc # "idle" => calls[c].key \in Keys
    /\ calls[c].pc \notin {"idle", "creating"} => calls[c].of \in used

\* A start that can be joined is awaiting the manager or a session: it is not
\* one that observes a late session, nor a restart that asks the user.
EntriesAwaited ==
  \A key \in Keys :
    Joinable(key) => calls[inflight[key]].pc \in {"creating", "starting", "waiting", "restarting"}

\* A start that waits for a session has not missed its being ready.
ReadyNotMissed ==
  \A c \in Calls :
    \/ calls[c].pc = "waiting"
    \/ calls[c].pc = "starting" /\ calls[c].ready = "pending"
    => state[calls[c].of] # "usable"

IInv ==
  /\ TypeOK
  /\ SessionsKnown /\ CallsKnown
  /\ MappedIsCurrent /\ EntriesAwaited /\ ReadyNotMissed
-----------------------------------------------------------------------------
LEMMA FinalizeKeeps ==
  ASSUME IInv, NEW c \in Calls, calls[c].pc \in {"starting", "waiting", "restarting"}, calls[c].of \in sessions,
         Finalize(c), KeepStray({}), UNCHANGED <<session, closing>>
  PROVE  IInv'
<1>1. SessionsType'
  BY DEF IInv, TypeOK, SessionsType, session
<1>2. MapsType'
  BY DEF IInv, TypeOK, SessionsType, MapsType, Clear, Map, Finalize
<1>3. CallsType'
  BY DEF IInv, TypeOK, CallsType, Call, Idle, End, Finalize
<1>4. HistoryType'
  BY DEF IInv, TypeOK, HistoryType, KeepStray, session
<1>5. SessionsKnown'
  BY DEF IInv, SessionsKnown, session
<1>6. CallsKnown'
  BY DEF IInv, CallsKnown, Call, Idle, End, session, Finalize
<1>7. MappedIsCurrent'
  BY DEF IInv, MappedIsCurrent, Place, Map, session, Finalize
<1>8. EntriesAwaited'
  BY DEF IInv, EntriesAwaited, Joinable, Clear, End, Finalize
<1>9. ReadyNotMissed'
  BY DEF IInv, ReadyNotMissed, Call, Idle, End, session, Finalize
<1>. QED
  BY <1>1, <1>2, <1>3, <1>4, <1>5, <1>6, <1>7, <1>8, <1>9 DEF IInv, TypeOK

LEMMA FailKeeps ==
  ASSUME IInv, NEW c \in Calls, calls[c].pc \in {"starting", "waiting"},
         Fail(c), stray' \subseteq reserved', UNCHANGED <<session, closing>>
  PROVE  IInv'
<1>1. SessionsType'
  BY DEF IInv, TypeOK, SessionsType, session
<1>2. MapsType'
  BY DEF IInv, TypeOK, MapsType, Clear, Fail
<1>3. CallsType'
  BY DEF IInv, TypeOK, CallsType, Call, Idle, End, Fail
<1>4. HistoryType'
  BY DEF IInv, TypeOK, HistoryType, session
<1>5. SessionsKnown'
  BY DEF IInv, SessionsKnown, session
<1>6. CallsKnown'
  BY DEF IInv, CallsKnown, Call, Idle, End, session, Fail
<1>7. MappedIsCurrent'
  BY DEF IInv, MappedIsCurrent, Place, session, Fail
<1>8. EntriesAwaited'
  BY DEF IInv, EntriesAwaited, Joinable, Clear, End, Fail
<1>9. ReadyNotMissed'
  BY DEF IInv, ReadyNotMissed, Call, Idle, End, session, Fail
<1>. QED
  BY <1>1, <1>2, <1>3, <1>4, <1>5, <1>6, <1>7, <1>8, <1>9 DEF IInv, TypeOK

LEMMA TimedOutKeeps ==
  ASSUME IInv, NEW c \in Calls, calls[c].pc \in {"starting", "waiting"}, state[calls[c].of] \notin {"usable", "exited"},
         TimedOut(c), stray' \subseteq reserved', UNCHANGED <<session, closing>>
  PROVE  IInv'
<1>1. SessionsType'
  BY DEF IInv, TypeOK, SessionsType, session
<1>2. MapsType'
  BY DEF IInv, TypeOK, MapsType, TimedOut
<1>3. CallsType'
  BY DistinctAssumption DEF IInv, TypeOK, MapsType, CallsType, MappedIsCurrent, ReadyNotMissed, Joinable, Call, Idle, End, Goto, Places, session, maps, TimedOut
<1>4. HistoryType'
  BY DEF IInv, TypeOK, HistoryType, session
<1>5. SessionsKnown'
  BY DEF IInv, SessionsKnown, session
<1>6. CallsKnown'
  <2>1. CASE calls[c].of \in sessions
    <3>1. calls' = [calls EXCEPT ![c] = [@ EXCEPT !.pc = "late"]]
      BY <2>1 DEF TimedOut, Goto
    <3>. QED
      BY <3>1 DEF IInv, CallsKnown, session
  <2>2. CASE calls[c].of \notin sessions
    <3>1. calls' = [calls EXCEPT ![c] = Idle]
      BY <2>2 DEF TimedOut, End
    <3>. QED
      BY <3>1 DEF IInv, Idle, Call, CallsKnown, session
  <2>. QED
    BY <2>1, <2>2
<1>7. MappedIsCurrent'
  BY DEF IInv, MappedIsCurrent, Place, session, TimedOut
<1>8. EntriesAwaited'
  BY DEF IInv, TypeOK, MapsType, CallsType, EntriesAwaited, Joinable, End, Goto, TimedOut
<1>9. ReadyNotMissed'
  <2>1. CASE calls[c].of \in sessions
    <3>1. calls' = [calls EXCEPT ![c] = [@ EXCEPT !.pc = "late"]]
      BY <2>1 DEF TimedOut, Goto
    <3>. QED
      BY <3>1 DEF IInv, ReadyNotMissed, session
  <2>2. CASE calls[c].of \notin sessions
    <3>1. calls' = [calls EXCEPT ![c] = Idle]
      BY <2>2 DEF TimedOut, End
    <3>. QED
      BY <3>1 DEF IInv, Idle, Call, ReadyNotMissed, session
  <2>. QED
    BY <2>1, <2>2
<1>. QED
  BY <1>1, <1>2, <1>3, <1>4, <1>5, <1>6, <1>7, <1>8, <1>9 DEF IInv, TypeOK

LEMMA StartNewKeeps ==
  ASSUME IInv, NEW c \in Calls, NEW key \in Keys, StartNew(c, key)
  PROVE  IInv'
<1>1. SessionsType'
  BY DEF IInv, TypeOK, SessionsType, session, StartNew
<1>2. MapsType'
  BY DEF IInv, TypeOK, MapsType, Slot, Keys, Places, StartNew
<1>3. CallsType'
  BY DEF IInv, TypeOK, CallsType, Call, StartNew
<1>4. HistoryType'
  BY DEF IInv, TypeOK, HistoryType, session, StartNew
<1>5. SessionsKnown'
  BY DEF IInv, SessionsKnown, session, StartNew
<1>6. CallsKnown'
  BY DEF IInv, CallsKnown, Call, session, StartNew
<1>7. MappedIsCurrent'
  BY DEF IInv, MappedIsCurrent, Place, session, StartNew
<1>8. EntriesAwaited'
  BY DEF IInv, TypeOK, CallsType, EntriesAwaited, Joinable, Call, StartNew
<1>9. ReadyNotMissed'
  BY DEF IInv, ReadyNotMissed, Call, session, StartNew
<1>. QED
  BY <1>1, <1>2, <1>3, <1>4, <1>5, <1>6, <1>7, <1>8, <1>9 DEF IInv, TypeOK

LEMMA SessionCreatedKeeps ==
  ASSUME IInv, NEW c \in Calls, NEW s \in Sessions, SessionCreated(c, s)
  PROVE  IInv'
<1>1. SessionsType'
  BY DEF IInv, TypeOK, SessionsType, CallsType, SessionCreated
<1>2. MapsType'
  BY DEF IInv, TypeOK, MapsType, maps, SessionCreated
<1>3. CallsType'
  BY DEF IInv, TypeOK, CallsType, Call, SessionCreated
<1>4. HistoryType'
  BY DEF IInv, TypeOK, HistoryType, maps, SessionCreated
<1>5. SessionsKnown'
  BY DEF IInv, TypeOK, SessionsType, SessionsKnown, CallsKnown, SessionCreated
<1>6. CallsKnown'
  BY DEF IInv, CallsKnown, Call, SessionCreated
<1>7. MappedIsCurrent'
  BY DEF IInv, TypeOK, SessionsType, MappedIsCurrent, Place, maps, SessionCreated
<1>8. EntriesAwaited'
  BY DEF IInv, EntriesAwaited, Joinable, Call, maps, SessionCreated
<1>9. ReadyNotMissed'
  BY DEF IInv, SessionsKnown, ReadyNotMissed, Call, SessionCreated
<1>. QED
  BY <1>1, <1>2, <1>3, <1>4, <1>5, <1>6, <1>7, <1>8, <1>9 DEF IInv, TypeOK

LEMMA CreateFailsKeeps ==
  ASSUME IInv, NEW c \in Calls, CreateFails(c)
  PROVE  IInv'
<1>1. SessionsType'
  BY DEF IInv, TypeOK, SessionsType, session, CreateFails
<1>2. MapsType'
  BY DEF IInv, TypeOK, MapsType, Clear, CreateFails
<1>3. CallsType'
  BY DEF IInv, TypeOK, CallsType, Call, Idle, End, CreateFails
<1>4. HistoryType'
  BY DEF IInv, TypeOK, HistoryType, KeepStray, session, CreateFails
<1>5. SessionsKnown'
  BY DEF IInv, SessionsKnown, session, CreateFails
<1>6. CallsKnown'
  BY DEF IInv, CallsKnown, Call, Idle, End, session, CreateFails
<1>7. MappedIsCurrent'
  BY DEF IInv, MappedIsCurrent, Place, session, CreateFails
<1>8. EntriesAwaited'
  BY DEF IInv, EntriesAwaited, Joinable, Clear, End, CreateFails
<1>9. ReadyNotMissed'
  BY DEF IInv, ReadyNotMissed, Call, Idle, End, session, CreateFails
<1>. QED
  BY <1>1, <1>2, <1>3, <1>4, <1>5, <1>6, <1>7, <1>8, <1>9 DEF IInv, TypeOK

LEMMA StartExistingKeeps ==
  ASSUME IInv, NEW c \in Calls, NEW s \in Sessions, StartExisting(c, s)
  PROVE  IInv'
<1>1. SessionsType'
  BY DEF IInv, TypeOK, SessionsType, session, StartExisting
<1>2. MapsType'
  BY DEF IInv, TypeOK, SessionsType, MapsType, SessionsKnown, Slot, Keys, Places, StartExisting
<1>3. CallsType'
  BY DEF IInv, TypeOK, SessionsType, CallsType, Call, StartExisting
<1>4. HistoryType'
  BY DEF IInv, TypeOK, HistoryType, session, StartExisting
<1>5. SessionsKnown'
  BY DEF IInv, SessionsKnown, session, StartExisting
<1>6. CallsKnown'
  BY DEF IInv, TypeOK, SessionsType, SessionsKnown, CallsKnown, Call, session, StartExisting
<1>7. MappedIsCurrent'
  BY DEF IInv, MappedIsCurrent, Place, session, StartExisting
<1>8. EntriesAwaited'
  BY DEF IInv, TypeOK, CallsType, EntriesAwaited, Joinable, Call, StartExisting
<1>9. ReadyNotMissed'
  BY DEF IInv, ReadyNotMissed, Call, session, StartExisting
<1>. QED
  BY <1>1, <1>2, <1>3, <1>4, <1>5, <1>6, <1>7, <1>8, <1>9 DEF IInv, TypeOK

LEMMA RestoreKeeps ==
  ASSUME IInv, NEW c \in Calls, NEW s \in Sessions, NEW key \in Keys, Restore(c, s, key)
  PROVE  IInv'
<1>1. SessionsType'
  BY DEF IInv, TypeOK, SessionsType, Restore
<1>2. MapsType'
  BY DEF IInv, TypeOK, MapsType, maps, Restore
<1>3. CallsType'
  BY DEF IInv, TypeOK, CallsType, Call, Restore
<1>4. HistoryType'
  BY DEF IInv, TypeOK, HistoryType, maps, Restore
<1>5. SessionsKnown'
  BY DEF IInv, TypeOK, SessionsType, SessionsKnown, Restore
<1>6. CallsKnown'
  BY DEF IInv, CallsKnown, Call, Restore
<1>7. MappedIsCurrent'
  BY DEF IInv, TypeOK, SessionsType, MappedIsCurrent, Place, maps, Restore
<1>8. EntriesAwaited'
  BY DEF IInv, EntriesAwaited, Joinable, Call, maps, Restore
<1>9. ReadyNotMissed'
  BY DEF IInv, SessionsKnown, ReadyNotMissed, Call, Restore
<1>. QED
  BY <1>1, <1>2, <1>3, <1>4, <1>5, <1>6, <1>7, <1>8, <1>9 DEF IInv, TypeOK

LEMMA RestartCallKeeps ==
  ASSUME IInv, NEW c \in Calls, NEW s \in Sessions, RestartCall(c, s)
  PROVE  IInv'
<1>1. SessionsType'
  BY DEF IInv, TypeOK, SessionsType, session, RestartCall
<1>2. MapsType'
  BY DEF IInv, TypeOK, MapsType, SessionsKnown, Place, Slot, Keys, Places, RestartCall, BeginRestart
<1>3. CallsType'
  BY DEF IInv, TypeOK, SessionsType, CallsType, Call, Places, RestartCall, BeginRestart
<1>4. HistoryType'
  BY DEF IInv, TypeOK, HistoryType, session, RestartCall, BeginRestart
<1>5. SessionsKnown'
  BY DEF IInv, SessionsKnown, session, RestartCall
<1>6. CallsKnown'
  BY DistinctAssumption DEF IInv, TypeOK, CallsType, SessionsKnown, CallsKnown, Call, Places, session, maps, RestartCall, BeginRestart
<1>7. MappedIsCurrent'
  BY DEF IInv, MappedIsCurrent, Place, session, RestartCall
<1>8. EntriesAwaited'
  <2>1. CASE BeginRestart(c, s, at[s])
    BY <2>1, DistinctAssumption DEF RestartCall, BeginRestart, IInv, TypeOK, SessionsType, MapsType, CallsType,
         EntriesAwaited, Joinable, Call, Idle
  <2>2. CASE calls' = [calls EXCEPT ![c] = Call("prompt", s, at[s], "pending")] /\ UNCHANGED <<reserved, inflight>>
    BY <2>2 DEF RestartCall, IInv, EntriesAwaited, Joinable, Call, Idle
  <2>. QED
    BY <2>1, <2>2 DEF RestartCall
<1>9. ReadyNotMissed'
  BY DistinctAssumption DEF IInv, TypeOK, SessionsType, CallsType, MappedIsCurrent, EntriesAwaited, ReadyNotMissed, Place, Slot, Call, Places, session, maps, RestartCall, BeginRestart
<1>. QED
  BY <1>1, <1>2, <1>3, <1>4, <1>5, <1>6, <1>7, <1>8, <1>9 DEF IInv, TypeOK

LEMMA RestartPromptedKeeps ==
  ASSUME IInv, NEW c \in Calls, RestartPrompted(c)
  PROVE  IInv'
<1>1. SessionsType'
  BY DEF IInv, TypeOK, SessionsType, session, RestartPrompted
<1>2. MapsType'
  BY DEF IInv, TypeOK, MapsType, SessionsKnown, CallsKnown, Slot, Keys, Places, RestartPrompted, BeginRestart
<1>3. CallsType'
  BY DEF IInv, TypeOK, CallsType, Call, RestartPrompted, BeginRestart
<1>4. HistoryType'
  BY DEF IInv, TypeOK, HistoryType, session, RestartPrompted, BeginRestart
<1>5. SessionsKnown'
  BY DEF IInv, SessionsKnown, session, RestartPrompted
<1>6. CallsKnown'
  BY DEF IInv, CallsKnown, Call, session, RestartPrompted, BeginRestart
<1>7. MappedIsCurrent'
  BY DEF IInv, MappedIsCurrent, Place, session, RestartPrompted
<1>8. EntriesAwaited'
  BY DEF IInv, TypeOK, CallsType, EntriesAwaited, Joinable, Call, RestartPrompted, BeginRestart
<1>9. ReadyNotMissed'
  BY DEF IInv, ReadyNotMissed, Call, session, RestartPrompted, BeginRestart
<1>. QED
  BY <1>1, <1>2, <1>3, <1>4, <1>5, <1>6, <1>7, <1>8, <1>9 DEF IInv, TypeOK

LEMMA RestartDeclinedKeeps ==
  ASSUME IInv, NEW c \in Calls, RestartDeclined(c)
  PROVE  IInv'
<1>1. SessionsType'
  BY DEF IInv, TypeOK, SessionsType, session, RestartDeclined
<1>2. MapsType'
  BY DEF IInv, TypeOK, MapsType, maps, RestartDeclined
<1>3. CallsType'
  BY DEF IInv, TypeOK, CallsType, Call, Idle, End, RestartDeclined
<1>4. HistoryType'
  BY DEF IInv, TypeOK, HistoryType, session, maps, RestartDeclined
<1>5. SessionsKnown'
  BY DEF IInv, SessionsKnown, session, RestartDeclined
<1>6. CallsKnown'
  BY DEF IInv, CallsKnown, Call, Idle, End, session, RestartDeclined
<1>7. MappedIsCurrent'
  BY DEF IInv, MappedIsCurrent, Place, session, maps, RestartDeclined
<1>8. EntriesAwaited'
  BY DEF IInv, EntriesAwaited, Joinable, End, maps, RestartDeclined
<1>9. ReadyNotMissed'
  BY DEF IInv, ReadyNotMissed, Call, Idle, End, session, RestartDeclined
<1>. QED
  BY <1>1, <1>2, <1>3, <1>4, <1>5, <1>6, <1>7, <1>8, <1>9 DEF IInv, TypeOK

LEMMA RestartFailsKeeps ==
  ASSUME IInv, NEW c \in Calls, RestartFails(c)
  PROVE  IInv'
<1>1. SessionsType'
  BY DEF IInv, TypeOK, SessionsType, session, RestartFails
<1>2. MapsType'
  BY DEF IInv, TypeOK, MapsType, Clear, RestartFails
<1>3. CallsType'
  BY DEF IInv, TypeOK, CallsType, Call, Idle, End, RestartFails
<1>4. HistoryType'
  BY DEF IInv, TypeOK, HistoryType, KeepStray, session, RestartFails
<1>5. SessionsKnown'
  BY DEF IInv, SessionsKnown, session, RestartFails
<1>6. CallsKnown'
  BY DEF IInv, CallsKnown, Call, Idle, End, session, RestartFails
<1>7. MappedIsCurrent'
  BY DEF IInv, MappedIsCurrent, Place, session, RestartFails
<1>8. EntriesAwaited'
  BY DEF IInv, EntriesAwaited, Joinable, Clear, End, RestartFails
<1>9. ReadyNotMissed'
  BY DEF IInv, ReadyNotMissed, Call, Idle, End, session, RestartFails
<1>. QED
  BY <1>1, <1>2, <1>3, <1>4, <1>5, <1>6, <1>7, <1>8, <1>9 DEF IInv, TypeOK

LEMMA BecomesWaitingKeeps ==
  ASSUME IInv, NEW s \in Sessions, BecomesWaiting(s)
  PROVE  IInv'
<1>1. SessionsType'
  BY DEF IInv, TypeOK, SessionsType, BecomesWaiting
<1>2. MapsType'
  BY DEF IInv, TypeOK, MapsType, maps, BecomesWaiting
<1>3. CallsType'
  BY DEF IInv, TypeOK, CallsType, BecomesWaiting
<1>4. HistoryType'
  BY DEF IInv, TypeOK, HistoryType, maps, BecomesWaiting
<1>5. SessionsKnown'
  BY DEF IInv, TypeOK, SessionsType, SessionsKnown, BecomesWaiting
<1>6. CallsKnown'
  BY DEF IInv, CallsKnown, BecomesWaiting
<1>7. MappedIsCurrent'
  BY DEF IInv, MappedIsCurrent, Place, maps, BecomesWaiting
<1>8. EntriesAwaited'
  BY DEF IInv, EntriesAwaited, Joinable, maps, BecomesWaiting
<1>9. ReadyNotMissed'
  BY DEF IInv, ReadyNotMissed, BecomesWaiting
<1>. QED
  BY <1>1, <1>2, <1>3, <1>4, <1>5, <1>6, <1>7, <1>8, <1>9 DEF IInv, TypeOK

LEMMA BecomesUsableKeeps ==
  ASSUME IInv, NEW s \in Sessions, BecomesUsable(s)
  PROVE  IInv'
<1>1. SessionsType'
  BY DEF IInv, TypeOK, SessionsType, BecomesUsable
<1>2. MapsType'
  <2>1. at[s] \in Keys
    BY DEF BecomesUsable, IInv, SessionsKnown
  <2>2. mapped' \in [Notebooks -> Sessions \cup {None}]
    BY <2>1 DEF BecomesUsable, IInv, TypeOK, MapsType, Map, maps
  <2>3. inflight' \in [Keys -> Calls \cup {None}]
    BY DEF BecomesUsable, IInv, TypeOK, MapsType, maps
  <2>4. reserved' \subseteq Runtimes \cup Notebooks
    BY DEF BecomesUsable, IInv, TypeOK, MapsType, maps
  <2>. QED
    BY <2>2, <2>3, <2>4 DEF MapsType
<1>3. CallsType'
  BY DEF IInv, TypeOK, CallsType, Call, Idle, BecomesUsable
<1>4. HistoryType'
  BY DEF IInv, TypeOK, HistoryType, KeepStray, BecomesUsable
<1>5. SessionsKnown'
  BY DEF IInv, SessionsKnown, BecomesUsable
<1>6. CallsKnown'
  BY DEF IInv, CallsKnown, Call, Idle, BecomesUsable
<1>7. MappedIsCurrent'
  BY DEF IInv, TypeOK, MapsType, MappedIsCurrent, Place, Map, maps, BecomesUsable
<1>8. EntriesAwaited'
  BY DEF IInv, TypeOK, MapsType, EntriesAwaited, Joinable, maps, BecomesUsable
<1>9. ReadyNotMissed'
  BY DEF IInv, ReadyNotMissed, Call, Idle, BecomesUsable
<1>. QED
  BY <1>1, <1>2, <1>3, <1>4, <1>5, <1>6, <1>7, <1>8, <1>9 DEF IInv, TypeOK

LEMMA ExitsKeeps ==
  ASSUME IInv, NEW s \in Sessions, Exits(s)
  PROVE  IInv'
<1>1. SessionsType'
  BY DEF IInv, TypeOK, SessionsType, Exits
<1>2. MapsType'
  BY DEF IInv, TypeOK, MapsType, Unmap, Exits
<1>3. CallsType'
  BY DEF IInv, TypeOK, CallsType, Call, Idle, EndAll, Exits
<1>4. HistoryType'
  BY DEF IInv, TypeOK, HistoryType, KeepStray, Exits
<1>5. SessionsKnown'
  BY DEF IInv, SessionsKnown, Exits
<1>6. CallsKnown'
  BY DEF IInv, CallsKnown, Call, Idle, EndAll, Exits
<1>7. MappedIsCurrent'
  BY DEF IInv, MappedIsCurrent, Place, Unmap, Exits
<1>8. EntriesAwaited'
  BY DEF IInv, TypeOK, MapsType, EntriesAwaited, Joinable, Late, EndAll, Exits
<1>9. ReadyNotMissed'
  BY DEF IInv, ReadyNotMissed, Call, Idle, EndAll, Exits
<1>. QED
  BY <1>1, <1>2, <1>3, <1>4, <1>5, <1>6, <1>7, <1>8, <1>9 DEF IInv, TypeOK

LEMMA RemoveSessionKeeps ==
  ASSUME IInv, NEW s \in used, closing' \subseteq closing, RemoveSession(s)
  PROVE  IInv'
<1>1. SessionsType'
  BY DEF IInv, TypeOK, SessionsType, RemoveSession
<1>2. MapsType'
  BY DEF IInv, TypeOK, MapsType, Unmap, RemoveSession
<1>3. CallsType'
  BY DEF IInv, TypeOK, CallsType, Call, Idle, EndAll, RemoveSession
<1>4. HistoryType'
  BY DEF IInv, TypeOK, HistoryType, KeepStray, RemoveSession
<1>5. SessionsKnown'
  BY DEF IInv, SessionsKnown, RemoveSession
<1>6. CallsKnown'
  BY DEF IInv, CallsKnown, Call, Idle, EndAll, RemoveSession
<1>7. MappedIsCurrent'
  BY DistinctAssumption DEF IInv, TypeOK, MapsType, MappedIsCurrent, Place, Unmap, session, maps, RemoveSession
<1>8. EntriesAwaited'
  BY DEF IInv, TypeOK, MapsType, EntriesAwaited, Joinable, Late, EndAll, RemoveSession
<1>9. ReadyNotMissed'
  BY DEF IInv, ReadyNotMissed, Call, Idle, EndAll, RemoveSession
<1>. QED
  BY <1>1, <1>2, <1>3, <1>4, <1>5, <1>6, <1>7, <1>8, <1>9 DEF IInv, TypeOK

LEMMA CloseNotebookKeeps ==
  ASSUME IInv, NEW u \in Notebooks, CloseNotebook(u)
  PROVE  IInv'
<1>1. SessionsType'
  BY DEF IInv, TypeOK, SessionsType, session, CloseNotebook
<1>2. MapsType'
  BY DEF IInv, TypeOK, MapsType, maps, CloseNotebook
<1>3. CallsType'
  BY DEF IInv, TypeOK, CallsType, CloseNotebook
<1>4. HistoryType'
  BY DEF IInv, TypeOK, SessionsType, HistoryType, MappedIsCurrent, session, maps, CloseNotebook
<1>5. SessionsKnown'
  BY DEF IInv, SessionsKnown, session, CloseNotebook
<1>6. CallsKnown'
  BY DEF IInv, CallsKnown, session, CloseNotebook
<1>7. MappedIsCurrent'
  BY DEF IInv, MappedIsCurrent, Place, session, maps, CloseNotebook
<1>8. EntriesAwaited'
  BY DEF IInv, EntriesAwaited, Joinable, maps, CloseNotebook
<1>9. ReadyNotMissed'
  BY DEF IInv, ReadyNotMissed, session, CloseNotebook
<1>. QED
  BY <1>1, <1>2, <1>3, <1>4, <1>5, <1>6, <1>7, <1>8, <1>9 DEF IInv, TypeOK

LEMMA CloseFailsKeeps ==
  ASSUME IInv, NEW u \in Notebooks, NEW s \in Sessions, CloseFails(u, s)
  PROVE  IInv'
<1>1. SessionsType'
  BY DEF IInv, TypeOK, SessionsType, session, CloseFails
<1>2. MapsType'
  BY DEF IInv, TypeOK, MapsType, maps, CloseFails
<1>3. CallsType'
  BY DEF IInv, TypeOK, CallsType, CloseFails
<1>4. HistoryType'
  BY DEF IInv, TypeOK, HistoryType, session, maps, CloseFails
<1>5. SessionsKnown'
  BY DEF IInv, SessionsKnown, session, CloseFails
<1>6. CallsKnown'
  BY DEF IInv, CallsKnown, session, CloseFails
<1>7. MappedIsCurrent'
  BY DEF IInv, MappedIsCurrent, Place, session, maps, CloseFails
<1>8. EntriesAwaited'
  BY DEF IInv, EntriesAwaited, Joinable, maps, CloseFails
<1>9. ReadyNotMissed'
  BY DEF IInv, ReadyNotMissed, session, CloseFails
<1>. QED
  BY <1>1, <1>2, <1>3, <1>4, <1>5, <1>6, <1>7, <1>8, <1>9 DEF IInv, TypeOK

LEMMA RenameKeeps ==
  ASSUME IInv, NEW u \in Notebooks, NEW v \in Notebooks, Rename(u, v)
  PROVE  IInv'
<1>1. SessionsType'
  BY DEF IInv, TypeOK, SessionsType, SessionsKnown, MappedIsCurrent, Keys, Places, Rename
<1>2. MapsType'
  BY DEF IInv, TypeOK, MapsType, Rename
<1>3. CallsType'
  BY DEF IInv, TypeOK, CallsType, Rename
<1>4. HistoryType'
  BY DEF IInv, TypeOK, HistoryType, Rename
<1>5. SessionsKnown'
  BY DEF IInv, SessionsKnown, Keys, Places, Rename
<1>6. CallsKnown'
  BY DEF IInv, CallsKnown, Rename
<1>7. MappedIsCurrent'
  BY DEF IInv, TypeOK, SessionsType, MapsType, MappedIsCurrent, Place, Rename
<1>8. EntriesAwaited'
  BY DEF IInv, EntriesAwaited, Joinable, Rename
<1>9. ReadyNotMissed'
  BY DEF IInv, ReadyNotMissed, Rename
<1>. QED
  BY <1>1, <1>2, <1>3, <1>4, <1>5, <1>6, <1>7, <1>8, <1>9 DEF IInv, TypeOK

LEMMA StartResolvesKeeps ==
  ASSUME IInv, NEW c \in Calls, StartResolves(c)
  PROVE  IInv'
<1>1. CASE calls[c].ready = "ready"
  BY <1>1, FinalizeKeeps DEF StartResolves
<1>2. CASE calls[c].ready = "timedOut"
  <2>1. TimedOut(c) /\ KeepStray({}) /\ UNCHANGED <<session, closing>>
    BY <1>2 DEF StartResolves
  <2>2. CASE state[calls[c].of] = "usable"
    BY <2>1, <2>2, FinalizeKeeps DEF StartResolves, TimedOut
  <2>3. CASE state[calls[c].of] = "waiting"
    BY <2>1, <2>3, TimedOutKeeps DEF StartResolves, KeepStray
  <2>. QED
    BY <2>2, <2>3 DEF StartResolves
<1>3. CASE calls[c].ready = "pending"
  <2>1. /\ calls' = [calls EXCEPT ![c] = [@ EXCEPT !.pc = "waiting"]]
        /\ UNCHANGED maps /\ KeepStray({}) /\ UNCHANGED <<session, closing>>
        /\ calls[c].pc = "starting"
    BY <1>3 DEF StartResolves, Goto
  <2>2. SessionsType' /\ MapsType' /\ CallsType' /\ HistoryType'
    BY <2>1 DEF IInv, TypeOK, SessionsType, MapsType, CallsType, HistoryType, KeepStray, maps, session
  <2>3. SessionsKnown' /\ MappedIsCurrent'
    BY <2>1 DEF IInv, SessionsKnown, MappedIsCurrent, Place, maps, session
  <2>4. CallsKnown' /\ EntriesAwaited' /\ ReadyNotMissed'
    BY <1>3, <2>1 DEF IInv, TypeOK, CallsType, MapsType, CallsKnown, EntriesAwaited, ReadyNotMissed, Joinable,
         maps, session
  <2>. QED
    BY <2>2, <2>3, <2>4 DEF IInv, TypeOK
<1>. QED
  BY <1>1, <1>2, <1>3 DEF IInv, TypeOK, CallsType

LEMMA ReadyTimeoutKeeps ==
  ASSUME IInv, NEW c \in Calls, ReadyTimeout(c)
  PROVE  IInv'
<1>1. CASE calls[c].pc = "waiting"
  <2>1. TimedOut(c) /\ UNCHANGED <<session, closing>> /\ stray' \subseteq reserved'
    BY <1>1 DEF ReadyTimeout, KeepStray
  <2>2. state[calls[c].of] # "usable"
    BY <1>1 DEF IInv, ReadyNotMissed
  <2>3. CASE state[calls[c].of] = "exited"
    BY <1>1, <2>1, <2>3, FailKeeps DEF TimedOut
  <2>4. CASE state[calls[c].of] # "exited"
    BY <1>1, <2>1, <2>2, <2>4, TimedOutKeeps
  <2>. QED
    BY <2>3, <2>4
<1>2. CASE calls[c].pc # "waiting"
  <2>1. /\ calls' = [calls EXCEPT ![c] = [@ EXCEPT !.ready = "timedOut"]]
        /\ UNCHANGED <<maps, stray, session, closing>>
    BY <1>2 DEF ReadyTimeout
  <2>2. SessionsType' /\ MapsType' /\ CallsType' /\ HistoryType'
    BY <2>1 DEF IInv, TypeOK, SessionsType, MapsType, CallsType, HistoryType, maps, session
  <2>3. SessionsKnown' /\ MappedIsCurrent'
    BY <2>1 DEF IInv, SessionsKnown, MappedIsCurrent, Place, maps, session
  <2>4. CallsKnown' /\ EntriesAwaited' /\ ReadyNotMissed'
    BY <2>1 DEF IInv, TypeOK, CallsType, MapsType, CallsKnown, EntriesAwaited, ReadyNotMissed, Joinable,
         maps, session
  <2>. QED
    BY <2>2, <2>3, <2>4 DEF IInv, TypeOK
<1>. QED
  BY <1>1, <1>2

LEMMA InitInv == Init => IInv
  BY DEF Init, IInv, TypeOK, SessionsType, MapsType, CallsType, HistoryType, SessionsKnown, CallsKnown, MappedIsCurrent, EntriesAwaited, ReadyNotMissed, Joinable, Call, Idle

\* Every step keeps the invariant.
LEMMA StepKeeps == IInv /\ [Next]_vars => IInv'
<1>. SUFFICES ASSUME IInv, [Next]_vars PROVE IInv'
  OBVIOUS
<1>1. CASE Starting
  <2>1. PICK c \in Calls :
          \/ \E key \in Keys : StartNew(c, key) \/ \E s \in Sessions : Restore(c, s, key)
          \/ \E s \in Sessions : SessionCreated(c, s) \/ StartExisting(c, s) \/ RestartCall(c, s)
          \/ CreateFails(c) \/ RestartPrompted(c) \/ RestartDeclined(c)
          \/ StartResolves(c) \/ StartRejects(c) \/ ReadyTimeout(c)
          \/ RestartSucceeds(c) \/ RestartFails(c)
    BY <1>1 DEF Starting
  <2>2. CASE \E key \in Keys : StartNew(c, key) \/ \E s \in Sessions : Restore(c, s, key)
    BY <2>2, StartNewKeeps, RestoreKeeps
  <2>3. CASE \E s \in Sessions : SessionCreated(c, s) \/ StartExisting(c, s) \/ RestartCall(c, s)
    BY <2>3, SessionCreatedKeeps, StartExistingKeeps, RestartCallKeeps
  <2>4. CASE CreateFails(c) \/ RestartPrompted(c) \/ RestartDeclined(c) \/ RestartFails(c)
    BY <2>4, CreateFailsKeeps, RestartPromptedKeeps, RestartDeclinedKeeps, RestartFailsKeeps
  <2>5. CASE StartResolves(c) \/ ReadyTimeout(c)
    BY <2>5, StartResolvesKeeps, ReadyTimeoutKeeps
  <2>6. CASE StartRejects(c)
    BY <2>6, FailKeeps DEF StartRejects, KeepStray
  <2>7. CASE RestartSucceeds(c)
    BY <2>7, FinalizeKeeps DEF RestartSucceeds
  <2>. QED
    BY <2>1, <2>2, <2>3, <2>4, <2>5, <2>6, <2>7
<1>2. CASE Changing
  <2>1. PICK s \in Sessions :
          \/ BecomesWaiting(s) \/ BecomesUsable(s) \/ Exits(s)
          \/ Delete(s)
          \/ \E u \in Notebooks : CloseRemoves(u, s) \/ CloseFails(u, s)
    BY <1>2 DEF Changing
  <2>2. CASE BecomesWaiting(s) \/ BecomesUsable(s) \/ Exits(s)
    BY <2>2, BecomesWaitingKeeps, BecomesUsableKeeps, ExitsKeeps
  <2>3. CASE Delete(s)
    BY <2>3, RemoveSessionKeeps DEF Delete, IInv, TypeOK, SessionsType
  <2>4. CASE \E u \in Notebooks : CloseRemoves(u, s)
    <3>1. RemoveSession(s) /\ s \in used /\ closing' \subseteq closing
      BY <2>4 DEF CloseRemoves, IInv, TypeOK, HistoryType
    <3>. QED
      BY <3>1, RemoveSessionKeeps
  <2>5. CASE \E u \in Notebooks : CloseFails(u, s)
    BY <2>5, CloseFailsKeeps
  <2>. QED
    BY <2>1, <2>2, <2>3, <2>4, <2>5
<1>3. CASE Notebook
  BY <1>3, CloseNotebookKeeps, RenameKeeps DEF Notebook
<1>4. CASE UNCHANGED vars
  BY <1>4 DEF vars, IInv, TypeOK, SessionsType, MapsType, CallsType, HistoryType, SessionsKnown, CallsKnown,
       MappedIsCurrent, EntriesAwaited, ReadyNotMissed, Place, Joinable, session, maps
<1>. QED
  BY <1>1, <1>2, <1>3, <1>4 DEF Next

LEMMA Invariant == Spec => []IInv
  BY InitInv, StepKeeps, PTL DEF Spec
-----------------------------------------------------------------------------
(* Reservations.                                                           *)

\* Call c will release this slot, or its session will when it is ready.
Owns(c, x) ==
  \/ calls[c].pc = "creating" /\ Slot(calls[c].key) = x
  \/ calls[c].pc \in {"starting", "waiting", "late", "restarting"} /\ Slot(at[calls[c].of]) = x

OwnedOrStray == \A x \in reserved : x \in stray \/ \E c \in Calls : Owns(c, x)

\* A notebook's session is not one that has yet to start: a restart or another
\* session is what reserves the notebook of a session that has it, so that the
\* reservation is not lost with a call that observes that session late.
MappedRuns == \A u \in Notebooks : mapped[u] # None => state[mapped[u]] \in {"waiting", "usable"}

HeldByOthers ==
  \A u \in Notebooks : mapped[u] # None /\ u \in reserved =>
    \/ u \in stray
    \/ \E c \in Calls : Owns(c, u) /\ (calls[c].of # mapped[u] \/ calls[c].pc = "restarting")

\* A call that awaits the manager has no session yet.
CreatingHasNone == \A c \in Calls : calls[c].pc = "creating" => calls[c].of = None

RInv == OwnedOrStray /\ HeldByOthers

LEMMA OwnedByOwners == OwnedOrStray <=> ReservationsAreOwned
  BY DEF OwnedOrStray, ReservationsAreOwned, Owned, Owns

\* The slot of a session or a key is its notebook, or a runtime.
LEMMA SlotOfNotebook ==
  ASSUME NEW key \in Keys, NEW u \in Notebooks
  PROVE  Slot(key) = u <=> key[2] = u
  BY DistinctAssumption DEF Slot, Keys, Places

\* A step after which the calls of C own nothing, but for what they leave as
\* stray or what is released, and the others own what they owned.
LEMMA OwnersStay ==
  ASSUME RInv, NEW C \in SUBSET Calls,
         reserved' \subseteq reserved, stray \cap reserved' \subseteq stray',
         \A d \in Calls \ C, x \in reserved' :
           Owns(d, x) => /\ Owns(d, x)' /\ calls'[d].of = calls[d].of
                         /\ calls[d].pc = "restarting" => calls'[d].pc = "restarting",
         \A d \in C, x \in reserved' : Owns(d, x) => x \in stray',
         \A u \in Notebooks : mapped'[u] \in {None, mapped[u]} \/ u \notin reserved'
  PROVE  RInv'
<1>1. OwnedOrStray'
  <2>. SUFFICES ASSUME NEW x \in reserved', x \notin stray'
                PROVE  \E c \in Calls : Owns(c, x)'
    BY DEF OwnedOrStray
  <2>1. PICK c \in Calls : Owns(c, x)
    BY DEF RInv, OwnedOrStray
  <2>. QED
    BY <2>1
<1>2. HeldByOthers'
  <2>. SUFFICES ASSUME NEW u \in Notebooks, mapped'[u] # None, u \in reserved', u \notin stray'
                PROVE  \E c \in Calls : /\ Owns(c, u)'
                                        /\ calls'[c].of # mapped'[u] \/ calls'[c].pc = "restarting"
    BY DEF HeldByOthers
  <2>1. mapped'[u] = mapped[u]
    OBVIOUS
  <2>2. PICK c \in Calls : Owns(c, u) /\ (calls[c].of # mapped[u] \/ calls[c].pc = "restarting")
    BY <2>1 DEF RInv, HeldByOthers
  <2>. QED
    BY <2>1, <2>2
<1>. QED
  BY <1>1, <1>2 DEF RInv

LEMMA AllOwnersStay ==
  ASSUME RInv, reserved' \subseteq reserved, stray \cap reserved' \subseteq stray',
         \A d \in Calls, x \in reserved' :
           Owns(d, x) => /\ Owns(d, x)' /\ calls'[d].of = calls[d].of
                         /\ calls[d].pc = "restarting" => calls'[d].pc = "restarting",
         mapped' = mapped
  PROVE  RInv'
<1>. DEFINE C == {}
<1>1. /\ C \in SUBSET Calls /\ \A d \in Calls \ C : d \in Calls
      /\ \A d \in C, x \in reserved' : Owns(d, x) => x \in stray'
      /\ \A u \in Notebooks : mapped'[u] \in {None, mapped[u]} \/ u \notin reserved'
  OBVIOUS
<1>2. \A d \in Calls \ C, x \in reserved' :
        Owns(d, x) => /\ Owns(d, x)' /\ calls'[d].of = calls[d].of
                      /\ calls[d].pc = "restarting" => calls'[d].pc = "restarting"
  OBVIOUS
<1>. HIDE DEF C
<1>. QED
  BY <1>1, <1>2, OwnersStay

\* A step after which call c owns the slot of its key or session as well.
LEMMA OwnerAdded ==
  ASSUME RInv, NEW c \in Calls, NEW x, Owns(c, x)',
         reserved' \subseteq reserved \cup {x}, stray' = stray,
         \A d \in Calls, y \in reserved :
           Owns(d, y) => Owns(d, y)' /\ (calls'[d] = calls[d] \/ calls'[d].of \notin sessions),
         \A u \in Notebooks : mapped'[u] = mapped[u] /\ (mapped[u] # None => mapped[u] \in sessions),
         x \in Notebooks /\ mapped'[x] # None
           => calls'[c].of # mapped'[x] \/ calls'[c].pc = "restarting"
  PROVE  RInv'
<1>1. OwnedOrStray'
  BY DEF RInv, OwnedOrStray
<1>2. HeldByOthers'
  <2>. SUFFICES ASSUME NEW u \in Notebooks, mapped'[u] # None, u \in reserved', u \notin stray, u # x
                PROVE  \E d \in Calls : /\ Owns(d, u)'
                                        /\ calls'[d].of # mapped'[u] \/ calls'[d].pc = "restarting"
    BY DEF HeldByOthers
  <2>1. PICK d \in Calls : Owns(d, u) /\ (calls[d].of # mapped[u] \/ calls[d].pc = "restarting")
    BY DEF RInv, HeldByOthers
  <2>. QED
    BY <2>1
<1>. QED
  BY <1>1, <1>2 DEF RInv

\* Steps of calls.
LEMMA StartsReserve ==
  ASSUME IInv, MappedRuns, RInv, NEW c \in Calls,
         \/ \E key \in Keys : StartNew(c, key)
         \/ \E s \in Sessions : SessionCreated(c, s) \/ StartExisting(c, s)
  PROVE  RInv'
<1>1. CASE \E key \in Keys : StartNew(c, key)
  <2>1. PICK key \in Keys : StartNew(c, key)
    BY <1>1
  <2>. DEFINE x == Slot(key)
  <2>2. calls'[c] = Call("creating", None, key, "pending") /\ Owns(c, x)'
    BY <2>1 DEF StartNew, Owns, Call, IInv, TypeOK, CallsType
  <2>3. \A d \in Calls, y \in reserved : Owns(d, y) => Owns(d, y)' /\ calls'[d] = calls[d]
    BY <2>1 DEF StartNew, Owns, Call, Idle, session, IInv, TypeOK, CallsType
  <2>4. x \in Notebooks => mapped'[x] = None
    BY <2>1, SlotOfNotebook, DistinctAssumption DEF StartNew, Startable
  <2>5. \A u \in Notebooks : mapped'[u] = mapped[u] /\ (mapped[u] # None => mapped[u] \in sessions)
    BY <2>1 DEF StartNew, IInv, MappedIsCurrent
  <2>. HIDE DEF x
  <2>6. reserved' \subseteq reserved \cup {x} /\ stray' = stray
    BY <2>1 DEF StartNew, x
  <2>. QED
    BY <2>2, <2>3, <2>4, <2>5, <2>6, OwnerAdded
<1>2. CASE \E s \in Sessions : SessionCreated(c, s)
  <2>1. PICK s \in Sessions : SessionCreated(c, s)
    BY <1>2
  <2>0. PICK x : x = Slot(calls[c].key)
    OBVIOUS
  <2>2. /\ calls'[c] = Call("starting", s, calls[c].key, "pending") /\ s \notin used
        /\ at'[s] = calls[c].key /\ \A t \in used : at'[t] = at[t]
        /\ calls[c].pc = "creating"
        /\ \A d \in Calls \ {c} : calls'[d] = calls[d]
        /\ reserved' = reserved /\ stray' = stray /\ mapped' = mapped
    BY <2>1 DEF SessionCreated, IInv, TypeOK, CallsType, SessionsType, maps
  <2>3. Owns(c, x)' /\ calls'[c].of = s /\ s \notin sessions
    BY <2>0, <2>2 DEF Owns, Call, IInv, TypeOK, SessionsType
  <2>4. \A d \in Calls, y \in reserved : Owns(d, y) => Owns(d, y)' /\ (calls'[d] = calls[d] \/ calls'[d].of \notin sessions)
    <3>. SUFFICES ASSUME NEW d \in Calls, NEW y, Owns(d, y)
                  PROVE  Owns(d, y)' /\ (calls'[d] = calls[d] \/ calls'[d].of \notin sessions)
      OBVIOUS
    <3>1. CASE d = c
      BY <3>1, <2>0, <2>2, <2>3 DEF Owns
    <3>2. CASE d # c
      BY <3>2, <2>2 DEF Owns, IInv, CallsKnown
    <3>. QED
      BY <3>1, <3>2
  <2>5. \A u \in Notebooks : mapped'[u] = mapped[u] /\ (mapped[u] # None => mapped[u] \in sessions)
    BY <2>2 DEF IInv, MappedIsCurrent
  <2>6. x \in Notebooks /\ mapped'[x] # None => calls'[c].of # mapped'[x]
    BY <2>3, <2>5
  <2>. QED
    BY <2>2, <2>3, <2>4, <2>5, <2>6, OwnerAdded
<1>3. CASE \E s \in Sessions : StartExisting(c, s)
  <2>1. PICK s \in Sessions : StartExisting(c, s)
    BY <1>3
  <2>0. PICK x : x = Slot(at[s])
    OBVIOUS
  <2>2. calls'[c] = Call("starting", s, at[s], "pending") /\ Owns(c, x)' /\ at' = at /\ s \in sessions
    BY <2>0, <2>1 DEF StartExisting, Owns, Call, IInv, TypeOK, CallsType, session
  <2>3. \A d \in Calls, y \in reserved : Owns(d, y) => Owns(d, y)' /\ calls'[d] = calls[d]
    BY <2>1 DEF StartExisting, Owns, Call, Idle, session, IInv, TypeOK, CallsType
  <2>4. x \in Notebooks /\ mapped'[x] # None => calls'[c].of # mapped'[x]
    BY <2>0, <2>1, <2>2 DEF StartExisting, Call, MappedRuns
  <2>5. \A u \in Notebooks : mapped'[u] = mapped[u] /\ (mapped[u] # None => mapped[u] \in sessions)
    BY <2>1 DEF StartExisting, IInv, MappedIsCurrent
  <2>6. reserved' \subseteq reserved \cup {x} /\ stray' = stray
    BY <2>0, <2>1 DEF StartExisting
  <2>. QED
    BY <2>2, <2>3, <2>4, <2>5, <2>6, OwnerAdded
<1>. QED
  BY <1>1, <1>2, <1>3

LEMMA RestartReserves ==
  ASSUME IInv, RInv, NEW c \in Calls, calls[c].pc \in {"idle", "prompt"},
         NEW s \in Sessions, NEW key, BeginRestart(c, s, key), UNCHANGED <<session, mapped, closing, stray>>
  PROVE  RInv'
<1>0. PICK x : x = Slot(at[s])
  OBVIOUS
<1>1. calls'[c] = Call("restarting", s, key, "pending") /\ Owns(c, x)' /\ at' = at
  BY <1>0 DEF BeginRestart, Owns, Call, IInv, TypeOK, CallsType, session
<1>2. \A d \in Calls, y \in reserved : Owns(d, y) => Owns(d, y)' /\ calls'[d] = calls[d]
  BY <1>1 DEF BeginRestart, Owns, IInv, TypeOK, CallsType
<1>3. calls'[c].pc = "restarting"
  BY <1>1 DEF Call
<1>4. \A u \in Notebooks : mapped'[u] = mapped[u] /\ (mapped[u] # None => mapped[u] \in sessions)
  BY DEF IInv, MappedIsCurrent
<1>5. reserved' \subseteq reserved \cup {x} /\ stray' = stray
  BY <1>0 DEF BeginRestart
<1>. QED
  BY <1>1, <1>2, <1>3, <1>4, <1>5, OwnerAdded

\* Steps that change neither the reservations nor who owns them.
LEMMA UnreservedStep ==
  ASSUME RInv, UNCHANGED <<reserved, stray, calls, at, mapped>>
  PROVE  RInv'
  BY DEF RInv, OwnedOrStray, HeldByOthers, Owns

LEMMA OthersReserve ==
  ASSUME IInv, RInv, NEW c \in Calls,
         \/ \E s \in Sessions, key \in Keys : Restore(c, s, key)
         \/ RestartDeclined(c)
         \/ \E s \in Sessions : RestartCall(c, s) /\ UNCHANGED reserved /\ calls'[c].pc = "prompt"
  PROVE  RInv'
<1>1. reserved' = reserved /\ stray' = stray /\ mapped' = mapped
  BY DEF Restore, RestartDeclined, RestartCall, maps
<1>2. \A t \in used : at'[t] = at[t]
  BY DEF Restore, RestartDeclined, RestartCall, session,
         IInv, TypeOK, SessionsType
<1>3. \A d \in Calls : calls'[d] = calls[d] \/ calls[d].pc \in {"idle", "prompt"}
  <2>1. CASE RestartDeclined(c)
    BY <2>1 DEF RestartDeclined, End, IInv, TypeOK, CallsType
  <2>2. CASE \E s \in Sessions, key \in Keys : Restore(c, s, key)
    BY <2>2 DEF Restore, Idle, Call, IInv, TypeOK, CallsType
  <2>3. CASE \E s \in Sessions : RestartCall(c, s) /\ calls'[c].pc = "prompt"
    BY <2>3 DEF RestartCall, BeginRestart, Idle, Call, IInv, TypeOK, CallsType
  <2>. QED
    BY <2>1, <2>2, <2>3
<1>4. \A d \in Calls, x \in reserved' : Owns(d, x) => Owns(d, x)' /\ calls'[d] = calls[d]
  BY <1>2, <1>3 DEF Owns, IInv, CallsKnown
<1>. QED
  BY <1>1, <1>4, AllOwnersStay

\* A call that ends releases the slot it owns, or leaves it as stray.
LEMMA EndReserves ==
  ASSUME IInv, RInv, NEW c \in Calls, calls' = [calls EXCEPT ![c] = Idle], at' = at,
         reserved' \subseteq reserved, stray \cap reserved' \subseteq stray',
         \A x \in reserved' : Owns(c, x) => x \in stray',
         \A u \in Notebooks : mapped'[u] \in {None, mapped[u]} \/ u \notin reserved'
  PROVE  RInv'
<1>. DEFINE C == {c}
<1>1. C \in SUBSET Calls
  OBVIOUS
<1>2. \A d \in Calls \ C, x \in reserved' :
        Owns(d, x) => /\ Owns(d, x)' /\ calls'[d].of = calls[d].of
                      /\ calls[d].pc = "restarting" => calls'[d].pc = "restarting"
  BY DEF Owns
<1>3. \A d \in C, x \in reserved' : Owns(d, x) => x \in stray'
  OBVIOUS
<1>. HIDE DEF C
<1>. QED
  BY <1>1, <1>2, <1>3, OwnersStay

LEMMA FinalizeReserves ==
  ASSUME IInv, RInv, NEW c \in Calls, calls[c].pc \in {"starting", "waiting", "restarting"},
         Finalize(c), stray \cap reserved' \subseteq stray', at' = at
  PROVE  RInv'
<1>1. calls' = [calls EXCEPT ![c] = Idle] /\ reserved' = reserved \ {Slot(at[calls[c].of])}
  BY DEF Finalize, End, Clear
<1>2. \A x \in reserved' : ~Owns(c, x)
  BY <1>1 DEF Owns
<1>3. \A u \in Notebooks : mapped'[u] # mapped[u] => u = Slot(at[calls[c].of])
  BY SlotOfNotebook DEF Finalize, Map, Place, IInv, SessionsKnown, CallsKnown, TypeOK, MapsType
<1>. QED
  BY <1>1, <1>2, <1>3, EndReserves

LEMMA FailReserves ==
  ASSUME IInv, RInv, NEW c \in Calls, calls[c].pc \in {"starting", "waiting"},
         Fail(c), stray \cap reserved' \subseteq stray', at' = at
  PROVE  RInv'
<1>1. /\ calls' = [calls EXCEPT ![c] = Idle] /\ mapped' = mapped
      /\ reserved' = reserved \ {Slot(at[calls[c].of]), Slot(calls[c].key)}
  BY DEF Fail, End, Clear
<1>2. \A x \in reserved' : ~Owns(c, x)
  BY <1>1 DEF Owns
<1>. QED
  BY <1>1, <1>2, EndReserves

LEMMA TimedOutReserves ==
  ASSUME IInv, RInv, NEW c \in Calls, calls[c].pc \in {"starting", "waiting"}, TimedOut(c), at' = at,
         stray \cap reserved' \subseteq stray',
         calls[c].of \notin sessions => Slot(at[calls[c].of]) \in stray' \/ Slot(at[calls[c].of]) \notin reserved'
  PROVE  RInv'
<1>1. CASE state[calls[c].of] = "usable"
  BY <1>1, FinalizeReserves DEF TimedOut
<1>2. CASE state[calls[c].of] = "exited"
  BY <1>2, FailReserves DEF TimedOut
<1>3. CASE state[calls[c].of] \notin {"usable", "exited"}
  <2>1. /\ IF calls[c].of \in sessions THEN Goto(c, "late") ELSE End(c)
        /\ reserved' = reserved /\ mapped' = mapped
    BY <1>3 DEF TimedOut
  <2>2. CASE calls[c].of \in sessions
    <3>1. calls' = [calls EXCEPT ![c].pc = "late"]
      BY <2>1, <2>2 DEF Goto
    <3>2. \A d \in Calls, x \in reserved' :
            Owns(d, x) => /\ Owns(d, x)' /\ calls'[d].of = calls[d].of
                          /\ calls[d].pc = "restarting" => calls'[d].pc = "restarting"
      BY <3>1 DEF Owns, IInv, TypeOK, CallsType
    <3>. QED
      BY <2>1, <3>2, AllOwnersStay
  <2>3. CASE calls[c].of \notin sessions
    <3>1. calls' = [calls EXCEPT ![c] = Idle]
      BY <2>1, <2>3 DEF End
    <3>2. \A x \in reserved' : Owns(c, x) => x \in stray'
      BY <2>3 DEF Owns
    <3>. QED
      BY <2>1, <3>1, <3>2, EndReserves
  <2>. QED
    BY <2>2, <2>3
<1>. QED
  BY <1>1, <1>2, <1>3

\* A call that goes on owns what it owned.
LEMMA GoesOnReserves ==
  ASSUME IInv, RInv, NEW c \in Calls, calls[c].pc \in {"starting", "waiting"}, at' = at,
         \/ calls' = [calls EXCEPT ![c].pc = "waiting"]
         \/ calls' = [calls EXCEPT ![c].ready = "timedOut"],
         reserved' = reserved, mapped' = mapped, stray \cap reserved' \subseteq stray'
  PROVE  RInv'
<1>1. \A d \in Calls, x \in reserved' :
        Owns(d, x) => /\ Owns(d, x)' /\ calls'[d].of = calls[d].of
                      /\ calls[d].pc = "restarting" => calls'[d].pc = "restarting"
  BY DEF Owns, IInv, TypeOK, CallsType
<1>. QED
  BY <1>1, AllOwnersStay

LEMMA CallsReserve ==
  ASSUME IInv, RInv, NEW c \in Calls,
         CreateFails(c) \/ StartResolves(c) \/ StartRejects(c) \/ ReadyTimeout(c)
           \/ RestartSucceeds(c) \/ RestartFails(c)
  PROVE  RInv'
<1>0. at' = at
  BY DEF CreateFails, StartResolves, StartRejects, ReadyTimeout, RestartSucceeds, RestartFails, session
<1>1. CASE CreateFails(c)
  <2>1. /\ calls' = [calls EXCEPT ![c] = Idle] /\ reserved' = reserved \ {Slot(calls[c].key)}
        /\ mapped' = mapped /\ stray' = stray \cap reserved'
    BY <1>1 DEF CreateFails, End, Clear, KeepStray
  <2>2. \A x \in reserved' : ~Owns(c, x)
    BY <1>1, <2>1 DEF CreateFails, Owns
  <2>. QED
    BY <1>0, <2>1, <2>2, EndReserves
<1>2. CASE StartResolves(c)
  <2>1. calls[c].pc = "starting" /\ calls[c].of \in sessions /\ stray' = stray \cap reserved'
    BY <1>2 DEF StartResolves, KeepStray
  <2>2. CASE calls[c].ready = "ready"
    BY <1>0, <1>2, <2>1, <2>2, FinalizeReserves DEF StartResolves
  <2>3. CASE calls[c].ready = "timedOut"
    BY <1>0, <1>2, <2>1, <2>3, TimedOutReserves DEF StartResolves
  <2>4. CASE calls[c].ready \notin {"ready", "timedOut"}
    BY <1>0, <1>2, <2>1, <2>4, GoesOnReserves DEF StartResolves, Goto, maps
  <2>. QED
    BY <2>2, <2>3, <2>4
<1>3. CASE StartRejects(c)
  BY <1>0, <1>3, FailReserves DEF StartRejects, KeepStray
<1>4. CASE ReadyTimeout(c)
  <2>1. CASE calls[c].pc = "waiting"
    <3>1. TimedOut(c) /\ stray' = (stray \cup IF calls[c].of \in sessions THEN {} ELSE {Slot(at[calls[c].of])}) \cap reserved'
      BY <1>4, <2>1 DEF ReadyTimeout, KeepStray
    <3>. QED
      BY <1>0, <2>1, <3>1, TimedOutReserves
  <2>2. CASE calls[c].pc # "waiting"
    BY <1>0, <1>4, <2>2, GoesOnReserves DEF ReadyTimeout, maps
  <2>. QED
    BY <2>1, <2>2
<1>5. CASE RestartSucceeds(c)
  BY <1>0, <1>5, FinalizeReserves DEF RestartSucceeds, KeepStray
<1>6. CASE RestartFails(c)
  <2>1. /\ calls' = [calls EXCEPT ![c] = Idle] /\ reserved' = reserved \ {Slot(at[calls[c].of])}
        /\ mapped' = mapped /\ stray' = stray \cap reserved'
    BY <1>6 DEF RestartFails, End, Clear, KeepStray
  <2>2. \A x \in reserved' : ~Owns(c, x)
    BY <1>6, <2>1 DEF RestartFails, Owns
  <2>. QED
    BY <1>0, <2>1, <2>2, EndReserves
<1>. QED
  BY <1>1, <1>2, <1>3, <1>4, <1>5, <1>6

\* Steps of sessions.  The calls of a session own its slot, and no other.
LEMMA UsableReserves ==
  ASSUME IInv, RInv, NEW s \in Sessions, BecomesUsable(s)
  PROVE  RInv'
<1>. DEFINE W == {c \in Calls : calls[c].of = s /\ calls[c].pc \in {"waiting", "late"}}
<1>1. /\ at' = at /\ stray' = stray \cap reserved'
      /\ \A d \in Calls \ W : /\ calls'[d].of = calls[d].of /\ calls'[d].pc = calls[d].pc
                              /\ calls'[d].key = calls[d].key
  BY DEF BecomesUsable, KeepStray, IInv, TypeOK, CallsType
<1>2. \A d \in Calls \ W, x \in reserved' : Owns(d, x) => Owns(d, x)'
  BY <1>1 DEF Owns
<1>3. CASE W = {}
  <2>1. reserved' = reserved /\ mapped' = mapped
    BY <1>3 DEF BecomesUsable, maps
  <2>. HIDE DEF W
  <2>. QED
    BY <1>1, <1>2, <1>3, <2>1, OwnersStay
<1>4. CASE W # {}
  <2>1. reserved' = reserved \ {Slot(at[s])} /\ Map(s)
    BY <1>4 DEF BecomesUsable
  <2>2. \A d \in W, x \in reserved' : ~Owns(d, x)
    BY <2>1 DEF Owns
  <2>3. at[s] \in Keys
    BY <1>4 DEF IInv, CallsKnown, SessionsKnown
  <2>4. \A u \in Notebooks : mapped'[u] # mapped[u] => u = Slot(at[s])
    BY <2>1, <2>3, SlotOfNotebook DEF Map, Place, IInv, TypeOK, MapsType
  <2>5. W \in SUBSET Calls /\ reserved' \subseteq reserved
    BY <2>1
  <2>. HIDE DEF W
  <2>. QED
    BY <1>1, <1>2, <2>1, <2>2, <2>4, <2>5, OwnersStay
<1>. QED
  BY <1>3, <1>4

LEMMA EndsReserve ==
  ASSUME IInv, RInv, NEW s \in Sessions, s \in used, Exits(s) \/ RemoveSession(s)
  PROVE  RInv'
<1>1. /\ at' = at /\ reserved' \subseteq reserved /\ stray \cap reserved' \subseteq stray'
      /\ calls' = [c \in Calls |-> IF c \in Late(s) THEN Idle ELSE calls[c]]
      /\ Unmap(s) /\ at[s] \in Keys
  BY DEF Exits, RemoveSession, KeepStray, EndAll, IInv, SessionsKnown
<1>2. \A d \in Calls \ Late(s), x \in reserved' : Owns(d, x) => Owns(d, x)' /\ calls'[d] = calls[d]
  BY <1>1 DEF Owns
<1>3. Late(s) # {} /\ Slot(at[s]) \in reserved' => Slot(at[s]) \in stray'
  BY DEF Exits, RemoveSession, KeepStray
<1>4. \A d \in Late(s), x \in reserved' : Owns(d, x) => x \in stray'
  BY <1>3 DEF Owns, Late
<1>5. \A u \in Notebooks : mapped'[u] \in {None, mapped[u]}
  BY <1>1 DEF Unmap, IInv, TypeOK, MapsType
<1>6. Late(s) \in SUBSET Calls
  BY DEF Late
<1>. QED
  BY <1>1, <1>2, <1>4, <1>5, <1>6, OwnersStay

\* A rename gives up the old URI, which others hold, or leaves it as stray.
LEMMA RenameReserves ==
  ASSUME IInv, CreatingHasNone, RInv, NEW u \in Notebooks, NEW v \in Notebooks, Rename(u, v)
  PROVE  RInv'
<1>. DEFINE s == mapped[u]
<1>1. /\ s \in sessions /\ s \in used /\ s \in Sessions /\ at[s] \in Keys /\ at[s][2] = u /\ u # v
      /\ calls' = calls /\ reserved' = reserved
      /\ mapped' = [mapped EXCEPT ![v] = s, ![u] = None]
      /\ at' = [at EXCEPT ![s] = <<at[s][1], v>>]
      /\ stray \subseteq stray'
      /\ u \in reserved /\ (\E c \in Running : calls[c].of = s) => u \in stray'
  BY DEF Rename, IInv, TypeOK, SessionsType, SessionsKnown, MappedIsCurrent, Place
<1>2. /\ Slot(at[s]) = u /\ at'[s] \in Keys /\ Slot(at'[s]) = v
      /\ \A t \in Sessions \ {s} : at'[t] = at[t]
  BY <1>1, DistinctAssumption DEF Slot, Keys, Places, IInv, TypeOK, SessionsType
<1>3. \A x : \A c \in Calls : Owns(c, x) /\ (calls[c].pc = "creating" \/ calls[c].of # s) => Owns(c, x)'
  BY <1>1, <1>2 DEF Owns, IInv, CallsKnown, TypeOK, SessionsType
<1>4. \A x : \A c \in Calls : Owns(c, x) /\ x # u => calls[c].pc = "creating" \/ calls[c].of # s
  BY <1>2 DEF Owns
<1>5. \A c \in Calls : calls[c].pc = "creating" => calls[c].of \notin sessions
  BY DistinctAssumption DEF CreatingHasNone, IInv, TypeOK, SessionsType
<1>6. OwnedOrStray'
  <2>. SUFFICES ASSUME NEW x \in reserved, x \notin stray'
                PROVE  \E c \in Calls : Owns(c, x)'
    BY <1>1 DEF OwnedOrStray
  <2>1. CASE x = u
    <3>1. PICK c \in Calls : Owns(c, u) /\ (calls[c].of # s \/ calls[c].pc = "restarting")
      BY <1>1, <2>1, DistinctAssumption DEF RInv, HeldByOthers, IInv, TypeOK, SessionsType
    <3>2. calls[c].of # s
      BY <1>1, <2>1, <3>1 DEF Running
    <3>. QED
      BY <1>3, <2>1, <3>1, <3>2
  <2>2. CASE x # u
    <3>1. PICK c \in Calls : Owns(c, x)
      BY <1>1 DEF RInv, OwnedOrStray
    <3>. QED
      BY <1>3, <1>4, <2>2, <3>1
  <2>. QED
    BY <2>1, <2>2
<1>7. HeldByOthers'
  <2>. SUFFICES ASSUME NEW w \in Notebooks, mapped'[w] # None, w \in reserved, w \notin stray'
                PROVE  \E c \in Calls : Owns(c, w)' /\ (calls[c].of # mapped'[w] \/ calls[c].pc = "restarting")
    BY <1>1 DEF HeldByOthers
  <2>0. w # u
    BY <1>1 DEF IInv, TypeOK, MapsType
  <2>1. CASE w = v
    <3>1. mapped'[w] = s
      BY <1>1, <2>1 DEF IInv, TypeOK, MapsType
    <3>2. PICK c \in Calls : Owns(c, w)
      BY <1>1 DEF RInv, OwnedOrStray
    <3>3. calls[c].pc = "creating" \/ calls[c].of # s
      BY <1>4, <2>0, <3>2
    <3>4. calls[c].of # s
      BY <1>1, <1>5, <3>3
    <3>5. Owns(c, w)'
      BY <1>3, <3>2, <3>3
    <3>. QED
      BY <3>1, <3>4, <3>5
  <2>2. CASE w # v
    <3>1. mapped'[w] = mapped[w]
      BY <1>1, <2>0, <2>2 DEF IInv, TypeOK, MapsType
    <3>2. PICK c \in Calls : Owns(c, w) /\ (calls[c].of # mapped[w] \/ calls[c].pc = "restarting")
      BY <1>1, <3>1 DEF RInv, HeldByOthers
    <3>3. Owns(c, w)'
      BY <1>3, <1>4, <2>0, <3>2
    <3>. QED
      BY <3>1, <3>2, <3>3
  <2>. QED
    BY <2>1, <2>2
<1>. QED
  BY <1>6, <1>7 DEF RInv

LEMMA MapsUsable ==
  ASSUME IInv, MappedRuns, NEW s \in Sessions, Map(s), state'[s] \in {"waiting", "usable"},
         \A t \in Sessions \ {s} : state'[t] = state[t]
  PROVE  MappedRuns'
  BY DEF Map, MappedRuns, IInv, TypeOK, MapsType

LEMMA MappedCalls ==
  ASSUME IInv, MappedRuns, NEW c \in Calls, state' = state,
         \/ StartResolves(c) \/ ReadyTimeout(c) \/ RestartSucceeds(c)
         \/ mapped' = mapped
  PROVE  MappedRuns'
<1>1. CASE mapped' = mapped
  BY <1>1 DEF MappedRuns
<1>2. CASE mapped' # mapped
  <2>1. /\ Map(calls[c].of) /\ calls[c].of \in Sessions
        /\ state[calls[c].of] \in {"waiting", "usable"}
    BY <1>2 DEF StartResolves, ReadyTimeout, RestartSucceeds, TimedOut, Finalize, Fail, maps,
                IInv, TypeOK, SessionsType, CallsKnown
  <2>. QED
    BY <2>1, MapsUsable
<1>. QED
  BY <1>1, <1>2

LEMMA MappedSessions ==
  ASSUME IInv, MappedRuns, NEW s \in Sessions,
         BecomesWaiting(s) \/ BecomesUsable(s) \/ Exits(s) \/ RemoveSession(s)
  PROVE  MappedRuns'
<1>1. CASE mapped' = mapped /\ (state'[s] \in {"waiting", "usable"} \/ state' = state)
  BY <1>1 DEF MappedRuns, BecomesWaiting, BecomesUsable, Exits, RemoveSession,
              IInv, TypeOK, SessionsType, MapsType
<1>2. CASE BecomesUsable(s) /\ mapped' # mapped
  BY <1>2, MapsUsable DEF BecomesUsable, maps, IInv, TypeOK, SessionsType
<1>3. CASE Exits(s) \/ RemoveSession(s)
  <2>1. \A u \in Notebooks : mapped'[u] # None => mapped'[u] = mapped[u] /\ mapped[u] # s
    BY <1>3, DistinctAssumption DEF Exits, RemoveSession, Unmap, IInv, TypeOK, MapsType, MappedIsCurrent
  <2>2. \A t \in Sessions \ {s} : state'[t] = state[t]
    BY <1>3 DEF Exits, RemoveSession, IInv, TypeOK, SessionsType
  <2>. QED
    BY <2>1, <2>2 DEF MappedRuns, IInv, TypeOK, MapsType
<1>. QED
  BY <1>1, <1>2, <1>3 DEF BecomesWaiting, BecomesUsable, maps, IInv, TypeOK, SessionsType

LEMMA MappedRename ==
  ASSUME IInv, MappedRuns, NEW u \in Notebooks, NEW v \in Notebooks, Rename(u, v)
  PROVE  MappedRuns'
  BY DEF Rename, MappedRuns, IInv, TypeOK, MapsType

LEMMA CreatingStep == IInv /\ CreatingHasNone /\ [Next]_vars => CreatingHasNone'
<1>. SUFFICES ASSUME IInv, CreatingHasNone, [Next]_vars, NEW c \in Calls, calls'[c].pc = "creating"
              PROVE  calls'[c].of = None
  BY DEF CreatingHasNone
<1>. USE DEF Call, Idle, IInv, TypeOK, CallsType, CreatingHasNone
<1>1. CASE Starting
  <2>1. PICK d \in Calls :
          \/ \E key \in Keys : StartNew(d, key) \/ \E s \in Sessions : Restore(d, s, key)
          \/ \E s \in Sessions : SessionCreated(d, s) \/ StartExisting(d, s) \/ RestartCall(d, s)
          \/ CreateFails(d) \/ RestartPrompted(d) \/ RestartDeclined(d)
          \/ StartResolves(d) \/ StartRejects(d) \/ ReadyTimeout(d)
          \/ RestartSucceeds(d) \/ RestartFails(d)
    BY <1>1 DEF Starting
  <2>2. CASE \E key \in Keys : StartNew(d, key) \/ \E s \in Sessions : Restore(d, s, key)
    BY <2>2 DEF StartNew, Restore
  <2>3. CASE \E s \in Sessions : SessionCreated(d, s) \/ StartExisting(d, s) \/ RestartCall(d, s)
    BY <2>3 DEF SessionCreated, StartExisting, RestartCall, BeginRestart
  <2>4. CASE CreateFails(d) \/ RestartPrompted(d) \/ RestartDeclined(d) \/ RestartSucceeds(d) \/ RestartFails(d)
    BY <2>4 DEF CreateFails, RestartPrompted, BeginRestart, RestartDeclined, RestartSucceeds, RestartFails,
                Finalize, End
  <2>5. CASE StartResolves(d) \/ StartRejects(d)
    BY <2>5 DEF StartResolves, StartRejects, TimedOut, Finalize, Fail, End, Goto
  <2>6. CASE ReadyTimeout(d)
    BY <2>6 DEF ReadyTimeout, TimedOut, Finalize, Fail, End, Goto
  <2>. QED
    BY <2>1, <2>2, <2>3, <2>4, <2>5, <2>6
<1>2. CASE Changing
  <2>1. PICK s \in Sessions :
          \/ BecomesWaiting(s) \/ BecomesUsable(s) \/ Exits(s)
          \/ Delete(s)
          \/ \E u \in Notebooks : CloseRemoves(u, s) \/ CloseFails(u, s)
    BY <1>2 DEF Changing
  <2>2. \/ calls' = calls
        \/ calls' = [d \in Calls |-> IF d \in Late(s) THEN Idle ELSE calls[d]]
        \/ BecomesUsable(s)
    BY <2>1 DEF BecomesWaiting, Exits, Delete, CloseRemoves, CloseFails, RemoveSession, EndAll
  <2>3. CASE BecomesUsable(s)
    BY <2>3 DEF BecomesUsable
  <2>. QED
    BY <2>2, <2>3
<1>3. CASE Notebook \/ UNCHANGED vars
  BY <1>3 DEF Notebook, CloseNotebook, Rename, vars
<1>. QED
  BY <1>1, <1>2, <1>3 DEF Next

\* All of it together.
ReservationInv == IInv /\ CreatingHasNone /\ MappedRuns /\ RInv

LEMMA ReservationStep == ReservationInv /\ [Next]_vars => ReservationInv'
<1>. SUFFICES ASSUME IInv, CreatingHasNone, MappedRuns, RInv, [Next]_vars
              PROVE  MappedRuns' /\ RInv'
  BY StepKeeps, CreatingStep DEF ReservationInv
<1>1. CASE Starting
  <2>1. PICK c \in Calls :
          \/ \E key \in Keys : StartNew(c, key) \/ \E s \in Sessions : Restore(c, s, key)
          \/ \E s \in Sessions : SessionCreated(c, s) \/ StartExisting(c, s) \/ RestartCall(c, s)
          \/ CreateFails(c) \/ RestartPrompted(c) \/ RestartDeclined(c)
          \/ StartResolves(c) \/ StartRejects(c) \/ ReadyTimeout(c)
          \/ RestartSucceeds(c) \/ RestartFails(c)
    BY <1>1 DEF Starting
  <2>2. CASE StartResolves(c) \/ ReadyTimeout(c) \/ RestartSucceeds(c)
    <3>1. state' = state
      BY <2>2 DEF StartResolves, ReadyTimeout, RestartSucceeds, session
    <3>. QED
      BY <2>2, <3>1, MappedCalls, CallsReserve
  <2>3. CASE CreateFails(c) \/ StartRejects(c) \/ RestartFails(c)
    <3>1. state' = state /\ mapped' = mapped
      BY <2>3 DEF CreateFails, StartRejects, RestartFails, Fail, session
    <3>. QED
      BY <2>3, <3>1, MappedCalls, CallsReserve
  <2>4. CASE \/ \E key \in Keys : StartNew(c, key)
             \/ \E s \in Sessions : SessionCreated(c, s) \/ StartExisting(c, s)
    <3>1. state' = state /\ mapped' = mapped
      BY <2>4 DEF StartNew, SessionCreated, StartExisting, session, maps
    <3>. QED
      BY <2>4, <3>1, MappedCalls, StartsReserve
  <2>5. CASE (\E key \in Keys, s \in Sessions : Restore(c, s, key)) \/ RestartDeclined(c)
    <3>1. state' = state /\ mapped' = mapped
      BY <2>5 DEF Restore, RestartDeclined, session, maps
    <3>. QED
      BY <2>5, <3>1, MappedCalls, OthersReserve
  <2>6. CASE RestartPrompted(c)
    <3>1. /\ state' = state /\ mapped' = mapped /\ calls[c].of \in Sessions /\ calls[c].pc = "prompt"
          /\ BeginRestart(c, calls[c].of, calls[c].key) /\ UNCHANGED <<session, mapped, closing, stray>>
      BY <2>6 DEF RestartPrompted, session, IInv, CallsKnown, TypeOK, SessionsType
    <3>. QED
      BY <3>1, MappedCalls, RestartReserves
  <2>7. CASE \E s \in Sessions : RestartCall(c, s)
    <3>1. PICK s \in Sessions : RestartCall(c, s)
      BY <2>7
    <3>2. state' = state /\ mapped' = mapped /\ calls[c].pc = "idle" /\ UNCHANGED <<session, mapped, closing, stray>>
      BY <3>1 DEF RestartCall, session, Idle, Call
    <3>3. CASE BeginRestart(c, s, at[s])
      BY <3>2, <3>3, MappedCalls, RestartReserves
    <3>4. CASE ~BeginRestart(c, s, at[s])
      <4>1. UNCHANGED reserved /\ calls'[c].pc = "prompt"
        BY <3>1, <3>4 DEF RestartCall, Call, IInv, TypeOK, CallsType
      <4>. QED
        BY <3>1, <3>2, <4>1, MappedCalls, OthersReserve
    <3>. QED
      BY <3>3, <3>4
  <2>. QED
    BY <2>1, <2>2, <2>3, <2>4, <2>5, <2>6, <2>7
<1>2. CASE Changing
  <2>1. PICK s \in Sessions :
          \/ BecomesWaiting(s) \/ BecomesUsable(s) \/ Exits(s)
          \/ Delete(s)
          \/ \E u \in Notebooks : CloseRemoves(u, s) \/ CloseFails(u, s)
    BY <1>2 DEF Changing
  <2>2. CASE BecomesUsable(s)
    BY <2>2, MappedSessions, UsableReserves
  <2>3. CASE Exits(s)
    BY <2>3, MappedSessions, EndsReserve DEF Exits, IInv, TypeOK, SessionsType
  <2>4. CASE Delete(s) \/ \E u \in Notebooks : CloseRemoves(u, s)
    <3>1. RemoveSession(s) /\ s \in used
      BY <2>4 DEF Delete, CloseRemoves, IInv, TypeOK, SessionsType, HistoryType
    <3>. QED
      BY <3>1, MappedSessions, EndsReserve
  <2>5. CASE BecomesWaiting(s)
    BY <2>5, MappedSessions, UnreservedStep DEF BecomesWaiting, maps
  <2>6. CASE \E u \in Notebooks : CloseFails(u, s)
    BY <2>6, UnreservedStep DEF CloseFails, session, maps, MappedRuns
  <2>. QED
    BY <2>1, <2>2, <2>3, <2>4, <2>5, <2>6
<1>3. CASE Notebook
  <2>1. CASE \E u \in Notebooks : CloseNotebook(u)
    BY <2>1, UnreservedStep DEF CloseNotebook, session, maps, MappedRuns
  <2>2. CASE \E u, v \in Notebooks : Rename(u, v)
    BY <2>2, MappedRename, RenameReserves
  <2>. QED
    BY <1>3, <2>1, <2>2 DEF Notebook
<1>4. CASE UNCHANGED vars
  BY <1>4, UnreservedStep DEF vars, session, maps, MappedRuns
<1>. QED
  BY <1>1, <1>2, <1>3, <1>4 DEF Next
-----------------------------------------------------------------------------
\* The maps of RuntimeSessionService hold keys, sessions and starts of their
\* kinds, whatever overlaps (runtimeSession.ts:136-143).
THEOREM TypeCorrect == Spec => []TypeOK
<1>1. IInv => TypeOK
  BY DEF IInv
<1>. QED
  BY <1>1, Invariant, PTL

\* A notebook's entry is a listed session of that notebook: a removed one is
\* never found by its notebook, and a renamed one only by its new URI.  A start
\* that is joined has not ended, so that whoever joins it is answered
\* (runtimeSession.ts:786-829, 1358-1380, 1630-1650, 1867-1905, 2303-2355).
THEOREM EntriesCurrent == Spec => []EntriesAreCurrent
<1>1. IInv => MappedIsCurrent
  BY DEF IInv
<1>2. IInv => JoinedIsRunning
  BY DEF IInv, TypeOK, MapsType, EntriesAwaited, JoinedIsRunning, Running, Joinable
<1>. QED
  BY <1>1, <1>2, Invariant, PTL DEF EntriesAreCurrent

\* A reservation of a runtime or a notebook is released by the call that made it,
\* by its session when it is ready, or by another that took it over, through
\* renames and time-outs: none is left behind but by the removal of a session
\* that is observed late and the rename of a notebook whose session is starting
\* (runtimeSession.ts:1599-1708, 1821-1857, 2326-2355, 2780-2791).
THEOREM Reserved == Spec => []ReservationsAreOwned
<1>1. Init => ReservationInv
  BY InitInv DEF Init, ReservationInv, CreatingHasNone, MappedRuns, RInv, OwnedOrStray, HeldByOthers, Call, Idle
<1>2. ReservationInv => ReservationsAreOwned
  BY OwnedByOwners DEF ReservationInv, RInv
<1>. QED
  BY <1>1, <1>2, ReservationStep, PTL DEF Spec

-----------------------------------------------------------------------------
(* The registrations of a language (LanguageRegistry).                     *)

Phases == {"none"} \cup Pending \cup Settled
States == [gen : 0 .. MaxGeneration, phase : Phases]

\* Of a registration rg that offers off, before generation n is made: states st,
\* activations going, observers obs and results h.

\* What is not of the registration is over, and what it offers is its own.
OldIsOver(rg, n, st) ==
  \A c \in Caps : /\ st[c].gen < n
                  /\ st[c].gen # rg => st[c].phase \in {"none", "disposed"}
                  /\ st[c].gen = 0 => st[c].phase = "none"

OffersAreOwned(rg, off, st) == \A c \in off : c \in Caps /\ st[c].gen = rg

\* An activate function that is awaited, for the registration, is that of a
\* capability being activated.
GoingIsKnown(rg, n, st, going) ==
  \A g \in Generations, c \in Caps :
    <<g, c>> \in going =>
      g < n /\ (g = rg => st[c].gen = rg /\ st[c].phase = "activating")

ToldInTime(st, obs) ==
  \A g \in Generations, c \in Caps :
    <<g, c>> \in obs => st[c].gen = g /\ st[c].phase \in Pending

HeldIsOwned(rg, st, h) ==
  h = {<<rg, c>> : c \in {d \in Caps : st[d].gen = rg /\ st[d].phase = "ready"}}

Kept(rg, n, off, st, going, obs, h) ==
  /\ st \in [Caps -> States]
  /\ going \subseteq Generations \X Caps /\ obs \subseteq Generations \X Caps
  /\ OldIsOver(rg, n, st) /\ OffersAreOwned(rg, off, st) /\ GoingIsKnown(rg, n, st, going)
  /\ ToldInTime(st, obs) /\ HeldIsOwned(rg, st, h)

\* What the registered generation offers.
Offering == IF reg = 0 THEN {} ELSE Offered(revision[reg])

RegistryInv ==
  /\ RegistryTypeOK
  /\ reg < next
  /\ reg # 0 => revision[reg] \in Revisions
  /\ installed = {reg} \ {0}
  /\ Kept(reg, next, Offering, states, running, waiting, held)

-----------------------------------------------------------------------------
LEMMA OfferedAreCaps == ASSUME NEW r \in Revisions PROVE Offered(r) \subseteq Caps
<1>1. Offers[r] \in Seq(Caps)
  BY OffersAssumption
<1>2. \A i \in DOMAIN Offers[r] : Offers[r][i] \in Caps
  BY <1>1
<1>. QED
  BY <1>2 DEF Offered, ToSet

LEMMA PhasesDiffer ==
  /\ Pending = {"registered", "activating"}
  /\ Phases = {"none", "registered", "activating", "ready", "degraded", "failed", "disposed"}
  BY DEF Pending, Settled, Phases

\* The loop degrades and activates registered capabilities on offer.
LEMMA DegradesRegistered ==
  ASSUME NEW g, NEW st
  PROVE  Degrades(g, st) \subseteq {c \in Offered(revision[g]) : st[c].phase = "registered"}
  BY DEF Degrades, Offered, ToSet

LEMMA StartsRegistered ==
  ASSUME NEW g, NEW st
  PROVE  Starts(g, st) \subseteq {c \in Offered(revision[g]) : st[c].phase = "registered"}
  BY DEF Starts

\* The states after the loop.
Looped(st, down, up) ==
  [c \in Caps |-> CASE c \in down -> [st[c] EXCEPT !.phase = "degraded"]
                    [] c \in up   -> [st[c] EXCEPT !.phase = "activating"]
                    [] OTHER      -> st[c]]

LEMMA LoopedState ==
  ASSUME NEW st \in [Caps -> States], NEW down, NEW up, down \cap up = {}, NEW c \in Caps
  PROVE  /\ Looped(st, down, up)[c] \in States
         /\ Looped(st, down, up)[c].gen = st[c].gen
         /\ c \in down => Looped(st, down, up)[c].phase = "degraded"
         /\ c \in up => Looped(st, down, up)[c].phase = "activating"
         /\ c \notin down \cup up => Looped(st, down, up)[c] = st[c]
<1>1. st[c] \in States /\ "degraded" \in Phases /\ "activating" \in Phases
  BY PhasesDiffer
<1>2. /\ [st[c] EXCEPT !.phase = "degraded"] \in States
      /\ [st[c] EXCEPT !.phase = "degraded"].gen = st[c].gen
      /\ [st[c] EXCEPT !.phase = "degraded"].phase = "degraded"
  BY <1>1 DEF States
<1>3. /\ [st[c] EXCEPT !.phase = "activating"] \in States
      /\ [st[c] EXCEPT !.phase = "activating"].gen = st[c].gen
      /\ [st[c] EXCEPT !.phase = "activating"].phase = "activating"
  BY <1>1 DEF States
<1>4. CASE c \in down
  <2>1. Looped(st, down, up)[c] = [st[c] EXCEPT !.phase = "degraded"]
    BY <1>4 DEF Looped
  <2>. QED
    BY <1>2, <1>4, <2>1
<1>5. CASE c \in up
  <2>1. Looped(st, down, up)[c] = [st[c] EXCEPT !.phase = "activating"]
    BY <1>5 DEF Looped
  <2>. QED
    BY <1>3, <1>5, <2>1
<1>6. CASE c \notin down \cup up
  <2>1. Looped(st, down, up)[c] = st[c]
    BY <1>6 DEF Looped
  <2>. QED
    BY <1>1, <1>6, <2>1
<1>. QED
  BY <1>4, <1>5, <1>6

LEMMA LoopKeeps ==
  ASSUME NEW rg \in Generations, NEW n \in Nat, rg < n, NEW off, NEW st, NEW going, NEW obs, NEW h,
         Kept(rg, n, off, st, going, obs, h), NEW down, NEW up, down \cap up = {},
         down \subseteq {c \in off : st[c].phase = "registered"},
         up \subseteq {c \in off : st[c].phase = "registered"}
  PROVE  Kept(rg, n, off, Looped(st, down, up), going \cup ({rg} \X up), obs \ ({rg} \X down), h)
<1>. DEFINE new == Looped(st, down, up)
<1>1. /\ st \in [Caps -> States]
      /\ going \subseteq Generations \X Caps /\ obs \subseteq Generations \X Caps
      /\ OldIsOver(rg, n, st) /\ OffersAreOwned(rg, off, st) /\ GoingIsKnown(rg, n, st, going)
      /\ ToldInTime(st, obs) /\ HeldIsOwned(rg, st, h)
  BY DEF Kept
<1>2. \A c \in Caps :
         /\ new[c] \in States
         /\ new[c].gen = st[c].gen
         /\ c \in down => new[c].phase = "degraded"
         /\ c \in up => new[c].phase = "activating"
         /\ c \notin down \cup up => new[c] = st[c]
  BY <1>1, LoopedState
<1>3. new \in [Caps -> States]
  BY <1>2 DEF Looped
<1>. HIDE DEF new
<1>4. \A c \in down \cup up : c \in Caps /\ st[c].gen = rg /\ st[c].phase = "registered"
  BY <1>1 DEF OffersAreOwned
<1>5. OldIsOver(rg, n, new)
  BY <1>1, <1>2, <1>4 DEF OldIsOver, Generations
<1>6. OffersAreOwned(rg, off, new)
  BY <1>1, <1>2 DEF OffersAreOwned
<1>7. going \cup ({rg} \X up) \subseteq Generations \X Caps
  BY <1>1, <1>4
<1>8. GoingIsKnown(rg, n, new, going \cup ({rg} \X up))
  <2>1. SUFFICES ASSUME NEW g \in Generations, NEW c \in Caps,
                        <<g, c>> \in going \cup ({rg} \X up)
                 PROVE  g < n /\ (g = rg => new[c].gen = rg /\ new[c].phase = "activating")
    BY DEF GoingIsKnown
  <2>2. CASE g = rg /\ c \in up
    BY <2>2, <1>2, <1>4
  <2>3. CASE <<g, c>> \in going
    <3>1. g < n /\ (g = rg => st[c].gen = rg /\ st[c].phase = "activating")
      BY <2>3, <1>1 DEF GoingIsKnown
    <3>2. g = rg => c \notin down \cup up
      BY <3>1, <1>4
    <3>. QED
      BY <3>1, <3>2, <1>2
  <2>. QED
    BY <2>1, <2>2, <2>3
<1>9. ToldInTime(new, obs \ ({rg} \X down))
  <2>1. SUFFICES ASSUME NEW g \in Generations, NEW c \in Caps,
                        <<g, c>> \in obs, <<g, c>> \notin {rg} \X down
                 PROVE  new[c].gen = g /\ new[c].phase \in Pending
    BY DEF ToldInTime
  <2>2. st[c].gen = g /\ st[c].phase \in Pending
    BY <2>1, <1>1 DEF ToldInTime
  <2>3. c \notin down
    BY <2>1, <2>2, <1>4
  <2>. QED
    BY <2>2, <2>3, <1>2, PhasesDiffer
<1>10. HeldIsOwned(rg, new, h)
  <2>1. \A c \in Caps : new[c].gen = rg /\ new[c].phase = "ready"
                          <=> st[c].gen = rg /\ st[c].phase = "ready"
    BY <1>2, <1>4
  <2>. QED
    BY <2>1, <1>1 DEF HeldIsOwned
<1>. QED
  BY <1>1, <1>3, <1>5, <1>6, <1>7, <1>8, <1>9, <1>10 DEF Kept, new

\* One capability of the registration comes to an end, and an observer is told.
LEMMA EndKeeps ==
  ASSUME NEW rg \in Generations, NEW n \in Nat, NEW off, NEW st, NEW going, NEW obs, NEW h,
         Kept(rg, n, off, st, going, obs, h), NEW c \in Caps, <<rg, c>> \in going,
         NEW p \in {"ready", "failed"}
  PROVE  Kept(rg, n, off, [st EXCEPT ![c].phase = p], going \ {<<rg, c>>}, obs \ {<<rg, c>>},
              IF p = "ready" THEN h \cup {<<rg, c>>} ELSE h)
<1>. DEFINE new == [st EXCEPT ![c].phase = p]
<1>1. /\ st \in [Caps -> States]
      /\ going \subseteq Generations \X Caps /\ obs \subseteq Generations \X Caps
      /\ OldIsOver(rg, n, st) /\ OffersAreOwned(rg, off, st) /\ GoingIsKnown(rg, n, st, going)
      /\ ToldInTime(st, obs) /\ HeldIsOwned(rg, st, h)
  BY DEF Kept
<1>2. /\ new \in [Caps -> States]
      /\ new[c].gen = st[c].gen /\ new[c].phase = p
      /\ \A d \in Caps \ {c} : new[d] = st[d]
  BY <1>1, PhasesDiffer DEF States
<1>. HIDE DEF new
<1>3. st[c].gen = rg /\ st[c].phase = "activating"
  BY <1>1 DEF GoingIsKnown
<1>4. OldIsOver(rg, n, new)
  BY <1>1, <1>2, <1>3 DEF OldIsOver, Generations
<1>5. OffersAreOwned(rg, off, new)
  BY <1>1, <1>2 DEF OffersAreOwned
<1>6. GoingIsKnown(rg, n, new, going \ {<<rg, c>>})
  BY <1>1, <1>2 DEF GoingIsKnown
<1>7. ToldInTime(new, obs \ {<<rg, c>>})
  BY <1>1, <1>2, <1>3 DEF ToldInTime
<1>8. HeldIsOwned(rg, new, IF p = "ready" THEN h \cup {<<rg, c>>} ELSE h)
  <2>1. CASE p = "ready"
    BY <2>1, <1>1, <1>2, <1>3 DEF HeldIsOwned
  <2>2. CASE p = "failed"
    BY <2>2, <1>1, <1>2, <1>3 DEF HeldIsOwned
  <2>. QED
    BY <2>1, <2>2
<1>. QED
  BY <1>1, <1>2, <1>4, <1>5, <1>6, <1>7, <1>8 DEF Kept, new

-----------------------------------------------------------------------------
LEMMA ActivatesKeeps ==
  ASSUME RegistryInv, reg # 0, NEW st, NEW going, NEW obs, NEW h,
         Kept(reg, next, Offering, st, going, obs, h), Activates(reg, st, going, obs)
  PROVE  Kept(reg, next, Offering, states', running', waiting', h)
<1>. DEFINE down == Degrades(reg, st)
            up   == Starts(reg, st) \ down
<1>1. /\ states' = Looped(st, down, up)
      /\ running' = going \cup ({reg} \X up)
      /\ waiting' = obs \ ({reg} \X down)
  BY DEF Activates, Looped
<1>2. reg \in Generations /\ next \in Nat /\ reg < next
  BY BoundsAssumption DEF RegistryInv, RegistryTypeOK, Generations
<1>3. Offering = Offered(revision[reg])
  BY DEF Offering
<1>4. /\ down \cap up = {}
      /\ down \subseteq {c \in Offering : st[c].phase = "registered"}
      /\ up \subseteq {c \in Offering : st[c].phase = "registered"}
  BY <1>3, DegradesRegistered, StartsRegistered
<1>. HIDE DEF down, up
<1>. QED
  BY <1>1, <1>2, <1>4, LoopKeeps

\* A step that leaves the registration as it is.
LEMMA SameRegistration ==
  ASSUME RegistryInv, UNCHANGED <<reg, next, revision, phase, installed, disposed>>,
         leases' \in [Generations -> 0 .. MaxLeases], passes' \subseteq Generations,
         retries' \in 0 .. MaxRetries,
         Kept(reg, next, Offering, states', running', waiting', held')
  PROVE  RegistryInv'
<1>1. Offering' = Offering
  BY DEF Offering
<1>2. Kept(reg, next, Offering, states, running, waiting, held)'
  BY <1>1
<1>3. held' \subseteq Generations \X Caps
  <2>1. held' = {<<reg, c>> : c \in {d \in Caps : states'[d].gen = reg /\ states'[d].phase = "ready"}}
    BY DEF Kept, HeldIsOwned
  <2>2. \A c \in Caps : states'[c].gen = 0 => states'[c].phase = "none"
    BY DEF Kept, OldIsOver
  <2>3. reg = 0 => held' = {}
    BY <2>1, <2>2
  <2>4. reg # 0 => reg \in Generations
    BY DEF RegistryInv, RegistryTypeOK
  <2>. QED
    BY <2>1, <2>3, <2>4
<1>4. RegistryTypeOK'
  BY <1>3 DEF RegistryInv, RegistryTypeOK, Kept, States, Phases
<1>. QED
  BY <1>2, <1>4 DEF RegistryInv

-----------------------------------------------------------------------------
\* When a registration ends, every state is over, nobody waits and nothing is held.
Over(st) ==
  /\ st \in [Caps -> States]
  /\ \A c \in Caps : /\ st[c].gen < next
                     /\ st[c].phase \in {"none", "disposed"}
                     /\ st[c].gen = 0 => st[c].phase = "none"

LEMMA EndedIsOver ==
  ASSUME RegistryInv, reg # 0
  PROVE  Over(Ended(reg, states)) /\ waiting \ ToldOf(reg, states) = {} /\ HeldWithout(reg) = {}
<1>1. /\ states \in [Caps -> States] /\ waiting \subseteq Generations \X Caps
      /\ OldIsOver(reg, next, states) /\ ToldInTime(states, waiting) /\ HeldIsOwned(reg, states, held)
  BY DEF RegistryInv, Kept
<1>. DEFINE new == Ended(reg, states)
<1>2. ASSUME NEW c \in Caps
      PROVE  /\ new[c] \in States /\ new[c].gen = states[c].gen
             /\ new[c].phase = IF states[c].gen = reg THEN "disposed" ELSE states[c].phase
  <2>1. states[c] \in States /\ "disposed" \in Phases
    BY <1>1, PhasesDiffer
  <2>2. /\ [states[c] EXCEPT !.phase = "disposed"] \in States
        /\ [states[c] EXCEPT !.phase = "disposed"].gen = states[c].gen
        /\ [states[c] EXCEPT !.phase = "disposed"].phase = "disposed"
    BY <2>1 DEF States
  <2>3. new[c] = IF states[c].gen = reg THEN [states[c] EXCEPT !.phase = "disposed"] ELSE states[c]
    BY DEF Ended
  <2>. QED
    BY <2>1, <2>2, <2>3
<1>3. new \in [Caps -> States]
  BY <1>2 DEF Ended
<1>. HIDE DEF new
<1>4. Over(new)
  BY <1>1, <1>2, <1>3 DEF Over, OldIsOver
<1>5. waiting \ ToldOf(reg, states) = {}
  <2>1. ASSUME NEW w \in waiting PROVE w \in ToldOf(reg, states)
    <3>1. PICK g \in Generations, c \in Caps : w = <<g, c>>
      BY <1>1
    <3>2. states[c].gen = g /\ states[c].phase \in Pending
      BY <1>1, <2>1, <3>1 DEF ToldInTime
    <3>3. states[c].gen = reg
      BY <1>1, <3>2, PhasesDiffer DEF OldIsOver
    <3>. QED
      BY <3>1, <3>2, <3>3 DEF ToldOf
  <2>. QED
    BY <2>1
<1>6. HeldWithout(reg) = {}
  BY <1>1 DEF HeldWithout, HeldIsOwned
<1>. QED
  BY <1>4, <1>5, <1>6 DEF new

LEMMA NoneIsOver ==
  ASSUME RegistryInv, reg = 0
  PROVE  Over(states) /\ waiting = {} /\ held = {}
<1>1. /\ states \in [Caps -> States] /\ waiting \subseteq Generations \X Caps
      /\ OldIsOver(0, next, states) /\ ToldInTime(states, waiting) /\ HeldIsOwned(0, states, held)
  BY DEF RegistryInv, Kept
<1>2. Over(states)
  BY <1>1 DEF Over, OldIsOver
<1>3. waiting = {}
  BY <1>1, <1>2, PhasesDiffer DEF ToldInTime, Over
<1>4. held = {}
  BY <1>1, <1>2 DEF HeldIsOwned, Over
<1>. QED
  BY <1>2, <1>3, <1>4

LEMMA GoingIsOlder ==
  ASSUME RegistryInv
  PROVE  \A g \in Generations, c \in Caps : <<g, c>> \in running => g < next
  BY DEF RegistryInv, Kept, GoingIsKnown

LEMMA RetiresLastStep ==
  ASSUME RegistryInv, reg # 0, RetiresLast, UNCHANGED <<next, revision, passes, running, retries>>,
         leases' \in [Generations -> 0 .. MaxLeases], disposed' \in BOOLEAN
  PROVE  RegistryInv'
<1>1. Over(states') /\ waiting' = {} /\ held' = {}
  BY EndedIsOver DEF RetiresLast
<1>2. reg' = 0 /\ installed' = {} /\ phase' = [phase EXCEPT ![reg] = "disposed"]
  BY DEF RetiresLast, RegistryInv
<1>3. Kept(0, next, {}, states', running, {}, {})
  <2>1. OldIsOver(0, next, states') /\ HeldIsOwned(0, states', {})
    BY <1>1 DEF Over, OldIsOver, HeldIsOwned
  <2>2. GoingIsKnown(0, next, states', running)
    BY GoingIsOlder DEF GoingIsKnown, Generations
  <2>. QED
    BY <1>1, <2>1, <2>2 DEF Kept, Over, OffersAreOwned, ToldInTime, RegistryInv
<1>4. Kept(reg, next, Offering, states, running, waiting, held)'
  BY <1>1, <1>2, <1>3 DEF Offering
<1>5. RegistryTypeOK'
  BY <1>1, <1>2 DEF RegistryInv, RegistryTypeOK, Over, States, Phases
<1>6. reg' < next'
  BY <1>2 DEF RegistryInv, RegistryTypeOK
<1>. QED
  BY <1>2, <1>4, <1>5, <1>6 DEF RegistryInv

LEMMA PublishedStates ==
  ASSUME NEW st, Over(st), next \in Generations, NEW r \in Revisions
  PROVE  LET new == Published(next, r, st) IN
         /\ new \in [Caps -> States]
         /\ \A c \in Caps : new[c] = IF c \in Offered(r)
                                     THEN [gen |-> next, phase |-> "registered"] ELSE st[c]
<1>1. [gen |-> next, phase |-> "registered"] \in States
  BY BoundsAssumption, PhasesDiffer DEF States, Generations
<1>. QED
  BY <1>1 DEF Published, Over

LEMMA CommitsStep ==
  ASSUME RegistryInv, NEW r \in Revisions, Commits(r)
  PROVE  RegistryInv'
<1>. DEFINE old == IF reg = 0 THEN states ELSE Ended(reg, states)
<1>1. /\ next \in Generations /\ reg' = next /\ next' = next + 1
      /\ revision' = [revision EXCEPT ![next] = r]
      /\ phase' = [h \in Generations |-> CASE h = next -> "active"
                                           [] h = reg -> "superseded"
                                           [] OTHER -> phase[h]]
      /\ leases' = [leases EXCEPT ![next] = 1]
      /\ installed' = (installed \ {reg}) \cup {next}
      /\ states' = Published(next, r, old)
      /\ waiting' = IF reg = 0 THEN waiting ELSE waiting \ ToldOf(reg, states)
      /\ held' = HeldWithout(reg)
      /\ passes' = passes \cup {next}
      /\ UNCHANGED <<disposed, running, retries>>
  BY DEF Commits, Replaces
<1>2. Over(old) /\ waiting' = {} /\ held' = {}
  BY <1>1, EndedIsOver, NoneIsOver DEF HeldWithout
<1>. HIDE DEF old
<1>3. /\ states' \in [Caps -> States]
      /\ \A c \in Caps : states'[c] = IF c \in Offered(r)
                                     THEN [gen |-> next, phase |-> "registered"] ELSE old[c]
  BY <1>1, <1>2, PublishedStates
<1>4. next \in Nat /\ next # 0 /\ next' \in 1 .. MaxGeneration + 1 /\ next < next'
  BY <1>1, BoundsAssumption DEF Generations
<1>5. Offering' = Offered(r)
  BY <1>1, <1>4 DEF Offering, RegistryInv, RegistryTypeOK
<1>6. Kept(next, next', Offered(r), states', running, {}, {})
  <2>1. OldIsOver(next, next', states')
    <3>1. SUFFICES ASSUME NEW c \in Caps
                   PROVE /\ states'[c].gen < next'
                         /\ states'[c].gen # next => states'[c].phase \in {"none", "disposed"}
                         /\ states'[c].gen = 0 => states'[c].phase = "none"
      BY DEF OldIsOver
    <3>2. CASE c \in Offered(r)
      BY <3>2, <1>3, <1>4
    <3>3. CASE c \notin Offered(r)
      <4>1. states'[c] = old[c] /\ old[c].gen \in Int
        BY <3>3, <1>2, <1>3 DEF Over, States
      <4>2. old[c].gen < next'
        BY <4>1, <1>1, <1>2, <1>4 DEF Over
      <4>. QED
        BY <4>1, <4>2, <1>2 DEF Over
    <3>. QED
      BY <3>2, <3>3
  <2>2. OffersAreOwned(next, Offered(r), states')
    BY <1>3, OfferedAreCaps DEF OffersAreOwned
  <2>3. GoingIsKnown(next, next', states', running)
    BY <1>1, <1>4, GoingIsOlder DEF GoingIsKnown, Generations
  <2>4. \A c \in Caps : states'[c].phase # "ready"
    BY <1>2, <1>3 DEF Over
  <2>5. HeldIsOwned(next, states', {})
    BY <2>4 DEF HeldIsOwned
  <2>. QED
    BY <1>3, <2>1, <2>2, <2>3, <2>5 DEF Kept, ToldInTime, RegistryInv
<1>7. Kept(reg, next, Offering, states, running, waiting, held)'
  BY <1>1, <1>2, <1>5, <1>6
<1>8. RegistryTypeOK'
  <2>0. next # reg
    BY <1>4 DEF RegistryInv
  <2>1. phase'[next] = "active" /\ reg' \in Generations
    BY <1>1, <2>0
  <2>2. phase' \in [Generations -> {"unused", "active", "superseded", "disposed"}]
    BY <1>1 DEF RegistryInv, RegistryTypeOK
  <2>3. MaxLeases \in Nat /\ leases' \in [Generations -> 0 .. MaxLeases]
    <3>1. 1 \in 0 .. MaxLeases
      BY BoundsAssumption, <1>1 DEF Commits
    <3>. QED
      BY <3>1, <1>1, BoundsAssumption DEF RegistryInv, RegistryTypeOK
  <2>4. /\ revision' \in [Generations -> Revisions \cup {0}]
        /\ states' \in [Caps -> [gen : 0 .. MaxGeneration, phase : {"none"} \cup Pending \cup Settled]]
        /\ installed' \subseteq Generations /\ passes' \subseteq Generations
        /\ held' \cup running' \cup waiting' \subseteq Generations \X Caps
        /\ disposed' \in BOOLEAN /\ retries' \in 0 .. MaxRetries
    BY <1>1, <1>2, <1>3 DEF RegistryInv, RegistryTypeOK, States, Phases
  <2>. QED
    BY <1>1, <1>4, <2>1, <2>2, <2>3, <2>4 DEF RegistryTypeOK
<1>9. installed' = {reg'} \ {0} /\ reg' < next' /\ revision'[reg'] \in Revisions
  BY <1>1, <1>4 DEF RegistryInv, RegistryTypeOK
<1>. QED
  BY <1>7, <1>8, <1>9 DEF RegistryInv

LEMMA PassStep ==
  ASSUME RegistryInv, NEW g \in Generations, Pass(g)
  PROVE  RegistryInv'
<1>1. /\ UNCHANGED <<registration, held, retries>> /\ passes' \subseteq Generations
      /\ IF IsCurrent(g) THEN Activates(g, states, running, waiting)
         ELSE UNCHANGED <<states, running, waiting>>
  BY DEF Pass, RegistryInv, RegistryTypeOK
<1>2. Kept(reg, next, Offering, states, running, waiting, held)
  BY DEF RegistryInv
<1>3. Kept(reg, next, Offering, states', running', waiting', held')
  <2>1. CASE IsCurrent(g)
    <3>1. g = reg /\ reg # 0
      BY <2>1 DEF IsCurrent, Generations
    <3>2. Activates(reg, states, running, waiting)
      BY <1>1, <2>1, <3>1
    <3>3. Kept(reg, next, Offering, states', running', waiting', held)
      BY <1>2, <3>1, <3>2, ActivatesKeeps
    <3>. QED
      BY <1>1, <3>3
  <2>2. CASE ~IsCurrent(g)
    BY <1>1, <1>2, <2>2
  <2>. QED
    BY <2>1, <2>2
<1>. QED
  BY <1>1, <1>3, SameRegistration DEF registration, RegistryInv, RegistryTypeOK

LEMMA EndsStep ==
  ASSUME RegistryInv, NEW g \in Generations, NEW c \in Caps, Ends(g, c)
  PROVE  RegistryInv'
<1>1. /\ <<g, c>> \in running
      /\ UNCHANGED <<registration, passes, retries>>
  BY DEF Ends, Returns, Fails
<1>2. Kept(reg, next, Offering, states, running, waiting, held)
  BY DEF RegistryInv
<1>3. Kept(reg, next, Offering, states', running', waiting', held')
  <2>1. CASE IsCurrent(g)
    <3>1. g = reg /\ reg # 0 /\ reg \in Generations /\ next \in Nat
      BY <2>1, BoundsAssumption DEF IsCurrent, Generations, RegistryInv, RegistryTypeOK
    <3>2. ASSUME NEW p \in {"ready", "failed"}
          PROVE  Kept(reg, next, Offering, [states EXCEPT ![c].phase = p],
                      running \ {<<reg, c>>}, waiting \ {<<reg, c>>},
                      IF p = "ready" THEN held \cup {<<reg, c>>} ELSE held)
      BY <1>1, <1>2, <3>1, EndKeeps
    <3>3. CASE Returns(g, c)
      <4>1. /\ held' = held \cup {<<reg, c>>}
            /\ Activates(reg, [states EXCEPT ![c].phase = "ready"],
                         running \ {<<reg, c>>}, waiting \ {<<reg, c>>})
        BY <2>1, <3>1, <3>3 DEF Returns, Keeps
      <4>2. Kept(reg, next, Offering, [states EXCEPT ![c].phase = "ready"],
                 running \ {<<reg, c>>}, waiting \ {<<reg, c>>}, held \cup {<<reg, c>>})
        BY <3>2
      <4>3. Kept(reg, next, Offering, states', running', waiting', held \cup {<<reg, c>>})
        BY <3>1, <4>1, <4>2, ActivatesKeeps
      <4>. QED
        BY <4>1, <4>3
    <3>4. CASE Fails(g, c)
      <4>1. /\ held' = held
            /\ Activates(reg, [states EXCEPT ![c].phase = "failed"],
                         running \ {<<reg, c>>}, waiting \ {<<reg, c>>})
        BY <2>1, <3>1, <3>4 DEF Fails, FailsNow
      <4>2. Kept(reg, next, Offering, [states EXCEPT ![c].phase = "failed"],
                 running \ {<<reg, c>>}, waiting \ {<<reg, c>>}, held)
        BY <3>2
      <4>3. Kept(reg, next, Offering, states', running', waiting', held)
        BY <3>1, <4>1, <4>2, ActivatesKeeps
      <4>. QED
        BY <4>1, <4>3
    <3>. QED
      BY <3>3, <3>4 DEF Ends
  <2>2. CASE ~IsCurrent(g)
    <3>1. running' = running \ {<<g, c>>} /\ UNCHANGED <<held, states, waiting>>
      BY <2>2 DEF Ends, Returns, Fails, Keeps
    <3>2. GoingIsKnown(reg, next, states, running')
      BY <1>2, <3>1 DEF Kept, GoingIsKnown
    <3>. QED
      BY <1>2, <3>1, <3>2 DEF Kept
  <2>. QED
    BY <2>1, <2>2
<1>. QED
  BY <1>1, <1>3, SameRegistration DEF registration, RegistryInv, RegistryTypeOK

LEMMA RetryStep ==
  ASSUME RegistryInv, NEW g \in Generations, NEW cs, Retries(g, cs)
  PROVE  RegistryInv'
<1>. DEFINE again == {c \in Caps : /\ c \in Offered(revision[g])
                                   /\ \/ states[c].phase = "degraded"
                                      \/ c \in cs /\ states[c].phase = "failed"}
<1>1. /\ g = reg /\ reg # 0
      /\ states' = [c \in Caps |-> IF c \in again
                                  THEN [states[c] EXCEPT !.phase = "registered"] ELSE states[c]]
      /\ passes' = passes \cup {g} /\ retries < MaxRetries /\ retries' = retries + 1
      /\ UNCHANGED <<registration, held, running, waiting>>
  BY DEF Retries, Generations
<1>2. /\ states \in [Caps -> States]
      /\ running \subseteq Generations \X Caps /\ waiting \subseteq Generations \X Caps
      /\ OldIsOver(reg, next, states) /\ OffersAreOwned(reg, Offering, states)
      /\ GoingIsKnown(reg, next, states, running)
      /\ ToldInTime(states, waiting) /\ HeldIsOwned(reg, states, held)
  BY DEF RegistryInv, Kept
<1>3. \A c \in again : /\ c \in Caps /\ states[c].gen = reg
                       /\ states[c].phase \in {"degraded", "failed"}
  BY <1>1, <1>2 DEF Offering, OffersAreOwned
<1>. HIDE DEF again
<1>4. ASSUME NEW c \in Caps
      PROVE  /\ states'[c] \in States /\ states'[c].gen = states[c].gen
             /\ states'[c].phase = IF c \in again THEN "registered" ELSE states[c].phase
  <2>1. states[c] \in States /\ "registered" \in Phases
    BY <1>2, PhasesDiffer
  <2>2. /\ [states[c] EXCEPT !.phase = "registered"] \in States
        /\ [states[c] EXCEPT !.phase = "registered"].gen = states[c].gen
        /\ [states[c] EXCEPT !.phase = "registered"].phase = "registered"
    BY <2>1 DEF States
  <2>3. states'[c] = IF c \in again THEN [states[c] EXCEPT !.phase = "registered"] ELSE states[c]
    BY <1>1
  <2>. QED
    BY <2>1, <2>2, <2>3
<1>5. states' \in [Caps -> States]
  BY <1>1, <1>4
<1>6. OldIsOver(reg, next, states')
  BY <1>1, <1>2, <1>3, <1>4 DEF OldIsOver
<1>7. OffersAreOwned(reg, Offering, states')
  BY <1>2, <1>4 DEF OffersAreOwned
<1>8. GoingIsKnown(reg, next, states', running)
  BY <1>2, <1>3, <1>4 DEF GoingIsKnown
<1>9. ToldInTime(states', waiting)
  BY <1>2, <1>4, PhasesDiffer DEF ToldInTime
<1>10. HeldIsOwned(reg, states', held)
  <2>1. \A c \in Caps : states'[c].gen = reg /\ states'[c].phase = "ready"
                          <=> states[c].gen = reg /\ states[c].phase = "ready"
    BY <1>3, <1>4
  <2>. QED
    BY <2>1, <1>2 DEF HeldIsOwned
<1>11. Kept(reg, next, Offering, states', running', waiting', held')
  BY <1>1, <1>2, <1>5, <1>6, <1>7, <1>8, <1>9, <1>10 DEF Kept
<1>12. passes' \subseteq Generations /\ retries' \in 0 .. MaxRetries
  BY <1>1, BoundsAssumption DEF RegistryInv, RegistryTypeOK
<1>. QED
  BY <1>1, <1>11, <1>12, SameRegistration DEF registration, RegistryInv, RegistryTypeOK

LEMMA LeasesStep ==
  ASSUME RegistryInv, NEW g \in Generations, CommitsAgain(g) \/ Disposes(g)
  PROVE  RegistryInv'
<1>1. MaxLeases \in Nat /\ leases \in [Generations -> 0 .. MaxLeases]
  BY BoundsAssumption DEF RegistryInv, RegistryTypeOK
<1>2. leases' \in [Generations -> 0 .. MaxLeases]
  <2>1. CASE CommitsAgain(g)
    BY <2>1, <1>1 DEF CommitsAgain
  <2>2. CASE Disposes(g)
    BY <2>2, <1>1 DEF Disposes
  <2>. QED
    BY <2>1, <2>2
<1>3. CASE /\ g = reg /\ RetiresLast
           /\ UNCHANGED <<next, revision, disposed, passes, running, retries>>
  BY SMTT(20), <1>2, <1>3, RetiresLastStep DEF Generations, RegistryInv, RegistryTypeOK
<1>4. CASE UNCHANGED <<reg, next, revision, phase, installed, disposed,
                       states, held, passes, running, waiting, retries>>
  <2>1. Kept(reg, next, Offering, states', running', waiting', held')
    BY <1>4 DEF RegistryInv
  <2>. QED
    BY <1>2, <1>4, <2>1, SameRegistration DEF RegistryInv, RegistryTypeOK
<1>. QED
  BY <1>3, <1>4 DEF CommitsAgain, Disposes, Releases

LEMMA DisposesAllStep == ASSUME RegistryInv, DisposesAll PROVE RegistryInv'
<1>1. /\ disposed' = TRUE
      /\ UNCHANGED <<next, revision, leases, passes, running, retries>>
  BY DEF DisposesAll
<1>2. CASE reg # 0
  BY <1>1, <1>2, RetiresLastStep DEF DisposesAll, RegistryInv, RegistryTypeOK
<1>3. CASE reg = 0
  <2>1. UNCHANGED <<reg, phase, installed, states, waiting, held>>
    BY <1>3 DEF DisposesAll
  <2>2. Offering' = Offering
    BY <1>1, <2>1 DEF Offering
  <2>. QED
    BY <1>1, <2>1, <2>2 DEF RegistryInv, RegistryTypeOK
<1>. QED
  BY <1>2, <1>3

LEMMA ObserversStep ==
  ASSUME RegistryInv, NEW g \in Generations, NEW c \in Caps, Waits(g, c) \/ GivesUp(g, c)
  PROVE  RegistryInv'
<1>1. /\ UNCHANGED <<registration, states, held, passes, running, retries>>
      /\ waiting' \subseteq waiting \cup {<<g, c>>}
      /\ <<g, c>> \in waiting' => (states[c].gen = g /\ states[c].phase \in Pending) \/ <<g, c>> \in waiting
  BY DEF Waits, GivesUp, Has
<1>2. Kept(reg, next, Offering, states, running, waiting, held)
  BY DEF RegistryInv
<1>3. ToldInTime(states, waiting') /\ waiting' \subseteq Generations \X Caps
  BY <1>1, <1>2 DEF ToldInTime, Kept
<1>4. Kept(reg, next, Offering, states', running', waiting', held')
  BY <1>1, <1>2, <1>3 DEF Kept
<1>. QED
  BY <1>1, <1>4, SameRegistration DEF registration, RegistryInv, RegistryTypeOK

LEMMA RegistryInitInv == RegistryInit => RegistryInv
<1>. SUFFICES ASSUME RegistryInit PROVE RegistryInv
  OBVIOUS
<1>1. [gen |-> 0, phase |-> "none"] \in States
  BY BoundsAssumption, PhasesDiffer DEF States
<1>2. states \in [Caps -> States] /\ \A c \in Caps : states[c].gen = 0 /\ states[c].phase = "none"
  BY <1>1 DEF RegistryInit
<1>3. Kept(reg, next, Offering, states, running, waiting, held)
  BY <1>2 DEF RegistryInit, Kept, OldIsOver, OffersAreOwned, GoingIsKnown, ToldInTime, HeldIsOwned, Offering
<1>4. /\ reg = 0 /\ next \in 1 .. MaxGeneration + 1 /\ retries \in 0 .. MaxRetries
      /\ leases \in [Generations -> 0 .. MaxLeases]
  BY BoundsAssumption DEF RegistryInit
<1>5. RegistryTypeOK
  BY <1>2, <1>4 DEF RegistryInit, RegistryTypeOK, States, Phases
<1>. QED
  BY <1>3, <1>5 DEF RegistryInit, RegistryInv

LEMMA RegistryNextInv == RegistryInv /\ [RegistryNext]_registryVars => RegistryInv'
<1>. SUFFICES ASSUME RegistryInv, [RegistryNext]_registryVars PROVE RegistryInv'
  OBVIOUS
<1>1. ASSUME NEW r \in Revisions, Commits(r) PROVE RegistryInv'
  BY <1>1, CommitsStep
<1>2. CASE DisposesAll
  BY <1>2, DisposesAllStep
<1>3. ASSUME NEW g \in Generations, CommitsAgain(g) \/ Disposes(g) PROVE RegistryInv'
  BY <1>3, LeasesStep
<1>4. ASSUME NEW g \in Generations, Pass(g) PROVE RegistryInv'
  BY <1>4, PassStep
<1>5. ASSUME NEW g \in Generations, Retry(g) PROVE RegistryInv'
  BY <1>5, RetryStep DEF Retry
<1>6. ASSUME NEW g \in Generations, NEW c \in Caps, Ends(g, c) PROVE RegistryInv'
  BY <1>6, EndsStep
<1>7. ASSUME NEW g \in Generations, NEW c \in Caps, Waits(g, c) \/ GivesUp(g, c) PROVE RegistryInv'
  BY <1>7, ObserversStep
<1>8. CASE UNCHANGED registryVars
  <2>1. UNCHANGED <<reg, next, revision, phase, leases, installed, disposed,
                    states, held, passes, running, waiting, retries>>
    BY <1>8 DEF registryVars, registration
  <2>2. Offering' = Offering
    BY <2>1 DEF Offering
  <2>. QED
    BY <2>1, <2>2 DEF RegistryInv, RegistryTypeOK
<1>. QED
  BY <1>1, <1>2, <1>3, <1>4, <1>5, <1>6, <1>7, <1>8 DEF RegistryNext

LEMMA RegistryInvariance == RegistrySpec => []RegistryInv
  BY RegistryInitInv, RegistryNextInv, PTL DEF RegistrySpec

-----------------------------------------------------------------------------
\* The map of registrations, the phases and the states keep their types, and what
\* is registered is active (commit, _retire, releaseLease, dispose).
THEOREM RegistryTypeCorrect == RegistrySpec => []RegistryTypeOK
<1>1. RegistryInv => RegistryTypeOK
  BY DEF RegistryInv
<1>. QED
  BY <1>1, RegistryInvariance, PTL

\* Whatever registrations, withdrawals and retries come while activate functions
\* are awaited, what those return is kept by the registration it is for or disposed
\* of, and nobody waits for a capability of which nothing more is to be heard
\* (_activateOptionalCapability, _retire, commit, waitForCapability).
THEOREM Registered == RegistrySpec => []RegistrationsAreKept
<1>1. ASSUME RegistryInv PROVE ResultsHaveOwners
  BY <1>1 DEF RegistryInv, Kept, HeldIsOwned, ResultsHaveOwners, OwnedBy, Has
<1>2. ASSUME RegistryInv PROVE ObserversAreTold
  <2>1. SUFFICES ASSUME NEW w \in waiting
                 PROVE  Has(w[1], w[2]) /\ states[w[2]].phase \in Pending
    BY DEF ObserversAreTold
  <2>2. PICK g \in Generations, c \in Caps : w = <<g, c>>
    BY <1>2 DEF RegistryInv, Kept
  <2>. QED
    BY <1>2, <2>2 DEF RegistryInv, Kept, ToldInTime, Has
<1>3. RegistryInv => RegistrationsAreKept
  BY <1>1, <1>2 DEF RegistrationsAreKept
<1>. QED
  BY <1>3, RegistryInvariance, PTL
=============================================================================
