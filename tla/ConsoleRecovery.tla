--------------------------- MODULE ConsoleRecovery ---------------------------
(***************************************************************************)
(* How the consoles' contents survive the extension host                   *)
(* (services/console/consoleStateStore.ts, consoleRecoveryFileStore.ts and *)
(* the calls consoleService.ts makes to them).                             *)
(*                                                                         *)
(* Consoles change all the time.  A flush, of which there is one at a time *)
(* for all its callers, queues a write of every changed console, waits for *)
(* these and for what else is queued, and starts over until nothing is     *)
(* changed.  Writes, deletions and the selection of the active console     *)
(* pass one queue.  A write makes a checkpoint file under a new name, then *)
(* a manifest that names it, and then removes the checkpoint it replaces.  *)
(* Any of these fails, a console cannot be serialized, the process crashes *)
(* in between, or what it stored cannot be read when it starts again.      *)
(***************************************************************************)
EXTENDS Naturals, Sequences, FiniteSets

CONSTANTS
  Sessions,    \* sessions that have a console
  MaxRevision, \* bound: changes of a console
  MaxFaults,   \* bound: storage operations and flushes that fail, and crashes
  MaxQueue,    \* bound: selections are not queued beyond it
  Nothing

\* A checkpoint file: what is in it, and what tells its name, a UUID, from that
\* of another of the same content.
Checkpoints == [session : Sessions, revision : 0..MaxRevision, copy : Nat]

ASSUME SessionsAssumption == IsFiniteSet(Sessions)
ASSUME RecoveryBoundsAssumption == MaxRevision \in Nat /\ MaxFaults \in Nat /\ MaxQueue \in Nat
ASSUME NothingAssumption == Nothing \notin Sessions \cup Checkpoints \cup 0..MaxRevision

VARIABLES
  known,    \* "new", "live" or "deleted": what the user did with the session
  bound,    \* _instances
  revision, \* _recoveryRevision of each console: stands for its content
  dirty,    \* _dirtyVersion
  flushed,  \* _flushedVersion
  hash,     \* _lastPersistedHash: the revision it was taken from
  active,   \* _activeConsoleInstance of the console service
  queue,    \* _storageWriteQueue
  stage,    \* how far the operation at its head is
  previous, \* the checkpoint that operation replaces
  flushing, \* what _flushPromise waits for: "no" (there is none), its "writes",
            \* the "queue", or a "pause" for others
  ahead,    \* then, how many queued operations it waits for
  manifest, \* _manifest
  disk,     \* the manifest in the file
  files,    \* the checkpoint files there are
  unread,   \* history: sessions of which the file names what could not be read
  faults    \* faults so far

consoles     == <<known, bound, revision, dirty, active>>
running      == <<queue, stage, previous, flushing, ahead>>
storage      == <<manifest, disk, files, unread>>
recoveryVars == <<consoles, flushed, hash, running, storage, faults>>

Op(kind, s, rev, version) ==
  [kind |-> kind, session |-> s, revision |-> rev, version |-> version, own |-> kind = "write"]

\* The write of a console as it is now, for the version that is dirty now.
Write(s)  == Op("write", s, revision[s], dirty[s])
Delete(s) == Op("delete", s, 0, 0)
Select(s) == Op("select", s, 0, 0)

\* What a crash now would leave of a console.
OnDisk(s)      == disk.entries[s]
Recoverable(s) == OnDisk(s) \in files

IsDirty(s) == s \in bound /\ dirty[s] > flushed[s]

-----------------------------------------------------------------------------
\* The orders in which the writes of these consoles can be queued.
Orders(ss) ==
  {o \in [1..Cardinality(ss) -> ss] : \A i, j \in DOMAIN o : o[i] = o[j] => i = j}

Disown(q) == [i \in DOMAIN q |-> [q[i] EXCEPT !.own = FALSE]]

Unsaved(fl) == {s \in bound : dirty[s] > fl[s]}

\* _doFlush, and what _drainUntilStable waits for after it: a console whose
\* content is the one last written is only marked.
FlushRound(q, fl, h, bad) ==
  LET todo == {s \in Unsaved(fl) : h[s] # revision[s]} IN
  /\ flushed' = [s \in Sessions |-> IF s \in Unsaved(fl) \ todo THEN dirty[s] ELSE fl[s]]
  /\ \E order \in Orders(todo) : queue' = q \o [i \in DOMAIN order |-> Write(order[i])]
  /\ flushing' = IF todo # {} THEN "writes" ELSE IF q # <<>> THEN "queue" ELSE "no"
  /\ ahead' = IF todo = {} THEN Len(q) ELSE 0
  /\ faults' = bad

\* One that cannot be serialized ends the flush, with those before it marked, or
\* their writes queued.
FlushBreaks(q, fl, h, bad) ==
  /\ bad < MaxFaults /\ faults' = bad + 1
  /\ \E before \in SUBSET Unsaved(fl) :
       LET todo == {s \in before : h[s] # revision[s]} IN
       /\ before # Unsaved(fl)
       /\ flushed' = [s \in Sessions |-> IF s \in before \ todo THEN dirty[s] ELSE fl[s]]
       /\ \E order \in Orders(todo) :
            queue' = q \o Disown([i \in DOMAIN order |-> Write(order[i])])
  /\ flushing' = "no" /\ ahead' = 0

DoFlush(q, fl, h, bad) == FlushRound(q, fl, h, bad) \/ FlushBreaks(q, fl, h, bad)

Stays(q, fl, phase, n, bad) ==
  queue' = q /\ flushed' = fl /\ flushing' = phase /\ ahead' = n /\ faults' = bad

\* The loop of _drainUntilStable: again as long as something is changed.
Again(q, fl, h, bad) ==
  IF Unsaved(fl) # {} THEN DoFlush(q, fl, h, bad) ELSE Stays(q, fl, "no", 0, bad)

\* It waited for the queue as it was, and what was queued since does not count.
\* Every third time it pauses if something is changed.
Around(q, fl, h, bad) ==
  Again(q, fl, h, bad) \/ (Unsaved(fl) # {} /\ Stays(q, fl, "pause", 0, bad))

\* Its writes are through: what is queued, then again.
Drain(q, fl, h, bad) ==
  IF q # <<>> THEN Stays(q, fl, "queue", Len(q), bad) ELSE Around(q, fl, h, bad)

\* Fault: a flush that failed is not over.
ResumeStuck(op, ok, q, fl, h, bad) ==
  CASE flushing = "writes" /\ op.own /\ (\E i \in DOMAIN q : q[i].own) -> Stays(q, fl, "writes", 0, bad)
    [] flushing = "writes" /\ op.own /\ ~ok -> Stays(q, fl, "writes", 0, bad)
    [] flushing = "writes" /\ op.own /\ ok /\ (\A i \in DOMAIN q : ~q[i].own) -> Drain(q, fl, h, bad)
    [] flushing = "queue" /\ ahead = 1 -> Around(q, fl, h, bad)
    [] flushing = "queue" /\ ahead > 1 -> Stays(q, fl, "queue", ahead - 1, bad)
    [] flushing \in {"no", "pause"} \/ (flushing = "writes" /\ ~op.own) -> Stays(q, fl, flushing, ahead, bad)

\* Fault: the flush waits for what is over.
ResumeUncounted(op, ok, q, fl, h, bad) ==
  CASE flushing = "writes" /\ op.own /\ ~ok -> Stays(Disown(q), fl, "no", 0, bad)
    [] flushing = "writes" /\ op.own /\ ok /\ (\E i \in DOMAIN q : q[i].own) ->
         Stays(q, fl, "writes", 0, bad)
    [] flushing = "writes" /\ op.own /\ ok /\ (\A i \in DOMAIN q : ~q[i].own) -> Drain(q, fl, h, bad)
    [] flushing = "queue" /\ q = <<>> -> Around(q, fl, h, bad)
    [] flushing \in {"no", "pause"} \/ (flushing = "writes" /\ ~op.own) \/ (flushing = "queue" /\ q # <<>>) ->
         Stays(q, fl, flushing, ahead, bad)

\* What the flush does when this operation has ended: the first of its writes to
\* fail ends it, with the others still queued.
Resume(op, ok, q, fl, h, bad) ==
  CASE flushing = "writes" /\ op.own /\ ~ok -> Stays(Disown(q), fl, "no", 0, bad)
    [] flushing = "writes" /\ op.own /\ ok /\ (\E i \in DOMAIN q : q[i].own) ->
         Stays(q, fl, "writes", 0, bad)
    [] flushing = "writes" /\ op.own /\ ok /\ (\A i \in DOMAIN q : ~q[i].own) -> Drain(q, fl, h, bad)
    [] flushing = "queue" /\ ahead = 1 -> Around(q, fl, h, bad)
    [] flushing = "queue" /\ ahead > 1 -> Stays(q, fl, "queue", ahead - 1, bad)
    [] flushing \in {"no", "pause"} \/ (flushing = "writes" /\ ~op.own) -> Stays(q, fl, flushing, ahead, bad)

\* The operation at the head of the queue ends.  What a write wrote is recorded,
\* and its console is clean if it has not changed since.
Finish(ok) ==
  LET op == Head(queue)
      s  == op.session
      h  == IF ok /\ op.kind = "write" THEN [hash EXCEPT ![s] = op.revision] ELSE hash
      fl == IF ok /\ op.kind = "write" /\ dirty[s] = op.version
            THEN [flushed EXCEPT ![s] = op.version] ELSE flushed IN
  /\ hash' = h
  /\ stage' = "start" /\ previous' = Nothing
  /\ Resume(op, ok, Tail(queue), fl, h, IF ok THEN faults ELSE faults + 1)
  /\ UNCHANGED consoles

-----------------------------------------------------------------------------
Queued(ops) == queue' = queue \o ops /\ UNCHANGED <<stage, previous, flushing, ahead>>

\* A new session's console: what is stored under its name is deleted, and it is
\* shown, perhaps as the active one.
StartConsole(s, activate) ==
  /\ known[s] = "new" /\ known' = [known EXCEPT ![s] = "live"]
  /\ bound' = bound \cup {s}
  /\ dirty' = [dirty EXCEPT ![s] = 1]
  /\ active' = IF activate THEN s ELSE active
  /\ Queued(IF activate THEN <<Delete(s), Select(s)>> ELSE <<Delete(s)>>)
  /\ UNCHANGED <<revision, flushed, hash, storage, faults>>

\* The content of a console changes.
Change(s) ==
  /\ s \in bound /\ revision[s] < MaxRevision
  /\ revision' = [revision EXCEPT ![s] = @ + 1]
  /\ dirty' = [dirty EXCEPT ![s] = @ + 1]
  /\ UNCHANGED <<known, bound, active, flushed, hash, running, storage, faults>>

\* flush, every 5 s or when an execution ends: a call during a flush joins it.
Flush ==
  /\ flushing = "no"
  /\ DoFlush(queue, flushed, hash, faults)
  /\ UNCHANGED <<consoles, hash, stage, previous, storage>>

\* The pause is over.
FlushGoesOn ==
  /\ flushing = "pause"
  /\ Again(queue, flushed, hash, faults)
  /\ UNCHANGED <<consoles, hash, stage, previous, storage>>

\* Another console becomes the active one.
SelectConsole(s) ==
  /\ s \in bound /\ s # active /\ Len(queue) < MaxQueue
  /\ active' = s
  /\ Queued(<<Select(s)>>)
  /\ UNCHANGED <<known, bound, revision, dirty, flushed, hash, storage, faults>>

\* Fault: the console is still flushed.
DeleteConsoleBound(s, replacement) ==
  /\ s \in bound /\ known' = [known EXCEPT ![s] = "deleted"]
  /\ active' = IF active = s THEN replacement ELSE active
  /\ Queued(IF active = s THEN <<Delete(s), Select(replacement)>> ELSE <<Delete(s)>>)
  /\ UNCHANGED <<bound, revision, dirty, flushed, hash, storage, faults>>

\* deletePositronConsoleSession: a console that was active is replaced by one
\* that can take input, or by none.
DeleteConsole(s, replacement) ==
  /\ s \in bound /\ known' = [known EXCEPT ![s] = "deleted"]
  /\ bound' = bound \ {s}
  /\ revision' = [revision EXCEPT ![s] = 0]
  /\ dirty' = [dirty EXCEPT ![s] = 0] /\ flushed' = [flushed EXCEPT ![s] = 0]
  /\ hash' = [hash EXCEPT ![s] = Nothing]
  /\ replacement \in (bound \ {s}) \cup {Nothing}
  /\ active' = IF active = s THEN replacement ELSE active
  /\ Queued(IF active = s THEN <<Delete(s), Select(replacement)>> ELSE <<Delete(s)>>)
  /\ UNCHANGED <<storage, faults>>

-----------------------------------------------------------------------------
Runs(kind, at) == queue # <<>> /\ Head(queue).kind = kind /\ stage = at

MayFail == faults < MaxFaults

NewFile(op) ==
  LET named(c) == [session |-> op.session, revision |-> op.revision, copy |-> c] IN
  named(CHOOSE c \in 0..Cardinality(files) : named(c) \notin files)

\* Fault: the checkpoint takes the place of the one before.
CheckpointWrittenOver ==
  LET op == Head(queue)
      f  == NewFile(op) IN
  /\ Runs("write", "start")
  /\ files' = (files \ {manifest.entries[op.session]}) \cup {f}
  /\ previous' = Nothing
  /\ manifest' = [manifest EXCEPT !.entries[op.session] = f]
  /\ stage' = "manifest"
  /\ UNCHANGED <<consoles, flushed, hash, queue, flushing, ahead, disk, unread, faults>>

\* _writeCheckpoint: the checkpoint is written, and the manifest, in memory,
\* names it.
CheckpointWritten ==
  LET op == Head(queue)
      f  == NewFile(op) IN
  /\ Runs("write", "start")
  /\ files' = files \cup {f}
  /\ previous' = manifest.entries[op.session]
  /\ manifest' = [manifest EXCEPT !.entries[op.session] = f]
  /\ stage' = "manifest"
  /\ UNCHANGED <<consoles, flushed, hash, queue, flushing, ahead, disk, unread, faults>>

\* The file takes this manifest.
PutOnDisk(m) == disk' = m /\ unread' = {s \in unread : m.entries[s] = disk.entries[s]}

\* The manifest is written.
ManifestWritten ==
  /\ Runs("write", "manifest") /\ PutOnDisk(manifest) /\ stage' = "remove"
  /\ UNCHANGED <<consoles, flushed, hash, queue, previous, flushing, ahead, manifest, files, faults>>

\* The checkpoint, or then the manifest, cannot be written.  The manifest in
\* memory stays as it is.
WriteFails ==
  /\ Runs("write", "start") \/ Runs("write", "manifest")
  /\ MayFail /\ Finish(FALSE)
  /\ UNCHANGED storage

\* What the manifest no longer names is removed.  (That this fails is ignored.)
CheckpointRemoved ==
  /\ queue # <<>> /\ stage = "remove"
  /\ files' = files \ {previous}
  /\ Finish(TRUE)
  /\ UNCHANGED <<manifest, disk, unread>>

Forgotten(s) ==
  [entries |-> [manifest.entries EXCEPT ![s] = Nothing],
   active  |-> IF manifest.active = s THEN Nothing ELSE manifest.active]

\* delete: the manifest in memory forgets the session, and then the file does.
DeleteWritten ==
  LET s == Head(queue).session IN
  /\ Runs("delete", "start")
  /\ manifest' = Forgotten(s) /\ PutOnDisk(Forgotten(s))
  /\ previous' = manifest.entries[s]
  /\ stage' = "remove"
  /\ UNCHANGED <<consoles, flushed, hash, queue, flushing, ahead, files, faults>>

\* Or it does not.
DeleteFails ==
  /\ Runs("delete", "start") /\ MayFail
  /\ manifest' = Forgotten(Head(queue).session)
  /\ Finish(FALSE)
  /\ UNCHANGED <<disk, files, unread>>

\* setActiveSessionId: nothing to do, or a manifest that, once written, becomes
\* the one in memory.
Selected ==
  /\ Runs("select", "start")
  /\ LET s == Head(queue).session IN
     IF manifest.active = s THEN UNCHANGED <<manifest, disk, unread>>
     ELSE /\ manifest' = [manifest EXCEPT !.active = s]
          /\ PutOnDisk([manifest EXCEPT !.active = s])
  /\ Finish(TRUE)
  /\ UNCHANGED files

SelectFails ==
  /\ Runs("select", "start") /\ manifest.active # Head(queue).session
  /\ MayFail /\ Finish(FALSE)
  /\ UNCHANGED storage

StorageStep ==
  \/ CheckpointWritten \/ ManifestWritten \/ CheckpointRemoved \/ WriteFails
  \/ DeleteWritten \/ DeleteFails
  \/ Selected \/ SelectFails

-----------------------------------------------------------------------------
NoManifest == [entries |-> [s \in Sessions |-> Nothing], active |-> Nothing]

\* The extension host stops and starts again: initialize reads the manifest and
\* its checkpoints, and the consoles of the sessions that live are restored and
\* bound.  A manifest that cannot be read is an empty one; a console whose
\* checkpoint cannot be read, or restored, is empty, and stays in the manifest.
\* What a console restored may serialize as it was stored, or not.
Crash(opened, read, alike, chosen) ==
  LET live == {s \in Sessions : known[s] = "live"} IN
  /\ MayFail /\ faults' = faults + 1
  /\ UNCHANGED <<known, disk, files>>
  /\ manifest' = IF opened THEN disk ELSE NoManifest
  /\ read \subseteq {s \in live : opened /\ Recoverable(s)}
  /\ unread' = {s \in live \ read : OnDisk(s) # Nothing}
  /\ bound' = live
  /\ revision' = [s \in Sessions |-> IF s \in read THEN OnDisk(s).revision ELSE 0]
  /\ dirty' = [s \in Sessions |-> IF s \in live THEN 1 ELSE 0]
  /\ flushed' = [s \in Sessions |-> 0]
  /\ hash' = [s \in Sessions |-> IF s \in read /\ alike THEN OnDisk(s).revision ELSE Nothing]
  /\ chosen \in IF opened /\ disk.active \in live THEN {disk.active}
                ELSE IF live = {} THEN {Nothing} ELSE live
  /\ active' = chosen
  /\ queue' = IF chosen = Nothing THEN <<>> ELSE <<Select(chosen)>>
  /\ stage' = "start" /\ previous' = Nothing
  /\ flushing' = "no" /\ ahead' = 0

RecoveryInit ==
  /\ known = [s \in Sessions |-> "new"] /\ bound = {}
  /\ revision = [s \in Sessions |-> 0]
  /\ dirty = [s \in Sessions |-> 0] /\ flushed = [s \in Sessions |-> 0]
  /\ hash = [s \in Sessions |-> Nothing]
  /\ active = Nothing
  /\ queue = <<>> /\ stage = "start" /\ previous = Nothing
  /\ flushing = "no" /\ ahead = 0
  /\ manifest = NoManifest /\ disk = NoManifest
  /\ files = {} /\ unread = {}
  /\ faults = 0

ConsoleStep ==
  \E s \in Sessions :
    \/ \E activate \in BOOLEAN : StartConsole(s, activate)
    \/ Change(s)
    \/ SelectConsole(s)
    \/ \E replacement \in Sessions \cup {Nothing} : DeleteConsole(s, replacement)

RecoveryNext ==
  \/ ConsoleStep \/ Flush \/ FlushGoesOn \/ StorageStep
  \/ \E opened, alike \in BOOLEAN, read \in SUBSET Sessions, chosen \in Sessions \cup {Nothing} :
       Crash(opened, read, alike, chosen)

RecoverySpec == RecoveryInit /\ [][RecoveryNext]_recoveryVars

\* The 5 s interval flushes, pauses end, and storage operations do.
FairRecoverySpec ==
  RecoverySpec /\ WF_recoveryVars(Flush) /\ WF_recoveryVars(FlushGoesOn) /\ WF_recoveryVars(StorageStep)

-----------------------------------------------------------------------------
Entries == [Sessions -> Checkpoints \cup {Nothing}]

Ops == [kind : {"write", "delete", "select"}, session : Sessions \cup {Nothing},
        revision : 0..MaxRevision, version : Nat, own : BOOLEAN]

\* Type invariant.
RecoveryTypeOK ==
  /\ known \in [Sessions -> {"new", "live", "deleted"}]
  /\ bound \subseteq Sessions /\ active \in Sessions \cup {Nothing}
  /\ revision \in [Sessions -> 0..MaxRevision]
  /\ dirty \in [Sessions -> Nat] /\ flushed \in [Sessions -> Nat]
  /\ hash \in [Sessions -> 0..MaxRevision \cup {Nothing}]
  /\ queue \in Seq(Ops)
  /\ stage \in {"start", "manifest", "remove"} /\ previous \in Checkpoints \cup {Nothing}
  /\ flushing \in {"no", "writes", "queue", "pause"} /\ ahead \in 0..Len(queue)
  /\ manifest \in [entries : Entries, active : Sessions \cup {Nothing}]
  /\ disk \in [entries : Entries, active : Sessions \cup {Nothing}]
  /\ files \subseteq Checkpoints /\ unread \subseteq Sessions
  /\ faults \in 0..MaxFaults

\* Whenever the process stops, every checkpoint the stored manifest names is
\* there, and is one of that session: failed writes and crashes between the
\* steps of a write lose no console.
ManifestResolves ==
  \A s \in Sessions : OnDisk(s) # Nothing => Recoverable(s) /\ OnDisk(s).session = s

IsStored(s) == Recoverable(s) /\ OnDisk(s).session = s /\ OnDisk(s).revision = revision[s]

\* A console that counts as flushed can be recovered as it is now.
FlushedIsStored == \A s \in bound : ~IsDirty(s) => IsStored(s)

\* Whatever stops the process, what counts as stored can be recovered, from files
\* that are there (consoleStateStore.ts:293-375, consoleRecoveryFileStore.ts:194-275).
StoredIsTrue == ManifestResolves /\ FlushedIsStored

\* A flush that succeeds leaves every console stored as it then is, also what
\* changed, and whatever deletion was queued, during the flush.
FlushStoresAll ==
  (flushing # "no" /\ flushing' = "no" /\ faults' = faults) => \A s \in bound : IsStored(s)'

\* What is stored of a console stays so, or moves forward, late and repeated
\* writes included, until the console is deleted.
Forward(ss) ==
  \A s \in ss :
    OnDisk(s) # Nothing => OnDisk(s)' # Nothing /\ OnDisk(s)'.revision >= OnDisk(s).revision

\* Excused is what could not be read: it is lost.
StoredMovesForward == Forward((bound \cap bound') \ unread)

\* Once its deletion has come up, nothing stores a deleted console again, also if
\* that failed: no write that was queued or begun before it, and no flush, crash
\* or write of another console after it.
DeletedStaysDeleted ==
  \A s \in Sessions :
    (known[s] = "deleted" /\ ~\E i \in DOMAIN queue : queue[i] = Delete(s))
    => disk'.entries[s] \in {disk.entries[s], Nothing}

\* Storage follows the consoles: a flush stores them as they are at its end, no
\* later or repeated write takes one back that was not unreadable, and none comes
\* back once deleted
\* (consoleStateStore.ts:293-375, consoleRecoveryFileStore.ts:194-275).
StorageKeepsUp == [][FlushStoresAll /\ StoredMovesForward /\ DeletedStaysDeleted]_recoveryVars

\* A change is stored, or its console deleted, in the end.
ChangesAreStored ==
  \A s \in Sessions : (s \in bound /\ dirty[s] > flushed[s]) ~> ~(s \in bound /\ dirty[s] > flushed[s])

\* The selection that the last storage operation was for, and that succeeded, is
\* the one stored.
SelectionIsStored ==
  [][(Selected /\ Len(queue) = 1) => disk'.active = active]_recoveryVars

\* Nothing that is stored of a console is lost, also if it could not be read for
\* once (consoleRecoveryFileStore.ts:105-112, 150-154, consoleStateStore.ts:145).
UnreadIsKept == [][Forward(bound \cap bound')]_recoveryVars
=============================================================================
