--------------------------- MODULE ServicesProofs ---------------------------
(***************************************************************************)
(* Proofs about DataConnections, for any number of connects, edits and     *)
(* removals: the connections of a profile are kept.  Then, about           *)
(* ConsoleRecovery, for any sessions, changes, failures and crashes: an    *)
(* operation in the queue, and one under way, fit what is stored and what  *)
(* the consoles are now, so that storage follows the consoles.             *)
(***************************************************************************)
EXTENDS DataConnections, ConsoleRecovery, SequenceTheorems, FiniteSetTheorems, TLAPS

Pcs     == {"none", "queued", "secrets", "driver", "mark", "clear", "drop", "done", "failed"}
Handles == {"none", "open", "closing", "closed", "stuck"}

\* Where a connect has read the parameters, and may still be listed.
Reading(c) == connect[c].pc \in {"secrets", "driver", "mark", "clear"}

-----------------------------------------------------------------------------
(* Handles: where a connection is, from where its connect is.              *)

GivenIsEnding == \A c \in given : handle[c] \in {"closing", "closed", "stuck"}

HandlesFollow ==
  \A c \in Connects :
    /\ connect[c].pc \in {"none", "queued", "secrets", "driver"} => handle[c] = "none"
    /\ connect[c].pc \in {"mark", "clear"} => handle[c] = "open"
    /\ connect[c].pc = "drop" => c \in given
    /\ connect[c].pc = "done" => handle[c] # "none"

ListedIsDone == listed \in Connects => connect[listed].pc = "done"

\* Only of what is listed the user may ask the driver to disconnect.
ClosingIsOwned == \A c \in Connects : handle[c] = "closing" => c \in given \/ listed = c

\* What a connect is about to replace has been disposed of.
ReplacedIsGiven ==
  \A c \in Connects :
    pending = c /\ connect[c].pc = "clear" /\ listed \in Connects => listed \in given

HandleInv ==
  /\ OpenIsOwned /\ GivenIsEnding /\ HandlesFollow
  /\ ListedIsDone /\ ClosingIsOwned /\ ReplacedIsGiven

-----------------------------------------------------------------------------
(* Parameters: what a connect has read, and what is being edited.          *)

EditsHaveVersions ==
  \A e \in Edits : edit[e].pc \in {"secrets", "persist"} => edit[e].version # None

\* An edit takes away the connect under way: one that goes on has read the
\* parameters there are, or read them while an edit was storing secrets.
PendingIsCurrent ==
  \A c \in Connects :
    pending = c /\ Reading(c) =>
      /\ profile # None
      /\ connect[c].read = profile \/ c \in early
      /\ Saving => c \in early

\* An edit that will retire nothing began when there was no profile.
FirstSavesAreEarly ==
  \A e \in Edits :
    edit[e].pc = "secrets" /\ ~edit[e].retires /\ listed \in Connects => listed \in early

ListedWillRetire ==
  listed \in Connects =>
    /\ profile # None
    /\ \/ connect[listed].read = profile
       \/ listed \in early
       \/ \E e \in Edits : edit[e].pc = "persist" /\ edit[e].retires

VersionInv ==
  EditsHaveVersions /\ PendingIsCurrent /\ FirstSavesAreEarly /\ ListedWillRetire

IInv == TypeOK /\ HandleInv /\ VersionInv

-----------------------------------------------------------------------------
LEMMA Numbers ==
  /\ None \notin Connects /\ Stored \notin Connects
  /\ \A e \in Edits : e + 1 \in Versions /\ e + 1 # None
  /\ 1 \in Versions /\ None \notin Versions
BY BoundsAssumption DEF None, Stored, Connects, Edits, Versions

\* A connect goes on.
LEMMA ConnectAt ==
  ASSUME TypeOK, NEW c \in Connects, NEW p \in Pcs, ConnectGoes(c, p)
  PROVE  /\ connect' \in [Connects -> Connect]
         /\ connect'[c].pc = p /\ connect'[c].read = connect[c].read
         /\ \A d \in Connects : d # c => connect'[d] = connect[d]
BY DEF TypeOK, Connect, Pcs, ConnectGoes

LEMMA ConnectOver ==
  ASSUME TypeOK, NEW c \in Connects, Fails(c)
  PROVE  /\ connect' \in [Connects -> Connect]
         /\ connect'[c].pc = "failed"
         /\ \A d \in Connects : d # c => connect'[d] = connect[d]
         /\ pending' # c /\ pending' \in {pending, None}
BY Numbers DEF TypeOK, Connect, Fails, Ends, None

\* The driver is asked to close a connection.
LEMMA AskedAt ==
  ASSUME NEW h \in [Connects -> Handles], NEW c
  PROVE  /\ Asked(h, c) \in [Connects -> Handles]
         /\ \A d \in Connects :
              Asked(h, c)[d] = IF d = c /\ h[d] = "open" THEN "closing" ELSE h[d]
         /\ Given(c) = given \cup ({c} \cap Connects)
BY DEF Asked, Handles, Given

-----------------------------------------------------------------------------
\* A step in which connects do no more than start.
Starting ==
  /\ connect' \in [Connects -> Connect]
  /\ \A c \in Connects :
       \/ connect'[c] = connect[c]
       \/ connect[c].pc = "none" /\ connect'[c].pc = "queued"
  /\ \A c \in Connects : pending' = c => pending = c \/ connect'[c].pc = "queued"

\* The descriptor takes the place of what is listed, or nothing does.
Unlists ==
  listed' \in {None, Stored} /\ handle' = Asked(handle, listed) /\ given' = Given(listed)

LEMMA UnlistsKeepsHandles ==
  ASSUME TypeOK, HandleInv, Starting, Unlists \/ UNCHANGED <<listed, handle, given>>
  PROVE  HandleInv' /\ given' \subseteq Connects
         /\ handle' \in [Connects -> {"none", "open", "closing", "closed", "stuck"}]
<1>. USE Numbers DEF HandleInv, Starting
<1>1. CASE UNCHANGED <<listed, handle, given>>
  <2>1. OpenIsOwned'
    BY <1>1 DEF OpenIsOwned, UnderWay
  <2>2. GivenIsEnding' /\ ClosingIsOwned'
    BY <1>1 DEF GivenIsEnding, ClosingIsOwned
  <2>3. HandlesFollow'
    BY <1>1 DEF HandlesFollow
  <2>4. ListedIsDone' /\ ReplacedIsGiven'
    BY <1>1 DEF ListedIsDone, ReplacedIsGiven
  <2>. QED
    BY <1>1, <2>1, <2>2, <2>3, <2>4 DEF TypeOK
<1>2. CASE Unlists
  <2>1. handle \in [Connects -> Handles]
    BY DEF TypeOK, Handles
  <2>2. /\ handle' \in [Connects -> Handles] /\ listed' \notin Connects
        /\ \A d \in Connects :
             handle'[d] = IF d = listed /\ handle[d] = "open" THEN "closing" ELSE handle[d]
        /\ given' = given \cup ({listed} \cap Connects)
    BY <1>2, <2>1, AskedAt DEF Unlists
  <2>3. given' \subseteq Connects
    BY <2>2 DEF TypeOK
  <2>4. OpenIsOwned'
    BY <2>2 DEF OpenIsOwned, UnderWay
  <2>5. GivenIsEnding'
    BY <2>2, <2>3 DEF GivenIsEnding, ListedIsDone, HandlesFollow, Handles, TypeOK
  <2>6. ClosingIsOwned'
    BY <2>2 DEF ClosingIsOwned
  <2>7. HandlesFollow'
    BY <2>2 DEF HandlesFollow, ListedIsDone
  <2>8. ListedIsDone' /\ ReplacedIsGiven'
    BY <2>2 DEF ListedIsDone, ReplacedIsGiven
  <2>. QED
    BY <2>2, <2>3, <2>4, <2>5, <2>6, <2>7, <2>8 DEF Handles
<1>. QED
  BY <1>1, <1>2

-----------------------------------------------------------------------------
(* Connects.                                                               *)

LEMMA Connecting ==
  ASSUME TypeOK, NEW c \in Connects, NEW list, Starts(c, list)
  PROVE  Starting /\ pending' \in UnderWay'
<1>1. ConnectGoes(c, "queued") /\ pending' = c /\ connect[c].pc = "none"
  BY DEF Starts
<1>2. /\ connect' \in [Connects -> Connect] /\ connect'[c].pc = "queued"
      /\ \A d \in Connects : d # c => connect'[d] = connect[d]
  BY <1>1, ConnectAt DEF Pcs
<1>. QED
  BY <1>1, <1>2 DEF Starting, UnderWay

\* Of the versions nothing is lost where connects do no more than start.
LEMMA StartingKeepsVersions ==
  ASSUME TypeOK, VersionInv, HandleInv, Starting, listed' \in {listed, Stored},
         UNCHANGED <<profile, edit, early>>
  PROVE  VersionInv'
<1>. USE Numbers DEF VersionInv, Starting
<1>1. EditsHaveVersions'
  BY DEF EditsHaveVersions
<1>2. PendingIsCurrent'
  BY DEF PendingIsCurrent, Reading, Saving
<1>3. FirstSavesAreEarly'
  BY DEF FirstSavesAreEarly
<1>4. ListedWillRetire'
  BY DEF ListedWillRetire, HandleInv, ListedIsDone
<1>. QED
  BY <1>1, <1>2, <1>3, <1>4

LEMMA ConnectProfileStep ==
  ASSUME IInv, NEW c \in Connects, ConnectProfile(c)
  PROVE  IInv'
<1>1. Starting /\ pending' \in UnderWay'
  BY Connecting DEF ConnectProfile, IInv
<1>2. HandleInv'
  BY <1>1, UnlistsKeepsHandles DEF ConnectProfile, IInv
<1>3. VersionInv'
  BY <1>1, StartingKeepsVersions DEF ConnectProfile, IInv
<1>4. TypeOK'
  BY <1>1, Numbers DEF ConnectProfile, IInv, TypeOK, Starting, UnderWay
<1>. QED
  BY <1>2, <1>3, <1>4 DEF IInv

\* The connect has failed, and its connection is not open.
LEMMA FailsStep ==
  ASSUME IInv, NEW c \in Connects, Fails(c), c \in UnderWay, handle[c] # "open",
         UNCHANGED <<profile, listed, handle, given, edit, removals, disposed, early>>
  PROVE  IInv'
<1>. USE Numbers DEF IInv
<1>1. /\ connect' \in [Connects -> Connect] /\ connect'[c].pc = "failed"
      /\ \A d \in Connects : d # c => connect'[d] = connect[d]
      /\ pending' # c /\ pending' \in {pending, None}
  BY ConnectOver
<1>2. TypeOK'
  BY <1>1 DEF TypeOK, UnderWay
<1>3. listed # c
  BY DEF HandleInv, ListedIsDone, UnderWay
<1>4. OpenIsOwned'
  BY <1>1 DEF HandleInv, OpenIsOwned, UnderWay
<1>5. HandlesFollow'
  BY <1>1 DEF HandleInv, HandlesFollow
<1>6. GivenIsEnding' /\ ClosingIsOwned'
  BY DEF HandleInv, GivenIsEnding, ClosingIsOwned
<1>7. ListedIsDone' /\ ReplacedIsGiven'
  BY <1>1, <1>3 DEF HandleInv, ListedIsDone, ReplacedIsGiven
<1>8. EditsHaveVersions' /\ FirstSavesAreEarly'
  BY DEF VersionInv, EditsHaveVersions, FirstSavesAreEarly
<1>9. PendingIsCurrent'
  BY <1>1 DEF VersionInv, PendingIsCurrent, Reading, Saving
<1>10. ListedWillRetire'
  BY <1>1, <1>3 DEF VersionInv, ListedWillRetire
<1>. QED
  BY <1>2, <1>4, <1>5, <1>6, <1>7, <1>8, <1>9, <1>10 DEF HandleInv, VersionInv

\* The connection is dropped: its instance is disposed of.
LEMMA DropsStep ==
  ASSUME IInv, NEW c \in Connects, Drops(c), connect[c].pc \in {"driver", "mark", "clear"},
         UNCHANGED <<profile, listed, pending, edit, removals, disposed, early>>
  PROVE  IInv'
<1>. USE Numbers DEF IInv
<1>1. /\ connect' \in [Connects -> Connect] /\ connect'[c].pc = "drop"
      /\ \A d \in Connects : d # c => connect'[d] = connect[d]
  BY ConnectAt DEF Drops, Pcs
<1>2. /\ handle' \in [Connects -> Handles] /\ handle'[c] = "closing"
      /\ \A d \in Connects : d # c => handle'[d] = handle[d]
      /\ given' = given \cup {c}
  BY DEF Drops, Asked, Given, TypeOK, Handles
<1>3. TypeOK'
  BY <1>1, <1>2 DEF TypeOK, UnderWay, Handles
<1>4. listed # c
  BY DEF HandleInv, ListedIsDone
<1>5. OpenIsOwned'
  BY <1>1, <1>2 DEF HandleInv, OpenIsOwned, UnderWay
<1>6. HandlesFollow'
  BY <1>1, <1>2 DEF HandleInv, HandlesFollow
<1>7. GivenIsEnding' /\ ClosingIsOwned'
  BY <1>2 DEF HandleInv, GivenIsEnding, ClosingIsOwned, TypeOK
<1>8. ListedIsDone' /\ ReplacedIsGiven'
  BY <1>1, <1>2, <1>4 DEF HandleInv, ListedIsDone, ReplacedIsGiven
<1>9. EditsHaveVersions' /\ FirstSavesAreEarly'
  BY DEF VersionInv, EditsHaveVersions, FirstSavesAreEarly
<1>10. PendingIsCurrent'
  BY <1>1 DEF VersionInv, PendingIsCurrent, Reading, Saving
<1>11. ListedWillRetire'
  BY <1>1, <1>4 DEF VersionInv, ListedWillRetire
<1>. QED
  BY <1>3, <1>5, <1>6, <1>7, <1>8, <1>9, <1>10, <1>11 DEF HandleInv, VersionInv

\* The connect goes on, and its connection is opened if the driver has it.
LEMMA GoesOnStep ==
  ASSUME IInv, NEW c \in Connects, IsCurrent(c),
         NEW p \in {"driver", "mark"}, ConnectGoes(c, p),
         connect[c].pc = IF p = "driver" THEN "secrets" ELSE "driver",
         handle' = IF p = "driver" THEN handle ELSE [handle EXCEPT ![c] = "open"],
         UNCHANGED <<profile, listed, pending, given, edit, removals, disposed, early>>
  PROVE  IInv'
<1>. USE Numbers DEF IInv
<1>1. /\ connect' \in [Connects -> Connect] /\ connect'[c].pc = p
      /\ connect'[c].read = connect[c].read
      /\ \A d \in Connects : d # c => connect'[d] = connect[d]
  BY ConnectAt DEF Pcs
<1>2. /\ handle' \in [Connects -> Handles]
      /\ handle'[c] = IF p = "driver" THEN handle[c] ELSE "open"
      /\ \A d \in Connects : d # c => handle'[d] = handle[d]
  BY DEF TypeOK, Handles
<1>3. TypeOK'
  BY <1>1, <1>2 DEF TypeOK, UnderWay, Handles
<1>4. listed # c /\ handle[c] = "none" /\ c \notin given
  BY DEF HandleInv, ListedIsDone, HandlesFollow, GivenIsEnding
<1>5. OpenIsOwned'
  BY <1>1, <1>2 DEF HandleInv, OpenIsOwned, UnderWay
<1>6. HandlesFollow'
  BY <1>1, <1>2, <1>4 DEF HandleInv, HandlesFollow
<1>7. GivenIsEnding' /\ ClosingIsOwned'
  BY <1>2, <1>4 DEF HandleInv, GivenIsEnding, ClosingIsOwned, TypeOK
<1>8. ListedIsDone' /\ ReplacedIsGiven'
  BY <1>1, <1>4 DEF HandleInv, ListedIsDone, ReplacedIsGiven
<1>9. EditsHaveVersions' /\ FirstSavesAreEarly'
  BY DEF VersionInv, EditsHaveVersions, FirstSavesAreEarly
<1>10. PendingIsCurrent'
  BY <1>1 DEF VersionInv, PendingIsCurrent, Reading, Saving
<1>11. ListedWillRetire'
  BY <1>1, <1>4 DEF VersionInv, ListedWillRetire
<1>. QED
  BY <1>3, <1>5, <1>6, <1>7, <1>8, <1>9, <1>10, <1>11 DEF HandleInv, VersionInv

LEMMA ReadsStep ==
  ASSUME IInv, NEW c \in Connects, Reads(c)
  PROVE  IInv'
<1>. USE Numbers DEF IInv
<1>1. c \in UnderWay /\ handle[c] = "none" /\ listed # c
  BY DEF Reads, HandleInv, HandlesFollow, ListedIsDone, UnderWay
<1>2. CASE ~IsCurrent(c)
  BY <1>1, <1>2, FailsStep DEF Reads
<1>3. CASE IsCurrent(c)
  <2>1. /\ connect' = [connect EXCEPT ![c].pc = "secrets", ![c].read = profile]
        /\ early' = IF Saving THEN early \cup {c} ELSE early
        /\ UNCHANGED <<profile, listed, pending, handle, given, edit, removals, disposed>>
        /\ pending = c /\ profile # None
    BY <1>3 DEF Reads, IsCurrent
  <2>2. /\ connect' \in [Connects -> Connect] /\ connect'[c].pc = "secrets"
        /\ connect'[c].read = profile
        /\ \A d \in Connects : d # c => connect'[d] = connect[d]
    <3>1. DEFINE r == [connect[c] EXCEPT !.pc = "secrets", !.read = profile]
    <3>2. connect[c] \in Connect /\ profile \in Versions \cup {None}
      BY DEF TypeOK
    <3>3. r \in Connect /\ r.pc = "secrets" /\ r.read = profile
      BY <3>2 DEF Connect
    <3>4. connect' = [connect EXCEPT ![c] = r]
      BY <2>1, <3>2 DEF TypeOK, Connect
    <3>. HIDE DEF r
    <3>. QED
      BY <3>3, <3>4 DEF TypeOK
  <2>3. early' \subseteq Connects /\ early \subseteq early' /\ (Saving => c \in early')
    BY <2>1 DEF TypeOK
  <2>4. TypeOK'
    BY <2>1, <2>2, <2>3 DEF TypeOK, UnderWay
  <2>5. OpenIsOwned' /\ HandlesFollow'
    BY <1>1, <2>1, <2>2 DEF HandleInv, OpenIsOwned, UnderWay, HandlesFollow
  <2>6. GivenIsEnding' /\ ClosingIsOwned'
    BY <2>1 DEF HandleInv, GivenIsEnding, ClosingIsOwned
  <2>7. ListedIsDone' /\ ReplacedIsGiven'
    BY <1>1, <2>1, <2>2 DEF HandleInv, ListedIsDone, ReplacedIsGiven
  <2>8. EditsHaveVersions' /\ FirstSavesAreEarly'
    BY <2>1, <2>3 DEF VersionInv, EditsHaveVersions, FirstSavesAreEarly
  <2>9. PendingIsCurrent'
    BY <2>1, <2>2, <2>3 DEF VersionInv, PendingIsCurrent, Reading, Saving
  <2>10. ListedWillRetire'
    BY <1>1, <2>1, <2>2, <2>3 DEF VersionInv, ListedWillRetire
  <2>. QED
    BY <2>4, <2>5, <2>6, <2>7, <2>8, <2>9, <2>10 DEF HandleInv, VersionInv
<1>. QED
  BY <1>2, <1>3

LEMMA SecretsReadStep ==
  ASSUME IInv, NEW c \in Connects, SecretsRead(c)
  PROVE  IInv'
<1>1. c \in UnderWay /\ handle[c] = "none"
  BY DEF SecretsRead, IInv, HandleInv, HandlesFollow, UnderWay
<1>2. CASE IsCurrent(c) /\ ConnectGoes(c, "driver") /\ UNCHANGED pending
  <2>1. handle' = handle /\ connect[c].pc = "secrets"
    BY DEF SecretsRead
  <2>. QED
    BY <1>2, <2>1, GoesOnStep DEF SecretsRead
<1>3. CASE Fails(c)
  BY <1>1, <1>3, FailsStep DEF SecretsRead
<1>. QED
  BY <1>2, <1>3 DEF SecretsRead

LEMMA DriverConnectsStep ==
  ASSUME IInv, NEW c \in Connects, DriverConnects(c)
  PROVE  IInv'
<1>1. c \in UnderWay /\ handle[c] = "none" /\ connect[c].pc = "driver"
  BY DEF DriverConnects, IInv, HandleInv, HandlesFollow, UnderWay
<1>2. UNCHANGED <<profile, listed, edit, removals, disposed, early>>
  BY DEF DriverConnects
<1>3. CASE IsCurrent(c) /\ ConnectGoes(c, "mark") /\ handle' = [handle EXCEPT ![c] = "open"]
           /\ UNCHANGED <<given, pending>>
  BY <1>1, <1>2, <1>3, GoesOnStep
<1>4. CASE Drops(c) /\ UNCHANGED pending
  BY <1>1, <1>2, <1>4, DropsStep
<1>5. CASE Fails(c) /\ UNCHANGED <<handle, given>>
  BY <1>1, <1>2, <1>5, FailsStep
<1>. QED
  BY <1>3, <1>4, <1>5 DEF DriverConnects

\* What is listed is disposed of before the connection takes its place.
LEMMA MarkedStep ==
  ASSUME IInv, NEW c \in Connects, Marked(c)
  PROVE  IInv'
<1>. USE Numbers DEF IInv
<1>1. CASE Drops(c)
  BY <1>1, DropsStep DEF Marked
<1>2. CASE ~Drops(c)
  <2>1. /\ connect[c].pc = "mark" /\ pending = c
        /\ connect' = [connect EXCEPT ![c].pc = "clear",
                         ![c].old = IF listed \in Connects THEN listed ELSE None]
        /\ handle' = Asked(handle, listed) /\ given' = Given(listed)
        /\ UNCHANGED <<profile, listed, pending, edit, removals, disposed, early>>
    BY <1>2 DEF Marked, IsCurrent
  <2>2. /\ connect' \in [Connects -> Connect] /\ connect'[c].pc = "clear"
        /\ connect'[c].read = connect[c].read
        /\ \A d \in Connects : d # c => connect'[d] = connect[d]
    <3>1. DEFINE r == [connect[c] EXCEPT !.pc = "clear",
                         !.old = IF listed \in Connects THEN listed ELSE None]
    <3>2. connect[c] \in Connect
      BY DEF TypeOK
    <3>3. r \in Connect /\ r.pc = "clear" /\ r.read = connect[c].read
      BY <3>2 DEF Connect
    <3>4. connect' = [connect EXCEPT ![c] = r]
      BY <2>1, <3>2 DEF TypeOK, Connect
    <3>. HIDE DEF r
    <3>. QED
      BY <3>3, <3>4 DEF TypeOK
  <2>3. handle \in [Connects -> Handles]
    BY DEF TypeOK, Handles
  <2>4. /\ handle' \in [Connects -> Handles]
        /\ \A d \in Connects :
             handle'[d] = IF d = listed /\ handle[d] = "open" THEN "closing" ELSE handle[d]
        /\ given' = given \cup ({listed} \cap Connects)
    BY <2>1, <2>3, AskedAt
  <2>5. TypeOK'
    BY <2>1, <2>2, <2>4 DEF TypeOK, UnderWay, Handles
  <2>6. listed # c
    BY <2>1 DEF HandleInv, ListedIsDone
  <2>7. OpenIsOwned'
    BY <2>1, <2>2, <2>4 DEF HandleInv, OpenIsOwned, UnderWay
  <2>8. HandlesFollow'
    BY <2>1, <2>2, <2>4, <2>6 DEF HandleInv, HandlesFollow, ListedIsDone
  <2>9. GivenIsEnding'
    <3>1. ASSUME NEW d \in given' PROVE d \in Connects /\ handle'[d] \in {"closing", "closed", "stuck"}
      <4>1. CASE d \in given
        BY <4>1, <2>4 DEF HandleInv, GivenIsEnding, TypeOK
      <4>2. CASE d = listed /\ listed \in Connects
        <5>1. handle[d] # "none" /\ handle[d] \in Handles
          BY <4>2, <2>3 DEF HandleInv, ListedIsDone, HandlesFollow
        <5>. QED
          BY <4>2, <5>1, <2>4 DEF Handles
      <4>. QED
        BY <4>1, <4>2, <2>4
    <3>. QED
      BY <3>1 DEF GivenIsEnding
  <2>10. ClosingIsOwned'
    BY <2>1, <2>4 DEF HandleInv, ClosingIsOwned
  <2>11. ListedIsDone' /\ ReplacedIsGiven'
    BY <2>1, <2>2, <2>4, <2>6 DEF HandleInv, ListedIsDone, ReplacedIsGiven
  <2>12. EditsHaveVersions' /\ FirstSavesAreEarly'
    BY <2>1 DEF VersionInv, EditsHaveVersions, FirstSavesAreEarly
  <2>13. PendingIsCurrent'
    BY <2>1, <2>2 DEF VersionInv, PendingIsCurrent, Reading, Saving
  <2>14. ListedWillRetire'
    BY <2>1, <2>2, <2>6 DEF VersionInv, ListedWillRetire
  <2>. QED
    BY <2>5, <2>7, <2>8, <2>9, <2>10, <2>11, <2>12, <2>13, <2>14 DEF HandleInv, VersionInv
<1>. QED
  BY <1>1, <1>2

LEMMA PublishesStep ==
  ASSUME IInv, NEW c \in Connects, Publishes(c)
  PROVE  IInv'
<1>. USE Numbers DEF IInv
<1>1. CASE ~IsCurrent(c)
  BY <1>1, DropsStep DEF Publishes
<1>2. CASE IsCurrent(c)
  <2>1. /\ connect[c].pc = "clear" /\ pending = c /\ pending' = None /\ listed' = c
        /\ connect' = [connect EXCEPT ![c].pc = "done", ![c].old = None]
        /\ UNCHANGED <<profile, handle, given, edit, removals, disposed, early>>
    BY <1>2 DEF Publishes, IsCurrent, Lists, Ends
  <2>2. /\ connect' \in [Connects -> Connect] /\ connect'[c].pc = "done"
        /\ connect'[c].read = connect[c].read
        /\ \A d \in Connects : d # c => connect'[d] = connect[d]
    <3>1. DEFINE r == [connect[c] EXCEPT !.pc = "done", !.old = None]
    <3>2. connect[c] \in Connect
      BY DEF TypeOK
    <3>3. r \in Connect /\ r.pc = "done" /\ r.read = connect[c].read
      BY <3>2 DEF Connect
    <3>4. connect' = [connect EXCEPT ![c] = r]
      BY <2>1, <3>2 DEF TypeOK, Connect
    <3>. HIDE DEF r
    <3>. QED
      BY <3>3, <3>4 DEF TypeOK
  <2>3. TypeOK'
    BY <2>1, <2>2 DEF TypeOK
  <2>4. handle[c] = "open" /\ c \notin given
    BY <2>1 DEF HandleInv, HandlesFollow, GivenIsEnding
  <2>5. OpenIsOwned'
    <3>1. ASSUME NEW d \in Connects, handle[d] = "open", d # c PROVE d \in UnderWay'
      <4>1. d \notin given
        BY <3>1 DEF HandleInv, GivenIsEnding
      <4>2. listed # d
        BY <4>1, <2>1 DEF HandleInv, ReplacedIsGiven
      <4>. QED
        BY <3>1, <4>2, <2>2 DEF HandleInv, OpenIsOwned, UnderWay
    <3>. QED
      BY <3>1, <2>1 DEF OpenIsOwned
  <2>6. HandlesFollow'
    BY <2>1, <2>2, <2>4 DEF HandleInv, HandlesFollow
  <2>7. GivenIsEnding'
    BY <2>1 DEF HandleInv, GivenIsEnding
  <2>8. ClosingIsOwned'
    BY <2>1 DEF HandleInv, ClosingIsOwned, ReplacedIsGiven
  <2>9. ListedIsDone' /\ ReplacedIsGiven'
    BY <2>1, <2>2 DEF ListedIsDone, ReplacedIsGiven
  <2>10. EditsHaveVersions' /\ PendingIsCurrent'
    BY <2>1 DEF VersionInv, EditsHaveVersions, PendingIsCurrent
  <2>11. Reading(c)
    BY <2>1 DEF Reading
  <2>12. FirstSavesAreEarly'
    BY <2>1, <2>11 DEF VersionInv, FirstSavesAreEarly, PendingIsCurrent, Saving
  <2>13. ListedWillRetire'
    BY <2>1, <2>2, <2>11 DEF VersionInv, ListedWillRetire, PendingIsCurrent
  <2>. QED
    BY <2>3, <2>5, <2>6, <2>7, <2>8, <2>9, <2>10, <2>12, <2>13 DEF HandleInv, VersionInv
<1>. QED
  BY <1>1, <1>2

LEMMA DroppedStep ==
  ASSUME IInv, NEW c \in Connects, Dropped(c)
  PROVE  IInv'
<1>1. c \in UnderWay /\ handle[c] # "open"
  BY DEF Dropped, IInv, HandleInv, HandlesFollow, GivenIsEnding, UnderWay
<1>. QED
  BY <1>1, FailsStep DEF Dropped

-----------------------------------------------------------------------------
(* Drivers.                                                                *)

\* A handle changes, of a connection that is being closed or will be.
LEMMA HandleStep ==
  ASSUME IInv, NEW c \in Connects, NEW h \in Handles, handle' = [handle EXCEPT ![c] = h],
         \/ h = "closing" /\ listed = c /\ handle[c] = "open"
         \/ /\ handle[c] = "closing"
            /\ h = "closed" \/ (IF c \in given THEN h = "stuck" ELSE h = "open"),
         UNCHANGED <<profile, listed, pending, connect, given, edit, removals, disposed, early>>
  PROVE  IInv'
<1>. USE Numbers DEF IInv
<1>1. /\ handle' \in [Connects -> Handles] /\ handle'[c] = h
      /\ \A d \in Connects : d # c => handle'[d] = handle[d]
  BY DEF TypeOK, Handles
<1>2. TypeOK'
  BY <1>1 DEF TypeOK, UnderWay, Handles
<1>3. OpenIsOwned' /\ ClosingIsOwned'
  BY <1>1 DEF HandleInv, OpenIsOwned, UnderWay, ClosingIsOwned
<1>4. GivenIsEnding'
  BY <1>1 DEF HandleInv, GivenIsEnding, TypeOK
<1>5. HandlesFollow'
  BY <1>1 DEF HandleInv, HandlesFollow, ListedIsDone
<1>6. ListedIsDone' /\ ReplacedIsGiven'
  BY DEF HandleInv, ListedIsDone, ReplacedIsGiven
<1>7. EditsHaveVersions' /\ PendingIsCurrent'
  BY DEF VersionInv, EditsHaveVersions, PendingIsCurrent, Reading, Saving
<1>8. FirstSavesAreEarly' /\ ListedWillRetire'
  BY DEF VersionInv, FirstSavesAreEarly, ListedWillRetire
<1>. QED
  BY <1>2, <1>3, <1>4, <1>5, <1>6, <1>7, <1>8 DEF HandleInv, VersionInv

LEMMA DisconnectStep ==
  ASSUME IInv, Disconnect
  PROVE  IInv'
<1>1. listed \in Connects /\ "closing" \in Handles
  BY DEF Disconnect, Handles
<1>. QED
  BY <1>1, HandleStep DEF Disconnect

LEMMA DisconnectedStep ==
  ASSUME IInv, NEW c \in Connects, Disconnected(c)
  PROVE  IInv'
<1>1. {"closed", IF c \in given THEN "stuck" ELSE "open"} \subseteq Handles
  BY DEF Handles
<1>2. PICK h \in {"closed", IF c \in given THEN "stuck" ELSE "open"} :
        handle' = [handle EXCEPT ![c] = h]
  BY DEF Disconnected
<1>3. h \in Handles /\ (h = "closed" \/ (IF c \in given THEN h = "stuck" ELSE h = "open"))
  BY <1>1, <1>2
<1>. QED
  BY <1>2, <1>3, HandleStep DEF Disconnected

\* A descriptor is registered: a connection stays, or what is listed is disposed of.
LEMMA Registering ==
  ASSUME Registers
  PROVE  /\ Unlists \/ UNCHANGED <<listed, handle, given>>
         /\ listed' \in {listed, Stored}
BY DEF Registers, Unlists

LEMMA DriversChangeStep ==
  ASSUME IInv, DriversChange
  PROVE  IInv'
<1>1. /\ Unlists \/ UNCHANGED <<listed, handle, given>>
      /\ listed' \in {listed, Stored}
  BY Registering DEF DriversChange
<1>2. UNCHANGED <<profile, pending, connect, edit, removals, disposed, early>>
  BY DEF DriversChange
<1>3. Starting
  BY <1>2 DEF Starting, IInv, TypeOK
<1>4. /\ HandleInv' /\ given' \subseteq Connects
      /\ handle' \in [Connects -> {"none", "open", "closing", "closed", "stuck"}]
  BY <1>1, <1>3, UnlistsKeepsHandles DEF IInv
<1>5. VersionInv'
  BY <1>1, <1>2, <1>3, StartingKeepsVersions DEF IInv
<1>6. TypeOK'
  BY <1>1, <1>2, <1>4 DEF IInv, TypeOK, UnderWay
<1>. QED
  BY <1>4, <1>5, <1>6 DEF IInv

-----------------------------------------------------------------------------
(* Edits, and the end of the profile.                                      *)

LEMMA EditAt ==
  ASSUME TypeOK, NEW e \in Edits, NEW p \in {"persist", "retire"}, EditGoes(e, p)
  PROVE  /\ edit' \in [Edits -> Edit]
         /\ edit'[e].pc = p /\ edit'[e].version = edit[e].version
         /\ edit'[e].retires = edit[e].retires
         /\ \A f \in Edits : f # e => edit'[f] = edit[f]
BY DEF TypeOK, Edit, EditGoes

LEMMA EditOver ==
  ASSUME TypeOK, NEW e \in Edits, NEW p \in {"done", "failed"}, EditIsOver(e, p)
  PROVE  /\ edit' \in [Edits -> Edit]
         /\ edit'[e].pc = p
         /\ \A f \in Edits : f # e => edit'[f] = edit[f]
BY DEF TypeOK, Edit, EditIsOver

LEMMA AddUpdateProfileStep ==
  ASSUME IInv, NEW e \in Edits, NEW kind \in {"name", "parameters", "secrets"},
         AddUpdateProfile(e, kind)
  PROVE  IInv'
<1>. USE Numbers DEF IInv
<1>. DEFINE version == IF kind = "name" /\ profile # None THEN profile ELSE e + 1
            retires == profile # None /\ kind # "name"
            r == [pc |-> IF kind = "secrets" THEN "secrets" ELSE "persist",
                  version |-> version, retires |-> retires, old |-> None]
<1>1. /\ pending' = IF retires THEN None ELSE pending
      /\ edit' = [edit EXCEPT ![e] = r]
      /\ profile' = IF kind = "secrets" THEN profile ELSE version
      /\ edit[e].pc = "none"
      /\ UNCHANGED <<listed, connect, handle, given, removals, disposed, early>>
  BY DEF AddUpdateProfile
<1>2. version \in Versions /\ version # None /\ retires \in BOOLEAN
  BY DEF TypeOK
<1>. HIDE DEF version
<1>3. /\ edit' \in [Edits -> Edit]
      /\ edit'[e].pc = IF kind = "secrets" THEN "secrets" ELSE "persist"
      /\ edit'[e].version = version /\ edit'[e].retires = retires
      /\ \A f \in Edits : f # e => edit'[f] = edit[f]
  BY <1>1, <1>2 DEF TypeOK, Edit
<1>4. TypeOK'
  BY <1>1, <1>2, <1>3 DEF TypeOK, UnderWay
<1>5. Starting
  BY <1>1 DEF Starting, TypeOK
<1>6. HandleInv'
  BY <1>1, <1>5, UnlistsKeepsHandles
<1>7. EditsHaveVersions'
  BY <1>2, <1>3 DEF VersionInv, EditsHaveVersions
<1>8. PendingIsCurrent'
  <2>1. SUFFICES ASSUME NEW c \in Connects, pending' = c, Reading(c)'
                 PROVE  /\ profile' # None
                        /\ connect'[c].read = profile' \/ c \in early'
                        /\ Saving' => c \in early'
    BY DEF PendingIsCurrent
  <2>2. pending = c /\ Reading(c) /\ ~retires
    BY <1>1, <2>1 DEF Reading
  <2>3. profile # None
    BY <2>2 DEF VersionInv, PendingIsCurrent
  <2>4. kind = "name" /\ profile' = profile
    BY <1>1, <2>2, <2>3 DEF version
  <2>5. Saving' => Saving
    BY <1>3, <2>4 DEF Saving
  <2>. QED
    BY <1>1, <2>2, <2>3, <2>4, <2>5 DEF VersionInv, PendingIsCurrent
<1>9. FirstSavesAreEarly'
  BY <1>1, <1>3 DEF VersionInv, FirstSavesAreEarly, ListedWillRetire
<1>10. ListedWillRetire'
  <2>1. CASE kind = "name" /\ profile # None
    <3>1. profile' = profile
      BY <1>1, <2>1 DEF version
    <3>. QED
      BY <1>1, <1>3, <3>1 DEF VersionInv, ListedWillRetire
  <2>2. CASE profile = None
    BY <1>1, <2>2 DEF VersionInv, ListedWillRetire
  <2>3. CASE kind = "secrets" /\ profile # None
    BY <1>1, <1>3, <2>3 DEF VersionInv, ListedWillRetire
  <2>4. CASE kind = "parameters" /\ profile # None
    <3>1. edit'[e].pc = "persist" /\ edit'[e].retires /\ profile' # None
      BY <1>1, <1>2, <1>3, <2>4
    <3>. QED
      BY <3>1 DEF ListedWillRetire
  <2>. QED
    BY <2>1, <2>2, <2>3, <2>4
<1>. QED
  BY <1>4, <1>6, <1>7, <1>8, <1>9, <1>10 DEF VersionInv

LEMMA SecretsStoredStep ==
  ASSUME IInv, NEW e \in Edits, SecretsStored(e)
  PROVE  IInv'
<1>. USE Numbers DEF IInv
<1>1. /\ edit[e].pc = "secrets"
      /\ UNCHANGED <<listed, pending, connect, handle, given, removals, disposed>>
      /\ early' = early \/ early' = early \cup ({listed} \cap Connects)
      /\ early \subseteq early' /\ (early \subseteq Connects => early' \subseteq Connects)
  BY DEF SecretsStored
<1>2. Starting
  BY <1>1 DEF Starting, TypeOK
<1>3. HandleInv'
  BY <1>1, <1>2, UnlistsKeepsHandles
<1>4. Saving
  BY <1>1 DEF Saving
<1>5. CASE EditGoes(e, "persist") /\ profile' = edit[e].version
  <2>1. /\ edit' \in [Edits -> Edit] /\ edit'[e].pc = "persist"
        /\ edit'[e].version = edit[e].version /\ edit'[e].retires = edit[e].retires
        /\ \A f \in Edits : f # e => edit'[f] = edit[f]
    BY <1>5, EditAt
  <2>2. profile' \in Versions \cup {None} /\ profile' # None
    BY <1>1, <1>5 DEF TypeOK, Edit, VersionInv, EditsHaveVersions
  <2>3. TypeOK'
    BY <1>1, <2>1, <2>2 DEF TypeOK, UnderWay
  <2>4. EditsHaveVersions'
    BY <1>1, <2>1 DEF VersionInv, EditsHaveVersions
  <2>5. PendingIsCurrent'
    BY <1>1, <1>4, <2>2 DEF VersionInv, PendingIsCurrent, Reading
  <2>6. FirstSavesAreEarly'
    BY <1>1, <2>1 DEF VersionInv, FirstSavesAreEarly
  <2>7. ListedWillRetire'
    <3>1. CASE edit[e].retires
      BY <2>1, <2>2, <3>1 DEF ListedWillRetire
    <3>2. CASE ~edit[e].retires
      BY <1>1, <2>2, <3>2 DEF VersionInv, FirstSavesAreEarly, ListedWillRetire
    <3>. QED
      BY <3>1, <3>2
  <2>. QED
    BY <1>3, <2>3, <2>4, <2>5, <2>6, <2>7 DEF VersionInv
<1>6. CASE EditIsOver(e, "failed") /\ UNCHANGED profile
  <2>1. /\ edit' \in [Edits -> Edit] /\ edit'[e].pc = "failed"
        /\ \A f \in Edits : f # e => edit'[f] = edit[f]
    BY <1>6, EditOver
  <2>2. TypeOK'
    BY <1>1, <1>6, <2>1 DEF TypeOK, UnderWay
  <2>3. EditsHaveVersions' /\ FirstSavesAreEarly'
    BY <1>1, <2>1 DEF VersionInv, EditsHaveVersions, FirstSavesAreEarly
  <2>4. PendingIsCurrent'
    BY <1>1, <1>4, <1>6 DEF VersionInv, PendingIsCurrent, Reading
  <2>5. ListedWillRetire'
    BY <1>1, <1>6, <2>1 DEF VersionInv, ListedWillRetire
  <2>. QED
    BY <1>3, <2>2, <2>3, <2>4, <2>5 DEF VersionInv
<1>. QED
  BY <1>5, <1>6 DEF SecretsStored

LEMMA SavedStep ==
  ASSUME IInv, NEW e \in Edits, Saved(e),
         edit[e].pc \in {"retire", "persist"}, edit[e].pc = "persist" => ~edit[e].retires,
         UNCHANGED <<profile, removals, disposed, early>>
  PROVE  IInv'
<1>. USE Numbers DEF IInv
<1>1. /\ Unlists \/ UNCHANGED <<listed, handle, given>>
      /\ listed' \in {listed, Stored}
  BY Registering DEF Saved
<1>2. Starting /\ (pending' = pending \/ pending' \in UnderWay')
  <2>1. CASE \E c \in Connects : Starts(c, listed)
    BY <2>1, Connecting
  <2>2. CASE UNCHANGED <<pending, connect>>
    BY <2>2 DEF Starting, TypeOK
  <2>. QED
    BY <2>1, <2>2 DEF Saved
<1>3. /\ edit' \in [Edits -> Edit] /\ edit'[e].pc = "done"
      /\ \A f \in Edits : f # e => edit'[f] = edit[f]
  BY EditOver DEF Saved
<1>4. /\ HandleInv' /\ given' \subseteq Connects
      /\ handle' \in [Connects -> {"none", "open", "closing", "closed", "stuck"}]
  BY <1>1, <1>2, UnlistsKeepsHandles
<1>5. TypeOK'
  BY <1>1, <1>2, <1>3, <1>4 DEF TypeOK, UnderWay, Starting
<1>6. EditsHaveVersions'
  BY <1>3 DEF VersionInv, EditsHaveVersions
<1>7. Saving' => Saving
  BY <1>3 DEF Saving
<1>8. PendingIsCurrent'
  BY <1>2, <1>7 DEF VersionInv, PendingIsCurrent, Reading, Starting
<1>9. FirstSavesAreEarly'
  BY <1>1, <1>3 DEF VersionInv, FirstSavesAreEarly
<1>10. ListedWillRetire'
  BY <1>1, <1>2, <1>3 DEF VersionInv, ListedWillRetire, HandleInv, ListedIsDone, Starting
<1>. QED
  BY <1>4, <1>5, <1>6, <1>8, <1>9, <1>10 DEF VersionInv

LEMMA PersistedStep ==
  ASSUME IInv, NEW e \in Edits, Persisted(e)
  PROVE  IInv'
<1>. USE Numbers DEF IInv
<1>1. edit[e].pc = "persist" /\ UNCHANGED <<profile, removals, disposed>>
  BY DEF Persisted
<1>2. CASE /\ edit[e].retires
           /\ edit' = [edit EXCEPT ![e].pc = "retire",
                         ![e].old = IF listed \in Connects THEN listed ELSE None]
           /\ listed' = None
           /\ handle' = Asked(handle, listed) /\ given' = Given(listed)
           /\ UNCHANGED <<pending, connect, early>>
  <2>1. /\ edit' \in [Edits -> Edit] /\ edit'[e].pc = "retire"
        /\ \A f \in Edits : f # e => edit'[f] = edit[f]
    <3>1. DEFINE r == [edit[e] EXCEPT !.pc = "retire",
                         !.old = IF listed \in Connects THEN listed ELSE None]
    <3>2. edit[e] \in Edit
      BY DEF TypeOK
    <3>3. r \in Edit /\ r.pc = "retire"
      BY <3>2 DEF Edit
    <3>4. edit' = [edit EXCEPT ![e] = r]
      BY <1>2, <3>2 DEF TypeOK, Edit
    <3>. HIDE DEF r
    <3>. QED
      BY <3>3, <3>4 DEF TypeOK
  <2>2. Starting /\ Unlists
    BY <1>2 DEF Starting, Unlists, TypeOK
  <2>3. /\ HandleInv' /\ given' \subseteq Connects
        /\ handle' \in [Connects -> {"none", "open", "closing", "closed", "stuck"}]
    BY <2>2, UnlistsKeepsHandles
  <2>4. TypeOK'
    BY <1>1, <1>2, <2>1, <2>3 DEF TypeOK, UnderWay
  <2>5. EditsHaveVersions'
    BY <2>1 DEF VersionInv, EditsHaveVersions
  <2>6. PendingIsCurrent'
    BY <1>1, <1>2, <2>1 DEF VersionInv, PendingIsCurrent, Reading, Saving
  <2>7. FirstSavesAreEarly' /\ ListedWillRetire'
    BY <1>2 DEF FirstSavesAreEarly, ListedWillRetire
  <2>. QED
    BY <2>3, <2>4, <2>5, <2>6, <2>7 DEF VersionInv
<1>3. CASE ~edit[e].retires /\ Saved(e) /\ UNCHANGED early
  BY <1>1, <1>3, SavedStep
<1>4. CASE /\ EditIsOver(e, "failed")
           /\ early' = early \cup ({listed} \cap Connects)
           /\ UNCHANGED <<listed, pending, connect, handle, given>>
  <2>1. /\ edit' \in [Edits -> Edit] /\ edit'[e].pc = "failed"
        /\ \A f \in Edits : f # e => edit'[f] = edit[f]
    BY <1>4, EditOver
  <2>2. Starting
    BY <1>4 DEF Starting, TypeOK
  <2>3. HandleInv'
    BY <1>4, <2>2, UnlistsKeepsHandles
  <2>4. TypeOK'
    BY <1>1, <1>4, <2>1 DEF TypeOK, UnderWay
  <2>5. EditsHaveVersions'
    BY <2>1 DEF VersionInv, EditsHaveVersions
  <2>6. PendingIsCurrent'
    BY <1>1, <1>4, <2>1 DEF VersionInv, PendingIsCurrent, Reading, Saving
  <2>7. FirstSavesAreEarly' /\ ListedWillRetire'
    BY <1>1, <1>4 DEF VersionInv, FirstSavesAreEarly, ListedWillRetire
  <2>. QED
    BY <2>3, <2>4, <2>5, <2>6, <2>7 DEF VersionInv
<1>. QED
  BY <1>2, <1>3, <1>4 DEF Persisted

LEMMA RetiredStep ==
  ASSUME IInv, NEW e \in Edits, Retired(e)
  PROVE  IInv'
<1>1. Saved(e)
  BY DEF Retired
<1>2. edit[e].pc = "retire"
  BY DEF Retired
<1>3. UNCHANGED <<profile, removals, disposed, early>>
  BY DEF Retired
<1>. QED
  BY <1>1, <1>2, <1>3, SavedStep

\* The profile is gone, and with it what is listed and the connect under way.
LEMMA RemovalStep ==
  ASSUME IInv, RemoveProfile \/ Dispose
  PROVE  IInv'
<1>. USE Numbers DEF IInv
<1>1. /\ pending' = None /\ profile' = None /\ listed' = None
      /\ handle' = Asked(handle, listed) /\ given' = Given(listed)
      /\ UNCHANGED <<connect, edit, early>>
  BY DEF RemoveProfile, Dispose
<1>5. disposed' \in BOOLEAN
  BY DEF RemoveProfile, Dispose, TypeOK
<1>6. removals' \in 0 .. MaxRemovals
  <2>1. CASE RemoveProfile
    BY <2>1, BoundsAssumption DEF RemoveProfile, TypeOK
  <2>2. CASE Dispose
    BY <2>2 DEF Dispose, TypeOK
  <2>. QED
    BY <2>1, <2>2
<1>2. Starting /\ Unlists
  BY <1>1 DEF Starting, Unlists, TypeOK
<1>3. /\ HandleInv' /\ given' \subseteq Connects
      /\ handle' \in [Connects -> {"none", "open", "closing", "closed", "stuck"}]
  BY <1>2, UnlistsKeepsHandles
<1>4. TypeOK'
  BY <1>1, <1>3, <1>5, <1>6 DEF TypeOK
<1>7. VersionInv'
  BY <1>1 DEF VersionInv, EditsHaveVersions, PendingIsCurrent, FirstSavesAreEarly, ListedWillRetire
<1>. QED
  BY <1>3, <1>4, <1>7

-----------------------------------------------------------------------------
LEMMA InitHolds == Init => IInv
<1>. SUFFICES ASSUME Init PROVE IInv
  OBVIOUS
<1>. USE Numbers DEF Init
<1>1. TypeOK
  <2>1. /\ connect \in [Connects -> Connect]
        /\ edit \in [Edits -> Edit]
    BY DEF Connect, Edit
  <2>2. removals \in 0 .. MaxRemovals
    BY BoundsAssumption
  <2>. QED
    BY <2>1, <2>2 DEF TypeOK
<1>2. HandleInv
  BY DEF HandleInv, OpenIsOwned, GivenIsEnding, HandlesFollow, ListedIsDone, ClosingIsOwned,
         ReplacedIsGiven
<1>3. VersionInv
  BY DEF VersionInv, EditsHaveVersions, PendingIsCurrent, FirstSavesAreEarly, ListedWillRetire
<1>. QED
  BY <1>1, <1>2, <1>3 DEF IInv

LEMMA NextHolds == IInv /\ [Next]_vars => IInv'
<1>. SUFFICES ASSUME IInv, [Next]_vars PROVE IInv'
  OBVIOUS
<1>1. CASE \E c \in Connects : ConnectProfile(c)
  BY <1>1, ConnectProfileStep
<1>2. CASE \E c \in Connects : ConnectGoesOn(c)
  BY <1>2, ReadsStep, SecretsReadStep, DriverConnectsStep, MarkedStep, PublishesStep, DroppedStep
     DEF ConnectGoesOn
<1>3. CASE \E c \in Connects : Disconnected(c)
  BY <1>3, DisconnectedStep
<1>4. CASE Disconnect \/ DriversChange
  BY <1>4, DisconnectStep, DriversChangeStep
<1>5. CASE \E e \in Edits : EditGoesOn(e)
  BY <1>5, SecretsStoredStep, PersistedStep, RetiredStep DEF EditGoesOn
<1>6. CASE \E e \in Edits, kind \in {"name", "parameters", "secrets"} : AddUpdateProfile(e, kind)
  BY <1>6, AddUpdateProfileStep
<1>7. CASE RemoveProfile \/ Dispose
  BY <1>7, RemovalStep
<1>8. CASE UNCHANGED vars
  <2>. USE <1>8 DEF vars, IInv
  <2>1. TypeOK'
    BY DEF TypeOK, UnderWay
  <2>2. HandleInv'
    BY DEF HandleInv, OpenIsOwned, UnderWay, GivenIsEnding, HandlesFollow, ListedIsDone,
           ClosingIsOwned, ReplacedIsGiven
  <2>3. VersionInv'
    BY DEF VersionInv, EditsHaveVersions, PendingIsCurrent, Reading, Saving,
           FirstSavesAreEarly, ListedWillRetire
  <2>. QED
    BY <2>1, <2>2, <2>3
<1>. QED
  BY <1>1, <1>2, <1>3, <1>4, <1>5, <1>6, <1>7, <1>8 DEF Next

LEMMA Invariance == Spec => []IInv
BY InitHolds, NextHolds, PTL DEF Spec

\* The fields keep their types, and the connect that others join is always one
\* that is under way (positronConnectionsService.ts:342, 469).
THEOREM TypeCorrect == Spec => []TypeOK
<1>1. IInv => TypeOK
  BY DEF IInv
<1>. QED
  BY <1>1, Invariance, PTL

\* However connects, edits, removals and the disposal of the service meet, and
\* whatever fails: no connection of a driver is left open and unlisted, and no
\* connection is listed of a profile that is gone, or with parameters that have
\* been replaced (positronConnectionsService.ts:410-573).
THEOREM NothingLeaksOrIsStale == Spec => []ConnectionsAreKept
<1>1. IInv => ConnectionsAreKept
  BY DEF IInv, HandleInv, VersionInv, ListedWillRetire, ConnectionsAreKept, ListedIsCurrent
<1>. QED
  BY <1>1, Invariance, PTL

-----------------------------------------------------------------------------
(* The consoles and what is stored of them.                                *)

\* What is stored of a console and was not read: nothing is known of it.
Unknown(s, e) == s \in unread /\ e = disk.entries[s]

\* An operation fits the consoles and the store: what it writes is no older than what
\* is stored and no newer than the console, and is the console if that has not changed
\* since; and a console whose deletion is to come is not stored.
Below(s, r) ==
  /\ manifest.entries[s] # Nothing /\ ~Unknown(s, manifest.entries[s])
       => manifest.entries[s].revision <= r
  /\ disk.entries[s] # Nothing /\ ~Unknown(s, disk.entries[s]) => disk.entries[s].revision <= r

WriteFits(o) ==
  /\ o.session \in Sessions /\ known[o.session] # "new" /\ o.version > 0
  /\ o.session \in bound =>
       /\ o.version <= dirty[o.session] /\ o.revision <= revision[o.session]
       /\ o.version = dirty[o.session] => o.revision = revision[o.session]
       /\ Below(o.session, o.revision)

DeleteFits(o) ==
  /\ o.session \in Sessions /\ known[o.session] # "new"
  /\ o.session \in bound =>
       /\ hash[o.session] = Nothing
       /\ manifest.entries[o.session] = Nothing /\ disk.entries[o.session] = Nothing

OpFits(o) ==
  /\ o.own => o.kind = "write"
  /\ o.kind = "write" => WriteFits(o)
  /\ o.kind = "delete" => DeleteFits(o)

\* In the queue a later write of a console is no older, and its deletion comes last.
InOrder(q) ==
  \A i, j \in DOMAIN q :
    i < j /\ q[i].kind = "write" /\ q[j].session = q[i].session /\ q[i].session \in bound =>
      /\ q[j].kind = "write" => q[i].revision <= q[j].revision
      /\ q[j].kind # "delete"

DeletedLast(q) ==
  \A i \in DOMAIN q :
    q[i].kind = "write" /\ known[q[i].session] = "deleted" =>
      \E j \in DOMAIN q : i < j /\ q[j] = Delete(q[i].session)

QueueFits(q) == (\A i \in DOMAIN q : OpFits(q[i])) /\ InOrder(q) /\ DeletedLast(q)

\* An entry of a manifest leads to a checkpoint of its session.
EntryFits(s, e) ==
  e # Nothing =>
    /\ e \in files /\ e.session = s /\ known[s] # "new"
    /\ s \in bound /\ ~Unknown(s, e) => e.revision <= revision[s]

\* What is recorded as written of a console is stored, and is the console if that is
\* clean; and what is stored, and was read, is in the manifest, or something newer.
StoredFits(s) ==
  /\ EntryFits(s, manifest.entries[s]) /\ EntryFits(s, disk.entries[s])
  /\ s \in bound /\ hash[s] # Nothing =>
       /\ manifest.entries[s] # Nothing /\ hash[s] <= manifest.entries[s].revision
       /\ disk.entries[s] # Nothing /\ hash[s] <= disk.entries[s].revision
       /\ s \notin unread
  /\ s \in bound /\ dirty[s] <= flushed[s] => hash[s] = revision[s]
  /\ s \in bound /\ s \notin unread /\ disk.entries[s] # Nothing =>
       manifest.entries[s] # Nothing /\ disk.entries[s].revision <= manifest.entries[s].revision

StoreFits == \A s \in Sessions : StoredFits(s)

\* Who is bound lives, and of what is new nothing is known.
ConsolesFit ==
  /\ \A s \in Sessions : s \in bound <=> known[s] = "live"
  /\ \A s \in Sessions : known[s] = "new" => dirty[s] = 0 /\ flushed[s] = 0 /\ hash[s] = Nothing
  /\ \A s \in bound : dirty[s] > 0
  /\ \A s \in Sessions : flushed[s] <= dirty[s]
  /\ IsFiniteSet(files)

\* How far the operation at the head is.
HeadFits ==
  /\ stage = "start" => previous = Nothing
  /\ stage # "start" => queue # <<>> /\ Head(queue).kind # "select"
  /\ stage = "manifest" => Head(queue).kind = "write"
  /\ stage # "start" =>
       LET s == Head(queue).session IN
       /\ previous # Nothing => previous.session = s /\ manifest.entries[s] # previous
       /\ stage = "manifest" => disk.entries[s] # manifest.entries[s]
       /\ stage = "remove" => disk.entries[s] = manifest.entries[s]
       /\ stage = "remove" /\ Head(queue).kind = "write" => s \notin unread
       /\ Head(queue).kind = "write" =>
            manifest.entries[s] # Nothing /\ manifest.entries[s].revision = Head(queue).revision
       /\ Head(queue).kind = "delete" => manifest.entries[s] = Nothing

\* What a flush waits for is still to come.
FlushFits ==
  /\ flushing = "queue" <=> ahead > 0
  /\ flushing = "writes" <=> \E i \in DOMAIN queue : queue[i].own

\* Nothing is left of a deleted console that could bring it back.
DeletedFits ==
  \A s \in Sessions :
    known[s] = "deleted" =>
      \/ \E i \in DOMAIN queue : queue[i] = Delete(s)
      \/ manifest.entries[s] = Nothing \/ manifest.entries[s] = disk.entries[s]

RInv == RecoveryTypeOK /\ ConsolesFit /\ StoreFits /\ QueueFits(queue) /\ HeadFits /\ FlushFits /\ DeletedFits

-----------------------------------------------------------------------------
(* Queues of operations.                                                   *)

LEMMA TailElements ==
  ASSUME NEW q \in Seq(Ops), q # <<>>
  PROVE  /\ Len(q) \in Nat \ {0} /\ DOMAIN q = 1..Len(q)
         /\ Tail(q) \in Seq(Ops) /\ DOMAIN Tail(q) = 1..(Len(q) - 1) /\ Len(Tail(q)) = Len(q) - 1
         /\ \A i \in 1..(Len(q) - 1) : Tail(q)[i] = q[i + 1]
         /\ Head(q) = q[1] /\ Head(q) \in Ops
  BY EmptySeq, HeadTailProperties

LEMMA ConcatElements ==
  ASSUME NEW q \in Seq(Ops), NEW w \in Seq(Ops)
  PROVE  /\ q \o w \in Seq(Ops) /\ Len(q) \in Nat /\ Len(w) \in Nat
         /\ Len(q \o w) = Len(q) + Len(w)
         /\ DOMAIN q = 1..Len(q) /\ DOMAIN w = 1..Len(w)
         /\ DOMAIN (q \o w) = 1..(Len(q) + Len(w))
         /\ \A i \in 1..Len(q) : (q \o w)[i] = q[i]
         /\ \A i \in (Len(q) + 1)..(Len(q) + Len(w)) : (q \o w)[i] = w[i - Len(q)]
  BY ConcatProperties

LEMMA DisownElements ==
  ASSUME NEW q \in Seq(Ops)
  PROVE  /\ Disown(q) \in Seq(Ops) /\ DOMAIN Disown(q) = DOMAIN q /\ Len(Disown(q)) = Len(q)
         /\ \A i \in DOMAIN q : Disown(q)[i] = [q[i] EXCEPT !.own = FALSE]
<1>1. Len(q) \in Nat /\ DOMAIN q = 1..Len(q) /\ \A i \in DOMAIN q : q[i] \in Ops
  OBVIOUS
<1>2. \A o \in Ops : [o EXCEPT !.own = FALSE] \in Ops
  BY DEF Ops
<1>3. Disown(q) \in [1..Len(q) -> Ops]
  BY <1>1, <1>2 DEF Disown
<1>. QED
  BY <1>1, <1>3, SeqDef DEF Disown

\* What the operations are that are put into the queue.
LEMMA WriteType ==
  ASSUME NEW s \in Sessions, revision \in [Sessions -> 0..MaxRevision], dirty \in [Sessions -> Nat]
  PROVE  /\ Write(s) \in Ops /\ Write(s).kind = "write" /\ Write(s).session = s
         /\ Write(s).revision = revision[s] /\ Write(s).version = dirty[s] /\ Write(s).own
  BY DEF Write, Op, Ops

\* A write of a console as it is now, awaited or not.
Writing(o, s) == o = Write(s) \/ o = [Write(s) EXCEPT !.own = FALSE]

LEMMA WritingType ==
  ASSUME NEW s \in Sessions, revision \in [Sessions -> 0..MaxRevision], dirty \in [Sessions -> Nat],
         NEW o, Writing(o, s)
  PROVE  /\ o \in Ops /\ o.kind = "write" /\ o.session = s
         /\ o.revision = revision[s] /\ o.version = dirty[s]
<1>1. PICK p : p = Write(s)
  OBVIOUS
<1>2. p \in Ops /\ p.kind = "write" /\ p.session = s /\ p.revision = revision[s] /\ p.version = dirty[s]
  BY <1>1, WriteType
<1>3. o = p \/ o = [p EXCEPT !.own = FALSE]
  BY <1>1 DEF Writing
<1>. QED
  BY <1>2, <1>3 DEF Ops

LEMMA DeleteType ==
  ASSUME NEW s \in Sessions
  PROVE  /\ Delete(s) \in Ops /\ Delete(s).kind = "delete" /\ Delete(s).session = s /\ ~Delete(s).own
         /\ [Delete(s) EXCEPT !.own = FALSE] = Delete(s)
<1>1. ("delete" = "write") = FALSE
  OBVIOUS
<1>2. Delete(s) = [kind |-> "delete", session |-> s, revision |-> 0, version |-> 0, own |-> FALSE]
  BY <1>1 DEF Delete, Op
<1>3. \A r \in Ops : r.own = FALSE => [r EXCEPT !.own = FALSE] = r
  BY DEF Ops
<1>4. /\ Delete(s) \in Ops /\ Delete(s).kind = "delete" /\ Delete(s).session = s
      /\ Delete(s).own = FALSE
  BY <1>2, RecoveryBoundsAssumption DEF Ops
<1>. QED
  BY <1>3, <1>4

LEMMA SelectType ==
  ASSUME NEW s \in Sessions \cup {Nothing}
  PROVE  Select(s) \in Ops /\ Select(s).kind = "select" /\ Select(s).session = s /\ ~Select(s).own
<1>1. ("select" = "write") = FALSE
  OBVIOUS
<1>2. Select(s) = [kind |-> "select", session |-> s, revision |-> 0, version |-> 0, own |-> FALSE]
  BY <1>1 DEF Select, Op
<1>. QED
  BY <1>2, RecoveryBoundsAssumption DEF Ops

\* A new checkpoint file is one that there is not.
LEMMA NewFileFacts ==
  ASSUME NEW op \in Ops, op.session \in Sessions, files \subseteq Checkpoints, IsFiniteSet(files)
  PROVE  /\ NewFile(op) \in Checkpoints \ files
         /\ NewFile(op).session = op.session /\ NewFile(op).revision = op.revision
<1>. DEFINE named(c) == [session |-> op.session, revision |-> op.revision, copy |-> c]
            N == 0..Cardinality(files)
            f == [c \in N |-> named(c)]
<1>1. Cardinality(files) \in Nat
  BY FS_CardinalityType
<1>2. IsFiniteSet(N) /\ Cardinality(N) = Cardinality(files) + 1
  BY <1>1, FS_Interval
<1>3. \E c \in N : named(c) \notin files
  <2>. SUFFICES ASSUME \A c \in N : named(c) \in files PROVE FALSE
    OBVIOUS
  <2>1. f \in [N -> files]
    OBVIOUS
  <2>2. PICK x, y \in N : x # y /\ f[x] = f[y]
    <3>. HIDE DEF f, N
    <3>. QED
      BY <1>1, <1>2, <2>1, FS_PigeonHole
  <2>3. named(x) = named(y)
    BY <2>2
  <2>4. named(x).copy = named(y).copy
    BY <2>3
  <2>. QED
    BY <2>2, <2>4
<1>4. PICK c \in N : NewFile(op) = named(c) /\ named(c) \notin files
  BY <1>3 DEF NewFile
<1>5. c \in Nat
  BY <1>1, <1>4
<1>. QED
  BY <1>4, <1>5 DEF Checkpoints, Ops

-----------------------------------------------------------------------------
(* The flush.                                                              *)

\* Writes of consoles as they are now.
Writes(w) == w \in Seq(Ops) /\ \A k \in DOMAIN w : \E s \in bound : Writing(w[k], s)

NoneOwn(q) == \A i \in DOMAIN q : ~q[i].own

\* What the flush does when these operations are queued and these versions flushed:
\* it may put writes behind them, and marks what is written already.
Goes(q, fl, h) ==
  /\ \E w : Writes(w) /\ queue' = q \o w
  /\ flushed' \in [Sessions -> Nat]
  /\ \A s \in Sessions :
       flushed'[s] = fl[s] \/ (s \in bound /\ flushed'[s] = dirty[s] /\ h[s] = revision[s])
  /\ flushing' \in {"no", "writes", "queue", "pause"} /\ ahead' \in 0..Len(queue')
  /\ flushing' = "queue" <=> ahead' > 0
  /\ flushing' = "writes" <=> \E i \in DOMAIN queue' : queue'[i].own

\* If nothing fails it is over when every console is clean.
Over(bad) ==
  /\ faults' \in bad..MaxFaults
  /\ flushing' = "no" /\ faults' = bad => \A s \in bound : dirty[s] <= flushed'[s]

LEMMA FlushRoundFacts ==
  ASSUME RecoveryTypeOK, NEW q \in Seq(Ops), NoneOwn(q), NEW fl \in [Sessions -> Nat], NEW h,
         NEW bad \in 0..MaxFaults, FlushRound(q, fl, h, bad)
  PROVE  Goes(q, fl, h) /\ Over(bad)
<1>. DEFINE behind == Unsaved(fl)
            todo   == {s \in behind : h[s] # revision[s]}
<1>1. /\ bound \subseteq Sessions /\ dirty \in [Sessions -> Nat]
      /\ revision \in [Sessions -> 0..MaxRevision]
  BY DEF RecoveryTypeOK
<1>2. PICK order \in Orders(todo) : queue' = q \o [i \in DOMAIN order |-> Write(order[i])]
  BY DEF FlushRound
<1>3. PICK w : w = [i \in DOMAIN order |-> Write(order[i])]
  OBVIOUS
<1>4. IsFiniteSet(todo) /\ Cardinality(todo) \in Nat /\ (Cardinality(todo) = 0 <=> todo = {})
  <2>1. todo \subseteq Sessions
    BY <1>1 DEF Unsaved
  <2>. HIDE DEF todo
  <2>. QED
    BY <2>1, SessionsAssumption, FS_Subset, FS_CardinalityType, FS_EmptySet
<1>5. order \in [1..Cardinality(todo) -> todo]
  BY <1>2 DEF Orders
<1>. HIDE DEF todo
<1>6. \A s \in todo : s \in bound
  BY DEF todo, Unsaved
<1>7. Writes(w)
  <2>1. \A s \in bound : Write(s) \in Ops
    BY <1>1, WriteType
  <2>2. w \in [1..Cardinality(todo) -> Ops]
    BY <1>3, <1>5, <1>6, <2>1
  <2>3. w \in Seq(Ops)
    BY <1>4, <2>2, SeqDef
  <2>4. DOMAIN w = DOMAIN order /\ \A k \in DOMAIN w : w[k] = Write(order[k]) /\ order[k] \in bound
    BY <1>3, <1>5, <1>6
  <2>. QED
    BY <2>3, <2>4 DEF Writes, Writing
<1>8. Len(w) = Cardinality(todo) /\ DOMAIN w = 1..Cardinality(todo)
  BY <1>3, <1>4, <1>5, <1>7 DEF Writes
<1>9. ASSUME NEW k \in DOMAIN w PROVE w[k].own
  <2>1. w[k] = Write(order[k]) /\ order[k] \in Sessions
    BY <1>1, <1>3, <1>5, <1>6, <1>8
  <2>. QED
    BY <1>1, <2>1, WriteType
<1>10. /\ queue' = q \o w /\ Len(q) \in Nat /\ DOMAIN q = 1..Len(q)
       /\ Len(queue') = Len(q) + Len(w) /\ DOMAIN queue' = 1..(Len(q) + Len(w))
       /\ \A i \in 1..Len(q) : queue'[i] = q[i]
       /\ \A i \in (Len(q) + 1)..(Len(q) + Len(w)) : queue'[i] = w[i - Len(q)]
  BY <1>2, <1>3, <1>7, ConcatElements DEF Writes
<1>11. (\E i \in DOMAIN queue' : queue'[i].own) <=> todo # {}
  <2>1. CASE todo = {}
    BY <1>4, <1>8, <1>10, <2>1 DEF NoneOwn
  <2>2. CASE todo # {}
    <3>1. 1 \in DOMAIN w /\ Len(q) + 1 \in DOMAIN queue' /\ queue'[Len(q) + 1] = w[1]
      BY <1>4, <1>8, <1>10, <2>2
    <3>. QED
      BY <1>9, <2>2, <3>1
  <2>. QED
    BY <2>1, <2>2
<1>12. /\ flushed' = [s \in Sessions |-> IF s \in behind \ todo THEN dirty[s] ELSE fl[s]]
       /\ flushing' = IF todo # {} THEN "writes" ELSE IF q # <<>> THEN "queue" ELSE "no"
       /\ ahead' = IF todo = {} THEN Len(q) ELSE 0
  BY DEF FlushRound, todo
<1>13. q # <<>> <=> Len(q) > 0
  BY EmptySeq, <1>10
<1>14. \A s \in Sessions :
         flushed'[s] = fl[s] \/ (s \in bound /\ flushed'[s] = dirty[s] /\ h[s] = revision[s])
  BY <1>12 DEF todo, Unsaved
<1>15. flushed' \in [Sessions -> Nat]
  BY <1>1, <1>12
<1>16. ahead' \in 0..Len(queue') /\ (flushing' = "queue" <=> ahead' > 0)
  BY <1>4, <1>8, <1>10, <1>12, <1>13
<1>17. Goes(q, fl, h)
  BY <1>7, <1>10, <1>11, <1>12, <1>14, <1>15, <1>16 DEF Goes
<1>18. faults' = bad /\ bad \in bad..MaxFaults
  BY RecoveryBoundsAssumption DEF FlushRound
<1>19. ASSUME flushing' = "no", NEW s \in bound PROVE dirty[s] <= flushed'[s]
  <2>1. todo = {}
    BY <1>12, <1>19
  <2>2. s \in Sessions /\ dirty[s] \in Nat /\ fl[s] \in Nat
    BY <1>1
  <2>3. flushed'[s] = IF s \in behind THEN dirty[s] ELSE fl[s]
    BY <1>12, <2>1, <2>2
  <2>. QED
    BY <2>2, <2>3 DEF Unsaved
<1>. QED
  BY <1>17, <1>18, <1>19 DEF Over

LEMMA FlushBreaksFacts ==
  ASSUME RecoveryTypeOK, NEW q \in Seq(Ops), NoneOwn(q), NEW fl \in [Sessions -> Nat], NEW h,
         NEW bad \in 0..MaxFaults, FlushBreaks(q, fl, h, bad)
  PROVE  Goes(q, fl, h) /\ Over(bad)
<1>1. /\ bound \subseteq Sessions /\ dirty \in [Sessions -> Nat]
      /\ revision \in [Sessions -> 0..MaxRevision]
  BY DEF RecoveryTypeOK
<1>14. PICK before \in SUBSET Unsaved(fl), todo \in SUBSET Sessions :
        /\ todo = {s \in before : h[s] # revision[s]}
        /\ flushed' = [s \in Sessions |-> IF s \in before \ todo THEN dirty[s] ELSE fl[s]]
        /\ \E order \in Orders(todo) :
             queue' = q \o Disown([i \in DOMAIN order |-> Write(order[i])])
  BY <1>1 DEF FlushBreaks, Unsaved
<1>2. PICK order \in Orders(todo) :
        /\ todo = {s \in before : h[s] # revision[s]}
        /\ flushed' = [s \in Sessions |-> IF s \in before \ todo THEN dirty[s] ELSE fl[s]]
        /\ queue' = q \o Disown([i \in DOMAIN order |-> Write(order[i])])
  BY <1>14
<1>3. PICK w : w = Disown([i \in DOMAIN order |-> Write(order[i])])
  OBVIOUS
<1>4. todo \subseteq bound /\ Cardinality(todo) \in Nat
  <2>1. todo \subseteq bound
    BY <1>2 DEF Unsaved
  <2>. QED
    BY <1>1, <2>1, SessionsAssumption, FS_Subset, FS_CardinalityType
<1>5. order \in [1..Cardinality(todo) -> todo]
  BY <1>2 DEF Orders
<1>6. Writes(w) /\ NoneOwn(w)
  <2>1. PICK v : v = [i \in DOMAIN order |-> Write(order[i])]
    OBVIOUS
  <2>2. \A s \in bound : Write(s) \in Ops
    BY <1>1, WriteType
  <2>3. v \in [1..Cardinality(todo) -> Ops]
    BY <1>4, <1>5, <2>1, <2>2
  <2>4. v \in Seq(Ops)
    BY <1>4, <2>3, SeqDef
  <2>5. /\ Disown(v) \in Seq(Ops) /\ DOMAIN Disown(v) = DOMAIN v
        /\ \A i \in DOMAIN v : Disown(v)[i] = [v[i] EXCEPT !.own = FALSE]
    BY <2>4, DisownElements
  <2>6. \A i \in DOMAIN v : order[i] \in bound /\ v[i] = Write(order[i])
    BY <1>4, <1>5, <2>1
  <2>7. \A o \in Ops : \A u : u = [o EXCEPT !.own = FALSE] => ~u.own
    BY DEF Ops
  <2>8. w = Disown(v)
    BY <1>3, <2>1
  <2>11. DOMAIN w = DOMAIN v /\ \A i \in DOMAIN v : v[i] \in Ops /\ w[i] = [v[i] EXCEPT !.own = FALSE]
    BY <2>2, <2>5, <2>6, <2>8
  <2>9. NoneOwn(w)
    BY <2>7, <2>11 DEF NoneOwn
  <2>10. \A i \in DOMAIN w : \E s \in bound : w[i] = [Write(s) EXCEPT !.own = FALSE]
    BY <2>5, <2>6, <2>8
  <2>. QED
    BY <2>5, <2>8, <2>9, <2>10 DEF Writes, Writing
<1>7. ~\E i \in DOMAIN queue' : queue'[i].own
  <2>1. PICK r : r = q \o w /\ r = queue'
    BY <1>2, <1>3
  <2>4. w \in Seq(Ops)
    BY <1>6 DEF Writes
  <2>2. /\ Len(q) \in Nat /\ Len(w) \in Nat /\ DOMAIN q = 1..Len(q) /\ DOMAIN w = 1..Len(w)
        /\ DOMAIN r = 1..(Len(q) + Len(w))
        /\ \A i \in 1..Len(q) : r[i] = q[i]
        /\ \A i \in (Len(q) + 1)..(Len(q) + Len(w)) : r[i] = w[i - Len(q)]
    <3>1. /\ Len(q) \in Nat /\ Len(w) \in Nat /\ DOMAIN q = 1..Len(q) /\ DOMAIN w = 1..Len(w)
          /\ DOMAIN (q \o w) = 1..(Len(q) + Len(w))
          /\ \A i \in 1..Len(q) : (q \o w)[i] = q[i]
          /\ \A i \in (Len(q) + 1)..(Len(q) + Len(w)) : (q \o w)[i] = w[i - Len(q)]
      BY <2>4, ConcatElements
    <3>. QED
      BY <2>1, <3>1
  <2>3. ASSUME NEW i \in DOMAIN r PROVE ~r[i].own
    <3>1. CASE i \in 1..Len(q)
      BY <2>2, <3>1 DEF NoneOwn
    <3>2. CASE i \notin 1..Len(q)
      <4>1. i - Len(q) \in DOMAIN w /\ r[i] = w[i - Len(q)]
        BY <2>2, <3>2
      <4>. QED
        BY <1>6, <4>1 DEF NoneOwn
    <3>. QED
      BY <3>1, <3>2
  <2>. QED
    BY <2>1, <2>3
<1>8. \A s \in Sessions :
        flushed'[s] = fl[s] \/ (s \in bound /\ flushed'[s] = dirty[s] /\ h[s] = revision[s])
  BY <1>2 DEF Unsaved
<1>9. flushed' \in [Sessions -> Nat]
  BY <1>1, <1>2
<1>10. flushing' = "no" /\ ahead' = 0 /\ bad < MaxFaults /\ faults' = bad + 1
  BY DEF FlushBreaks
<1>11. ahead' \in 0..Len(queue')
  <2>1. queue' \in Seq(Ops)
    BY <1>2, <1>3, <1>6, ConcatElements DEF Writes
  <2>. QED
    BY <1>10, <2>1
<1>15. \E r : Writes(r) /\ queue' = q \o r
  BY <1>2, <1>3, <1>6
<1>16. /\ flushing' \in {"no", "writes", "queue", "pause"} /\ ~(ahead' > 0)
       /\ flushing' # "queue" /\ flushing' # "writes"
  BY <1>10
<1>12. Goes(q, fl, h)
  BY <1>7, <1>8, <1>9, <1>11, <1>15, <1>16 DEF Goes
<1>13. faults' \in bad..MaxFaults /\ faults' # bad
  BY <1>10, RecoveryBoundsAssumption
<1>. QED
  BY <1>12, <1>13 DEF Over

LEMMA DoFlushFacts ==
  ASSUME RecoveryTypeOK, NEW q \in Seq(Ops), NoneOwn(q), NEW fl \in [Sessions -> Nat], NEW h,
         NEW bad \in 0..MaxFaults, DoFlush(q, fl, h, bad)
  PROVE  Goes(q, fl, h) /\ Over(bad)
  BY FlushRoundFacts, FlushBreaksFacts DEF DoFlush

LEMMA StaysGoes ==
  ASSUME RecoveryTypeOK, NEW q \in Seq(Ops), NEW fl \in [Sessions -> Nat], NEW h,
         NEW bad \in 0..MaxFaults,
         NEW phase \in {"no", "writes", "queue", "pause"}, NEW n \in 0..Len(q),
         Stays(q, fl, phase, n, bad),
         phase = "queue" <=> n > 0,
         phase = "writes" <=> \E i \in DOMAIN q : q[i].own
  PROVE  /\ Goes(q, fl, h) /\ faults' = bad /\ faults' \in bad..MaxFaults
         /\ phase # "no" => Over(bad)
<1>1. Writes(<<>>) /\ q \o <<>> = q
  BY DEF Writes
<1>2. queue' = q /\ flushed' = fl /\ flushing' = phase /\ ahead' = n /\ faults' = bad
  BY DEF Stays
<1>3. faults' \in bad..MaxFaults
  BY <1>2, RecoveryBoundsAssumption
<1>. QED
  BY <1>1, <1>2, <1>3 DEF Goes, Over

\* The loop goes on as long as a console is not clean.
LEMMA AroundFacts ==
  ASSUME RecoveryTypeOK, NEW q \in Seq(Ops), NoneOwn(q), NEW fl \in [Sessions -> Nat], NEW h,
         NEW bad \in 0..MaxFaults, Around(q, fl, h, bad)
  PROVE  Goes(q, fl, h) /\ Over(bad)
<1>1. Len(q) \in Nat /\ 0 \in 0..Len(q) /\ ~(0 > 0)
  OBVIOUS
<1>5. ~\E i \in DOMAIN q : q[i].own
  BY DEF NoneOwn
<1>2. CASE Unsaved(fl) # {} /\ Again(q, fl, h, bad)
  BY <1>2, DoFlushFacts DEF Again
<1>3. CASE Unsaved(fl) # {} /\ ~Again(q, fl, h, bad)
  <2>1. Stays(q, fl, "pause", 0, bad)
    BY <1>3 DEF Around
  <2>. QED
    BY <1>1, <1>5, <2>1, StaysGoes
<1>4. CASE Unsaved(fl) = {}
  <2>1. Stays(q, fl, "no", 0, bad)
    BY <1>4 DEF Around, Again
  <2>2. Goes(q, fl, h) /\ faults' \in bad..MaxFaults
    BY <1>1, <1>5, <2>1, StaysGoes
  <2>3. \A s \in bound : dirty[s] <= fl[s]
    BY <1>4 DEF Unsaved, RecoveryTypeOK
  <2>. QED
    BY <2>1, <2>2, <2>3 DEF Over, Stays
<1>. QED
  BY <1>2, <1>3, <1>4

\* What waits for the operation that has ended, as far as it is known beforehand.
Waits(op, t) ==
  /\ op.own \in BOOLEAN
  /\ flushing = "queue" <=> ahead > 0
  /\ flushing = "writes" <=> op.own \/ \E i \in DOMAIN t : t[i].own
  /\ ahead \in 0..(Len(t) + 1)

\* The end of an operation: the flush that waits for it goes on, or gives up its
\* writes when one has failed, and when it ends after a success every console is clean.
LEMMA ResumeFacts ==
  ASSUME RecoveryTypeOK, NEW op, NEW ok \in BOOLEAN, NEW t \in Seq(Ops), Waits(op, t),
         NEW fl \in [Sessions -> Nat], NEW h, NEW bad \in 0..MaxFaults,
         Resume(op, ok, t, fl, h, bad)
  PROVE  /\ \E r \in {t, Disown(t)} : Goes(r, fl, h)
         /\ faults' \in bad..MaxFaults
         /\ flushing # "no" /\ ok => Over(bad)
<1>1. Len(t) \in Nat /\ ahead \in Nat /\ flushing \in {"no", "writes", "queue", "pause"}
  BY DEF RecoveryTypeOK
<1>2. t # <<>> <=> Len(t) > 0
  BY <1>1, EmptySeq
<1>3. CASE flushing = "writes" /\ op.own /\ ~ok
  <2>1. Stays(Disown(t), fl, "no", 0, bad)
    BY <1>3 DEF Resume
  <2>2. Disown(t) \in Seq(Ops) /\ Len(Disown(t)) \in Nat
    BY DisownElements
  <2>3. ~\E i \in DOMAIN Disown(t) : Disown(t)[i].own
    <3>1. \A o \in Ops : \A p : p = [o EXCEPT !.own = FALSE] => ~p.own
      BY DEF Ops
    <3>2. \A i \in DOMAIN t : t[i] \in Ops
      OBVIOUS
    <3>3. PICK d : d = Disown(t)
      OBVIOUS
    <3>4. DOMAIN d = DOMAIN t /\ \A i \in DOMAIN t : d[i] = [t[i] EXCEPT !.own = FALSE]
      BY DisownElements, <3>3
    <3>5. \A i \in DOMAIN d : ~d[i].own
      BY <3>1, <3>2, <3>4
    <3>. QED
      BY <3>3, <3>5
  <2>4. /\ "no" = "queue" <=> 0 > 0
        /\ "no" = "writes" <=> \E i \in DOMAIN Disown(t) : Disown(t)[i].own
        /\ 0 \in 0..Len(Disown(t))
    BY <2>2, <2>3
  <2>5. Goes(Disown(t), fl, h) /\ faults' \in bad..MaxFaults
    BY <2>1, <2>2, <2>4, StaysGoes
  <2>. QED
    BY <1>3, <2>5
<1>4. CASE flushing = "writes" /\ op.own /\ ok /\ \E i \in DOMAIN t : t[i].own
  <2>1. Stays(t, fl, "writes", 0, bad)
    BY <1>4 DEF Resume
  <2>2. ("writes" = "queue" <=> 0 > 0) /\ 0 \in 0..Len(t)
    BY <1>1
  <2>3. Goes(t, fl, h) /\ faults' \in bad..MaxFaults /\ Over(bad)
    BY <1>4, <2>1, <2>2, StaysGoes
  <2>. QED
    BY <2>3
<1>5. CASE flushing = "writes" /\ op.own /\ ok /\ \A i \in DOMAIN t : ~t[i].own
  <2>1. Drain(t, fl, h, bad)
    BY <1>5 DEF Resume
  <2>2. CASE t # <<>>
    <3>1. Stays(t, fl, "queue", Len(t), bad)
      BY <2>1, <2>2 DEF Drain
    <3>2. /\ "queue" = "queue" <=> Len(t) > 0
          /\ "queue" = "writes" <=> \E i \in DOMAIN t : t[i].own
          /\ Len(t) \in 0..Len(t)
      BY <1>1, <1>2, <1>5, <2>2
    <3>3. Goes(t, fl, h) /\ faults' \in bad..MaxFaults /\ Over(bad)
      BY <3>1, <3>2, StaysGoes
    <3>. QED
      BY <3>3
  <2>3. CASE t = <<>>
    BY <1>5, <2>1, <2>3, AroundFacts DEF Drain, NoneOwn, Over
  <2>. QED
    BY <2>2, <2>3
<1>6. CASE flushing = "queue" /\ ahead = 1
  <2>1. Around(t, fl, h, bad)
    BY <1>6 DEF Resume
  <2>2. NoneOwn(t)
    BY <1>6 DEF Waits, NoneOwn
  <2>. QED
    BY <2>1, <2>2, AroundFacts DEF Over
<1>7. CASE flushing = "queue" /\ ahead > 1
  <2>1. Stays(t, fl, "queue", ahead - 1, bad)
    BY <1>7 DEF Resume
  <2>2. ahead - 1 \in 0..Len(t) /\ ahead - 1 > 0 /\ ~\E i \in DOMAIN t : t[i].own
    BY <1>1, <1>7 DEF Waits
  <2>3. \A n : Stays(t, fl, "queue", n, bad) /\ n \in 0..Len(t) /\ n > 0
               => Goes(t, fl, h) /\ Over(bad) /\ faults' \in bad..MaxFaults
    BY <2>2, StaysGoes
  <2>. QED
    BY <2>1, <2>2, <2>3
<1>8. CASE flushing \in {"no", "pause"} \/ (flushing = "writes" /\ ~op.own)
  <2>1. Stays(t, fl, flushing, ahead, bad)
    BY <1>8 DEF Resume
  <2>2. ahead = 0 /\ (flushing = "writes" <=> \E i \in DOMAIN t : t[i].own)
    BY <1>1, <1>8 DEF Waits
  <2>3. \A n, phase : Stays(t, fl, phase, n, bad) /\ n = 0 /\ phase \in {"no", "writes", "pause"}
                        /\ (phase = "writes" <=> \E i \in DOMAIN t : t[i].own)
                      => /\ Goes(t, fl, h) /\ faults' \in bad..MaxFaults
                         /\ phase # "no" => Over(bad)
    BY <1>1, StaysGoes
  <2>. QED
    BY <1>8, <2>1, <2>2, <2>3
<1>. QED
  BY <1>1, <1>3, <1>4, <1>5, <1>6, <1>7, <1>8 DEF Waits

-----------------------------------------------------------------------------
(* The queue once an operation has ended.                                  *)

\* These operations, perhaps no longer awaited by a flush, and writes behind them.
Follows(q, t) ==
  /\ q \in Seq(Ops) /\ Len(t) <= Len(q)
  /\ \A i \in DOMAIN t : q[i] = t[i] \/ q[i] = [t[i] EXCEPT !.own = FALSE]
  /\ \A i \in DOMAIN q \ DOMAIN t : \E s \in bound : Writing(q[i], s)

LEMMA GoesFollows ==
  ASSUME NEW t \in Seq(Ops), NEW r \in {t, Disown(t)}, NEW fl, NEW h, Goes(r, fl, h)
  PROVE  \E q : queue' = q /\ Follows(q, t)
<1>1. PICK w : Writes(w) /\ queue' = r \o w
  BY DEF Goes
<1>2. /\ r \in Seq(Ops) /\ Len(r) = Len(t) /\ Len(t) \in Nat /\ DOMAIN t = 1..Len(t)
      /\ \A i \in DOMAIN t : r[i] = t[i] \/ r[i] = [t[i] EXCEPT !.own = FALSE]
  BY DisownElements
<1>3. PICK q : q = r \o w
  OBVIOUS
<1>4. /\ q \in Seq(Ops) /\ Len(w) \in Nat /\ DOMAIN w = 1..Len(w)
      /\ Len(q) = Len(t) + Len(w) /\ DOMAIN q = 1..(Len(t) + Len(w))
      /\ \A i \in 1..Len(t) : q[i] = r[i]
      /\ \A i \in (Len(t) + 1)..(Len(t) + Len(w)) : q[i] = w[i - Len(t)]
  <2>1. w \in Seq(Ops)
    BY <1>1 DEF Writes
  <2>2. /\ r \o w \in Seq(Ops) /\ Len(w) \in Nat /\ DOMAIN w = 1..Len(w)
        /\ Len(r \o w) = Len(r) + Len(w) /\ DOMAIN (r \o w) = 1..(Len(r) + Len(w))
        /\ \A i \in 1..Len(r) : (r \o w)[i] = r[i]
        /\ \A i \in (Len(r) + 1)..(Len(r) + Len(w)) : (r \o w)[i] = w[i - Len(r)]
    BY <1>2, <2>1, ConcatElements
  <2>3. Len(r) = Len(t)
    BY <1>2
  <2>. QED
    BY <1>3, <2>2, <2>3
<1>5. ASSUME NEW i \in DOMAIN q \ DOMAIN t PROVE \E s \in bound : Writing(q[i], s)
  <2>1. i - Len(t) \in DOMAIN w /\ q[i] = w[i - Len(t)]
    BY <1>2, <1>4, <1>5
  <2>. QED
    BY <1>1, <2>1 DEF Writes
<1>6. \A i \in DOMAIN t : q[i] = t[i] \/ q[i] = [t[i] EXCEPT !.own = FALSE]
  BY <1>2, <1>4
<1>7. Len(t) <= Len(q)
  BY <1>2, <1>4
<1>8. q \in Seq(Ops)
  BY <1>4
<1>9. Follows(q, t)
  BY <1>5, <1>6, <1>7, <1>8 DEF Follows
<1>. QED
  BY <1>1, <1>3, <1>9

\* What of an operation does not depend on whether a flush awaits it.
LEMMA DisownedAlike ==
  ASSUME NEW o \in Ops, NEW p, p = o \/ p = [o EXCEPT !.own = FALSE]
  PROVE  /\ p \in Ops /\ p.kind = o.kind /\ p.session = o.session /\ p.revision = o.revision
         /\ p.version = o.version /\ (p.own => o.own)
  BY DEF Ops

\* The order in the queue, and the deletions there are in it.
LEMMA OrderKept ==
  ASSUME RecoveryTypeOK, ConsolesFit, NEW t \in Seq(Ops), NEW q, Follows(q, t),
         InOrder(t), DeletedLast(t), \A i \in DOMAIN t : OpFits(t[i])
  PROVE  /\ InOrder(q) /\ DeletedLast(q)
         /\ \A s \in Sessions : (\E i \in DOMAIN t : t[i] = Delete(s)) => \E i \in DOMAIN q : q[i] = Delete(s)
<1>1. /\ Len(t) \in Nat /\ Len(q) \in Nat /\ Len(t) <= Len(q) /\ DOMAIN t = 1..Len(t) /\ DOMAIN q = 1..Len(q)
      /\ \A i \in DOMAIN t : t[i] \in Ops
  BY DEF Follows
<1>2. \A i \in DOMAIN t :
        /\ i \in DOMAIN q
        /\ q[i].kind = t[i].kind /\ q[i].session = t[i].session /\ q[i].revision = t[i].revision
  <2>. TAKE i \in DOMAIN t
  <2>1. i \in DOMAIN q /\ t[i] \in Ops
    BY <1>1
  <2>2. q[i] = t[i] \/ q[i] = [t[i] EXCEPT !.own = FALSE]
    BY DEF Follows
  <2>. QED
    BY <2>1, <2>2, DisownedAlike
<1>3. \A i \in DOMAIN q \ DOMAIN t :
        /\ q[i].session \in bound /\ q[i].kind = "write"
        /\ q[i].revision = revision[q[i].session]
        /\ \A j \in DOMAIN t : j < i
  <2>. TAKE i \in DOMAIN q \ DOMAIN t
  <2>1. PICK s \in bound : Writing(q[i], s)
    BY DEF Follows
  <2>2. s \in Sessions /\ revision \in [Sessions -> 0..MaxRevision] /\ dirty \in [Sessions -> Nat]
    BY DEF RecoveryTypeOK
  <2>3. q[i].session = s /\ q[i].kind = "write" /\ q[i].revision = revision[s]
    BY <2>1, <2>2, WritingType
  <2>. QED
    BY <1>1, <2>3
<1>4. ASSUME NEW s \in Sessions, NEW i \in DOMAIN t, t[i] = Delete(s) PROVE q[i] = Delete(s)
  BY <1>4, DeleteType DEF Follows
<1>5. \A i \in DOMAIN t : t[i].kind = "write" /\ t[i].session \in bound => t[i].revision <= revision[t[i].session]
  BY DEF OpFits, WriteFits
<1>6. InOrder(q)
  <2>. SUFFICES ASSUME NEW i \in DOMAIN q, NEW j \in DOMAIN q, i < j, q[i].kind = "write",
                       q[j].session = q[i].session, q[i].session \in bound
                PROVE  /\ q[j].kind = "write" => q[i].revision <= q[j].revision
                       /\ q[j].kind # "delete"
    BY DEF InOrder
  <2>1. CASE j \in DOMAIN t
    <3>1. i \in DOMAIN t
      BY <1>1, <2>1
    <3>. QED
      BY <1>2, <2>1, <3>1 DEF InOrder
  <2>2. CASE j \notin DOMAIN t /\ i \in DOMAIN t
    BY <1>2, <1>3, <1>5, <2>2
  <2>3. CASE j \notin DOMAIN t /\ i \notin DOMAIN t
    <3>1. i \in DOMAIN q \ DOMAIN t /\ j \in DOMAIN q \ DOMAIN t
      BY <2>3
    <3>2. q[i].revision = q[j].revision /\ q[j].kind = "write"
      BY <1>3, <3>1
    <3>3. q[i].revision \in 0..MaxRevision
      BY <1>3, <3>1 DEF RecoveryTypeOK
    <3>. QED
      BY <3>2, <3>3
  <2>. QED
    BY <2>1, <2>2, <2>3
<1>7. DeletedLast(q)
  <2>. SUFFICES ASSUME NEW i \in DOMAIN q, q[i].kind = "write", known[q[i].session] = "deleted"
                PROVE  \E j \in DOMAIN q : i < j /\ q[j] = Delete(q[i].session)
    BY DEF DeletedLast
  <2>1. i \in DOMAIN t
    BY <1>3 DEF ConsolesFit, RecoveryTypeOK
  <2>2. PICK j \in DOMAIN t : i < j /\ t[j] = Delete(t[i].session)
    BY <1>2, <2>1 DEF DeletedLast
  <2>3. t[i].session \in Sessions
    BY <1>2, <2>1 DEF OpFits, WriteFits
  <2>. QED
    BY <1>2, <1>4, <2>1, <2>2, <2>3
<1>. QED
  BY <1>2, <1>4, <1>6, <1>7

\* Operations fit after a step that leaves the consoles alone, if those that were
\* there do and the store fits.
LEMMA FitsKept ==
  ASSUME RecoveryTypeOK, ConsolesFit, UNCHANGED consoles, StoreFits',
         NEW t \in Seq(Ops), NEW q, Follows(q, t), \A i \in DOMAIN t : OpFits(t[i])'
  PROVE  \A i \in DOMAIN q : OpFits(q[i])'
<1>. TAKE i \in DOMAIN q
<1>1. CASE i \in DOMAIN t
  <2>1. PICK o, p : o = t[i] /\ p = q[i]
    OBVIOUS
  <2>2. OpFits(o)'
    BY <1>1, <2>1 DEF OpFits, WriteFits, DeleteFits, Below, Unknown
  <2>3. /\ p.kind = o.kind /\ p.session = o.session /\ p.revision = o.revision
        /\ p.version = o.version /\ (p.own => o.own)
    <3>1. o \in Ops
      BY <1>1, <2>1
    <3>2. p = o \/ p = [o EXCEPT !.own = FALSE]
      BY <1>1, <2>1 DEF Follows
    <3>. QED
      BY <3>1, <3>2, DisownedAlike
  <2>. QED
    BY <2>1, <2>2, <2>3 DEF OpFits, WriteFits, DeleteFits, Below, Unknown
<1>2. CASE i \notin DOMAIN t
  <2>1. PICK s \in bound : Writing(q[i], s)
    BY <1>2 DEF Follows
  <2>2. PICK o : o = q[i]
    OBVIOUS
  <2>3. /\ o.kind = "write" /\ o.session = s /\ o.revision = revision[s] /\ o.version = dirty[s]
        /\ s \in Sessions /\ known[s] # "new" /\ dirty[s] > 0
        /\ revision[s] \in Nat /\ dirty[s] \in Nat
    <3>1. s \in Sessions /\ revision \in [Sessions -> 0..MaxRevision] /\ dirty \in [Sessions -> Nat]
      BY <2>1 DEF RecoveryTypeOK
    <3>2. o.kind = "write" /\ o.session = s /\ o.revision = revision[s] /\ o.version = dirty[s]
      BY <2>1, <2>2, <3>1, WritingType
    <3>3. known[s] = "live" /\ dirty[s] > 0
      BY <2>1, <3>1 DEF ConsolesFit
    <3>4. revision[s] \in Nat /\ dirty[s] \in Nat
      BY <3>1, RecoveryBoundsAssumption
    <3>. QED
      BY <3>1, <3>2, <3>3, <3>4
  <2>4. known' = known /\ bound' = bound /\ revision' = revision /\ dirty' = dirty
    BY DEF consoles
  <2>5. Below(s, revision[s])'
    BY <2>3, <2>4, <2>1 DEF StoreFits, StoredFits, Unknown, EntryFits, Below
  <2>6. PICK rev : rev = revision[s]
    OBVIOUS
  <2>7. Below(s, rev)'
    BY <2>4, <2>5, <2>6 DEF Below, Unknown
  <2>8. OpFits(o)'
    BY <2>1, <2>3, <2>4, <2>6, <2>7 DEF OpFits, WriteFits, DeleteFits, Below, Unknown
  <2>. QED
    BY <2>2, <2>8
<1>. QED
  BY <1>1, <1>2

LEMMA QueueFitsAfter ==
  ASSUME NEW q, queue' = q, \A i \in DOMAIN q : OpFits(q[i])', InOrder(q)', DeletedLast(q)'
  PROVE  QueueFits(queue)'
  BY DEF QueueFits, OpFits, WriteFits, DeleteFits, Below, Unknown, InOrder, DeletedLast

\* What the end of an operation does to what is flushed and recorded, and to what a
\* flush waits for.
LEMMA FinishFacts ==
  ASSUME RecoveryTypeOK, QueueFits(queue), FlushFits, queue # <<>>, NEW ok \in BOOLEAN,
         ok \/ faults < MaxFaults, Finish(ok)
  PROVE  /\ \E q : queue' = q /\ Follows(q, Tail(queue))
         /\ flushed' \in [Sessions -> Nat] /\ hash' \in [Sessions -> 0..MaxRevision \cup {Nothing}]
         /\ stage' = "start" /\ previous' = Nothing /\ UNCHANGED consoles
         /\ flushing' \in {"no", "writes", "queue", "pause"} /\ ahead' \in 0..Len(queue') /\ FlushFits'
         /\ faults' \in 0..MaxFaults /\ (~ok => faults' # faults)
         /\ ok /\ Head(queue).kind = "write" =>
              hash' = [hash EXCEPT ![Head(queue).session] = Head(queue).revision]
         /\ ~(ok /\ Head(queue).kind = "write") => hash' = hash
         /\ \A s \in Sessions : \/ flushed'[s] = flushed[s]
                                \/ flushed'[s] = dirty[s] /\ (s \in bound => hash'[s] = revision[s])
         /\ flushing # "no" /\ ok => Over(faults)
<1>1. PICK t : t = Tail(queue)
  OBVIOUS
<1>2. PICK op : op = Head(queue)
  OBVIOUS
<1>3. /\ Len(queue) \in Nat \ {0} /\ DOMAIN queue = 1..Len(queue)
      /\ t \in Seq(Ops) /\ DOMAIN t = 1..(Len(queue) - 1) /\ Len(t) = Len(queue) - 1
      /\ \A i \in 1..(Len(queue) - 1) : t[i] = queue[i + 1]
      /\ op = queue[1] /\ op \in Ops
  <2>1. queue \in Seq(Ops)
    BY DEF RecoveryTypeOK
  <2>. QED
    BY <1>1, <1>2, <2>1, TailElements
<1>4. OpFits(op)
  BY <1>3 DEF QueueFits
<1>5. PICK h, fl :
        /\ h = IF ok /\ op.kind = "write" THEN [hash EXCEPT ![op.session] = op.revision] ELSE hash
        /\ fl = IF ok /\ op.kind = "write" /\ dirty[op.session] = op.version
                THEN [flushed EXCEPT ![op.session] = op.version] ELSE flushed
  OBVIOUS
<1>0. PICK bad : bad = IF ok THEN faults ELSE faults + 1
  OBVIOUS
<1>6. /\ hash' = h /\ Resume(op, ok, t, fl, h, bad) /\ stage' = "start" /\ previous' = Nothing
      /\ UNCHANGED consoles
  BY <1>0, <1>1, <1>2, <1>5 DEF Finish
<1>7. op.kind = "write" => op.session \in Sessions /\ op.revision \in 0..MaxRevision /\ op.version \in Nat
  BY <1>3, <1>4 DEF OpFits, WriteFits, Ops
<1>8. h \in [Sessions -> 0..MaxRevision \cup {Nothing}] /\ fl \in [Sessions -> Nat]
  BY <1>5, <1>7 DEF RecoveryTypeOK
<1>9. Waits(op, t)
  <2>1. op.own \in BOOLEAN
    BY <1>3 DEF Ops
  <2>2. (\E i \in DOMAIN queue : queue[i].own) <=> op.own \/ \E i \in DOMAIN t : t[i].own
    <3>1. ASSUME NEW i \in DOMAIN queue, queue[i].own PROVE op.own \/ \E j \in DOMAIN t : t[j].own
      <4>1. CASE i = 1
        BY <1>3, <3>1, <4>1
      <4>2. CASE i # 1
        <5>1. i - 1 \in 1..(Len(queue) - 1) /\ t[i - 1] = queue[i - 1 + 1] /\ i - 1 + 1 = i
          BY <1>3, <4>2
        <5>. QED
          BY <1>3, <3>1, <5>1
      <4>. QED
        BY <4>1, <4>2
    <3>2. ASSUME NEW j \in DOMAIN t, t[j].own PROVE \E i \in DOMAIN queue : queue[i].own
      <4>1. j + 1 \in DOMAIN queue /\ t[j] = queue[j + 1]
        BY <1>3
      <4>. QED
        BY <3>2, <4>1
    <3>3. op.own => \E i \in DOMAIN queue : queue[i].own
      BY <1>3
    <3>. QED
      BY <3>1, <3>2, <3>3
  <2>3. ahead \in 0..(Len(t) + 1)
    BY <1>3 DEF RecoveryTypeOK
  <2>. QED
    BY <2>1, <2>2, <2>3 DEF Waits, FlushFits
<1>17. bad \in 0..MaxFaults /\ faults \in Nat
  BY <1>0, RecoveryBoundsAssumption DEF RecoveryTypeOK
<1>10. /\ \E r \in {t, Disown(t)} : Goes(r, fl, h)
       /\ faults' \in bad..MaxFaults /\ (flushing # "no" /\ ok => Over(bad))
  BY <1>3, <1>6, <1>8, <1>9, <1>17, ResumeFacts
<1>18. /\ faults' \in 0..MaxFaults /\ (~ok => faults' # faults)
       /\ flushing # "no" /\ ok => Over(faults)
  <2>1. ok => bad = faults
    BY <1>0
  <2>2. ~ok => bad = faults + 1
    BY <1>0
  <2>3. faults' \in 0..MaxFaults /\ (~ok => faults' # faults)
    BY <1>10, <1>17, <2>2, RecoveryBoundsAssumption
  <2>. QED
    BY <1>10, <2>1, <2>3
<1>11. PICK r \in {t, Disown(t)} : Goes(r, fl, h)
  BY <1>10
<1>12. \E q : queue' = q /\ Follows(q, Tail(queue))
  BY <1>1, <1>3, <1>11, GoesFollows
<1>13. /\ flushed' \in [Sessions -> Nat]
       /\ \A s \in Sessions :
            flushed'[s] = fl[s] \/ (s \in bound /\ flushed'[s] = dirty[s] /\ h[s] = revision[s])
       /\ flushing' \in {"no", "writes", "queue", "pause"} /\ ahead' \in 0..Len(queue') /\ FlushFits'
  BY <1>11 DEF Goes, FlushFits
<1>14. ASSUME NEW s \in Sessions
       PROVE  fl[s] = flushed[s] \/ (fl[s] = dirty[s] /\ (s \in bound => h[s] = revision[s]))
  <2>. SUFFICES ASSUME fl[s] # flushed[s] PROVE fl[s] = dirty[s] /\ (s \in bound => h[s] = revision[s])
    OBVIOUS
  <2>1. ok /\ op.kind = "write" /\ dirty[op.session] = op.version /\ s = op.session
    BY <1>5, <1>7 DEF RecoveryTypeOK
  <2>2. fl[s] = op.version /\ h[s] = op.revision
    BY <1>5, <2>1 DEF RecoveryTypeOK
  <2>3. s \in bound => op.revision = revision[s]
    BY <1>4, <2>1 DEF OpFits, WriteFits
  <2>. QED
    BY <2>1, <2>2, <2>3
<1>15. \A s \in Sessions : \/ flushed'[s] = flushed[s]
                           \/ flushed'[s] = dirty[s] /\ (s \in bound => hash'[s] = revision[s])
  BY <1>6, <1>13, <1>14
<1>16. /\ ok /\ Head(queue).kind = "write" =>
              hash' = [hash EXCEPT ![Head(queue).session] = Head(queue).revision]
       /\ ~(ok /\ Head(queue).kind = "write") => hash' = hash
  BY <1>2, <1>5, <1>6
<1>. QED
  BY <1>6, <1>8, <1>12, <1>13, <1>15, <1>16, <1>18

\* After the end of an operation the queue and the flush fit, if what is left in the
\* queue fits the store as it is then.
LEMMA Finished ==
  ASSUME RInv, queue # <<>>, NEW ok \in BOOLEAN, ok \/ faults < MaxFaults, Finish(ok), StoreFits', IsFiniteSet(files'),
         NEW t, t = Tail(queue), \A i \in DOMAIN t : OpFits(t[i])',
         \A s \in Sessions :
           known[s] = "deleted" =>
             \/ \E i \in DOMAIN t : t[i] = Delete(s)
             \/ manifest'.entries[s] = Nothing \/ manifest'.entries[s] = disk'.entries[s]
  PROVE  ConsolesFit' /\ QueueFits(queue)' /\ HeadFits' /\ FlushFits' /\ DeletedFits'
<1>1. /\ RecoveryTypeOK /\ QueueFits(queue) /\ FlushFits /\ ConsolesFit /\ queue \in Seq(Ops)
  BY DEF RInv, RecoveryTypeOK
<1>2. /\ Len(queue) \in Nat \ {0} /\ DOMAIN queue = 1..Len(queue)
      /\ t \in Seq(Ops) /\ DOMAIN t = 1..(Len(queue) - 1) /\ Len(t) = Len(queue) - 1
      /\ \A i \in 1..(Len(queue) - 1) : t[i] = queue[i + 1]
  BY <1>1, TailElements
<1>3. PICK q : queue' = q /\ Follows(q, t)
  BY <1>1, FinishFacts
<1>4. /\ UNCHANGED consoles /\ stage' = "start" /\ previous' = Nothing /\ FlushFits'
      /\ \A s \in Sessions : \/ flushed'[s] = flushed[s]
                             \/ flushed'[s] = dirty[s] /\ (s \in bound => hash'[s] = revision[s])
  BY <1>1, FinishFacts
<1>5. known' = known /\ bound' = bound /\ revision' = revision /\ dirty' = dirty
  BY <1>4 DEF consoles
<1>6. \A i \in DOMAIN t : i + 1 \in DOMAIN queue /\ t[i] = queue[i + 1]
  BY <1>2
<1>7. \A i \in DOMAIN t : OpFits(t[i])
  BY <1>1, <1>6 DEF QueueFits
<1>8. InOrder(t)
  BY <1>1, <1>2, <1>6 DEF QueueFits, InOrder
<1>9. DeletedLast(t)
  <2>. SUFFICES ASSUME NEW i \in DOMAIN t, t[i].kind = "write", known[t[i].session] = "deleted"
                PROVE  \E j \in DOMAIN t : i < j /\ t[j] = Delete(t[i].session)
    BY DEF DeletedLast
  <2>1. PICK j \in DOMAIN queue : i + 1 < j /\ queue[j] = Delete(t[i].session)
    BY <1>1, <1>6 DEF QueueFits, DeletedLast
  <2>2. j - 1 \in DOMAIN t /\ i < j - 1 /\ t[j - 1] = queue[j - 1 + 1] /\ j - 1 + 1 = j
    BY <1>2, <2>1
  <2>. QED
    BY <2>1, <2>2
<1>10. /\ InOrder(q) /\ DeletedLast(q)
       /\ \A s \in Sessions : (\E i \in DOMAIN t : t[i] = Delete(s)) => \E i \in DOMAIN q : q[i] = Delete(s)
  <2>1. RecoveryTypeOK /\ ConsolesFit /\ t \in Seq(Ops) /\ Follows(q, t)
    BY <1>1, <1>2, <1>3
  <2>. QED
    BY <1>7, <1>8, <1>9, <2>1, OrderKept
<1>11. \A i \in DOMAIN q : OpFits(q[i])'
  BY <1>1, <1>2, <1>3, <1>4, FitsKept
<1>12. InOrder(q)' /\ DeletedLast(q)'
  BY <1>5, <1>10 DEF InOrder, DeletedLast, Delete, Op
<1>13. QueueFits(queue)'
  BY <1>3, <1>11, <1>12, QueueFitsAfter
<1>14. ConsolesFit'
  <2>1. ASSUME NEW s \in Sessions, known[s] = "new" PROVE hash'[s] = Nothing /\ flushed'[s] = 0
    <3>1. hash[s] = Nothing /\ flushed[s] = 0 /\ dirty[s] = 0
      BY <1>1, <2>1 DEF ConsolesFit
    <3>2. PICK op : op = Head(queue) /\ op = queue[1]
      BY <1>2
    <3>3. op.kind = "write" => op.session \in Sessions /\ op.session # s
      BY <1>1, <1>2, <2>1, <3>2 DEF QueueFits, OpFits, WriteFits
    <3>4. hash' = hash \/ (op.kind = "write" /\ hash' = [hash EXCEPT ![op.session] = op.revision])
      BY <1>1, <3>2, FinishFacts
    <3>5. hash'[s] = Nothing
      BY <1>1, <3>1, <3>3, <3>4 DEF RecoveryTypeOK
    <3>. QED
      BY <1>4, <3>1, <3>5
  <2>2. \A s \in Sessions : flushed'[s] <= dirty[s]
    <3>1. \A s \in Sessions : flushed[s] <= dirty[s] /\ dirty[s] \in Nat
      BY <1>1 DEF ConsolesFit, RecoveryTypeOK
    <3>. QED
      BY <1>4, <3>1
  <2>. QED
    BY <1>1, <1>5, <2>1, <2>2 DEF ConsolesFit
<1>15. HeadFits'
  BY <1>4 DEF HeadFits
<1>16. DeletedFits'
  BY <1>3, <1>5, <1>10 DEF DeletedFits, Delete, Op
<1>. QED
  BY <1>4, <1>13, <1>14, <1>15, <1>16

-----------------------------------------------------------------------------
(* What is put into the queue.                                             *)

LEMMA Pairs ==
  ASSUME NEW a \in Ops, NEW b \in Ops
  PROVE  /\ <<a>> \in Seq(Ops) /\ DOMAIN <<a>> = {1} /\ <<a>>[1] = a
         /\ <<a, b>> \in Seq(Ops) /\ DOMAIN <<a, b>> = {1, 2} /\ <<a, b>>[1] = a /\ <<a, b>>[2] = b
<1>1. DOMAIN <<a>> = 1..1 /\ DOMAIN <<a, b>> = 1..2
  OBVIOUS
<1>. QED
  BY <1>1

LEMMA HeadKept ==
  ASSUME RecoveryTypeOK, HeadFits, NEW w \in Seq(Ops), queue' = queue \o w,
         stage' = stage, previous' = previous, manifest' = manifest, disk' = disk, unread' = unread
  PROVE  HeadFits'
<1>1. queue \in Seq(Ops)
  BY DEF RecoveryTypeOK
<1>2. CASE stage = "start"
  BY <1>2 DEF HeadFits
<1>3. CASE stage # "start"
  <2>1. queue # <<>>
    BY <1>3 DEF HeadFits
  <2>2. /\ Len(queue) \in Nat \ {0} /\ Head(queue) = queue[1] /\ queue' \in Seq(Ops)
        /\ Len(queue') = Len(queue) + Len(w) /\ Len(w) \in Nat /\ queue'[1] = queue[1]
    BY <1>1, <2>1, TailElements, ConcatElements
  <2>3. queue' # <<>> /\ Head(queue') = queue'[1]
    <3>1. PICK q : q = queue'
      OBVIOUS
    <3>2. q \in Seq(Ops) /\ Len(q) > 0
      BY <2>2, <3>1
    <3>3. q # <<>>
      BY <3>2, EmptySeq
    <3>. QED
      BY <3>1, <3>2, <3>3, TailElements
  <2>4. Head(queue') = Head(queue)
    BY <2>2, <2>3
  <2>. QED
    BY <1>3, <2>3, <2>4 DEF HeadFits
<1>. QED
  BY <1>2, <1>3

\* What is queued by the service leaves the operation under way and the flush alone.
LEMMA QueuedKeeps ==
  ASSUME RecoveryTypeOK, HeadFits, FlushFits, NEW w \in Seq(Ops), \A i \in DOMAIN w : ~w[i].own,
         Queued(w), UNCHANGED storage
  PROVE  /\ queue' \in Seq(Ops) /\ ahead' \in 0..Len(queue') /\ HeadFits' /\ FlushFits'
         /\ \A i \in DOMAIN queue : i \in DOMAIN queue' /\ queue'[i] = queue[i]
<1>1. queue \in Seq(Ops)
  BY DEF RecoveryTypeOK
<1>2. queue' = queue \o w /\ stage' = stage /\ previous' = previous /\ flushing' = flushing /\ ahead' = ahead
  BY DEF Queued
<1>3. /\ queue' \in Seq(Ops) /\ Len(queue) \in Nat /\ Len(w) \in Nat
      /\ Len(queue') = Len(queue) + Len(w)
      /\ DOMAIN queue = 1..Len(queue) /\ DOMAIN w = 1..Len(w)
      /\ DOMAIN queue' = 1..(Len(queue) + Len(w))
      /\ \A i \in 1..Len(queue) : queue'[i] = queue[i]
      /\ \A i \in (Len(queue) + 1)..(Len(queue) + Len(w)) : queue'[i] = w[i - Len(queue)]
  BY <1>1, <1>2, ConcatElements
<1>4. HeadFits'
  BY <1>2, HeadKept DEF storage
<1>5. \A i \in DOMAIN queue : i \in DOMAIN queue' /\ queue'[i] = queue[i]
  BY <1>3
<1>6. ASSUME NEW i \in DOMAIN queue', queue'[i].own PROVE \E j \in DOMAIN queue : queue[j].own
  <2>1. CASE i \in DOMAIN queue
    BY <1>5, <1>6, <2>1
  <2>2. CASE i \notin DOMAIN queue
    <3>1. i - Len(queue) \in DOMAIN w /\ queue'[i] = w[i - Len(queue)]
      BY <1>3, <2>2
    <3>. QED
      BY <1>6, <3>1
  <2>. QED
    BY <2>1, <2>2
<1>7. FlushFits'
  BY <1>2, <1>5, <1>6 DEF FlushFits
<1>8. ahead' \in 0..Len(queue')
  BY <1>2, <1>3 DEF RecoveryTypeOK
<1>. QED
  BY <1>3, <1>4, <1>5, <1>7, <1>8

\* Deletions and selections fit behind what is in the queue, if no console that is
\* bound has a write before its deletion, and what is newly deleted has its deletion.
LEMMA QueuedFits ==
  ASSUME RecoveryTypeOK, QueueFits(queue), NEW q, q = queue, NEW w \in Seq(Ops), queue' = queue \o w,
         \A i \in DOMAIN w : OpFits(w[i])' /\ w[i].kind # "write",
         \A i \in DOMAIN q : OpFits(q[i])',
         \A i \in DOMAIN q : q[i].kind = "write" /\ q[i].session \in bound' =>
           /\ q[i].session \in bound
           /\ \A j \in DOMAIN w : w[j].session = q[i].session => w[j].kind # "delete",
         \A i \in DOMAIN q : q[i].kind = "write" /\ known'[q[i].session] = "deleted" =>
           \/ known[q[i].session] = "deleted"
           \/ \E j \in DOMAIN w : w[j] = Delete(q[i].session)
  PROVE  QueueFits(queue)'
<1>1. q \in Seq(Ops)
  BY DEF RecoveryTypeOK
<1>2. PICK r : r = q \o w
  OBVIOUS
<1>3. /\ Len(q) \in Nat /\ Len(w) \in Nat
      /\ DOMAIN q = 1..Len(q) /\ DOMAIN w = 1..Len(w) /\ DOMAIN r = 1..(Len(q) + Len(w))
      /\ \A i \in 1..Len(q) : r[i] = q[i]
      /\ \A i \in (Len(q) + 1)..(Len(q) + Len(w)) : r[i] = w[i - Len(q)]
  BY <1>1, <1>2, ConcatElements
<1>4. \A i \in DOMAIN r \ DOMAIN q : i - Len(q) \in DOMAIN w /\ r[i] = w[i - Len(q)]
  <2>. TAKE i \in DOMAIN r \ DOMAIN q
  <2>1. i \in (Len(q) + 1)..(Len(q) + Len(w)) /\ i - Len(q) \in 1..Len(w)
    BY <1>3
  <2>. QED
    BY <1>3, <2>1
<1>5. \A i \in DOMAIN q : i \in DOMAIN r /\ r[i] = q[i]
  BY <1>3
<1>6. \A j \in DOMAIN w : Len(q) + j \in DOMAIN r /\ r[Len(q) + j] = w[j]
  <2>. TAKE j \in DOMAIN w
  <2>1. Len(q) + j \in (Len(q) + 1)..(Len(q) + Len(w)) /\ Len(q) + j - Len(q) = j
    BY <1>3
  <2>. QED
    BY <1>3, <2>1
<1>7. \A i \in DOMAIN r : OpFits(r[i])'
  <2>. TAKE i \in DOMAIN r
  <2>1. CASE i \in DOMAIN q
    <3>1. OpFits(q[i])' /\ r[i] = q[i]
      BY <1>5, <2>1
    <3>. QED
      BY <3>1 DEF OpFits, WriteFits, DeleteFits, Below, Unknown
  <2>2. CASE i \notin DOMAIN q
    <3>1. PICK k \in DOMAIN w : r[i] = w[k]
      BY <1>4, <2>2
    <3>2. OpFits(w[k])'
      OBVIOUS
    <3>. QED
      BY <3>1, <3>2 DEF OpFits, WriteFits, DeleteFits, Below, Unknown
  <2>. QED
    BY <2>1, <2>2
<1>8. InOrder(r)'
  <2>. SUFFICES ASSUME NEW i \in DOMAIN r, NEW j \in DOMAIN r, i < j, r[i].kind = "write",
                       r[j].session = r[i].session, r[i].session \in bound'
                PROVE  /\ r[j].kind = "write" => r[i].revision <= r[j].revision
                       /\ r[j].kind # "delete"
    BY DEF InOrder
  <2>1. i \in DOMAIN q /\ r[i] = q[i]
    BY <1>4, <1>5
  <2>2. CASE j \in DOMAIN q
    BY <1>5, <2>1, <2>2 DEF QueueFits, InOrder
  <2>3. CASE j \notin DOMAIN q
    BY <1>4, <2>1, <2>3
  <2>. QED
    BY <2>2, <2>3
<1>9. DeletedLast(r)'
  <2>. SUFFICES ASSUME NEW i \in DOMAIN r, r[i].kind = "write", known'[r[i].session] = "deleted"
                PROVE  \E j \in DOMAIN r : i < j /\ r[j] = Delete(r[i].session)
    BY DEF DeletedLast, Delete, Op
  <2>1. i \in DOMAIN q /\ r[i] = q[i]
    BY <1>4, <1>5
  <2>2. CASE known[q[i].session] = "deleted"
    BY <1>5, <2>1, <2>2 DEF QueueFits, DeletedLast
  <2>3. CASE \E j \in DOMAIN w : w[j] = Delete(q[i].session)
    <3>1. PICK j \in DOMAIN w : w[j] = Delete(q[i].session)
      BY <2>3
    <3>2. Len(q) + j \in DOMAIN r /\ r[Len(q) + j] = Delete(r[i].session)
      BY <1>6, <2>1, <3>1
    <3>3. i < Len(q) + j
      BY <1>3, <2>1
    <3>. QED
      BY <3>2, <3>3
  <2>. QED
    BY <2>1, <2>2, <2>3
<1>. QED
  BY <1>2, <1>7, <1>8, <1>9, QueueFitsAfter

-----------------------------------------------------------------------------
(* The steps of the consoles.                                              *)

LEMMA InitInv == RecoveryInit => RInv
<1>. SUFFICES ASSUME RecoveryInit PROVE RInv
  OBVIOUS
<1>1. /\ known = [s \in Sessions |-> "new"] /\ bound = {} /\ revision = [s \in Sessions |-> 0]
      /\ dirty = [s \in Sessions |-> 0] /\ flushed = [s \in Sessions |-> 0]
      /\ hash = [s \in Sessions |-> Nothing] /\ active = Nothing /\ queue = <<>> /\ stage = "start"
      /\ previous = Nothing /\ flushing = "no" /\ ahead = 0 /\ files = {} /\ faults = 0 /\ unread = {}
      /\ manifest = [entries |-> [s \in Sessions |-> Nothing], active |-> Nothing] /\ disk = manifest
  BY DEF RecoveryInit, NoManifest
<1>2. RecoveryTypeOK
  BY <1>1, RecoveryBoundsAssumption DEF RecoveryTypeOK, Entries
<1>3. ConsolesFit
  BY <1>1, FS_EmptySet DEF ConsolesFit
<1>4. StoreFits
  BY <1>1 DEF StoreFits, StoredFits, Unknown, EntryFits
<1>5. QueueFits(queue)
  BY <1>1 DEF QueueFits, InOrder, DeletedLast
<1>6. HeadFits /\ FlushFits
  BY <1>1 DEF HeadFits, FlushFits
<1>7. DeletedFits
  BY <1>1 DEF DeletedFits
<1>. QED
  BY <1>2, <1>3, <1>4, <1>5, <1>6, <1>7 DEF RInv

\* An entry of a manifest is a checkpoint, of a revision.
LEMMA EntryType ==
  ASSUME RecoveryTypeOK, NEW s \in Sessions
  PROVE  /\ manifest.entries[s] # Nothing =>
              manifest.entries[s] \in Checkpoints /\ manifest.entries[s].revision \in 0..MaxRevision
         /\ disk.entries[s] # Nothing =>
              disk.entries[s] \in Checkpoints /\ disk.entries[s].revision \in 0..MaxRevision
         /\ hash[s] # Nothing => hash[s] \in 0..MaxRevision
         /\ revision[s] \in 0..MaxRevision /\ 0..MaxRevision \subseteq Nat
<1>1. manifest.entries[s] \in Checkpoints \cup {Nothing} /\ disk.entries[s] \in Checkpoints \cup {Nothing}
  BY DEF RecoveryTypeOK, Entries
<1>2. \A c \in Checkpoints : c.revision \in 0..MaxRevision
  BY DEF Checkpoints
<1>3. hash[s] \in 0..MaxRevision \cup {Nothing} /\ revision[s] \in 0..MaxRevision
  BY DEF RecoveryTypeOK
<1>. QED
  BY <1>1, <1>2, <1>3, RecoveryBoundsAssumption

\* A new session has no operations and is not stored.
LEMMA StartStep ==
  ASSUME RInv, NEW s \in Sessions, NEW activate \in BOOLEAN, StartConsole(s, activate)
  PROVE  RInv'
<1>1. /\ RecoveryTypeOK /\ ConsolesFit /\ StoreFits /\ QueueFits(queue) /\ HeadFits /\ FlushFits /\ DeletedFits
  BY DEF RInv
<1>2. PICK w : w = IF activate THEN <<Delete(s), Select(s)>> ELSE <<Delete(s)>>
  OBVIOUS
<1>3. /\ known[s] = "new" /\ known' = [known EXCEPT ![s] = "live"] /\ bound' = bound \cup {s}
      /\ dirty' = [dirty EXCEPT ![s] = 1] /\ active' = (IF activate THEN s ELSE active)
      /\ Queued(w) /\ UNCHANGED <<revision, flushed, hash, storage, faults>>
  BY <1>2 DEF StartConsole
<1>4. /\ w \in Seq(Ops)
      /\ \A i \in DOMAIN w : w[i] = Delete(s) \/ w[i] = Select(s)
  BY <1>2, DeleteType, SelectType, Pairs
<1>5. \A i \in DOMAIN w : ~w[i].own /\ w[i].session = s /\ w[i].kind \in {"delete", "select"}
  BY <1>4, DeleteType, SelectType
<1>6. /\ queue' \in Seq(Ops) /\ ahead' \in 0..Len(queue') /\ HeadFits' /\ FlushFits'
      /\ \A i \in DOMAIN queue : i \in DOMAIN queue' /\ queue'[i] = queue[i]
  BY <1>1, <1>3, <1>4, <1>5, QueuedKeeps
<1>7. /\ queue' = queue \o w /\ stage' = stage /\ previous' = previous /\ flushing' = flushing
      /\ manifest' = manifest /\ disk' = disk /\ files' = files /\ unread' = unread /\ faults' = faults
      /\ revision' = revision /\ flushed' = flushed /\ hash' = hash
  BY <1>3 DEF Queued, storage
<1>8. RecoveryTypeOK'
  BY <1>1, <1>3, <1>6, <1>7 DEF RecoveryTypeOK
<1>9. ConsolesFit'
  BY <1>1, <1>3, <1>7 DEF ConsolesFit, RecoveryTypeOK
<1>10. hash[s] = Nothing /\ flushed[s] = 0 /\ manifest.entries[s] = Nothing /\ disk.entries[s] = Nothing
  BY <1>1, <1>3 DEF ConsolesFit, StoreFits, StoredFits, Unknown, EntryFits
<1>11. StoreFits'
  <2>1. \A r \in Sessions : EntryFits(r, manifest.entries[r])' /\ EntryFits(r, disk.entries[r])'
    BY <1>1, <1>3, <1>7, <1>10 DEF StoreFits, StoredFits, Unknown, EntryFits, RecoveryTypeOK
  <2>2. \A r \in Sessions : r # s => (r \in bound' <=> r \in bound) /\ dirty'[r] = dirty[r]
    BY <1>1, <1>3 DEF RecoveryTypeOK
  <2>3. dirty'[s] = 1
    BY <1>1, <1>3 DEF RecoveryTypeOK
  <2>. QED
    BY <1>1, <1>7, <1>10, <2>1, <2>2, <2>3 DEF StoreFits, StoredFits, Unknown
<1>12. PICK q : q = queue
  OBVIOUS
<1>13. \A i \in DOMAIN q : q[i].kind = "write" \/ q[i].kind = "delete" => q[i].session \in Sessions \ {s}
  BY <1>1, <1>3, <1>12 DEF QueueFits, OpFits, WriteFits, DeleteFits
<1>14. ASSUME NEW i \in DOMAIN q PROVE OpFits(q[i])'
  <2>1. PICK o : o = q[i]
    OBVIOUS
  <2>2. OpFits(o)
    BY <1>1, <1>12, <2>1 DEF QueueFits
  <2>3. \A r \in Sessions : r # s => known'[r] = known[r] /\ (r \in bound' <=> r \in bound) /\ dirty'[r] = dirty[r]
    BY <1>1, <1>3 DEF RecoveryTypeOK
  <2>4. OpFits(o)'
    BY <1>7, <1>13, <2>1, <2>2, <2>3 DEF OpFits, WriteFits, DeleteFits, Below, Unknown
  <2>. QED
    BY <2>1, <2>4 DEF OpFits, WriteFits, DeleteFits, Below, Unknown
<1>15. \A i \in DOMAIN w : OpFits(w[i])'
  BY <1>1, <1>3, <1>5, <1>7, <1>10 DEF OpFits, DeleteFits, RecoveryTypeOK
<1>16. QueueFits(queue)'
  <2>1. \A i \in DOMAIN q : q[i].kind = "write" => q[i].session \in Sessions /\ q[i].session # s
    BY <1>13 DEF OpFits, WriteFits
  <2>2. \A i \in DOMAIN q : q[i].kind = "write" /\ q[i].session \in bound' =>
          /\ q[i].session \in bound
          /\ \A j \in DOMAIN w : w[j].session = q[i].session => w[j].kind # "delete"
    BY <1>3, <1>5, <2>1
  <2>3. \A i \in DOMAIN q : q[i].kind = "write" /\ known'[q[i].session] = "deleted" =>
          \/ known[q[i].session] = "deleted"
          \/ \E j \in DOMAIN w : w[j] = Delete(q[i].session)
    BY <1>1, <1>3, <2>1 DEF RecoveryTypeOK
  <2>4. \A i \in DOMAIN w : OpFits(w[i])' /\ w[i].kind # "write"
    BY <1>5, <1>15
  <2>. QED
    BY <1>1, <1>4, <1>7, <1>12, <1>14, <2>2, <2>3, <2>4, QueuedFits
<1>17. DeletedFits'
  BY <1>1, <1>3, <1>6, <1>7 DEF DeletedFits, RecoveryTypeOK, Delete, Op
<1>. QED
  BY <1>6, <1>8, <1>9, <1>11, <1>16, <1>17 DEF RInv

LEMMA ChangeStep ==
  ASSUME RInv, NEW s \in Sessions, Change(s)
  PROVE  RInv'
<1>1. /\ RecoveryTypeOK /\ ConsolesFit /\ StoreFits /\ QueueFits(queue) /\ HeadFits /\ FlushFits /\ DeletedFits
  BY DEF RInv
<1>2. /\ s \in bound /\ revision[s] < MaxRevision /\ revision' = [revision EXCEPT ![s] = revision[s] + 1]
      /\ dirty' = [dirty EXCEPT ![s] = dirty[s] + 1]
  BY DEF Change
<1>3. /\ known' = known /\ bound' = bound /\ active' = active /\ flushed' = flushed /\ hash' = hash
      /\ queue' = queue /\ stage' = stage /\ previous' = previous /\ flushing' = flushing
      /\ ahead' = ahead /\ manifest' = manifest /\ disk' = disk /\ files' = files /\ unread' = unread /\ faults' = faults
  BY DEF Change, running, storage
<1>4. /\ revision \in [Sessions -> 0..MaxRevision] /\ dirty \in [Sessions -> Nat]
      /\ flushed \in [Sessions -> Nat] /\ hash \in [Sessions -> 0..MaxRevision \cup {Nothing}]
  BY <1>1 DEF RecoveryTypeOK
<1>5. revision' \in [Sessions -> 0..MaxRevision] /\ dirty' \in [Sessions -> Nat]
  BY <1>2, <1>4, RecoveryBoundsAssumption
<1>6. RecoveryTypeOK'
  BY <1>1, <1>3, <1>5 DEF RecoveryTypeOK
<1>7. ConsolesFit'
  BY <1>1, <1>2, <1>3, <1>4 DEF ConsolesFit
<1>8. \A r \in Sessions : revision[r] <= revision'[r] /\ (revision'[r] # revision[r] => dirty'[r] > flushed[r])
  BY <1>1, <1>2, <1>4 DEF ConsolesFit
<1>9. StoreFits'
  <2>. SUFFICES ASSUME NEW r \in Sessions
                PROVE  StoredFits(r)'
    BY DEF StoreFits
  <2>1. /\ manifest.entries[r] # Nothing => manifest.entries[r].revision \in Nat
        /\ disk.entries[r] # Nothing => disk.entries[r].revision \in Nat
    BY <1>1, EntryType
  <2>2. EntryFits(r, manifest.entries[r])' /\ EntryFits(r, disk.entries[r])'
    BY <1>1, <1>3, <1>4, <1>5, <1>8, <2>1 DEF StoreFits, StoredFits, Unknown, EntryFits
  <2>3. (r \in bound /\ dirty[r] <= flushed[r] => hash[r] = revision[r])'
    BY <1>1, <1>2, <1>3, <1>4, <1>5, <1>8 DEF StoreFits, StoredFits, Unknown
  <2>. QED
    BY <1>1, <1>3, <2>2, <2>3 DEF StoreFits, StoredFits, Unknown
<1>10. QueueFits(queue)'
  <2>1. PICK q : q = queue
    OBVIOUS
  <2>2. ASSUME NEW i \in DOMAIN q PROVE OpFits(q[i])'
    <3>1. PICK o : o = q[i]
      OBVIOUS
    <3>2. o \in Ops /\ OpFits(o)
      BY <1>1, <2>1, <3>1 DEF RecoveryTypeOK, QueueFits
    <3>3. o.revision \in Nat /\ o.version \in Nat
      BY <3>2 DEF Ops
    <3>4. WriteFits(o) => WriteFits(o)'
      BY <1>2, <1>3, <1>4, <1>5, <1>8, <3>3 DEF WriteFits, Below, Unknown
    <3>5. DeleteFits(o) => DeleteFits(o)'
      BY <1>3 DEF DeleteFits
    <3>6. OpFits(o)'
      BY <3>2, <3>4, <3>5 DEF OpFits
    <3>. QED
      BY <3>1, <3>6 DEF OpFits, WriteFits, DeleteFits, Below, Unknown
  <2>3. InOrder(q)' /\ DeletedLast(q)'
    BY <1>1, <1>3, <2>1 DEF QueueFits, InOrder, DeletedLast, Delete, Op
  <2>. QED
    BY <1>3, <2>1, <2>2, <2>3, QueueFitsAfter
<1>11. HeadFits' /\ FlushFits'
  BY <1>1, <1>3 DEF HeadFits, FlushFits
<1>12. DeletedFits'
  BY <1>1, <1>3 DEF DeletedFits, Delete, Op
<1>. QED
  BY <1>6, <1>7, <1>9, <1>10, <1>11, <1>12 DEF RInv

LEMMA SelectStep ==
  ASSUME RInv, NEW s \in Sessions, SelectConsole(s)
  PROVE  RInv'
<1>1. /\ RecoveryTypeOK /\ ConsolesFit /\ StoreFits /\ QueueFits(queue) /\ HeadFits /\ FlushFits /\ DeletedFits
  BY DEF RInv
<1>2. PICK w : w = <<Select(s)>>
  OBVIOUS
<1>3. /\ active' = s /\ Queued(w) /\ UNCHANGED storage /\ faults' = faults
      /\ known' = known /\ bound' = bound /\ revision' = revision /\ dirty' = dirty
      /\ flushed' = flushed /\ hash' = hash
  BY <1>2 DEF SelectConsole
<1>4. w \in Seq(Ops) /\ \A i \in DOMAIN w : w[i] = Select(s)
  BY <1>2, SelectType, Pairs
<1>5. \A i \in DOMAIN w : ~w[i].own /\ w[i].session = s /\ w[i].kind = "select"
  BY <1>4, SelectType
<1>6. /\ queue' \in Seq(Ops) /\ ahead' \in 0..Len(queue') /\ HeadFits' /\ FlushFits'
      /\ \A i \in DOMAIN queue : i \in DOMAIN queue' /\ queue'[i] = queue[i]
  BY <1>1, <1>3, <1>4, <1>5, QueuedKeeps
<1>7. /\ queue' = queue \o w /\ stage' = stage /\ previous' = previous /\ flushing' = flushing
      /\ manifest' = manifest /\ disk' = disk /\ files' = files /\ unread' = unread /\ faults' = faults
  BY <1>3 DEF Queued, storage
<1>8. RecoveryTypeOK'
  BY <1>1, <1>3, <1>6, <1>7 DEF RecoveryTypeOK
<1>9. ConsolesFit' /\ StoreFits'
  BY <1>1, <1>3, <1>7 DEF ConsolesFit, StoreFits, StoredFits, Unknown, EntryFits
<1>10. PICK q : q = queue
  OBVIOUS
<1>11. \A i \in DOMAIN q : OpFits(q[i])'
  BY <1>1, <1>3, <1>7, <1>10 DEF QueueFits, OpFits, WriteFits, DeleteFits, Below, Unknown
<1>12. \A i \in DOMAIN w : OpFits(w[i])' /\ w[i].kind # "write"
  BY <1>5 DEF OpFits
<1>13. QueueFits(queue)'
  <2>1. \A i \in DOMAIN q : q[i].kind = "write" /\ q[i].session \in bound' =>
          /\ q[i].session \in bound
          /\ \A j \in DOMAIN w : w[j].session = q[i].session => w[j].kind # "delete"
    BY <1>3, <1>5
  <2>2. \A i \in DOMAIN q : q[i].kind = "write" /\ known'[q[i].session] = "deleted" =>
          \/ known[q[i].session] = "deleted"
          \/ \E j \in DOMAIN w : w[j] = Delete(q[i].session)
    BY <1>3
  <2>. QED
    BY <1>1, <1>4, <1>7, <1>10, <1>11, <1>12, <2>1, <2>2, QueuedFits
<1>14. DeletedFits'
  BY <1>1, <1>3, <1>6, <1>7 DEF DeletedFits, Delete, Op
<1>. QED
  BY <1>6, <1>8, <1>9, <1>13, <1>14 DEF RInv

\* A deletion is queued behind every write of its console.
LEMMA DeleteStep ==
  ASSUME RInv, NEW s \in Sessions, NEW replacement \in Sessions \cup {Nothing}, DeleteConsole(s, replacement)
  PROVE  RInv'
<1>1. /\ RecoveryTypeOK /\ ConsolesFit /\ StoreFits /\ QueueFits(queue) /\ HeadFits /\ FlushFits /\ DeletedFits
  BY DEF RInv
<1>2. PICK w : w = IF active = s THEN <<Delete(s), Select(replacement)>> ELSE <<Delete(s)>>
  OBVIOUS
<1>3. /\ s \in bound /\ known' = [known EXCEPT ![s] = "deleted"] /\ bound' = bound \ {s}
      /\ dirty' = [dirty EXCEPT ![s] = 0] /\ flushed' = [flushed EXCEPT ![s] = 0]
      /\ hash' = [hash EXCEPT ![s] = Nothing] /\ active' = (IF active = s THEN replacement ELSE active)
      /\ Queued(w) /\ revision' = [revision EXCEPT ![s] = 0] /\ UNCHANGED storage /\ faults' = faults
  BY <1>2 DEF DeleteConsole
<1>4. /\ w \in Seq(Ops) /\ 1 \in DOMAIN w /\ w[1] = Delete(s)
      /\ \A i \in DOMAIN w : w[i] = Delete(s) \/ w[i] = Select(replacement)
  BY <1>2, DeleteType, SelectType, Pairs
<1>5. \A i \in DOMAIN w :
        /\ ~w[i].own /\ w[i].kind \in {"delete", "select"}
        /\ w[i].kind = "delete" => w[i].session = s
  BY <1>4, DeleteType, SelectType
<1>6. /\ queue' \in Seq(Ops) /\ ahead' \in 0..Len(queue') /\ HeadFits' /\ FlushFits'
      /\ \A i \in DOMAIN queue : i \in DOMAIN queue' /\ queue'[i] = queue[i]
  BY <1>1, <1>3, <1>4, <1>5, QueuedKeeps
<1>7. /\ queue' = queue \o w /\ stage' = stage /\ previous' = previous /\ flushing' = flushing
      /\ manifest' = manifest /\ disk' = disk /\ files' = files /\ unread' = unread /\ faults' = faults
  BY <1>3 DEF Queued, storage
<1>8. RecoveryTypeOK'
  <2>1. revision' \in [Sessions -> 0..MaxRevision]
    BY <1>1, <1>3, RecoveryBoundsAssumption DEF RecoveryTypeOK
  <2>. QED
    BY <1>1, <1>3, <1>6, <1>7, <2>1 DEF RecoveryTypeOK
<1>9. /\ \A r \in Sessions : r # s =>
           /\ known'[r] = known[r] /\ dirty'[r] = dirty[r] /\ flushed'[r] = flushed[r] /\ hash'[r] = hash[r]
           /\ r \in bound' <=> r \in bound
           /\ revision'[r] = revision[r]
      /\ known'[s] = "deleted" /\ s \notin bound' /\ dirty'[s] = 0 /\ flushed'[s] = 0 /\ hash'[s] = Nothing
      /\ known[s] = "live" /\ bound' \subseteq Sessions
  BY <1>1, <1>3 DEF RecoveryTypeOK, ConsolesFit
<1>10. ConsolesFit'
  <2>1. \A r \in Sessions : r \in bound' <=> known'[r] = "live"
    BY <1>1, <1>9 DEF ConsolesFit
  <2>2. \A r \in Sessions : known'[r] = "new" => dirty'[r] = 0 /\ flushed'[r] = 0 /\ hash'[r] = Nothing
    BY <1>1, <1>9 DEF ConsolesFit
  <2>3. (\A r \in bound' : dirty'[r] > 0) /\ (\A r \in Sessions : flushed'[r] <= dirty'[r])
    BY <1>1, <1>9 DEF ConsolesFit
  <2>. QED
    BY <1>1, <1>7, <2>1, <2>2, <2>3 DEF ConsolesFit
<1>11. StoreFits'
  <2>1. \A r \in Sessions : EntryFits(r, manifest.entries[r])' /\ EntryFits(r, disk.entries[r])'
    BY <1>1, <1>3, <1>7, <1>9 DEF StoreFits, StoredFits, Unknown, EntryFits
  <2>. QED
    BY <1>1, <1>3, <1>7, <1>9, <2>1 DEF StoreFits, StoredFits, Unknown
<1>12. PICK q : q = queue
  OBVIOUS
<1>13. ASSUME NEW i \in DOMAIN q PROVE OpFits(q[i])'
  <2>1. PICK o : o = q[i]
    OBVIOUS
  <2>2. OpFits(o)
    BY <1>1, <1>12, <2>1 DEF QueueFits
  <2>3. OpFits(o)'
    BY <1>3, <1>7, <1>9, <2>2 DEF OpFits, WriteFits, DeleteFits, Below, Unknown
  <2>. QED
    BY <2>1, <2>3 DEF OpFits, WriteFits, DeleteFits, Below, Unknown
<1>14. \A i \in DOMAIN w : OpFits(w[i])' /\ w[i].kind # "write"
  BY <1>5, <1>9 DEF OpFits, DeleteFits
<1>15. QueueFits(queue)'
  <2>1. \A i \in DOMAIN q : q[i].kind = "write" /\ q[i].session \in bound' =>
          /\ q[i].session \in bound
          /\ \A j \in DOMAIN w : w[j].session = q[i].session => w[j].kind # "delete"
    BY <1>3, <1>5
  <2>2. \A i \in DOMAIN q : q[i].kind = "write" => q[i].session \in Sessions
    BY <1>1, <1>12 DEF QueueFits, OpFits, WriteFits
  <2>3. \A i \in DOMAIN q : q[i].kind = "write" /\ known'[q[i].session] = "deleted" =>
          \/ known[q[i].session] = "deleted"
          \/ \E j \in DOMAIN w : w[j] = Delete(q[i].session)
    BY <1>4, <1>9, <2>2
  <2>. QED
    BY <1>1, <1>4, <1>7, <1>12, <1>13, <1>14, <2>1, <2>3, QueuedFits
<1>16. DeletedFits'
  <2>. SUFFICES ASSUME NEW r \in Sessions, known'[r] = "deleted"
                PROVE  \/ \E i \in DOMAIN queue' : queue'[i] = Delete(r)
                       \/ manifest'.entries[r] = Nothing \/ manifest'.entries[r] = disk'.entries[r]
    BY DEF DeletedFits, Delete, Op
  <2>1. CASE r = s
    <3>1. PICK u : u = queue'
      OBVIOUS
    <3>2. Len(queue) \in Nat /\ Len(w) >= 1 /\ u = queue \o w
      BY <1>1, <1>4, <1>7, <3>1, ConcatElements DEF RecoveryTypeOK
    <3>3. Len(queue) + 1 \in DOMAIN u /\ u[Len(queue) + 1] = w[Len(queue) + 1 - Len(queue)]
      BY <1>1, <1>4, <3>2, ConcatElements DEF RecoveryTypeOK
    <3>4. Len(queue) + 1 - Len(queue) = 1
      BY <3>2
    <3>. QED
      BY <1>4, <2>1, <3>1, <3>3, <3>4
  <2>2. CASE r # s
    BY <1>1, <1>6, <1>7, <1>9, <2>2 DEF DeletedFits
  <2>. QED
    BY <2>1, <2>2
<1>. QED
  BY <1>6, <1>8, <1>10, <1>11, <1>15, <1>16 DEF RInv

\* A flush writes consoles as they are, and marks those that are stored.
LEMMA FlushStep ==
  ASSUME RInv, Flush \/ FlushGoesOn
  PROVE  RInv'
<1>1. /\ RecoveryTypeOK /\ ConsolesFit /\ StoreFits /\ QueueFits(queue) /\ HeadFits /\ FlushFits /\ DeletedFits
  BY DEF RInv
<1>2. /\ flushing \in {"no", "pause"}
      /\ DoFlush(queue, flushed, hash, faults) \/ Around(queue, flushed, hash, faults)
      /\ UNCHANGED consoles
      /\ known' = known /\ bound' = bound /\ revision' = revision /\ dirty' = dirty /\ active' = active
      /\ hash' = hash /\ stage' = stage /\ previous' = previous
      /\ manifest' = manifest /\ disk' = disk /\ files' = files /\ unread' = unread
  BY DEF Flush, FlushGoesOn, Around, consoles, storage
<1>3. queue \in Seq(Ops) /\ flushed \in [Sessions -> Nat] /\ NoneOwn(queue)
  BY <1>1, <1>2 DEF RecoveryTypeOK, FlushFits, NoneOwn
<1>4. Goes(queue, flushed, hash) /\ faults' \in 0..MaxFaults
  <2>1. faults \in 0..MaxFaults
    BY <1>1 DEF RecoveryTypeOK
  <2>2. Goes(queue, flushed, hash) /\ Over(faults)
    BY <1>1, <1>2, <1>3, <2>1, DoFlushFacts, AroundFacts
  <2>. QED
    BY <2>1, <2>2, RecoveryBoundsAssumption DEF Over
<1>5. PICK w : Writes(w) /\ queue' = queue \o w
  BY <1>4 DEF Goes
<1>6. PICK t : t = queue
  OBVIOUS
<1>7. PICK q : queue' = q /\ Follows(q, t)
  BY <1>3, <1>4, <1>6, GoesFollows
<1>8. /\ flushed' \in [Sessions -> Nat]
      /\ \A s \in Sessions :
           flushed'[s] = flushed[s] \/ (s \in bound /\ flushed'[s] = dirty[s] /\ hash[s] = revision[s])
      /\ flushing' \in {"no", "writes", "queue", "pause"} /\ ahead' \in 0..Len(queue') /\ FlushFits'
  BY <1>4 DEF Goes, FlushFits
<1>9. queue' \in Seq(Ops)
  BY <1>7 DEF Follows
<1>10. RecoveryTypeOK'
  BY <1>1, <1>2, <1>4, <1>8, <1>9 DEF RecoveryTypeOK
<1>11. ConsolesFit'
  <2>1. \A s \in Sessions : flushed[s] <= dirty[s] /\ dirty[s] \in Nat
    BY <1>1 DEF ConsolesFit, RecoveryTypeOK
  <2>2. \A s \in Sessions : flushed'[s] <= dirty[s] /\ (dirty[s] = 0 /\ flushed[s] = 0 => flushed'[s] = 0)
    BY <1>8, <2>1
  <2>. QED
    BY <1>1, <1>2, <2>2 DEF ConsolesFit
<1>12. StoreFits'
  BY <1>1, <1>2, <1>8 DEF StoreFits, StoredFits, Unknown, EntryFits
<1>13. \A i \in DOMAIN t : OpFits(t[i])'
  BY <1>1, <1>2, <1>6 DEF QueueFits, OpFits, WriteFits, DeleteFits, Below, Unknown
<1>14. \A i \in DOMAIN q : OpFits(q[i])'
  BY <1>1, <1>2, <1>3, <1>6, <1>7, <1>12, <1>13, FitsKept
<1>15. /\ InOrder(q) /\ DeletedLast(q)
       /\ \A s \in Sessions : (\E i \in DOMAIN t : t[i] = Delete(s)) => \E i \in DOMAIN q : q[i] = Delete(s)
  <2>1. InOrder(t) /\ DeletedLast(t) /\ \A i \in DOMAIN t : OpFits(t[i])
    BY <1>1, <1>6 DEF QueueFits
  <2>2. RecoveryTypeOK /\ ConsolesFit /\ t \in Seq(Ops) /\ Follows(q, t)
    BY <1>1, <1>3, <1>6, <1>7
  <2>. QED
    BY <2>1, <2>2, OrderKept
<1>16. InOrder(q)' /\ DeletedLast(q)'
  BY <1>2, <1>15 DEF InOrder, DeletedLast, Delete, Op
<1>17. QueueFits(queue)'
  BY <1>7, <1>14, <1>16, QueueFitsAfter
<1>18. HeadFits'
  BY <1>1, <1>2, <1>5, HeadKept DEF Writes
<1>19. DeletedFits'
  BY <1>1, <1>2, <1>6, <1>7, <1>15 DEF DeletedFits, Delete, Op
<1>. QED
  BY <1>8, <1>10, <1>11, <1>12, <1>17, <1>18, <1>19 DEF RInv

\* After a restart the consoles are what is stored, or nothing is known of that.
LEMMA CrashStep ==
  ASSUME RInv, NEW opened \in BOOLEAN, NEW alike \in BOOLEAN, NEW read \in SUBSET Sessions,
         NEW chosen \in Sessions \cup {Nothing}, Crash(opened, read, alike, chosen)
  PROVE  RInv'
<1>1. /\ RecoveryTypeOK /\ ConsolesFit /\ StoreFits /\ QueueFits(queue) /\ HeadFits /\ FlushFits /\ DeletedFits
  BY DEF RInv
<1>2. PICK live : live = {s \in Sessions : known[s] = "live"}
  OBVIOUS
<1>3. /\ faults < MaxFaults /\ faults' = faults + 1 /\ known' = known /\ disk' = disk /\ files' = files
      /\ manifest' = (IF opened THEN disk ELSE NoManifest) /\ bound' = live
      /\ read \subseteq {s \in live : opened /\ Recoverable(s)}
      /\ unread' = {s \in live \ read : OnDisk(s) # Nothing}
      /\ revision' = [s \in Sessions |-> IF s \in read THEN OnDisk(s).revision ELSE 0]
      /\ dirty' = [s \in Sessions |-> IF s \in live THEN 1 ELSE 0]
      /\ flushed' = [s \in Sessions |-> 0]
      /\ hash' = [s \in Sessions |-> IF s \in read /\ alike THEN OnDisk(s).revision ELSE Nothing]
      /\ active' = chosen
      /\ queue' = (IF chosen = Nothing THEN <<>> ELSE <<Select(chosen)>>)
      /\ stage' = "start" /\ previous' = Nothing /\ flushing' = "no" /\ ahead' = 0
  BY <1>2 DEF Crash, MayFail
<1>4. ASSUME NEW s \in read
      PROVE  /\ s \in live /\ opened /\ disk.entries[s] # Nothing
             /\ OnDisk(s).revision \in 0..MaxRevision /\ OnDisk(s).revision = disk.entries[s].revision
  <2>1. s \in live /\ opened /\ OnDisk(s) \in Checkpoints
    BY <1>1, <1>3 DEF Recoverable, RecoveryTypeOK
  <2>2. OnDisk(s) # Nothing /\ OnDisk(s).revision \in 0..MaxRevision
    BY <2>1, NothingAssumption DEF Checkpoints
  <2>. QED
    BY <2>1, <2>2 DEF OnDisk
<1>5. /\ revision' \in [Sessions -> 0..MaxRevision] /\ dirty' \in [Sessions -> Nat]
      /\ flushed' \in [Sessions -> Nat] /\ hash' \in [Sessions -> 0..MaxRevision \cup {Nothing}]
  <2>1. 0 \in 0..MaxRevision
    BY RecoveryBoundsAssumption
  <2>. QED
    BY <1>3, <1>4, <2>1
<1>6. queue' \in Seq(Ops) /\ \A i \in DOMAIN queue' : queue'[i] = Select(chosen)
  BY <1>3, SelectType, Pairs
<1>7. \A i \in DOMAIN queue' : queue'[i].kind = "select" /\ ~queue'[i].own
  BY <1>6, SelectType
<1>8. ahead' \in 0..Len(queue')
  BY <1>3, <1>6
<1>9. faults' \in 0..MaxFaults
  BY <1>1, <1>3, RecoveryBoundsAssumption DEF RecoveryTypeOK
<1>10. /\ bound' \subseteq Sessions /\ active' \in Sessions \cup {Nothing} /\ unread' \subseteq Sessions
       /\ manifest' \in [entries : Entries, active : Sessions \cup {Nothing}]
  BY <1>1, <1>2, <1>3 DEF RecoveryTypeOK, NoManifest, Entries
<1>11. RecoveryTypeOK'
  BY <1>1, <1>3, <1>5, <1>6, <1>8, <1>9, <1>10 DEF RecoveryTypeOK
<1>12. ConsolesFit'
  <2>1. \A s \in Sessions : s \in read => s \in live
    BY <1>4
  <2>. QED
    BY <1>1, <1>2, <1>3, <2>1 DEF ConsolesFit
<1>13. ASSUME NEW s \in Sessions
       PROVE  /\ opened => manifest'.entries[s] = disk.entries[s]
              /\ ~opened => manifest'.entries[s] = Nothing
  BY <1>3 DEF NoManifest
<1>14. StoreFits'
  <2>. SUFFICES ASSUME NEW s \in Sessions PROVE StoredFits(s)'
    BY DEF StoreFits
  <2>1. s \in bound' /\ disk.entries[s] # Nothing /\ s \notin unread' => s \in read
    BY <1>2, <1>3 DEF OnDisk
  <2>2. s \in read => disk.entries[s].revision <= revision'[s]
    <3>1. s \in read => revision'[s] = disk.entries[s].revision /\ revision'[s] \in Nat
      BY <1>3, <1>4, RecoveryBoundsAssumption
    <3>. QED
      BY <3>1
  <2>3. EntryFits(s, disk.entries[s])'
    BY <1>1, <1>3, <2>1, <2>2 DEF StoreFits, StoredFits, EntryFits, Unknown
  <2>4. EntryFits(s, manifest.entries[s])'
    BY <1>3, <1>13, <2>3 DEF EntryFits, Unknown
  <2>5. hash'[s] # Nothing => s \in read /\ hash'[s] = disk.entries[s].revision
    BY <1>3, <1>4
  <2>6. s \in bound' => ~(dirty'[s] <= flushed'[s])
    BY <1>3
  <2>7. s \in read => /\ manifest'.entries[s] = disk.entries[s] /\ disk.entries[s] # Nothing
                      /\ disk.entries[s].revision \in Nat /\ s \notin unread'
    BY <1>3, <1>4, <1>13, RecoveryBoundsAssumption
  <2>8. s \in bound' /\ hash'[s] # Nothing =>
          /\ manifest'.entries[s] # Nothing /\ hash'[s] <= manifest'.entries[s].revision
          /\ disk'.entries[s] # Nothing /\ hash'[s] <= disk'.entries[s].revision
          /\ s \notin unread'
    BY <1>3, <2>5, <2>7
  <2>9. s \in bound' /\ s \notin unread' /\ disk'.entries[s] # Nothing =>
          /\ manifest'.entries[s] # Nothing
          /\ disk'.entries[s].revision <= manifest'.entries[s].revision
    BY <1>3, <2>1, <2>7
  <2>. QED
    BY <2>3, <2>4, <2>6, <2>8, <2>9 DEF StoredFits
<1>15. QueueFits(queue)'
  BY <1>7 DEF QueueFits, OpFits, InOrder, DeletedLast
<1>16. HeadFits' /\ FlushFits'
  BY <1>3, <1>7 DEF HeadFits, FlushFits
<1>17. DeletedFits'
  BY <1>3, <1>13 DEF DeletedFits
<1>. QED
  BY <1>11, <1>12, <1>14, <1>15, <1>16, <1>17 DEF RInv

-----------------------------------------------------------------------------
(* The steps of storage.                                                   *)

\* What is known of the operation at the head, and of those behind it.
LEMMA HeadFacts ==
  ASSUME RecoveryTypeOK, QueueFits(queue), queue # <<>>, NEW op, op = Head(queue), NEW t, t = Tail(queue)
  PROVE  /\ op \in Ops /\ OpFits(op) /\ t \in Seq(Ops)
         /\ \A i \in DOMAIN t : t[i] \in Ops /\ OpFits(t[i])
         /\ \A i \in DOMAIN t :
              op.kind = "write" /\ t[i].session = op.session /\ op.session \in bound =>
                /\ t[i].kind = "write" => op.revision <= t[i].revision
                /\ t[i].kind # "delete"
         /\ op.kind = "write" /\ known[op.session] = "deleted" =>
              \E i \in DOMAIN t : t[i] = Delete(op.session)
         /\ \A s \in Sessions :
              (\E i \in DOMAIN queue : queue[i] = Delete(s)) =>
                op = Delete(s) \/ \E i \in DOMAIN t : t[i] = Delete(s)
<1>1. queue \in Seq(Ops)
  BY DEF RecoveryTypeOK
<1>2. /\ Len(queue) \in Nat \ {0} /\ DOMAIN queue = 1..Len(queue)
      /\ t \in Seq(Ops) /\ DOMAIN t = 1..(Len(queue) - 1)
      /\ \A i \in 1..(Len(queue) - 1) : t[i] = queue[i + 1]
      /\ op = queue[1] /\ op \in Ops
  BY <1>1, TailElements
<1>3. 1 \in DOMAIN queue /\ \A i \in DOMAIN t : i + 1 \in DOMAIN queue /\ t[i] = queue[i + 1] /\ 1 < i + 1
  BY <1>2
<1>4. \A j \in DOMAIN queue : 1 < j => j - 1 \in DOMAIN t /\ t[j - 1] = queue[j]
  <2>. TAKE j \in DOMAIN queue
  <2>. SUFFICES ASSUME 1 < j PROVE j - 1 \in DOMAIN t /\ t[j - 1] = queue[j]
    OBVIOUS
  <2>1. j - 1 \in 1..(Len(queue) - 1) /\ j - 1 + 1 = j
    BY <1>2
  <2>. QED
    BY <1>2, <2>1
<1>5. \A j \in DOMAIN queue : j = 1 \/ 1 < j
  BY <1>2
<1>6. \A i \in DOMAIN t : t[i] \in Ops /\ OpFits(t[i])
  BY <1>2, <1>3 DEF QueueFits
<1>7. OpFits(op)
  BY <1>2, <1>3 DEF QueueFits
<1>8. \A i \in DOMAIN t :
        op.kind = "write" /\ t[i].session = op.session /\ op.session \in bound =>
          /\ t[i].kind = "write" => op.revision <= t[i].revision
          /\ t[i].kind # "delete"
  BY <1>2, <1>3 DEF QueueFits, InOrder
<1>9. ASSUME op.kind = "write", known[op.session] = "deleted"
      PROVE  \E i \in DOMAIN t : t[i] = Delete(op.session)
  <2>1. PICK j \in DOMAIN queue : 1 < j /\ queue[j] = Delete(op.session)
    BY <1>2, <1>3, <1>9 DEF QueueFits, DeletedLast
  <2>. QED
    BY <1>4, <2>1
<1>10. ASSUME NEW s \in Sessions, NEW j \in DOMAIN queue, queue[j] = Delete(s)
       PROVE  op = Delete(s) \/ \E i \in DOMAIN t : t[i] = Delete(s)
  BY <1>2, <1>4, <1>5, <1>10
<1>. QED
  BY <1>2, <1>6, <1>7, <1>8, <1>9, <1>10

\* The file takes a manifest: what was not read of a session stays so if its entry does.
LEMMA StoresFacts ==
  ASSUME NEW m, PutOnDisk(m), NEW s \in Sessions, NEW e, e = m.entries[s]
  PROVE  /\ disk' = m /\ unread' \subseteq unread /\ disk'.entries[s] = e
         /\ Unknown(s, e)' <=> Unknown(s, e)
  BY DEF PutOnDisk, Unknown

\* A checkpoint under a new name: nothing that is stored is touched.
LEMMA CheckpointStep ==
  ASSUME RInv, CheckpointWritten
  PROVE  RInv'
<1>1. /\ RecoveryTypeOK /\ ConsolesFit /\ StoreFits /\ QueueFits(queue) /\ HeadFits /\ FlushFits /\ DeletedFits
  BY DEF RInv
<1>2. PICK op, f, s, t : op = Head(queue) /\ f = NewFile(op) /\ s = op.session /\ t = Tail(queue)
  OBVIOUS
<1>3. /\ queue # <<>> /\ op.kind = "write" /\ stage = "start" /\ stage' = "manifest"
      /\ files' = files \cup {f} /\ previous' = manifest.entries[s]
      /\ manifest' = [manifest EXCEPT !.entries[s] = f]
      /\ known' = known /\ bound' = bound /\ revision' = revision /\ dirty' = dirty /\ active' = active
      /\ flushed' = flushed /\ hash' = hash /\ queue' = queue /\ flushing' = flushing /\ ahead' = ahead
      /\ disk' = disk /\ unread' = unread /\ faults' = faults
  BY <1>2 DEF CheckpointWritten, Runs, consoles
<1>4. op \in Ops /\ WriteFits(op) /\ s \in Sessions
  BY <1>1, <1>2, <1>3, HeadFacts DEF OpFits, WriteFits
<1>5. /\ f \in Checkpoints /\ f \notin files /\ f.session = s /\ f.revision = op.revision /\ f # Nothing
      /\ op.revision \in 0..MaxRevision
  <2>1. files \subseteq Checkpoints /\ IsFiniteSet(files)
    BY <1>1 DEF RecoveryTypeOK, ConsolesFit
  <2>. QED
    BY <1>2, <1>4, <2>1, NewFileFacts, NothingAssumption DEF Ops
<1>6. /\ manifest'.entries[s] = f /\ manifest'.active = manifest.active
      /\ \A r \in Sessions : r # s => manifest'.entries[r] = manifest.entries[r]
      /\ manifest' \in [entries : Entries, active : Sessions \cup {Nothing}]
  BY <1>1, <1>3, <1>4, <1>5 DEF RecoveryTypeOK, Entries
<1>7. manifest.entries[s] \in Checkpoints \cup {Nothing}
  BY <1>1, <1>4 DEF RecoveryTypeOK, Entries
<1>8. RecoveryTypeOK'
  BY <1>1, <1>3, <1>5, <1>6, <1>7 DEF RecoveryTypeOK
<1>9. ConsolesFit'
  BY <1>1, <1>3, FS_AddElement DEF ConsolesFit
<1>19. disk.entries[s] # f /\ \A r \in Sessions : disk'.entries[r] = disk.entries[r]
  BY <1>1, <1>3, <1>4, <1>5 DEF StoreFits, StoredFits, EntryFits
<1>10. s \in bound => op.revision <= revision[s] /\ Below(s, op.revision)
  BY <1>2, <1>4 DEF WriteFits
<1>11. StoreFits'
  <2>. SUFFICES ASSUME NEW r \in Sessions
                PROVE  StoredFits(r)'
    BY DEF StoreFits
  <2>1. EntryFits(r, disk.entries[r])'
    BY <1>1, <1>3 DEF StoreFits, StoredFits, Unknown, EntryFits
  <2>2. CASE r # s
    <3>1. EntryFits(r, manifest.entries[r])'
      BY <1>1, <1>3, <1>6, <2>2 DEF StoreFits, StoredFits, Unknown, EntryFits
    <3>. QED
      BY <1>1, <1>3, <1>6, <2>1, <2>2, <3>1 DEF StoreFits, StoredFits, Unknown
  <2>3. CASE r = s
    <3>1. EntryFits(r, manifest.entries[r])'
      BY <1>2, <1>3, <1>4, <1>5, <1>6, <1>10, <2>3 DEF EntryFits, Unknown, WriteFits
    <3>2. s \in bound /\ s \notin unread /\ disk.entries[s] # Nothing => disk.entries[s].revision <= f.revision
      BY <1>5, <1>10 DEF Below, Unknown
    <3>3. s \in bound /\ hash[s] # Nothing =>
            disk.entries[s] # Nothing /\ hash[s] <= disk.entries[s].revision /\ s \notin unread
      BY <1>1, <1>4 DEF StoreFits, StoredFits, Unknown
    <3>4. s \in bound /\ hash[s] # Nothing => hash[s] <= f.revision
      BY <1>1, <1>4, <1>5, <3>2, <3>3, EntryType
    <3>. QED
      BY <1>1, <1>3, <1>5, <1>6, <2>1, <2>3, <3>1, <3>2, <3>3, <3>4 DEF StoreFits, StoredFits, Unknown
  <2>. QED
    BY <2>2, <2>3
<1>12. PICK q : q = queue
  OBVIOUS
<1>13. ASSUME NEW i \in DOMAIN q PROVE OpFits(q[i])'
  <2>1. PICK o : o = q[i]
    OBVIOUS
  <2>2. OpFits(o)
    BY <1>1, <1>12, <2>1 DEF QueueFits
  <2>3. o.kind = "write" /\ o.session = s /\ s \in bound => f.revision <= o.revision
    <3>1. /\ Len(q) \in Nat \ {0} /\ DOMAIN q = 1..Len(q) /\ op = q[1]
      BY <1>1, <1>2, <1>3, <1>12, TailElements DEF RecoveryTypeOK
    <3>2. CASE i = 1
      BY <1>5, <2>1, <3>1, <3>2
    <3>3. CASE i # 1
      <4>1. 1 \in DOMAIN q /\ 1 < i
        BY <3>1, <3>3
      <4>. QED
        BY <1>1, <1>2, <1>3, <1>5, <1>12, <2>1, <3>1, <4>1 DEF QueueFits, InOrder
    <3>. QED
      BY <3>2, <3>3
  <2>4. \A r \in Sessions : \A v : Below(r, v) /\ (r = s => f.revision <= v) => Below(r, v)'
    BY <1>3, <1>6 DEF Below, Unknown
  <2>6. o.kind = "delete" => ~(o.session = s /\ s \in bound)
    <3>. SUFFICES ASSUME o.kind = "delete" PROVE ~(o.session = s /\ s \in bound)
      OBVIOUS
    <3>1. /\ Len(q) \in Nat \ {0} /\ DOMAIN q = 1..Len(q) /\ op = q[1]
      BY <1>1, <1>2, <1>3, <1>12, TailElements DEF RecoveryTypeOK
    <3>2. i # 1
      BY <1>3, <2>1, <3>1
    <3>3. 1 \in DOMAIN q /\ 1 < i
      BY <3>1, <3>2
    <3>. QED
      BY <1>1, <1>2, <1>3, <1>12, <2>1, <3>1, <3>3 DEF QueueFits, InOrder
  <2>7. DeleteFits(o) /\ o.kind = "delete" => DeleteFits(o)'
    BY <1>3, <1>6, <2>6 DEF DeleteFits
  <2>5. OpFits(o)'
    BY <1>3, <2>2, <2>3, <2>4, <2>7 DEF OpFits, WriteFits
  <2>. QED
    BY <2>1, <2>5 DEF OpFits, WriteFits, DeleteFits, Below, Unknown
<1>14. InOrder(q)' /\ DeletedLast(q)'
  BY <1>1, <1>3, <1>12 DEF QueueFits, InOrder, DeletedLast, Delete, Op
<1>15. QueueFits(queue)'
  BY <1>3, <1>12, <1>13, <1>14, QueueFitsAfter
<1>16. HeadFits'
  <2>1. previous' # Nothing => previous'.session = s /\ manifest'.entries[s] # previous'
    BY <1>1, <1>3, <1>4, <1>5, <1>6 DEF StoreFits, StoredFits, Unknown, EntryFits
  <2>. QED
    BY <1>2, <1>3, <1>4, <1>5, <1>6, <1>19, <2>1 DEF HeadFits
<1>17. FlushFits'
  BY <1>1, <1>3 DEF FlushFits
<1>18. DeletedFits'
  <2>. SUFFICES ASSUME NEW r \in Sessions, known'[r] = "deleted"
                PROVE  \/ \E i \in DOMAIN queue' : queue'[i] = Delete(r)
                       \/ manifest'.entries[r] = Nothing \/ manifest'.entries[r] = disk'.entries[r]
    BY DEF DeletedFits, Delete, Op
  <2>1. CASE r = s
    <3>1. PICK i \in DOMAIN t : t[i] = Delete(s)
      BY <1>1, <1>2, <1>3, <2>1, HeadFacts
    <3>2. i + 1 \in DOMAIN queue /\ queue[i + 1] = t[i]
      BY <1>1, <1>2, <1>3, TailElements DEF RecoveryTypeOK
    <3>. QED
      BY <1>3, <2>1, <3>1, <3>2
  <2>2. CASE r # s
    BY <1>1, <1>3, <1>6, <2>2 DEF DeletedFits
  <2>. QED
    BY <2>1, <2>2
<1>. QED
  BY <1>8, <1>9, <1>11, <1>15, <1>16, <1>17, <1>18 DEF RInv

\* The file is now the manifest in memory.
LEMMA ManifestStep ==
  ASSUME RInv, ManifestWritten
  PROVE  RInv'
<1>1. /\ RecoveryTypeOK /\ ConsolesFit /\ StoreFits /\ QueueFits(queue) /\ HeadFits /\ FlushFits /\ DeletedFits
  BY DEF RInv
<1>2. /\ queue # <<>> /\ Head(queue).kind = "write" /\ stage = "manifest" /\ stage' = "remove"
      /\ PutOnDisk(manifest) /\ disk' = manifest /\ manifest' = manifest /\ previous' = previous /\ files' = files
      /\ known' = known /\ bound' = bound /\ revision' = revision /\ dirty' = dirty /\ active' = active
      /\ flushed' = flushed /\ hash' = hash /\ queue' = queue /\ flushing' = flushing /\ ahead' = ahead
      /\ faults' = faults
  BY DEF ManifestWritten, Runs, PutOnDisk, consoles
<1>13. ASSUME NEW s \in Sessions, NEW e, e = manifest.entries[s]
       PROVE  unread' \subseteq unread /\ (Unknown(s, e)' <=> Unknown(s, e))
  BY <1>2, <1>13, StoresFacts
<1>3. RecoveryTypeOK'
  BY <1>1, <1>2 DEF RecoveryTypeOK, PutOnDisk
<1>4. ConsolesFit'
  BY <1>1, <1>2 DEF ConsolesFit
<1>5. StoreFits'
  <2>. SUFFICES ASSUME NEW s \in Sessions PROVE StoredFits(s)'
    BY DEF StoreFits
  <2>1. StoredFits(s)
    BY <1>1 DEF StoreFits
  <2>2. PICK e : e = manifest.entries[s]
    OBVIOUS
  <2>3. EntryFits(s, e)'
    BY <1>2, <1>13, <2>1, <2>2 DEF StoredFits, EntryFits
  <2>4. e # Nothing => e.revision <= e.revision
    BY <1>1, <2>2, EntryType
  <2>5. unread' \subseteq unread
    BY <1>13, <2>2
  <2>6. manifest'.entries[s] = e /\ disk'.entries[s] = e
    BY <1>2, <2>2
  <2>. QED
    BY <1>2, <2>1, <2>2, <2>3, <2>4, <2>5, <2>6 DEF StoredFits, EntryFits, Unknown
<1>6. PICK q : q = queue
  OBVIOUS
<1>7. ASSUME NEW i \in DOMAIN q PROVE OpFits(q[i])'
  <2>1. PICK o : o = q[i]
    OBVIOUS
  <2>2. OpFits(o)
    BY <1>1, <1>6, <2>1 DEF QueueFits
  <2>3. \A r \in Sessions : \A v : Below(r, v) => Below(r, v)'
    BY <1>2, <1>13 DEF Below, Unknown
  <2>4. o.kind = "delete" => DeleteFits(o)'
    BY <1>2, <2>2 DEF OpFits, DeleteFits
  <2>5. OpFits(o)'
    BY <1>2, <2>2, <2>3, <2>4 DEF OpFits, WriteFits
  <2>. QED
    BY <2>1, <2>5 DEF OpFits, WriteFits, DeleteFits, Below, Unknown
<1>8. InOrder(q)' /\ DeletedLast(q)'
  BY <1>1, <1>2, <1>6 DEF QueueFits, InOrder, DeletedLast, Delete, Op
<1>9. QueueFits(queue)'
  BY <1>2, <1>6, <1>7, <1>8, QueueFitsAfter
<1>10. HeadFits'
  <2>1. PICK s : s = Head(queue).session
    OBVIOUS
  <2>2. disk.entries[s] # manifest.entries[s]
    BY <1>1, <1>2, <2>1 DEF HeadFits
  <2>3. s \notin unread'
    BY <1>2, <2>2 DEF PutOnDisk
  <2>. QED
    BY <1>1, <1>2, <2>1, <2>3 DEF HeadFits
<1>11. FlushFits'
  BY <1>1, <1>2 DEF FlushFits
<1>12. DeletedFits'
  BY <1>2 DEF DeletedFits
<1>. QED
  BY <1>3, <1>4, <1>5, <1>9, <1>10, <1>11, <1>12 DEF RInv

\* A write that fails leaves what is stored as it was; the manifest in memory may
\* name its checkpoint already.
LEMMA WriteFailsStep ==
  ASSUME RInv, WriteFails
  PROVE  RInv'
<1>1. /\ RecoveryTypeOK /\ ConsolesFit /\ StoreFits /\ QueueFits(queue) /\ HeadFits /\ FlushFits /\ DeletedFits
  BY DEF RInv
<1>2. PICK op, t, ok : op = Head(queue) /\ t = Tail(queue) /\ ok = FALSE
  OBVIOUS
<1>3. /\ queue # <<>> /\ op.kind = "write" /\ ok \in BOOLEAN /\ Finish(ok) /\ faults < MaxFaults
      /\ manifest' = manifest /\ disk' = disk /\ files' = files /\ unread' = unread
  BY <1>2 DEF WriteFails, Runs, MayFail, storage
<1>4. /\ queue' \in Seq(Ops) /\ flushed' \in [Sessions -> Nat]
      /\ hash' = hash /\ stage' = "start" /\ previous' = Nothing /\ UNCHANGED consoles
      /\ flushing' \in {"no", "writes", "queue", "pause"} /\ ahead' \in 0..Len(queue')
      /\ faults' \in 0..MaxFaults
      /\ \A s \in Sessions : \/ flushed'[s] = flushed[s]
                             \/ flushed'[s] = dirty[s] /\ (s \in bound => hash'[s] = revision[s])
  BY <1>1, <1>2, <1>3, FinishFacts DEF Follows
<1>5. known' = known /\ bound' = bound /\ revision' = revision /\ dirty' = dirty /\ active' = active
  BY <1>4 DEF consoles
<1>6. RecoveryTypeOK'
  <2>1. faults' \in 0..MaxFaults
    BY <1>1, <1>3, <1>4, RecoveryBoundsAssumption DEF RecoveryTypeOK
  <2>. QED
    BY <1>1, <1>3, <1>4, <1>5, <2>1 DEF RecoveryTypeOK
<1>7. StoreFits'
  BY <1>1, <1>3, <1>4, <1>5 DEF StoreFits, StoredFits, Unknown, EntryFits
<1>8. \A i \in DOMAIN t : OpFits(t[i])
  BY <1>1, <1>2, <1>3, HeadFacts
<1>9. \A i \in DOMAIN t : OpFits(t[i])'
  BY <1>3, <1>4, <1>5, <1>8 DEF OpFits, WriteFits, DeleteFits, Below, Unknown
<1>10. \A s \in Sessions :
         known[s] = "deleted" =>
           \/ \E i \in DOMAIN t : t[i] = Delete(s)
           \/ manifest'.entries[s] = Nothing \/ manifest'.entries[s] = disk'.entries[s]
  <2>. SUFFICES ASSUME NEW s \in Sessions, known[s] = "deleted", \E i \in DOMAIN queue : queue[i] = Delete(s)
                PROVE  \E i \in DOMAIN t : t[i] = Delete(s)
    BY <1>1, <1>3 DEF DeletedFits
  <2>1. op = Delete(s) \/ \E i \in DOMAIN t : t[i] = Delete(s)
    BY SMTT(20), <1>1, <1>2, <1>3, HeadFacts
  <2>2. Delete(s).kind = "delete"
    BY DeleteType
  <2>. QED
    BY <1>3, <2>1, <2>2
<1>11. IsFiniteSet(files')
  BY <1>1, <1>3 DEF ConsolesFit
<1>12. ConsolesFit' /\ QueueFits(queue)' /\ HeadFits' /\ FlushFits' /\ DeletedFits'
  BY <1>2, <1>3, <1>7, <1>9, <1>10, <1>11, Finished
<1>. QED
  BY <1>6, <1>7, <1>12 DEF RInv

\* What a write or a deletion replaced is removed, which no manifest names, and a
\* write is recorded.
LEMMA RemovedStep ==
  ASSUME RInv, CheckpointRemoved
  PROVE  RInv'
<1>1. /\ RecoveryTypeOK /\ ConsolesFit /\ StoreFits /\ QueueFits(queue) /\ HeadFits /\ FlushFits /\ DeletedFits
  BY DEF RInv
<1>2. PICK op, t, ok, s, p : op = Head(queue) /\ t = Tail(queue) /\ ok = TRUE /\ s = op.session /\ p = previous
  OBVIOUS
<1>3. /\ queue # <<>> /\ stage = "remove" /\ ok \in BOOLEAN /\ Finish(ok)
      /\ manifest' = manifest /\ disk' = disk /\ files' = files \ {p} /\ unread' = unread
  BY <1>2 DEF CheckpointRemoved
<1>4. /\ queue' \in Seq(Ops) /\ flushed' \in [Sessions -> Nat]
      /\ hash' \in [Sessions -> 0..MaxRevision \cup {Nothing}]
      /\ stage' = "start" /\ previous' = Nothing /\ UNCHANGED consoles
      /\ flushing' \in {"no", "writes", "queue", "pause"} /\ ahead' \in 0..Len(queue')
      /\ faults' \in 0..MaxFaults
      /\ op.kind = "write" => hash' = [hash EXCEPT ![s] = op.revision]
      /\ op.kind # "write" => hash' = hash
      /\ \A r \in Sessions : \/ flushed'[r] = flushed[r]
                             \/ flushed'[r] = dirty[r] /\ (r \in bound => hash'[r] = revision[r])
  BY <1>1, <1>2, <1>3, FinishFacts DEF Follows
<1>5. known' = known /\ bound' = bound /\ revision' = revision /\ dirty' = dirty /\ active' = active
  BY <1>4 DEF consoles
<1>6. RecoveryTypeOK'
  <2>1. faults' \in 0..MaxFaults
    BY <1>1, <1>4, RecoveryBoundsAssumption DEF RecoveryTypeOK
  <2>2. files' \subseteq Checkpoints
    BY <1>1, <1>3 DEF RecoveryTypeOK
  <2>3. /\ queue' \in Seq(Ops) /\ stage' \in {"start", "manifest", "remove"}
        /\ previous' \in Checkpoints \cup {Nothing}
    BY <1>4
  <2>. QED
    BY <1>1, <1>3, <1>4, <1>5, <2>1, <2>2, <2>3 DEF RecoveryTypeOK
<1>7. op \in Ops /\ OpFits(op) /\ op.kind \in {"write", "delete"} /\ s \in Sessions
  <2>1. op \in Ops /\ OpFits(op)
    BY <1>1, <1>2, <1>3, HeadFacts
  <2>2. op.kind \in {"write", "delete"}
    BY <1>1, <1>2, <1>3, <2>1 DEF HeadFits, Ops
  <2>. QED
    BY <1>2, <2>1, <2>2 DEF OpFits, WriteFits, DeleteFits
<1>8. /\ p # Nothing => p.session = s /\ manifest.entries[s] # p
      /\ disk.entries[s] = manifest.entries[s]
      /\ op.kind = "write" =>
           /\ manifest.entries[s] # Nothing /\ manifest.entries[s].revision = op.revision
           /\ s \notin unread
      /\ op.kind = "delete" => manifest.entries[s] = Nothing
  BY <1>1, <1>2, <1>3 DEF HeadFits
<1>9. ASSUME NEW r \in Sessions
      PROVE  EntryFits(r, manifest.entries[r])' /\ EntryFits(r, disk.entries[r])'
  <2>1. EntryFits(r, manifest.entries[r]) /\ EntryFits(r, disk.entries[r])
    BY <1>1 DEF StoreFits, StoredFits, Unknown
  <2>2. manifest.entries[r] # Nothing => manifest.entries[r] # p
    BY <1>8, <2>1 DEF EntryFits, Unknown
  <2>3. disk.entries[r] # Nothing => disk.entries[r] # p
    BY <1>8, <2>1 DEF EntryFits, Unknown
  <2>. QED
    BY <1>3, <1>5, <2>1, <2>2, <2>3 DEF EntryFits, Unknown
<1>10. ASSUME NEW r \in Sessions, r \in bound, hash'[r] # Nothing
       PROVE  /\ manifest.entries[r] # Nothing /\ hash'[r] <= manifest.entries[r].revision
              /\ disk.entries[r] # Nothing /\ hash'[r] <= disk.entries[r].revision
              /\ r \notin unread
  <2>1. CASE op.kind = "write" /\ r = s
    <3>1. hash'[r] = op.revision
      BY <1>1, <1>4, <2>1 DEF RecoveryTypeOK
    <3>2. op.revision \in Nat
      BY <1>7 DEF Ops
    <3>. QED
      BY <1>8, <2>1, <3>1, <3>2
  <2>2. CASE ~(op.kind = "write" /\ r = s)
    <3>1. hash'[r] = hash[r]
      BY <1>1, <1>4, <1>7, <2>2 DEF RecoveryTypeOK
    <3>. QED
      BY <1>1, <1>10, <3>1 DEF StoreFits, StoredFits, Unknown
  <2>. QED
    BY <2>1, <2>2
<1>11. ASSUME NEW r \in Sessions, r \in bound, dirty[r] <= flushed'[r]
       PROVE  hash'[r] = revision[r]
  <2>1. CASE flushed'[r] # flushed[r]
    BY <1>4, <1>11, <2>1
  <2>2. CASE flushed'[r] = flushed[r]
    <3>1. hash[r] = revision[r]
      BY <1>1, <1>11, <2>2 DEF StoreFits, StoredFits, Unknown
    <3>2. CASE op.kind = "write" /\ r = s
      <4>1. hash'[r] = op.revision
        BY <1>1, <1>4, <3>2 DEF RecoveryTypeOK
      <4>2. op.revision <= revision[r]
        BY <1>2, <1>7, <1>11, <3>2 DEF OpFits, WriteFits
      <4>3. hash[r] # Nothing
        BY <1>1, <3>1, NothingAssumption DEF RecoveryTypeOK
      <4>4. hash[r] <= manifest.entries[r].revision
        BY <1>1, <1>11, <4>3 DEF StoreFits, StoredFits, Unknown
      <4>5. revision[r] <= op.revision
        BY <1>8, <3>1, <3>2, <4>4
      <4>6. revision[r] \in Nat /\ op.revision \in Nat
        BY <1>1, <1>7, EntryType DEF Ops
      <4>. QED
        BY <4>1, <4>2, <4>5, <4>6
    <3>3. CASE ~(op.kind = "write" /\ r = s)
      <4>1. hash'[r] = hash[r]
        BY <1>1, <1>4, <1>7, <3>3 DEF RecoveryTypeOK
      <4>. QED
        BY <3>1, <4>1
    <3>. QED
      BY <3>2, <3>3
  <2>. QED
    BY <2>1, <2>2
<1>12. StoreFits'
  BY <1>1, <1>3, <1>5, <1>9, <1>10, <1>11 DEF StoreFits, StoredFits, Unknown
<1>13. ASSUME NEW i \in DOMAIN t PROVE OpFits(t[i])'
  <2>1. PICK o : o = t[i]
    OBVIOUS
  <2>2. /\ OpFits(o)
        /\ op.kind = "write" /\ o.session = s /\ s \in bound => o.kind # "delete"
    BY <1>1, <1>2, <1>3, <2>1, HeadFacts
  <2>3. WriteFits(o) => WriteFits(o)'
    BY <1>3, <1>5 DEF WriteFits, Below, Unknown
  <2>4. o.kind = "delete" => DeleteFits(o)'
    <3>. SUFFICES ASSUME o.kind = "delete" PROVE DeleteFits(o)'
      OBVIOUS
    <3>1. DeleteFits(o)
      BY <2>2 DEF OpFits
    <3>2. o.session \in bound => hash'[o.session] = hash[o.session]
      BY <1>1, <1>4, <1>7, <2>2, <3>1 DEF RecoveryTypeOK, DeleteFits
    <3>. QED
      BY <1>3, <1>5, <3>1, <3>2 DEF DeleteFits
  <2>5. OpFits(o)'
    BY <2>2, <2>3, <2>4 DEF OpFits
  <2>. QED
    BY <2>1, <2>5 DEF OpFits, WriteFits, DeleteFits, Below, Unknown
<1>14. \A r \in Sessions :
         known[r] = "deleted" =>
           \/ \E i \in DOMAIN t : t[i] = Delete(r)
           \/ manifest'.entries[r] = Nothing \/ manifest'.entries[r] = disk'.entries[r]
  <2>. SUFFICES ASSUME NEW r \in Sessions, known[r] = "deleted", \E i \in DOMAIN queue : queue[i] = Delete(r)
                PROVE  (\E i \in DOMAIN t : t[i] = Delete(r)) \/ manifest.entries[r] = disk.entries[r]
    BY <1>1, <1>3 DEF DeletedFits
  <2>1. op = Delete(r) \/ \E i \in DOMAIN t : t[i] = Delete(r)
    BY <1>1, <1>2, <1>3, HeadFacts
  <2>2. op = Delete(r) => r = s
    BY <1>2, DeleteType
  <2>. QED
    BY <1>8, <2>1, <2>2
<1>15. IsFiniteSet(files')
  BY <1>1, <1>3, FS_RemoveElement DEF ConsolesFit
<1>16. ConsolesFit' /\ QueueFits(queue)' /\ HeadFits' /\ FlushFits' /\ DeletedFits'
  BY <1>2, <1>3, <1>12, <1>13, <1>14, <1>15, Finished
<1>. QED
  BY <1>6, <1>12, <1>16 DEF RInv

\* What a manifest is that has forgotten a session.
LEMMA ForgottenFacts ==
  ASSUME RecoveryTypeOK, NEW s \in Sessions
  PROVE  /\ Forgotten(s) \in [entries : Entries, active : Sessions \cup {Nothing}]
         /\ Forgotten(s).entries[s] = Nothing
         /\ \A r \in Sessions : r # s => Forgotten(s).entries[r] = manifest.entries[r]
  BY DEF RecoveryTypeOK, Entries, Forgotten

\* Both manifests forget the session; its checkpoint is still there.
LEMMA DeleteWrittenStep ==
  ASSUME RInv, DeleteWritten
  PROVE  RInv'
<1>1. /\ RecoveryTypeOK /\ ConsolesFit /\ StoreFits /\ QueueFits(queue) /\ HeadFits /\ FlushFits /\ DeletedFits
  BY DEF RInv
<1>2. PICK op, s : op = Head(queue) /\ s = op.session
  OBVIOUS
<1>3. /\ queue # <<>> /\ op.kind = "delete" /\ stage = "start" /\ stage' = "remove"
      /\ manifest' = Forgotten(s) /\ PutOnDisk(Forgotten(s)) /\ previous' = manifest.entries[s]
      /\ known' = known /\ bound' = bound /\ revision' = revision /\ dirty' = dirty /\ active' = active
      /\ flushed' = flushed /\ hash' = hash /\ queue' = queue /\ flushing' = flushing /\ ahead' = ahead
      /\ files' = files /\ faults' = faults
  BY <1>2 DEF DeleteWritten, Runs, consoles
<1>4. s \in Sessions /\ DeleteFits(op)
  BY <1>1, <1>2, <1>3, HeadFacts DEF OpFits, DeleteFits
<1>5. /\ manifest' \in [entries : Entries, active : Sessions \cup {Nothing}]
      /\ manifest'.entries[s] = Nothing
      /\ \A r \in Sessions : r # s => manifest'.entries[r] = manifest.entries[r]
      /\ disk' = manifest' /\ unread' \subseteq unread
  BY <1>1, <1>3, <1>4, ForgottenFacts DEF PutOnDisk
<1>17. ASSUME NEW r \in Sessions, NEW e, e = manifest'.entries[r]
       PROVE  Unknown(r, e)' <=> Unknown(r, e)
  BY <1>3, <1>17, StoresFacts
<1>6. manifest.entries[s] \in Checkpoints \cup {Nothing}
  BY <1>1, <1>4 DEF RecoveryTypeOK, Entries
<1>7. RecoveryTypeOK'
  BY <1>1, <1>3, <1>5, <1>6 DEF RecoveryTypeOK
<1>8. ConsolesFit'
  BY <1>1, <1>3 DEF ConsolesFit
<1>9. StoreFits'
  <2>. SUFFICES ASSUME NEW r \in Sessions
                PROVE  StoredFits(r)'
    BY DEF StoreFits
  <2>3. StoredFits(r)
    BY <1>1 DEF StoreFits
  <2>1. CASE r = s
    <3>1. manifest'.entries[r] = Nothing /\ disk'.entries[r] = Nothing
      BY <1>5, <2>1
    <3>2. r \in bound => hash[r] = Nothing
      BY <1>2, <1>4, <2>1 DEF DeleteFits
    <3>. QED
      BY <1>3, <2>3, <3>1, <3>2 DEF StoredFits, EntryFits
  <2>2. CASE r # s
    <3>1. PICK e : e = manifest.entries[r] /\ e = manifest'.entries[r] /\ e = disk'.entries[r]
      BY <1>5, <2>2
    <3>2. EntryFits(r, e)'
      BY <1>3, <1>17, <2>3, <3>1 DEF StoredFits, EntryFits
    <3>4. manifest.entries[r] # Nothing => manifest.entries[r].revision \in Nat
      BY <1>1, EntryType
    <3>3. e # Nothing => e.revision <= e.revision
      BY <3>1, <3>4
    <3>. QED
      BY <1>3, <1>5, <2>3, <3>1, <3>2, <3>3 DEF StoredFits, EntryFits, Unknown
  <2>. QED
    BY <2>1, <2>2
<1>10. PICK q : q = queue
  OBVIOUS
<1>11. ASSUME NEW i \in DOMAIN q PROVE OpFits(q[i])'
  <2>1. PICK o : o = q[i]
    OBVIOUS
  <2>2. OpFits(o)
    BY <1>1, <1>10, <2>1 DEF QueueFits
  <2>3. ASSUME NEW r \in Sessions, NEW v, Below(r, v) PROVE Below(r, v)'
    <3>1. PICK e : e = manifest'.entries[r] /\ e = disk'.entries[r]
      BY <1>5
    <3>2. e = Nothing \/ e = manifest.entries[r]
      BY <1>5, <3>1
    <3>3. Unknown(r, e)' <=> Unknown(r, e)
      BY <1>17, <3>1
    <3>. QED
      BY <2>3, <3>1, <3>2, <3>3 DEF Below
  <2>5. o.kind = "delete" => DeleteFits(o)'
    <3>1. o.kind = "delete" => DeleteFits(o)
      BY <2>2 DEF OpFits
    <3>2. \A r \in Sessions :
            manifest.entries[r] = Nothing => manifest'.entries[r] = Nothing /\ disk'.entries[r] = Nothing
      BY <1>5
    <3>. QED
      BY <1>3, <3>1, <3>2 DEF DeleteFits
  <2>6. o.kind = "write" => WriteFits(o)'
    BY <1>3, <2>2, <2>3 DEF OpFits, WriteFits
  <2>4. OpFits(o)'
    BY <2>2, <2>5, <2>6 DEF OpFits
  <2>. QED
    BY <2>1, <2>4 DEF OpFits, WriteFits, DeleteFits, Below, Unknown
<1>12. InOrder(q)' /\ DeletedLast(q)'
  BY <1>1, <1>3, <1>10 DEF QueueFits, InOrder, DeletedLast, Delete, Op
<1>13. QueueFits(queue)'
  BY <1>3, <1>10, <1>11, <1>12, QueueFitsAfter
<1>14. HeadFits'
  <2>2. ("delete" = "write") = FALSE
    OBVIOUS
  <2>1. previous' # Nothing => previous'.session = s /\ manifest'.entries[s] # previous'
    BY <1>1, <1>3, <1>4, <1>5 DEF StoreFits, StoredFits, Unknown, EntryFits
  <2>. QED
    BY <1>2, <1>3, <1>5, <2>1, <2>2 DEF HeadFits
<1>15. FlushFits'
  BY <1>1, <1>3 DEF FlushFits
<1>16. DeletedFits'
  BY <1>5 DEF DeletedFits
<1>. QED
  BY <1>7, <1>8, <1>9, <1>13, <1>14, <1>15, <1>16 DEF RInv

\* Only the manifest in memory forgets the session.
LEMMA DeleteFailsStep ==
  ASSUME RInv, DeleteFails
  PROVE  RInv'
<1>1. /\ RecoveryTypeOK /\ ConsolesFit /\ StoreFits /\ QueueFits(queue) /\ HeadFits /\ FlushFits /\ DeletedFits
  BY DEF RInv
<1>2. PICK op, t, ok, s : op = Head(queue) /\ t = Tail(queue) /\ ok = FALSE /\ s = op.session
  OBVIOUS
<1>3. /\ queue # <<>> /\ op.kind = "delete" /\ ok \in BOOLEAN /\ Finish(ok) /\ faults < MaxFaults
      /\ manifest' = Forgotten(s) /\ disk' = disk /\ files' = files /\ unread' = unread
  BY <1>2 DEF DeleteFails, Runs, MayFail
<1>4. /\ queue' \in Seq(Ops) /\ flushed' \in [Sessions -> Nat]
      /\ hash' = hash /\ stage' = "start" /\ previous' = Nothing /\ UNCHANGED consoles
      /\ flushing' \in {"no", "writes", "queue", "pause"} /\ ahead' \in 0..Len(queue')
      /\ faults' \in 0..MaxFaults
      /\ \A r \in Sessions : \/ flushed'[r] = flushed[r]
                             \/ flushed'[r] = dirty[r] /\ (r \in bound => hash'[r] = revision[r])
  BY <1>1, <1>2, <1>3, FinishFacts DEF Follows
<1>5. known' = known /\ bound' = bound /\ revision' = revision /\ dirty' = dirty /\ active' = active
  BY <1>4 DEF consoles
<1>6. s \in Sessions /\ DeleteFits(op)
  BY <1>1, <1>2, <1>3, HeadFacts DEF OpFits, DeleteFits
<1>7. /\ manifest' \in [entries : Entries, active : Sessions \cup {Nothing}]
      /\ manifest'.entries[s] = Nothing
      /\ \A r \in Sessions : r # s => manifest'.entries[r] = manifest.entries[r]
  BY <1>1, <1>3, <1>6, ForgottenFacts
<1>8. RecoveryTypeOK'
  <2>1. faults' \in 0..MaxFaults
    BY <1>1, <1>3, <1>4, RecoveryBoundsAssumption DEF RecoveryTypeOK
  <2>. QED
    BY <1>1, <1>3, <1>4, <1>5, <1>7, <2>1 DEF RecoveryTypeOK
<1>9. StoreFits'
  <2>. SUFFICES ASSUME NEW r \in Sessions
                PROVE  StoredFits(r)'
    BY DEF StoreFits
  <2>1. r \in bound' /\ dirty'[r] <= flushed'[r] => hash'[r] = revision'[r]
    BY <1>1, <1>4, <1>5 DEF StoreFits, StoredFits, Unknown
  <2>2. EntryFits(r, disk.entries[r])'
    BY <1>1, <1>3, <1>5 DEF StoreFits, StoredFits, Unknown, EntryFits
  <2>3. CASE r = s
    <3>1. EntryFits(r, manifest.entries[r])'
      BY <1>7, <2>3 DEF EntryFits, Unknown
    <3>2. r \in bound => hash[r] = Nothing /\ disk.entries[r] = Nothing
      BY <1>2, <1>6, <2>3 DEF DeleteFits
    <3>. QED
      BY <1>3, <1>4, <1>5, <2>1, <2>2, <3>1, <3>2 DEF StoredFits
  <2>4. CASE r # s
    <3>1. manifest'.entries[r] = manifest.entries[r]
      BY <1>7, <2>4
    <3>2. EntryFits(r, manifest.entries[r])'
      BY <1>1, <1>3, <1>5, <3>1 DEF StoreFits, StoredFits, Unknown, EntryFits
    <3>. QED
      BY <1>1, <1>3, <1>4, <1>5, <2>1, <2>2, <3>1, <3>2 DEF StoreFits, StoredFits, Unknown
  <2>. QED
    BY <2>3, <2>4
<1>10. ASSUME NEW i \in DOMAIN t PROVE OpFits(t[i])'
  <2>1. PICK o : o = t[i]
    OBVIOUS
  <2>2. OpFits(o)
    BY <1>1, <1>2, <1>3, <2>1, HeadFacts
  <2>3. \A r \in Sessions : \A v : Below(r, v) => Below(r, v)'
    BY <1>3, <1>7 DEF Below, Unknown
  <2>5. o.kind = "delete" => DeleteFits(o)'
    <3>1. o.kind = "delete" => DeleteFits(o)
      BY <2>2 DEF OpFits
    <3>2. \A r \in Sessions : manifest.entries[r] = Nothing => manifest'.entries[r] = Nothing
      BY <1>7
    <3>. QED
      BY <1>3, <1>4, <1>5, <3>1, <3>2 DEF DeleteFits
  <2>6. o.kind = "write" => WriteFits(o)'
    BY <1>5, <2>2, <2>3 DEF OpFits, WriteFits
  <2>4. OpFits(o)'
    BY <2>2, <2>5, <2>6 DEF OpFits
  <2>. QED
    BY <2>1, <2>4 DEF OpFits, WriteFits, DeleteFits, Below, Unknown
<1>11. \A r \in Sessions :
         known[r] = "deleted" =>
           \/ \E i \in DOMAIN t : t[i] = Delete(r)
           \/ manifest'.entries[r] = Nothing \/ manifest'.entries[r] = disk'.entries[r]
  <2>. SUFFICES ASSUME NEW r \in Sessions, known[r] = "deleted", r # s
                PROVE  \/ \E i \in DOMAIN t : t[i] = Delete(r)
                       \/ manifest'.entries[r] = Nothing \/ manifest'.entries[r] = disk'.entries[r]
    BY <1>7
  <2>1. manifest'.entries[r] = manifest.entries[r] /\ disk'.entries[r] = disk.entries[r]
    BY <1>3, <1>7
  <2>2. Delete(r).session = r
    BY DeleteType
  <2>3. (\E i \in DOMAIN queue : queue[i] = Delete(r)) => \E i \in DOMAIN t : t[i] = Delete(r)
    BY SMTT(20), <1>1, <1>2, <1>3, <2>2, HeadFacts
  <2>. QED
    BY <1>1, <2>1, <2>3 DEF DeletedFits
<1>12. IsFiniteSet(files')
  BY <1>1, <1>3 DEF ConsolesFit
<1>13. ConsolesFit' /\ QueueFits(queue)' /\ HeadFits' /\ FlushFits' /\ DeletedFits'
  BY <1>2, <1>3, <1>9, <1>10, <1>11, <1>12, Finished
<1>. QED
  BY <1>8, <1>9, <1>13 DEF RInv

\* A selection ends: of the sessions a manifest is written as it is in memory, or none.
LEMMA SelectionStep ==
  ASSUME RInv, Selected \/ SelectFails
  PROVE  RInv'
<1>1. /\ RecoveryTypeOK /\ ConsolesFit /\ StoreFits /\ QueueFits(queue) /\ HeadFits /\ FlushFits /\ DeletedFits
  BY DEF RInv
<1>2. PICK op, t, ok : op = Head(queue) /\ t = Tail(queue) /\ ok \in BOOLEAN /\ (ok <=> Selected)
  OBVIOUS
<1>3. /\ queue # <<>> /\ op.kind = "select" /\ Finish(ok) /\ files' = files
      /\ ~ok => faults < MaxFaults
      /\ manifest' = manifest \/ manifest' = [manifest EXCEPT !.active = op.session]
      /\ \/ disk' = disk /\ unread' = unread
         \/ disk' = [manifest EXCEPT !.active = op.session] /\ PutOnDisk([manifest EXCEPT !.active = op.session])
  <2>1. CASE ok
    <3>1. Selected /\ ok = TRUE
      BY <1>2, <2>1
    <3>2. Finish(ok)
      BY <3>1 DEF Selected
    <3>. QED
      BY <1>2, <3>1, <3>2 DEF Selected, Runs, PutOnDisk
  <2>2. CASE ~ok
    <3>1. SelectFails /\ ok = FALSE
      BY <1>2, <2>2
    <3>2. Finish(ok)
      BY <3>1 DEF SelectFails
    <3>. QED
      BY <1>2, <3>1, <3>2 DEF SelectFails, Runs, MayFail, storage
  <2>. QED
    BY <2>1, <2>2
<1>4. /\ queue' \in Seq(Ops) /\ flushed' \in [Sessions -> Nat]
      /\ hash' = hash /\ stage' = "start" /\ previous' = Nothing /\ UNCHANGED consoles
      /\ flushing' \in {"no", "writes", "queue", "pause"} /\ ahead' \in 0..Len(queue')
      /\ faults' \in 0..MaxFaults
      /\ \A r \in Sessions : \/ flushed'[r] = flushed[r]
                             \/ flushed'[r] = dirty[r] /\ (r \in bound => hash'[r] = revision[r])
  BY <1>1, <1>2, <1>3, FinishFacts DEF Follows
<1>5. known' = known /\ bound' = bound /\ revision' = revision /\ dirty' = dirty /\ active' = active
  BY <1>4 DEF consoles
<1>6. /\ manifest' \in [entries : Entries, active : Sessions \cup {Nothing}]
      /\ disk' \in [entries : Entries, active : Sessions \cup {Nothing}]
      /\ manifest'.entries = manifest.entries
      /\ disk'.entries = disk.entries \/ disk'.entries = manifest.entries
  <2>1. op.session \in Sessions \cup {Nothing}
    BY <1>1, <1>2, <1>3, HeadFacts DEF Ops
  <2>2. [manifest EXCEPT !.active = op.session] \in [entries : Entries, active : Sessions \cup {Nothing}]
    BY <1>1, <2>1 DEF RecoveryTypeOK
  <2>3. [manifest EXCEPT !.active = op.session].entries = manifest.entries
    BY <1>1 DEF RecoveryTypeOK
  <2>. QED
    BY <1>1, <1>3, <2>2, <2>3 DEF RecoveryTypeOK
<1>7. RecoveryTypeOK'
  <2>1. unread' \subseteq unread
    BY <1>3 DEF PutOnDisk
  <2>. QED
    BY <1>1, <1>3, <1>4, <1>5, <1>6, <2>1 DEF RecoveryTypeOK
<1>14. ASSUME NEW r \in Sessions
       PROVE  /\ manifest'.entries[r] = manifest.entries[r]
              /\ \/ disk'.entries[r] = disk.entries[r] /\ unread' = unread
                 \/ disk'.entries[r] = manifest.entries[r] /\ unread' \subseteq unread
              /\ \A e : e \in {manifest.entries[r], disk'.entries[r]} => (Unknown(r, e)' <=> Unknown(r, e))
  <2>1. manifest'.entries[r] = manifest.entries[r]
    BY <1>6
  <2>2. CASE disk' = disk /\ unread' = unread
    BY <2>1, <2>2 DEF Unknown
  <2>3. CASE ~(disk' = disk /\ unread' = unread)
    <3>1. PICK m : m = [manifest EXCEPT !.active = op.session] /\ disk' = m /\ PutOnDisk(m)
      BY <1>3, <2>3
    <3>2. m.entries[r] = manifest.entries[r]
      BY <1>1, <3>1 DEF RecoveryTypeOK
    <3>3. unread' \subseteq unread /\ (Unknown(r, m.entries[r])' <=> Unknown(r, m.entries[r]))
      BY <3>1, StoresFacts
    <3>. QED
      BY <2>1, <3>1, <3>2, <3>3
  <2>. QED
    BY <2>2, <2>3
<1>8. StoreFits'
  <2>. SUFFICES ASSUME NEW r \in Sessions
                PROVE  StoredFits(r)'
    BY DEF StoreFits
  <2>1. r \in bound' /\ dirty'[r] <= flushed'[r] => hash'[r] = revision'[r]
    BY <1>1, <1>4, <1>5 DEF StoreFits, StoredFits, Unknown
  <2>4. StoredFits(r)
    BY <1>1 DEF StoreFits
  <2>2. EntryFits(r, disk.entries[r])' /\ EntryFits(r, manifest.entries[r])'
    <3>1. PICK e, g : e = manifest.entries[r] /\ g = disk'.entries[r]
      OBVIOUS
    <3>2. EntryFits(r, e) /\ EntryFits(r, g)
      BY <1>14, <2>4, <3>1 DEF StoredFits
    <3>3. EntryFits(r, e)' /\ EntryFits(r, g)'
      BY <1>3, <1>5, <1>14, <3>1, <3>2 DEF EntryFits
    <3>4. manifest'.entries[r] = e
      BY <1>14, <3>1
    <3>. QED
      BY <3>1, <3>3, <3>4
  <2>3. manifest.entries[r] # Nothing => manifest.entries[r].revision <= manifest.entries[r].revision
    BY <1>1, EntryType
  <2>. QED
    BY <1>4, <1>5, <1>14, <2>1, <2>2, <2>3, <2>4 DEF StoredFits, EntryFits, Unknown
<1>9. \A i \in DOMAIN t : OpFits(t[i])
  BY <1>1, <1>2, <1>3, HeadFacts
<1>10. ASSUME NEW i \in DOMAIN t PROVE OpFits(t[i])'
  <2>1. PICK o : o = t[i]
    OBVIOUS
  <2>2. OpFits(o)
    BY <1>9, <2>1
  <2>3. ASSUME NEW r \in Sessions, NEW v, Below(r, v) PROVE Below(r, v)'
    <3>1. PICK e, g : e = manifest.entries[r] /\ g = disk'.entries[r]
      OBVIOUS
    <3>2. (Unknown(r, e)' <=> Unknown(r, e)) /\ (Unknown(r, g)' <=> Unknown(r, g))
      BY <1>14, <3>1
    <3>3. manifest'.entries[r] = e /\ (g = e \/ g = disk.entries[r])
      BY <1>14, <3>1
    <3>. QED
      BY <2>3, <3>1, <3>2, <3>3 DEF Below
  <2>5. o.kind = "delete" => DeleteFits(o)'
    <3>1. o.kind = "delete" => DeleteFits(o)
      BY <2>2 DEF OpFits
    <3>2. \A r \in Sessions :
            manifest.entries[r] = Nothing /\ disk.entries[r] = Nothing =>
              manifest'.entries[r] = Nothing /\ disk'.entries[r] = Nothing
      BY <1>14
    <3>. QED
      BY <1>4, <1>5, <3>1, <3>2 DEF DeleteFits
  <2>6. o.kind = "write" => WriteFits(o)'
    BY <1>5, <2>2, <2>3 DEF OpFits, WriteFits
  <2>4. OpFits(o)'
    BY <2>2, <2>5, <2>6 DEF OpFits
  <2>. QED
    BY <2>1, <2>4 DEF OpFits, WriteFits, DeleteFits, Below, Unknown
<1>11. \A r \in Sessions :
         known[r] = "deleted" =>
           \/ \E i \in DOMAIN t : t[i] = Delete(r)
           \/ manifest'.entries[r] = Nothing \/ manifest'.entries[r] = disk'.entries[r]
  <2>. SUFFICES ASSUME NEW r \in Sessions, known[r] = "deleted"
                PROVE  \/ \E i \in DOMAIN t : t[i] = Delete(r)
                       \/ manifest'.entries[r] = Nothing \/ manifest'.entries[r] = disk'.entries[r]
    OBVIOUS
  <2>1. Delete(r).kind = "delete"
    BY DeleteType
  <2>2. (\E i \in DOMAIN queue : queue[i] = Delete(r)) => \E i \in DOMAIN t : t[i] = Delete(r)
    <3>1. (\E i \in DOMAIN queue : queue[i] = Delete(r)) =>
            op = Delete(r) \/ \E i \in DOMAIN t : t[i] = Delete(r)
      BY SMTT(20), <1>1, <1>2, <1>3, HeadFacts
    <3>. QED
      BY <1>3, <2>1, <3>1
  <2>. QED
    BY <1>1, <1>6, <2>2 DEF DeletedFits
<1>12. IsFiniteSet(files')
  BY <1>1, <1>3 DEF ConsolesFit
<1>13. ConsolesFit' /\ QueueFits(queue)' /\ HeadFits' /\ FlushFits' /\ DeletedFits'
  BY <1>2, <1>3, <1>8, <1>10, <1>11, <1>12, Finished
<1>. QED
  BY <1>7, <1>8, <1>13 DEF RInv

-----------------------------------------------------------------------------
LEMMA StutterStep ==
  ASSUME RInv, UNCHANGED recoveryVars
  PROVE  RInv'
<1>1. /\ known' = known /\ bound' = bound /\ revision' = revision /\ dirty' = dirty /\ active' = active
      /\ flushed' = flushed /\ hash' = hash /\ queue' = queue /\ stage' = stage /\ previous' = previous
      /\ flushing' = flushing /\ ahead' = ahead /\ manifest' = manifest /\ disk' = disk
      /\ files' = files /\ unread' = unread /\ faults' = faults
  BY DEF recoveryVars, consoles, running, storage
<1>2. RecoveryTypeOK' /\ ConsolesFit' /\ StoreFits' /\ HeadFits' /\ FlushFits'
  BY <1>1 DEF RInv, RecoveryTypeOK, ConsolesFit, StoreFits, StoredFits, Unknown, EntryFits, HeadFits, FlushFits
<1>3. QueueFits(queue)'
  BY <1>1 DEF RInv, QueueFits, OpFits, WriteFits, DeleteFits, Below, Unknown, InOrder, DeletedLast, Delete, Op
<1>4. DeletedFits'
  BY <1>1 DEF RInv, DeletedFits, Delete, Op
<1>. QED
  BY <1>2, <1>3, <1>4 DEF RInv

LEMMA NextStep == RInv /\ [RecoveryNext]_recoveryVars => RInv'
<1>. SUFFICES ASSUME RInv, [RecoveryNext]_recoveryVars PROVE RInv'
  OBVIOUS
<1>1. CASE ConsoleStep
  BY <1>1, StartStep, ChangeStep, SelectStep, DeleteStep DEF ConsoleStep
<1>2. CASE Flush \/ FlushGoesOn
  BY <1>2, FlushStep
<1>3. CASE StorageStep
  BY <1>3, CheckpointStep, ManifestStep, RemovedStep, WriteFailsStep, DeleteWrittenStep,
     DeleteFailsStep, SelectionStep DEF StorageStep
<1>4. CASE \E opened, alike \in BOOLEAN, read \in SUBSET Sessions, chosen \in Sessions \cup {Nothing} :
             Crash(opened, read, alike, chosen)
  BY <1>4, CrashStep
<1>5. CASE UNCHANGED recoveryVars
  BY <1>5, StutterStep
<1>. QED
  BY <1>1, <1>2, <1>3, <1>4, <1>5 DEF RecoveryNext

LEMMA Invariant == RecoverySpec => []RInv
  BY InitInv, NextStep, PTL DEF RecoverySpec

\* Type correctness of the consoles, the queue and what is stored, for any sessions,
\* changes, failures and crashes (services/console/consoleStateStore.ts).
THEOREM RecoveryTypeCorrect == RecoverySpec => []RecoveryTypeOK
<1>1. RInv => RecoveryTypeOK
  BY DEF RInv
<1>. QED
  BY <1>1, Invariant, PTL

LEMMA CleanIsStored ==
  ASSUME RInv, NEW s \in bound, dirty[s] <= flushed[s]
  PROVE  IsStored(s)
<1>1. RecoveryTypeOK /\ StoreFits /\ s \in Sessions
  BY DEF RInv, RecoveryTypeOK
<1>2. hash[s] = revision[s] /\ hash[s] # Nothing
  BY <1>1, EntryType, NothingAssumption DEF StoreFits, StoredFits, Unknown
<1>3. /\ disk.entries[s] # Nothing /\ hash[s] <= disk.entries[s].revision
      /\ EntryFits(s, disk.entries[s]) /\ s \notin unread
  BY <1>1, <1>2 DEF StoreFits, StoredFits
<1>4. disk.entries[s].revision \in Nat /\ revision[s] \in Nat
  BY <1>1, <1>3, EntryType
<1>5. disk.entries[s].revision = revision[s]
  BY <1>2, <1>3, <1>4 DEF EntryFits, Unknown
<1>. QED
  BY <1>3, <1>5 DEF IsStored, Recoverable, OnDisk, EntryFits, Unknown

CleanAreStored == \A s \in bound : dirty[s] <= flushed[s] => IsStored(s)

\* Whatever stops the process, what counts as stored can be recovered
\* (consoleStateStore.ts:293-375, consoleRecoveryFileStore.ts:194-275).
THEOREM Stores == RecoverySpec => []StoredIsTrue
<1>1. RInv => StoredIsTrue
  <2>. SUFFICES ASSUME RInv PROVE StoredIsTrue
    OBVIOUS
  <2>1. ManifestResolves
    BY DEF RInv, StoreFits, StoredFits, Unknown, EntryFits, ManifestResolves, Recoverable, OnDisk
  <2>2. ASSUME NEW s \in bound, ~IsDirty(s) PROVE IsStored(s)
    <3>1. dirty[s] \in Nat /\ flushed[s] \in Nat
      BY DEF RInv, RecoveryTypeOK
    <3>2. dirty[s] <= flushed[s]
      BY <2>2, <3>1 DEF IsDirty
    <3>. QED
      BY <3>2, CleanIsStored
  <2>. QED
    BY <2>1, <2>2 DEF StoredIsTrue, FlushedIsStored
<1>. QED
  BY <1>1, Invariant, PTL

\* A flush that ends with a success leaves every console clean.
LEMMA FlushesStore ==
  ASSUME RInv, CleanAreStored', [RecoveryNext]_recoveryVars
  PROVE  FlushStoresAll
<1>. SUFFICES ASSUME flushing # "no", flushing' = "no", faults' = faults, NEW s \in bound
              PROVE  IsStored(s)'
  BY DEF FlushStoresAll
<1>1. RecoveryTypeOK /\ QueueFits(queue) /\ FlushFits /\ faults \in 0..MaxFaults
  BY DEF RInv, RecoveryTypeOK
<1>2. faults' # faults + 1 /\ faults \in Nat
  BY <1>1, RecoveryBoundsAssumption
<1>3. ASSUME NEW ok \in BOOLEAN, queue # <<>>, ok \/ faults < MaxFaults, Finish(ok)
      PROVE  Over(faults) /\ UNCHANGED consoles
  <2>1. ok
    BY <1>1, <1>3, FinishFacts
  <2>. QED
    BY <1>1, <1>3, <2>1, FinishFacts
<1>4. Over(faults) /\ UNCHANGED consoles
  <2>1. CASE ConsoleStep
    BY <2>1 DEF ConsoleStep, StartConsole, Change, SelectConsole, DeleteConsole, Queued, running
  <2>2. CASE Flush
    BY <2>2 DEF Flush
  <2>3. CASE FlushGoesOn
    <3>1. /\ queue \in Seq(Ops) /\ flushed \in [Sessions -> Nat] /\ NoneOwn(queue)
          /\ Around(queue, flushed, hash, faults) /\ UNCHANGED consoles
      BY <1>1, <2>3 DEF RecoveryTypeOK, FlushFits, FlushGoesOn, NoneOwn, Around
    <3>. QED
      BY <1>1, <3>1, AroundFacts
  <2>4. CASE StorageStep
    <3>1. CASE CheckpointWritten \/ ManifestWritten \/ DeleteWritten
      BY <3>1 DEF CheckpointWritten, ManifestWritten, DeleteWritten
    <3>2. CASE CheckpointRemoved \/ Selected
      <4>1. queue # <<>> /\ Finish(TRUE)
        BY <3>2 DEF CheckpointRemoved, Selected, Runs
      <4>. QED
        BY <1>3, <4>1
    <3>3. CASE WriteFails \/ DeleteFails \/ SelectFails
      <4>1. queue # <<>> /\ faults < MaxFaults /\ Finish(FALSE)
        BY <3>3 DEF WriteFails, DeleteFails, SelectFails, Runs, MayFail
      <4>. QED
        BY <1>3, <4>1
    <3>. QED
      BY <2>4, <3>1, <3>2, <3>3 DEF StorageStep
  <2>5. CASE \E opened, alike \in BOOLEAN, read \in SUBSET Sessions, chosen \in Sessions \cup {Nothing} :
               Crash(opened, read, alike, chosen)
    BY <1>2, <2>5 DEF Crash
  <2>6. CASE UNCHANGED recoveryVars
    BY <2>6 DEF recoveryVars, running
  <2>. QED
    BY <2>1, <2>2, <2>3, <2>4, <2>5, <2>6 DEF RecoveryNext
<1>5. dirty' = dirty /\ bound' = bound
  BY <1>4 DEF consoles
<1>6. s \in bound' /\ dirty'[s] <= flushed'[s]
  BY <1>4, <1>5 DEF Over
<1>. QED
  BY <1>6 DEF CleanAreStored

\* What a step may make of the stored manifest: nothing, the one in memory, or that
\* without the session whose deletion has come up.
LEMMA DiskSteps ==
  ASSUME RInv, [RecoveryNext]_recoveryVars, NEW s \in Sessions
  PROVE  \/ disk'.entries[s] = disk.entries[s]
         \/ disk'.entries[s] = manifest.entries[s]
         \/ disk'.entries[s] = Nothing
<1>1. CASE ConsoleStep
  BY <1>1 DEF ConsoleStep, StartConsole, Change, SelectConsole, DeleteConsole, storage
<1>2. CASE Flush \/ FlushGoesOn
  BY <1>2 DEF Flush, FlushGoesOn, storage
<1>3. CASE StorageStep
  <2>1. CASE DeleteWritten
    <3>1. PICK r : r = Head(queue).session /\ disk' = Forgotten(r)
      BY <2>1 DEF DeleteWritten, PutOnDisk
    <3>2. Forgotten(r).entries = [manifest.entries EXCEPT ![r] = Nothing]
      BY DEF Forgotten
    <3>3. manifest.entries \in [Sessions -> Checkpoints \cup {Nothing}]
      BY DEF RInv, RecoveryTypeOK, Entries
    <3>. QED
      BY <3>1, <3>2, <3>3
  <2>2. CASE Selected
    <3>1. disk' = disk \/ disk' = [manifest EXCEPT !.active = Head(queue).session]
      BY <2>2 DEF Selected, PutOnDisk
    <3>2. manifest \in [entries : Entries, active : Sessions \cup {Nothing}]
      BY DEF RInv, RecoveryTypeOK
    <3>. QED
      BY <3>1, <3>2
  <2>. QED
    BY <1>3, <2>1, <2>2 DEF StorageStep, CheckpointWritten, ManifestWritten, CheckpointRemoved,
       WriteFails, DeleteFails, SelectFails, PutOnDisk, storage
<1>4. CASE \E opened, alike \in BOOLEAN, read \in SUBSET Sessions, chosen \in Sessions \cup {Nothing} :
             Crash(opened, read, alike, chosen)
  BY <1>4 DEF Crash
<1>5. CASE UNCHANGED recoveryVars
  BY <1>5 DEF recoveryVars, storage
<1>. QED
  BY <1>1, <1>2, <1>3, <1>4, <1>5 DEF RecoveryNext

\* Only the deletion of its session takes an entry away that memory and file have.
LEMMA DiskKeeps ==
  ASSUME RInv, [RecoveryNext]_recoveryVars, NEW s \in bound \cap bound', disk.entries[s] # Nothing
  PROVE  disk'.entries[s] = disk.entries[s] \/ disk'.entries[s] = manifest.entries[s]
<1>1. CASE ConsoleStep
  BY <1>1 DEF ConsoleStep, StartConsole, Change, SelectConsole, DeleteConsole, storage
<1>2. CASE Flush \/ FlushGoesOn
  BY <1>2 DEF Flush, FlushGoesOn, storage
<1>3. CASE StorageStep
  <2>1. CASE DeleteWritten
    <3>1. PICK r : r = Head(queue).session /\ disk' = Forgotten(r)
      BY <2>1 DEF DeleteWritten, PutOnDisk
    <3>2. Forgotten(r).entries = [manifest.entries EXCEPT ![r] = Nothing]
      BY DEF Forgotten
    <3>3. manifest.entries \in [Sessions -> Checkpoints \cup {Nothing}]
      BY DEF RInv, RecoveryTypeOK, Entries
    <3>4. DeleteFits(Head(queue))
      BY <2>1, HeadFacts DEF DeleteWritten, Runs, RInv, OpFits
    <3>5. r # s
      BY <3>1, <3>4 DEF DeleteFits
    <3>6. s \in Sessions
      BY DEF RInv, RecoveryTypeOK
    <3>7. disk'.entries = [manifest.entries EXCEPT ![r] = Nothing]
      BY <3>1, <3>2
    <3>. QED
      BY <3>3, <3>5, <3>6, <3>7
  <2>2. CASE Selected
    <3>1. disk' = disk \/ disk' = [manifest EXCEPT !.active = Head(queue).session]
      BY <2>2 DEF Selected, PutOnDisk
    <3>2. manifest \in [entries : Entries, active : Sessions \cup {Nothing}]
      BY DEF RInv, RecoveryTypeOK
    <3>. QED
      BY <3>1, <3>2
  <2>. QED
    BY <1>3, <2>1, <2>2 DEF StorageStep, CheckpointWritten, ManifestWritten, CheckpointRemoved,
       WriteFails, DeleteFails, SelectFails, PutOnDisk, storage
<1>4. CASE \E opened, alike \in BOOLEAN, read \in SUBSET Sessions, chosen \in Sessions \cup {Nothing} :
             Crash(opened, read, alike, chosen)
  BY <1>4 DEF Crash
<1>5. CASE UNCHANGED recoveryVars
  BY <1>5 DEF recoveryVars, storage
<1>. QED
  BY <1>1, <1>2, <1>3, <1>4, <1>5 DEF RecoveryNext

\* Of what was read, the manifest in memory is never behind the file.
LEMMA StoresForward ==
  ASSUME RInv, [RecoveryNext]_recoveryVars
  PROVE  StoredMovesForward
<1>. SUFFICES ASSUME NEW s \in (bound \cap bound') \ unread, OnDisk(s) # Nothing
              PROVE  OnDisk(s)' # Nothing /\ OnDisk(s)'.revision >= OnDisk(s).revision
  BY DEF StoredMovesForward, Forward
<1>1. s \in Sessions /\ RecoveryTypeOK /\ StoredFits(s)
  BY DEF RInv, RecoveryTypeOK, StoreFits
<1>2. disk.entries[s] # Nothing
  BY DEF OnDisk
<1>3. disk.entries[s].revision \in Nat
  BY <1>1, <1>2, EntryType
<1>4. CASE disk'.entries[s] = disk.entries[s]
  BY <1>2, <1>3, <1>4 DEF OnDisk
<1>5. CASE disk'.entries[s] = manifest.entries[s]
  <2>1. manifest.entries[s] # Nothing /\ disk.entries[s].revision <= manifest.entries[s].revision
    BY <1>1, <1>2 DEF StoredFits
  <2>2. manifest.entries[s].revision \in Nat
    BY <1>1, <2>1, EntryType
  <2>. QED
    BY <1>3, <1>5, <2>1, <2>2 DEF OnDisk
<1>. QED
  BY <1>2, <1>4, <1>5, DiskKeeps

\* Without a deletion to come, the manifest in memory has no more of a deleted console
\* than the file.
LEMMA DeletedStays ==
  ASSUME RInv, [RecoveryNext]_recoveryVars
  PROVE  DeletedStaysDeleted
<1>. SUFFICES ASSUME NEW s \in Sessions, known[s] = "deleted",
                     ~\E i \in DOMAIN queue : queue[i] = Delete(s)
              PROVE  disk'.entries[s] \in {disk.entries[s], Nothing}
  BY DEF DeletedStaysDeleted
<1>1. manifest.entries[s] \in {disk.entries[s], Nothing}
  BY DEF RInv, DeletedFits
<1>. QED
  BY <1>1, DiskSteps

\* Storage follows the consoles: a flush stores them as they are at its end, no
\* later or repeated write takes one back that was not unreadable, and none comes
\* back once deleted
\* (consoleStateStore.ts:293-375, consoleRecoveryFileStore.ts:194-275).
THEOREM Follow == RecoverySpec => StorageKeepsUp
<1>1. RInv => CleanAreStored
  BY CleanIsStored DEF CleanAreStored
<1>2. RInv /\ CleanAreStored' /\ [RecoveryNext]_recoveryVars =>
        [FlushStoresAll /\ StoredMovesForward /\ DeletedStaysDeleted]_recoveryVars
  BY FlushesStore, StoresForward, DeletedStays
<1>. QED
  BY <1>1, <1>2, Invariant, PTL DEF RecoverySpec, StorageKeepsUp
=============================================================================
