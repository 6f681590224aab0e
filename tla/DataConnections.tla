---------------------------- MODULE DataConnections ----------------------------
(***************************************************************************)
(* The connection of a data connection profile, as the                     *)
(* PositronConnectionsService of services/connections keeps it: the user   *)
(* connects, edits, disconnects and removes the profile while drivers      *)
(* connect and disconnect and storage is written.                          *)
(*                                                                         *)
(* One profile: every map of the service is keyed by it, and profiles do   *)
(* not meet.  An action is what runs between two awaits.  Drivers and      *)
(* storage are external: they answer or fail, late.                        *)
(***************************************************************************)
EXTENDS Naturals

CONSTANTS
  MaxConnects,  \* bound: calls of _connectProfile
  MaxEdits,     \* bound: calls of addUpdateProfile
  MaxRemovals   \* bound: calls of removeProfile

ASSUME BoundsAssumption ==
  MaxConnects \in Nat /\ MaxEdits \in Nat /\ MaxRemovals \in Nat

Connects == 1 .. MaxConnects
Edits    == 1 .. MaxEdits
None     == 0
Stored   == MaxConnects + 1   \* the descriptor of a profile that is not connected

\* The parameters are a version: the first, or that of an edit.
Versions == 1 .. MaxEdits + 1

VARIABLES
  profile,   \* the profile in the store: the version of its parameters
  listed,    \* its entry of _instances: a connection, named after its connect
  pending,   \* its entry of _pendingProfiles
  connect,   \* the calls of _connectProfile
  handle,    \* the connections of the driver
  given,     \* connections whose instance is disposed of
  edit,      \* the calls of addUpdateProfile
  removals,  \* calls of removeProfile so far
  disposed,  \* _disposed
  early      \* history: connections made or kept around an edit not yet, or never, saved

vars == <<profile, listed, pending, connect, handle, given, edit, removals, disposed, early>>

\* Where a connect stands: its first microtask; it reads secrets; the driver
\* connects; its use is noted; the entry it replaces, or its own connection, is
\* disposed of.
Connect == [pc : {"none", "queued", "secrets", "driver", "mark", "clear", "drop", "done", "failed"},
            read : Versions \cup {None}, old : Connects \cup {None}]

\* An edit stores secrets, then the profile; then it disposes of the connection.
Edit == [pc : {"none", "secrets", "persist", "retire", "done", "failed"},
         version : Versions \cup {None}, retires : BOOLEAN, old : Connects \cup {None}]

-----------------------------------------------------------------------------
UnderWay == {c \in Connects : connect[c].pc \notin {"none", "done", "failed"}}
Saving   == \E e \in Edits : edit[e].pc = "secrets"

\* active of a ProfileConnectionInstance.
Active(c) == c \notin given /\ handle[c] \in {"open", "closing"}

IsCurrent(c) == ~disposed /\ pending = c /\ profile # None

\* dispose of an instance, if there is one: its connection is asked to close,
\* unless it has been before.
Given(c) == IF c \in Connects THEN given \cup {c} ELSE given
Asked(h, c) ==
  IF c \in Connects /\ h[c] = "open" THEN [h EXCEPT ![c] = "closing"] ELSE h

\* Fault: a connection that cannot be closed is waited for.
IsClosed(c) == c \in Connects => handle[c] = "closed"

\* ... and awaited.
IsGone(c) == c \in Connects => handle[c] # "closing"

ConnectGoes(c, pc) == connect' = [connect EXCEPT ![c].pc = pc]

\* Fault: a connect that has failed stays the one to join.
StaysPending(c) == pending' = pending

\* finally of connectProfile.
Ends(c) == pending' = IF pending = c THEN None ELSE pending
Fails(c) ==
  connect' = [connect EXCEPT ![c] = [pc |-> "failed", read |-> None, old |-> None]] /\ Ends(c)

-----------------------------------------------------------------------------
\* A profile that has been initialized.
Init ==
  /\ profile = 1 /\ listed = Stored /\ pending = None
  /\ connect = [c \in Connects |-> [pc |-> "none", read |-> None, old |-> None]]
  /\ handle = [c \in Connects |-> "none"]
  /\ given = {}
  /\ edit = [e \in Edits |-> [pc |-> "none", version |-> None, retires |-> FALSE, old |-> None]]
  /\ removals = 0
  /\ disposed = FALSE
  /\ early = {}

\* connectProfile, where it neither joins a connect nor finds a connection.
Starts(c, list) ==
  /\ ~disposed /\ pending = None /\ ~(list \in Connects /\ Active(list))
  /\ connect[c].pc = "none" /\ \A d \in 1 .. c - 1 : connect[d].pc # "none"
  /\ pending' = c
  /\ ConnectGoes(c, "queued")

ConnectProfile(c) ==
  /\ Starts(c, listed)
  /\ UNCHANGED <<profile, listed, handle, given, edit, removals, disposed, early>>

\* Its first microtask reads the profile.
Reads(c) ==
  /\ connect[c].pc = "queued"
  /\ IF IsCurrent(c)
     THEN /\ connect' = [connect EXCEPT ![c].pc = "secrets", ![c].read = profile]
          /\ early' = IF Saving THEN early \cup {c} ELSE early
          /\ UNCHANGED pending
     ELSE /\ Fails(c)
          /\ UNCHANGED early
  /\ UNCHANGED <<profile, listed, handle, given, edit, removals, disposed>>

\* The secrets are read, and there may be no such driver.
SecretsRead(c) ==
  /\ connect[c].pc = "secrets"
  /\ \/ IsCurrent(c) /\ ConnectGoes(c, "driver") /\ UNCHANGED pending
     \/ Fails(c)
  /\ UNCHANGED <<profile, listed, handle, given, edit, removals, disposed, early>>

\* Fault: the connection that is not wanted any more is forgotten.
Forgets(c) ==
  /\ ConnectGoes(c, "drop")
  /\ handle' = [handle EXCEPT ![c] = "open"]
  /\ UNCHANGED given

\* Drop the connection that is not wanted any more.
Drops(c) ==
  /\ ConnectGoes(c, "drop")
  /\ handle' = Asked([handle EXCEPT ![c] = "open"], c)
  /\ given' = Given(c)

\* The driver connects, or does not.
DriverConnects(c) ==
  /\ connect[c].pc = "driver"
  /\ \/ /\ IF IsCurrent(c)
           THEN /\ ConnectGoes(c, "mark")
                /\ handle' = [handle EXCEPT ![c] = "open"]
                /\ UNCHANGED given
           ELSE Drops(c)
        /\ UNCHANGED pending
     \/ Fails(c) /\ UNCHANGED <<handle, given>>
  /\ UNCHANGED <<profile, listed, edit, removals, disposed, early>>

\* Its use is noted in the store, or cannot be; what is listed is disposed of.
Marked(c) ==
  /\ connect[c].pc = "mark"
  /\ \/ /\ IsCurrent(c)
        /\ connect' = [connect EXCEPT ![c].pc = "clear",
                         ![c].old = IF listed \in Connects THEN listed ELSE None]
        /\ handle' = Asked(handle, listed) /\ given' = Given(listed)
     \/ Drops(c)
  /\ UNCHANGED <<profile, listed, pending, edit, removals, disposed, early>>

\* It is listed, and its connect over.
Lists(c) ==
  /\ listed' = c
  /\ connect' = [connect EXCEPT ![c].pc = "done", ![c].old = None]
  /\ Ends(c)

\* That is over: the connection is listed.
Publishes(c) ==
  /\ connect[c].pc = "clear" /\ IsGone(connect[c].old)
  /\ IF IsCurrent(c)
     THEN Lists(c) /\ UNCHANGED <<handle, given>>
     ELSE Drops(c) /\ UNCHANGED <<listed, pending>>
  /\ UNCHANGED <<profile, edit, removals, disposed, early>>

\* Its connection is closed, or could not be: the connect has failed.
Dropped(c) ==
  /\ connect[c].pc = "drop" /\ IsGone(c)
  /\ Fails(c)
  /\ UNCHANGED <<profile, listed, handle, given, edit, removals, disposed, early>>

-----------------------------------------------------------------------------
\* disconnect, by the user.
Disconnect ==
  /\ listed \in Connects /\ handle[listed] = "open"
  /\ handle' = [handle EXCEPT ![listed] = "closing"]
  /\ UNCHANGED <<profile, listed, pending, connect, given, edit, removals, disposed, early>>

\* The driver disconnects; or fails to, then a connection whose instance is
\* disposed of is given up.
Disconnected(c) ==
  /\ handle[c] = "closing"
  /\ \E end \in {"closed", IF c \in given THEN "stuck" ELSE "open"} :
       handle' = [handle EXCEPT ![c] = end]
  /\ UNCHANGED <<profile, listed, pending, connect, given, edit, removals, disposed, early>>

-----------------------------------------------------------------------------
\* _registerProfileDescriptor: a connection stays, with the new name.
Registers ==
  IF listed \in Connects /\ Active(listed)
  THEN UNCHANGED <<listed, handle, given>>
  ELSE listed' = Stored /\ handle' = Asked(handle, listed) /\ given' = Given(listed)

\* A driver comes or goes: _loadProfiles.
DriversChange ==
  /\ ~disposed /\ profile # None /\ listed # Stored
  /\ Registers
  /\ UNCHANGED <<profile, pending, connect, edit, removals, disposed, early>>

EditGoes(e, pc) == edit' = [edit EXCEPT ![e].pc = pc]
EditIsOver(e, pc) ==
  edit' = [edit EXCEPT ![e] = [pc |-> pc, version |-> None, retires |-> FALSE, old |-> None]]

\* addUpdateProfile, of the name, of parameters, or of secrets, which are stored
\* before the profile is changed.
AddUpdateProfile(e, kind) ==
  /\ ~disposed /\ edit[e].pc = "none" /\ \A f \in 1 .. e - 1 : edit[f].pc # "none"
  /\ \E version \in {IF kind = "name" /\ profile # None THEN profile ELSE e + 1} :
     \E retires \in {profile # None /\ kind # "name"} :
       /\ pending' = IF retires THEN None ELSE pending
       /\ edit' = [edit EXCEPT ![e] = [pc |-> IF kind = "secrets" THEN "secrets" ELSE "persist",
                                       version |-> version, retires |-> retires, old |-> None]]
       /\ profile' = IF kind = "secrets" THEN profile ELSE version
  /\ UNCHANGED <<listed, connect, handle, given, removals, disposed, early>>

\* The last of the secrets is stored; or one cannot be, when others may have been,
\* which a connection that stays does not have.  Who reads them one by one
\* meanwhile is early.
SecretsStored(e) ==
  /\ edit[e].pc = "secrets"
  /\ \/ EditGoes(e, "persist") /\ profile' = edit[e].version /\ UNCHANGED early
     \/ /\ EditIsOver(e, "failed")
        /\ early' = early \cup ({listed} \cap Connects)
        /\ UNCHANGED profile
  /\ UNCHANGED <<listed, pending, connect, handle, given, removals, disposed>>

\* Its descriptor is listed, and it is connected if asked to.
Saved(e) ==
  /\ EditIsOver(e, "done")
  /\ Registers
  /\ \/ \E c \in Connects : Starts(c, listed)
     \/ UNCHANGED <<pending, connect>>

\* The profile is stored, and what is connected with other parameters disposed
\* of.  If it cannot be, the connection stays.
Persisted(e) ==
  /\ edit[e].pc = "persist"
  /\ \/ /\ edit[e].retires
        /\ edit' = [edit EXCEPT ![e].pc = "retire",
                      ![e].old = IF listed \in Connects THEN listed ELSE None]
        /\ listed' = None
        /\ handle' = Asked(handle, listed) /\ given' = Given(listed)
        /\ UNCHANGED <<pending, connect, early>>
     \/ /\ ~edit[e].retires
        /\ Saved(e)
        /\ UNCHANGED early
     \/ /\ EditIsOver(e, "failed")
        /\ early' = early \cup ({listed} \cap Connects)
        /\ UNCHANGED <<listed, pending, connect, handle, given>>
  /\ UNCHANGED <<profile, removals, disposed>>

\* That is over.
Retired(e) ==
  /\ edit[e].pc = "retire" /\ IsGone(edit[e].old)
  /\ Saved(e)
  /\ UNCHANGED <<profile, removals, disposed, early>>

\* removeProfile.
RemoveProfile ==
  /\ ~disposed /\ removals < MaxRemovals /\ removals' = removals + 1
  /\ pending' = None /\ profile' = None /\ listed' = None
  /\ handle' = Asked(handle, listed) /\ given' = Given(listed)
  /\ UNCHANGED <<connect, edit, disposed, early>>

\* dispose of the service, and of its store.
Dispose ==
  /\ ~disposed /\ disposed' = TRUE
  /\ pending' = None /\ profile' = None /\ listed' = None
  /\ handle' = Asked(handle, listed) /\ given' = Given(listed)
  /\ UNCHANGED <<connect, edit, removals, early>>

-----------------------------------------------------------------------------
ConnectGoesOn(c) ==
  \/ Reads(c) \/ SecretsRead(c) \/ DriverConnects(c) \/ Marked(c) \/ Publishes(c) \/ Dropped(c)

EditGoesOn(e) == SecretsStored(e) \/ Persisted(e) \/ Retired(e)

Next ==
  \/ \E c \in Connects : ConnectProfile(c) \/ ConnectGoesOn(c) \/ Disconnected(c)
  \/ Disconnect \/ DriversChange
  \/ \E e \in Edits :
       EditGoesOn(e) \/ \E kind \in {"name", "parameters", "secrets"} : AddUpdateProfile(e, kind)
  \/ RemoveProfile
  \/ Dispose

Spec == Init /\ [][Next]_vars

\* Drivers answer, and storage does.
Fairness == \A c \in Connects : WF_vars(ConnectGoesOn(c)) /\ WF_vars(Disconnected(c))

FairSpec == Spec /\ Fairness

-----------------------------------------------------------------------------
\* Type invariant: the fields have their types, and what others join is a call of
\* _connectProfile that is under way (positronConnectionsService.ts:342, 469).
TypeOK ==
  /\ profile \in Versions \cup {None}
  /\ listed \in Connects \cup {None, Stored}
  /\ pending \in Connects \cup {None}
  /\ connect \in [Connects -> Connect]
  /\ handle \in [Connects -> {"none", "open", "closing", "closed", "stuck"}]
  /\ given \subseteq Connects
  /\ edit \in [Edits -> Edit]
  /\ removals \in 0 .. MaxRemovals
  /\ disposed \in BOOLEAN
  /\ early \subseteq Connects
  /\ pending # None => pending \in UnderWay

\* No connection is left open: the driver's connection is listed, or its connect
\* is under way and will list or close it, or it has been asked to close; whatever
\* was edited, removed or disposed of meanwhile, and whichever step failed
\* (positronConnectionsService.ts:464-573).
OpenIsOwned ==
  \A c \in Connects : handle[c] = "open" => listed = c \/ c \in UnderWay

\* What is listed as connected is a connection of a profile that exists, with the
\* parameters it has: an edit or a removal retires a connection, and the connects
\* under way, which never are listed later.  Not so while an edit is being stored,
\* or if storing it or its secrets failed, or if secrets were being stored when the
\* connection read its parameters (positronConnectionsService.ts:410-566).
ListedIsCurrent ==
  listed \in Connects =>
    /\ profile # None
    /\ \/ connect[listed].read = profile
       \/ listed \in early
       \/ \E e \in Edits : edit[e].pc = "persist"

\* Between the drivers and the list nothing is lost or stale: every connection that
\* is open is listed or will be closed, and what is listed is of the profile as it
\* is (positronConnectionsService.ts:410-573).
ConnectionsAreKept == OpenIsOwned /\ ListedIsCurrent

\* A connect ends, and is not joined for ever, if drivers answer
\* (positronConnectionsService.ts:464-494).
ConnectsEnd == \A c \in Connects : (pending = c) ~> (pending # c)

\* "Remove the descriptor immediately, even if disconnect takes time."
\* (positronConnectionsService.ts:560): what has been removed is not listed.
RemovedIsUnlisted == profile = None /\ ~disposed => listed = None
=============================================================================
