----------------------------- MODULE PlotClients -----------------------------
(***************************************************************************)
(* The clients of a plot (PlotClientInstance, PositronPlotCommProxy, and   *)
(* how positronPlotsService.ts owns them), composed with the queue of      *)
(* their session's plot operations.                                        *)
(*                                                                         *)
(* A plot is shown in the view, and in an editor if one is opened.  Each   *)
(* has a client with an image of its own; the clients share the comm, and  *)
(* so their renders supersede each other.  The kernel updates the plot,    *)
(* with or without a first image, while renders wait or are under way.     *)
(*                                                                         *)
(* The kernel is external.  Its answers and its events come in order, on   *)
(* one connection: the image it answers with is of the plot as last        *)
(* reported when it arrives.                                               *)
(***************************************************************************)
EXTENDS PlotRenderQueue, FiniteSets

CONSTANTS
  Plot,    \* the comm of the plot
  View,    \* its client in the view
  Editor,  \* its client in an editor
  Sizes    \* the settings it is rendered with

ASSUME PlotAssumption ==
  /\ Plot \in Comms /\ View # Editor
  /\ None \notin Sizes /\ None \notin [op : Ops, size : Sizes]

Clients == {View, Editor}

VARIABLES
  living,   \* _plotClientsByComm: the clients that are not disposed of
  shown,    \* _lastRender of each: its size, and whether it is of the plot as it is
  current,  \* _currentRender of each: its operation and its size
  telling,  \* the clients that are still to be told of an update
  update,   \* its pre_render, of this size
  first,    \* pre_render of the comm_open, as an image
  wanted,   \* history: the size that each surface is to show
  unserved  \* history: clients whose last request for an image ended without one

clientVars == <<living, shown, current, telling, update, first, wanted, unserved>>
allVars    == <<vars, clientVars>>

Images == [size : Sizes, fresh : BOOLEAN]
New(size) == [size |-> size, fresh |-> TRUE]

\* What was shown is not of the plot as it is any more.
Outdated(image) == IF image = None THEN None ELSE [image EXCEPT !.fresh = FALSE]

\* Nothing else runs while the listeners of an event are called.
Told == telling = {}

-----------------------------------------------------------------------------
\* The promise of a client's render settles in the task that settles its
\* operation: then, with what the client does about it, unless it has given the
\* render up.
Hear(cur, sh) ==
  LET over == {k \in Clients : cur[k] # None /\ outcome'[cur[k].op] # "open"}
      done == {k \in over : outcome'[cur[k].op] = "done"}
  IN /\ current' = [k \in Clients |-> IF k \in over THEN None ELSE cur[k]]
     /\ shown' = [k \in Clients |-> IF k \in done THEN New(cur[k].size) ELSE sh[k]]
     /\ unserved' = (unserved \ done) \cup (over \ done)

\* _performRender.  It gives up the client's former render, whose operation stays
\* in the queue until the new one supersedes it there.
PerformRender(k, size, sh) ==
  \E o \in Ops :
    /\ Queue(o, [comm |-> Plot, type |-> "render", preview |-> FALSE])
    /\ Hear([current EXCEPT ![k] = [op |-> o, size |-> size]], sh)

\* getCachedRender: the image is what is asked for.
MatchesTarget(k, size) == current[k] = None /\ shown[k] # None /\ shown[k].size = size

\* renderPlot, for the surface.
RenderPlot(k, size) ==
  /\ Told /\ k \in living /\ ~MatchesTarget(k, size)
  /\ PerformRender(k, size, shown)
  /\ wanted' = [wanted EXCEPT ![k] = size]
  /\ UNCHANGED <<living, telling, update, first>>

-----------------------------------------------------------------------------
\* The kernel updates the plot, with an image or without.  The bound: there are
\* operations left for the clients to render it again.
Update(pre) ==
  /\ Told /\ Plot \notin closed
  /\ Cardinality(living) <= Cardinality({o \in Ops : outcome[o] = "none"})
  /\ telling' = living /\ update' = pre
  /\ shown' = [k \in Clients |-> Outdated(shown[k])]
  /\ first' = Outdated(first)
  /\ UNCHANGED <<vars, living, current, wanted, unserved>>

\* Fault: the render that is under way is forgotten.
DesiredShown(k) == IF shown[k] # None THEN shown[k].size ELSE None

\* What a client renders again: what it waits for, or has.
Desired(k) ==
  IF current[k] # None THEN current[k].size
  ELSE IF shown[k] # None THEN shown[k].size ELSE None

\* The listener of onDidRenderUpdate, up to its await.  The image that comes with
\* an update will do if it is of the size desired.
RenderUpdate(k) ==
  /\ k \in telling /\ telling' = telling \ {k}
  /\ update' = IF telling = {k} THEN None ELSE update
  /\ LET sh == IF update = None THEN shown ELSE [shown EXCEPT ![k] = New(update)] IN
       IF Desired(k) \in {None, update}
       THEN /\ shown' = sh
            /\ current' = [current EXCEPT ![k] = None]
            /\ unserved' = IF update = None THEN unserved ELSE unserved \ {k}
            /\ wanted' = IF update = None THEN wanted ELSE [wanted EXCEPT ![k] = update]
            /\ UNCHANGED vars
       ELSE /\ PerformRender(k, Desired(k), sh)
            /\ wanted' = IF k \in unserved THEN [wanted EXCEPT ![k] = Desired(k)] ELSE wanted
  /\ UNCHANGED <<living, first>>

\* The kernel wants the plot shown, as this image: the listeners of onDidShowPlot.
ShowPlot(pre) ==
  /\ Told /\ Plot \notin closed
  /\ LET ks == {k \in living : shown[k] # New(pre)} IN
       /\ shown' = [k \in Clients |-> IF k \in ks THEN New(pre) ELSE shown[k]]
       /\ current' = [k \in Clients |-> IF k \in ks THEN None ELSE current[k]]
       /\ unserved' = unserved \ ks
       /\ wanted' = [k \in Clients |-> IF k \in ks THEN pre ELSE wanted[k]]
  /\ UNCHANGED <<vars, living, telling, update, first>>

-----------------------------------------------------------------------------
\* Fault: clients that are disposed of do not give up their renders.
DisposedWaiting(ks) ==
  /\ living' = living \ ks
  /\ unserved' = unserved \ ks
  /\ shown' = [k \in Clients |-> IF k \in ks THEN None ELSE shown[k]]
  /\ wanted' = [k \in Clients |-> IF k \in ks THEN None ELSE wanted[k]]
  /\ UNCHANGED current

\* dispose of clients.
Disposed(ks) ==
  /\ living' = living \ ks
  /\ unserved' = unserved \ ks
  /\ shown' = [k \in Clients |-> IF k \in ks THEN None ELSE shown[k]]
  /\ wanted' = [k \in Clients |-> IF k \in ks THEN None ELSE wanted[k]]
  /\ current' = [k \in Clients |-> IF k \in ks THEN None ELSE current[k]]

\* getOrCreateEditorInstance.  The new client has the image that the plot came
\* with, which may be of a plot that has been updated since.
GetOrCreateEditorInstance ==
  /\ Told /\ View \in living /\ Editor \notin living /\ Plot \notin closed
  /\ living' = living \cup {Editor}
  /\ shown' = [shown EXCEPT ![Editor] = first]
  /\ wanted' = [wanted EXCEPT ![Editor] = IF first = None THEN None ELSE first.size]
  /\ unserved' = IF first = Outdated(first) /\ first # None
                 THEN unserved \cup {Editor} ELSE unserved
  /\ UNCHANGED <<vars, current, telling, update, first>>

\* The comm closes, and its clients with it.
PlotCloses ==
  /\ Told
  /\ CommCloses(Plot)
  /\ Disposed(living)
  /\ UNCHANGED <<telling, update, first>>

\* unregisterPlotClient: the last client takes the comm with it.
UnregisterPlotClient(k) ==
  /\ k \in living
  /\ \/ living = {k} /\ PlotCloses
     \/ /\ Told /\ living # {k}
        /\ Disposed({k})
        /\ UNCHANGED <<vars, telling, update, first>>

-----------------------------------------------------------------------------
\* What the queue does meanwhile, and the clients hear of it.
ClientsHear ==
  /\ Told
  /\ Hear(current, shown)
  /\ UNCHANGED <<living, telling, update, first, wanted>>

\* Everything but the renders of clients: other plots, sizes, metadata, exports.
QueueOther(o, req) ==
  (req.comm = Plot /\ req.type = "render" => req.preview) /\ Queue(o, req)

\* A comm call is over.
Answered(o) == (\E result \in {"done", "failed"} : Returns(o, result)) /\ ClientsHear

PlotInit ==
  /\ Init
  /\ living = {View}
  /\ first \in {New(size) : size \in Sizes} \cup {None}
  /\ shown = [k \in Clients |-> IF k = View THEN first ELSE None]
  /\ current = [k \in Clients |-> None]
  /\ telling = {} /\ update = None
  /\ wanted = [k \in Clients |-> IF k = View /\ first # None THEN first.size ELSE None]
  /\ unserved = {}

PlotNext ==
  \/ \E k \in Clients : \/ \E size \in Sizes : RenderPlot(k, size)
                        \/ RenderUpdate(k) \/ UnregisterPlotClient(k)
  \/ \E pre \in Sizes \cup {None} : Update(pre)
  \/ \E pre \in Sizes : ShowPlot(pre)
  \/ GetOrCreateEditorInstance
  \/ PlotCloses
  \/ \E o \in Ops : \/ \E req \in Requests : QueueOther(o, req) /\ ClientsHear
                    \/ Answered(o)
  \/ RuntimeReady /\ ClientsHear
  \/ RuntimeBusy /\ ClientsHear
  \/ RuntimeExits /\ ClientsHear
  \/ \E c \in Comms \ {Plot} : CommCloses(c) /\ ClientsHear
  \/ Dispose /\ ClientsHear

PlotSpec == PlotInit /\ [][PlotNext]_allVars

\* Comm calls are answered or time out, and listeners are called.  Strong fairness
\* of the answers, as the listeners of one event are called within one task: that
\* further events come does not keep an answer from coming between them.  Of both
\* there are finitely many, so that none is passed over for ever.
PlotFairness ==
  /\ SF_allVars(\E o \in Ops : Answered(o))
  /\ WF_allVars(\E k \in Clients : RenderUpdate(k))

-----------------------------------------------------------------------------
\* Type invariant: that of the queue, and the fields of the clients have their
\* types; a client waits only while it lives, and for an operation whose promise
\* is open (PlotClientInstance.ts:554-603, 661-669).
TypesOK ==
  /\ TypeOK
  /\ living \subseteq Clients /\ telling \subseteq living /\ unserved \subseteq living
  /\ shown \in [Clients -> Images \cup {None}]
  /\ current \in [Clients -> [op : Ops, size : Sizes] \cup {None}]
  /\ \A k \in Clients : current[k] # None => k \in living /\ current[k].op \in Open
  /\ update \in Sizes \cup {None}
  /\ first \in Images \cup {None}
  /\ wanted \in [Clients -> Sizes \cup {None}]

\* What a client shows when it waits for nothing is the plot as it is, at the size
\* its surface asked for: updates that cross renders, and images that come with
\* them, leave neither old pixels nor another size.  Not so if the last request for
\* an image failed, was cancelled, or was superseded by that of the other client,
\* or if nothing has been asked for since the editor was opened on the first image
\* (PlotClientInstance.ts:232-301, 499-619).
ShownIsWanted ==
  \A k \in living \ (telling \cup unserved) :
    current[k] = None /\ shown[k] # None => shown[k] = New(wanted[k])

\* "Kernel updates invalidate the cached pixels even when dimensions match."
\* (PlotClientInstance.ts:611): what is not of the plot as it is matches no request.
CacheIsInvalidated ==
  \A k \in living \ telling, size \in Sizes :
    MatchesTarget(k, size) => shown[k] = New(size)
=============================================================================
