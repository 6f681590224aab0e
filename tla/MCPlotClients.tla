---------------------------- MODULE MCPlotClients ----------------------------
(***************************************************************************)
(* TLC's instance of the clients of a plot and their queue: operations are *)
(* numbered as they are requested; one of them at most is not a client's   *)
(* render; and the first image, if there is one, is of FirstSize.          *)
(***************************************************************************)
EXTENDS PlotClients, Integers

CONSTANT FirstSize

Numbered ==
  \A o \in Ops : outcome[o] # "none" => \A p \in 1 .. o - 1 : outcome[p] # "none"

Others ==
  {o \in Ops : /\ outcome[o] # "none"
               /\ request[o].comm = Plot /\ request[o].type = "render" => request[o].preview}

\* The bounds: besides the renders of the clients only one operation is requested,
\* the intrinsic size of another plot, and none if this plot came without an
\* image; and no comm closes that was not used.
Bounded ==
  /\ Cardinality(Others) <= IF first = None THEN 0 ELSE 1
  /\ \A o \in Others : request[o].comm # Plot /\ request[o].type = "size"
  /\ closed \subseteq {Plot} \cup {request[o].comm : o \in Others}

MCInit == PlotInit /\ (first # None => first.size = FirstSize)

MCSpec == MCInit /\ [][PlotNext /\ (Numbered /\ Bounded)']_allVars /\ PlotFairness
=============================================================================
