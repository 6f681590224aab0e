-------------------------- MODULE MCPlotRenderQueue --------------------------
(***************************************************************************)
(* TLC's instance of the plot render queue: operations are numbered as     *)
(* they are requested, and the first is of FirstComm.  Operations differ   *)
(* in nothing else, nor do comms, so this is every behaviour but for the   *)
(* names; TLC's own symmetry reduction is unsound for liveness.            *)
(***************************************************************************)
EXTENDS PlotRenderQueue, Integers

CONSTANT FirstComm

Numbered ==
  \A o \in Ops :
    outcome[o] # "none" => /\ \A p \in 1 .. o - 1 : outcome[p] # "none"
                          /\ (o = 1 => request[o].comm = FirstComm)

NumberedSpec == Init /\ [][Next /\ Numbered']_vars /\ Fairness
=============================================================================
