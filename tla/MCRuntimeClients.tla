--------------------------- MODULE MCRuntimeClients ---------------------------
(***************************************************************************)
(* TLC's instance of the runtime clients: two variables comms and two help *)
(* comms that the session creates, and a help comm the kernel opens.  The  *)
(* ids of a type differ in nothing else, and are taken in order.           *)
(***************************************************************************)
EXTENDS RuntimeClients

CONSTANT KernelComm

MCComms       == {1, 2, 3, 4, KernelComm}
MCTypeOf      == [c \in MCComms |-> IF c \in {1, 2} THEN "variables" ELSE "help"]
MCOrder       == <<"variables", "help">>

\* Of two ids, the lower is taken first.
TakenInOrder ==
  \A c \in {2, 4} : born[c] = 0 /\ born'[c] # 0 => born'[c - 1] # 0

\* The RPC is made on a variables client, which a handler has, or on the help
\* client of the kernel, which the event queue serves; no other comm and no
\* second kernel process is there in behaviours with an RPC.
RpcsAlone ==
  (\E r \in Rpcs : rpc'[r].comm # None) => life' = 1 /\ \A c \in 2 .. 4 : born'[c] = 0

BoundedSpec == Init /\ [][Next /\ TakenInOrder /\ RpcsAlone]_vars /\ Fairness
=============================================================================
