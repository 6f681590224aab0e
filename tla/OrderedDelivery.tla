--------------------------- MODULE OrderedDelivery ---------------------------
(***************************************************************************)
(* What the runtime event queue promises its listeners, with no clock,     *)
(* queue, timer or call stack: every issued event is settled exactly once, *)
(* by a delivery or (a message only) without one.  State changes are       *)
(* delivered in the order they were issued.  Messages are too, except the  *)
(* stragglers issued before `opening', the tick the order starts from.     *)
(***************************************************************************)
EXTENDS Naturals, Sequences

VARIABLES
  issued,     \* ticks issued so far
  open,       \* issued events that are not settled
  delivered,  \* the deliveries, in order
  opening     \* the tick the order starts from, 0 until there is one

vars == <<issued, open, delivered, opening>>

Init == issued = 0 /\ open = {} /\ delivered = <<>> /\ opening = 0

Issue(kind) ==
  /\ issued' = issued + 1
  /\ open' = open \cup {[clock |-> issued + 1, kind |-> kind]}
  /\ UNCHANGED <<delivered, opening>>

InOrder(e) ==
  \/ \A i \in 1 .. Len(delivered) : delivered[i].clock < e.clock
  \/ e.kind = "message" /\ e.clock < opening

Opens(e) == opening' = IF opening = 0 THEN e.clock ELSE opening

Deliver(e) ==
  /\ InOrder(e)
  /\ open' = open \ {e}
  /\ delivered' = Append(delivered, e)
  /\ Opens(e)
  /\ UNCHANGED issued

\* A client took the message, or its handler threw.
Absorb(e) ==
  /\ e.kind = "message"
  /\ open' = open \ {e}
  /\ UNCHANGED <<issued, delivered>>
  /\ (UNCHANGED opening \/ Opens(e))

Settle == \E e \in open : Deliver(e) \/ Absorb(e)
Next == (\E kind \in {"state", "message"} : Issue(kind)) \/ Settle

Spec == Init /\ [][Next]_vars
=============================================================================
