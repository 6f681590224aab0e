---------------------------- MODULE MCEventQueue ----------------------------
(* EventQueue on a small instance, and its abstract specification.         *)
EXTENDS EventQueue

Plain(e) == [clock |-> e.clock, kind |-> e.kind]

Promise == INSTANCE OrderedDelivery WITH
  issued    <- nextEventClock,
  open      <- {Plain(e) : e \in Held \cup eventQueue},
  delivered <- [i \in 1 .. Len(delivered) |-> Plain(delivered[i])],
  opening   <- firstTick

\* The queue implements the promise made to its listeners (session.ts:565-672
\* against OrderedDelivery): every step is an issue, a settlement or a stutter.
ImplementsPromise == Promise!Spec
=============================================================================
