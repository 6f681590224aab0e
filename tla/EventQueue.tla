----------------------------- MODULE EventQueue -----------------------------
(***************************************************************************)
(* The runtime event queue of one RuntimeSession (runtime/session.ts) and  *)
(* the adapter that stamps kernel messages before they reach it            *)
(* (runtime/extHostLanguageRuntimeSessionAdapter.ts).                      *)
(*                                                                         *)
(* Every kernel message and every state change takes a tick of             *)
(* _nextEventClock.  Between taking its tick and entering the queue a comm *)
(* message runs client code (clientManager.handleComm...), which may emit  *)
(* further events synchronously or throw.  So ticks can reach the queue    *)
(* out of order, or never.  The queue delivers in tick order, waits 250 ms *)
(* for a missing tick and then gives it up.                                *)
(*                                                                         *)
(* JavaScript runs one call stack to completion: `stack' is that stack,    *)
(* restricted to the frames of this component.  A timer callback or a new  *)
(* kernel event starts only when it is empty.                              *)
(***************************************************************************)
EXTENDS Naturals, Sequences

CONSTANTS
  MaxTick,     \* ticks the environment uses: a bound, not in the code
  MaxDepth     \* nesting of the call stack: a bound, not in the code

ASSUME BoundsAssumption == MaxTick \in Nat /\ MaxDepth \in Nat

VARIABLES
  nextEventClock,  \* _nextEventClock
  eventClock,      \* _eventClock
  eventQueue,      \* _eventQueue: a set, for the code keeps it sorted by tick
  timer,           \* _eventQueueTimer holds an armed timer
  orphans,         \* armed timers the field no longer refers to
  stack,           \* synchronous call frames, innermost last
  delivered,       \* history: the events handed to listeners, in order
  consumed,        \* history: the events that ended without a delivery here
  givenUp,         \* history: ticks the timer stopped waiting for
  firstTick        \* history: the first tick the loop took, 0 before it

vars == <<nextEventClock, eventClock, eventQueue, timer, orphans, stack,
          delivered, consumed, givenUp, firstTick>>

Kinds == {"state", "message"}

\* QueuedRuntimeStateEvent and QueuedRuntimeMessageEvent; a state event is
\* never `handled'.
Event == [clock : Nat \ {0}, kind : Kinds, handled : BOOLEAN]

\* A frame of the synchronous call stack:
\*   preHandle  the adapter has stamped ev and runs clientManager.handleComm...
\*   loop       processEventQueue is between two iterations of its while
\*   fire       listeners of ev are running
Frame == [pc : {"preHandle", "loop", "fire"}, ev : Event]

-----------------------------------------------------------------------------
Top == stack[Len(stack)]
Pop == SubSeq(stack, 1, Len(stack) - 1)
Running(pc) == stack # <<>> /\ Top.pc = pc

\* Events enter from the event loop, or from client code and listeners that
\* a preHandle or fire frame is running; never in the middle of the loop.
CanEmit ==
  /\ nextEventClock < MaxTick
  /\ Len(stack) < MaxDepth
  /\ stack # <<>> => Top.pc \in {"preHandle", "fire"}

\* Fault: the queue is sorted the wrong way round.
IsFirstReversed(e) == \A f \in eventQueue : e.clock >= f.clock

\* e is the first event of the sorted queue.
IsFirst(e) == \A f \in eventQueue : e.clock <= f.clock

\* Fault: the head is taken without waiting for the tick before it.
DeliverableAtOnce == eventQueue # {}

\* The condition under which the while of processEventQueue takes its head.
Deliverable ==
  /\ eventQueue # {}
  /\ \/ eventClock = 0
     \/ \E e \in eventQueue : IsFirst(e) /\ e.clock = eventClock + 1

-----------------------------------------------------------------------------
Init ==
  /\ nextEventClock = 0
  /\ eventClock = 0
  /\ eventQueue = {}
  /\ timer = FALSE
  /\ orphans = 0
  /\ stack = <<>>
  /\ delivered = <<>>
  /\ consumed = {}
  /\ givenUp = {}
  /\ firstTick = 0

\* addToEventQueue, entered with `base' as the stack of its caller: a stale
\* message is processed at once whatever its `handled' says, a stale state is
\* dropped, any other event is queued and the loop starts on it.
AddToEventQueue(ev, base) ==
  IF ev.clock <= eventClock
  THEN /\ IF ev.kind = "message"
          THEN /\ delivered' = Append(delivered, ev)
               /\ stack' = Append(base, [pc |-> "fire", ev |-> ev])
               /\ UNCHANGED consumed
          ELSE /\ consumed' = consumed \cup {ev}
               /\ stack' = base
               /\ UNCHANGED delivered
       /\ UNCHANGED <<eventQueue, timer>>
  ELSE /\ eventQueue' = eventQueue \cup {ev}
       /\ timer' = FALSE
       /\ stack' = Append(base, [pc |-> "loop", ev |-> ev])
       /\ UNCHANGED <<delivered, consumed>>

\* A kernel message arrives: the adapter takes a tick and starts the client
\* manager's pre-handling.
StampMessage ==
  /\ CanEmit
  /\ nextEventClock' = nextEventClock + 1
  /\ stack' = Append(stack,
       [pc |-> "preHandle",
        ev |-> [clock |-> nextEventClock + 1, kind |-> "message", handled |-> FALSE]])
  /\ UNCHANGED <<eventClock, eventQueue, timer, orphans, delivered, consumed,
                 givenUp, firstTick>>

\* Pre-handling returns whether a client took the message, and the adapter
\* hands the message to the queue.
PreHandled(handled) ==
  /\ Running("preHandle")
  /\ AddToEventQueue([Top.ev EXCEPT !.handled = handled], Pop)
  /\ UNCHANGED <<nextEventClock, eventClock, orphans, givenUp, firstTick>>

\* A client handler throws: the emitter that called the adapter swallows the
\* error and the tick never reaches the queue.
PreHandleThrows ==
  /\ Running("preHandle")
  /\ stack' = Pop
  /\ consumed' = consumed \cup {Top.ev}
  /\ UNCHANGED <<nextEventClock, eventClock, eventQueue, timer, orphans,
                 delivered, givenUp, firstTick>>

\* kernel.onDidChangeRuntimeState: the tick is taken and queued in one go.
EmitState ==
  /\ CanEmit
  /\ nextEventClock' = nextEventClock + 1
  /\ AddToEventQueue([clock |-> nextEventClock + 1, kind |-> "state",
                      handled |-> FALSE], stack)
  /\ UNCHANGED <<eventClock, orphans, givenUp, firstTick>>

\* Fault: the clock is moved past the event that was taken.
TakeOffByOne(e) ==
  /\ eventQueue' = eventQueue \ {e}
  /\ eventClock' = e.clock + 1
  /\ firstTick' = IF firstTick = 0 THEN e.clock ELSE firstTick
  /\ delivered' = Append(delivered, e)
  /\ stack' = Append(stack, [pc |-> "fire", ev |-> e])
  /\ UNCHANGED consumed

\* Shift e, move the clock to it and dispatch it (handleQueuedEvent).
Take(e) ==
  /\ eventQueue' = eventQueue \ {e}
  /\ eventClock' = e.clock
  /\ firstTick' = IF firstTick = 0 THEN e.clock ELSE firstTick
  /\ IF e.handled
     THEN /\ consumed' = consumed \cup {e}
          /\ UNCHANGED <<delivered, stack>>
     ELSE /\ delivered' = Append(delivered, e)
          /\ stack' = Append(stack, [pc |-> "fire", ev |-> e])
          /\ UNCHANGED consumed

\* One iteration of the while.
LoopTake ==
  /\ Running("loop")
  /\ Deliverable
  /\ \E e \in eventQueue : IsFirst(e) /\ Take(e)
  /\ UNCHANGED <<nextEventClock, timer, orphans, givenUp>>

\* Fault: no timer is armed for what the loop leaves behind.
LoopEndUnarmed ==
  /\ Running("loop")
  /\ ~Deliverable
  /\ stack' = Pop
  /\ UNCHANGED <<nextEventClock, eventClock, eventQueue, timer, orphans,
                 delivered, consumed, givenUp, firstTick>>

\* The while ends; a remaining queue arms a new timer.  When a nested
\* processEventQueue armed one during this loop, the field is overwritten and
\* the older timer stays armed with nothing referring to it.
LoopEnd ==
  /\ Running("loop")
  /\ ~Deliverable
  /\ stack' = Pop
  /\ IF eventQueue = {}
     THEN UNCHANGED <<timer, orphans>>
     ELSE /\ timer' = TRUE
          /\ orphans' = IF timer THEN orphans + 1 ELSE orphans
  /\ UNCHANGED <<nextEventClock, eventClock, eventQueue, delivered, consumed,
                 givenUp, firstTick>>

\* The listeners of the dispatched event have returned.
FireReturns ==
  /\ Running("fire")
  /\ stack' = Pop
  /\ UNCHANGED <<nextEventClock, eventClock, eventQueue, timer, orphans,
                 delivered, consumed, givenUp, firstTick>>

\* Fault: the timer resumes at the last event instead of the first.
ResumeAtLast ==
  \E e \in eventQueue :
    /\ \A f \in eventQueue : e.clock >= f.clock
    /\ eventClock' = e.clock - 1
    /\ givenUp' = givenUp \cup (eventClock + 1 .. e.clock - 1)
    /\ stack' = <<[pc |-> "loop", ev |-> e]>>

\* Stop waiting for the ticks before the first event, and run the loop on it.
Resume ==
  \E e \in eventQueue :
    /\ IsFirst(e)
    /\ eventClock' = e.clock - 1
    /\ givenUp' = givenUp \cup (eventClock + 1 .. e.clock - 1)
    /\ stack' = <<[pc |-> "loop", ev |-> e]>>

\* A 250 ms timer callback, `left' being the orphaned timers after it.  It
\* always clears the field, so when an orphan fires while the field holds
\* another timer, that one becomes an orphan.
TimerCallback(left) ==
  /\ timer' = FALSE
  /\ orphans' = left
  /\ IF eventQueue = {} THEN UNCHANGED <<eventClock, stack, givenUp>> ELSE Resume
  /\ UNCHANGED <<nextEventClock, eventQueue, delivered, consumed, firstTick>>

TimerFires  == stack = <<>> /\ timer /\ TimerCallback(orphans)
OrphanFires == stack = <<>> /\ orphans > 0
               /\ TimerCallback(IF timer THEN orphans ELSE orphans - 1)

Next ==
  \/ StampMessage
  \/ \E handled \in BOOLEAN : PreHandled(handled)
  \/ PreHandleThrows
  \/ EmitState
  \/ LoopTake
  \/ LoopEnd
  \/ FireReturns
  \/ TimerFires
  \/ OrphanFires

\* Synchronous code runs to its end, and an armed timer fires.
Fairness ==
  /\ WF_vars(\E handled \in BOOLEAN : PreHandled(handled))
  /\ WF_vars(LoopTake)
  /\ WF_vars(LoopEnd)
  /\ WF_vars(FireReturns)
  /\ WF_vars(TimerFires)

Spec == Init /\ [][Next]_vars
FairSpec == Spec /\ Fairness

-----------------------------------------------------------------------------
\* The events whose tick is taken and whose fate is open.
HeldIn(frames) ==
  {frames[i].ev : i \in {j \in 1 .. Len(frames) : frames[j].pc = "preHandle"}}
Held == HeldIn(stack)
Fired == {delivered[i] : i \in 1 .. Len(delivered)}
Ticks(events) == {e.clock : e \in events}

\* Types of the state of session.ts:229-238 and of the history variables.
TypeOK ==
  /\ nextEventClock \in 0 .. MaxTick
  /\ eventClock \in 0 .. nextEventClock
  /\ eventQueue \subseteq Event
  /\ timer \in BOOLEAN
  /\ orphans \in Nat
  /\ stack \in Seq(Frame)
  /\ delivered \in Seq(Event)
  /\ consumed \subseteq Event
  /\ givenUp \subseteq Nat
  /\ firstTick \in 0 .. eventClock

\* Every tick that was taken is in exactly one place: with a client handler,
\* in the queue, delivered once, or consumed (handled, or thrown).  No event
\* is lost or delivered twice by the stale path, the nested loops and the
\* timers (addToEventQueue, processEventQueue).
EachTickOnce ==
  /\ 1 .. nextEventClock =
       Ticks(Held) \cup Ticks(eventQueue) \cup Ticks(Fired) \cup Ticks(consumed)
  /\ Ticks(Held) \cap (Ticks(eventQueue) \cup Ticks(Fired) \cup Ticks(consumed)) = {}
  /\ Ticks(eventQueue) \cap (Ticks(Fired) \cup Ticks(consumed)) = {}
  /\ Ticks(Fired) \cap Ticks(consumed) = {}
  /\ \A i, j \in 1 .. Len(delivered) :
       delivered[i].clock = delivered[j].clock => i = j

\* The stale branch of addToEventQueue drops state changes, but a state change
\* never reaches it: none is ever lost.
NoStateDropped == \A e \in consumed : e.kind = "message"

\* "Processes queued runtime events in event_clock order" (session.ts:606):
\* the only events delivered behind a later one are messages whose
\* pre-handling had begun before the loop took the very first event, for the
\* loop takes whatever comes first while _eventClock is 0.
DeliveredInOrder ==
  \A i, j \in 1 .. Len(delivered) :
    i < j /\ delivered[j].clock < delivered[i].clock
      => delivered[j].kind = "message" /\ delivered[j].clock < firstTick

\* Every event is settled exactly once, no state change is dropped, and the
\* listeners hear of the events in their order (session.ts:565-672).
SettledOnceInOrder == EachTickOnce /\ NoStateDropped /\ DeliveredInOrder

\* The timer gives up a tick only when it can no longer come: it fires with
\* the call stack empty, when no pre-handling is under way.
GivenUpIsGone == givenUp \subseteq Ticks(consumed)

\* When the session is at rest a non-empty queue is behind a gap and a timer
\* is armed to get past it, whatever orphaned timers did to the field.
QueueIsWatched ==
  stack = <<>> /\ eventQueue # {} =>
    /\ timer
    /\ \A e \in eventQueue : e.clock > eventClock + 1

\* A gap in the ticks is waited for as long as it may be filled, and no longer: a
\* queue behind it has its timer (startEventQueueTimer, session.ts:634-672).
GapsAreWatched == GivenUpIsGone /\ QueueIsWatched

\* A queued event leaves the queue: a tick that never comes holds the events
\* behind it for one timer, not for ever.
QueueDrains ==
  \A t \in 1 .. MaxTick :
    t \in Ticks(eventQueue) ~> t \notin Ticks(eventQueue)
=============================================================================
