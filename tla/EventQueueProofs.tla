-------------------------- MODULE EventQueueProofs --------------------------
(* The runtime event queue for any number of ticks and frames: its safety,  *)
(* and that it implements OrderedDelivery.                                  *)
EXTENDS MCEventQueue, SequenceTheorems, TLAPS

\* A frame of each pre-handled event is on the stack once.
HeldOnce ==
  \A i, j \in 1 .. Len(stack) :
    /\ stack[i].pc = "preHandle"
    /\ stack[j].pc = "preHandle"
    /\ stack[i].ev.clock = stack[j].ev.clock
    => i = j

\* The queue is ahead of the clock, what was delivered is not, and an event
\* still with a client handler can be overtaken only by the first one taken.
Clocks ==
  /\ \A e \in eventQueue : e.clock > eventClock
  /\ \A i \in 1 .. Len(delivered) : delivered[i].clock <= eventClock
  /\ \A e \in Held : e.clock <= eventClock => e.clock < firstTick
  /\ firstTick = 0 <=> eventClock = 0

\* Only messages are handled by a client or held by the adapter.
OnlyMessages ==
  /\ \A e \in Held : e.kind = "message"
  /\ \A e \in eventQueue : e.handled => e.kind = "message"

\* No two queued events have the same tick.
QueueOnce == \A e, f \in eventQueue : e.clock = f.clock => e = f

LoopOpen == \E i \in 1 .. Len(stack) : stack[i].pc = "loop"

\* A queue no loop is working on is watched by the timer; before the first
\* event the loop is the innermost frame until the queue is empty.
Watched ==
  /\ eventQueue # {} => LoopOpen \/ (timer /\ \A e \in eventQueue : e.clock > eventClock + 1)
  /\ eventClock = 0 /\ eventQueue # {} => Running("loop")

IInv ==
  /\ TypeOK
  /\ EachTickOnce
  /\ HeldOnce
  /\ QueueOnce
  /\ Clocks
  /\ OnlyMessages
  /\ Watched
  /\ NoStateDropped
  /\ DeliveredInOrder
  /\ GivenUpIsGone
-----------------------------------------------------------------------------
\* Pushing a frame holds its event if it is a pre-handling frame.
LEMMA HeldPush ==
  ASSUME NEW s \in Seq(Frame), NEW f \in Frame
  PROVE  HeldIn(Append(s, f)) =
           IF f.pc = "preHandle" THEN HeldIn(s) \cup {f.ev} ELSE HeldIn(s)
<1>1. Len(Append(s, f)) = Len(s) + 1 /\ Append(s, f)[Len(s) + 1] = f
  OBVIOUS
<1>2. \A i \in 1 .. Len(s) : Append(s, f)[i] = s[i]
  OBVIOUS
<1>3. 1 .. Len(s) + 1 = (1 .. Len(s)) \cup {Len(s) + 1} /\ Len(s) \in Nat
  OBVIOUS
<1>. QED
  BY <1>1, <1>2, <1>3 DEF HeldIn

\* A non-empty stack is its lower part with the top frame pushed on it.
LEMMA PushPop ==
  ASSUME NEW s \in Seq(Frame), s # <<>>
  PROVE  /\ SubSeq(s, 1, Len(s) - 1) \in Seq(Frame)
         /\ Len(SubSeq(s, 1, Len(s) - 1)) = Len(s) - 1
         /\ \A i \in 1 .. Len(s) - 1 : SubSeq(s, 1, Len(s) - 1)[i] = s[i]
         /\ s = Append(SubSeq(s, 1, Len(s) - 1), s[Len(s)])
         /\ s[Len(s)] \in Frame
         /\ Len(s) \in Nat \ {0}
<1>. DEFINE low == SubSeq(s, 1, Len(s) - 1)
<1>1. Len(s) \in Nat \ {0} /\ s[Len(s)] \in Frame
  BY EmptySeq, LenProperties, ElementOfSeq
<1>2. \A i \in 1 .. Len(s) - 1 : s[i] \in Frame
  BY ElementOfSeq, <1>1
<1>3. /\ low \in Seq(Frame)
      /\ Len(low) = Len(s) - 1
      /\ \A i \in 1 .. Len(s) - 1 : low[i] = s[i]
  <2>1. Len(s) - 1 \in Int /\ 1 \in Int
    BY <1>1
  <2>2. Len(low) = IF 1 <= Len(s) - 1 THEN (Len(s) - 1) - 1 + 1 ELSE 0
    BY <1>2, <2>1, SubSeqProperties
  <2>3. /\ low \in Seq(Frame)
        /\ \A i \in 1 .. (Len(s) - 1) - 1 + 1 : low[i] = s[1 + i - 1]
    BY <1>2, <2>1, SubSeqProperties
  <2>. HIDE DEF low
  <2>4. (Len(s) - 1) - 1 + 1 = Len(s) - 1
    BY <1>1
  <2>5. \A i \in 1 .. Len(s) - 1 : 1 + i - 1 = i
    BY <1>1
  <2>6. \A i \in 1 .. Len(s) - 1 : low[i] = s[i]
    BY <2>3, <2>4, <2>5
  <2>7. \A k \in Nat \ {0} : (IF 1 <= k - 1 THEN (k - 1) - 1 + 1 ELSE 0) = k - 1
    OBVIOUS
  <2>8. Len(low) = Len(s) - 1
    BY <1>1, <2>2, <2>7
  <2>. QED
    BY <2>3, <2>6, <2>8
<1>. HIDE DEF low
<1>4. /\ Append(low, s[Len(s)]) \in Seq(Frame)
      /\ Len(Append(low, s[Len(s)])) = Len(s)
      /\ \A i \in 1 .. Len(s) - 1 : Append(low, s[Len(s)])[i] = s[i]
      /\ Append(low, s[Len(s)])[Len(s)] = s[Len(s)]
  BY <1>1, <1>3, AppendProperties
<1>5. s = Append(low, s[Len(s)])
  BY <1>1, <1>4, SeqEqual
<1>. QED
  BY <1>1, <1>3, <1>5 DEF low

\* The events held below the top frame.
LEMMA HeldPop ==
  ASSUME NEW s \in Seq(Frame), s # <<>>
  PROVE  HeldIn(s) = IF s[Len(s)].pc = "preHandle"
                     THEN HeldIn(SubSeq(s, 1, Len(s) - 1)) \cup {s[Len(s)].ev}
                     ELSE HeldIn(SubSeq(s, 1, Len(s) - 1))
<1>. DEFINE low == SubSeq(s, 1, Len(s) - 1)
<1>1. low \in Seq(Frame) /\ s[Len(s)] \in Frame /\ s = Append(low, s[Len(s)])
  BY PushPop
<1>. HIDE DEF low
<1>2. HeldIn(Append(low, s[Len(s)])) = IF s[Len(s)].pc = "preHandle"
                     THEN HeldIn(low) \cup {s[Len(s)].ev} ELSE HeldIn(low)
  BY <1>1, HeldPush
<1>. QED
  BY <1>1, <1>2 DEF low

LEMMA TicksAdd ==
  ASSUME NEW A, NEW e
  PROVE  Ticks(A \cup {e}) = Ticks(A) \cup {e.clock}
  BY DEF Ticks

\* The history of deliveries grows by the event appended.
LEMMA FiredPush ==
  ASSUME NEW s \in Seq(Event), NEW e \in Event
  PROVE  /\ Append(s, e) \in Seq(Event)
         /\ Len(Append(s, e)) = Len(s) + 1
         /\ \A i \in 1 .. Len(s) : Append(s, e)[i] = s[i] /\ s[i] \in Event
         /\ Append(s, e)[Len(s) + 1] = e
         /\ Len(s) \in Nat
         /\ {Append(s, e)[i] : i \in 1 .. Len(s) + 1}
              = {s[i] : i \in 1 .. Len(s)} \cup {e}
<1>1. /\ Append(s, e) \in Seq(Event)
      /\ Len(Append(s, e)) = Len(s) + 1
      /\ \A i \in 1 .. Len(s) : Append(s, e)[i] = s[i] /\ s[i] \in Event
      /\ Append(s, e)[Len(s) + 1] = e
      /\ Len(s) \in Nat
  BY AppendProperties, LenProperties, ElementOfSeq
<1>2. 1 .. Len(s) + 1 = (1 .. Len(s)) \cup {Len(s) + 1}
  BY <1>1
<1>. QED
  BY <1>1, <1>2

\* Every tick of N is in exactly one of four places.
Split(N, H, Q, F, C) ==
  /\ N = H \cup Q \cup F \cup C
  /\ H \cap (Q \cup F \cup C) = {}
  /\ Q \cap (F \cup C) = {}
  /\ F \cap C = {}

\* Moving one tick from a place to another keeps the split.
LEMMA MoveTick ==
  ASSUME NEW N, NEW H, NEW Q, NEW F, NEW C, NEW t, Split(N, H, Q, F, C)
  PROVE  /\ t \in H => /\ Split(N, H \ {t}, Q \cup {t}, F, C)
                       /\ Split(N, H \ {t}, Q, F \cup {t}, C)
                       /\ Split(N, H \ {t}, Q, F, C \cup {t})
         /\ t \in Q => /\ Split(N, H, Q \ {t}, F \cup {t}, C)
                       /\ Split(N, H, Q \ {t}, F, C \cup {t})
<1>1. ASSUME t \in H
      PROVE  /\ Split(N, H \ {t}, Q \cup {t}, F, C)
             /\ Split(N, H \ {t}, Q, F \cup {t}, C)
             /\ Split(N, H \ {t}, Q, F, C \cup {t})
  BY <1>1 DEF Split
<1>2. ASSUME t \in Q
      PROVE  /\ Split(N, H, Q \ {t}, F \cup {t}, C)
             /\ Split(N, H, Q \ {t}, F, C \cup {t})
  BY <1>2 DEF Split
<1>. QED
  BY <1>1, <1>2

LEMMA InitInv == Init => IInv
<1>. SUFFICES ASSUME Init PROVE IInv
  OBVIOUS
<1>1. Held = {} /\ Fired = {} /\ Ticks(Held) = {} /\ Ticks(eventQueue) = {}
      /\ Ticks(Fired) = {} /\ Ticks(consumed) = {}
  BY DEF Init, Held, HeldIn, Fired, Ticks
<1>2. TypeOK
  <2>1. stack \in Seq(Frame) /\ delivered \in Seq(Event)
    BY EmptySeq DEF Init
  <2>2. nextEventClock \in 0 .. MaxTick /\ eventClock \in 0 .. nextEventClock
        /\ firstTick \in 0 .. eventClock
    BY BoundsAssumption DEF Init
  <2>. QED
    BY <2>1, <2>2 DEF Init, TypeOK
<1>. QED
  BY <1>1, <1>2 DEF Init, IInv, EachTickOnce, HeldOnce, QueueOnce, Clocks,
       OnlyMessages, Watched, NoStateDropped, DeliveredInOrder, GivenUpIsGone

-----------------------------------------------------------------------------
\* What pushing a frame other than a pre-handling one does to the stack.
LEMMA PushOther ==
  ASSUME NEW s \in Seq(Frame), NEW f \in Frame, f.pc # "preHandle"
  PROVE  /\ Append(s, f) \in Seq(Frame)
         /\ Len(Append(s, f)) = Len(s) + 1
         /\ Len(s) \in Nat
         /\ \A i \in 1 .. Len(s) : Append(s, f)[i] = s[i]
         /\ Append(s, f)[Len(s) + 1] = f
         /\ HeldIn(Append(s, f)) = HeldIn(s)
  BY HeldPush, AppendProperties, LenProperties

\* A kernel message takes the next tick and is held by the adapter.
LEMMA StampInv == IInv /\ StampMessage => IInv'
<1>. SUFFICES ASSUME IInv, StampMessage PROVE IInv'
  OBVIOUS
<1>. DEFINE n == nextEventClock + 1
            ev == [clock |-> n, kind |-> "message", handled |-> FALSE]
            f == [pc |-> "preHandle", ev |-> ev]
<1>. USE DEF IInv
<1>1. /\ nextEventClock' = n /\ stack' = Append(stack, f)
      /\ UNCHANGED <<eventClock, eventQueue, timer, orphans, delivered, consumed,
                     givenUp, firstTick>>
      /\ n <= MaxTick /\ n \in Nat \ {0} /\ eventClock < n /\ nextEventClock \in Nat
  BY BoundsAssumption DEF StampMessage, CanEmit, TypeOK
<1>2. ev \in Event /\ f \in Frame /\ f.pc = "preHandle" /\ f.ev = ev
      /\ ev.clock = n /\ ev.kind = "message"
  BY <1>1 DEF Event, Frame, Kinds
<1>. HIDE DEF ev, f
<1>3. /\ Held' = Held \cup {ev}
      /\ stack' \in Seq(Frame) /\ stack \in Seq(Frame)
      /\ Len(stack') = Len(stack) + 1 /\ Len(stack) \in Nat
      /\ \A i \in 1 .. Len(stack) : stack'[i] = stack[i]
      /\ stack'[Len(stack) + 1] = f
  BY <1>1, <1>2, HeldPush, AppendProperties, LenProperties DEF Held, TypeOK
<1>4. TypeOK'
  BY <1>1, <1>3 DEF TypeOK
<1>5. /\ Ticks(Held)' = Ticks(Held) \cup {n} /\ Ticks(eventQueue)' = Ticks(eventQueue)
      /\ Fired' = Fired /\ Ticks(Fired)' = Ticks(Fired) /\ Ticks(consumed)' = Ticks(consumed)
  BY <1>1, <1>2, <1>3 DEF Ticks, Fired
<1>6. 1 .. n = (1 .. nextEventClock) \cup {n} /\ n \notin 1 .. nextEventClock
  BY <1>1
<1>7. EachTickOnce'
  BY <1>1, <1>5, <1>6 DEF EachTickOnce
<1>8. \A i \in 1 .. Len(stack) : stack[i].pc = "preHandle" => stack[i].ev.clock # n
  BY <1>6 DEF EachTickOnce, Ticks, Held, HeldIn
<1>9. HeldOnce'
  BY <1>1, <1>2, <1>3, <1>8 DEF HeldOnce
<1>10. QueueOnce' /\ NoStateDropped' /\ DeliveredInOrder'
  BY <1>1 DEF QueueOnce, NoStateDropped, DeliveredInOrder
<1>11. Clocks'
  <2>1. ev.clock > eventClock
    BY <1>1, <1>2 DEF TypeOK
  <2>2. \A e \in Held' : e.clock <= eventClock => e.clock < firstTick
    BY <1>1, <1>2, <1>3, <2>1 DEF Clocks, TypeOK
  <2>. QED
    BY <1>1, <2>2 DEF Clocks
<1>12. OnlyMessages'
  BY <1>1, <1>2, <1>3 DEF OnlyMessages
<1>13. GivenUpIsGone'
  BY <1>1, <1>5 DEF GivenUpIsGone
<1>14. LoopOpen => LoopOpen'
  BY <1>3 DEF LoopOpen
<1>15. ~Running("loop")
  BY DEF StampMessage, CanEmit, Running
<1>16. Watched'
  BY <1>1, <1>14, <1>15 DEF Watched
<1>. QED
  BY <1>4, <1>7, <1>9, <1>10, <1>11, <1>12, <1>13, <1>16

\* A state change takes the next tick, is never stale and enters the queue.
LEMMA EmitStateInv == IInv /\ EmitState => IInv'
<1>. SUFFICES ASSUME IInv, EmitState PROVE IInv'
  OBVIOUS
<1>. DEFINE n == nextEventClock + 1
            ev == [clock |-> n, kind |-> "state", handled |-> FALSE]
            f == [pc |-> "loop", ev |-> ev]
<1>. USE DEF IInv
<1>1. /\ nextEventClock' = n /\ stack' = Append(stack, f)
      /\ eventQueue' = eventQueue \cup {ev} /\ timer' = FALSE
      /\ UNCHANGED <<eventClock, orphans, delivered, consumed, givenUp, firstTick>>
      /\ n <= MaxTick /\ n \in Nat \ {0} /\ eventClock < n /\ nextEventClock \in Nat
  BY BoundsAssumption DEF EmitState, AddToEventQueue, CanEmit, TypeOK
<1>2. ev \in Event /\ f \in Frame /\ f.pc = "loop" /\ ev.clock = n /\ ~ev.handled
  BY <1>1 DEF Event, Frame, Kinds
<1>. HIDE DEF ev, f
<1>3. /\ Held' = Held
      /\ stack' \in Seq(Frame) /\ stack \in Seq(Frame)
      /\ Len(stack') = Len(stack) + 1 /\ Len(stack) \in Nat
      /\ \A i \in 1 .. Len(stack) : stack'[i] = stack[i]
      /\ stack'[Len(stack) + 1] = f
  BY <1>1, <1>2, PushOther DEF Held, TypeOK
<1>4. TypeOK'
  <2>1. /\ nextEventClock' \in 0 .. MaxTick
        /\ eventClock' \in 0 .. nextEventClock'
        /\ firstTick' \in 0 .. eventClock'
    BY <1>1 DEF TypeOK
  <2>2. /\ eventQueue' \subseteq Event /\ timer' \in BOOLEAN
        /\ orphans' \in Nat /\ stack' \in Seq(Frame) /\ delivered' \in Seq(Event)
        /\ consumed' \subseteq Event /\ givenUp' \subseteq Nat
    BY <1>1, <1>2, <1>3 DEF TypeOK
  <2>. QED
    BY <2>1, <2>2 DEF TypeOK
<1>5. /\ Ticks(Held)' = Ticks(Held)
      /\ Ticks(eventQueue)' = Ticks(eventQueue) \cup {n}
      /\ Fired' = Fired /\ Ticks(Fired)' = Ticks(Fired) /\ Ticks(consumed)' = Ticks(consumed)
  BY <1>1, <1>2, <1>3 DEF Ticks, Fired
<1>6. 1 .. n = (1 .. nextEventClock) \cup {n} /\ n \notin 1 .. nextEventClock
  BY <1>1
<1>7. EachTickOnce'
  <2>1. n \notin Ticks(Held) \cup Ticks(Fired) \cup Ticks(consumed)
    BY <1>6 DEF EachTickOnce
  <2>2. 1 .. nextEventClock' = Ticks(Held)' \cup Ticks(eventQueue)'
                                 \cup Ticks(Fired)' \cup Ticks(consumed)'
    BY <1>1, <1>5, <1>6 DEF EachTickOnce
  <2>3. /\ Ticks(Held)' \cap (Ticks(eventQueue)' \cup Ticks(Fired)' \cup Ticks(consumed)') = {}
        /\ Ticks(eventQueue)' \cap (Ticks(Fired)' \cup Ticks(consumed)') = {}
        /\ Ticks(Fired)' \cap Ticks(consumed)' = {}
    BY <1>5, <2>1 DEF EachTickOnce
  <2>4. \A i, j \in 1 .. Len(delivered') :
          delivered'[i].clock = delivered'[j].clock => i = j
    BY <1>1 DEF EachTickOnce
  <2>. QED
    BY <2>2, <2>3, <2>4 DEF EachTickOnce
<1>8. \A e \in eventQueue : e.clock # n
  BY <1>6 DEF EachTickOnce, Ticks
<1>9. HeldOnce'
  BY <1>1, <1>2, <1>3 DEF HeldOnce
<1>10. QueueOnce'
  BY <1>1, <1>2, <1>8 DEF QueueOnce
<1>11. NoStateDropped' /\ DeliveredInOrder'
  BY <1>1 DEF NoStateDropped, DeliveredInOrder
<1>12. Clocks'
  BY <1>1, <1>2, <1>3 DEF Clocks
<1>13. OnlyMessages'
  BY <1>1, <1>2, <1>3 DEF OnlyMessages
<1>14. GivenUpIsGone'
  BY <1>1, <1>5 DEF GivenUpIsGone
<1>15. LoopOpen' /\ Running("loop")'
  BY <1>1, <1>2, <1>3, EmptySeq DEF LoopOpen, Running, Top
<1>16. Watched'
  BY <1>15 DEF Watched
<1>. QED
  BY <1>4, <1>7, <1>9, <1>10, <1>11, <1>12, <1>13, <1>14, <1>16

\* Facts about the stack below a running top frame.
LEMMA TopFacts ==
  ASSUME TypeOK, NEW pc, Running(pc)
  PROVE  /\ Pop \in Seq(Frame) /\ stack \in Seq(Frame) /\ stack # <<>>
         /\ Len(Pop) = Len(stack) - 1 /\ Len(stack) \in Nat \ {0}
         /\ \A i \in 1 .. Len(Pop) : i \in 1 .. Len(stack) /\ Pop[i] = stack[i]
         /\ Top \in Frame /\ Top.pc = pc /\ Top.ev \in Event
         /\ Held = IF pc = "preHandle" THEN HeldIn(Pop) \cup {Top.ev} ELSE HeldIn(Pop)
<1>1. stack \in Seq(Frame) /\ stack # <<>> /\ Top.pc = pc
  BY DEF TypeOK, Running
<1>2. /\ Pop \in Seq(Frame) /\ Len(Pop) = Len(stack) - 1 /\ Len(stack) \in Nat \ {0}
      /\ \A i \in 1 .. Len(stack) - 1 : Pop[i] = stack[i]
      /\ Top \in Frame
  BY <1>1, PushPop DEF Pop, Top
<1>3. Top.ev \in Event
  BY <1>2 DEF Frame
<1>4. Held = IF pc = "preHandle" THEN HeldIn(Pop) \cup {Top.ev} ELSE HeldIn(Pop)
  BY <1>1, HeldPop DEF Held, Pop, Top
<1>5. \A i \in 1 .. Len(Pop) : i \in 1 .. Len(stack) /\ Pop[i] = stack[i]
  BY <1>2
<1>. QED
  BY <1>1, <1>2, <1>3, <1>4, <1>5

\* Taking a pre-handling frame off the stack releases its tick, and only it.
LEMMA ReleaseHeld ==
  ASSUME IInv, Running("preHandle")
  PROVE  /\ Ticks(HeldIn(Pop)) = Ticks(Held) \ {Top.ev.clock}
         /\ Top.ev.clock \in Ticks(Held)
         /\ Top.ev \in Held
         /\ HeldIn(Pop) \subseteq Held
         /\ \A i, j \in 1 .. Len(Pop) :
              /\ Pop[i].pc = "preHandle"
              /\ Pop[j].pc = "preHandle"
              /\ Pop[i].ev.clock = Pop[j].ev.clock
              => i = j
<1>1. /\ Len(Pop) = Len(stack) - 1 /\ Len(stack) \in Nat \ {0}
      /\ \A i \in 1 .. Len(Pop) : i \in 1 .. Len(stack) /\ Pop[i] = stack[i]
      /\ Top.pc = "preHandle"
      /\ Held = HeldIn(Pop) \cup {Top.ev}
  BY TopFacts DEF IInv
<1>2. \A i \in 1 .. Len(Pop) : Pop[i].pc = "preHandle" => Pop[i].ev.clock # Top.ev.clock
  BY <1>1 DEF HeldOnce, IInv, Top
<1>3. Top.ev.clock \notin Ticks(HeldIn(Pop))
  BY <1>2 DEF HeldIn, Ticks
<1>4. Ticks(Held) = Ticks(HeldIn(Pop)) \cup {Top.ev.clock}
  BY <1>1, TicksAdd
<1>5. \A i, j \in 1 .. Len(Pop) :
        /\ Pop[i].pc = "preHandle"
        /\ Pop[j].pc = "preHandle"
        /\ Pop[i].ev.clock = Pop[j].ev.clock
        => i = j
  BY <1>1 DEF HeldOnce, IInv
<1>. QED
  BY <1>1, <1>3, <1>4, <1>5

\* A client handler throws: the tick is consumed without entering the queue.
LEMMA PreHandleThrowsInv == IInv /\ PreHandleThrows => IInv'
<1>. SUFFICES ASSUME IInv, PreHandleThrows PROVE IInv'
  OBVIOUS
<1>. USE DEF IInv
<1>1. /\ Running("preHandle") /\ stack' = Pop /\ consumed' = consumed \cup {Top.ev}
      /\ UNCHANGED <<nextEventClock, eventClock, eventQueue, timer, orphans,
                     delivered, givenUp, firstTick>>
  BY DEF PreHandleThrows
<1>2. /\ Pop \in Seq(Frame) /\ Top.ev \in Event
      /\ Len(Pop) = Len(stack) - 1 /\ Len(stack) \in Nat \ {0}
      /\ \A i \in 1 .. Len(Pop) : i \in 1 .. Len(stack) /\ Pop[i] = stack[i]
      /\ Top.pc = "preHandle"
  BY <1>1, TopFacts
<1>3. /\ Ticks(HeldIn(Pop)) = Ticks(Held) \ {Top.ev.clock}
      /\ Top.ev.clock \in Ticks(Held) /\ Top.ev \in Held /\ HeldIn(Pop) \subseteq Held
      /\ \A i, j \in 1 .. Len(Pop) :
              /\ Pop[i].pc = "preHandle"
              /\ Pop[j].pc = "preHandle"
              /\ Pop[i].ev.clock = Pop[j].ev.clock
              => i = j
  BY <1>1, ReleaseHeld
<1>4. TypeOK'
  BY <1>1, <1>2 DEF TypeOK
<1>5. /\ Held' = HeldIn(Pop) /\ Ticks(Held)' = Ticks(Held) \ {Top.ev.clock}
      /\ Ticks(eventQueue)' = Ticks(eventQueue)
      /\ Fired' = Fired /\ Ticks(Fired)' = Ticks(Fired)
      /\ Ticks(consumed)' = Ticks(consumed) \cup {Top.ev.clock}
  BY <1>1, <1>3, TicksAdd DEF Ticks, Fired, Held
<1>6. EachTickOnce'
  <2>1. Split(1 .. nextEventClock, Ticks(Held), Ticks(eventQueue), Ticks(Fired), Ticks(consumed))
    BY DEF EachTickOnce, Split
  <2>2. Split(1 .. nextEventClock, Ticks(Held) \ {Top.ev.clock}, Ticks(eventQueue), Ticks(Fired),
            Ticks(consumed) \cup {Top.ev.clock})
    BY <1>3, <2>1, MoveTick
  <2>3. Split(1 .. nextEventClock', Ticks(Held)', Ticks(eventQueue)', Ticks(Fired)', Ticks(consumed)')
    BY <1>1, <1>5, <2>2
  <2>4. \A i, j \in 1 .. Len(delivered') :
          delivered'[i].clock = delivered'[j].clock => i = j
    BY <1>1 DEF EachTickOnce
  <2>. QED
    BY <2>3, <2>4 DEF EachTickOnce, Split
<1>7. HeldOnce'
  BY <1>1, <1>3 DEF HeldOnce
<1>8. QueueOnce' /\ DeliveredInOrder'
  BY <1>1 DEF QueueOnce, DeliveredInOrder
<1>9. Clocks' /\ OnlyMessages' /\ NoStateDropped'
  BY <1>1, <1>3, <1>5 DEF Clocks, OnlyMessages, NoStateDropped
<1>10. GivenUpIsGone'
  BY <1>1, <1>5 DEF GivenUpIsGone
<1>11. Watched'
  <2>1. LoopOpen => LoopOpen'
    BY <1>1, <1>2 DEF LoopOpen, Running, Top
  <2>2. ~Running("loop")
    BY <1>2 DEF Running
  <2>. QED
    BY <1>1, <2>1, <2>2 DEF Watched
<1>. QED
  BY <1>4, <1>6, <1>7, <1>8, <1>9, <1>10, <1>11

\* Pre-handling of a message behind the clock ends: it is delivered at once.
LEMMA StaleInv ==
  ASSUME IInv, NEW handled \in BOOLEAN, PreHandled(handled), Top.ev.clock <= eventClock
  PROVE  IInv'
<1>. DEFINE ev == [Top.ev EXCEPT !.handled = handled]
            f == [pc |-> "fire", ev |-> ev]
<1>. USE DEF IInv
<1>0. Running("preHandle")
  BY DEF PreHandled
<1>2. /\ Pop \in Seq(Frame) /\ Top.ev \in Event
      /\ Len(Pop) = Len(stack) - 1 /\ Len(stack) \in Nat \ {0}
      /\ \A i \in 1 .. Len(Pop) : i \in 1 .. Len(stack) /\ Pop[i] = stack[i]
      /\ Top.pc = "preHandle"
  BY <1>0, TopFacts
<1>3. /\ Ticks(HeldIn(Pop)) = Ticks(Held) \ {Top.ev.clock}
      /\ Top.ev.clock \in Ticks(Held) /\ Top.ev \in Held /\ HeldIn(Pop) \subseteq Held
      /\ \A i, j \in 1 .. Len(Pop) :
              /\ Pop[i].pc = "preHandle"
              /\ Pop[j].pc = "preHandle"
              /\ Pop[i].ev.clock = Pop[j].ev.clock
              => i = j
  BY <1>0, ReleaseHeld
<1>4. /\ ev \in Event /\ ev.clock = Top.ev.clock /\ ev.kind = "message"
      /\ f \in Frame /\ f.pc = "fire"
  BY <1>2, <1>3 DEF Event, Frame, OnlyMessages
<1>1. /\ stack' = Append(Pop, f) /\ delivered' = Append(delivered, ev)
      /\ UNCHANGED <<nextEventClock, eventClock, eventQueue, timer, orphans,
                     consumed, givenUp, firstTick>>
  BY <1>4 DEF PreHandled, AddToEventQueue
<1>. HIDE DEF ev, f
<1>5. /\ Held' = HeldIn(Pop) /\ stack' \in Seq(Frame)
      /\ Len(stack') = Len(Pop) + 1 /\ Len(Pop) \in Nat
      /\ \A i \in 1 .. Len(Pop) : stack'[i] = Pop[i]
      /\ stack'[Len(Pop) + 1] = f
  BY <1>1, <1>2, <1>4, PushOther DEF Held
<1>6. /\ delivered' \in Seq(Event) /\ Len(delivered') = Len(delivered) + 1
      /\ Len(delivered) \in Nat
      /\ \A i \in 1 .. Len(delivered) : delivered'[i] = delivered[i]
      /\ \A i \in 1 .. Len(delivered) : delivered[i] \in Event
      /\ delivered'[Len(delivered) + 1] = ev
      /\ Fired' = Fired \cup {ev}
  BY <1>1, <1>4, FiredPush DEF TypeOK, Fired
<1>7. TypeOK'
  BY <1>1, <1>5, <1>6 DEF TypeOK
<1>8. /\ Ticks(Held)' = Ticks(Held) \ {Top.ev.clock}
      /\ Ticks(eventQueue)' = Ticks(eventQueue)
      /\ Ticks(Fired)' = Ticks(Fired) \cup {Top.ev.clock}
      /\ Ticks(consumed)' = Ticks(consumed)
  <2>1. Ticks(Fired)' = Ticks(Fired) \cup {Top.ev.clock}
    BY <1>4, <1>6, TicksAdd DEF Ticks
  <2>. QED
    BY <1>1, <1>3, <1>5, <2>1 DEF Ticks
<1>9. \A i \in 1 .. Len(delivered) : delivered[i].clock # Top.ev.clock
  <2>1. Top.ev.clock \notin Ticks(Fired)
    BY <1>3 DEF EachTickOnce
  <2>. QED
    BY <2>1 DEF Fired, Ticks
<1>10. EachTickOnce'
  <2>1. Split(1 .. nextEventClock, Ticks(Held), Ticks(eventQueue), Ticks(Fired), Ticks(consumed))
    BY DEF EachTickOnce, Split
  <2>2. Split(1 .. nextEventClock, Ticks(Held) \ {Top.ev.clock}, Ticks(eventQueue),
            Ticks(Fired) \cup {Top.ev.clock}, Ticks(consumed))
    BY <1>3, <2>1, MoveTick
  <2>3. Split(1 .. nextEventClock', Ticks(Held)', Ticks(eventQueue)', Ticks(Fired)', Ticks(consumed)')
    BY <1>1, <1>8, <2>2
  <2>4. \A i, j \in 1 .. Len(delivered') :
          delivered'[i].clock = delivered'[j].clock => i = j
    BY <1>4, <1>6, <1>9 DEF EachTickOnce
  <2>. QED
    BY <2>3, <2>4 DEF EachTickOnce, Split
<1>11. HeldOnce'
  BY <1>3, <1>4, <1>5 DEF HeldOnce
<1>12. QueueOnce' /\ NoStateDropped'
  BY <1>1 DEF QueueOnce, NoStateDropped
<1>13. ev.clock < firstTick /\ ev.clock <= eventClock
  BY <1>3, <1>4 DEF Clocks
<1>14. DeliveredInOrder'
  <2>. SUFFICES ASSUME NEW i \in 1 .. Len(delivered'), NEW j \in 1 .. Len(delivered'),
                       i < j, delivered'[j].clock < delivered'[i].clock
                PROVE  delivered'[j].kind = "message" /\ delivered'[j].clock < firstTick'
    BY DEF DeliveredInOrder
  <2>1. CASE j = Len(delivered) + 1
    BY <1>1, <1>4, <1>6, <1>13, <2>1
  <2>2. CASE j # Len(delivered) + 1
    <3>1. i \in 1 .. Len(delivered) /\ j \in 1 .. Len(delivered)
      BY <1>6, <2>2
    <3>. QED
      BY <1>1, <1>6, <3>1 DEF DeliveredInOrder
  <2>. QED
    BY <2>1, <2>2
<1>15. Clocks'
  BY <1>1, <1>3, <1>5, <1>6, <1>13 DEF Clocks
<1>16. OnlyMessages'
  BY <1>1, <1>3, <1>5 DEF OnlyMessages
<1>17. GivenUpIsGone'
  BY <1>1, <1>8 DEF GivenUpIsGone
<1>18. Watched'
  <2>1. LoopOpen => LoopOpen'
    BY <1>2, <1>5 DEF LoopOpen, Top
  <2>2. ~Running("loop")
    BY <1>2 DEF Running
  <2>. QED
    BY <1>1, <2>1, <2>2 DEF Watched
<1>. QED
  BY <1>7, <1>10, <1>11, <1>12, <1>14, <1>15, <1>16, <1>17, <1>18

\* Pre-handling of a message ahead of the clock ends: it enters the queue.
LEMMA EnqueueInv ==
  ASSUME IInv, NEW handled \in BOOLEAN, PreHandled(handled), ~(Top.ev.clock <= eventClock)
  PROVE  IInv'
<1>. DEFINE ev == [Top.ev EXCEPT !.handled = handled]
            f == [pc |-> "loop", ev |-> ev]
<1>. USE DEF IInv
<1>0. Running("preHandle")
  BY DEF PreHandled
<1>2. /\ Pop \in Seq(Frame) /\ Top.ev \in Event
      /\ Len(Pop) = Len(stack) - 1 /\ Len(stack) \in Nat \ {0}
      /\ \A i \in 1 .. Len(Pop) : i \in 1 .. Len(stack) /\ Pop[i] = stack[i]
      /\ Top.pc = "preHandle"
  BY <1>0, TopFacts
<1>3. /\ Ticks(HeldIn(Pop)) = Ticks(Held) \ {Top.ev.clock}
      /\ Top.ev.clock \in Ticks(Held) /\ Top.ev \in Held /\ HeldIn(Pop) \subseteq Held
      /\ \A i, j \in 1 .. Len(Pop) :
              /\ Pop[i].pc = "preHandle"
              /\ Pop[j].pc = "preHandle"
              /\ Pop[i].ev.clock = Pop[j].ev.clock
              => i = j
  BY <1>0, ReleaseHeld
<1>4. /\ ev \in Event /\ ev.clock = Top.ev.clock /\ ev.kind = "message"
      /\ f \in Frame /\ f.pc = "loop"
  BY <1>2, <1>3 DEF Event, Frame, OnlyMessages
<1>1. /\ stack' = Append(Pop, f) /\ eventQueue' = eventQueue \cup {ev} /\ timer' = FALSE
      /\ UNCHANGED <<nextEventClock, eventClock, orphans, delivered,
                     consumed, givenUp, firstTick>>
  BY <1>4 DEF PreHandled, AddToEventQueue
<1>. HIDE DEF ev, f
<1>5. /\ Held' = HeldIn(Pop) /\ stack' \in Seq(Frame)
      /\ Len(stack') = Len(Pop) + 1 /\ Len(Pop) \in Nat
      /\ \A i \in 1 .. Len(Pop) : stack'[i] = Pop[i]
      /\ stack'[Len(Pop) + 1] = f
  BY <1>1, <1>2, <1>4, PushOther DEF Held
<1>7. TypeOK'
  BY <1>1, <1>4, <1>5 DEF TypeOK
<1>8. /\ Ticks(Held)' = Ticks(Held) \ {Top.ev.clock}
      /\ Ticks(eventQueue)' = Ticks(eventQueue) \cup {Top.ev.clock}
      /\ Fired' = Fired /\ Ticks(Fired)' = Ticks(Fired)
      /\ Ticks(consumed)' = Ticks(consumed)
  <2>1. Ticks(eventQueue)' = Ticks(eventQueue) \cup {Top.ev.clock}
    BY <1>1, <1>4, TicksAdd DEF Ticks
  <2>2. Fired' = Fired /\ Ticks(Fired)' = Ticks(Fired)
    BY <1>1 DEF Ticks, Fired
  <2>3. Ticks(Held)' = Ticks(Held) \ {Top.ev.clock}
    BY <1>3, <1>5 DEF Ticks
  <2>4. Ticks(consumed)' = Ticks(consumed)
    BY <1>1 DEF Ticks
  <2>. QED
    BY <2>1, <2>2, <2>3, <2>4
<1>9. \A e \in eventQueue : e.clock # Top.ev.clock
  <2>1. Top.ev.clock \notin Ticks(eventQueue)
    BY <1>3 DEF EachTickOnce
  <2>. QED
    BY <2>1 DEF Ticks
<1>10. EachTickOnce'
  <2>1. Split(1 .. nextEventClock, Ticks(Held), Ticks(eventQueue), Ticks(Fired), Ticks(consumed))
    BY DEF EachTickOnce, Split
  <2>2. Split(1 .. nextEventClock, Ticks(Held) \ {Top.ev.clock}, Ticks(eventQueue) \cup {Top.ev.clock},
            Ticks(Fired), Ticks(consumed))
    BY <1>3, <2>1, MoveTick
  <2>3. Split(1 .. nextEventClock', Ticks(Held)', Ticks(eventQueue)', Ticks(Fired)', Ticks(consumed)')
    BY <1>1, <1>8, <2>2
  <2>4. \A i, j \in 1 .. Len(delivered') :
          delivered'[i].clock = delivered'[j].clock => i = j
    BY <1>1 DEF EachTickOnce
  <2>. QED
    BY <2>3, <2>4 DEF EachTickOnce, Split
<1>11. HeldOnce'
  BY <1>3, <1>4, <1>5 DEF HeldOnce
<1>12. QueueOnce'
  BY <1>1, <1>4, <1>9 DEF QueueOnce
<1>13. NoStateDropped' /\ DeliveredInOrder'
  BY <1>1 DEF NoStateDropped, DeliveredInOrder
<1>14. Clocks'
  <2>1. ev.clock > eventClock
    BY <1>2, <1>4 DEF TypeOK, Event
  <2>. QED
    BY <1>1, <1>3, <1>5, <2>1 DEF Clocks
<1>15. OnlyMessages'
  BY <1>1, <1>3, <1>4, <1>5 DEF OnlyMessages
<1>16. GivenUpIsGone'
  BY <1>1, <1>8 DEF GivenUpIsGone
<1>17. Watched'
  <2>1. LoopOpen' /\ Running("loop")'
    BY <1>4, <1>5, EmptySeq DEF LoopOpen, Running, Top
  <2>. QED
    BY <2>1 DEF Watched
<1>. QED
  BY <1>7, <1>10, <1>11, <1>12, <1>13, <1>14, <1>15, <1>16, <1>17

\* The loop takes an event a client has handled: nothing is delivered.
LEMMA TakeHandledInv ==
  ASSUME IInv, LoopTake, NEW e \in eventQueue, IsFirst(e), Take(e), e.handled
  PROVE  IInv'
<1>. USE DEF IInv
<1>1. /\ Running("loop") /\ e \in eventQueue
      /\ \A g \in eventQueue : e.clock <= g.clock
      /\ eventQueue' = eventQueue \ {e} /\ eventClock' = e.clock
      /\ firstTick' = (IF firstTick = 0 THEN e.clock ELSE firstTick)
      /\ UNCHANGED <<nextEventClock, timer, orphans, givenUp>>
      /\ eventClock = 0 \/ e.clock = eventClock + 1
  BY DEF LoopTake, Take, IsFirst, Deliverable, TypeOK, Event
<1>2. /\ e \in Event /\ e.clock \in Nat \ {0} /\ e.clock > eventClock
      /\ e.clock <= nextEventClock /\ nextEventClock \in Nat /\ eventClock \in Nat
      /\ firstTick \in 0 .. eventClock
  <2>1. e.clock \in 1 .. nextEventClock
    BY <1>1 DEF EachTickOnce, Ticks
  <2>. QED
    BY <1>1, <2>1, BoundsAssumption DEF TypeOK, Event, Clocks
<1>3. Ticks(eventQueue \ {e}) = Ticks(eventQueue) \ {e.clock} /\ e.clock \in Ticks(eventQueue)
  BY <1>1 DEF QueueOnce, Ticks
<1>4. \A g \in Held : g.clock # e.clock /\ g.clock \in Nat
  <2>1. \A g \in Held : g.clock # e.clock
    BY <1>1 DEF EachTickOnce, Ticks
  <2>2. \A g \in Held : g.clock \in 1 .. nextEventClock
    BY DEF EachTickOnce, Ticks
  <2>. QED
    BY <2>1, <2>2
<1>5. \A g \in Held : g.clock <= e.clock => g.clock < firstTick'
  BY <1>1, <1>2, <1>4 DEF Clocks
<1>6. \A g \in eventQueue \ {e} : g.clock > e.clock
  BY <1>1, <1>2 DEF QueueOnce, TypeOK, Event
<1>7. LoopOpen
  BY <1>1, TopFacts DEF LoopOpen, Running, Top
<1>8. firstTick' \in 0 .. eventClock' /\ firstTick' # 0
  BY <1>1, <1>2 DEF Clocks
<1>9. consumed' = consumed \cup {e} /\ UNCHANGED <<delivered, stack>>
  BY DEF Take
<1>10. /\ Held' = Held /\ Fired' = Fired /\ Ticks(Held)' = Ticks(Held)
       /\ Ticks(Fired)' = Ticks(Fired)
       /\ Ticks(eventQueue)' = Ticks(eventQueue) \ {e.clock}
       /\ Ticks(consumed)' = Ticks(consumed) \cup {e.clock}
  BY <1>1, <1>3, <1>9 DEF Held, Fired, Ticks
<1>11. TypeOK'
  <2>1. eventClock' \in 0 .. nextEventClock'
    BY <1>1, <1>2
  <2>. QED
    BY <1>1, <1>2, <1>8, <1>9, <2>1 DEF TypeOK
<1>12. EachTickOnce'
  <2>1. Split(1 .. nextEventClock, Ticks(Held), Ticks(eventQueue), Ticks(Fired), Ticks(consumed))
    BY DEF EachTickOnce, Split
  <2>2. Split(1 .. nextEventClock, Ticks(Held), Ticks(eventQueue) \ {e.clock}, Ticks(Fired),
            Ticks(consumed) \cup {e.clock})
    BY <1>3, <2>1, MoveTick
  <2>3. Split(1 .. nextEventClock', Ticks(Held)', Ticks(eventQueue)', Ticks(Fired)', Ticks(consumed)')
    BY <1>1, <1>10, <2>2
  <2>4. \A i, j \in 1 .. Len(delivered') :
          delivered'[i].clock = delivered'[j].clock => i = j
    BY <1>9 DEF EachTickOnce
  <2>. QED
    BY <2>3, <2>4 DEF EachTickOnce, Split
<1>13. HeldOnce' /\ QueueOnce'
  BY <1>1, <1>9 DEF HeldOnce, QueueOnce
<1>14. Clocks'
  <2>1. \A i \in 1 .. Len(delivered') : delivered'[i].clock <= eventClock'
    <3>. SUFFICES ASSUME NEW i \in 1 .. Len(delivered) PROVE delivered[i].clock <= e.clock
      BY <1>1, <1>9
    <3>1. delivered[i] \in Event
      BY ElementOfSeq DEF TypeOK
    <3>2. delivered[i].clock <= eventClock /\ delivered[i].clock \in Nat
      BY <3>1 DEF Clocks, Event
    <3>. QED
      BY <1>2, <3>2
  <2>. QED
    BY <1>1, <1>2, <1>5, <1>6, <1>8, <1>10, <2>1 DEF Clocks
<1>15. OnlyMessages' /\ NoStateDropped'
  BY <1>1, <1>9, <1>10 DEF OnlyMessages, NoStateDropped
<1>16. DeliveredInOrder'
  <2>1. \A i \in 1 .. Len(delivered) : delivered[i].clock < firstTick => delivered[i].clock < firstTick'
    <3>1. \A i \in 1 .. Len(delivered) : delivered[i] \in Event
      BY ElementOfSeq DEF TypeOK
    <3>2. \A i \in 1 .. Len(delivered) : delivered[i].clock \in Nat \ {0}
      BY <3>1 DEF Event
    <3>. QED
      BY <1>1, <1>2, <3>2
  <2>. QED
    BY <1>9, <2>1 DEF DeliveredInOrder
<1>17. GivenUpIsGone'
  BY <1>1, <1>10 DEF GivenUpIsGone
<1>18. Watched'
  BY <1>1, <1>2, <1>7, <1>9 DEF Watched, LoopOpen
<1>. QED
  BY <1>11, <1>12, <1>13, <1>14, <1>15, <1>16, <1>17, <1>18

\* The loop takes an event and hands it to the listeners.
LEMMA TakeFireInv ==
  ASSUME IInv, LoopTake, NEW e \in eventQueue, IsFirst(e), Take(e), ~e.handled
  PROVE  IInv'
<1>. DEFINE f == [pc |-> "fire", ev |-> e]
<1>. USE DEF IInv
<1>1. /\ Running("loop") /\ e \in eventQueue
      /\ \A g \in eventQueue : e.clock <= g.clock
      /\ eventQueue' = eventQueue \ {e} /\ eventClock' = e.clock
      /\ firstTick' = (IF firstTick = 0 THEN e.clock ELSE firstTick)
      /\ UNCHANGED <<nextEventClock, timer, orphans, givenUp>>
      /\ eventClock = 0 \/ e.clock = eventClock + 1
  BY DEF LoopTake, Take, IsFirst, Deliverable, TypeOK, Event
<1>2. /\ e \in Event /\ e.clock \in Nat \ {0} /\ e.clock > eventClock
      /\ e.clock <= nextEventClock /\ nextEventClock \in Nat /\ eventClock \in Nat
      /\ firstTick \in 0 .. eventClock
  <2>1. e.clock \in 1 .. nextEventClock
    BY <1>1 DEF EachTickOnce, Ticks
  <2>. QED
    BY <1>1, <2>1, BoundsAssumption DEF TypeOK, Event, Clocks
<1>3. Ticks(eventQueue \ {e}) = Ticks(eventQueue) \ {e.clock} /\ e.clock \in Ticks(eventQueue)
  BY <1>1 DEF QueueOnce, Ticks
<1>4. \A g \in Held : g.clock # e.clock /\ g.clock \in Nat
  <2>1. \A g \in Held : g.clock # e.clock
    BY <1>1 DEF EachTickOnce, Ticks
  <2>2. \A g \in Held : g.clock \in 1 .. nextEventClock
    BY DEF EachTickOnce, Ticks
  <2>. QED
    BY <2>1, <2>2
<1>5. \A g \in Held : g.clock <= e.clock => g.clock < firstTick'
  BY <1>1, <1>2, <1>4 DEF Clocks
<1>6. \A g \in eventQueue \ {e} : g.clock > e.clock
  BY <1>1, <1>2 DEF QueueOnce, TypeOK, Event
<1>7. LoopOpen
  BY <1>1, TopFacts DEF LoopOpen, Running, Top
<1>8. firstTick' \in 0 .. eventClock' /\ firstTick' # 0
  BY <1>1, <1>2 DEF Clocks
<1>9. /\ consumed' = consumed /\ delivered' = Append(delivered, e)
      /\ stack' = Append(stack, f)
  BY DEF Take
<1>10. f \in Frame /\ f.pc = "fire"
  BY <1>2 DEF Frame
<1>. HIDE DEF f
<1>11. /\ Held' = Held /\ stack' \in Seq(Frame)
       /\ Len(stack') = Len(stack) + 1 /\ Len(stack) \in Nat
       /\ \A i \in 1 .. Len(stack) : stack'[i] = stack[i]
       /\ stack'[Len(stack) + 1] = f
  BY <1>9, <1>10, PushOther DEF Held, TypeOK
<1>12. /\ delivered' \in Seq(Event) /\ Len(delivered') = Len(delivered) + 1
       /\ Len(delivered) \in Nat
       /\ \A i \in 1 .. Len(delivered) : delivered'[i] = delivered[i]
       /\ \A i \in 1 .. Len(delivered) : delivered[i] \in Event
       /\ delivered'[Len(delivered) + 1] = e
       /\ Fired' = Fired \cup {e}
  BY <1>2, <1>9, FiredPush DEF TypeOK, Fired
<1>13. TypeOK'
  <2>1. eventClock' \in 0 .. nextEventClock'
    BY <1>1, <1>2
  <2>. QED
    BY <1>1, <1>8, <1>9, <1>11, <1>12, <2>1 DEF TypeOK
<1>14. /\ Ticks(Held)' = Ticks(Held) /\ Ticks(consumed)' = Ticks(consumed)
       /\ Ticks(eventQueue)' = Ticks(eventQueue) \ {e.clock}
       /\ Ticks(Fired)' = Ticks(Fired) \cup {e.clock}
  <2>1. Ticks(Fired)' = Ticks(Fired) \cup {e.clock}
    BY <1>12, TicksAdd DEF Ticks
  <2>. QED
    BY <1>1, <1>3, <1>9, <1>11, <2>1 DEF Ticks
<1>15. \A i \in 1 .. Len(delivered) : delivered[i].clock < e.clock /\ delivered[i].clock \in Nat
  BY <1>2, <1>12 DEF Clocks, Event
<1>16. EachTickOnce'
  <2>1. Split(1 .. nextEventClock, Ticks(Held), Ticks(eventQueue), Ticks(Fired), Ticks(consumed))
    BY DEF EachTickOnce, Split
  <2>2. Split(1 .. nextEventClock, Ticks(Held), Ticks(eventQueue) \ {e.clock},
            Ticks(Fired) \cup {e.clock}, Ticks(consumed))
    BY <1>3, <2>1, MoveTick
  <2>3. Split(1 .. nextEventClock', Ticks(Held)', Ticks(eventQueue)', Ticks(Fired)', Ticks(consumed)')
    BY <1>1, <1>14, <2>2
  <2>4. \A i, j \in 1 .. Len(delivered') :
          delivered'[i].clock = delivered'[j].clock => i = j
    BY <1>12, <1>15 DEF EachTickOnce
  <2>. QED
    BY <2>3, <2>4 DEF EachTickOnce, Split
<1>17. HeldOnce'
  BY <1>10, <1>11 DEF HeldOnce
<1>18. QueueOnce' /\ NoStateDropped'
  BY <1>1, <1>9 DEF QueueOnce, NoStateDropped
<1>19. Clocks'
  <2>1. \A i \in 1 .. Len(delivered') : delivered'[i].clock <= eventClock'
    <3>1. \A i \in 1 .. Len(delivered) : delivered'[i].clock <= e.clock
      BY <1>2, <1>12, <1>15
    <3>2. delivered'[Len(delivered) + 1].clock <= e.clock
      BY <1>2, <1>12
    <3>3. \A i \in 1 .. Len(delivered') : i \in 1 .. Len(delivered) \/ i = Len(delivered) + 1
      BY <1>12
    <3>. QED
      BY <1>1, <3>1, <3>2, <3>3
  <2>. QED
    BY <1>1, <1>2, <1>5, <1>6, <1>8, <1>11, <2>1 DEF Clocks
<1>20. OnlyMessages'
  BY <1>1, <1>11 DEF OnlyMessages
<1>21. DeliveredInOrder'
  <2>. SUFFICES ASSUME NEW i \in 1 .. Len(delivered'), NEW j \in 1 .. Len(delivered'),
                       i < j, delivered'[j].clock < delivered'[i].clock
                PROVE  delivered'[j].kind = "message" /\ delivered'[j].clock < firstTick'
    BY DEF DeliveredInOrder
  <2>1. i \in 1 .. Len(delivered)
    BY <1>12
  <2>2. j # Len(delivered) + 1
    BY <1>2, <1>12, <1>15, <2>1
  <2>3. j \in 1 .. Len(delivered)
    BY <1>12, <2>2
  <2>4. delivered[j].kind = "message" /\ delivered[j].clock < firstTick
    BY <1>12, <2>1, <2>3 DEF DeliveredInOrder
  <2>. QED
    BY <1>1, <1>2, <1>12, <1>15, <2>3, <2>4
<1>22. GivenUpIsGone'
  BY <1>1, <1>14 DEF GivenUpIsGone
<1>23. Watched'
  <2>1. LoopOpen'
    BY <1>7, <1>11 DEF LoopOpen
  <2>. QED
    BY <1>1, <1>2, <2>1 DEF Watched
<1>. QED
  BY <1>13, <1>16, <1>17, <1>18, <1>19, <1>20, <1>21, <1>22, <1>23

\* The loop ends: what it leaves is behind a gap and the timer is armed.
LEMMA LoopEndInv == IInv /\ LoopEnd => IInv'
<1>. SUFFICES ASSUME IInv, LoopEnd PROVE IInv'
  OBVIOUS
<1>. USE DEF IInv
<1>1. /\ Running("loop") /\ ~Deliverable /\ stack' = Pop
      /\ UNCHANGED <<nextEventClock, eventClock, eventQueue, delivered, consumed,
                     givenUp, firstTick>>
      /\ timer' \in BOOLEAN /\ orphans' \in Nat
      /\ eventQueue # {} => timer' = TRUE
  <2>1. CASE eventQueue = {}
    BY <2>1 DEF LoopEnd, TypeOK
  <2>2. CASE eventQueue # {}
    <3>1. timer' = TRUE /\ orphans' = (IF timer THEN orphans + 1 ELSE orphans)
      BY <2>2 DEF LoopEnd
    <3>2. orphans' \in Nat
      BY <3>1 DEF TypeOK
    <3>3. /\ Running("loop") /\ ~Deliverable /\ stack' = Pop
          /\ UNCHANGED <<nextEventClock, eventClock, eventQueue, delivered, consumed,
                         givenUp, firstTick>>
      BY DEF LoopEnd
    <3>. QED
      BY <3>1, <3>2, <3>3, Zenon
  <2>. QED
    BY <2>1, <2>2
<1>2. /\ Pop \in Seq(Frame)
      /\ Len(Pop) = Len(stack) - 1 /\ Len(stack) \in Nat \ {0}
      /\ \A i \in 1 .. Len(Pop) : i \in 1 .. Len(stack) /\ Pop[i] = stack[i]
      /\ Held = HeldIn(Pop)
  BY <1>1, TopFacts
<1>3. TypeOK'
  BY <1>1, <1>2 DEF TypeOK
<1>4. /\ Held' = Held /\ Fired' = Fired
      /\ Ticks(Held)' = Ticks(Held) /\ Ticks(eventQueue)' = Ticks(eventQueue)
      /\ Ticks(Fired)' = Ticks(Fired) /\ Ticks(consumed)' = Ticks(consumed)
  BY <1>1, <1>2 DEF Held, Fired, Ticks
<1>5. EachTickOnce' /\ NoStateDropped' /\ DeliveredInOrder' /\ GivenUpIsGone' /\ QueueOnce'
  BY <1>1, <1>4 DEF EachTickOnce, NoStateDropped, DeliveredInOrder, GivenUpIsGone, QueueOnce
<1>6. HeldOnce'
  BY <1>1, <1>2 DEF HeldOnce
<1>7. Clocks' /\ OnlyMessages'
  BY <1>1, <1>4 DEF Clocks, OnlyMessages
<1>8. ASSUME eventQueue # {}
      PROVE  eventClock # 0 /\ \A e \in eventQueue : e.clock > eventClock + 1
  <2>1. eventClock # 0 /\ \A e \in eventQueue : IsFirst(e) => e.clock # eventClock + 1
    BY <1>1, <1>8 DEF Deliverable
  <2>2. \A e \in eventQueue : e.clock \in Nat /\ e.clock > eventClock /\ eventClock \in Nat
    BY DEF TypeOK, Event, Clocks
  <2>3. \A e \in eventQueue : e.clock = eventClock + 1 => IsFirst(e)
    BY <2>2 DEF IsFirst
  <2>. QED
    BY <2>1, <2>2, <2>3
<1>9. Watched'
  BY <1>1, <1>8 DEF Watched
<1>. QED
  BY <1>3, <1>5, <1>6, <1>7, <1>9

\* Listeners return: only the frame goes.
LEMMA FireReturnsInv == IInv /\ FireReturns => IInv'
<1>. SUFFICES ASSUME IInv, FireReturns PROVE IInv'
  OBVIOUS
<1>. USE DEF IInv
<1>1. /\ Running("fire") /\ stack' = Pop
      /\ UNCHANGED <<nextEventClock, eventClock, eventQueue, timer, orphans,
                     delivered, consumed, givenUp, firstTick>>
  BY DEF FireReturns
<1>2. /\ Pop \in Seq(Frame) /\ Top.pc = "fire"
      /\ Len(Pop) = Len(stack) - 1 /\ Len(stack) \in Nat \ {0}
      /\ \A i \in 1 .. Len(Pop) : i \in 1 .. Len(stack) /\ Pop[i] = stack[i]
      /\ Held = HeldIn(Pop)
  BY <1>1, TopFacts
<1>3. TypeOK'
  BY <1>1, <1>2 DEF TypeOK
<1>4. /\ Held' = Held /\ Fired' = Fired
      /\ Ticks(Held)' = Ticks(Held) /\ Ticks(eventQueue)' = Ticks(eventQueue)
      /\ Ticks(Fired)' = Ticks(Fired) /\ Ticks(consumed)' = Ticks(consumed)
  BY <1>1, <1>2 DEF Held, Fired, Ticks
<1>5. EachTickOnce' /\ NoStateDropped' /\ DeliveredInOrder' /\ GivenUpIsGone' /\ QueueOnce'
  BY <1>1, <1>4 DEF EachTickOnce, NoStateDropped, DeliveredInOrder, GivenUpIsGone, QueueOnce
<1>6. HeldOnce'
  BY <1>1, <1>2 DEF HeldOnce
<1>7. Clocks' /\ OnlyMessages'
  BY <1>1, <1>4 DEF Clocks, OnlyMessages
<1>8. Watched'
  <2>1. LoopOpen => LoopOpen'
    <3>1. \A i \in 1 .. Len(stack) : stack[i].pc = "loop" => i # Len(stack)
      BY <1>2 DEF Top
    <3>2. \A i \in 1 .. Len(stack) : i # Len(stack) => i \in 1 .. Len(Pop)
      BY <1>2
    <3>. QED
      BY <1>1, <1>2, <3>1, <3>2 DEF LoopOpen
  <2>2. ~Running("loop")
    BY <1>2 DEF Running
  <2>. QED
    BY <1>1, <2>1, <2>2 DEF Watched
<1>. QED
  BY <1>3, <1>5, <1>6, <1>7, <1>8

\* A timer fires, armed or orphaned: at rest no client handler holds a tick,
\* so each tick it skips has already been consumed.
LEMMA TimerInv ==
  ASSUME IInv, NEW left \in Nat, stack = <<>>, TimerCallback(left)
  PROVE  IInv'
<1>. USE DEF IInv
<1>1. /\ timer' = FALSE /\ orphans' = left
      /\ UNCHANGED <<nextEventClock, eventQueue, delivered, consumed, firstTick>>
  BY DEF TimerCallback
<1>2. Held = {} /\ Ticks(Held) = {} /\ Len(stack) = 0 /\ ~LoopOpen /\ ~Running("loop")
  BY EmptySeq DEF Held, HeldIn, Ticks, LoopOpen, Running
<1>3. CASE eventQueue = {}
  <2>1. UNCHANGED <<eventClock, stack, givenUp>>
    BY <1>3 DEF TimerCallback
  <2>2. Held' = Held /\ Fired' = Fired
        /\ Ticks(Held)' = Ticks(Held) /\ Ticks(eventQueue)' = Ticks(eventQueue)
        /\ Ticks(Fired)' = Ticks(Fired) /\ Ticks(consumed)' = Ticks(consumed)
    BY <1>1, <2>1 DEF Held, Fired, Ticks
  <2>3. TypeOK'
    BY <1>1, <2>1 DEF TypeOK
  <2>4. EachTickOnce' /\ NoStateDropped' /\ DeliveredInOrder' /\ GivenUpIsGone' /\ QueueOnce'
    BY <1>1, <2>1, <2>2 DEF EachTickOnce, NoStateDropped, DeliveredInOrder, GivenUpIsGone, QueueOnce
  <2>5. HeldOnce' /\ Clocks' /\ OnlyMessages' /\ Watched'
    BY <1>1, <1>3, <2>1, <2>2 DEF HeldOnce, Clocks, OnlyMessages, Watched
  <2>. QED
    BY <2>3, <2>4, <2>5
<1>4. CASE eventQueue # {}
  <2>1. PICK e \in eventQueue :
          /\ IsFirst(e)
          /\ eventClock' = e.clock - 1
          /\ givenUp' = givenUp \cup (eventClock + 1 .. e.clock - 1)
          /\ stack' = <<[pc |-> "loop", ev |-> e]>>
    BY <1>4 DEF TimerCallback, Resume
  <2>. DEFINE f == [pc |-> "loop", ev |-> e]
  <2>2. /\ e \in Event /\ e.clock \in Nat \ {0} /\ e.clock > eventClock
        /\ e.clock <= nextEventClock /\ nextEventClock \in Nat /\ eventClock \in Nat \ {0}
        /\ firstTick \in 0 .. eventClock /\ f \in Frame
    <3>1. e.clock \in 1 .. nextEventClock
      BY DEF EachTickOnce, Ticks
    <3>2. eventClock # 0
      BY <1>2, <1>4 DEF Watched
    <3>. QED
      BY <3>1, <3>2, BoundsAssumption DEF TypeOK, Event, Clocks, Frame
  <2>3. /\ stack' \in Seq(Frame) /\ Len(stack') = 1 /\ stack'[1] = f /\ f.pc = "loop"
    BY <2>1, <2>2
  <2>. HIDE DEF f
  <2>4. Held' = {}
    BY <2>3 DEF Held, HeldIn
  <2>5. /\ Fired' = Fired /\ Ticks(Held)' = Ticks(Held)
        /\ Ticks(eventQueue)' = Ticks(eventQueue)
        /\ Ticks(Fired)' = Ticks(Fired) /\ Ticks(consumed)' = Ticks(consumed)
    BY <1>1, <1>2, <2>4 DEF Fired, Ticks
  <2>6. TypeOK'
    <3>1. eventClock' \in 0 .. nextEventClock' /\ firstTick' \in 0 .. eventClock'
      BY <1>1, <2>1, <2>2
    <3>2. givenUp' \subseteq Nat
      <4>1. (eventClock + 1 .. e.clock - 1) \subseteq Nat
        BY <2>2
      <4>. QED
        BY <2>1, <4>1 DEF TypeOK
    <3>. QED
      BY <1>1, <2>3, <3>1, <3>2 DEF TypeOK
  <2>7. EachTickOnce' /\ NoStateDropped' /\ DeliveredInOrder' /\ QueueOnce'
    BY <1>1, <2>5 DEF EachTickOnce, NoStateDropped, DeliveredInOrder, QueueOnce
  <2>8. HeldOnce'
    BY <2>3 DEF HeldOnce
  <2>9. \A i \in 1 .. Len(delivered) : delivered[i].clock <= eventClock /\ delivered[i].clock \in Nat
    <3>1. \A i \in 1 .. Len(delivered) : delivered[i] \in Event
      BY ElementOfSeq DEF TypeOK
    <3>. QED
      BY <3>1 DEF Event, Clocks
  <2>10. \A g \in eventQueue : g.clock >= e.clock /\ g.clock \in Nat
    BY <2>1, <2>2 DEF IsFirst, TypeOK, Event
  <2>11. Clocks'
    <3>1. \A g \in eventQueue' : g.clock > eventClock'
      BY <1>1, <2>1, <2>2, <2>10
    <3>2. \A i \in 1 .. Len(delivered') : delivered'[i].clock <= eventClock'
      BY <1>1, <2>1, <2>2, <2>9
    <3>3. firstTick' # 0 /\ eventClock' # 0
      BY <1>1, <2>1, <2>2 DEF Clocks
    <3>. QED
      BY <2>4, <3>1, <3>2, <3>3 DEF Clocks
  <2>12. OnlyMessages'
    BY <1>1, <2>4 DEF OnlyMessages
  <2>13. GivenUpIsGone'
    <3>1. ASSUME NEW t \in eventClock + 1 .. e.clock - 1 PROVE t \in Ticks(consumed)
      <4>1. t \in 1 .. nextEventClock /\ t > eventClock /\ t < e.clock
        BY <2>2
      <4>2. t \notin Ticks(eventQueue)
        BY <2>2, <2>10, <4>1 DEF Ticks
      <4>3. t \notin Ticks(Fired)
        BY <2>2, <2>9, <4>1 DEF Ticks, Fired
      <4>. QED
        BY <1>2, <4>1, <4>2, <4>3 DEF EachTickOnce
    <3>. QED
      BY <2>1, <2>5, <3>1 DEF GivenUpIsGone
  <2>14. Watched'
    <3>1. LoopOpen'
      BY <2>3 DEF LoopOpen
    <3>2. stack' # <<>> /\ stack'[Len(stack')].pc = "loop"
      BY <2>3, EmptySeq
    <3>3. Running("loop")'
      BY <3>2 DEF Running, Top
    <3>. QED
      BY <3>1, <3>3 DEF Watched
  <2>. QED
    BY <2>6, <2>7, <2>8, <2>11, <2>12, <2>13, <2>14
<1>. QED
  BY <1>3, <1>4

\* The invariant survives every step.
LEMMA NextInv == IInv /\ [Next]_vars => IInv'
<1>. SUFFICES ASSUME IInv, [Next]_vars PROVE IInv'
  OBVIOUS
<1>1. CASE StampMessage
  BY <1>1, StampInv
<1>2. ASSUME NEW handled \in BOOLEAN, PreHandled(handled) PROVE IInv'
  BY <1>2, StaleInv, EnqueueInv
<1>3. CASE PreHandleThrows
  BY <1>3, PreHandleThrowsInv
<1>4. CASE EmitState
  BY <1>4, EmitStateInv
<1>5. CASE LoopTake
  <2>1. PICK e \in eventQueue : IsFirst(e) /\ Take(e)
    BY <1>5 DEF LoopTake
  <2>. QED
    BY <1>5, <2>1, TakeHandledInv, TakeFireInv
<1>6. CASE LoopEnd
  BY <1>6, LoopEndInv
<1>7. CASE FireReturns
  BY <1>7, FireReturnsInv
<1>8. CASE TimerFires
  BY <1>8, TimerInv DEF TimerFires, IInv, TypeOK
<1>9. CASE OrphanFires
  <2>1. (IF timer THEN orphans ELSE orphans - 1) \in Nat
    BY <1>9 DEF OrphanFires, IInv, TypeOK
  <2>. QED
    BY <1>9, <2>1, TimerInv DEF OrphanFires
<1>10. CASE UNCHANGED vars
  <2>1. UNCHANGED <<Held, Fired, LoopOpen, Running("loop")>>
    BY <1>10 DEF vars, Held, HeldIn, Fired, LoopOpen, Running, Top
  <2>2. UNCHANGED <<Ticks(Held), Ticks(eventQueue), Ticks(Fired), Ticks(consumed)>>
    BY <1>10, <2>1 DEF vars, Ticks
  <2>3. TypeOK' /\ EachTickOnce'
    BY <1>10, <2>2 DEF vars, IInv, TypeOK, EachTickOnce
  <2>4. HeldOnce' /\ QueueOnce' /\ Clocks' /\ OnlyMessages'
    BY <1>10, <2>1 DEF vars, IInv, HeldOnce, QueueOnce, Clocks, OnlyMessages
  <2>5. Watched' /\ NoStateDropped' /\ DeliveredInOrder' /\ GivenUpIsGone'
    BY <1>10, <2>1, <2>2 DEF vars, IInv, Watched, NoStateDropped, DeliveredInOrder, GivenUpIsGone
  <2>. QED
    BY <2>3, <2>4, <2>5 DEF IInv
<1>. QED
  BY <1>1, <1>2, <1>3, <1>4, <1>5, <1>6, <1>7, <1>8, <1>9, <1>10 DEF Next

-----------------------------------------------------------------------------
LEMMA Invariance == Spec => []IInv
  BY InitInv, NextInv, PTL DEF Spec

\* The state of the queue keeps its types, for any bound on ticks and nesting.
THEOREM TypeCorrect == Spec => []TypeOK
<1>1. IInv => TypeOK
  BY DEF IInv
<1>. QED
  BY <1>1, Invariance, PTL

\* No event is lost, dropped or delivered twice (session.ts addToEventQueue,
\* processEventQueue), however emissions nest and timers are orphaned, and none
\* is delivered behind a later one but messages whose pre-handling began before
\* the loop took its first event.
THEOREM SettledInOrder == Spec => []SettledOnceInOrder
<1>1. IInv => SettledOnceInOrder
  BY DEF IInv, SettledOnceInOrder
<1>. QED
  BY <1>1, Invariance, PTL

\* The gap timer never gives up a tick that could still come, and a session at
\* rest with queued events has a timer armed to deliver them.
THEOREM GapsWatched == Spec => []GapsAreWatched
<1>1. IInv => GivenUpIsGone
  BY DEF IInv
<1>2. IInv => QueueIsWatched
  BY EmptySeq DEF IInv, Watched, QueueIsWatched, LoopOpen
<1>3. IInv => GapsAreWatched
  BY <1>1, <1>2 DEF GapsAreWatched
<1>. QED
  BY <1>3, Invariance, PTL

-----------------------------------------------------------------------------
\* The queue implements OrderedDelivery: every step of it is an issue, a settlement
\* or a stutter of the promise.

\* The promise's view of the state.
OpenView      == {Plain(e) : e \in Held \cup eventQueue}
DeliveredView == [i \in 1 .. Len(delivered) |-> Plain(delivered[i])]

Outstanding(events) == {Plain(e) : e \in events}
-----------------------------------------------------------------------------
\* The view of the deliveries grows by the view of the event delivered.
LEMMA ViewPush ==
  ASSUME NEW e \in Event, delivered \in Seq(Event), delivered' = Append(delivered, e)
  PROVE  DeliveredView' = Append(DeliveredView, Plain(e))
<1>1. /\ Len(delivered) \in Nat /\ Len(delivered') = Len(delivered) + 1
      /\ \A i \in 1 .. Len(delivered) : delivered'[i] = delivered[i]
      /\ delivered'[Len(delivered) + 1] = e
  BY FiredPush
<1>. DEFINE S == {Plain(x) : x \in Event}
            n == Len(delivered)
            d == DeliveredView
            p == Plain(e)
<1>2. d \in Seq(S) /\ Len(d) = n /\ \A i \in 1 .. n : d[i] = Plain(delivered[i])
  BY <1>1, FiredPush DEF DeliveredView
<1>3. p \in S
  OBVIOUS
<1>4. DeliveredView' \in Seq(S) /\ Len(DeliveredView') = n + 1
      /\ \A i \in 1 .. n + 1 : DeliveredView'[i] = Plain(delivered'[i])
  <2>1. \A i \in 1 .. n + 1 : Plain(delivered'[i]) \in S
    BY <1>1, FiredPush
  <2>. QED
    BY <1>1, <2>1 DEF DeliveredView
<1>5. \A i \in 1 .. n : DeliveredView'[i] = d[i]
  BY <1>1, <1>2, <1>4
<1>6. DeliveredView'[n + 1] = p
  BY <1>1, <1>4
<1>. HIDE DEF d, S, p
<1>7. /\ Append(d, p) \in Seq(S) /\ Len(Append(d, p)) = n + 1
      /\ \A i \in 1 .. n : Append(d, p)[i] = d[i]
      /\ Append(d, p)[n + 1] = p
  BY <1>1, <1>2, <1>3, AppendProperties
<1>8. DeliveredView' = Append(d, p)
  BY <1>1, <1>4, <1>5, <1>6, <1>7, SeqEqual
<1>. QED
  BY <1>8 DEF d, p

\* A step the promise does not see.
LEMMA Stutter ==
  ASSUME UNCHANGED <<nextEventClock, delivered, firstTick>>, UNCHANGED OpenView
  PROVE  UNCHANGED Promise!vars
  BY DEF OpenView, Promise!vars

\* An event takes its tick and is open.
LEMMA Issued ==
  ASSUME NEW kind \in Kinds,
         nextEventClock' = nextEventClock + 1,
         OpenView' = OpenView \cup {[clock |-> nextEventClock + 1, kind |-> kind]},
         UNCHANGED <<delivered, firstTick>>
  PROVE  Promise!Next
<1>1. Promise!Issue(kind)
  BY DEF Promise!Issue, OpenView
<1>. QED
  BY <1>1 DEF Promise!Next, Kinds

\* An open event is delivered.
LEMMA Delivers ==
  ASSUME IInv, NEW e \in Event, Plain(e) \in OpenView,
         OpenView' = OpenView \ {Plain(e)},
         delivered' = Append(delivered, e),
         \/ \A i \in 1 .. Len(delivered) : delivered[i].clock < e.clock
         \/ e.kind = "message" /\ e.clock < firstTick,
         firstTick' = IF firstTick = 0 THEN e.clock ELSE firstTick,
         UNCHANGED nextEventClock
  PROVE  Promise!Next
<1>1. DeliveredView' = Append(DeliveredView, Plain(e))
  BY ViewPush DEF IInv, TypeOK
<1>2. Plain(e).clock = e.clock /\ Plain(e).kind = e.kind
  BY DEF Plain
<1>3. /\ Len(DeliveredView) = Len(delivered)
      /\ \A i \in 1 .. Len(delivered) : DeliveredView[i].clock = delivered[i].clock
  <2>1. Len(delivered) \in Nat
    BY LenProperties DEF IInv, TypeOK
  <2>. QED
    BY <2>1 DEF DeliveredView, Plain
<1>4. Promise!InOrder(Plain(e))
  BY <1>2, <1>3 DEF Promise!InOrder, DeliveredView
<1>5. Promise!Deliver(Plain(e))
  BY <1>1, <1>2, <1>4 DEF Promise!Deliver, Promise!Opens, OpenView, DeliveredView
<1>. QED
  BY <1>5 DEF Promise!Next, Promise!Settle, OpenView

\* An open message ends without a delivery.
LEMMA Absorbs ==
  ASSUME NEW e \in Event, Plain(e) \in OpenView, e.kind = "message",
         OpenView' = OpenView \ {Plain(e)},
         firstTick' = firstTick \/ firstTick' = IF firstTick = 0 THEN e.clock ELSE firstTick,
         UNCHANGED <<nextEventClock, delivered>>
  PROVE  Promise!Next
<1>1. Plain(e).clock = e.clock /\ Plain(e).kind = e.kind
  BY DEF Plain
<1>2. Promise!Absorb(Plain(e))
  BY <1>1 DEF Promise!Absorb, Promise!Opens, OpenView
<1>. QED
  BY <1>2 DEF Promise!Next, Promise!Settle, OpenView

\* What the queue gives up is no longer open: no other event has its tick.
LEMMA Unqueued ==
  ASSUME IInv, NEW e \in eventQueue
  PROVE  Outstanding(Held \cup (eventQueue \ {e})) = OpenView \ {Plain(e)}
<1>1. \A x \in Held \cup (eventQueue \ {e}) : x.clock # e.clock
  BY DEF IInv, EachTickOnce, QueueOnce, Ticks
<1>. QED
  BY <1>1 DEF OpenView, Outstanding, Plain

\* Nor is what the adapter held and gives up.
LEMMA Released ==
  ASSUME IInv, Running("preHandle")
  PROVE  /\ Outstanding(HeldIn(Pop) \cup eventQueue) = OpenView \ {Plain(Top.ev)}
         /\ Plain(Top.ev) \in OpenView
<1>1. /\ Ticks(HeldIn(Pop)) = Ticks(Held) \ {Top.ev.clock} /\ Top.ev \in Held
      /\ Top.ev.clock \in Ticks(Held)
      /\ Held = HeldIn(Pop) \cup {Top.ev}
  BY ReleaseHeld, TopFacts DEF IInv
<1>2. Top.ev.clock \notin Ticks(HeldIn(Pop)) \cup Ticks(eventQueue)
  BY <1>1 DEF IInv, EachTickOnce
<1>3. \A x \in HeldIn(Pop) \cup eventQueue : x.clock # Top.ev.clock
  BY <1>2 DEF Ticks
<1>. QED
  BY <1>1, <1>3 DEF OpenView, Outstanding, Plain
-----------------------------------------------------------------------------
LEMMA StampIssues == IInv /\ StampMessage => Promise!Next
<1>. SUFFICES ASSUME IInv, StampMessage PROVE Promise!Next
  OBVIOUS
<1>. DEFINE ev == [clock |-> nextEventClock + 1, kind |-> "message", handled |-> FALSE]
            f == [pc |-> "preHandle", ev |-> ev]
<1>1. ev \in Event /\ f \in Frame /\ Plain(ev) = [clock |-> nextEventClock + 1, kind |-> "message"]
  BY DEF IInv, TypeOK, Event, Frame, Kinds, Plain
<1>2. Held' = Held \cup {ev}
  BY <1>1, HeldPush DEF StampMessage, Held, IInv, TypeOK
<1>3. OpenView' = OpenView \cup {[clock |-> nextEventClock + 1, kind |-> "message"]}
  BY <1>1, <1>2 DEF OpenView, StampMessage
<1>. QED
  BY <1>3, Issued DEF StampMessage, Kinds

LEMMA EmitIssues == IInv /\ EmitState => Promise!Next
<1>. SUFFICES ASSUME IInv, EmitState PROVE Promise!Next
  OBVIOUS
<1>. DEFINE ev == [clock |-> nextEventClock + 1, kind |-> "state", handled |-> FALSE]
            f == [pc |-> "loop", ev |-> ev]
<1>1. /\ ev \in Event /\ f \in Frame /\ Plain(ev) = [clock |-> nextEventClock + 1, kind |-> "state"]
      /\ f.pc # "preHandle" /\ ev.clock = nextEventClock + 1
  BY DEF IInv, TypeOK, Event, Frame, Kinds, Plain
<1>2. /\ stack' = Append(stack, f) /\ eventQueue' = eventQueue \cup {ev}
      /\ nextEventClock' = nextEventClock + 1 /\ UNCHANGED <<delivered, firstTick>>
  BY <1>1 DEF EmitState, AddToEventQueue, IInv, TypeOK
<1>. HIDE DEF ev, f
<1>3. Held' = Held
  BY <1>1, <1>2, PushOther DEF Held, IInv, TypeOK
<1>4. OpenView' = OpenView \cup {[clock |-> nextEventClock + 1, kind |-> "state"]}
  BY <1>1, <1>2, <1>3 DEF OpenView
<1>. QED
  BY <1>2, <1>4, Issued DEF Kinds

LEMMA ThrowAbsorbs == IInv /\ PreHandleThrows => Promise!Next
<1>. SUFFICES ASSUME IInv, PreHandleThrows PROVE Promise!Next
  OBVIOUS
<1>1. Running("preHandle") /\ stack' = Pop
      /\ UNCHANGED <<nextEventClock, eventQueue, delivered, firstTick>>
  BY DEF PreHandleThrows
<1>2. Top.ev \in Event /\ Top.ev \in Held /\ Top.ev.kind = "message"
  BY <1>1, TopFacts, ReleaseHeld DEF IInv, OnlyMessages
<1>3. OpenView' = OpenView \ {Plain(Top.ev)} /\ Plain(Top.ev) \in OpenView
  BY <1>1, Released DEF OpenView, Outstanding, Held
<1>. QED
  BY <1>1, <1>2, <1>3, Absorbs

\* A pre-handled message is late and delivered at once, or enters the queue,
\* where it is as open as before.
LEMMA PreHandledSettles ==
  ASSUME IInv, NEW handled \in BOOLEAN, PreHandled(handled)
  PROVE  Promise!Next \/ UNCHANGED Promise!vars
<1>. DEFINE ev == [Top.ev EXCEPT !.handled = handled]
<1>1. Running("preHandle")
  BY DEF PreHandled
<1>2. /\ Pop \in Seq(Frame) /\ Top.ev \in Event /\ Top.ev \in Held /\ Top.ev.kind = "message"
      /\ Held = HeldIn(Pop) \cup {Top.ev}
  BY <1>1, TopFacts, ReleaseHeld DEF IInv, OnlyMessages
<1>3. /\ ev \in Event /\ ev.clock = Top.ev.clock /\ ev.kind = "message"
      /\ Plain(ev) = Plain(Top.ev)
  BY <1>2 DEF Event, Plain
<1>4. CASE Top.ev.clock <= eventClock
  <2>. DEFINE f == [pc |-> "fire", ev |-> ev]
  <2>1. f \in Frame /\ f.pc # "preHandle"
    BY <1>3 DEF Frame
  <2>2. /\ stack' = Append(Pop, f) /\ delivered' = Append(delivered, ev)
        /\ UNCHANGED <<nextEventClock, eventQueue, firstTick>>
    BY <1>3, <1>4 DEF PreHandled, AddToEventQueue
  <2>. HIDE DEF ev, f
  <2>3. Held' = HeldIn(Pop)
    BY <1>2, <2>1, <2>2, PushOther DEF Held
  <2>4. OpenView' = OpenView \ {Plain(ev)} /\ Plain(ev) \in OpenView
    BY <1>1, <1>3, <2>2, <2>3, Released DEF OpenView, Outstanding
  <2>5. ev.clock < firstTick /\ firstTick # 0
    BY <1>2, <1>3, <1>4 DEF IInv, Clocks, Event, TypeOK
  <2>. QED
    BY <1>3, <2>2, <2>4, <2>5, Delivers
<1>5. CASE ~(Top.ev.clock <= eventClock)
  <2>. DEFINE f == [pc |-> "loop", ev |-> ev]
  <2>1. f \in Frame /\ f.pc # "preHandle"
    BY <1>3 DEF Frame
  <2>2. /\ stack' = Append(Pop, f) /\ eventQueue' = eventQueue \cup {ev}
        /\ UNCHANGED <<nextEventClock, delivered, firstTick>>
    BY <1>3, <1>5 DEF PreHandled, AddToEventQueue
  <2>. HIDE DEF ev, f
  <2>3. Held' = HeldIn(Pop)
    BY <1>2, <2>1, <2>2, PushOther DEF Held
  <2>4. OpenView' = OpenView
    BY <1>2, <1>3, <2>2, <2>3 DEF OpenView
  <2>. QED
    BY <2>2, <2>4, Stutter
<1>. QED
  BY <1>4, <1>5

LEMMA TakeSettles ==
  ASSUME IInv, NEW e \in eventQueue, Running("loop"), Take(e), UNCHANGED nextEventClock
  PROVE  Promise!Next
<1>1. e \in Event /\ e.clock > eventClock /\ Plain(e) \in OpenView
      /\ e.clock \in Nat /\ eventClock \in Nat
  BY DEF IInv, TypeOK, Clocks, OpenView, Event
<1>2. eventQueue' = eventQueue \ {e}
      /\ firstTick' = IF firstTick = 0 THEN e.clock ELSE firstTick
  BY DEF Take
<1>3. CASE e.handled
  <2>1. UNCHANGED <<delivered, stack>>
    BY <1>3 DEF Take
  <2>2. Held' = Held
    BY <2>1 DEF Held
  <2>3. OpenView' = OpenView \ {Plain(e)}
    BY <1>2, <2>2, Unqueued DEF OpenView, Outstanding
  <2>4. e.kind = "message"
    BY <1>3 DEF IInv, OnlyMessages
  <2>. QED
    BY <1>1, <1>2, <2>1, <2>3, <2>4, Absorbs
<1>4. CASE ~e.handled
  <2>. DEFINE f == [pc |-> "fire", ev |-> e]
  <2>1. delivered' = Append(delivered, e) /\ stack' = Append(stack, f)
        /\ f \in Frame /\ f.pc # "preHandle"
    BY <1>1, <1>4 DEF Take, Frame
  <2>. HIDE DEF f
  <2>2. Held' = Held
    BY <2>1, PushOther DEF Held, IInv, TypeOK
  <2>3. OpenView' = OpenView \ {Plain(e)}
    BY <1>2, <2>2, Unqueued DEF OpenView, Outstanding
  <2>4. \A i \in 1 .. Len(delivered) : delivered[i].clock < e.clock
    <3>1. \A i \in 1 .. Len(delivered) : delivered[i] \in Event /\ delivered[i].clock <= eventClock
      BY ElementOfSeq DEF IInv, TypeOK, Clocks
    <3>. QED
      BY <1>1, <3>1 DEF Event
  <2>. QED
    BY <1>1, <1>2, <2>1, <2>3, <2>4, Delivers
<1>. QED
  BY <1>3, <1>4

\* The end of a loop or of the listeners takes a frame that holds no event.
LEMMA PopStutters ==
  ASSUME IInv, NEW pc \in {"loop", "fire"}, Running(pc), stack' = Pop,
         UNCHANGED <<nextEventClock, eventQueue, delivered, firstTick>>
  PROVE  UNCHANGED Promise!vars
<1>1. Held' = Held
  BY TopFacts DEF IInv, Held
<1>2. OpenView' = OpenView
  BY <1>1 DEF OpenView
<1>. QED
  BY <1>2, Stutter

\* A timer moves the clock and nothing the promise speaks of.
LEMMA TimerStutters ==
  ASSUME NEW left, stack = <<>>, TimerCallback(left)
  PROVE  UNCHANGED Promise!vars
<1>1. Held = {}
  BY DEF Held, HeldIn
<1>2. Held' = {}
  <2>1. CASE eventQueue = {}
    BY <1>1, <2>1 DEF TimerCallback, Held
  <2>2. CASE eventQueue # {}
    <3>1. PICK e \in eventQueue : stack' = <<[pc |-> "loop", ev |-> e]>>
      BY <2>2 DEF TimerCallback, Resume
    <3>2. Len(stack') = 1 /\ stack'[1].pc = "loop"
      BY <3>1
    <3>. QED
      BY <3>2 DEF Held, HeldIn
  <2>. QED
    BY <2>1, <2>2
<1>3. OpenView' = OpenView
  BY <1>1, <1>2 DEF OpenView, TimerCallback
<1>. QED
  BY <1>3, Stutter DEF TimerCallback

LEMMA InitView == Init => Promise!Init
<1>. SUFFICES ASSUME Init PROVE Promise!Init
  OBVIOUS
<1>1. Held = {} /\ eventQueue = {} /\ Len(delivered) = 0 /\ delivered = <<>>
  BY DEF Init, Held, HeldIn
<1>2. OpenView = {} /\ DeliveredView = <<>>
  BY <1>1 DEF OpenView, DeliveredView
<1>. QED
  BY <1>2 DEF Init, Promise!Init, OpenView, DeliveredView

LEMMA StepView == IInv /\ [Next]_vars => [Promise!Next]_(Promise!vars)
<1>. SUFFICES ASSUME IInv, [Next]_vars PROVE Promise!Next \/ UNCHANGED Promise!vars
  OBVIOUS
<1>1. CASE StampMessage
  BY <1>1, StampIssues
<1>2. ASSUME NEW handled \in BOOLEAN, PreHandled(handled)
      PROVE  Promise!Next \/ UNCHANGED Promise!vars
  BY <1>2, PreHandledSettles
<1>3. CASE PreHandleThrows
  BY <1>3, ThrowAbsorbs
<1>4. CASE EmitState
  BY <1>4, EmitIssues
<1>5. CASE LoopTake
  <2>1. PICK e \in eventQueue : Take(e)
    BY <1>5 DEF LoopTake
  <2>. QED
    BY <1>5, <2>1, TakeSettles DEF LoopTake
<1>6. CASE LoopEnd
  BY <1>6, PopStutters DEF LoopEnd
<1>7. CASE FireReturns
  BY <1>7, PopStutters DEF FireReturns
<1>8. CASE TimerFires \/ OrphanFires
  BY <1>8, TimerStutters DEF TimerFires, OrphanFires
<1>9. CASE UNCHANGED vars
  <2>1. OpenView' = OpenView
    BY <1>9 DEF vars, OpenView, Held, HeldIn
  <2>. QED
    BY <1>9, <2>1, Stutter DEF vars
<1>. QED
  BY <1>1, <1>2, <1>3, <1>4, <1>5, <1>6, <1>7, <1>8, <1>9 DEF Next

\* The queue of session.ts:565-672, with its clock, nested loops and timers,
\* implements the promise of OrderedDelivery.
THEOREM QueueImplementsPromise == Spec => ImplementsPromise
<1>1. Init => Promise!Init
  BY InitView
<1>2. IInv /\ [Next]_vars => [Promise!Next]_(Promise!vars)
  BY StepView
<1>. QED
  BY <1>1, <1>2, Invariance, PTL DEF Spec, ImplementsPromise, Promise!Spec
=============================================================================
