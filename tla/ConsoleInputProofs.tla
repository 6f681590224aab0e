-------------------------- MODULE ConsoleInputProofs --------------------------
(***************************************************************************)
(* The input of a console, for any number of inputs, losses of the session *)
(* and background requests.  TLC agrees that the invariant is one on the   *)
(* instance of ConsoleInput.cfg.                                           *)
(***************************************************************************)
EXTENDS ConsoleInput, SequenceTheorems, TLAPS

Consoles ==
  [attached : BOOLEAN, disposed : BOOLEAN, state : {"idle", "busy", "off"},
   queue : Seq(Inputs), inputState : {"Idle", "Processing", "Interrupted"},
   canceller : Inputs \cup {None, Pass},
   cancelled : SUBSET (Inputs \cup {Pass}), stale : SUBSET Inputs,
   busyId : Inputs \cup {None}, interactive : BOOLEAN,
   enqueueCheck : BOOLEAN, drain : BOOLEAN]

Interactive(i) == InLine(kind[i])

\* The fields of an instance agree with the pass and the calls (FramesType).
FramesFit(c, ca, p) ==
  /\ p = NoPass \/ (p.pc \in {"check", "execute"} /\ p.input \in Inputs)
  /\ c.canceller = Pass => p.pc = "check"
  /\ (c.inputState = "Idle") <=> (p = NoPass)
  /\ c.enqueueCheck => \E i \in Inputs : ca[i] \in {"prepare", "check"}

\* A call that the user sees is the one that can be cancelled, or has been; and
\* none can while the queue is worked on.
CallsFit(c, ca, kd) ==
  /\ \A i \in Inputs : ca[i] # "none" => ((ca[i] = "background") <=> kd[i].background)
  /\ \A i \in Inputs : (ca[i] # "none" /\ ~kd[i].background) =>
       IF i \in c.stale THEN i \in c.cancelled ELSE c.canceller = i
  /\ \A i \in c.stale : ca[i] # "none" /\ c.canceller # i
  /\ c.canceller \in Inputs => ca[c.canceller] \notin {"none", "background"}
  /\ c.inputState = "Processing" => c.canceller \notin Inputs

\* An input is where its life says.
LivesFit ==
  /\ \A i \in Inputs : life[i] = "open" => (InQueue(i) <=> call[i] = "none")
  /\ \A i \in Inputs : InQueue(i) => life[i] = "open"
  /\ \A i \in Inputs : call[i] \notin {"none", "accepted"} => life[i] = "open"
  /\ \A i \in Inputs : call[i] = "accepted" => life[i] \notin {"new", "open"}
  /\ \A k \in DOMAIN sent : life[sent[k]] \notin {"new", "open"}
  /\ \A k, l \in DOMAIN sent : sent[k] = sent[l] => k = l
  /\ \A i, j \in Inputs : (i < j /\ life[j] # "new") => life[i] # "new"

\* What waits does so in order, and after what has been handed over; and what the
\* user has submitted and is being checked goes before what waits.
OrderFits ==
  /\ \A k, l \in DOMAIN con.queue : k < l => con.queue[k] < con.queue[l]
  /\ \A k \in DOMAIN sent : \A i \in Inputs :
       (Interactive(sent[k]) /\ Interactive(i) /\ life[i] = "open" /\ i \notin con.stale)
         => sent[k] < i
  /\ \A i \in Inputs : \A k \in DOMAIN con.queue :
       (/\ call[i] \notin {"none", "accepted"} /\ i \notin con.stale
        /\ Interactive(i) /\ Interactive(con.queue[k])) => i < con.queue[k]
  /\ SentInOrder

\* Nothing is under way that will go on with the queue.
Resting ==
  /\ ~con.drain /\ con.attached /\ con.state = "idle" /\ ~con.disposed
  /\ pass.pc = "none" /\ con.canceller = None /\ con.busyId = None

Served ==
  (Resting /\ con.queue # <<>> /\ ~stalled) =>
    \E i \in Inputs : life[i] \in {"handed", "kernel", "busy"} \/ call[i] # "none"

Types  == FieldsType /\ FramesFit(con, call, pass)
Frames == Types /\ CallsFit(con, call, kind)
Waits  == LivesFit /\ OrderFits
Inv    == Frames /\ Waits /\ Served

USE BoundsAssumption

LEMMA Sentinels ==
  /\ None \notin Inputs /\ Pass \notin Inputs /\ None # Pass
  /\ Inputs \subseteq Nat /\ None \in Nat
BY DEF Inputs, None, Pass

\* What is in a sequence of inputs.
LEMMA Members ==
  \A q \in Seq(Inputs) : \A k \in DOMAIN q : k \in Nat /\ q[k] \in Inputs /\ q[k] \in Nat
<1> SUFFICES ASSUME NEW q \in Seq(Inputs), NEW k \in DOMAIN q
             PROVE  k \in Nat /\ q[k] \in Inputs /\ q[k] \in Nat
  OBVIOUS
<1>1. Len(q) \in Nat /\ k \in 1 .. Len(q)
  BY LenProperties
<1>2. q[k] \in Inputs
  BY <1>1, ElementOfSeq
<1>3. k \in Nat
  BY <1>1
<1>. QED
  BY <1>2, <1>3, Sentinels

LEMMA InitHolds == Init => Inv
<1> SUFFICES ASSUME Init PROVE Inv
  OBVIOUS
<1> USE Sentinels DEF Init
<1>1. FieldsType
  <2>1. con \in Consoles
    BY DEF Consoles
  <2>2. pass \in [pc : {"none", "check", "execute"}, input : Inputs \cup {None}]
    BY DEF NoPass
  <2>3. call \in [Inputs -> Calls] /\ life \in [Inputs -> Lives]
    BY DEF Calls, Lives
  <2>4. kind \in [Inputs -> [background : BOOLEAN, verified : BOOLEAN, blank : BOOLEAN]]
        /\ rest \in [Inputs -> Inputs \cup {None}]
    OBVIOUS
  <2>5. sent \in Seq(Inputs)
    OBVIOUS
  <2>7. stalled \in BOOLEAN
    OBVIOUS
  <2>6. losses \in 0 .. MaxLosses
    BY BoundsAssumption
  <2>. QED
    BY <2>1, <2>2, <2>3, <2>4, <2>5, <2>6, <2>7 DEF FieldsType, Consoles
<1>2. FramesFit(con, call, pass) /\ CallsFit(con, call, kind)
  BY DEF FramesFit, CallsFit, NoPass
<1>3. LivesFit
  BY DEF LivesFit, InQueue
<1>4. OrderFits
  BY DEF OrderFits, SentInOrder
<1>5. Served
  BY DEF Served, Resting
<1>. QED
  BY <1>1, <1>2, <1>3, <1>4, <1>5 DEF Inv, Frames, Types, Waits

\* What the properties need of the invariant.
LEMMA InvSuffices == Inv => TypeOK /\ InputsAreKept
<1> SUFFICES ASSUME Inv PROVE TypeOK /\ InputsAreKept
  OBVIOUS
<1> USE Sentinels DEF Inv, Frames, Types, Waits
<1>1. FramesType
  <2>1. con.canceller \in Inputs => call[con.canceller] # "none"
    BY DEF CallsFit
  <2>2. con.canceller = Pass => pass.pc = "check"
    BY DEF FramesFit
  <2>3. con.inputState = "Idle" <=> pass = NoPass
    BY DEF FramesFit
  <2>4. con.enqueueCheck => \E i \in Inputs : call[i] \in {"prepare", "check"}
    BY DEF FramesFit
  <2>. QED
    BY <2>1, <2>2, <2>3, <2>4 DEF FramesType
<1>2. NothingLostOrTwice
  <2>1. \A k, l \in DOMAIN con.queue : con.queue[k] = con.queue[l] => k = l
    <3> SUFFICES ASSUME NEW k \in DOMAIN con.queue, NEW l \in DOMAIN con.queue,
                        con.queue[k] = con.queue[l]
                 PROVE  k = l
      OBVIOUS
    <3>1. con.queue \in Seq(Inputs)
      BY DEF FieldsType
    <3>2. k \in Nat /\ l \in Nat /\ con.queue[k] \in Nat /\ con.queue[l] \in Nat
      BY <3>1, Members
    <3>3. ~(k < l) /\ ~(l < k)
      BY <3>2 DEF OrderFits
    <3>. QED
      BY <3>2, <3>3
  <2>. QED
    BY <2>1 DEF LivesFit, NothingLostOrTwice
<1>3. SentInOrder
  BY DEF OrderFits
<1>4. QueueIsServed
  BY DEF Served, Resting, QueueIsServed, AtRest, Calm
<1>. QED
  BY <1>1, <1>2, <1>3, <1>4 DEF TypeOK, InputsAreKept

-----------------------------------------------------------------------------
(* The instance and what it becomes *)

\* d is x, or x with the head of its queue being processed.
Onward(x, d) ==
  /\ d \in Consoles
  /\ d.attached = x.attached /\ d.disposed = x.disposed /\ d.state = x.state
  /\ d.queue = x.queue /\ d.cancelled = x.cancelled /\ d.stale = x.stale
  /\ d.busyId = x.busyId /\ d.interactive = x.interactive
  /\ d.enqueueCheck = x.enqueueCheck /\ d.drain = x.drain
  /\ \/ d = x
     \/ /\ MayProcess(x)
        /\ d.inputState = "Processing" /\ d.canceller \in {None, Pass}

\* Process does so if it may.
LEMMA ProcessGoesOn ==
  \A x \in Consoles :
    /\ Onward(x, Process(x))
    /\ MayProcess(x) => Process(x).inputState = "Processing"
<1> SUFFICES ASSUME NEW x \in Consoles
             PROVE  /\ Onward(x, Process(x))
                    /\ MayProcess(x) => Process(x).inputState = "Processing"
  OBVIOUS
<1>1. CASE ~MayProcess(x)
  BY <1>1 DEF Process, Onward
<1>2. CASE MayProcess(x)
  <2>1. PICK h \in {None, Pass} : h = IF Cancellable(Head(x.queue)) THEN Pass ELSE None
    OBVIOUS
  <2>2. Process(x) = [x EXCEPT !.inputState = "Processing", !.canceller = h]
    BY <1>2, <2>1 DEF Process
  <2>. QED
    BY <1>2, <2>2 DEF Consoles, Onward
<1>. QED
  BY <1>1, <1>2

LEMMA DrainGoesOn ==
  \A x \in Consoles :
    /\ Onward(x, Drain(x))
    /\ (~x.disposed /\ x.state = "idle" /\ MayProcess(x)) => Drain(x).inputState = "Processing"
BY ProcessGoesOn DEF Drain, Onward

\* The frame of a pass that may begin.
PassFrom(p, x, d) ==
  IF x.inputState = "Idle" /\ d.inputState = "Processing"
    THEN [pc |-> "check", input |-> Head(d.queue)] ELSE p

\* Going on keeps the fields in agreement.
LEMMA FramesGoOn ==
  ASSUME NEW x \in Consoles, NEW d, Onward(x, d), NEW ca, NEW kd, NEW p,
         FramesFit(x, ca, p), CallsFit(x, ca, kd)
  PROVE  FramesFit(d, ca, PassFrom(p, x, d)) /\ CallsFit(d, ca, kd)
<1> USE Sentinels
<1>1. CASE d = x
  BY <1>1 DEF PassFrom
<1>2. CASE MayProcess(x) /\ d.inputState = "Processing" /\ d.canceller \in {None, Pass}
  <2>1. x.inputState = "Idle" /\ x.queue \in Seq(Inputs) /\ x.queue # <<>>
        /\ x.canceller = None
    BY <1>2 DEF MayProcess, InProgress, Consoles
  <2>2. Head(d.queue) \in Inputs
    BY <2>1 DEF Onward
  <2>3. PassFrom(p, x, d) = [pc |-> "check", input |-> Head(d.queue)]
    BY <1>2, <2>1 DEF PassFrom
  <2>4. FramesFit(d, ca, PassFrom(p, x, d))
    BY <1>2, <2>1, <2>2, <2>3 DEF FramesFit, NoPass, Onward
  <2>5. d.stale = x.stale /\ d.cancelled = x.cancelled /\ x.stale \subseteq Inputs
    BY DEF Onward, Consoles
  <2>6. \A i \in Inputs : (ca[i] # "none" /\ ~kd[i].background) => i \in x.stale
    BY <2>1 DEF CallsFit
  <2>7. CallsFit(d, ca, kd)
    BY <1>2, <2>1, <2>5, <2>6 DEF CallsFit
  <2>. QED
    BY <2>4, <2>7
<1>. QED
  BY <1>1, <1>2 DEF Onward

\* What a step that lets the instance go on keeps; and then input does not wait for
\* nothing.
LEMMA GoesOn ==
  ASSUME NEW x \in Consoles, x.inputState = con.inputState, Onward(x, con'),
         pass' = PassOf(con, con'),
         FramesFit(x, call', pass), CallsFit(x, call', kind')
  PROVE  FramesFit(con', call', pass') /\ CallsFit(con', call', kind')
<1>1. pass' = PassFrom(pass, x, con')
  BY DEF PassFrom, PassOf
<1>. QED
  BY <1>1, FramesGoOn

\* Had it not gone on although it is at rest with input, a check of enqueueCode
\* would be under way.
LEMMA NotStranded ==
  ASSUME NEW x \in Consoles, FieldsType', Onward(x, con'),
         FramesFit(con', call', pass'),
         (~x.disposed /\ x.state = "idle" /\ MayProcess(x)) => con'.inputState = "Processing"
  PROVE  Served'
<1> SUFFICES ASSUME Resting', (con.queue # <<>>)'
             PROVE  (\E i \in Inputs : life[i] \in {"handed", "kernel", "busy"} \/ call[i] # "none")'
  BY DEF Served
<1> USE Sentinels
<1>1. con'.attached /\ con'.state = "idle" /\ ~con'.disposed /\ pass'.pc = "none"
      /\ con'.canceller = None /\ con'.busyId = None /\ con'.queue # <<>>
  BY DEF Resting
<1>2. con'.inputState = "Idle"
  BY <1>1 DEF FramesFit, NoPass
<1>3. con' = x
  BY <1>2 DEF Onward
<1>4. ~MayProcess(x)
  BY <1>1, <1>2, <1>3
<1>5. con'.enqueueCheck
  BY <1>1, <1>2, <1>3, <1>4 DEF MayProcess, InProgress
<1>6. \E i \in Inputs : call'[i] \in {"prepare", "check"}
  BY <1>5 DEF FramesFit
<1>. QED
  BY <1>6

-----------------------------------------------------------------------------
(* Calls that end, and are cancelled *)

\* The fields of d that say whose turn it is are those of c.
SameTurn(c, d) ==
  /\ d.attached = c.attached /\ d.disposed = c.disposed /\ d.state = c.state
  /\ d.queue = c.queue /\ d.inputState = c.inputState
  /\ d.busyId = c.busyId /\ d.interactive = c.interactive /\ d.drain = c.drain

\* What submitCode and enqueueCode leave before they let the queue go on.
SubmitEnded(c, i) ==
  [c EXCEPT !.canceller = IF i \in con.stale THEN @ ELSE None,
            !.cancelled = @ \ {i}, !.stale = @ \ {i}]

EnqueueEnded(c, i) ==
  [c EXCEPT !.canceller = IF @ = i THEN None ELSE @,
            !.enqueueCheck = IF kind[i].background THEN @ ELSE FALSE,
            !.cancelled = @ \ {i}, !.stale = @ \ {i}]

LEMMA SubmitEndsWith ==
  ASSUME NEW c \in Consoles, NEW i \in Inputs, NEW kd, NEW p,
         c.stale = con.stale, call \in [Inputs -> Calls],
         call[i] \in {"boundaries", "supervisor", "accepted"},
         FramesFit(c, call, p), CallsFit(c, call, kd)
  PROVE  LET x == SubmitEnded(c, i)
             ca == [call EXCEPT ![i] = "none"]
         IN  /\ x \in Consoles /\ SameTurn(c, x) /\ x.stale = c.stale \ {i}
             /\ FramesFit(x, ca, p) /\ CallsFit(x, ca, kd)
<1> DEFINE x  == SubmitEnded(c, i)
           ca == [call EXCEPT ![i] = "none"]
<1> USE Sentinels
<1>1. PICK h \in Inputs \cup {None, Pass} :
        h = IF i \in con.stale THEN c.canceller ELSE None
  BY DEF Consoles
<1>9. PICK cn \in SUBSET (Inputs \cup {Pass}) : cn = c.cancelled \ {i}
  BY DEF Consoles
<1>10. PICK st \in SUBSET Inputs : st = c.stale \ {i}
  BY DEF Consoles
<1>2. x = [c EXCEPT !.canceller = h, !.cancelled = cn, !.stale = st]
  BY <1>1, <1>9, <1>10 DEF SubmitEnded, Consoles
<1>3. x \in Consoles /\ SameTurn(c, x) /\ x.stale = c.stale \ {i}
      /\ x.cancelled = c.cancelled \ {i} /\ x.canceller = h /\ x.enqueueCheck = c.enqueueCheck
  <2>1. x \in Consoles
    BY <1>2 DEF Consoles
  <2>2. x.stale = st /\ x.cancelled = cn /\ x.canceller = h /\ x.enqueueCheck = c.enqueueCheck
    BY <1>2 DEF Consoles
  <2>3. SameTurn(c, x)
    BY <1>2 DEF Consoles, SameTurn
  <2>. QED
    BY <1>9, <1>10, <2>1, <2>2, <2>3
<1>4. ca[i] = "none" /\ \A j \in Inputs : j # i => ca[j] = call[j]
  BY DEF Calls
<1>5. FramesFit(x, ca, p)
  BY <1>1, <1>3, <1>4 DEF FramesFit, SameTurn
<1>6. ~kd[i].background
  BY DEF CallsFit
<1>7. CallsFit(x, ca, kd)
  <2>1. \A j \in Inputs : ca[j] # "none" => ((ca[j] = "background") <=> kd[j].background)
    BY <1>4 DEF CallsFit
  <2>2. \A j \in Inputs : (ca[j] # "none" /\ ~kd[j].background) =>
          IF j \in x.stale THEN j \in x.cancelled ELSE x.canceller = j
    BY <1>1, <1>3, <1>4, <1>6 DEF CallsFit
  <2>3. \A j \in x.stale : ca[j] # "none" /\ x.canceller # j
    <3> SUFFICES ASSUME NEW j \in x.stale PROVE ca[j] # "none" /\ x.canceller # j
      OBVIOUS
    <3>1. j \in c.stale /\ j # i /\ j \in Inputs
      BY <1>3 DEF Consoles
    <3>2. call[j] # "none" /\ c.canceller # j
      BY <3>1 DEF CallsFit
    <3>. QED
      BY <1>1, <1>3, <1>4, <3>1, <3>2
  <2>4. x.canceller \in Inputs => ca[x.canceller] \notin {"none", "background"}
    BY <1>1, <1>3, <1>4 DEF CallsFit
  <2>5. x.inputState = "Processing" => x.canceller \notin Inputs
    BY <1>1, <1>3 DEF CallsFit, SameTurn
  <2>. QED
    BY <2>1, <2>2, <2>3, <2>4, <2>5 DEF CallsFit
<1>. QED
  BY <1>3, <1>5, <1>7

LEMMA EnqueueEndsWith ==
  ASSUME NEW c \in Consoles, NEW i \in Inputs, NEW kd, NEW p,
         kd[i].background = kind[i].background, call \in [Inputs -> Calls],
         kind \in [Inputs -> [background : BOOLEAN, verified : BOOLEAN, blank : BOOLEAN]],
         call[i] \in {"prepare", "check", "background"},
         FramesFit(c, call, p), CallsFit(c, call, kd)
  PROVE  LET x == EnqueueEnded(c, i)
             ca == [call EXCEPT ![i] = "none"]
         IN  /\ x \in Consoles /\ SameTurn(c, x) /\ x.stale = c.stale \ {i}
             /\ FramesFit(x, ca, p) /\ CallsFit(x, ca, kd)
<1> DEFINE x  == EnqueueEnded(c, i)
           ca == [call EXCEPT ![i] = "none"]
<1> USE Sentinels
<1>1. PICK h \in Inputs \cup {None, Pass} :
        h = IF c.canceller = i THEN None ELSE c.canceller
  BY DEF Consoles
<1>9. PICK cn \in SUBSET (Inputs \cup {Pass}) : cn = c.cancelled \ {i}
  BY DEF Consoles
<1>10. PICK st \in SUBSET Inputs : st = c.stale \ {i}
  BY DEF Consoles
<1>2. PICK e \in BOOLEAN : e = IF kind[i].background THEN c.enqueueCheck ELSE FALSE
  BY DEF Consoles
<1>3. x = [c EXCEPT !.canceller = h, !.enqueueCheck = e,
                    !.cancelled = cn, !.stale = st]
  BY <1>1, <1>2, <1>9, <1>10 DEF EnqueueEnded, Consoles
<1>4. x \in Consoles /\ SameTurn(c, x) /\ x.stale = c.stale \ {i}
      /\ x.cancelled = c.cancelled \ {i} /\ x.canceller = h /\ x.enqueueCheck = e
  <2>1. x \in Consoles
    <3>1. PICK y \in Consoles : y = [c EXCEPT !.canceller = h, !.enqueueCheck = e]
      BY DEF Consoles
    <3>2. x = [y EXCEPT !.cancelled = cn, !.stale = st]
      BY <1>3, <3>1 DEF Consoles
    <3>. QED
      BY <3>2 DEF Consoles
  <2>2. x.stale = st /\ x.cancelled = cn /\ x.canceller = h /\ x.enqueueCheck = e
    BY <1>3 DEF Consoles
  <2>3. SameTurn(c, x)
    BY <1>3 DEF Consoles, SameTurn
  <2>. QED
    BY <1>9, <1>10, <2>1, <2>2, <2>3
<1>5. ca[i] = "none" /\ \A j \in Inputs : j # i => ca[j] = call[j]
  BY DEF Calls
<1>6. (call[i] = "background") <=> kind[i].background
  BY DEF CallsFit
<1>7. FramesFit(x, ca, p)
  <2>1. e => \E j \in Inputs : ca[j] \in {"prepare", "check"}
    BY <1>2, <1>5, <1>6 DEF FramesFit
  <2>. QED
    BY <1>1, <1>4, <2>1 DEF FramesFit, SameTurn
<1>8. CallsFit(x, ca, kd)
  <2>1. \A j \in Inputs : ca[j] # "none" => ((ca[j] = "background") <=> kd[j].background)
    BY <1>5 DEF CallsFit
  <2>2. \A j \in Inputs : (ca[j] # "none" /\ ~kd[j].background) =>
          IF j \in x.stale THEN j \in x.cancelled ELSE x.canceller = j
    BY <1>1, <1>4, <1>5 DEF CallsFit
  <2>3. \A j \in x.stale : ca[j] # "none" /\ x.canceller # j
    BY <1>1, <1>4, <1>5 DEF CallsFit, Consoles
  <2>4. x.canceller \in Inputs => ca[x.canceller] \notin {"none", "background"}
    BY <1>1, <1>4, <1>5 DEF CallsFit
  <2>5. x.inputState = "Processing" => x.canceller \notin Inputs
    BY <1>1, <1>4 DEF CallsFit, SameTurn
  <2>. QED
    BY <2>1, <2>2, <2>3, <2>4, <2>5 DEF CallsFit
<1>. QED
  BY <1>4, <1>7, <1>8

\* After a cancellation nothing can be cancelled any more, and what is checked is
\* stale.
LEMMA Cancels ==
  ASSUME NEW c \in Consoles, NEW kd, NEW p, call \in [Inputs -> Calls],
         FramesFit(c, call, p), CallsFit(c, call, kd)
  PROVE  LET x == CancelSubmission(c)
         IN  /\ x \in Consoles /\ x.canceller = None /\ c.stale \subseteq x.stale
             /\ x.attached = c.attached /\ x.disposed = c.disposed /\ x.state = c.state
             /\ x.queue = c.queue /\ x.inputState = c.inputState
             /\ InProgress(c) => x.drain
             /\ FramesFit(x, call, p) /\ CallsFit(x, call, kd)
<1> DEFINE x == CancelSubmission(c)
<1> USE Sentinels
<1>1. CASE ~InProgress(c)
  <2>1. x = c /\ c.canceller = None
    BY <1>1 DEF CancelSubmission, InProgress
  <2>. QED
    BY <1>1, <2>1
<1>2. CASE InProgress(c)
  <2>1. PICK b \in Inputs \cup {None} : b = IF c.interactive THEN None ELSE c.busyId
    BY DEF Consoles
  <2>2. PICK st \in SUBSET Inputs : st = {i \in Inputs : call[i] # "none"}
    OBVIOUS
  <2>3. PICK cn \in SUBSET (Inputs \cup {Pass}) : cn = c.cancelled \cup ({c.canceller} \ {None})
    BY DEF Consoles
  <2>4. x = [c EXCEPT !.stale = st, !.cancelled = cn, !.busyId = b, !.canceller = None, !.drain = TRUE]
    BY <1>2, <2>1, <2>2, <2>3 DEF CancelSubmission, Consoles
  <2>5. /\ x \in Consoles /\ x.canceller = None /\ x.stale = st /\ x.cancelled = cn /\ x.drain
        /\ x.attached = c.attached /\ x.disposed = c.disposed /\ x.state = c.state
        /\ x.queue = c.queue /\ x.inputState = c.inputState /\ x.enqueueCheck = c.enqueueCheck
    <3>1. x \in Consoles
      <4>1. PICK y \in Consoles : y = [c EXCEPT !.stale = st, !.cancelled = cn]
        BY DEF Consoles
      <4>2. x = [y EXCEPT !.busyId = b, !.canceller = None, !.drain = TRUE]
        BY <2>4, <4>1 DEF Consoles
      <4>. QED
        BY <4>2 DEF Consoles
    <3>2. x.canceller = None /\ x.stale = st /\ x.cancelled = cn /\ x.drain
      BY <2>4 DEF Consoles
    <3>3. x.attached = c.attached /\ x.disposed = c.disposed /\ x.state = c.state
      BY <2>4 DEF Consoles
    <3>4. x.queue = c.queue /\ x.inputState = c.inputState /\ x.enqueueCheck = c.enqueueCheck
      BY <2>4 DEF Consoles
    <3>. QED
      BY <3>1, <3>2, <3>3, <3>4
  <2>6. c.stale \subseteq st
    BY <2>2 DEF CallsFit, Consoles
  <2>7. FramesFit(x, call, p)
    BY <2>5 DEF FramesFit
  <2>8. CallsFit(x, call, kd)
    BY <2>2, <2>3, <2>5 DEF CallsFit
  <2>. QED
    BY <2>5, <2>6, <2>7, <2>8
<1>. QED
  BY <1>1, <1>2

-----------------------------------------------------------------------------
(* Sequences of inputs *)

LEMMA Appended ==
  ASSUME NEW q \in Seq(Inputs), NEW i \in Inputs
  PROVE  /\ Append(q, i) \in Seq(Inputs)
         /\ \A k \in DOMAIN Append(q, i) :
              \/ k \in DOMAIN q /\ Append(q, i)[k] = q[k]
              \/ k = Len(q) + 1 /\ Append(q, i)[k] = i
         /\ \A k \in DOMAIN q : k \in DOMAIN Append(q, i) /\ Append(q, i)[k] = q[k] /\ k <= Len(q)
         /\ Len(q) + 1 \in DOMAIN Append(q, i) /\ Append(q, i)[Len(q) + 1] = i
<1>1. Append(q, i) \in Seq(Inputs) /\ Len(Append(q, i)) = Len(q) + 1
      /\ (\A k \in 1 .. Len(q) : Append(q, i)[k] = q[k]) /\ Append(q, i)[Len(q) + 1] = i
  BY AppendProperties
<1>2. Len(q) \in Nat /\ DOMAIN q = 1 .. Len(q) /\ DOMAIN Append(q, i) = 1 .. Len(q) + 1
  BY <1>1, LenProperties
<1>3. \A k \in DOMAIN Append(q, i) : k \in DOMAIN q \/ k = Len(q) + 1
  BY <1>2
<1>4. \A k \in DOMAIN q : k \in DOMAIN Append(q, i) /\ k <= Len(q)
  BY <1>2
<1>5. Len(q) + 1 \in DOMAIN Append(q, i)
  BY <1>2
<1>. QED
  BY <1>1, <1>2, <1>3, <1>4, <1>5

LEMMA Headed ==
  ASSUME NEW q \in Seq(Inputs), q # <<>>
  PROVE  /\ Head(q) \in Inputs /\ Tail(q) \in Seq(Inputs)
         /\ 1 \in DOMAIN q /\ Head(q) = q[1]
         /\ \A k \in DOMAIN Tail(q) : k \in Nat /\ k + 1 \in DOMAIN q /\ 1 < k + 1 /\ Tail(q)[k] = q[k + 1]
         /\ \A k \in DOMAIN q : k # 1 => k - 1 \in DOMAIN Tail(q) /\ Tail(q)[k - 1] = q[k]
<1>1. Head(q) \in Inputs /\ Tail(q) \in Seq(Inputs) /\ Head(q) = q[1]
      /\ Len(Tail(q)) = Len(q) - 1 /\ \A k \in 1 .. Len(Tail(q)) : Tail(q)[k] = q[k + 1]
  BY HeadTailProperties
<1>2. Len(q) \in Nat /\ Len(q) # 0 /\ DOMAIN q = 1 .. Len(q) /\ DOMAIN Tail(q) = 1 .. Len(q) - 1
  BY <1>1, LenProperties, EmptySeq
<1>3. 1 \in DOMAIN q
  BY <1>2
<1>4. \A k \in DOMAIN Tail(q) : k \in Nat /\ k + 1 \in DOMAIN q /\ 1 < k + 1
  BY <1>2
<1>5. \A k \in DOMAIN q : k # 1 => k - 1 \in DOMAIN Tail(q) /\ (k - 1) + 1 = k
  BY <1>2
<1>. QED
  BY <1>1, <1>2, <1>3, <1>4, <1>5

-----------------------------------------------------------------------------
(* What waits: the steps that inputs make *)

Late == {"handed", "kernel", "busy", "done", "over"}

\* Nothing that waits is touched; what has left goes on, and so may a call.
LEMMA OthersGoOn ==
  ASSUME FieldsType, FieldsType', Waits, kind' = kind, sent' = sent,
         con'.queue = con.queue, con.stale \subseteq con'.stale,
         \A i \in Inputs : call'[i] = call[i]
           \/ (call[i] \notin {"none", "accepted"} /\ call'[i] \notin {"none", "accepted"}),
         \A i \in Inputs : life'[i] = life[i] \/ (life[i] \in Late /\ life'[i] \in Late)
  PROVE  Waits'
<1> USE Sentinels, Members DEF Waits
<1>1. \A i \in Inputs : (life'[i] = "open") <=> (life[i] = "open")
  BY DEF Late
<1>2. \A i \in Inputs : (life'[i] = "new") <=> (life[i] = "new")
  BY DEF Late
<1>3. \A i \in Inputs : InQueue(i)' <=> InQueue(i)
  BY DEF InQueue
<1>4. \A k \in DOMAIN sent : sent[k] \in Inputs
  BY DEF FieldsType
<1>5. \A k \in DOMAIN con.queue : con.queue[k] \in Inputs
  BY DEF FieldsType
<1>6. LivesFit'
  <2>1. \A k \in DOMAIN sent' : life'[sent'[k]] \notin {"new", "open"}
    BY <1>1, <1>2, <1>4 DEF LivesFit
  <2>2. \A j, k \in Inputs : (j < k /\ life'[k] # "new") => life'[j] # "new"
    BY <1>2 DEF LivesFit
  <2>3. \A j \in Inputs : call'[j] = "accepted" => life'[j] \notin {"new", "open"}
    BY <1>1, <1>2 DEF LivesFit
  <2>4. \A j \in Inputs : call'[j] \notin {"none", "accepted"} => life'[j] = "open"
    BY <1>1 DEF LivesFit
  <2>5. \A j \in Inputs :
          /\ InQueue(j)' => life'[j] = "open"
          /\ life'[j] = "open" => (InQueue(j)' <=> call'[j] = "none")
    BY <1>1, <1>3 DEF LivesFit
  <2>. QED
    BY <2>1, <2>2, <2>3, <2>4, <2>5 DEF LivesFit
<1>7. OrderFits'
  <2>1. SentInOrder'
    BY DEF OrderFits, SentInOrder
  <2>2. \A k \in DOMAIN sent : \A i \in Inputs :
          (/\ Interactive(sent[k]) /\ Interactive(i)
           /\ life'[i] = "open" /\ i \notin con'.stale) => sent[k] < i
    BY <1>1 DEF OrderFits
  <2>3. \A i \in Inputs : \A k \in DOMAIN con.queue :
          (/\ call'[i] \notin {"none", "accepted"} /\ i \notin con'.stale
           /\ Interactive(i) /\ Interactive(con.queue[k])) => i < con.queue[k]
    BY DEF OrderFits
  <2>. QED
    BY <2>1, <2>2, <2>3 DEF OrderFits, Interactive
<1>. QED
  BY <1>6, <1>7

\* What is sent goes after what has been, and before what waits.
LEMMA SentNext ==
  ASSUME FieldsType, FieldsType', Waits, NEW i \in Inputs,
         life[i] = "open", kind' = kind, sent' = Append(sent, i),
         Interactive(i) => i \notin con.stale
  PROVE  /\ SentInOrder'
         /\ \A k, l \in DOMAIN sent' : sent'[k] = sent'[l] => k = l
<1> USE Sentinels DEF Waits
<1>1. /\ \A k \in DOMAIN sent' : (k \in DOMAIN sent /\ sent'[k] = sent[k]) \/ (k = Len(sent) + 1 /\ sent'[k] = i)
      /\ \A k \in DOMAIN sent : k \in Nat /\ k <= Len(sent) /\ sent[k] \in Nat
      /\ Len(sent) \in Nat
  BY Appended, Members, LenProperties DEF FieldsType
<1>2. SentInOrder'
  <2> SUFFICES ASSUME NEW k \in DOMAIN sent', NEW l \in DOMAIN sent', k < l,
                      InLine(kind[sent'[k]]), InLine(kind[sent'[l]])
               PROVE  sent'[k] < sent'[l]
    BY DEF SentInOrder
  <2>1. CASE k \in DOMAIN sent /\ l \in DOMAIN sent
    BY <1>1, <2>1 DEF OrderFits, SentInOrder
  <2>2. CASE k \in DOMAIN sent /\ l = Len(sent) + 1
    BY <1>1, <2>2 DEF OrderFits, Interactive
  <2>3. CASE k = Len(sent) + 1
    BY <1>1, <2>3
  <2>. QED
    BY <1>1, <2>1, <2>2, <2>3
<1>3. \A k \in DOMAIN sent : sent[k] # i
  BY DEF LivesFit
<1>. QED
  BY <1>1, <1>2, <1>3 DEF LivesFit

\* An input leaves its call: it is sent, or over.
LEMMA CallLeaves ==
  ASSUME FieldsType, FieldsType', Waits, CallsFit(con, call, kind),
         NEW i \in Inputs, NEW l \in Late, NEW m \in {"none", "accepted"},
         kind' = kind, con'.queue = con.queue, con.stale \ {i} \subseteq con'.stale,
         call[i] # "none", call' = [call EXCEPT ![i] = m], life' = [life EXCEPT ![i] = l],
         \/ sent' = sent
         \/ /\ life[i] = "open" /\ (Interactive(i) => i \notin con.stale)
            /\ sent' = Append(sent, i)
  PROVE  Waits'
<1> USE Sentinels, Members DEF Waits
<1>1. /\ call'[i] = m /\ life'[i] = l
      /\ \A j \in Inputs : j # i => call'[j] = call[j] /\ life'[j] = life[j]
  BY DEF FieldsType
<1>2. life[i] # "new" /\ ~InQueue(i) /\ l \notin {"new", "open"}
  BY DEF LivesFit, Late
<1>3. \A j \in Inputs : InQueue(j)' <=> InQueue(j)
  BY DEF InQueue
<1>4. \A k \in DOMAIN con.queue : con.queue[k] \in Inputs
  BY DEF FieldsType
<1>5. \A k \in DOMAIN sent' : sent'[k] \in Inputs /\
        ((k \in DOMAIN sent /\ sent'[k] = sent[k]) \/ sent'[k] = i)
  BY Appended DEF FieldsType
<1>6. SentInOrder' /\ \A k, n \in DOMAIN sent' : sent'[k] = sent'[n] => k = n
  <2>1. CASE sent' = sent
    BY <2>1 DEF LivesFit, OrderFits, SentInOrder
  <2>2. CASE sent' # sent
    BY <2>2, SentNext
  <2>. QED
    BY <2>1, <2>2
<1>7. LivesFit'
  <2>1. \A j \in Inputs : life'[j] = "open" => (InQueue(j)' <=> call'[j] = "none")
    BY <1>1, <1>2, <1>3 DEF LivesFit
  <2>2. \A j \in Inputs : InQueue(j)' => life'[j] = "open"
    BY <1>1, <1>2, <1>3 DEF LivesFit
  <2>3. \A j \in Inputs : call'[j] \notin {"none", "accepted"} => life'[j] = "open"
    BY <1>1, <1>2 DEF LivesFit
  <2>4. \A j \in Inputs : call'[j] = "accepted" => life'[j] \notin {"new", "open"}
    BY <1>1, <1>2 DEF LivesFit
  <2>5. \A k \in DOMAIN sent' : life'[sent'[k]] \notin {"new", "open"}
    <3> SUFFICES ASSUME NEW k \in DOMAIN sent' PROVE life'[sent'[k]] \notin {"new", "open"}
      OBVIOUS
    <3>1. CASE sent'[k] = i
      BY <1>1, <1>2, <3>1
    <3>2. CASE sent'[k] # i
      BY <1>1, <1>5, <3>2 DEF LivesFit
    <3>. QED
      BY <3>1, <3>2
  <2>6. \A j, k \in Inputs : (j < k /\ life'[k] # "new") => life'[j] # "new"
    BY <1>1, <1>2 DEF LivesFit
  <2>. QED
    BY <1>6, <2>1, <2>2, <2>3, <2>4, <2>5, <2>6 DEF LivesFit
<1>8. OrderFits'
  <2>1. \A k \in DOMAIN sent' : \A j \in Inputs :
          (/\ InLine(kind[sent'[k]]) /\ InLine(kind[j])
           /\ life'[j] = "open" /\ j \notin con'.stale) => sent'[k] < j
    <3> SUFFICES ASSUME NEW k \in DOMAIN sent', NEW j \in Inputs,
                        InLine(kind[sent'[k]]), InLine(kind[j]),
                        life'[j] = "open", j \notin con'.stale
                 PROVE  sent'[k] < j
      OBVIOUS
    <3>1. j # i /\ life[j] = "open" /\ j \notin con.stale
      BY <1>1, <1>2
    <3>2. CASE k \in DOMAIN sent /\ sent'[k] = sent[k]
      BY <3>1, <3>2 DEF OrderFits, Interactive
    <3>3. CASE sent' = Append(sent, i) /\ sent'[k] = i
      <4>1. sent' # sent
        <5>1. Len(Append(sent, i)) = Len(sent) + 1 /\ Len(sent) \in Nat
          BY AppendProperties, LenProperties DEF FieldsType
        <5>. QED
          BY <3>3, <5>1
      <4>2. life[i] = "open" /\ i \notin con.stale
        BY <3>3, <4>1 DEF Interactive
      <4>3. call[i] \notin {"none", "accepted"} /\ con.canceller = i
        BY <3>3, <4>2 DEF LivesFit, CallsFit, InLine
      <4>4. CASE call[j] = "none"
        <5>1. PICK n \in DOMAIN con.queue : con.queue[n] = j
          BY <3>1, <4>4 DEF LivesFit, InQueue
        <5>2. Interactive(i) /\ Interactive(con.queue[n])
          BY <3>3, <5>1 DEF Interactive
        <5>3. i < con.queue[n]
          BY <4>2, <4>3, <5>2 DEF OrderFits
        <5>. QED
          BY <3>3, <5>1, <5>3
      <4>5. CASE call[j] # "none"
        BY <3>1, <4>3, <4>5 DEF CallsFit, InLine
      <4>. QED
        BY <4>4, <4>5
    <3>. QED
      BY <1>5, <3>2, <3>3
  <2>. QED
    BY <1>1, <1>4, <1>6, <2>1 DEF OrderFits, Interactive
<1>. QED
  BY <1>7, <1>8

\* The next input is nowhere yet, and comes after all others.
LEMMA Newcomer ==
  ASSUME FieldsType, LivesFit, CallsFit(con, call, kind), NEW i \in Inputs, IsNext(i)
  PROVE  /\ life[i] = "new" /\ call[i] = "none" /\ ~InQueue(i) /\ i \notin con.stale
         /\ \A k \in DOMAIN sent : sent[k] # i /\ sent[k] < i /\ sent[k] \in Inputs
         /\ \A k \in DOMAIN con.queue :
              con.queue[k] # i /\ con.queue[k] < i /\ con.queue[k] \in Inputs
         /\ \A j \in Inputs : call[j] # "none" => j # i /\ j < i
         /\ \A j \in Inputs : j < i => life[j] # "new"
<1> USE Sentinels, Members DEF IsNext
<1>1. life[i] = "new" /\ call[i] = "none" /\ ~InQueue(i)
  BY DEF LivesFit
<1>2. i \notin con.stale
  BY <1>1 DEF CallsFit
<1>3. \A j \in Inputs : life[j] # "new" => j # i /\ j < i
  <2> SUFFICES ASSUME NEW j \in Inputs, life[j] # "new" PROVE j # i /\ j < i
    OBVIOUS
  <2>1. j # i /\ ~(i < j)
    BY <1>1 DEF LivesFit
  <2>2. i \in Nat /\ j \in Nat
    OBVIOUS
  <2>. QED
    BY <2>1, <2>2
<1>4. \A k \in DOMAIN sent : sent[k] \in Inputs /\ life[sent[k]] # "new"
  BY DEF LivesFit, FieldsType
<1>5. \A k \in DOMAIN con.queue : con.queue[k] \in Inputs /\ life[con.queue[k]] = "open"
  BY DEF LivesFit, FieldsType, InQueue
<1>6. \A j \in Inputs : call[j] # "none" => life[j] # "new"
  BY DEF LivesFit
<1>7. \A j \in Inputs : j < i => life[j] # "new"
  BY DEF Inputs
<1>. QED
  BY <1>1, <1>2, <1>3, <1>4, <1>5, <1>6, <1>7

\* The next input takes its place in the queue.
LEMMA JoinsQueue ==
  ASSUME FieldsType, FieldsType', Waits, CallsFit(con, call, kind),
         NEW i \in Inputs, IsNext(i), NEW kn,
         kind' = [kind EXCEPT ![i] = kn], con'.queue = Append(con.queue, i),
         con'.stale = con.stale, life' = [life EXCEPT ![i] = "open"],
         call' = call, sent' = sent
  PROVE  Waits'
<1> USE Sentinels, Members DEF Waits
<1>1. life'[i] = "open" /\ \A j \in Inputs : j # i => life'[j] = life[j] /\ kind'[j] = kind[j]
  BY DEF FieldsType
<1>2. con.queue \in Seq(Inputs) /\ Len(con.queue) \in Nat
  BY LenProperties DEF FieldsType
<1>3. /\ \A k \in DOMAIN con'.queue :
           \/ k \in DOMAIN con.queue /\ con'.queue[k] = con.queue[k]
           \/ k = Len(con.queue) + 1 /\ con'.queue[k] = i
      /\ \A k \in DOMAIN con.queue : k \in DOMAIN con'.queue /\ con'.queue[k] = con.queue[k]
                                     /\ k <= Len(con.queue) /\ k \in Nat
      /\ Len(con.queue) + 1 \in DOMAIN con'.queue /\ con'.queue[Len(con.queue) + 1] = i
  BY <1>2, Appended
<1>4. \A j \in Inputs : InQueue(j)' <=> (InQueue(j) \/ j = i)
  BY <1>3 DEF InQueue
<1>5. LivesFit'
  <2>1. \A j \in Inputs : life'[j] = "open" => (InQueue(j)' <=> call'[j] = "none")
    BY <1>1, <1>4, Newcomer DEF LivesFit
  <2>2. \A j \in Inputs : InQueue(j)' => life'[j] = "open"
    BY <1>1, <1>4, Newcomer DEF LivesFit
  <2>3. \A j \in Inputs : call'[j] \notin {"none", "accepted"} => life'[j] = "open"
    BY <1>1, Newcomer DEF LivesFit
  <2>4. \A j \in Inputs : call'[j] = "accepted" => life'[j] \notin {"new", "open"}
    BY <1>1, Newcomer DEF LivesFit
  <2>5. \A k \in DOMAIN sent' : life'[sent'[k]] \notin {"new", "open"}
    BY <1>1, Newcomer DEF LivesFit
  <2>6. \A j, k \in Inputs : (j < k /\ life'[k] # "new") => life'[j] # "new"
    BY <1>1, Newcomer DEF LivesFit
  <2>. QED
    BY <2>1, <2>2, <2>3, <2>4, <2>5, <2>6 DEF LivesFit
<1>6. OrderFits'
  <2>1. \A k, l \in DOMAIN con'.queue : k < l => con'.queue[k] < con'.queue[l]
    <3> SUFFICES ASSUME NEW k \in DOMAIN con'.queue, NEW l \in DOMAIN con'.queue, k < l
                 PROVE  con'.queue[k] < con'.queue[l]
      OBVIOUS
    <3>1. k \in DOMAIN con.queue /\ con'.queue[k] = con.queue[k]
      BY <1>2, <1>3
    <3>. QED
      BY <1>3, <3>1, Newcomer DEF OrderFits
  <2>2. \A k \in DOMAIN sent : \A j \in Inputs :
          (/\ InLine(kind'[sent[k]]) /\ InLine(kind'[j])
           /\ life'[j] = "open" /\ j \notin con.stale) => sent[k] < j
    <3> SUFFICES ASSUME NEW k \in DOMAIN sent, NEW j \in Inputs,
                        InLine(kind'[sent[k]]), InLine(kind'[j]),
                        life'[j] = "open", j \notin con.stale
                 PROVE  sent[k] < j
      OBVIOUS
    <3>1. sent[k] \in Inputs /\ sent[k] # i /\ sent[k] < i
      BY Newcomer
    <3>2. CASE j = i
      BY <3>1, <3>2
    <3>3. CASE j # i
      <4>1. life[j] = "open" /\ kind'[j] = kind[j] /\ kind'[sent[k]] = kind[sent[k]]
        BY <1>1, <3>1, <3>3
      <4>. QED
        BY <4>1 DEF OrderFits, Interactive
    <3>. QED
      BY <3>2, <3>3
  <2>3. \A j \in Inputs : \A k \in DOMAIN con'.queue :
          (/\ call[j] \notin {"none", "accepted"} /\ j \notin con.stale
           /\ InLine(kind'[j]) /\ InLine(kind'[con'.queue[k]])) => j < con'.queue[k]
    <3> SUFFICES ASSUME NEW j \in Inputs, NEW k \in DOMAIN con'.queue,
                        call[j] \notin {"none", "accepted"}, j \notin con.stale,
                        InLine(kind'[j]), InLine(kind'[con'.queue[k]])
                 PROVE  j < con'.queue[k]
      OBVIOUS
    <3>1. j # i /\ j < i /\ kind'[j] = kind[j]
      BY <1>1, Newcomer
    <3>2. CASE k \in DOMAIN con.queue /\ con'.queue[k] = con.queue[k]
      <4>1. kind'[con.queue[k]] = kind[con.queue[k]]
        BY <1>1, <3>2, Newcomer
      <4>. QED
        BY <3>1, <3>2, <4>1 DEF OrderFits, Interactive
    <3>3. CASE con'.queue[k] = i
      BY <3>1, <3>3
    <3>. QED
      BY <1>3, <3>2, <3>3
  <2>4. SentInOrder'
    BY <1>1, Newcomer DEF OrderFits, SentInOrder
  <2>. QED
    BY <2>1, <2>2, <2>3, <2>4 DEF OrderFits, Interactive
<1>. QED
  BY <1>5, <1>6

\* The next input is checked first: nothing of the user's waits.
LEMMA JoinsCalls ==
  ASSUME FieldsType, FieldsType', Waits, CallsFit(con, call, kind),
         NEW i \in Inputs, IsNext(i), NEW kn, NEW m \in Calls \ {"none", "accepted"},
         kind' = [kind EXCEPT ![i] = kn], con'.queue = con.queue,
         con'.stale = con.stale, life' = [life EXCEPT ![i] = "open"],
         call' = [call EXCEPT ![i] = m], sent' = sent,
         kn.background \/ ~PendingShown
  PROVE  Waits'
<1> USE Sentinels, Members DEF Waits
<1>1. /\ life'[i] = "open" /\ call'[i] = m /\ kind'[i] = kn
      /\ \A j \in Inputs : j # i =>
           life'[j] = life[j] /\ kind'[j] = kind[j] /\ call'[j] = call[j]
  BY DEF FieldsType
<1>2. \A j \in Inputs : InQueue(j)' <=> InQueue(j)
  BY DEF InQueue
<1>3. LivesFit'
  <2>1. \A j \in Inputs : life'[j] = "open" => (InQueue(j)' <=> call'[j] = "none")
    BY <1>1, <1>2, Newcomer DEF LivesFit
  <2>2. \A j \in Inputs : InQueue(j)' => life'[j] = "open"
    BY <1>1, <1>2, Newcomer DEF LivesFit
  <2>3. \A j \in Inputs : call'[j] \notin {"none", "accepted"} => life'[j] = "open"
    BY <1>1, Newcomer DEF LivesFit
  <2>4. \A j \in Inputs : call'[j] = "accepted" => life'[j] \notin {"new", "open"}
    BY <1>1, Newcomer DEF LivesFit
  <2>5. \A k \in DOMAIN sent' : life'[sent'[k]] \notin {"new", "open"}
    BY <1>1, Newcomer DEF LivesFit
  <2>6. \A j, k \in Inputs : (j < k /\ life'[k] # "new") => life'[j] # "new"
    BY <1>1, Newcomer DEF LivesFit
  <2>. QED
    BY <2>1, <2>2, <2>3, <2>4, <2>5, <2>6 DEF LivesFit
<1>4. OrderFits'
  <2>1. \A k \in DOMAIN sent : \A j \in Inputs :
          (/\ InLine(kind'[sent[k]]) /\ InLine(kind'[j])
           /\ life'[j] = "open" /\ j \notin con.stale) => sent[k] < j
    BY <1>1, Newcomer DEF OrderFits, Interactive
  <2>2. \A j \in Inputs : \A k \in DOMAIN con.queue :
          (/\ call'[j] \notin {"none", "accepted"} /\ j \notin con.stale
           /\ InLine(kind'[j]) /\ InLine(kind'[con.queue[k]])) => j < con.queue[k]
    BY <1>1, Newcomer DEF OrderFits, Interactive, InLine, PendingShown
  <2>3. SentInOrder'
    BY <1>1, Newcomer DEF OrderFits, SentInOrder
  <2>. QED
    BY <2>1, <2>2, <2>3 DEF OrderFits, Interactive
<1>. QED
  BY <1>3, <1>4

\* The next input is sent, or refused, at once: nothing of the user's waits or is
\* being checked.
LEMMA SentAtOnce ==
  ASSUME FieldsType, FieldsType', Waits, CallsFit(con, call, kind),
         NEW i \in Inputs, IsNext(i), NEW kn, NEW l \in Late,
         kind' = [kind EXCEPT ![i] = kn], con'.queue = con.queue,
         con'.stale = con.stale, life' = [life EXCEPT ![i] = l], call' = call,
         sent' \in {sent, Append(sent, i)},
         ~PendingShown, con.canceller = None
  PROVE  Waits'
<1> USE Sentinels, Members DEF Waits
<1>1. /\ life'[i] = l /\ l \notin {"new", "open"}
      /\ \A j \in Inputs : j # i => life'[j] = life[j] /\ kind'[j] = kind[j]
  BY DEF FieldsType, Late
<1>2. \A j \in Inputs : InQueue(j)' <=> InQueue(j)
  BY DEF InQueue
<1>3. /\ \A k \in DOMAIN sent' :
           \/ k \in DOMAIN sent /\ sent'[k] = sent[k] /\ k <= Len(sent)
           \/ k = Len(sent) + 1 /\ sent'[k] = i
      /\ \A k \in DOMAIN sent : k \in Nat /\ k <= Len(sent)
      /\ Len(sent) \in Nat
  BY Appended, LenProperties DEF FieldsType
<1>4. LivesFit'
  <2>1. \A j \in Inputs : life'[j] = "open" => (InQueue(j)' <=> call'[j] = "none")
    BY <1>1, <1>2, Newcomer DEF LivesFit
  <2>2. \A j \in Inputs : InQueue(j)' => life'[j] = "open"
    BY <1>1, <1>2, Newcomer DEF LivesFit
  <2>3. \A j \in Inputs : call'[j] \notin {"none", "accepted"} => life'[j] = "open"
    BY <1>1, Newcomer DEF LivesFit
  <2>4. \A j \in Inputs : call'[j] = "accepted" => life'[j] \notin {"new", "open"}
    BY <1>1, Newcomer DEF LivesFit
  <2>5. \A k \in DOMAIN sent' : life'[sent'[k]] \notin {"new", "open"}
    BY <1>1, <1>3, Newcomer DEF LivesFit
  <2>6. \A j, k \in Inputs : (j < k /\ life'[k] # "new") => life'[j] # "new"
    BY <1>1, Newcomer DEF LivesFit
  <2>7. \A k, n \in DOMAIN sent' : sent'[k] = sent'[n] => k = n
    <3> SUFFICES ASSUME NEW k \in DOMAIN sent', NEW n \in DOMAIN sent', sent'[k] = sent'[n]
                 PROVE  k = n
      OBVIOUS
    <3>1. \A m \in DOMAIN sent : sent[m] # i
      BY Newcomer
    <3>2. CASE k \in DOMAIN sent /\ n \in DOMAIN sent
      <4>1. sent[k] = sent[n]
        BY <1>3, <3>1, <3>2
      <4>. QED
        BY <3>2, <4>1 DEF LivesFit
    <3>. QED
      BY <1>3, <3>1, <3>2
  <2>. QED
    BY <2>1, <2>2, <2>3, <2>4, <2>5, <2>6, <2>7 DEF LivesFit
<1>5. OrderFits'
  <2>1. \A j \in Inputs : (life[j] = "open" /\ InLine(kind[j])) => j \in con.stale
    <3> SUFFICES ASSUME NEW j \in Inputs, life[j] = "open", InLine(kind[j])
                 PROVE  j \in con.stale
      OBVIOUS
    <3>1. ~InQueue(j)
      BY DEF PendingShown, InQueue, InLine
    <3>2. call[j] # "none"
      BY <3>1 DEF LivesFit
    <3>. QED
      BY <3>2 DEF CallsFit, InLine
  <2>2. \A k \in DOMAIN sent' : \A j \in Inputs :
          (/\ InLine(kind'[sent'[k]]) /\ InLine(kind'[j])
           /\ life'[j] = "open" /\ j \notin con.stale) => sent'[k] < j
    BY <1>1, <2>1
  <2>3. \A j \in Inputs : \A k \in DOMAIN con.queue :
          (/\ call[j] \notin {"none", "accepted"} /\ j \notin con.stale
           /\ InLine(kind'[j]) /\ InLine(kind'[con.queue[k]])) => j < con.queue[k]
    BY <1>1, Newcomer DEF OrderFits, Interactive
  <2>4. SentInOrder'
    <3> SUFFICES ASSUME NEW k \in DOMAIN sent', NEW n \in DOMAIN sent', k < n,
                        InLine(kind'[sent'[k]]), InLine(kind'[sent'[n]])
                 PROVE  sent'[k] < sent'[n]
      BY DEF SentInOrder
    <3>1. k \in DOMAIN sent /\ sent'[k] = sent[k]
      BY <1>3
    <3>2. CASE n \in DOMAIN sent /\ sent'[n] = sent[n]
      BY <1>1, <3>1, <3>2, Newcomer DEF OrderFits, SentInOrder
    <3>3. CASE sent'[n] = i
      BY <3>1, <3>3, Newcomer
    <3>. QED
      BY <1>3, <3>2, <3>3
  <2>. QED
    BY <2>2, <2>3, <2>4 DEF OrderFits, Interactive
<1>. QED
  BY <1>4, <1>5

\* The first fragment of an input is sent, and the remainder queued.
LEMMA SplitInTwo ==
  ASSUME FieldsType, FieldsType', Waits, CallsFit(con, call, kind),
         NEW i \in Inputs, NEW r \in Inputs, Splits(i, r),
         call[i] \notin {"none", "accepted"}, ~kind[i].background, i \notin con.stale,
         con'.queue = Append(con.queue, r), con'.stale = con.stale \ {i}
  PROVE  Waits'
<1> USE Sentinels, Members DEF Waits
<1>0. /\ IsNext(r) /\ sent' = Append(sent, i)
      /\ kind' = [kind EXCEPT ![r] = [background |-> FALSE, verified |-> TRUE, blank |-> FALSE]]
      /\ life' = [life EXCEPT ![i] = "handed", ![r] = "open"]
      /\ call' = [call EXCEPT ![i] = "none"]
  BY DEF Splits, Returns
<1>11. Interactive(i)
  BY DEF Splits, Interactive, InLine
<1>1. life[i] = "open" /\ con.canceller = i /\ i # r /\ i < r /\ ~InQueue(i)
  BY <1>0, Newcomer DEF LivesFit, CallsFit, Interactive, InLine
<1>2. /\ life'[i] = "handed" /\ life'[r] = "open" /\ call'[i] = "none" /\ call'[r] = "none"
      /\ \A j \in Inputs : j \notin {i, r} => life'[j] = life[j]
      /\ \A j \in Inputs : j # r => kind'[j] = kind[j]
      /\ \A j \in Inputs : j # i => call'[j] = call[j]
  <2>1. call[r] = "none"
    BY <1>0, Newcomer
  <2>2. /\ life'[i] = "handed" /\ life'[r] = "open"
        /\ \A j \in Inputs : j \notin {i, r} => life'[j] = life[j]
    BY <1>0, <1>1 DEF FieldsType
  <2>3. \A j \in Inputs : j # r => kind'[j] = kind[j]
    BY <1>0 DEF FieldsType
  <2>4. call'[i] = "none" /\ \A j \in Inputs : j # i => call'[j] = call[j]
    BY <1>0 DEF FieldsType
  <2>. QED
    BY <1>1, <2>1, <2>2, <2>3, <2>4
<1>3. /\ con.queue \in Seq(Inputs) /\ Len(con.queue) \in Nat
      /\ sent \in Seq(Inputs) /\ Len(sent) \in Nat
  BY LenProperties DEF FieldsType
<1>4. /\ \A k \in DOMAIN con'.queue :
           \/ k \in DOMAIN con.queue /\ con'.queue[k] = con.queue[k]
           \/ k = Len(con.queue) + 1 /\ con'.queue[k] = r
      /\ \A k \in DOMAIN con.queue : k \in DOMAIN con'.queue /\ con'.queue[k] = con.queue[k]
                                     /\ k <= Len(con.queue) /\ k \in Nat
      /\ Len(con.queue) + 1 \in DOMAIN con'.queue /\ con'.queue[Len(con.queue) + 1] = r
  BY <1>3, Appended
<1>5. /\ \A k \in DOMAIN sent' :
           \/ k \in DOMAIN sent /\ sent'[k] = sent[k] /\ k <= Len(sent)
           \/ k = Len(sent) + 1 /\ sent'[k] = i
      /\ \A k \in DOMAIN sent : k \in Nat /\ k <= Len(sent)
  BY <1>0, <1>3, Appended
<1>6. \A j \in Inputs : InQueue(j)' <=> (InQueue(j) \/ j = r)
  BY <1>4 DEF InQueue
<1>7. \A k \in DOMAIN sent : sent[k] # i
  BY <1>1 DEF LivesFit
<1>10. /\ life[r] = "new" /\ \A k \in DOMAIN sent : sent[k] # r /\ sent[k] < r /\ sent[k] \in Inputs
       /\ \A j \in Inputs : j < r => life[j] # "new"
  BY <1>0, Newcomer
<1>8. LivesFit'
  <2>1. \A j \in Inputs : life'[j] = "open" => (InQueue(j)' <=> call'[j] = "none")
    BY <1>1, <1>2, <1>6, Newcomer DEF LivesFit
  <2>2. \A j \in Inputs : InQueue(j)' => life'[j] = "open"
    BY <1>1, <1>2, <1>6 DEF LivesFit
  <2>3. \A j \in Inputs : call'[j] \notin {"none", "accepted"} => life'[j] = "open"
    BY <1>2 DEF LivesFit
  <2>4. \A j \in Inputs : call'[j] = "accepted" => life'[j] \notin {"new", "open"}
    BY <1>2 DEF LivesFit
  <2>5. \A k \in DOMAIN sent' : life'[sent'[k]] \notin {"new", "open"}
    <3> SUFFICES ASSUME NEW k \in DOMAIN sent' PROVE life'[sent'[k]] \notin {"new", "open"}
      OBVIOUS
    <3>1. CASE k \in DOMAIN sent /\ sent'[k] = sent[k]
      <4>1. life[sent[k]] \notin {"new", "open"} /\ sent[k] \in Inputs /\ sent[k] # r /\ sent[k] # i
        BY <1>7, <1>10, <3>1 DEF LivesFit
      <4>. QED
        BY <1>2, <3>1, <4>1
    <3>2. CASE sent'[k] = i
      BY <1>2, <3>2
    <3>. QED
      BY <1>5, <3>1, <3>2
  <2>6. \A j, k \in Inputs : (j < k /\ life'[k] # "new") => life'[j] # "new"
    BY <1>1, <1>2, <1>10 DEF LivesFit
  <2>7. \A k, n \in DOMAIN sent' : sent'[k] = sent'[n] => k = n
    BY <1>5, <1>7 DEF LivesFit
  <2>. QED
    BY <2>1, <2>2, <2>3, <2>4, <2>5, <2>6, <2>7 DEF LivesFit
<1>9. OrderFits'
  <2>1. \A k, l \in DOMAIN con'.queue : k < l => con'.queue[k] < con'.queue[l]
    <3> SUFFICES ASSUME NEW k \in DOMAIN con'.queue, NEW l \in DOMAIN con'.queue, k < l
                 PROVE  con'.queue[k] < con'.queue[l]
      OBVIOUS
    <3>1. k \in DOMAIN con.queue /\ con'.queue[k] = con.queue[k]
      BY <1>3, <1>4
    <3>. QED
      BY <1>0, <1>4, <3>1, Newcomer DEF OrderFits
  <2>2. \A j \in Inputs :
          (life[j] = "open" /\ InLine(kind[j]) /\ j \notin con.stale /\ j # i) => i < j
    <3> SUFFICES ASSUME NEW j \in Inputs, life[j] = "open", InLine(kind[j]),
                        j \notin con.stale, j # i
                 PROVE  i < j
      OBVIOUS
    <3>1. call[j] = "none"
      BY <1>1 DEF CallsFit, InLine
    <3>2. PICK k \in DOMAIN con.queue : con.queue[k] = j
      BY <3>1 DEF LivesFit, InQueue
    <3>3. Interactive(con.queue[k])
      BY <3>2 DEF Interactive
    <3>4. i < con.queue[k]
      BY <1>11, <3>3 DEF OrderFits
    <3>. QED
      BY <3>2, <3>4
  <2>3. \A k \in DOMAIN sent' : \A j \in Inputs :
          (/\ InLine(kind'[sent'[k]]) /\ InLine(kind'[j])
           /\ life'[j] = "open" /\ j \notin con'.stale) => sent'[k] < j
    <3> SUFFICES ASSUME NEW k \in DOMAIN sent', NEW j \in Inputs,
                        InLine(kind'[sent'[k]]), InLine(kind'[j]),
                        life'[j] = "open", j \notin con'.stale
                 PROVE  sent'[k] < j
      OBVIOUS
    <3>1. j # i
      BY <1>2
    <3>2. CASE j = r
      BY <1>0, <1>1, <1>5, <3>2, Newcomer
    <3>3. CASE j # r
      <4>1. life[j] = "open" /\ InLine(kind[j]) /\ j \notin con.stale
        BY <1>2, <3>1, <3>3
      <4>2. CASE k \in DOMAIN sent /\ sent'[k] = sent[k]
        <5>1. InLine(kind[sent[k]])
          BY <1>2, <1>10, <4>2
        <5>. QED
          BY <4>1, <4>2, <5>1 DEF OrderFits, Interactive
      <4>3. CASE sent'[k] = i
        BY <2>2, <3>1, <4>1, <4>3
      <4>. QED
        BY <1>5, <4>2, <4>3
    <3>. QED
      BY <3>2, <3>3
  <2>4. \A j \in Inputs : \A k \in DOMAIN con'.queue :
          (/\ call'[j] \notin {"none", "accepted"} /\ j \notin con'.stale
           /\ InLine(kind'[j]) /\ InLine(kind'[con'.queue[k]])) => j < con'.queue[k]
    <3> SUFFICES ASSUME NEW j \in Inputs, NEW k \in DOMAIN con'.queue,
                        call'[j] \notin {"none", "accepted"}, j \notin con'.stale,
                        InLine(kind'[j])
                 PROVE  FALSE
      OBVIOUS
    <3>1. j # i /\ j # r /\ call[j] # "none" /\ j \notin con.stale /\ InLine(kind[j])
      BY <1>2
    <3>. QED
      BY <1>1, <3>1 DEF CallsFit, InLine
  <2>5. SentInOrder'
    <3> SUFFICES ASSUME NEW k \in DOMAIN sent', NEW n \in DOMAIN sent', k < n,
                        InLine(kind'[sent'[k]]), InLine(kind'[sent'[n]])
                 PROVE  sent'[k] < sent'[n]
      BY DEF SentInOrder
    <3>1. k \in DOMAIN sent /\ sent'[k] = sent[k] /\ InLine(kind[sent[k]])
      BY <1>0, <1>2, <1>3, <1>5, Newcomer
    <3>2. CASE n \in DOMAIN sent /\ sent'[n] = sent[n]
      BY <1>0, <1>2, <3>1, <3>2, Newcomer DEF OrderFits, SentInOrder
    <3>3. CASE sent'[n] = i
      BY <1>1, <1>11, <3>1, <3>3 DEF OrderFits, Interactive
    <3>. QED
      BY <1>5, <3>2, <3>3
  <2>. QED
    BY <2>1, <2>3, <2>4, <2>5 DEF OrderFits, Interactive
<1>. QED
  BY <1>8, <1>9

\* The head of the queue is sent, or over; nothing of the user's that is not stale
\* is being checked.
LEMMA HeadLeaves ==
  ASSUME FieldsType, FieldsType', Waits, CallsFit(con, call, kind),
         con.queue # <<>>, con.canceller \notin Inputs, NEW l \in Late,
         con'.queue = Tail(con.queue), con'.stale = con.stale, kind' = kind, call' = call,
         life' = [life EXCEPT ![Head(con.queue)] = l],
         sent' \in {sent, Append(sent, Head(con.queue))}
  PROVE  Waits'
<1> USE Sentinels, Members DEF Waits
<1>1. /\ Head(con.queue) \in Inputs /\ 1 \in DOMAIN con.queue /\ Head(con.queue) = con.queue[1]
      /\ \A k \in DOMAIN con'.queue :
           k \in Nat /\ k + 1 \in DOMAIN con.queue /\ 1 < k + 1 /\ con'.queue[k] = con.queue[k + 1]
      /\ \A k \in DOMAIN con.queue :
           k # 1 => k - 1 \in DOMAIN con'.queue /\ con'.queue[k - 1] = con.queue[k]
  BY Headed DEF FieldsType
<1>2. PICK h \in Inputs : h = Head(con.queue) /\ h = con.queue[1]
  BY <1>1
<1>3. life'[h] = l /\ l \notin {"new", "open"} /\ \A j \in Inputs : j # h => life'[j] = life[j]
  BY <1>2 DEF FieldsType, Late
<1>4. life[h] = "open" /\ call[h] = "none" /\ h \notin con.stale
  BY <1>1, <1>2 DEF LivesFit, InQueue, CallsFit
<1>5. \A k \in DOMAIN con'.queue : h < con'.queue[k] /\ con'.queue[k] \in Inputs
  BY <1>1, <1>2 DEF OrderFits, FieldsType
<1>6. \A j \in Inputs : InQueue(j)' <=> (InQueue(j) /\ j # h)
  <2> SUFFICES ASSUME NEW j \in Inputs PROVE InQueue(j)' <=> (InQueue(j) /\ j # h)
    OBVIOUS
  <2>1. InQueue(j)' => (InQueue(j) /\ j # h)
    BY <1>1, <1>5 DEF InQueue
  <2>2. ASSUME InQueue(j), j # h PROVE InQueue(j)'
    <3>1. PICK k \in DOMAIN con.queue : con.queue[k] = j
      BY <2>2 DEF InQueue
    <3>2. k # 1
      BY <1>2, <2>2, <3>1
    <3>3. k - 1 \in DOMAIN con'.queue /\ con'.queue[k - 1] = j
      BY <1>1, <3>1, <3>2
    <3>. QED
      BY <3>3 DEF InQueue
  <2>. QED
    BY <2>1, <2>2
<1>7. \A k \in DOMAIN sent' : sent'[k] \in Inputs /\
        ((k \in DOMAIN sent /\ sent'[k] = sent[k]) \/ sent'[k] = h)
  <2>1. sent \in Seq(Inputs) /\ \A k \in DOMAIN sent : sent[k] \in Inputs
    BY DEF FieldsType
  <2>2. \A k \in DOMAIN Append(sent, h) :
          (k \in DOMAIN sent /\ Append(sent, h)[k] = sent[k]) \/ Append(sent, h)[k] = h
    BY <2>1, Appended
  <2>3. sent' = sent \/ sent' = Append(sent, h)
    BY <1>2
  <2>. QED
    BY <2>1, <2>2, <2>3
<1>8. SentInOrder' /\ \A k, n \in DOMAIN sent' : sent'[k] = sent'[n] => k = n
  <2>1. CASE sent' = sent
    BY <2>1 DEF LivesFit, OrderFits, SentInOrder
  <2>2. CASE sent' = Append(sent, h)
    BY <1>4, <2>2, SentNext
  <2>. QED
    BY <1>2, <2>1, <2>2
<1>9. LivesFit'
  <2>1. \A j \in Inputs : life'[j] = "open" => (InQueue(j)' <=> call'[j] = "none")
    BY <1>3, <1>6 DEF LivesFit
  <2>2. \A j \in Inputs : InQueue(j)' => life'[j] = "open"
    BY <1>3, <1>6 DEF LivesFit
  <2>3. \A j \in Inputs : call'[j] \notin {"none", "accepted"} => life'[j] = "open"
    BY <1>3, <1>4 DEF LivesFit
  <2>4. \A j \in Inputs : call'[j] = "accepted" => life'[j] \notin {"new", "open"}
    BY <1>3, <1>4 DEF LivesFit
  <2>5. \A k \in DOMAIN sent' : life'[sent'[k]] \notin {"new", "open"}
    BY <1>3, <1>7 DEF LivesFit
  <2>6. \A j, k \in Inputs : (j < k /\ life'[k] # "new") => life'[j] # "new"
    BY <1>3, <1>4 DEF LivesFit
  <2>. QED
    BY <1>8, <2>1, <2>2, <2>3, <2>4, <2>5, <2>6 DEF LivesFit
<1>10. OrderFits'
  <2>1. \A k, n \in DOMAIN con'.queue : k < n => con'.queue[k] < con'.queue[n]
    <3> SUFFICES ASSUME NEW k \in DOMAIN con'.queue, NEW n \in DOMAIN con'.queue, k < n
                 PROVE  con'.queue[k] < con'.queue[n]
      OBVIOUS
    <3>1. k + 1 < n + 1
      BY <1>1
    <3>. QED
      BY <1>1, <3>1 DEF OrderFits
  <2>2. \A j \in Inputs : (life[j] = "open" /\ InLine(kind[j]) /\ j \notin con.stale) => InQueue(j)
    BY DEF LivesFit, CallsFit, InLine
  <2>3. \A k \in DOMAIN sent' : \A j \in Inputs :
          (/\ InLine(kind[sent'[k]]) /\ InLine(kind[j])
           /\ life'[j] = "open" /\ j \notin con.stale) => sent'[k] < j
    <3> SUFFICES ASSUME NEW k \in DOMAIN sent', NEW j \in Inputs,
                        InLine(kind[sent'[k]]), InLine(kind[j]),
                        life'[j] = "open", j \notin con.stale
                 PROVE  sent'[k] < j
      OBVIOUS
    <3>1. j # h /\ life[j] = "open"
      BY <1>3
    <3>2. CASE k \in DOMAIN sent /\ sent'[k] = sent[k]
      BY <3>1, <3>2 DEF OrderFits, Interactive
    <3>3. CASE sent'[k] = h
      <4>1. InQueue(j)'
        BY <1>6, <2>2, <3>1
      <4>. QED
        BY <1>5, <3>3, <4>1 DEF InQueue
    <3>. QED
      BY <1>7, <3>2, <3>3
  <2>4. \A j \in Inputs : \A k \in DOMAIN con'.queue :
          (/\ call[j] \notin {"none", "accepted"} /\ j \notin con.stale
           /\ InLine(kind[j]) /\ InLine(kind[con'.queue[k]])) => j < con'.queue[k]
    BY DEF CallsFit, InLine
  <2>. QED
    BY <1>8, <2>1, <2>3, <2>4 DEF OrderFits, Interactive
<1>. QED
  BY <1>9, <1>10

\* The queue is cleared.
LEMMA QueueCleared ==
  ASSUME FieldsType, FieldsType', Waits, kind' = kind, sent' = sent, call' = call,
         con'.queue = <<>>, con.stale \subseteq con'.stale, life' = Cleared
  PROVE  Waits'
<1> USE Sentinels, Members DEF Waits
<1>1. \A j \in Inputs : life'[j] = IF InQueue(j) THEN "over" ELSE life[j]
  BY DEF Cleared, InQueue
<1>2. \A j \in Inputs : ~InQueue(j)'
  BY DEF InQueue
<1>3. \A j \in Inputs : InQueue(j) => life[j] = "open"
  BY DEF LivesFit
<1>4. \A k \in DOMAIN sent : sent[k] \in Inputs
  BY DEF FieldsType
<1>5. LivesFit'
  <2>1. \A j \in Inputs : life'[j] = "open" => (InQueue(j)' <=> call'[j] = "none")
    BY <1>1, <1>2 DEF LivesFit
  <2>2. \A j \in Inputs : InQueue(j)' => life'[j] = "open"
    BY <1>2
  <2>3. \A j \in Inputs : call'[j] \notin {"none", "accepted"} => life'[j] = "open"
    BY <1>1, <1>3 DEF LivesFit
  <2>4. \A j \in Inputs : call'[j] = "accepted" => life'[j] \notin {"new", "open"}
    BY <1>1, <1>3 DEF LivesFit
  <2>5. \A k \in DOMAIN sent' : life'[sent'[k]] \notin {"new", "open"}
    BY <1>1, <1>4 DEF LivesFit
  <2>6. \A j, k \in Inputs : (j < k /\ life'[k] # "new") => life'[j] # "new"
    BY <1>1, <1>3 DEF LivesFit
  <2>7. \A k, n \in DOMAIN sent' : sent'[k] = sent'[n] => k = n
    BY DEF LivesFit
  <2>. QED
    BY <2>1, <2>2, <2>3, <2>4, <2>5, <2>6, <2>7 DEF LivesFit
<1>6. OrderFits'
  <2>1. DOMAIN con'.queue = {}
    OBVIOUS
  <2>2. \A k \in DOMAIN sent : \A j \in Inputs :
          (/\ InLine(kind[sent[k]]) /\ InLine(kind[j])
           /\ life'[j] = "open" /\ j \notin con'.stale) => sent[k] < j
    BY <1>1 DEF OrderFits, Interactive
  <2>3. SentInOrder'
    BY DEF OrderFits, SentInOrder
  <2>. QED
    BY <2>1, <2>2, <2>3 DEF OrderFits, Interactive
<1>. QED
  BY <1>5, <1>6

-----------------------------------------------------------------------------
(* Input arrives *)

\* The types of an arrival.
LEMMA AcceptTypes ==
  ASSUME Inv, NEW i \in Inputs, NEW b \in BOOLEAN, NEW v \in BOOLEAN, Accept(i, b, v)
  PROVE  /\ \E blank \in BOOLEAN :
              kind' = [kind EXCEPT ![i] = [background |-> b, verified |-> v, blank |-> blank]]
         /\ kind' \in [Inputs -> [background : BOOLEAN, verified : BOOLEAN, blank : BOOLEAN]]
         /\ pass' = pass /\ rest' \in [Inputs -> Inputs \cup {None}]
         /\ losses' \in 0 .. MaxLosses /\ stalled' \in BOOLEAN /\ stalled' = stalled
<1>1. PICK blank \in BOOLEAN :
        kind' = [kind EXCEPT ![i] = [background |-> b, verified |-> v, blank |-> blank]]
  BY DEF Accept
<1>2. kind' \in [Inputs -> [background : BOOLEAN, verified : BOOLEAN, blank : BOOLEAN]]
  BY <1>1 DEF Inv, Frames, Types, FieldsType
<1>3. pass' = pass /\ rest' = rest /\ losses' = losses /\ stalled' = stalled
  BY DEF Accept
<1>4. rest \in [Inputs -> Inputs \cup {None}] /\ losses \in 0 .. MaxLosses /\ stalled \in BOOLEAN
  BY DEF Inv, Frames, Types, FieldsType
<1>. QED
  BY <1>1, <1>2, <1>3, <1>4

\* The kind of an input matters to its call only.
LEMMA KindAdded ==
  ASSUME NEW c, NEW i \in Inputs, NEW kn, FieldsType, CallsFit(c, call, kind), call[i] = "none"
  PROVE  CallsFit(c, call, [kind EXCEPT ![i] = kn])
<1> DEFINE kd == [kind EXCEPT ![i] = kn]
<1>1. \A j \in Inputs : j # i => kd[j] = kind[j]
  BY DEF FieldsType
<1>. QED
  BY <1>1 DEF CallsFit

LEMMA QueuedKeeps ==
  ASSUME Inv, NEW i \in Inputs, NEW b \in BOOLEAN, NEW v \in BOOLEAN,
         Accept(i, b, v), Queued(i), SubmitWaits \/ EnqueueWaits
  PROVE  Inv'
<1> USE Sentinels
<1>0. IsNext(i) /\ FieldsType /\ Waits /\ LivesFit /\ FramesFit(con, call, pass) /\ CallsFit(con, call, kind)
  BY DEF Accept, Inv, Frames, Types, Waits
<1>1. life[i] = "new" /\ call[i] = "none"
  BY <1>0, Newcomer
<1>11. PICK kn : kind' = [kind EXCEPT ![i] = kn]
  BY AcceptTypes
<1>2. /\ con' = [con EXCEPT !.queue = Append(@, i)] /\ life' = [life EXCEPT ![i] = "open"]
      /\ call' = call /\ sent' = sent
  BY DEF Queued, Becomes
<1>3. con \in Consoles
  BY <1>0 DEF FieldsType, Consoles
<1>4. PICK q \in Seq(Inputs) : q = Append(con.queue, i)
  BY <1>3, Appended DEF Consoles
<1>5. /\ con' \in Consoles /\ con'.queue = q
      /\ con'.attached = con.attached /\ con'.disposed = con.disposed /\ con'.state = con.state
      /\ con'.inputState = con.inputState /\ con'.canceller = con.canceller
      /\ con'.cancelled = con.cancelled /\ con'.stale = con.stale /\ con'.busyId = con.busyId
      /\ con'.enqueueCheck = con.enqueueCheck /\ con'.drain = con.drain
  BY <1>2, <1>3, <1>4 DEF Consoles
<1>6. FieldsType'
  <2>1. life' \in [Inputs -> Lives]
    BY <1>0, <1>2 DEF FieldsType, Lives
  <2>2. call' \in [Inputs -> Calls] /\ sent' \in Seq(Inputs)
    BY <1>0, <1>2 DEF FieldsType
  <2>3. pass' \in [pc : {"none", "check", "execute"}, input : Inputs \cup {None}]
    BY <1>0, AcceptTypes DEF FieldsType
  <2>. QED
    BY <1>5, <2>1, <2>2, <2>3, AcceptTypes DEF FieldsType, Consoles
<1>7. FramesFit(con', call', pass')
  BY <1>0, <1>2, <1>5, AcceptTypes DEF FramesFit
<1>8. CallsFit(con', call', kind')
  <2>1. CallsFit(con, call, kind')
    BY <1>0, <1>1, <1>11, KindAdded
  <2>. QED
    BY <1>2, <1>5, <2>1 DEF CallsFit
<1>9. Waits'
  <2>1. /\ con'.queue = Append(con.queue, i) /\ con'.stale = con.stale
        /\ life' = [life EXCEPT ![i] = "open"] /\ call' = call /\ sent' = sent
    BY <1>2, <1>4, <1>5
  <2>. QED
    BY <1>0, <1>6, <1>11, <2>1, JoinsQueue
<1>10. Served'
  <2> SUFFICES ASSUME Resting', ~stalled'
               PROVE  \E j \in Inputs : life'[j] \in {"handed", "kernel", "busy"} \/ call'[j] # "none"
    BY DEF Served
  <2>1. Resting /\ ~stalled
    BY <1>5, AcceptTypes DEF Resting
  <2>2. pass = NoPass /\ con.inputState = "Idle"
    BY <1>0, <2>1 DEF FramesFit, Resting
  <2>3. con.enqueueCheck \/ PendingShown
    BY <2>1, <2>2 DEF SubmitWaits, EnqueueWaits, Occupied, InProgress, Resting
  <2>4. CASE con.enqueueCheck
    BY <1>0, <1>2, <2>4 DEF FramesFit
  <2>5. CASE PendingShown
    <3>1. con.queue # <<>>
      BY <2>5 DEF PendingShown
    <3>2. PICK j \in Inputs : life[j] \in {"handed", "kernel", "busy"} \/ call[j] # "none"
      BY <2>1, <3>1 DEF Inv, Served
    <3>. QED
      BY <1>0, <1>1, <1>2, <3>2 DEF FieldsType
  <2>. QED
    BY <2>3, <2>4, <2>5
<1>. QED
  BY <1>6, <1>7, <1>8, <1>9, <1>10 DEF Inv, Frames, Types

LEMMA AtOnceKeeps ==
  ASSUME Inv, NEW i \in Inputs, NEW b \in BOOLEAN, NEW v \in BOOLEAN, NEW n \in BOOLEAN,
         Accept(i, b, v), ~Occupied, Sent(con, i), call' = call,
         con' = IF con.attached THEN [con EXCEPT !.busyId = i, !.interactive = n] ELSE con
  PROVE  Inv'
<1> USE Sentinels
<1>0. IsNext(i) /\ FieldsType /\ Waits /\ LivesFit /\ FramesFit(con, call, pass) /\ CallsFit(con, call, kind)
  BY DEF Accept, Inv, Frames, Types, Waits
<1>1. call[i] = "none"
  BY <1>0, Newcomer
<1>11. PICK kn : kind' = [kind EXCEPT ![i] = kn]
  BY AcceptTypes
<1>2. con \in Consoles
  BY <1>0 DEF FieldsType, Consoles
<1>3. PICK l \in Late : /\ life' = [life EXCEPT ![i] = l]
                        /\ sent' \in {sent, Append(sent, i)}
  BY DEF Sent, Becomes, Late
<1>4. /\ con' \in Consoles /\ con'.queue = con.queue
      /\ con'.attached = con.attached /\ con'.disposed = con.disposed /\ con'.state = con.state
      /\ con'.inputState = con.inputState /\ con'.canceller = con.canceller
      /\ con'.cancelled = con.cancelled /\ con'.stale = con.stale
      /\ con'.enqueueCheck = con.enqueueCheck /\ con'.drain = con.drain
      /\ con.attached => con'.busyId = i
  BY <1>2 DEF Consoles
<1>5. FieldsType'
  <2>1. life' \in [Inputs -> Lives]
    BY <1>0, <1>3 DEF FieldsType, Lives, Late
  <2>2. call' \in [Inputs -> Calls]
    BY <1>0 DEF FieldsType
  <2>3. sent' \in Seq(Inputs)
    <3>1. sent \in Seq(Inputs)
      BY <1>0 DEF FieldsType
    <3>2. Append(sent, i) \in Seq(Inputs)
      BY <3>1, Appended
    <3>. QED
      BY <1>3, <3>1, <3>2
  <2>4. pass' \in [pc : {"none", "check", "execute"}, input : Inputs \cup {None}]
    BY <1>0, AcceptTypes DEF FieldsType
  <2>. QED
    BY <1>4, <2>1, <2>2, <2>3, <2>4, AcceptTypes DEF FieldsType, Consoles
<1>6. FramesFit(con', call', pass')
  BY <1>0, <1>4, AcceptTypes DEF FramesFit
<1>7. CallsFit(con', call', kind')
  <2>1. CallsFit(con, call, kind')
    BY <1>0, <1>1, <1>11, KindAdded
  <2>. QED
    BY <1>4, <2>1 DEF CallsFit
<1>8. ~PendingShown /\ con.canceller = None
  BY DEF Occupied, InProgress
<1>9. Waits'
  <2>1. con'.queue = con.queue /\ con'.stale = con.stale
    BY <1>4
  <2>. QED
    BY <1>0, <1>3, <1>5, <1>8, <1>11, <2>1, SentAtOnce
<1>10. Served'
  BY <1>4 DEF Served, Resting
<1>. QED
  BY <1>5, <1>6, <1>7, <1>9, <1>10 DEF Inv, Frames, Types

LEMMA StartsKeep ==
  ASSUME Inv, NEW i \in Inputs, NEW b \in BOOLEAN, NEW v \in BOOLEAN,
         NEW m \in {"boundaries", "prepare", "background"},
         Accept(i, b, v), ~Occupied, (m = "background") <=> b,
         call' = [call EXCEPT ![i] = m], Becomes(i, "open"), UNCHANGED sent,
         \/ m = "background" /\ con' = con
         \/ m = "boundaries" /\ con' = [con EXCEPT !.canceller = i]
         \/ m = "prepare" /\ con' = [con EXCEPT !.canceller = i, !.enqueueCheck = TRUE]
  PROVE  Inv'
<1> USE Sentinels
<1>0. IsNext(i) /\ FieldsType /\ Waits /\ LivesFit /\ FramesFit(con, call, pass) /\ CallsFit(con, call, kind)
  BY DEF Accept, Inv, Frames, Types, Waits
<1>1. call[i] = "none" /\ i \notin con.stale
  BY <1>0, Newcomer
<1>2. con \in Consoles
  BY <1>0 DEF FieldsType, Consoles
<1>3. /\ con' \in Consoles /\ con'.queue = con.queue
      /\ con'.inputState = con.inputState
      /\ con'.cancelled = con.cancelled /\ con'.stale = con.stale
      /\ con'.canceller = IF m = "background" THEN con.canceller ELSE i
      /\ con'.enqueueCheck => con.enqueueCheck \/ m = "prepare"
  <2>1. CASE m = "background" /\ con' = con
    BY <1>2, <2>1
  <2>2. CASE m = "boundaries" /\ con' = [con EXCEPT !.canceller = i]
    BY <1>2, <2>2 DEF Consoles
  <2>3. CASE m = "prepare" /\ con' = [con EXCEPT !.canceller = i, !.enqueueCheck = TRUE]
    BY <1>2, <2>3 DEF Consoles
  <2>. QED
    BY <2>1, <2>2, <2>3
<1>4. call'[i] = m /\ call' \in [Inputs -> Calls] /\ \A j \in Inputs : j # i => call'[j] = call[j]
  BY <1>0 DEF FieldsType, Calls
<1>5. life' = [life EXCEPT ![i] = "open"]
  BY DEF Becomes
<1>6. FieldsType'
  <2>1. life' \in [Inputs -> Lives]
    BY <1>0, <1>5 DEF FieldsType, Lives
  <2>2. sent' \in Seq(Inputs)
    BY <1>0 DEF FieldsType
  <2>3. pass' \in [pc : {"none", "check", "execute"}, input : Inputs \cup {None}]
    BY <1>0, AcceptTypes DEF FieldsType
  <2>. QED
    BY <1>3, <1>4, <2>1, <2>2, <2>3, AcceptTypes DEF FieldsType, Consoles
<1>7. ~PendingShown /\ con.canceller = None /\ con.inputState # "Processing"
  BY DEF Occupied, InProgress
<1>8. FramesFit(con', call', pass')
  <2>1. con'.enqueueCheck => \E j \in Inputs : call'[j] \in {"prepare", "check"}
    BY <1>0, <1>1, <1>3, <1>4 DEF FramesFit
  <2>. QED
    BY <1>0, <1>3, <1>7, <2>1, AcceptTypes DEF FramesFit
<1>9. CallsFit(con', call', kind')
  <2>1. kind'[i].background = b /\ \A j \in Inputs : j # i => kind'[j] = kind[j]
    BY <1>0, AcceptTypes DEF FieldsType
  <2>2. \A j \in Inputs : call'[j] # "none" => ((call'[j] = "background") <=> kind'[j].background)
    BY <1>0, <1>4, <2>1 DEF CallsFit
  <2>3. \A j \in Inputs : (call'[j] # "none" /\ ~kind'[j].background) =>
          IF j \in con'.stale THEN j \in con'.cancelled ELSE con'.canceller = j
    BY <1>0, <1>1, <1>3, <1>4, <1>7, <2>1 DEF CallsFit
  <2>4. \A j \in con'.stale : call'[j] # "none" /\ con'.canceller # j
    BY <1>0, <1>1, <1>2, <1>3, <1>4, <1>7 DEF CallsFit, Consoles
  <2>5. con'.canceller \in Inputs => call'[con'.canceller] \notin {"none", "background"}
    BY <1>3, <1>4, <1>7
  <2>. QED
    BY <1>3, <1>7, <2>2, <2>3, <2>4, <2>5 DEF CallsFit
<1>12. PICK kn : kn.background = b /\ kind' = [kind EXCEPT ![i] = kn]
  <2>1. PICK blank \in BOOLEAN :
          kind' = [kind EXCEPT ![i] = [background |-> b, verified |-> v, blank |-> blank]]
    BY AcceptTypes
  <2>2. [background |-> b, verified |-> v, blank |-> blank].background = b
    OBVIOUS
  <2>. QED
    BY <2>1, <2>2
<1>10. Waits'
  <2>1. b \/ ~PendingShown
    BY <1>7
  <2>2. m \in Calls \ {"none", "accepted"}
    BY DEF Calls
  <2>4. sent' = sent /\ con'.queue = con.queue /\ con'.stale = con.stale
    BY <1>3
  <2>3. kn.background \/ ~PendingShown
    BY <1>12, <2>1
  <2>. QED
    BY <1>0, <1>5, <1>6, <1>12, <2>2, <2>3, <2>4, JoinsCalls
<1>11. Served'
  <2>1. call'[i] # "none"
    BY <1>4
  <2>. QED
    BY <2>1 DEF Served
<1>. QED
  BY <1>6, <1>8, <1>9, <1>10, <1>11 DEF Inv, Frames, Types

LEMMA ArrivalsKeep == ASSUME Inv, Arrives PROVE Inv'
<1> USE Sentinels
<1>1. PICK i \in Inputs :
        \/ Submit(i)
        \/ \E background \in BOOLEAN : Execute(i, background)
        \/ \E background, verified \in BOOLEAN : Enqueue(i, background, verified)
  BY DEF Arrives
<1>2. CASE Submit(i)
  <2>1. Accept(i, FALSE, FALSE)
    BY <1>2 DEF Submit
  <2>2. CASE SubmitWaits
    BY <1>2, <2>1, <2>2, QueuedKeeps DEF Submit
  <2>3. CASE ~SubmitWaits /\ ~con.attached
    <3>1. Becomes(i, "over") /\ con' = con /\ call' = call /\ sent' = sent
      BY <1>2, <2>3 DEF Submit
    <3>2. Sent(con, i) /\ ~Occupied
      BY <2>3, <3>1 DEF Sent, SubmitWaits
    <3>. QED
      BY <2>1, <2>3, <3>1, <3>2, AtOnceKeeps
  <2>4. CASE ~SubmitWaits /\ con.attached
    <3>1. /\ con' = [con EXCEPT !.canceller = i] /\ call' = [call EXCEPT ![i] = "boundaries"]
          /\ Becomes(i, "open") /\ UNCHANGED sent
      BY <1>2, <2>4 DEF Submit
    <3>2. ~Occupied
      BY <2>4 DEF SubmitWaits
    <3>. QED
      BY <2>1, <3>1, <3>2, StartsKeep
  <2>. QED
    BY <2>2, <2>3, <2>4
<1>3. ASSUME NEW b \in BOOLEAN, Execute(i, b) PROVE Inv'
  <2>1. Accept(i, b, TRUE)
    BY <1>3 DEF Execute
  <2>2. CASE SubmitWaits
    BY <1>3, <2>1, <2>2, QueuedKeeps DEF Execute
  <2>3. CASE ~SubmitWaits
    <3>1. PICK n \in BOOLEAN : n = ~b
      OBVIOUS
    <3>2. Sent(con, i) /\ call' = call /\
          con' = IF con.attached THEN [con EXCEPT !.busyId = i, !.interactive = n] ELSE con
      BY <1>3, <2>3, <3>1 DEF Execute
    <3>3. ~Occupied
      BY <2>3 DEF SubmitWaits
    <3>. QED
      BY <2>1, <3>2, <3>3, AtOnceKeeps
  <2>. QED
    BY <2>2, <2>3
<1>4. ASSUME NEW b \in BOOLEAN, NEW v \in BOOLEAN, Enqueue(i, b, v) PROVE Inv'
  <2>1. Accept(i, b, v)
    BY <1>4 DEF Enqueue
  <2>2. CASE EnqueueWaits
    BY <1>4, <2>1, <2>2, QueuedKeeps DEF Enqueue
  <2>3. CASE ~EnqueueWaits /\ b /\ v
    <3>1. Sent(con, i) /\ call' = call /\ con' = [con EXCEPT !.busyId = i, !.interactive = FALSE]
      BY <1>4, <2>3 DEF Enqueue
    <3>2. ~Occupied /\ con.attached
      BY <2>3 DEF EnqueueWaits
    <3>. QED
      BY <2>1, <3>1, <3>2, AtOnceKeeps
  <2>4. CASE ~EnqueueWaits /\ ~(b /\ v)
    <3>1. /\ con' = IF b THEN con ELSE [con EXCEPT !.canceller = i, !.enqueueCheck = TRUE]
          /\ call' = [call EXCEPT ![i] = IF b THEN "background" ELSE "prepare"]
          /\ Becomes(i, "open") /\ UNCHANGED sent
      BY <1>4, <2>4 DEF Enqueue
    <3>2. ~Occupied
      BY <2>4 DEF EnqueueWaits
    <3>3. CASE b
      <4>1. con' = con /\ call' = [call EXCEPT ![i] = "background"]
        BY <3>1, <3>3
      <4>. QED
        BY <2>1, <3>1, <3>2, <3>3, <4>1, StartsKeep
    <3>4. CASE ~b
      <4>1. con' = [con EXCEPT !.canceller = i, !.enqueueCheck = TRUE]
            /\ call' = [call EXCEPT ![i] = "prepare"]
        BY <3>1, <3>4
      <4>. QED
        BY <2>1, <3>1, <3>2, <3>4, <4>1, StartsKeep
    <3>. QED
      BY <3>3, <3>4
  <2>. QED
    BY <2>2, <2>3, <2>4
<1>. QED
  BY <1>1, <1>2, <1>3, <1>4

-----------------------------------------------------------------------------
(* Calls return *)

\* FieldsType but for the instance and the pass.
OtherTypes ==
  /\ call \in [Inputs -> Calls]
  /\ kind \in [Inputs -> [background : BOOLEAN, verified : BOOLEAN, blank : BOOLEAN]]
  /\ life \in [Inputs -> Lives]
  /\ sent \in Seq(Inputs)
  /\ rest \in [Inputs -> Inputs \cup {None}]
  /\ losses \in 0 .. MaxLosses
  /\ stalled \in BOOLEAN

PassType == pass \in [pc : {"none", "check", "execute"}, input : Inputs \cup {None}]

LEMMA Fields == FieldsType <=> (con \in Consoles /\ PassType /\ OtherTypes)
BY DEF FieldsType, Consoles, PassType, OtherTypes

LEMMA FieldsNext == FieldsType' <=> (con' \in Consoles /\ PassType' /\ OtherTypes')
BY DEF FieldsType, Consoles, PassType, OtherTypes

LEMMA Parts ==
  ASSUME Inv
  PROVE  /\ FieldsType /\ con \in Consoles /\ PassType /\ OtherTypes
         /\ FramesFit(con, call, pass) /\ CallsFit(con, call, kind)
         /\ Waits /\ LivesFit /\ OrderFits /\ Served
BY Fields DEF Inv, Frames, Types, Waits

\* The instance goes on after x, and nothing else of it changes.
LEMMA OnwardKeeps ==
  ASSUME Inv, OtherTypes', NEW x \in Consoles, x.inputState = con.inputState,
         Onward(x, con'), pass' = PassOf(con, con'),
         (~x.disposed /\ x.state = "idle" /\ MayProcess(x)) => con'.inputState = "Processing",
         FramesFit(x, call', pass), CallsFit(x, call', kind')
  PROVE  Frames' /\ FieldsType' /\ Served' /\ con'.queue = x.queue /\ con'.stale = x.stale
<1> USE Sentinels
<1>1. FramesFit(con', call', pass') /\ CallsFit(con', call', kind')
  BY GoesOn
<1>2. con' \in Consoles /\ con'.queue = x.queue /\ con'.stale = x.stale
  BY DEF Onward
<1>3. PassType'
  <2>1. CASE pass' = pass
    BY <2>1, Parts DEF PassType
  <2>2. CASE pass' # pass
    <3>1. pass' = [pc |-> "check", input |-> Head(con'.queue)]
      BY <2>2 DEF PassOf
    <3>2. pass'.input \in Inputs
      BY <1>1, <3>1 DEF FramesFit, NoPass
    <3>. QED
      BY <3>1, <3>2 DEF PassType
  <2>. QED
    BY <2>1, <2>2
<1>4. FieldsType'
  BY <1>2, <1>3, FieldsNext
<1>5. Served'
  BY <1>1, <1>4, NotStranded
<1>. QED
  BY <1>1, <1>2, <1>4, <1>5 DEF Frames, Types

LEMMA InstanceGoesOn ==
  ASSUME Inv, OtherTypes', NEW x \in Consoles, x.inputState = con.inputState,
         Instance(Drain(x)) \/ Instance(Process(x)),
         FramesFit(x, call', pass), CallsFit(x, call', kind')
  PROVE  Frames' /\ FieldsType' /\ Served' /\ con'.queue = x.queue /\ con'.stale = x.stale
<1>1. pass' = PassOf(con, con') /\ (con' = Drain(x) \/ con' = Process(x))
  BY DEF Instance
<1>2. /\ Onward(x, con')
      /\ (~x.disposed /\ x.state = "idle" /\ MayProcess(x)) => con'.inputState = "Processing"
  BY <1>1, DrainGoesOn, ProcessGoesOn
<1>. QED
  BY <1>1, <1>2, OnwardKeeps

\* The instance with another busy input, or something queued.
Alike(c, d) ==
  /\ d \in Consoles
  /\ d.attached = c.attached /\ d.disposed = c.disposed /\ d.state = c.state
  /\ d.inputState = c.inputState /\ d.canceller = c.canceller
  /\ d.cancelled = c.cancelled /\ d.stale = c.stale
  /\ d.enqueueCheck = c.enqueueCheck /\ d.drain = c.drain

LEMMA AlikeFits ==
  ASSUME NEW c, NEW d, Alike(c, d), NEW ca, NEW kd, NEW p,
         FramesFit(c, ca, p), CallsFit(c, ca, kd)
  PROVE  FramesFit(d, ca, p) /\ CallsFit(d, ca, kd)
BY DEF Alike, FramesFit, CallsFit

LEMMA Busies ==
  ASSUME NEW c \in Consoles, NEW i \in Inputs,
         kind \in [Inputs -> [background : BOOLEAN, verified : BOOLEAN, blank : BOOLEAN]]
  PROVE  /\ Alike(c, c)
         /\ Alike(c, Track(c, i)) /\ Track(c, i).queue = c.queue
         /\ Alike(c, NotBusy(c, i)) /\ NotBusy(c, i).queue = c.queue
<1> USE Sentinels
<1>1. PICK n \in BOOLEAN : n = ~kind[i].background
  OBVIOUS
<1>2. Track(c, i) = [c EXCEPT !.busyId = i, !.interactive = n]
  BY <1>1 DEF Track
<1>3. PICK b \in Inputs \cup {None} : b = IF c.busyId = i THEN None ELSE c.busyId
  BY DEF Consoles
<1>4. NotBusy(c, i) = [c EXCEPT !.busyId = b]
  BY <1>3 DEF NotBusy, Consoles
<1>5. Alike(c, c)
  BY DEF Alike
<1>6. Alike(c, Track(c, i)) /\ Track(c, i).queue = c.queue
  BY <1>2 DEF Consoles, Alike
<1>7. Alike(c, NotBusy(c, i)) /\ NotBusy(c, i).queue = c.queue
  BY <1>4 DEF Consoles, Alike
<1>. QED
  BY <1>5, <1>6, <1>7

LEMMA RemainderQueued ==
  ASSUME Inv, NEW i \in Inputs, NEW r \in Inputs
  PROVE  /\ Alike(con, WithRemainder(i, r))
         /\ WithRemainder(i, r).queue = Append(con.queue, r)
<1>1. con \in Consoles /\ kind \in [Inputs -> [background : BOOLEAN, verified : BOOLEAN, blank : BOOLEAN]]
  BY Parts DEF OtherTypes
<1>2. PICK q \in Seq(Inputs) : q = Append(con.queue, r)
  BY <1>1, Appended DEF Consoles
<1>3. PICK d \in Consoles : d = [con EXCEPT !.queue = q]
  BY <1>1 DEF Consoles
<1>4. Alike(con, d) /\ d.queue = q
  BY <1>1, <1>3 DEF Alike, Consoles
<1>5. WithRemainder(i, r) = Track(d, i)
  BY <1>1, <1>2, <1>3 DEF WithRemainder, Consoles
<1>6. Alike(d, Track(d, i)) /\ Track(d, i).queue = d.queue
  BY <1>1, Busies
<1>. QED
  BY <1>2, <1>4, <1>5, <1>6 DEF Alike

\* submitCode returns, with an instance c that is as before but for what is busy
\* and queued.
LEMMA SubmitReturns ==
  ASSUME Inv, OtherTypes', NEW i \in Inputs, NEW c, Alike(con, c),
         call[i] \in {"boundaries", "supervisor", "accepted"}, Returns(i),
         Instance(SubmitEnds(c, i)), CallsFit(con, call, kind')
  PROVE  Frames' /\ FieldsType' /\ Served' /\ con'.queue = c.queue /\ con'.stale = con.stale \ {i}
<1>1. c \in Consoles /\ c.stale = con.stale /\ c.inputState = con.inputState
  BY DEF Alike
<1>2. FramesFit(c, call, pass) /\ CallsFit(c, call, kind')
  BY Parts, AlikeFits
<1>3. call \in [Inputs -> Calls] /\ call' = [call EXCEPT ![i] = "none"]
  BY Parts DEF OtherTypes, Returns
<1>4. PICK x : x = SubmitEnded(c, i)
  OBVIOUS
<1>5. /\ x \in Consoles /\ SameTurn(c, x) /\ x.stale = c.stale \ {i}
      /\ FramesFit(x, call', pass) /\ CallsFit(x, call', kind')
  BY <1>1, <1>2, <1>3, <1>4, SubmitEndsWith
<1>6. SubmitEnds(c, i) = Drain(x)
  BY <1>4 DEF SubmitEnds, SubmitEnded
<1>7. x.inputState = con.inputState /\ x.queue = c.queue
  BY <1>1, <1>5 DEF SameTurn
<1>. QED
  BY <1>1, <1>5, <1>6, <1>7, InstanceGoesOn

\* And enqueueCode.
LEMMA EnqueueReturns ==
  ASSUME Inv, OtherTypes', NEW i \in Inputs, NEW c, Alike(con, c),
         call[i] \in {"prepare", "check", "background"}, Returns(i),
         Instance(EnqueueEnds(c, i)), CallsFit(con, call, kind'),
         kind'[i].background = kind[i].background
  PROVE  Frames' /\ FieldsType' /\ Served' /\ con'.queue = c.queue /\ con'.stale = con.stale \ {i}
<1>1. c \in Consoles /\ c.stale = con.stale /\ c.inputState = con.inputState
  BY DEF Alike
<1>2. FramesFit(c, call, pass) /\ CallsFit(c, call, kind')
  BY Parts, AlikeFits
<1>3. /\ call \in [Inputs -> Calls] /\ call' = [call EXCEPT ![i] = "none"]
      /\ kind \in [Inputs -> [background : BOOLEAN, verified : BOOLEAN, blank : BOOLEAN]]
  BY Parts DEF OtherTypes, Returns
<1>4. PICK x : x = EnqueueEnded(c, i)
  OBVIOUS
<1>5. /\ x \in Consoles /\ SameTurn(c, x) /\ x.stale = c.stale \ {i}
      /\ FramesFit(x, call', pass) /\ CallsFit(x, call', kind')
  BY <1>1, <1>2, <1>3, <1>4, EnqueueEndsWith
<1>6. EnqueueEnds(c, i) = Drain(x)
  BY <1>4 DEF EnqueueEnds, EnqueueEnded
<1>7. x.inputState = con.inputState /\ x.queue = c.queue
  BY <1>1, <1>5 DEF SameTurn
<1>. QED
  BY <1>1, <1>5, <1>6, <1>7, InstanceGoesOn

LEMMA SentTypes ==
  ASSUME Inv, NEW i \in Inputs, Sent(con, i)
  PROVE  /\ life' \in [Inputs -> Lives] /\ sent' \in Seq(Inputs)
         /\ \E l \in Late : life' = [life EXCEPT ![i] = l]
         /\ sent' \in {sent, Append(sent, i)}
<1>1. life \in [Inputs -> Lives] /\ sent \in Seq(Inputs) /\ Append(sent, i) \in Seq(Inputs)
  BY Parts, Appended DEF OtherTypes
<1>2. PICK l \in Late : life' = [life EXCEPT ![i] = l]
  BY DEF Sent, Becomes, Late
<1>3. sent' \in {sent, Append(sent, i)}
  BY DEF Sent
<1>4. life' \in [Inputs -> Lives]
  BY <1>1, <1>2 DEF Late, Lives
<1>. QED
  BY <1>1, <1>2, <1>3, <1>4

\* The call's input is over.
LEMMA OverTypes ==
  ASSUME Inv, NEW i \in Inputs, Becomes(i, "over")
  PROVE  life' \in [Inputs -> Lives] /\ life' = [life EXCEPT ![i] = "over"] /\ "over" \in Late
BY Parts DEF OtherTypes, Becomes, Late, Lives

LEMMA ReturnTypes ==
  ASSUME Inv, NEW i \in Inputs, Returns(i)
  PROVE  call' \in [Inputs -> Calls] /\ call' = [call EXCEPT ![i] = "none"] /\ "none" \in {"none", "accepted"}
BY Parts DEF OtherTypes, Returns, Calls

LEMMA SplitTypes ==
  ASSUME Inv, NEW i \in Inputs, NEW r \in Inputs, Splits(i, r), call[i] # "none",
         stalled' = FALSE
  PROVE  /\ OtherTypes' /\ CallsFit(con, call, kind') /\ kind'[i] = kind[i]
<1> USE Sentinels
<1>0. OtherTypes
  BY Parts
<1>1. call[r] = "none" /\ i # r
  BY Parts, Newcomer DEF Splits
<1>2. PICK kn : /\ kn = [background |-> FALSE, verified |-> TRUE, blank |-> FALSE]
                /\ kind' = [kind EXCEPT ![r] = kn]
  BY DEF Splits
<1>3. CallsFit(con, call, kind')
  BY <1>1, <1>2, Parts, KindAdded
<1>4. kind'[i] = kind[i] /\ kind' \in [Inputs -> [background : BOOLEAN, verified : BOOLEAN, blank : BOOLEAN]]
  BY <1>0, <1>1, <1>2 DEF OtherTypes
<1>5. life' \in [Inputs -> Lives]
  BY <1>0 DEF OtherTypes, Splits, Lives
<1>6. sent' \in Seq(Inputs)
  <2>1. Append(sent, i) \in Seq(Inputs)
    BY <1>0, Appended DEF OtherTypes
  <2>. QED
    BY <2>1 DEF Splits
<1>7. rest' \in [Inputs -> Inputs \cup {None}] /\ losses' \in 0 .. MaxLosses
  BY <1>0 DEF OtherTypes, Splits
<1>8. stalled' \in BOOLEAN
  OBVIOUS
<1>9. call' \in [Inputs -> Calls]
  BY ReturnTypes DEF Splits
<1>. QED
  BY <1>3, <1>4, <1>5, <1>6, <1>7, <1>8, <1>9 DEF OtherTypes

\* A call that is to be sent has not been cancelled.
LEMMA NotGone ==
  ASSUME Inv, NEW i \in Inputs
  PROVE  /\ (call[i] = "boundaries" /\ ~Gone(i)) =>
              con.attached /\ i \notin con.stale /\ life[i] = "open" /\ ~kind[i].background
         /\ (call[i] \in {"prepare", "check", "background"} /\ ~EnqueueGone(i)) =>
              con.attached /\ (Interactive(i) => i \notin con.stale) /\ life[i] = "open"
         /\ (call[i] = "prepare" /\ ~EnqueueGone(i)) => ~kind[i].background /\ i \notin con.stale
<1>1. CallsFit(con, call, kind) /\ LivesFit
  BY Parts
<1>2. call[i] \in {"boundaries", "prepare"} => ~kind[i].background
  BY <1>1 DEF CallsFit
<1>3. call[i] \in {"boundaries", "prepare", "check", "background"} => life[i] = "open"
  BY <1>1 DEF LivesFit
<1>. QED
  BY <1>2, <1>3 DEF Gone, EnqueueGone, Interactive, InLine

LEMMA SubmissionKeeps ==
  ASSUME Inv, NEW i \in Inputs, Submission(i) PROVE Inv'
<1> USE Sentinels
<1>0. /\ FieldsType /\ con \in Consoles /\ OtherTypes /\ LivesFit /\ Waits
      /\ CallsFit(con, call, kind) /\ FramesFit(con, call, pass)
      /\ kind \in [Inputs -> [background : BOOLEAN, verified : BOOLEAN, blank : BOOLEAN]]
  BY Parts DEF OtherTypes
<1>1. CASE SubmitOver(i)
  <2>1. /\ call[i] = "boundaries" /\ Instance(SubmitEnds(con, i)) /\ Becomes(i, "over")
        /\ Returns(i) /\ kind' = kind /\ sent' = sent /\ rest' = rest
        /\ losses' = losses /\ stalled' = FALSE
    BY <1>1 DEF SubmitOver, Instance
  <2>2. OtherTypes'
    BY <1>0, <2>1, OverTypes, ReturnTypes DEF OtherTypes
  <2>3. Frames' /\ FieldsType' /\ Served' /\ con'.queue = con.queue /\ con'.stale = con.stale \ {i}
    BY <1>0, <2>1, <2>2, Busies, SubmitReturns
  <2>4. Waits'
    BY <1>0, <2>1, <2>3, OverTypes, ReturnTypes, CallLeaves
  <2>. QED
    BY <2>3, <2>4 DEF Inv
<1>2. CASE SubmitWhole(i)
  <2>1. /\ call[i] = "boundaries" /\ ~Gone(i) /\ Sent(con, i)
        /\ Instance(SubmitEnds(Track(con, i), i)) /\ Returns(i)
        /\ kind' = kind /\ rest' = rest /\ losses' = losses /\ stalled' = FALSE
    BY <1>2 DEF SubmitWhole, Instance
  <2>2. OtherTypes'
    BY <1>0, <2>1, SentTypes, ReturnTypes DEF OtherTypes
  <2>3. PICK c : c = Track(con, i)
    OBVIOUS
  <2>4. Alike(con, c) /\ c.queue = con.queue
    BY <1>0, <2>3, Busies
  <2>5. Frames' /\ FieldsType' /\ Served' /\ con'.queue = con.queue /\ con'.stale = con.stale \ {i}
    BY <1>0, <2>1, <2>2, <2>3, <2>4, SubmitReturns
  <2>6. i \notin con.stale /\ life[i] = "open"
    BY <2>1, NotGone
  <2>7. PICK l \in Late : life' = [life EXCEPT ![i] = l]
    BY <2>1, SentTypes
  <2>8. Waits'
    BY <1>0, <2>1, <2>5, <2>6, <2>7, SentTypes, ReturnTypes, CallLeaves
  <2>. QED
    BY <2>5, <2>8 DEF Inv
<1>3. CASE SubmitSplit(i)
  <2>1. call[i] = "boundaries" /\ ~Gone(i)
    BY <1>3 DEF SubmitSplit
  <2>2. PICK r \in Inputs : Splits(i, r) /\ Instance(SubmitEnds(WithRemainder(i, r), i))
    BY <1>3 DEF SubmitSplit
  <2>3. OtherTypes' /\ CallsFit(con, call, kind')
    BY <2>1, <2>2, SplitTypes DEF Instance
  <2>4. PICK c : c = WithRemainder(i, r)
    OBVIOUS
  <2>5. Alike(con, c) /\ c.queue = Append(con.queue, r)
    BY <2>4, RemainderQueued
  <2>6. Returns(i)
    BY <2>2 DEF Splits
  <2>7. /\ Frames' /\ FieldsType' /\ Served'
        /\ con'.queue = Append(con.queue, r) /\ con'.stale = con.stale \ {i}
    BY <2>1, <2>2, <2>3, <2>4, <2>5, <2>6, SubmitReturns
  <2>8. Waits'
    BY <1>0, <2>1, <2>2, <2>7, NotGone, SplitInTwo
  <2>. QED
    BY <2>7, <2>8 DEF Inv
<1>4. CASE SubmitUnprocessed(i)
  <2>1. /\ call[i] = "boundaries" /\ con' = [con EXCEPT !.busyId = i, !.interactive = TRUE]
        /\ call' = [call EXCEPT ![i] = "supervisor"]
        /\ pass' = pass /\ kind' = kind /\ life' = life /\ sent' = sent /\ rest' = rest
        /\ losses' = losses /\ stalled' = stalled
    BY <1>4 DEF SubmitUnprocessed
  <2>2. Alike(con, con') /\ con'.queue = con.queue
    BY <1>0, <2>1 DEF Alike, Consoles
  <2>3. /\ call' \in [Inputs -> Calls] /\ call'[i] = "supervisor"
        /\ \A j \in Inputs : j # i => call'[j] = call[j]
    BY <1>0, <2>1 DEF OtherTypes, Calls
  <2>4. OtherTypes' /\ PassType'
    BY <1>0, <2>1, <2>3, Parts DEF OtherTypes, PassType
  <2>5. FramesFit(con, call', pass) /\ CallsFit(con, call', kind)
    BY <1>0, <2>1, <2>3 DEF FramesFit, CallsFit
  <2>6. FramesFit(con', call', pass') /\ CallsFit(con', call', kind')
    BY <2>1, <2>2, <2>5, AlikeFits
  <2>7. FieldsType' /\ con'.stale = con.stale
    BY <2>2, <2>4, FieldsNext DEF Alike
  <2>8. Waits'
    BY <1>0, <2>1, <2>2, <2>3, <2>7, OthersGoOn
  <2>9. Served'
    BY <2>3 DEF Served
  <2>. QED
    BY <2>6, <2>7, <2>8, <2>9 DEF Inv, Frames, Types
<1>5. CASE SupervisorAccepts(i)
  <2>1. /\ call[i] = "supervisor" /\ i \notin con.cancelled
        /\ call' = [call EXCEPT ![i] = "accepted"]
        /\ life' = [life EXCEPT ![i] = "kernel"] /\ sent' = Append(sent, i)
        /\ con' = con /\ pass' = pass /\ kind' = kind /\ rest' = rest
        /\ losses' = losses /\ stalled' = stalled
    BY <1>5 DEF SupervisorAccepts, Becomes
  <2>2. /\ call' \in [Inputs -> Calls] /\ call'[i] = "accepted"
        /\ \A j \in Inputs : j # i => call'[j] = call[j]
    BY <1>0, <2>1 DEF OtherTypes, Calls
  <2>3. life' \in [Inputs -> Lives] /\ "kernel" \in Late
    BY <1>0, <2>1 DEF OtherTypes, Lives, Late
  <2>4. sent' \in Seq(Inputs)
    BY <1>0, <2>1, Appended DEF OtherTypes
  <2>5. OtherTypes' /\ PassType'
    BY <1>0, <2>1, <2>2, <2>3, <2>4, Parts DEF OtherTypes, PassType
  <2>6. FramesFit(con', call', pass') /\ CallsFit(con', call', kind')
    BY <1>0, <2>1, <2>2 DEF FramesFit, CallsFit
  <2>7. FieldsType'
    BY <1>0, <2>1, <2>5, FieldsNext
  <2>8. life[i] = "open" /\ i \notin con.stale
    BY <1>0, <2>1 DEF LivesFit, CallsFit
  <2>9. con'.queue = con.queue /\ con.stale \ {i} \subseteq con'.stale /\ "accepted" \in {"none", "accepted"}
    BY <2>1
  <2>10. Waits'
    BY <1>0, <2>1, <2>3, <2>7, <2>8, <2>9, CallLeaves
  <2>11. Served'
    BY <2>2 DEF Served
  <2>. QED
    BY <2>6, <2>7, <2>10, <2>11 DEF Inv, Frames, Types
<1>6. CASE AcceptReturns(i)
  <2>1. /\ call[i] = "accepted" /\ Instance(SubmitEnds(IF Gone(i) THEN NotBusy(con, i) ELSE con, i))
        /\ Returns(i) /\ kind' = kind /\ life' = life /\ sent' = sent /\ rest' = rest
        /\ losses' = losses /\ stalled' = FALSE
    BY <1>6 DEF AcceptReturns, Instance
  <2>2. OtherTypes'
    BY <1>0, <2>1, ReturnTypes DEF OtherTypes
  <2>3. PICK c : c = IF Gone(i) THEN NotBusy(con, i) ELSE con
    OBVIOUS
  <2>4. Alike(con, c) /\ c.queue = con.queue
    BY <1>0, <2>3, Busies
  <2>5. Frames' /\ FieldsType' /\ Served' /\ con'.queue = con.queue /\ con'.stale = con.stale \ {i}
    BY <1>0, <2>1, <2>2, <2>3, <2>4, SubmitReturns
  <2>6. life[i] \in Late
    BY <1>0, <2>1 DEF LivesFit, OtherTypes, Lives, Late
  <2>7. PICK l \in Late : life' = [life EXCEPT ![i] = l]
    BY <1>0, <2>1, <2>6 DEF OtherTypes
  <2>8. Waits'
    BY <1>0, <2>1, <2>5, <2>7, ReturnTypes, CallLeaves
  <2>. QED
    BY <2>5, <2>8 DEF Inv
<1>7. CASE SupervisorRefuses(i)
  <2>1. /\ call[i] = "supervisor" /\ Instance(SubmitEnds(NotBusy(con, i), i)) /\ Becomes(i, "over")
        /\ Returns(i) /\ kind' = kind /\ sent' = sent /\ rest' = rest
        /\ losses' = losses /\ stalled' = FALSE
    BY <1>7 DEF SupervisorRefuses, Instance
  <2>2. OtherTypes'
    BY <1>0, <2>1, OverTypes, ReturnTypes DEF OtherTypes
  <2>3. PICK c : c = NotBusy(con, i)
    OBVIOUS
  <2>4. Alike(con, c) /\ c.queue = con.queue
    BY <1>0, <2>3, Busies
  <2>5. Frames' /\ FieldsType' /\ Served' /\ con'.queue = con.queue /\ con'.stale = con.stale \ {i}
    BY <1>0, <2>1, <2>2, <2>3, <2>4, SubmitReturns
  <2>6. Waits'
    BY <1>0, <2>1, <2>5, OverTypes, ReturnTypes, CallLeaves
  <2>. QED
    BY <2>5, <2>6 DEF Inv
<1>. QED
  BY <1>1, <1>2, <1>3, <1>4, <1>5, <1>6, <1>7 DEF Submission

LEMMA EnqueuingKeeps ==
  ASSUME Inv, NEW i \in Inputs, Enqueuing(i) PROVE Inv'
<1> USE Sentinels
<1>0. /\ FieldsType /\ con \in Consoles /\ OtherTypes /\ LivesFit /\ Waits
      /\ CallsFit(con, call, kind) /\ FramesFit(con, call, pass)
      /\ kind \in [Inputs -> [background : BOOLEAN, verified : BOOLEAN, blank : BOOLEAN]]
  BY Parts DEF OtherTypes
<1>1. CASE EnqueueOver(i)
  <2>1. /\ call[i] \in {"prepare", "check", "background"} /\ Instance(EnqueueEnds(con, i))
        /\ Becomes(i, "over") /\ Returns(i) /\ kind' = kind /\ sent' = sent /\ rest' = rest
        /\ losses' = losses /\ stalled' = FALSE
    BY <1>1 DEF EnqueueOver, Instance
  <2>2. OtherTypes'
    BY <1>0, <2>1, OverTypes, ReturnTypes DEF OtherTypes
  <2>3. Frames' /\ FieldsType' /\ Served' /\ con'.queue = con.queue /\ con'.stale = con.stale \ {i}
    BY <1>0, <2>1, <2>2, Busies, EnqueueReturns
  <2>4. Waits'
    BY <1>0, <2>1, <2>3, OverTypes, ReturnTypes, CallLeaves
  <2>. QED
    BY <2>3, <2>4 DEF Inv
<1>2. CASE EnqueueChecks(i)
  <2>1. /\ call[i] = "prepare" /\ con' = con /\ call' = [call EXCEPT ![i] = "check"]
        /\ pass' = pass /\ kind' = kind /\ life' = life /\ sent' = sent /\ rest' = rest
        /\ losses' = losses /\ stalled' = stalled
    BY <1>2 DEF EnqueueChecks
  <2>2. /\ call' \in [Inputs -> Calls] /\ call'[i] = "check"
        /\ \A j \in Inputs : j # i => call'[j] = call[j]
    BY <1>0, <2>1 DEF OtherTypes, Calls
  <2>3. OtherTypes' /\ PassType'
    BY <1>0, <2>1, <2>2, Parts DEF OtherTypes, PassType
  <2>4. FramesFit(con', call', pass')
    BY <1>0, <2>1, <2>2 DEF FramesFit
  <2>5. CallsFit(con', call', kind')
    BY <1>0, <2>1, <2>2 DEF CallsFit
  <2>6. FieldsType'
    BY <1>0, <2>1, <2>3, FieldsNext
  <2>7. Waits'
    BY <1>0, <2>1, <2>2, <2>6, OthersGoOn
  <2>8. Served'
    BY <2>2 DEF Served
  <2>. QED
    BY <2>4, <2>5, <2>6, <2>7, <2>8 DEF Inv, Frames, Types
<1>3. CASE EnqueueSends(i)
  <2>1. /\ call[i] \in {"prepare", "check", "background"} /\ ~EnqueueGone(i) /\ Sent(con, i)
        /\ Instance(EnqueueEnds(Track(con, i), i)) /\ Returns(i)
        /\ kind' = kind /\ rest' = rest /\ losses' = losses /\ stalled' = FALSE
    BY <1>3 DEF EnqueueSends, Instance
  <2>2. OtherTypes'
    BY <1>0, <2>1, SentTypes, ReturnTypes DEF OtherTypes
  <2>3. PICK c : c = Track(con, i)
    OBVIOUS
  <2>4. Alike(con, c) /\ c.queue = con.queue
    BY <1>0, <2>3, Busies
  <2>5. Frames' /\ FieldsType' /\ Served' /\ con'.queue = con.queue /\ con'.stale = con.stale \ {i}
    BY <1>0, <2>1, <2>2, <2>3, <2>4, EnqueueReturns
  <2>6. (Interactive(i) => i \notin con.stale) /\ life[i] = "open"
    BY <2>1, NotGone
  <2>7. PICK l \in Late : life' = [life EXCEPT ![i] = l]
    BY <2>1, SentTypes
  <2>8. Waits'
    BY <1>0, <2>1, <2>5, <2>6, <2>7, SentTypes, ReturnTypes, CallLeaves
  <2>. QED
    BY <2>5, <2>8 DEF Inv
<1>4. CASE EnqueueSplit(i)
  <2>1. call[i] = "prepare" /\ ~EnqueueGone(i)
    BY <1>4 DEF EnqueueSplit
  <2>2. PICK r \in Inputs : Splits(i, r) /\ Instance(EnqueueEnds(WithRemainder(i, r), i))
    BY <1>4 DEF EnqueueSplit
  <2>3. OtherTypes' /\ CallsFit(con, call, kind') /\ kind'[i] = kind[i]
    BY <2>1, <2>2, SplitTypes DEF Instance
  <2>4. PICK c : c = WithRemainder(i, r)
    OBVIOUS
  <2>5. Alike(con, c) /\ c.queue = Append(con.queue, r)
    BY <2>4, RemainderQueued
  <2>6. Returns(i)
    BY <2>2 DEF Splits
  <2>7. /\ Frames' /\ FieldsType' /\ Served'
        /\ con'.queue = Append(con.queue, r) /\ con'.stale = con.stale \ {i}
    BY <2>1, <2>2, <2>3, <2>4, <2>5, <2>6, EnqueueReturns
  <2>8. Waits'
    BY <1>0, <2>1, <2>2, <2>7, NotGone, SplitInTwo
  <2>. QED
    BY <2>7, <2>8 DEF Inv
<1>. QED
  BY <1>1, <1>2, <1>3, <1>4 DEF Enqueuing

-----------------------------------------------------------------------------
(* The pass over the queue *)

\* The pass ends with an instance c that cannot be cancelled by it any more.
LEMMA PassReturns ==
  ASSUME Inv, OtherTypes', NEW c \in Consoles, NEW on \in BOOLEAN, PassEnds(c, on),
         call' = call, kind' = kind, CallsFit(c, call, kind),
         c.enqueueCheck = con.enqueueCheck, c.canceller # Pass,
         \/ on
         \/ stalled' = (c.queue # <<>>)
         \/ ~(c.attached /\ c.busyId = None /\ c.state = "idle")
  PROVE  Frames' /\ FieldsType' /\ Served' /\ con'.queue = c.queue /\ con'.stale = c.stale
<1> USE Sentinels
<1>1. PICK d : d = [c EXCEPT !.inputState = "Idle"]
  OBVIOUS
<1>2. PICK e : e = IF on THEN Drain(d) ELSE d
  OBVIOUS
<1>3. /\ con' = e
      /\ pass' = IF e.inputState = "Processing"
                   THEN [pc |-> "check", input |-> Head(e.queue)] ELSE NoPass
  BY <1>1, <1>2 DEF PassEnds
<1>4. /\ d \in Consoles /\ d.queue = c.queue /\ d.stale = c.stale /\ d.inputState = "Idle"
      /\ d.canceller = c.canceller /\ d.cancelled = c.cancelled /\ d.enqueueCheck = c.enqueueCheck
      /\ d.attached = c.attached /\ d.busyId = c.busyId /\ d.state = c.state
  BY <1>1 DEF Consoles
<1>5. /\ Onward(d, e)
      /\ (on /\ ~d.disposed /\ d.state = "idle" /\ MayProcess(d)) => e.inputState = "Processing"
  BY <1>2, <1>4, DrainGoesOn DEF Onward
<1>6. FramesFit(d, call, NoPass)
  BY <1>4, Parts DEF FramesFit, NoPass
<1>7. CallsFit(d, call, kind)
  BY <1>4 DEF CallsFit
<1>8. pass' = PassFrom(NoPass, d, e)
  BY <1>3, <1>4 DEF PassFrom
<1>9. FramesFit(con', call', pass') /\ CallsFit(con', call', kind')
  BY <1>3, <1>4, <1>5, <1>6, <1>7, <1>8, FramesGoOn
<1>10. con' \in Consoles /\ con'.queue = c.queue /\ con'.stale = c.stale
  BY <1>3, <1>4, <1>5 DEF Onward
<1>11. PassType'
  <2>1. CASE pass' = NoPass
    BY <2>1 DEF PassType, NoPass
  <2>2. CASE pass' # NoPass
    <3>1. pass' = [pc |-> "check", input |-> Head(e.queue)]
      BY <1>3, <2>2
    <3>2. pass'.input \in Inputs
      BY <1>9, <3>1 DEF FramesFit, NoPass
    <3>. QED
      BY <3>1, <3>2 DEF PassType
  <2>. QED
    BY <2>1, <2>2
<1>12. FieldsType'
  BY <1>10, <1>11, FieldsNext
<1>13. Served'
  <2>1. CASE on
    BY <1>3, <1>4, <1>5, <1>9, <1>12, <2>1, NotStranded
  <2>2. CASE ~on
    BY <1>2, <1>3, <1>4, <1>10, <2>2 DEF Served, Resting
  <2>. QED
    BY <2>1, <2>2
<1>. QED
  BY <1>9, <1>10, <1>12, <1>13 DEF Frames, Types

LEMMA CheckReturns ==
  ASSUME Inv
  PROVE  /\ Checked \in Consoles /\ Checked.queue = con.queue /\ Checked.stale = con.stale
         /\ Checked.inputState = con.inputState /\ Checked.enqueueCheck = con.enqueueCheck
         /\ Checked.canceller # Pass /\ CallsFit(Checked, call, kind)
         /\ con.canceller \notin Inputs => Checked.canceller = None
<1> USE Sentinels
<1>0. con \in Consoles /\ CallsFit(con, call, kind)
  BY Parts
<1>1. PICK h \in Inputs \cup {None} : h = IF con.canceller = Pass THEN None ELSE con.canceller
  BY <1>0 DEF Consoles
<1>2. PICK cn \in SUBSET (Inputs \cup {Pass}) : cn = con.cancelled \ {Pass}
  BY <1>0 DEF Consoles
<1>3. Checked = [con EXCEPT !.canceller = h, !.cancelled = cn]
  BY <1>0, <1>1, <1>2 DEF Checked, Consoles
<1>4. /\ Checked \in Consoles /\ Checked.queue = con.queue /\ Checked.stale = con.stale
      /\ Checked.inputState = con.inputState /\ Checked.enqueueCheck = con.enqueueCheck
      /\ Checked.canceller = h /\ Checked.cancelled = cn
  BY <1>0, <1>3 DEF Consoles
<1>5. CallsFit(Checked, call, kind)
  BY <1>0, <1>1, <1>2, <1>4 DEF CallsFit, Consoles
<1>6. con.canceller \notin Inputs => h = None
  BY <1>0, <1>1 DEF Consoles
<1>. QED
  BY <1>1, <1>4, <1>5, <1>6

LEMMA HeadShifted ==
  ASSUME Inv, con.queue # <<>>
  PROVE  /\ Shifted \in Consoles /\ Shifted.queue = Tail(con.queue) /\ Shifted.stale = con.stale
         /\ Shifted.inputState = con.inputState /\ Shifted.enqueueCheck = con.enqueueCheck
         /\ Shifted.canceller # Pass /\ CallsFit(Shifted, call, kind)
         /\ con.canceller \notin Inputs => Shifted.canceller = None
<1>1. PICK q \in Seq(Inputs) : q = Tail(con.queue)
  BY Parts, Headed DEF Consoles
<1>2. Shifted = [Checked EXCEPT !.queue = q]
  BY <1>1, CheckReturns DEF Shifted, Consoles
<1>3. /\ Shifted \in Consoles /\ Shifted.queue = q /\ Shifted.stale = Checked.stale
      /\ Shifted.inputState = Checked.inputState /\ Shifted.enqueueCheck = Checked.enqueueCheck
      /\ Shifted.canceller = Checked.canceller /\ Shifted.cancelled = Checked.cancelled
  BY <1>2, CheckReturns DEF Consoles
<1>4. CallsFit(Shifted, call, kind)
  BY <1>3, CheckReturns DEF CallsFit
<1>. QED
  BY <1>1, <1>3, <1>4, CheckReturns

\* A check that is not outdated is of the head of the queue.
LEMMA OfTheHead ==
  ASSUME Inv, pass.pc = "check", ~Outdated
  PROVE  /\ con.queue # <<>> /\ Head(con.queue) = pass.input /\ pass.input \in Inputs
         /\ con.canceller \notin Inputs /\ con.inputState = "Processing"
<1>1. con.queue # <<>> /\ Head(con.queue) = pass.input /\ con.inputState # "Interrupted"
  BY DEF Outdated
<1>2. pass.input \in Inputs /\ con.inputState # "Idle"
  BY Parts DEF FramesFit, NoPass
<1>3. con.inputState = "Processing"
  BY <1>1, <1>2, Parts DEF Consoles
<1>. QED
  BY <1>1, <1>2, <1>3, Parts DEF CallsFit

LEMMA PassingKeeps == ASSUME Inv, Passing PROVE Inv'
<1> USE Sentinels
<1>0. /\ FieldsType /\ con \in Consoles /\ OtherTypes /\ LivesFit /\ Waits
      /\ CallsFit(con, call, kind) /\ FramesFit(con, call, pass)
      /\ life \in [Inputs -> Lives] /\ sent \in Seq(Inputs)
      /\ kind \in [Inputs -> [background : BOOLEAN, verified : BOOLEAN, blank : BOOLEAN]]
  BY Parts DEF OtherTypes
<1>1. CASE PassOutdated
  <2>1. /\ PassEnds(Checked, FALSE) /\ stalled' = (Checked.queue # <<>>) /\ call' = call /\ kind' = kind /\ life' = life
        /\ sent' = sent /\ rest' = rest /\ losses' = losses
    BY <1>1 DEF PassOutdated, Leaves
  <2>2. stalled' \in BOOLEAN
    BY <2>1
  <2>3. OtherTypes'
    BY <1>0, <2>1, <2>2 DEF OtherTypes
  <2>4. Frames' /\ FieldsType' /\ Served' /\ con'.queue = con.queue /\ con'.stale = con.stale
    BY <2>1, <2>3, CheckReturns, PassReturns
  <2>5. Waits'
    BY <1>0, <2>1, <2>4, OthersGoOn
  <2>. QED
    BY <2>4, <2>5 DEF Inv
<1>2. CASE PassCancelled
  <2>1. /\ pass.pc = "check" /\ ~Outdated /\ PassEnds(Shifted, TRUE) /\ Becomes(pass.input, "over")
        /\ call' = call /\ kind' = kind /\ sent' = sent /\ rest' = rest /\ losses' = losses
        /\ stalled' = FALSE
    BY <1>2 DEF PassCancelled
  <2>2. stalled' \in BOOLEAN
    BY <2>1
  <2>3. PICK h \in Inputs : h = pass.input /\ h = Head(con.queue)
    BY <2>1, OfTheHead
  <2>4. con.queue # <<>> /\ con.canceller \notin Inputs
    BY <2>1, OfTheHead
  <2>5. OtherTypes'
    BY <1>0, <2>1, <2>2, <2>3, OverTypes DEF OtherTypes
  <2>6. /\ Frames' /\ FieldsType' /\ Served'
        /\ con'.queue = Tail(con.queue) /\ con'.stale = con.stale
    BY <2>1, <2>4, <2>5, HeadShifted, PassReturns
  <2>7. life' = [life EXCEPT ![Head(con.queue)] = "over"] /\ "over" \in Late
    BY <2>1, <2>3, OverTypes
  <2>8. Waits'
    BY <1>0, <2>1, <2>4, <2>6, <2>7, HeadLeaves
  <2>. QED
    BY <2>6, <2>8 DEF Inv
<1>3. CASE PassIncomplete
  <2>0. pass.pc = "check" /\ ~Outdated
    BY <1>3 DEF PassIncomplete, Answered
  <2>a. kind[pass.input].background \in BOOLEAN
    BY <1>0, <2>0, OfTheHead
  <2>1. /\ pass.pc = "check" /\ ~Outdated /\ PassEnds(Shifted, kind[pass.input].background)
        /\ Becomes(pass.input, "over")
        /\ call' = call /\ kind' = kind /\ sent' = sent /\ rest' = rest /\ losses' = losses
        /\ IF kind[pass.input].background THEN stalled' = FALSE
                                          ELSE stalled' = (Shifted.queue # <<>>)
    BY <1>3, <2>0, <2>a DEF PassIncomplete, Leaves
  <2>2. stalled' \in BOOLEAN
    BY <2>1, <2>a
  <2>3. PICK h \in Inputs : h = pass.input /\ h = Head(con.queue)
    BY <2>1, OfTheHead
  <2>4. con.queue # <<>> /\ con.canceller \notin Inputs
    BY <2>1, OfTheHead
  <2>5. OtherTypes'
    BY <1>0, <2>1, <2>2, <2>3, OverTypes DEF OtherTypes
  <2>6. PICK on \in BOOLEAN : on = kind[pass.input].background
    BY <1>0, <2>3
  <2>7. /\ Frames' /\ FieldsType' /\ Served'
        /\ con'.queue = Tail(con.queue) /\ con'.stale = con.stale
    BY <2>1, <2>4, <2>5, <2>6, HeadShifted, PassReturns
  <2>8. life' = [life EXCEPT ![Head(con.queue)] = "over"] /\ "over" \in Late
    BY <2>1, <2>3, OverTypes
  <2>9. Waits'
    BY <1>0, <2>1, <2>4, <2>7, <2>8, HeadLeaves
  <2>. QED
    BY <2>7, <2>9 DEF Inv
<1>4. CASE PassFails
  <2>1. /\ PassEnds(Checked, FALSE) /\ stalled' = (Checked.queue # <<>>) /\ call' = call /\ kind' = kind /\ life' = life
        /\ sent' = sent /\ rest' = rest /\ losses' = losses
    BY <1>4 DEF PassFails, Leaves
  <2>2. stalled' \in BOOLEAN
    BY <2>1
  <2>3. OtherTypes'
    BY <1>0, <2>1, <2>2 DEF OtherTypes
  <2>4. Frames' /\ FieldsType' /\ Served' /\ con'.queue = con.queue /\ con'.stale = con.stale
    BY <2>1, <2>3, CheckReturns, PassReturns
  <2>5. Waits'
    BY <1>0, <2>1, <2>4, OthersGoOn
  <2>. QED
    BY <2>4, <2>5 DEF Inv
<1>5. CASE PassSends
  <2>1. /\ pass.pc = "check" /\ ~Outdated /\ con' = Track(Shifted, pass.input)
        /\ pass' = [pass EXCEPT !.pc = "execute"]
        /\ life' = [life EXCEPT ![pass.input] = "handed"] /\ sent' = Append(sent, pass.input)
        /\ call' = call /\ kind' = kind /\ rest' = rest /\ losses' = losses /\ stalled' = stalled
    BY <1>5 DEF PassSends, Answered, Becomes
  <2>2. PICK h \in Inputs : h = pass.input /\ h = Head(con.queue)
    BY <2>1, OfTheHead
  <2>3. con.queue # <<>> /\ con.canceller \notin Inputs /\ con.inputState = "Processing"
    BY <2>1, OfTheHead
  <2>4. Alike(Shifted, con') /\ con'.queue = Shifted.queue
    BY <1>0, <2>1, <2>2, <2>3, HeadShifted, Busies
  <2>5. pass'.pc = "execute" /\ pass'.input = h /\ PassType'
    BY <2>1, <2>2, Parts DEF PassType
  <2>6. FramesFit(con', call', pass')
    BY <1>0, <2>1, <2>3, <2>4, <2>5, HeadShifted DEF FramesFit, Alike, NoPass
  <2>7. CallsFit(con', call', kind')
    BY <2>1, <2>3, <2>4, HeadShifted DEF CallsFit, Alike
  <2>8. life' \in [Inputs -> Lives] /\ "handed" \in Late
    BY <1>0, <2>1, <2>2 DEF Lives, Late
  <2>9. sent' \in Seq(Inputs)
    BY <1>0, <2>1, <2>2, Appended
  <2>10. OtherTypes'
    BY <1>0, <2>1, <2>8, <2>9 DEF OtherTypes
  <2>11. FieldsType' /\ con'.queue = Tail(con.queue) /\ con'.stale = con.stale
    BY <2>3, <2>4, <2>5, <2>10, FieldsNext, HeadShifted DEF Alike
  <2>12. /\ life' = [life EXCEPT ![Head(con.queue)] = "handed"]
         /\ sent' \in {sent, Append(sent, Head(con.queue))}
    BY <2>1, <2>2
  <2>13. Waits'
    BY <1>0, <2>1, <2>3, <2>8, <2>11, <2>12, HeadLeaves
  <2>14. Served'
    BY <2>5 DEF Served, Resting
  <2>. QED
    BY <2>6, <2>7, <2>11, <2>13, <2>14 DEF Inv, Frames, Types
<1>6. CASE PassAccepted
  <2>1. /\ pass.pc = "execute"
        /\ life' = [life EXCEPT ![pass.input] = IF @ = "handed" THEN "kernel" ELSE @]
        /\ PassEnds(con, con.attached /\ con.busyId = None /\ con.state = "idle")
        /\ call' = call /\ kind' = kind /\ sent' = sent /\ rest' = rest /\ losses' = losses
        /\ stalled' = FALSE
    BY <1>6 DEF PassAccepted
  <2>2. stalled' \in BOOLEAN
    BY <2>1
  <2>3. pass.input \in Inputs /\ con.canceller # Pass
    BY <1>0, <2>1 DEF FramesFit, NoPass
  <2>4. life' \in [Inputs -> Lives]
    BY <1>0, <2>1, <2>3 DEF Lives
  <2>5. OtherTypes'
    BY <1>0, <2>1, <2>2, <2>4 DEF OtherTypes
  <2>6. PICK on \in BOOLEAN : on = (con.attached /\ con.busyId = None /\ con.state = "idle")
    OBVIOUS
  <2>7. Frames' /\ FieldsType' /\ Served' /\ con'.queue = con.queue /\ con'.stale = con.stale
    BY <1>0, <2>1, <2>3, <2>5, <2>6, PassReturns
  <2>8. \A j \in Inputs : life'[j] = life[j] \/ (life[j] \in Late /\ life'[j] \in Late)
    BY <1>0, <2>1, <2>3 DEF Late
  <2>9. Waits'
    BY <1>0, <2>1, <2>7, <2>8, OthersGoOn
  <2>. QED
    BY <2>7, <2>9 DEF Inv
<1>7. CASE PassRejected
  <2>1. /\ pass.pc = "execute" /\ life[pass.input] = "handed" /\ Becomes(pass.input, "over")
        /\ PassEnds(NotBusy(con, pass.input), TRUE)
        /\ call' = call /\ kind' = kind /\ sent' = sent /\ rest' = rest /\ losses' = losses
        /\ stalled' = FALSE
    BY <1>7 DEF PassRejected
  <2>2. stalled' \in BOOLEAN
    BY <2>1
  <2>3. pass.input \in Inputs /\ con.canceller # Pass
    BY <1>0, <2>1 DEF FramesFit, NoPass
  <2>4. OtherTypes'
    BY <1>0, <2>1, <2>2, <2>3, OverTypes DEF OtherTypes
  <2>5. PICK c : c = NotBusy(con, pass.input)
    OBVIOUS
  <2>6. Alike(con, c) /\ c.queue = con.queue
    BY <1>0, <2>3, <2>5, Busies
  <2>7. /\ c \in Consoles /\ CallsFit(c, call, kind) /\ c.stale = con.stale
        /\ c.enqueueCheck = con.enqueueCheck /\ c.canceller # Pass
    BY <1>0, <2>3, <2>6, AlikeFits DEF Alike
  <2>8. Frames' /\ FieldsType' /\ Served' /\ con'.queue = con.queue /\ con'.stale = con.stale
    BY <2>1, <2>4, <2>5, <2>6, <2>7, PassReturns
  <2>9. \A j \in Inputs : life'[j] = life[j] \/ (life[j] \in Late /\ life'[j] \in Late)
    BY <1>0, <2>1, <2>3 DEF Late, Becomes
  <2>10. Waits'
    BY <1>0, <2>1, <2>8, <2>9, OthersGoOn
  <2>. QED
    BY <2>8, <2>10 DEF Inv
<1>. QED
  BY <1>1, <1>2, <1>3, <1>4, <1>5, <1>6, <1>7 DEF Passing

LEMMA RunDrainKeeps == ASSUME Inv, RunDrain PROVE Inv'
<1>0. /\ FieldsType /\ con \in Consoles /\ OtherTypes /\ Waits
      /\ CallsFit(con, call, kind) /\ FramesFit(con, call, pass)
  BY Parts
<1>1. PICK x : x = [con EXCEPT !.drain = FALSE]
  OBVIOUS
<1>2. /\ Instance(Drain(x)) /\ call' = call /\ kind' = kind /\ life' = life /\ sent' = sent
      /\ rest' = rest /\ losses' = losses /\ stalled' = FALSE
  BY <1>1 DEF RunDrain, Instance
<1>3. /\ x \in Consoles /\ x.inputState = con.inputState /\ x.queue = con.queue
      /\ x.canceller = con.canceller /\ x.cancelled = con.cancelled /\ x.stale = con.stale
      /\ x.enqueueCheck = con.enqueueCheck
  BY <1>0, <1>1 DEF Consoles
<1>4. FramesFit(x, call, pass) /\ CallsFit(x, call, kind)
  BY <1>0, <1>3 DEF FramesFit, CallsFit
<1>5. OtherTypes'
  BY <1>0, <1>2 DEF OtherTypes
<1>6. Frames' /\ FieldsType' /\ Served' /\ con'.queue = con.queue /\ con'.stale = con.stale
  BY <1>2, <1>3, <1>4, <1>5, InstanceGoesOn
<1>7. Waits'
  BY <1>0, <1>2, <1>6, OthersGoOn
<1>. QED
  BY <1>6, <1>7 DEF Inv

-----------------------------------------------------------------------------
(* The session and the kernel *)

LEMMA KernelKeeps == ASSUME Inv, NEW i \in Inputs, Kernel(i) PROVE Inv'
<1> USE Sentinels
<1>0. /\ FieldsType /\ con \in Consoles /\ OtherTypes /\ PassType /\ Waits
      /\ CallsFit(con, call, kind) /\ FramesFit(con, call, pass)
      /\ life \in [Inputs -> Lives]
      /\ kind \in [Inputs -> [background : BOOLEAN, verified : BOOLEAN, blank : BOOLEAN]]
  BY Parts DEF OtherTypes
<1>a. PICK d : d = NotBusy(con, i)
  OBVIOUS
<1>b. Alike(con, d) /\ d.queue = con.queue /\ FramesFit(d, call, pass) /\ CallsFit(d, call, kind)
  BY <1>0, <1>a, Busies, AlikeFits
<1>c. d \in Consoles /\ d.inputState = con.inputState /\ d.stale = con.stale
  BY <1>b DEF Alike
<1>1. CASE Accepted(i)
  <2>1. /\ life[i] = "handed" /\ life' = [life EXCEPT ![i] = "kernel"]
        /\ con' = con /\ call' = call /\ pass' = pass /\ kind' = kind /\ sent' = sent
        /\ rest' = rest /\ losses' = losses /\ stalled' = stalled
    BY <1>1 DEF Accepted, Becomes
  <2>2. life' \in [Inputs -> Lives] /\ life'[i] = "kernel"
    BY <1>0, <2>1 DEF Lives
  <2>3. OtherTypes' /\ PassType' /\ FieldsType'
    BY <1>0, <2>1, <2>2, FieldsNext DEF OtherTypes, PassType
  <2>4. \A j \in Inputs : life'[j] = life[j] \/ (life[j] \in Late /\ life'[j] \in Late)
    BY <1>0, <2>1 DEF Late
  <2>5. Waits'
    BY <1>0, <2>1, <2>3, <2>4, OthersGoOn
  <2>6. FramesFit(con', call', pass') /\ CallsFit(con', call', kind')
    BY <1>0, <2>1
  <2>7. Served'
    BY <2>2 DEF Served
  <2>. QED
    BY <2>3, <2>5, <2>6, <2>7 DEF Inv, Frames, Types
<1>2. CASE Rejected(i)
  <2>1. /\ life[i] = "handed" /\ life' = [life EXCEPT ![i] = "over"] /\ Instance(Drain(d))
        /\ call' = call /\ kind' = kind /\ sent' = sent
        /\ rest' = rest /\ losses' = losses /\ stalled' = FALSE
    BY <1>2, <1>a DEF Rejected, Becomes, Instance
  <2>2. life' \in [Inputs -> Lives]
    BY <1>0, <2>1 DEF Lives
  <2>3. OtherTypes'
    BY <1>0, <2>1, <2>2 DEF OtherTypes
  <2>4. Frames' /\ FieldsType' /\ Served' /\ con'.queue = con.queue /\ con'.stale = con.stale
    BY <1>b, <1>c, <2>1, <2>3, InstanceGoesOn
  <2>5. \A j \in Inputs : life'[j] = life[j] \/ (life[j] \in Late /\ life'[j] \in Late)
    BY <1>0, <2>1 DEF Late
  <2>6. Waits'
    BY <1>0, <2>1, <2>4, <2>5, OthersGoOn
  <2>. QED
    BY <2>4, <2>6 DEF Inv
<1>3. CASE SaysBusy(i)
  <2>1. /\ life[i] = "kernel" /\ life' = [life EXCEPT ![i] = "busy"]
        /\ con' = (IF con.attached THEN d ELSE con)
        /\ call' = call /\ pass' = pass /\ kind' = kind /\ sent' = sent
        /\ rest' = rest /\ losses' = losses /\ stalled' = stalled
    BY <1>3, <1>a DEF SaysBusy, Becomes
  <2>2. life' \in [Inputs -> Lives] /\ life'[i] = "busy"
    BY <1>0, <2>1 DEF Lives
  <2>3. con' \in Consoles /\ con'.queue = con.queue /\ con'.stale = con.stale
    BY <1>0, <1>b, <1>c, <2>1
  <2>4. OtherTypes' /\ PassType' /\ FieldsType'
    BY <1>0, <2>1, <2>2, <2>3, FieldsNext DEF OtherTypes, PassType
  <2>5. \A j \in Inputs : life'[j] = life[j] \/ (life[j] \in Late /\ life'[j] \in Late)
    BY <1>0, <2>1 DEF Late
  <2>6. Waits'
    BY <1>0, <2>1, <2>3, <2>4, <2>5, OthersGoOn
  <2>7. FramesFit(con', call', pass') /\ CallsFit(con', call', kind')
    BY <1>0, <1>b, <2>1
  <2>8. Served'
    BY <2>2 DEF Served
  <2>. QED
    BY <2>4, <2>6, <2>7, <2>8 DEF Inv, Frames, Types
<1>4. CASE SaysIdle(i)
  <2>1. /\ life[i] = "busy" /\ life' = [life EXCEPT ![i] = "done"]
        /\ Instance(IF con.attached THEN Drain(d) ELSE con)
        /\ call' = call /\ kind' = kind /\ sent' = sent
        /\ rest' = rest /\ losses' = losses /\ stalled' = FALSE
    BY <1>4, <1>a DEF SaysIdle, Becomes, Instance
  <2>2. life' \in [Inputs -> Lives]
    BY <1>0, <2>1 DEF Lives
  <2>3. OtherTypes'
    BY <1>0, <2>1, <2>2 DEF OtherTypes
  <2>4. \A j \in Inputs : life'[j] = life[j] \/ (life[j] \in Late /\ life'[j] \in Late)
    BY <1>0, <2>1 DEF Late
  <2>5. CASE con.attached
    <3>1. Frames' /\ FieldsType' /\ Served' /\ con'.queue = con.queue /\ con'.stale = con.stale
      BY <1>b, <1>c, <2>1, <2>3, <2>5, InstanceGoesOn
    <3>2. Waits'
      BY <1>0, <2>1, <2>4, <3>1, OthersGoOn
    <3>. QED
      BY <3>1, <3>2 DEF Inv
  <2>6. CASE ~con.attached
    <3>1. con' = con /\ pass' = pass
      BY <2>1, <2>6 DEF Instance, PassOf
    <3>2. PassType' /\ FieldsType'
      BY <1>0, <2>3, <3>1, FieldsNext DEF PassType
    <3>3. Waits'
      BY <1>0, <2>1, <2>4, <3>1, <3>2, OthersGoOn
    <3>4. FramesFit(con', call', pass') /\ CallsFit(con', call', kind')
      BY <1>0, <2>1, <3>1
    <3>5. Served'
      BY <2>6, <3>1 DEF Served, Resting
    <3>. QED
      BY <3>2, <3>3, <3>4, <3>5 DEF Inv, Frames, Types
  <2>. QED
    BY <2>5, <2>6
<1>. QED
  BY <1>1, <1>2, <1>3, <1>4 DEF Kernel

\* The instance changes, but nothing else and not what it works on, and it is not
\* at rest.
LEMMA InstanceOnly ==
  ASSUME Inv, con' \in Consoles, call' = call, pass' = pass, kind' = kind, sent' = sent,
         OtherTypes', con'.queue = con.queue, con.stale \subseteq con'.stale,
         \A j \in Inputs : life'[j] = life[j] \/ (life[j] \in Late /\ life'[j] \in Late),
         FramesFit(con', call, pass), CallsFit(con', call, kind), ~Resting'
  PROVE  Inv'
<1>1. PassType' /\ FieldsType'
  BY Parts, FieldsNext DEF PassType
<1>2. Waits'
  BY <1>1, Parts, OthersGoOn
<1>3. FramesFit(con', call', pass') /\ CallsFit(con', call', kind')
  OBVIOUS
<1>4. Served'
  BY DEF Served
<1>. QED
  BY <1>1, <1>2, <1>3, <1>4 DEF Inv, Frames, Types

LEMMA Detached ==
  ASSUME Inv
  PROVE  LET x == Detach(con)
         IN  /\ x \in Consoles /\ ~x.attached /\ con.stale \subseteq x.stale
             /\ x.disposed = con.disposed /\ x.state = con.state
             /\ x.queue = con.queue /\ x.inputState = con.inputState
             /\ FramesFit(x, call, pass) /\ CallsFit(x, call, kind)
<1> USE Sentinels
<1>1. PICK y : y = CancelSubmission(con)
  OBVIOUS
<1>2. /\ y \in Consoles /\ con.stale \subseteq y.stale
      /\ y.disposed = con.disposed /\ y.state = con.state
      /\ y.queue = con.queue /\ y.inputState = con.inputState
      /\ FramesFit(y, call, pass) /\ CallsFit(y, call, kind)
  BY <1>1, Parts, Cancels DEF OtherTypes
<1>3. PICK x : x = Detach(con)
  OBVIOUS
<1>4. x = [y EXCEPT !.busyId = None, !.attached = FALSE]
  BY <1>1, <1>3 DEF Detach
<1>5. /\ x \in Consoles /\ ~x.attached /\ x.stale = y.stale /\ x.canceller = y.canceller
      /\ x.cancelled = y.cancelled /\ x.enqueueCheck = y.enqueueCheck
      /\ x.disposed = y.disposed /\ x.state = y.state
      /\ x.queue = y.queue /\ x.inputState = y.inputState
  BY <1>2, <1>4 DEF Consoles
<1>6. FramesFit(x, call, pass) /\ CallsFit(x, call, kind)
  BY <1>2, <1>5 DEF FramesFit, CallsFit
<1>. QED
  BY <1>2, <1>3, <1>5, <1>6

LEMMA SessionKeeps ==
  ASSUME Inv, KernelBusy \/ KernelIdle \/ SessionEnds \/ AttachRuntimeSession PROVE Inv'
<1> USE Sentinels
<1>0. /\ FieldsType /\ con \in Consoles /\ OtherTypes /\ Waits
      /\ CallsFit(con, call, kind) /\ FramesFit(con, call, pass)
      /\ life \in [Inputs -> Lives] /\ losses \in 0 .. MaxLosses
  BY Parts DEF OtherTypes
<1>1. CASE KernelBusy
  <2>1. /\ con' = [con EXCEPT !.state = "busy"]
        /\ call' = call /\ pass' = pass /\ kind' = kind /\ life' = life /\ sent' = sent
        /\ rest' = rest /\ losses' = losses /\ stalled' = stalled
    BY <1>1 DEF KernelBusy
  <2>2. /\ con' \in Consoles /\ con'.queue = con.queue /\ con'.stale = con.stale
        /\ con'.canceller = con.canceller /\ con'.cancelled = con.cancelled
        /\ con'.inputState = con.inputState /\ con'.enqueueCheck = con.enqueueCheck
        /\ con'.state = "busy"
    BY <1>0, <2>1 DEF Consoles
  <2>3. FramesFit(con', call, pass) /\ CallsFit(con', call, kind)
    BY <1>0, <2>2 DEF FramesFit, CallsFit
  <2>4. OtherTypes'
    BY <1>0, <2>1 DEF OtherTypes
  <2>5. ~Resting'
    BY <2>2 DEF Resting
  <2>. QED
    BY <2>1, <2>2, <2>3, <2>4, <2>5, InstanceOnly
<1>2. CASE KernelIdle
  <2>1. PICK x : x = [con EXCEPT !.state = "idle"]
    OBVIOUS
  <2>2. /\ Instance(Process(x)) /\ call' = call /\ kind' = kind /\ life' = life /\ sent' = sent
        /\ rest' = rest /\ losses' = losses /\ stalled' = FALSE
    BY <1>2, <2>1 DEF KernelIdle, Instance
  <2>3. /\ x \in Consoles /\ x.queue = con.queue /\ x.stale = con.stale
        /\ x.canceller = con.canceller /\ x.cancelled = con.cancelled
        /\ x.inputState = con.inputState /\ x.enqueueCheck = con.enqueueCheck
    BY <1>0, <2>1 DEF Consoles
  <2>4. FramesFit(x, call, pass) /\ CallsFit(x, call, kind)
    BY <1>0, <2>3 DEF FramesFit, CallsFit
  <2>5. OtherTypes'
    BY <1>0, <2>2 DEF OtherTypes
  <2>6. Frames' /\ FieldsType' /\ Served' /\ con'.queue = con.queue /\ con'.stale = con.stale
    BY <2>2, <2>3, <2>4, <2>5, InstanceGoesOn
  <2>7. Waits'
    BY <1>0, <2>2, <2>6, OthersGoOn
  <2>. QED
    BY <2>6, <2>7 DEF Inv
<1>3. CASE SessionEnds
  <2>1. PICK x : x = Detach(con)
    OBVIOUS
  <2>2. /\ losses < MaxLosses /\ losses' = losses + 1 /\ con' = [x EXCEPT !.state = "off"]
        /\ life' = Lost /\ call' = call /\ pass' = pass /\ kind' = kind /\ sent' = sent
        /\ rest' = rest /\ stalled' = stalled
    BY <1>3, <2>1 DEF SessionEnds
  <2>3. /\ x \in Consoles /\ ~x.attached /\ con.stale \subseteq x.stale /\ x.queue = con.queue
        /\ FramesFit(x, call, pass) /\ CallsFit(x, call, kind)
    BY <2>1, Detached
  <2>4. /\ con' \in Consoles /\ con'.queue = con.queue /\ con.stale \subseteq con'.stale
        /\ con'.stale = x.stale /\ con'.canceller = x.canceller /\ con'.cancelled = x.cancelled
        /\ con'.inputState = x.inputState /\ con'.enqueueCheck = x.enqueueCheck
        /\ con'.state = "off"
    BY <2>2, <2>3 DEF Consoles
  <2>5. FramesFit(con', call, pass) /\ CallsFit(con', call, kind)
    BY <2>3, <2>4 DEF FramesFit, CallsFit
  <2>6. losses' \in 0 .. MaxLosses
    BY <1>0, <2>2
  <2>7. life' \in [Inputs -> Lives]
    BY <1>0, <2>2 DEF Lost, Lives
  <2>8. OtherTypes'
    BY <1>0, <2>2, <2>6, <2>7 DEF OtherTypes
  <2>9. \A j \in Inputs : life'[j] = life[j] \/ (life[j] \in Late /\ life'[j] \in Late)
    BY <1>0, <2>2 DEF Lost, Late
  <2>10. ~Resting'
    BY <2>4 DEF Resting
  <2>. QED
    BY <2>2, <2>4, <2>5, <2>8, <2>9, <2>10, InstanceOnly
<1>4. CASE AttachRuntimeSession
  <2>1. PICK y : y = IF con.attached THEN Detach(con) ELSE con
    OBVIOUS
  <2>2. PICK x : x = Attach(y)
    OBVIOUS
  <2>3. /\ con.attached => losses < MaxLosses
        /\ losses' = IF con.attached THEN losses + 1 ELSE losses
        /\ Instance(IF x.state = "idle" THEN Process(x) ELSE x)
        /\ life' = life /\ call' = call /\ kind' = kind /\ sent' = sent
        /\ rest' = rest /\ stalled' = FALSE
    BY <1>4, <2>1, <2>2 DEF AttachRuntimeSession, Instance
  <2>4. /\ y \in Consoles /\ con.stale \subseteq y.stale /\ y.queue = con.queue
        /\ y.inputState = con.inputState
        /\ FramesFit(y, call, pass) /\ CallsFit(y, call, kind)
    BY <1>0, <2>1, Detached
  <2>5. /\ x \in Consoles /\ x.queue = y.queue /\ x.stale = y.stale
        /\ x.canceller = y.canceller /\ x.cancelled = y.cancelled
        /\ x.inputState = y.inputState /\ x.enqueueCheck = y.enqueueCheck
    BY <2>2, <2>4 DEF Attach, Consoles
  <2>6. FramesFit(x, call, pass) /\ CallsFit(x, call, kind)
    BY <2>4, <2>5 DEF FramesFit, CallsFit
  <2>7. losses' \in 0 .. MaxLosses
    BY <1>0, <2>3
  <2>8. OtherTypes'
    BY <1>0, <2>3, <2>7 DEF OtherTypes
  <2>9. Onward(x, con') /\ pass' = PassOf(con, con')
        /\ ((~x.disposed /\ x.state = "idle" /\ MayProcess(x)) => con'.inputState = "Processing")
    BY <2>3, <2>5, ProcessGoesOn DEF Instance, Onward
  <2>10. Frames' /\ FieldsType' /\ Served' /\ con'.queue = x.queue /\ con'.stale = x.stale
    BY <2>3, <2>4, <2>5, <2>6, <2>8, <2>9, OnwardKeeps
  <2>11. con'.queue = con.queue /\ con.stale \subseteq con'.stale
    BY <2>4, <2>5, <2>10
  <2>12. Waits'
    BY <1>0, <2>3, <2>10, <2>11, OthersGoOn
  <2>. QED
    BY <2>10, <2>12 DEF Inv
<1>. QED
  BY <1>1, <1>2, <1>3, <1>4

-----------------------------------------------------------------------------
(* The user *)

\* The queue is cleared, of an instance c.
LEMMA ClearedFits ==
  ASSUME NEW c \in Consoles, NEW ca, NEW kd, NEW p, FramesFit(c, ca, p), CallsFit(c, ca, kd)
  PROVE  LET x == ClearQueue(c)
         IN  /\ x \in Consoles /\ x.queue = <<>> /\ x.stale = c.stale
             /\ FramesFit(x, ca, p) /\ CallsFit(x, ca, kd)
<1>1. PICK s \in {"Idle", "Processing", "Interrupted"} :
        s = IF c.inputState = "Processing" THEN "Interrupted" ELSE c.inputState
  BY DEF Consoles
<1>2. PICK x : x = ClearQueue(c)
  OBVIOUS
<1>0. PICK q \in Seq(Inputs) : q = <<>>
  BY EmptySeq
<1>3. x = [c EXCEPT !.queue = q, !.inputState = s]
  BY <1>0, <1>1, <1>2 DEF ClearQueue, Consoles
<1>4. /\ x \in Consoles /\ x.queue = <<>> /\ x.stale = c.stale
      /\ x.canceller = c.canceller /\ x.cancelled = c.cancelled
      /\ x.inputState = s /\ x.enqueueCheck = c.enqueueCheck
  BY <1>0, <1>3 DEF Consoles
<1>5. FramesFit(x, ca, p) /\ CallsFit(x, ca, kd)
  BY <1>1, <1>4 DEF FramesFit, CallsFit
<1>. QED
  BY <1>2, <1>4, <1>5

LEMMA ClearedKeeps ==
  ASSUME Inv, con' \in Consoles, con'.queue = <<>>, con.stale \subseteq con'.stale,
         FramesFit(con', call, pass), CallsFit(con', call, kind),
         life' = Cleared, stalled' = FALSE, call' = call, pass' = pass, kind' = kind,
         sent' = sent, rest' = rest, losses' = losses
  PROVE  Inv'
<1>0. life \in [Inputs -> Lives] /\ OtherTypes
  BY Parts DEF OtherTypes
<1>1. life' \in [Inputs -> Lives]
  BY <1>0 DEF Cleared, Lives
<1>2. OtherTypes'
  BY <1>0, <1>1 DEF OtherTypes
<1>3. PassType' /\ FieldsType'
  BY <1>2, Parts, FieldsNext DEF PassType
<1>4. Waits'
  BY <1>3, Parts, QueueCleared
<1>5. FramesFit(con', call', pass') /\ CallsFit(con', call', kind')
  OBVIOUS
<1>6. Served'
  BY DEF Served
<1>. QED
  BY <1>3, <1>4, <1>5, <1>6 DEF Inv, Frames, Types

LEMMA UserKeeps == ASSUME Inv, User PROVE Inv'
<1> USE Sentinels
<1>0. /\ FieldsType /\ con \in Consoles /\ OtherTypes /\ Waits
      /\ CallsFit(con, call, kind) /\ FramesFit(con, call, pass)
      /\ call \in [Inputs -> Calls]
  BY Parts DEF OtherTypes
<1>1. CASE CancelCodeSubmission
  <2>1. /\ InProgress(con) /\ con' = CancelSubmission(con)
        /\ call' = call /\ pass' = pass /\ kind' = kind /\ life' = life /\ sent' = sent
        /\ rest' = rest /\ losses' = losses /\ stalled' = stalled
    BY <1>1 DEF CancelCodeSubmission
  <2>2. /\ con' \in Consoles /\ con'.queue = con.queue /\ con.stale \subseteq con'.stale
        /\ con'.drain /\ FramesFit(con', call, pass) /\ CallsFit(con', call, kind)
    BY <1>0, <2>1, Cancels
  <2>3. OtherTypes'
    BY <1>0, <2>1 DEF OtherTypes
  <2>4. ~Resting'
    BY <2>2 DEF Resting
  <2>. QED
    BY <2>1, <2>2, <2>3, <2>4, InstanceOnly
<1>2. CASE CancelCompletenessCheck
  <2>1. /\ con.canceller # None
        /\ con' = [con EXCEPT !.cancelled = @ \cup {con.canceller}]
        /\ call' = call /\ pass' = pass /\ kind' = kind /\ life' = life /\ sent' = sent
        /\ rest' = rest /\ losses' = losses /\ stalled' = stalled
    BY <1>2 DEF CancelCompletenessCheck
  <2>2. PICK cn \in SUBSET (Inputs \cup {Pass}) : cn = con.cancelled \cup {con.canceller}
    BY <1>0, <2>1 DEF Consoles
  <2>3. /\ con' \in Consoles /\ con'.queue = con.queue /\ con'.stale = con.stale
        /\ con'.canceller = con.canceller /\ con'.cancelled = cn
        /\ con'.inputState = con.inputState /\ con'.enqueueCheck = con.enqueueCheck
    BY <1>0, <2>1, <2>2 DEF Consoles
  <2>4. FramesFit(con', call, pass) /\ CallsFit(con', call, kind)
    <3>1. FramesFit(con', call, pass)
      BY <1>0, <2>3 DEF FramesFit
    <3>2. \A i \in Inputs : (call[i] # "none" /\ ~kind[i].background) =>
            IF i \in con'.stale THEN i \in con'.cancelled ELSE con'.canceller = i
      BY <1>0, <2>2, <2>3 DEF CallsFit
    <3>. QED
      BY <1>0, <2>3, <3>1, <3>2 DEF CallsFit
  <2>5. OtherTypes'
    BY <1>0, <2>1 DEF OtherTypes
  <2>6. ~Resting'
    BY <2>1, <2>3 DEF Resting
  <2>. QED
    BY <2>1, <2>3, <2>4, <2>5, <2>6, InstanceOnly
<1>3. CASE Interrupt \/ ClearConsole
  <2>1. /\ con' = ClearQueue(con) /\ life' = Cleared /\ stalled' = FALSE
        /\ call' = call /\ pass' = pass /\ kind' = kind /\ sent' = sent
        /\ rest' = rest /\ losses' = losses
    BY <1>3 DEF Interrupt, ClearConsole
  <2>2. /\ con' \in Consoles /\ con'.queue = <<>> /\ con.stale \subseteq con'.stale
        /\ FramesFit(con', call, pass) /\ CallsFit(con', call, kind)
    BY <1>0, <2>1, ClearedFits
  <2>. QED
    BY <2>1, <2>2, ClearedKeeps
<1>4. CASE Dispose
  <2>1. PICK a : a = [con EXCEPT !.disposed = TRUE]
    OBVIOUS
  <2>2. PICK b : b = CancelSubmission(a)
    OBVIOUS
  <2>3. PICK c : c = ClearQueue(b)
    OBVIOUS
  <2>4. PICK d : d = CancelSubmission(c)
    OBVIOUS
  <2>5. /\ con' = [d EXCEPT !.busyId = None, !.attached = FALSE]
        /\ life' = Cleared /\ stalled' = FALSE
        /\ call' = call /\ pass' = pass /\ kind' = kind /\ sent' = sent
        /\ rest' = rest /\ losses' = losses
    BY <1>4, <2>1, <2>2, <2>3, <2>4 DEF Dispose, Detach
  <2>6. /\ a \in Consoles /\ a.stale = con.stale /\ a.canceller = con.canceller
        /\ a.cancelled = con.cancelled /\ a.inputState = con.inputState
        /\ a.enqueueCheck = con.enqueueCheck
    BY <1>0, <2>1 DEF Consoles
  <2>7. FramesFit(a, call, pass) /\ CallsFit(a, call, kind)
    BY <1>0, <2>6 DEF FramesFit, CallsFit
  <2>8. /\ b \in Consoles /\ a.stale \subseteq b.stale
        /\ FramesFit(b, call, pass) /\ CallsFit(b, call, kind)
    BY <1>0, <2>2, <2>6, <2>7, Cancels
  <2>9. /\ c \in Consoles /\ c.stale = b.stale /\ c.queue = <<>>
        /\ FramesFit(c, call, pass) /\ CallsFit(c, call, kind)
    BY <2>3, <2>8, ClearedFits
  <2>10. /\ d \in Consoles /\ c.stale \subseteq d.stale /\ d.queue = <<>>
         /\ FramesFit(d, call, pass) /\ CallsFit(d, call, kind)
    BY <1>0, <2>4, <2>9, Cancels
  <2>11. /\ con' \in Consoles /\ con'.queue = <<>> /\ con'.stale = d.stale
         /\ con'.canceller = d.canceller /\ con'.cancelled = d.cancelled
         /\ con'.inputState = d.inputState /\ con'.enqueueCheck = d.enqueueCheck
    BY <2>5, <2>10 DEF Consoles
  <2>12. FramesFit(con', call, pass) /\ CallsFit(con', call, kind)
    BY <2>10, <2>11 DEF FramesFit, CallsFit
  <2>13. con.stale \subseteq con'.stale
    BY <2>6, <2>8, <2>9, <2>10, <2>11
  <2>. QED
    BY <2>5, <2>11, <2>12, <2>13, ClearedKeeps
<1>. QED
  BY <1>1, <1>2, <1>3, <1>4 DEF User

-----------------------------------------------------------------------------
LEMMA StepKeeps == Inv /\ [Next]_vars => Inv'
<1> SUFFICES ASSUME Inv, [Next]_vars PROVE Inv'
  OBVIOUS
<1>1. CASE Arrives
  BY <1>1, ArrivalsKeep
<1>2. ASSUME NEW i \in Inputs, Submission(i) \/ Enqueuing(i) \/ Kernel(i) PROVE Inv'
  BY <1>2, SubmissionKeeps, EnqueuingKeeps, KernelKeeps
<1>3. CASE Passing
  BY <1>3, PassingKeeps
<1>4. CASE RunDrain
  BY <1>4, RunDrainKeeps
<1>5. CASE KernelBusy \/ KernelIdle \/ SessionEnds \/ AttachRuntimeSession
  BY <1>5, SessionKeeps
<1>6. CASE User
  BY <1>6, UserKeeps
<1>7. CASE UNCHANGED vars
  <2>1. /\ con' = con /\ call' = call /\ pass' = pass /\ kind' = kind /\ life' = life
        /\ sent' = sent /\ rest' = rest /\ losses' = losses /\ stalled' = stalled
    BY <1>7 DEF vars
  <2>. USE DEF Inv, Frames, Types, Waits
  <2>2. FieldsType'
    BY <2>1 DEF FieldsType
  <2>3. FramesFit(con', call', pass') /\ CallsFit(con', call', kind')
    BY <2>1
  <2>4. LivesFit'
    BY <2>1 DEF LivesFit, InQueue
  <2>5. OrderFits'
    BY <2>1 DEF OrderFits, SentInOrder, Interactive
  <2>6. Served'
    BY <2>1 DEF Served, Resting
  <2>. QED
    BY <2>2, <2>3, <2>4, <2>5, <2>6
<1>. QED
  BY <1>1, <1>2, <1>3, <1>4, <1>5, <1>6, <1>7 DEF Next, Work

LEMMA Invariance == Spec => []Inv
BY InitHolds, StepKeeps, PTL DEF Spec

\* Every field of the console is of its kind, and what it says is under way is: no
\* handler, state or flag is left over from a call or a pass that has ended
\* (consoleInstance.ts:300-345, 1130-1153, 1433-1441, 1864-1880).
THEOREM TypeCorrect == Spec => []TypeOK
BY Invariance, InvSuffices, PTL

\* Whatever is cancelled, cleared, lost or attached in between, each accepted input
\* is in one place until it is handed over, given back or dropped, is handed over
\* once and in order, and does not wait for nothing (consoleInstance.ts:916-1220,
\* 1849-2000).
THEOREM Kept == Spec => []InputsAreKept
BY Invariance, InvSuffices, PTL
=============================================================================
