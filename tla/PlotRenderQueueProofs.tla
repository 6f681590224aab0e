------------------------ MODULE PlotRenderQueueProofs ------------------------
(***************************************************************************)
(* Proofs about PlotRenderQueue, for any operations and comms: the queue   *)
(* works in turn, and every open promise is held by it.  And, in the last  *)
(* section, about PlotClients: composed with the clients of a plot it does *)
(* so as well, and what they show is what is wanted.                       *)
(***************************************************************************)
EXTENDS PlotClients, SequenceTheorems, TLAPS

Distinct(q) == \A i, j \in DOMAIN q : q[i] = q[j] => i = j

\* Nothing waits in a disposed queue.
DisposedIsEmpty == disposed => queue = <<>> /\ active = None

IInv ==
  /\ TypeOK
  /\ OneAtATime /\ NothingStranded /\ LatestOnly
  /\ EveryOpenIsHeld /\ CloseIsHeard
  /\ DisposedIsEmpty

-----------------------------------------------------------------------------
\* The elements of sequences.
LEMMA ElementsOf ==
  ASSUME NEW S, NEW q \in Seq(S)
  PROVE  /\ Elements(q) \subseteq S
         /\ DOMAIN q = 1 .. Len(q) /\ Len(q) \in Nat
         /\ q = <<>> <=> Elements(q) = {}
<1>1. DOMAIN q = 1 .. Len(q) /\ Len(q) \in Nat
  OBVIOUS
<1>2. \A i \in 1 .. Len(q) : q[i] \in S
  OBVIOUS
<1>3. q # <<>> => q[1] \in Elements(q)
  BY <1>1, EmptySeq DEF Elements
<1>4. q = <<>> => Elements(q) = {}
  BY DEF Elements
<1>. QED
  BY <1>1, <1>2, <1>3, <1>4 DEF Elements

LEMMA AppendElements ==
  ASSUME NEW S, NEW q \in Seq(S), NEW o \in S, Distinct(q), o \notin Elements(q)
  PROVE  /\ Append(q, o) \in Seq(S)
         /\ Elements(Append(q, o)) = Elements(q) \cup {o}
         /\ Distinct(Append(q, o))
<1>. DEFINE a == Append(q, o)
<1>1. /\ a \in Seq(S) /\ Len(a) = Len(q) + 1 /\ Len(q) \in Nat
      /\ \A i \in 1 .. Len(q) : a[i] = q[i]
      /\ a[Len(q) + 1] = o
      /\ DOMAIN a = 1 .. Len(q) + 1 /\ DOMAIN q = 1 .. Len(q)
  OBVIOUS
<1>. HIDE DEF a
<1>2. Elements(a) = Elements(q) \cup {o}
  BY <1>1 DEF Elements
<1>3. Distinct(a)
  BY <1>1 DEF Elements, Distinct
<1>. QED
  BY <1>1, <1>2, <1>3 DEF a

LEMMA HeadTailElements ==
  ASSUME NEW S, NEW q \in Seq(S), Distinct(q), q # <<>>
  PROVE  /\ Head(q) \in S /\ Tail(q) \in Seq(S)
         /\ Elements(q) = Elements(Tail(q)) \cup {Head(q)}
         /\ Head(q) \notin Elements(Tail(q))
         /\ Distinct(Tail(q))
<1>. DEFINE t == Tail(q)
<1>1. /\ Len(q) \in Nat \ {0} /\ t \in Seq(S) /\ Len(t) = Len(q) - 1
      /\ DOMAIN q = 1 .. Len(q) /\ DOMAIN t = 1 .. Len(q) - 1
      /\ \A i \in 1 .. Len(q) - 1 : t[i] = q[i + 1]
      /\ Head(q) = q[1] /\ Head(q) \in S
  BY EmptySeq, HeadTailProperties
<1>. HIDE DEF t
<1>2. \A i \in 1 .. Len(q) : i = 1 \/ (i - 1 \in 1 .. Len(q) - 1 /\ q[i] = t[i - 1])
  BY <1>1
<1>3. Elements(q) = Elements(t) \cup {Head(q)}
  <2>1. ASSUME NEW i \in DOMAIN q PROVE q[i] \in Elements(t) \cup {Head(q)}
    <3>1. CASE i = 1
      BY <1>1, <3>1
    <3>2. CASE i # 1
      <4>1. i - 1 \in DOMAIN t /\ q[i] = t[i - 1]
        BY <1>1, <1>2, <3>2
      <4>. QED
        BY <4>1 DEF Elements
    <3>. QED
      BY <3>1, <3>2
  <2>2. ASSUME NEW i \in DOMAIN t PROVE t[i] \in Elements(q)
    <3>1. i + 1 \in DOMAIN q /\ t[i] = q[i + 1]
      BY <1>1
    <3>. QED
      BY <3>1 DEF Elements
  <2>3. Head(q) \in Elements(q)
    <3>1. 1 \in DOMAIN q /\ Head(q) = q[1]
      BY <1>1
    <3>. QED
      BY <3>1 DEF Elements
  <2>4. Elements(t) \subseteq Elements(q)
    BY <2>2 DEF Elements
  <2>5. Elements(q) \subseteq Elements(t) \cup {Head(q)}
    BY <2>1 DEF Elements
  <2>. QED
    BY <2>3, <2>4, <2>5
<1>4. Head(q) \notin Elements(t)
  <2>1. \A i \in DOMAIN t : i + 1 \in DOMAIN q /\ t[i] = q[i + 1] /\ i + 1 # 1
    BY <1>1
  <2>2. 1 \in DOMAIN q
    BY <1>1
  <2>. QED
    BY <1>1, <2>1, <2>2 DEF Elements, Distinct
<1>5. Distinct(t)
  BY <1>1 DEF Distinct
<1>. QED
  BY <1>1, <1>3, <1>4, <1>5 DEF t

LEMMA WithoutElements ==
  ASSUME NEW S, NEW q \in Seq(S), NEW gone, Distinct(q), NEW s \in Without(q, gone)
  PROVE  s \in Seq(S) /\ Elements(s) = Elements(q) \ gone /\ Distinct(s)
<1>. DEFINE rest == Elements(q) \ gone
<1>1. PICK n \in 0 .. Len(q) : s \in [1 .. n -> rest]
  BY DEF Without
<1>2. /\ Elements(s) = rest
      /\ \A i, j \in DOMAIN s : i < j => \E k, l \in DOMAIN q : k < l /\ q[k] = s[i] /\ q[l] = s[j]
  BY DEF Without
<1>3. n \in Nat /\ DOMAIN s = 1 .. n
  BY <1>1, ElementsOf
<1>4. rest \subseteq S
  BY ElementsOf
<1>5. s \in Seq(S)
  BY <1>1, <1>3, <1>4, IsASeq
<1>6. ASSUME NEW i \in DOMAIN s, NEW j \in DOMAIN s, i < j, s[i] = s[j]
      PROVE  FALSE
  <2>1. PICK k, l \in DOMAIN q : k < l /\ q[k] = s[i] /\ q[l] = s[j]
    BY <1>2, <1>6
  <2>. QED
    BY <2>1, <1>6, ElementsOf DEF Distinct
<1>. QED
  BY <1>2, <1>3, <1>5, <1>6 DEF Distinct

-----------------------------------------------------------------------------
\* What is held of a queue, an active operation and a lock, and how they are
\* related.
Together(q, act) == Elements(q) \cup ({act} \ {None})

Sound(q, act, busy) ==
  /\ q \in Seq(Ops) /\ Distinct(q)
  /\ act \in Ops \cup {None} /\ act \notin Elements(q)
  /\ busy \in BOOLEAN /\ (busy <=> act # None)

LEMMA QueueIsSound ==
  ASSUME IInv
  PROVE  Sound(queue, active, processing) /\ Queued = Elements(queue) /\ Held = Together(queue, active)
BY DEF IInv, TypeOK, OneAtATime, EveryOpenIsHeld, Sound, Distinct, Queued, Elements, Held, Together

\* processQueue keeps what is held, and leaves nothing that could be run.
LEMMA ProcessQueueKeeps ==
  ASSUME NEW q, NEW act, NEW busy, NEW ls, Sound(q, act, busy), ProcessQueue(q, act, busy, ls)
  PROVE  /\ Sound(queue', active', processing')
         /\ Together(queue', active') = Together(q, act)
         /\ Elements(queue') \subseteq Elements(q)
         /\ (runtime' = "ready" /\ queue' # <<>>) => processing'
         /\ \/ active' = act /\ calls' = calls
            \/ act = None /\ active' \in Elements(q) /\ calls' = calls \cup {active'}
         /\ watched' \subseteq ls
         /\ \A o \in Together(queue', active') : request'[o].comm \in ls => request'[o].comm \in watched'
<1>1. CASE busy \/ (q # <<>> /\ runtime' # "ready")
  BY <1>1 DEF ProcessQueue, Becomes, Sound
<1>2. CASE ~busy /\ q = <<>>
  BY <1>2 DEF ProcessQueue, Becomes, Sound, Cleanup, Together
<1>3. CASE ~busy /\ q # <<>> /\ runtime' = "ready"
  <2>1. /\ queue' = Tail(q) /\ active' = Head(q) /\ processing' = TRUE /\ watched' = ls
        /\ calls' = calls \cup {Head(q)}
    BY <1>3 DEF ProcessQueue, Becomes
  <2>2. act = None
    BY <1>3 DEF Sound
  <2>3. /\ Head(q) \in Ops /\ Tail(q) \in Seq(Ops)
        /\ Elements(q) = Elements(Tail(q)) \cup {Head(q)}
        /\ Head(q) \notin Elements(Tail(q)) /\ Distinct(Tail(q))
    BY <1>3, HeadTailElements DEF Sound
  <2>. QED
    BY <2>1, <2>2, <2>3, NoneAssumption DEF Sound, Together
<1>. QED
  BY <1>1, <1>2, <1>3

\* The invariant of what a step leaves: a sound queue that holds what is open.
LEMMA Conclude ==
  ASSUME Sound(queue', active', processing'),
         disposed' \in BOOLEAN, watched' \subseteq Comms, closed' \subseteq Comms,
         request' \in [Ops -> Requests \cup {None}],
         outcome' \in [Ops -> {"none", "open", "done", "failed", "cancelled"}],
         calls' \subseteq {o \in Ops : outcome'[o] # "none"},
         runtime' \in {"ready", "busy", "exited"},
         Together(queue', active') = Open',
         (runtime' = "ready" /\ queue' # <<>>) => processing',
         calls' \cap Open' \subseteq {active'},
         active' # None => active' \in calls',
         \A o, p \in Elements(queue') :
            /\ request'[o].comm = request'[p].comm /\ request'[o].type = request'[p].type
            /\ ~request'[o].preview /\ ~request'[p].preview
            => o = p,
         \A o \in Together(queue', active') : request'[o].comm \in watched' \cup closed',
         DisposedIsEmpty'
  PROVE  IInv'
<1>1. Queued' = Elements(queue') /\ Held' = Together(queue', active')
  BY DEF Queued, Elements, Held, Together
<1>2. TypeOK'
  BY DEF TypeOK, Sound
<1>3. OneAtATime' /\ NothingStranded' /\ LatestOnly'
  BY <1>1 DEF OneAtATime, NothingStranded, LatestOnly, Sound
<1>4. EveryOpenIsHeld'
  BY <1>1 DEF EveryOpenIsHeld, Sound, Distinct
<1>5. CloseIsHeard'
  BY <1>1 DEF CloseIsHeard
<1>. QED
  BY <1>2, <1>3, <1>4, <1>5 DEF IInv

-----------------------------------------------------------------------------
LEMMA InitInv == Init => IInv
<1>. SUFFICES ASSUME Init PROVE IInv
  OBVIOUS
<1>1. Queued = {} /\ Held = {} /\ Open = {}
  BY NoneAssumption DEF Init, Queued, Held, Open
<1>2. queue \in Seq(Ops)
  BY DEF Init
<1>3. TypeOK
  BY <1>2 DEF Init, TypeOK
<1>4. OneAtATime /\ NothingStranded /\ LatestOnly
  BY <1>1 DEF Init, OneAtATime, NothingStranded, LatestOnly
<1>5. EveryOpenIsHeld /\ CloseIsHeard /\ DisposedIsEmpty
  BY <1>1 DEF Init, EveryOpenIsHeld, CloseIsHeard, DisposedIsEmpty
<1>. QED
  BY <1>3, <1>4, <1>5 DEF IInv

\* Types that no step changes, and the two ways a step goes on.
LatestIn(q) ==
  \A o, p \in Elements(q) :
    /\ request'[o].comm = request'[p].comm /\ request'[o].type = request'[p].type
    /\ ~request'[o].preview /\ ~request'[p].preview
    => o = p

TypedStep ==
  /\ disposed' \in BOOLEAN /\ closed' \subseteq Comms
  /\ request' \in [Ops -> Requests \cup {None}]
  /\ outcome' \in [Ops -> {"none", "open", "done", "failed", "cancelled"}]
  /\ runtime' \in {"ready", "busy", "exited"}
  /\ \A o \in Ops : outcome[o] # "none" => outcome'[o] # "none"

\* A step that ends in processQueue.
LEMMA ProcessStep ==
  ASSUME IInv, TypedStep, NEW q, NEW act, NEW busy, NEW ls,
         Sound(q, act, busy), ProcessQueue(q, act, busy, ls),
         ls \subseteq Comms, Together(q, act) = Open',
         calls \cap Open' \subseteq {act}, act # None => act \in calls,
         LatestIn(q),
         \A o \in Together(q, act) : request'[o].comm \in ls \cup closed',
         disposed' => q = <<>> /\ act = None
  PROVE  IInv'
<1>1. /\ Sound(queue', active', processing')
      /\ Together(queue', active') = Together(q, act)
      /\ Elements(queue') \subseteq Elements(q)
      /\ (runtime' = "ready" /\ queue' # <<>>) => processing'
      /\ \/ active' = act /\ calls' = calls
         \/ act = None /\ active' \in Elements(q) /\ calls' = calls \cup {active'}
      /\ watched' \subseteq ls
      /\ \A o \in Together(queue', active') : request'[o].comm \in ls => request'[o].comm \in watched'
  BY ProcessQueueKeeps
<1>2. calls \subseteq {o \in Ops : outcome'[o] # "none"}
  BY DEF IInv, TypeOK, TypedStep
<1>3. Open' = {o \in Ops : outcome'[o] = "open"}
  BY DEF Open
<1>4. Elements(q) \subseteq Open'
  BY DEF Together
<1>5. calls' \subseteq {o \in Ops : outcome'[o] # "none"}
  BY <1>1, <1>2, <1>3, <1>4
<1>6. calls' \cap Open' \subseteq {active'} /\ (active' # None => active' \in calls')
  BY <1>1, <1>3, NoneAssumption
<1>7. LatestIn(queue')
  BY <1>1 DEF LatestIn
<1>8. DisposedIsEmpty'
  <2>. SUFFICES ASSUME disposed' PROVE queue' = <<>> /\ active' = None
    BY DEF DisposedIsEmpty
  <2>1. Together(queue', active') = {}
    BY <1>1 DEF Together, Elements
  <2>2. Elements(queue') = {} /\ active' = None
    BY <2>1 DEF Together
  <2>. QED
    BY <2>2, <1>1, ElementsOf DEF Sound
<1>9. \A o \in Together(queue', active') : request'[o].comm \in watched' \cup closed'
  BY <1>1
<1>. QED
  BY <1>1, <1>5, <1>6, <1>7, <1>8, <1>9, Conclude DEF TypedStep, LatestIn

\* A step after which this is queued and active, without more ado.
LEMMA PlainStep ==
  ASSUME IInv, TypedStep, NEW q, NEW act, NEW busy, NEW ls,
         Sound(q, act, busy), Becomes(q, act, busy, ls),
         ls \subseteq Comms, Together(q, act) = Open',
         calls' \subseteq calls, calls' \cap Open' \subseteq {act}, act # None => act \in calls',
         LatestIn(q),
         \A o \in Together(q, act) : request'[o].comm \in ls \cup closed',
         (runtime' = "ready" /\ q # <<>>) => busy,
         disposed' => q = <<>> /\ act = None
  PROVE  IInv'
<1>1. queue' = q /\ active' = act /\ processing' = busy /\ watched' = ls
  BY DEF Becomes
<1>2. calls' \subseteq {o \in Ops : outcome'[o] # "none"}
  BY DEF IInv, TypeOK, TypedStep
<1>3. DisposedIsEmpty'
  BY <1>1 DEF DisposedIsEmpty
<1>. QED
  BY <1>1, <1>2, <1>3, Conclude DEF TypedStep, LatestIn

\* A step that leaves the queue, and what is open, alone.
LEMMA IdleStep ==
  ASSUME IInv, TypedStep, UNCHANGED control, calls' \subseteq calls, Open' = Open,
         active \in calls => active \in calls',
         \A o \in Open : request'[o] = request[o],
         closed \subseteq closed', runtime' = "ready" => runtime = "ready" \/ queue = <<>> \/ processing,
         disposed' => disposed
  PROVE  IInv'
<1>1. Sound(queue, active, processing) /\ Queued = Elements(queue) /\ Held = Together(queue, active)
  BY QueueIsSound
<1>2. Together(queue, active) = Open /\ Elements(queue) \subseteq Open
  BY <1>1 DEF IInv, EveryOpenIsHeld, Together
<1>3. Becomes(queue, active, processing, watched)
  BY DEF Becomes, control
<1>4. LatestIn(queue)
  BY <1>1, <1>2 DEF LatestIn, IInv, LatestOnly
<1>5. \A o \in Together(queue, active) : request'[o].comm \in watched \cup closed'
  BY <1>1, <1>2 DEF IInv, CloseIsHeard
<1>6. calls' \cap Open' \subseteq {active} /\ (active # None => active \in calls')
  BY DEF IInv, OneAtATime, EveryOpenIsHeld
<1>7. /\ (runtime' = "ready" /\ queue # <<>>) => processing
      /\ disposed' => queue = <<>> /\ active = None
      /\ watched \subseteq Comms
  BY DEF IInv, NothingStranded, DisposedIsEmpty, TypeOK
<1>. QED
  BY <1>1, <1>2, <1>3, <1>4, <1>5, <1>6, <1>7, PlainStep

-----------------------------------------------------------------------------
\* One lemma for each action.
LEMMA QueueStep ==
  ASSUME IInv, NEW o \in Ops, NEW req \in Requests, Queue(o, req)
  PROVE  IInv'
<1>1. /\ outcome[o] = "none" /\ request' = [request EXCEPT ![o] = req]
      /\ disposed' = disposed /\ runtime' = runtime /\ closed' = closed
  BY DEF Queue
<1>2. request'[o] = req /\ \A p \in Ops \ {o} : request'[p] = request[p]
  BY <1>1 DEF IInv, TypeOK
<1>3. request' \in [Ops -> Requests \cup {None}] /\ req.comm \in Comms
  BY <1>1 DEF IInv, TypeOK, Requests
<1>4. Sound(queue, active, processing) /\ Queued = Elements(queue) /\ Held = Together(queue, active)
  BY QueueIsSound
<1>5. Together(queue, active) = Open /\ o \notin Open /\ Elements(queue) \subseteq Open
  BY <1>1, <1>4 DEF IInv, EveryOpenIsHeld, Open, Together
<1>6. CASE disposed
  <2>1. outcome' = [outcome EXCEPT ![o] = "cancelled"] /\ UNCHANGED control /\ calls' = calls
    BY <1>6 DEF Queue
  <2>2. /\ TypedStep
        /\ \A p \in Ops : (outcome'[p] = "open") <=> (outcome[p] = "open")
    BY <1>1, <1>3, <2>1 DEF IInv, TypeOK, TypedStep
  <2>. QED
    BY <1>1, <1>2, <1>5, <2>1, <2>2, IdleStep DEF IInv, NothingStranded, Open
<1>7. CASE ~disposed
  <2>. DEFINE gone == Superseded(req)
  <2>1. /\ outcome' = [p \in Ops |-> IF p = o THEN "open"
                                   ELSE IF p \in gone THEN "cancelled" ELSE outcome[p]]
        /\ \E q \in Without(queue, gone) :
             IF runtime = "ready"
             THEN ProcessQueue(Append(q, o), active, processing, Watch(req, watched))
             ELSE /\ Becomes(Append(q, o), active, processing, Watch(req, watched))
                  /\ UNCHANGED calls
    BY <1>7 DEF Queue
  <2>2. PICK q \in Without(queue, gone) :
             IF runtime = "ready"
             THEN ProcessQueue(Append(q, o), active, processing, Watch(req, watched))
             ELSE /\ Becomes(Append(q, o), active, processing, Watch(req, watched))
                  /\ UNCHANGED calls
    BY <2>1
  <2>3. q \in Seq(Ops) /\ Elements(q) = Elements(queue) \ gone /\ Distinct(q)
    BY <1>4, WithoutElements DEF Sound
  <2>. DEFINE r == Append(q, o)
  <2>4. r \in Seq(Ops) /\ Elements(r) = Elements(q) \cup {o} /\ Distinct(r)
    BY <1>5, <2>3, AppendElements
  <2>5. gone \subseteq Elements(queue)
    BY <1>4 DEF Superseded
  <2>. HIDE DEF r
  <2>6. o # active
    BY <1>5, NoneAssumption DEF Together
  <2>7. Sound(r, active, processing)
    BY <1>4, <2>3, <2>4, <2>6 DEF Sound
  <2>8. Open' = (Open \ gone) \cup {o}
    BY <2>1 DEF Open
  <2>9. Together(r, active) = Open'
    BY <1>4, <1>5, <2>3, <2>4, <2>5, <2>8 DEF Together, Sound
  <2>10. TypedStep
    BY <1>1, <1>3, <2>1 DEF IInv, TypeOK, TypedStep
  <2>11. calls \cap Open' \subseteq {active} /\ (active # None => active \in calls)
    BY <1>1, <2>8 DEF IInv, TypeOK, OneAtATime, EveryOpenIsHeld
  <2>12. LatestIn(r)
    <3>. SUFFICES ASSUME NEW x \in Elements(r), NEW y \in Elements(r),
                         request'[x].comm = request'[y].comm, request'[x].type = request'[y].type,
                         ~request'[x].preview, ~request'[y].preview
                  PROVE  x = y
      BY DEF LatestIn
    <3>1. ASSUME NEW z \in Elements(r), z # o
          PROVE  z \in Queued /\ z \notin gone /\ request'[z] = request[z]
      BY <3>1, <1>2, <1>4, <1>5, <2>3, <2>4 DEF Open
    <3>2. CASE x # o /\ y # o
      BY <3>1, <3>2 DEF IInv, LatestOnly
    <3>3. CASE x = o /\ y # o
      BY <3>1, <3>3, <1>2 DEF Superseded
    <3>4. CASE x # o /\ y = o
      BY <3>1, <3>4, <1>2 DEF Superseded
    <3>. QED
      BY <3>2, <3>3, <3>4
  <2>13. \A z \in Together(r, active) : request'[z].comm \in Watch(req, watched) \cup closed'
    BY <1>1, <1>2, <1>4, <1>5, <2>8, <2>9 DEF IInv, CloseIsHeard, Watch, Open
  <2>14. Watch(req, watched) \subseteq Comms
    BY <1>3 DEF Watch, IInv, TypeOK
  <2>15. CASE runtime = "ready"
    <3>1. ProcessQueue(r, active, processing, Watch(req, watched))
      BY <2>2, <2>15 DEF r
    <3>. QED
      BY <3>1, <1>1, <1>7, <2>7, <2>9, <2>10, <2>11, <2>12, <2>13, <2>14, ProcessStep
  <2>16. CASE runtime # "ready"
    <3>1. Becomes(r, active, processing, Watch(req, watched)) /\ calls' = calls
      BY <2>2, <2>16 DEF r
    <3>. QED
      BY <3>1, <1>1, <1>7, <2>7, <2>9, <2>10, <2>11, <2>12, <2>13, <2>14, <2>16, PlainStep
  <2>. QED
    BY <2>15, <2>16
<1>. QED
  BY <1>6, <1>7

LEMMA ReturnsStep ==
  ASSUME IInv, NEW o \in Ops, NEW result \in {"done", "failed"}, Returns(o, result)
  PROVE  IInv'
<1>1. /\ o \in calls
      /\ outcome' = [outcome EXCEPT ![o] = IF @ = "open" THEN result ELSE @]
      /\ request' = request /\ disposed' = disposed /\ runtime' = runtime /\ closed' = closed
  BY DEF Returns
<1>2. Sound(queue, active, processing) /\ Queued = Elements(queue) /\ Held = Together(queue, active)
  BY QueueIsSound
<1>3. Together(queue, active) = Open
  BY <1>2 DEF IInv, EveryOpenIsHeld
<1>4. TypedStep
  BY <1>1 DEF IInv, TypeOK, TypedStep
<1>5. Open' = Open \ {o}
  BY <1>1 DEF Open, IInv, TypeOK
<1>6. CASE active # o
  <2>1. calls' = calls \ {o} /\ UNCHANGED control
    BY <1>6 DEF Returns
  <2>2. o \notin Open
    BY <1>1, <1>6 DEF IInv, OneAtATime, Open
  <2>. QED
    BY <1>1, <1>4, <1>5, <1>6, <2>1, <2>2, IdleStep DEF IInv, NothingStranded
<1>7. CASE active = o
  <2>1. Together(queue, None) = Open'
    BY <1>2, <1>3, <1>5, <1>7, NoneAssumption DEF Together, Sound
  <2>2. LatestIn(queue)
    BY <1>1, <1>2 DEF LatestIn, IInv, LatestOnly
  <2>3. \A p \in Elements(queue) : request'[p].comm \in watched \cup closed'
    BY <1>1, <1>2 DEF IInv, CloseIsHeard, Together
  <2>4. calls \cap Open' = {} /\ watched \subseteq Comms
    BY <1>5, <1>7 DEF IInv, OneAtATime, TypeOK
  <2>5. active # None
    BY <1>7, NoneAssumption
  <2>6. CASE queue # <<>> /\ runtime = "ready"
    <3>1. /\ Becomes(Tail(queue), Head(queue), TRUE, watched)
          /\ calls' = (calls \ {o}) \cup {Head(queue)}
      BY <1>7, <2>6 DEF Returns
    <3>2. /\ Head(queue) \in Ops /\ Tail(queue) \in Seq(Ops)
          /\ Elements(queue) = Elements(Tail(queue)) \cup {Head(queue)}
          /\ Head(queue) \notin Elements(Tail(queue)) /\ Distinct(Tail(queue))
      BY <1>2, <2>6, HeadTailElements DEF Sound
    <3>3. Sound(Tail(queue), Head(queue), TRUE) /\ Together(Tail(queue), Head(queue)) = Open'
      BY <2>1, <3>2, NoneAssumption DEF Sound, Together
    <3>4. queue' = Tail(queue) /\ active' = Head(queue) /\ processing' = TRUE /\ watched' = watched
      BY <3>1 DEF Becomes
    <3>5. calls' \subseteq {p \in Ops : outcome'[p] # "none"}
      <4>1. calls \subseteq {p \in Ops : outcome'[p] # "none"}
        BY <1>4 DEF IInv, TypeOK, TypedStep
      <4>2. Head(queue) \in Open'
        BY <3>2, <2>1 DEF Together
      <4>. QED
        BY <3>1, <4>1, <4>2 DEF Open
    <3>6. LatestIn(Tail(queue))
      BY <2>2, <3>2 DEF LatestIn
    <3>7. \A p \in Together(Tail(queue), Head(queue)) : request'[p].comm \in watched \cup closed'
      BY <2>3, <3>2 DEF Together
    <3>8. DisposedIsEmpty'
      BY <1>1, <2>6 DEF IInv, DisposedIsEmpty
    <3>9. calls' \cap Open' \subseteq {Head(queue)} /\ Head(queue) \in calls'
      BY <3>1, <2>4
    <3>. QED
      BY <1>4, <2>4, <3>3, <3>4, <3>5, <3>6, <3>7, <3>8, <3>9, Conclude DEF TypedStep, LatestIn
  <2>7. CASE ~(queue # <<>> /\ runtime = "ready")
    <3>. DEFINE ls == IF queue = <<>> THEN {} ELSE watched
    <3>1. Becomes(queue, None, FALSE, ls) /\ calls' = calls \ {o}
      BY <1>7, <2>7 DEF Returns
    <3>2. Sound(queue, None, FALSE)
      BY <1>2, NoneAssumption DEF Sound, Elements
    <3>3. \A p \in Together(queue, None) : request'[p].comm \in ls \cup closed'
      BY <2>3 DEF Together, Elements
    <3>4. disposed' => queue = <<>>
      BY <1>1 DEF IInv, DisposedIsEmpty
    <3>. QED
      BY <1>1, <1>4, <2>1, <2>2, <2>4, <2>7, <3>1, <3>2, <3>3, <3>4, PlainStep
  <2>. QED
    BY <2>6, <2>7
<1>. QED
  BY <1>6, <1>7

LEMMA RuntimeReadyStep ==
  ASSUME IInv, RuntimeReady
  PROVE  IInv'
<1>1. /\ runtime' = "ready" /\ request' = request /\ outcome' = outcome
      /\ disposed' = disposed /\ closed' = closed
  BY DEF RuntimeReady
<1>2. TypedStep /\ Open' = Open
  BY <1>1 DEF IInv, TypeOK, TypedStep, Open
<1>3. CASE disposed \/ queue = <<>>
  <2>1. UNCHANGED control /\ calls' = calls
    BY <1>3 DEF RuntimeReady
  <2>2. queue = <<>>
    BY <1>3 DEF IInv, DisposedIsEmpty
  <2>. QED
    BY <1>1, <1>2, <2>1, <2>2, IdleStep
<1>4. CASE ~disposed /\ queue # <<>>
  <2>1. ProcessQueue(queue, active, processing, watched)
    BY <1>4 DEF RuntimeReady
  <2>2. Sound(queue, active, processing) /\ Queued = Elements(queue) /\ Held = Together(queue, active)
    BY QueueIsSound
  <2>3. Together(queue, active) = Open' /\ calls \cap Open' \subseteq {active} /\ (active # None => active \in calls)
    BY <1>2, <2>2 DEF IInv, EveryOpenIsHeld, OneAtATime
  <2>4. LatestIn(queue) /\ watched \subseteq Comms
    BY <1>1, <2>2 DEF LatestIn, IInv, LatestOnly, TypeOK
  <2>5. \A o \in Together(queue, active) : request'[o].comm \in watched \cup closed'
    BY <1>1, <2>2 DEF IInv, CloseIsHeard
  <2>. QED
    BY <1>1, <1>2, <1>4, <2>1, <2>2, <2>3, <2>4, <2>5, ProcessStep
<1>. QED
  BY <1>3, <1>4

LEMMA RuntimeExitsStep ==
  ASSUME IInv, RuntimeExits
  PROVE  IInv'
<1>1. /\ runtime' = "exited" /\ request' = request /\ calls' = calls
      /\ disposed' = disposed /\ closed' = closed
  BY DEF RuntimeExits
<1>2. CASE disposed
  <2>1. UNCHANGED control /\ outcome' = outcome
    BY <1>2 DEF RuntimeExits
  <2>2. TypedStep /\ Open' = Open
    BY <1>1, <2>1 DEF IInv, TypeOK, TypedStep, Open
  <2>. QED
    BY <1>1, <2>1, <2>2, IdleStep
<1>3. CASE ~disposed
  <2>1. Cancel(Queued \cup {active}) /\ Becomes(<<>>, None, active = None /\ processing, {})
    BY <1>3 DEF RuntimeExits
  <2>2. TypedStep
    BY <1>1, <2>1 DEF IInv, TypeOK, TypedStep, Cancel
  <2>3. Open' = {}
    BY <2>1 DEF Open, Cancel, IInv, EveryOpenIsHeld, Held
  <2>4. Sound(<<>>, None, active = None /\ processing) /\ Elements(<<>>) = {}
    BY DEF Sound, Distinct, Elements, IInv, OneAtATime
  <2>5. LatestIn(<<>>) /\ Together(<<>>, None) = {}
    BY <2>4 DEF LatestIn, Together
  <2>. QED
    BY <1>1, <2>1, <2>2, <2>3, <2>4, <2>5, PlainStep
<1>. QED
  BY <1>2, <1>3

LEMMA DisposeStep ==
  ASSUME IInv, Dispose
  PROVE  IInv'
<1>1. /\ disposed' = TRUE /\ request' = request /\ calls' = calls
      /\ runtime' = runtime /\ closed' = closed
      /\ Cancel(Queued \cup {active}) /\ Becomes(<<>>, None, FALSE, {})
  BY DEF Dispose
<1>2. TypedStep
  BY <1>1 DEF IInv, TypeOK, TypedStep, Cancel
<1>3. Open' = {}
  BY <1>1 DEF Open, Cancel, IInv, EveryOpenIsHeld, Held
<1>4. Sound(<<>>, None, FALSE) /\ Elements(<<>>) = {}
  BY DEF Sound, Distinct, Elements
<1>5. LatestIn(<<>>) /\ Together(<<>>, None) = {}
  BY <1>4 DEF LatestIn, Together
<1>. QED
  BY <1>1, <1>2, <1>3, <1>4, <1>5, PlainStep

LEMMA CommClosesStep ==
  ASSUME IInv, NEW c \in Comms, CommCloses(c)
  PROVE  IInv'
<1>1. /\ closed' = closed \cup {c} /\ request' = request /\ disposed' = disposed /\ runtime' = runtime
  BY DEF CommCloses
<1>2. CASE c \notin watched
  <2>1. UNCHANGED control /\ outcome' = outcome /\ calls' = calls
    BY <1>2 DEF CommCloses
  <2>2. TypedStep /\ Open' = Open
    BY <1>1, <2>1 DEF IInv, TypeOK, TypedStep, Open
  <2>. QED
    BY <1>1, <2>1, <2>2, IdleStep DEF IInv, NothingStranded
<1>3. CASE c \in watched
  <2>. DEFINE gone == {o \in Held : request[o].comm = c}
              act  == IF active \in gone THEN None ELSE active
              busy == processing /\ active \notin gone
  <2>1. /\ Cancel(gone)
        /\ \E q \in Without(queue, gone) : ProcessQueue(q, act, busy, watched \ {c})
    BY <1>3 DEF CommCloses
  <2>2. PICK q \in Without(queue, gone) : ProcessQueue(q, act, busy, watched \ {c})
    BY <2>1
  <2>3. Sound(queue, active, processing) /\ Queued = Elements(queue) /\ Held = Together(queue, active)
    BY QueueIsSound
  <2>4. q \in Seq(Ops) /\ Elements(q) = Elements(queue) \ gone /\ Distinct(q)
    BY <2>3, WithoutElements DEF Sound
  <2>5. None \notin gone
    BY <2>3, ElementsOf, NoneAssumption DEF Together, Sound
  <2>6. Sound(q, act, busy)
    BY <2>3, <2>4, <2>5, ElementsOf, NoneAssumption DEF Sound
  <2>7. Together(q, act) = Together(queue, active) \ gone
    BY <2>4, <2>5 DEF Together
  <2>8. Together(queue, active) = Open
    BY <2>3 DEF IInv, EveryOpenIsHeld
  <2>9. Open' = Open \ gone
    BY <2>1, <2>3, <2>8 DEF Open, Cancel
  <2>10. TypedStep
    BY <1>1, <2>1 DEF IInv, TypeOK, TypedStep, Cancel
  <2>11. calls \cap Open' \subseteq {act} /\ (act # None => act \in calls)
    BY <2>9 DEF IInv, OneAtATime, EveryOpenIsHeld
  <2>12. LatestIn(q)
    BY <1>1, <2>3, <2>4 DEF LatestIn, IInv, LatestOnly
  <2>13. \A o \in Together(q, act) : request'[o].comm \in (watched \ {c}) \cup closed'
    BY <1>1, <2>3, <2>7 DEF IInv, CloseIsHeard
  <2>14. disposed' => q = <<>> /\ act = None
    <3>. SUFFICES ASSUME disposed PROVE q = <<>> /\ act = None
      BY <1>1
    <3>1. queue = <<>> /\ active = None
      BY DEF IInv, DisposedIsEmpty
    <3>2. Elements(q) = {}
      BY <2>4, <3>1 DEF Elements
    <3>. QED
      BY <2>4, <3>1, <3>2, ElementsOf
  <2>15. watched \ {c} \subseteq Comms
    BY DEF IInv, TypeOK
  <2>16. Together(q, act) = Open'
    BY <2>7, <2>8, <2>9
  <2>. HIDE DEF act, busy
  <2>. QED
    BY <2>2, <2>6, <2>10, <2>11, <2>12, <2>13, <2>14, <2>15, <2>16, ProcessStep
<1>. QED
  BY <1>2, <1>3

LEMMA NextInv == IInv /\ [Next]_vars => IInv'
<1>. SUFFICES ASSUME IInv, [Next]_vars PROVE IInv'
  OBVIOUS
<1>1. ASSUME NEW o \in Ops, NEW req \in Requests, Queue(o, req) PROVE IInv'
  BY <1>1, QueueStep
<1>2. ASSUME NEW o \in Ops, NEW result \in {"done", "failed"}, Returns(o, result) PROVE IInv'
  BY <1>2, ReturnsStep
<1>3. CASE RuntimeReady
  BY <1>3, RuntimeReadyStep
<1>4. CASE RuntimeBusy
  <2>1. /\ runtime' = "busy" /\ UNCHANGED <<control, disposed, request, outcome, calls, closed>>
    BY <1>4 DEF RuntimeBusy
  <2>2. TypedStep /\ Open' = Open
    BY <2>1 DEF IInv, TypeOK, TypedStep, Open
  <2>. QED
    BY <2>1, <2>2, IdleStep
<1>5. CASE RuntimeExits
  BY <1>5, RuntimeExitsStep
<1>6. ASSUME NEW c \in Comms, CommCloses(c) PROVE IInv'
  BY <1>6, CommClosesStep
<1>7. CASE Dispose
  BY <1>7, DisposeStep
<1>8. CASE UNCHANGED vars
  <2>1. UNCHANGED <<control, disposed, request, outcome, calls, runtime, closed>>
    BY <1>8 DEF vars
  <2>2. TypedStep /\ Open' = Open
    BY <2>1 DEF IInv, TypeOK, TypedStep, Open
  <2>. QED
    BY <2>1, <2>2, IdleStep DEF IInv, NothingStranded
<1>. QED
  BY <1>1, <1>2, <1>3, <1>4, <1>5, <1>6, <1>7, <1>8 DEF Next

LEMMA Invariance == Spec => []IInv
  BY InitInv, NextInv, PTL DEF Spec

-----------------------------------------------------------------------------
\* The fields keep their types, and no call is made for an operation that nobody
\* requested.
THEOREM TypeCorrect == Spec => []TypeOK
<1>1. IInv => TypeOK
  BY DEF IInv
<1>. QED
  BY <1>1, Invariance, PTL

\* The lock of positronPlotRenderQueue.ts: one operation at a time, none left
\* waiting for nothing, none behind a newer one of its plot.  And a promise is
\* open exactly as long as its operation is held, and the close of the comm it
\* depends on is heard.
THEOREM WorkedOff == Spec => []OpenIsWorkedOff
<1>1. IInv => WorksInTurn
  BY DEF IInv, WorksInTurn
<1>2. IInv => OpenIsFollowed
  BY DEF IInv, OpenIsFollowed
<1>. QED
  BY <1>1, <1>2, Invariance, PTL DEF OpenIsWorkedOff

-----------------------------------------------------------------------------
\* The queue, composed with clients: every step of them is one of it, or leaves it
\* alone.
LEMMA RenderIsRequest ==
  ASSUME NEW k \in Clients, NEW size, NEW sh, PerformRender(k, size, sh)
  PROVE  Next
<1>1. [comm |-> Plot, type |-> "render", preview |-> FALSE] \in Requests
  BY PlotAssumption DEF Requests
<1>2. PICK o \in Ops : Queue(o, [comm |-> Plot, type |-> "render", preview |-> FALSE])
  BY DEF PerformRender
<1>. QED
  BY <1>1, <1>2 DEF Next

LEMMA ClosesIsStep == ASSUME PlotCloses PROVE Next
  BY PlotAssumption DEF PlotCloses, Next

LEMMA StepIsQueues == [PlotNext]_allVars => [Next]_vars
<1>. SUFFICES ASSUME [PlotNext]_allVars PROVE Next \/ UNCHANGED vars
  OBVIOUS
<1>1. ASSUME NEW k \in Clients, NEW size \in Sizes, RenderPlot(k, size) PROVE Next
  BY <1>1, RenderIsRequest DEF RenderPlot
<1>2. ASSUME NEW k \in Clients, RenderUpdate(k) PROVE Next \/ UNCHANGED vars
  BY <1>2, RenderIsRequest DEF RenderUpdate
<1>3. ASSUME NEW k \in Clients, UnregisterPlotClient(k) PROVE Next \/ UNCHANGED vars
  BY <1>3, ClosesIsStep DEF UnregisterPlotClient
<1>4. ASSUME NEW pre, Update(pre) \/ ShowPlot(pre) PROVE UNCHANGED vars
  BY <1>4 DEF Update, ShowPlot
<1>5. CASE GetOrCreateEditorInstance
  BY <1>5 DEF GetOrCreateEditorInstance
<1>6. CASE PlotCloses
  BY <1>6, ClosesIsStep
<1>7. ASSUME NEW o \in Ops, NEW req \in Requests, QueueOther(o, req) PROVE Next
  BY <1>7 DEF QueueOther, Next
<1>8. ASSUME NEW o \in Ops, Answered(o) PROVE Next
  BY <1>8 DEF Answered, Next
<1>9. ASSUME RuntimeReady \/ RuntimeBusy \/ RuntimeExits \/ Dispose PROVE Next
  BY <1>9 DEF Next
<1>10. ASSUME NEW c \in Comms, CommCloses(c) PROVE Next
  BY <1>10 DEF Next
<1>11. CASE UNCHANGED allVars
  BY <1>11 DEF allVars
<1>. QED
  BY <1>1, <1>2, <1>3, <1>4, <1>5, <1>6, <1>7, <1>8, <1>9, <1>10, <1>11 DEF PlotNext

LEMMA PlotQueueInvariance == PlotSpec => []IInv
<1>1. PlotInit => IInv
  BY InitInv DEF PlotInit
<1>2. IInv /\ [PlotNext]_allVars => IInv'
  BY StepIsQueues, NextInv
<1>. QED
  BY <1>1, <1>2, PTL DEF PlotSpec

\* The queue works off what is requested, and follows what is open, whatever the
\* clients of a plot make of it (positronPlotRenderQueue.ts:355-420, 517-700).
THEOREM QueueHolds == PlotSpec => []OpenIsWorkedOff
<1>1. IInv => WorksInTurn
  BY DEF IInv, WorksInTurn
<1>2. IInv => OpenIsFollowed
  BY DEF IInv, OpenIsFollowed
<1>. QED
  BY <1>1, <1>2, PlotQueueInvariance, PTL DEF OpenIsWorkedOff

-----------------------------------------------------------------------------
\* What the clients show.  A client that waits does so for the size that is wanted,
\* or has what is wanted, unless its last request ended without an image; and what
\* it has is of the plot as it is, unless it is still to be told of an update.
Renders == [op : Ops, size : Sizes]

Fits(k, cur, sh, w, tell, uns) ==
  /\ cur[k] # None => cur[k].size = w[k]
  /\ cur[k] = None /\ sh[k] # None /\ k \notin uns =>
       sh[k].size = w[k] /\ (k \notin tell => sh[k].fresh)

FieldsOK ==
  /\ living \subseteq Clients /\ telling \subseteq living /\ unserved \subseteq living
  /\ shown \in [Clients -> Images \cup {None}]
  /\ current \in [Clients -> Renders \cup {None}]
  /\ update \in Sizes \cup {None}
  /\ first \in Images \cup {None}
  /\ wanted \in [Clients -> Sizes \cup {None}]

WaitsAreOpen == \A k \in Clients : current[k] # None => k \in living /\ current[k].op \in Open

ClientsFit == \A k \in living : Fits(k, current, shown, wanted, telling, unserved)

PInv == IInv /\ FieldsOK /\ WaitsAreOpen /\ ClientsFit

LEMMA NewIsImage == ASSUME NEW size \in Sizes
  PROVE New(size) \in Images /\ New(size).size = size /\ New(size).fresh
  BY DEF New, Images

LEMMA OutdatedIsImage == ASSUME NEW image \in Images \cup {None}
  PROVE /\ Outdated(image) \in Images \cup {None}
        /\ image = None => Outdated(image) = None
        /\ image # None => Outdated(image) \in Images /\ Outdated(image).size = image.size
                           /\ Outdated(image).fresh = FALSE
  BY DEF Outdated, Images

\* Whatever the operations that the clients wait for come to, they wait only for
\* open ones, and have what they waited for or are unserved.
LEMMA HearKeeps ==
  ASSUME TypeOK', living' = living, telling' \subseteq living, unserved \subseteq living,
         NEW cur \in [Clients -> Renders \cup {None}],
         NEW sh \in [Clients -> Images \cup {None}],
         \A k \in Clients : cur[k] # None => k \in living /\ outcome'[cur[k].op] # "none",
         wanted' \in [Clients -> Sizes \cup {None}],
         living \subseteq Clients,
         \A k \in living : Fits(k, cur, sh, wanted', telling', unserved),
         Hear(cur, sh)
  PROVE  /\ current' \in [Clients -> Renders \cup {None}]
         /\ shown' \in [Clients -> Images \cup {None}]
         /\ unserved' \subseteq living'
         /\ WaitsAreOpen'
         /\ ClientsFit'
<1>. DEFINE over == {k \in Clients : cur[k] # None /\ outcome'[cur[k].op] # "open"}
            done == {k \in over : outcome'[cur[k].op] = "done"}
<1>1. /\ current' = [k \in Clients |-> IF k \in over THEN None ELSE cur[k]]
      /\ shown' = [k \in Clients |-> IF k \in done THEN New(cur[k].size) ELSE sh[k]]
      /\ unserved' = (unserved \ done) \cup (over \ done)
  BY DEF Hear
<1>2. over \subseteq living /\ done \subseteq over
  OBVIOUS
<1>3. \A k \in over : cur[k] # None /\ cur[k] \in Renders /\ cur[k].size \in Sizes
  BY DEF Renders
<1>4. \A k \in Clients \ over : cur[k] # None => outcome'[cur[k].op] = "open"
  OBVIOUS
<1>. HIDE DEF over, done
<1>5. current' \in [Clients -> Renders \cup {None}]
  BY <1>1
<1>6. shown' \in [Clients -> Images \cup {None}]
  BY <1>1, <1>2, <1>3, NewIsImage
<1>7. unserved' \subseteq living'
  BY <1>1, <1>2
<1>8. ASSUME NEW k \in Clients, current'[k] # None
      PROVE  k \in living' /\ current'[k].op \in Open'
  <2>1. current'[k] = cur[k] /\ k \notin over
    BY <1>1, <1>8
  <2>2. cur[k] \in Renders
    BY <2>1, <1>8
  <2>3. cur[k].op \in Ops
    BY <2>2 DEF Renders
  <2>. QED
    BY <2>1, <2>3, <1>4, <1>8 DEF Open
<1>9. ASSUME NEW k \in living PROVE Fits(k, current', shown', wanted', telling', unserved')
  <2>1. Fits(k, cur, sh, wanted', telling', unserved) /\ k \in Clients
    OBVIOUS
  <2>2. CASE k \in done
    <3>1. current'[k] = None /\ shown'[k] = New(cur[k].size) /\ cur[k].size = wanted'[k]
      BY <1>1, <1>2, <1>3, <2>1, <2>2 DEF Fits
    <3>. QED
      BY <3>1, <2>2, <1>2, <1>3, NewIsImage DEF Fits
  <2>3. CASE k \in over \ done
    BY <2>3, <1>1, <2>1 DEF Fits
  <2>4. CASE k \notin over
    <3>1. /\ current'[k] = cur[k] /\ shown'[k] = sh[k]
          /\ k \in unserved' <=> k \in unserved
      BY <1>1, <1>2, <2>1, <2>4
    <3>. QED
      BY <3>1, <2>1 DEF Fits
  <2>. QED
    BY <1>2, <2>2, <2>3, <2>4
<1>. QED
  BY <1>5, <1>6, <1>7, <1>8, <1>9 DEF WaitsAreOpen, ClientsFit

\* A request for an image, made when the client has sh.
LEMMA PerformKeeps ==
  ASSUME PInv, TypeOK', NEW k \in living, NEW size \in Sizes,
         NEW sh \in [Clients -> Images \cup {None}],
         \A j \in Clients \ {k} : sh[j] = shown[j],
         PerformRender(k, size, sh),
         living' = living, telling' \subseteq telling, telling \subseteq telling' \cup {k},
         wanted' \in [Clients -> Sizes \cup {None}],
         wanted'[k] = size, \A j \in Clients \ {k} : wanted'[j] = wanted[j]
  PROVE  /\ current' \in [Clients -> Renders \cup {None}]
         /\ shown' \in [Clients -> Images \cup {None}]
         /\ unserved' \subseteq living'
         /\ WaitsAreOpen'
         /\ ClientsFit'
<1>. DEFINE req == [comm |-> Plot, type |-> "render", preview |-> FALSE]
<1>1. PICK o \in Ops : /\ Queue(o, req)
                       /\ Hear([current EXCEPT ![k] = [op |-> o, size |-> size]], sh)
  BY DEF PerformRender
<1>. DEFINE r   == [op |-> o, size |-> size]
            cur == [current EXCEPT ![k] = r]
<1>2. FieldsOK /\ WaitsAreOpen /\ ClientsFit /\ TypeOK
  BY DEF PInv, IInv
<1>3. r \in Renders /\ r.op = o /\ r.size = size /\ r # None
  BY PlotAssumption DEF Renders
<1>4. Hear(cur, sh)
  BY <1>1
<1>5. outcome'[o] # "none" /\ \A p \in Ops : outcome[p] # "none" => outcome'[p] # "none"
  BY <1>1, <1>2 DEF Queue, TypeOK
<1>. HIDE DEF r, req
<1>6. k \in Clients /\ cur[k] = r /\ \A j \in Clients \ {k} : cur[j] = current[j]
  BY <1>2 DEF FieldsOK
<1>7. cur \in [Clients -> Renders \cup {None}]
  BY <1>2, <1>3 DEF FieldsOK
<1>. HIDE DEF cur
<1>8. ASSUME NEW j \in Clients, cur[j] # None
      PROVE  j \in living /\ outcome'[cur[j].op] # "none"
  <2>1. CASE j = k
    BY <2>1, <1>3, <1>5, <1>6
  <2>2. CASE j # k
    <3>1. cur[j] = current[j]
      BY <2>2, <1>6
    <3>2. j \in living /\ current[j].op \in Ops /\ outcome[current[j].op] # "none"
      BY <3>1, <1>2, <1>8 DEF WaitsAreOpen, Open
    <3>. QED
      BY <3>1, <3>2, <1>5
  <2>. QED
    BY <2>1, <2>2
<1>9. ASSUME NEW j \in living PROVE Fits(j, cur, sh, wanted', telling', unserved)
  <2>1. j \in Clients /\ Fits(j, current, shown, wanted, telling, unserved)
    BY <1>2 DEF FieldsOK, ClientsFit
  <2>2. CASE j = k
    BY <2>2, <1>3, <1>6 DEF Fits
  <2>3. CASE j # k
    <3>1. /\ cur[j] = current[j] /\ sh[j] = shown[j] /\ wanted'[j] = wanted[j]
          /\ j \in telling' <=> j \in telling
      BY <2>1, <2>3, <1>6
    <3>. QED
      BY <3>1, <2>1 DEF Fits
  <2>. QED
    BY <2>2, <2>3
<1>10. living \subseteq Clients /\ telling' \subseteq living /\ unserved \subseteq living
  BY <1>2 DEF FieldsOK
<1>. QED
  BY <1>4, <1>7, <1>8, <1>9, <1>10, HearKeeps

LEMMA RenderPlotStep ==
  ASSUME PInv, IInv', NEW k \in Clients, NEW size \in Sizes, RenderPlot(k, size)
  PROVE  PInv'
<1>1. FieldsOK /\ TypeOK'
  BY DEF PInv, IInv
<1>2. /\ k \in living /\ PerformRender(k, size, shown)
      /\ wanted' = [wanted EXCEPT ![k] = size]
      /\ UNCHANGED <<living, telling, update, first>>
  BY DEF RenderPlot
<1>3. /\ wanted' \in [Clients -> Sizes \cup {None}] /\ wanted'[k] = size
      /\ \A j \in Clients \ {k} : wanted'[j] = wanted[j]
  BY <1>1, <1>2 DEF FieldsOK
<1>4. shown \in [Clients -> Images \cup {None}]
  BY <1>1 DEF FieldsOK
<1>5. /\ current' \in [Clients -> Renders \cup {None}]
      /\ shown' \in [Clients -> Images \cup {None}]
      /\ unserved' \subseteq living' /\ WaitsAreOpen' /\ ClientsFit'
  BY <1>1, <1>2, <1>3, <1>4, PerformKeeps
<1>. QED
  BY <1>1, <1>2, <1>3, <1>5 DEF PInv, FieldsOK

LEMMA RenderUpdateStep ==
  ASSUME PInv, IInv', NEW k \in Clients, RenderUpdate(k)
  PROVE  PInv'
<1>. DEFINE sh == IF update = None THEN shown ELSE [shown EXCEPT ![k] = New(update)]
<1>1. FieldsOK /\ WaitsAreOpen /\ ClientsFit /\ TypeOK'
  BY DEF PInv, IInv
<1>2. /\ k \in telling /\ telling' = telling \ {k}
      /\ update' = IF telling = {k} THEN None ELSE update
      /\ living' = living /\ first' = first
  BY DEF RenderUpdate
<1>3. /\ sh \in [Clients -> Images \cup {None}]
      /\ \A j \in Clients \ {k} : sh[j] = shown[j]
      /\ update # None => sh[k] = New(update) /\ update \in Sizes
  BY <1>1, NewIsImage DEF FieldsOK
<1>4. k \in living /\ Fits(k, current, shown, wanted, telling, unserved)
  BY <1>1, <1>2 DEF FieldsOK, ClientsFit
<1>5. Desired(k) \in Sizes \cup {None}
  BY <1>1 DEF Desired, FieldsOK, Renders, Images
<1>6. CASE Desired(k) \in {None, update}
  <2>1. /\ shown' = sh /\ current' = [current EXCEPT ![k] = None]
        /\ unserved' = IF update = None THEN unserved ELSE unserved \ {k}
        /\ wanted' = IF update = None THEN wanted ELSE [wanted EXCEPT ![k] = update]
        /\ UNCHANGED vars
    BY <1>6 DEF RenderUpdate
  <2>. HIDE DEF sh
  <2>2. FieldsOK'
    BY <2>1, <1>1, <1>2, <1>3 DEF FieldsOK
  <2>3. WaitsAreOpen'
    BY <2>1, <1>1, <1>2 DEF WaitsAreOpen, FieldsOK, Open, vars
  <2>4. current'[k] = None /\ \A j \in Clients \ {k} : current'[j] = current[j]
    BY <2>1, <1>1 DEF FieldsOK
  <2>5. CASE update = None
    <3>1. shown[k] = None
      BY <2>5, <1>1, <1>5, <1>6, PlotAssumption DEF Desired, FieldsOK, Renders, Images
    <3>2. shown' = shown /\ wanted' = wanted /\ unserved' = unserved
      BY <2>1, <2>5 DEF sh
    <3>3. ClientsFit'
      BY <3>1, <3>2, <2>4, <1>1, <1>2 DEF ClientsFit, Fits, FieldsOK
    <3>. QED
      BY <3>3, <2>2, <2>3 DEF PInv
  <2>6. CASE update # None
    <3>1. shown'[k] = New(update) /\ update \in Sizes
      BY <2>1, <2>6, <1>3
    <3>2. wanted'[k] = update /\ \A j \in Clients \ {k} : wanted'[j] = wanted[j]
      BY <2>1, <2>6, <1>1 DEF FieldsOK
    <3>3. \A j \in Clients \ {k} : shown'[j] = shown[j] /\ (j \in unserved' <=> j \in unserved)
      BY <2>1, <2>6, <1>3
    <3>4. Fits(k, current', shown', wanted', telling', unserved')
      BY <3>1, <3>2, <2>4, NewIsImage DEF Fits
    <3>5. ASSUME NEW j \in living, j # k
          PROVE  Fits(j, current', shown', wanted', telling', unserved')
      <4>1. j \in Clients /\ Fits(j, current, shown, wanted, telling, unserved)
        BY <1>1 DEF ClientsFit, FieldsOK
      <4>2. j \in telling' <=> j \in telling
        BY <1>2, <3>5
      <4>. QED
        BY <4>1, <4>2, <2>4, <3>2, <3>3, <3>5 DEF Fits
    <3>6. ClientsFit'
      BY <3>4, <3>5, <1>2 DEF ClientsFit
    <3>. QED
      BY <3>6, <2>2, <2>3 DEF PInv
  <2>. QED
    BY <2>5, <2>6
<1>7. CASE Desired(k) \notin {None, update}
  <2>1. /\ PerformRender(k, Desired(k), sh)
        /\ wanted' = IF k \in unserved THEN [wanted EXCEPT ![k] = Desired(k)] ELSE wanted
    BY <1>7 DEF RenderUpdate
  <2>2. Desired(k) \in Sizes
    BY <1>5, <1>7
  <2>3. k \notin unserved => wanted[k] = Desired(k)
    BY <1>4, <1>7 DEF Fits, Desired
  <2>4. /\ wanted' \in [Clients -> Sizes \cup {None}] /\ wanted'[k] = Desired(k)
        /\ \A j \in Clients \ {k} : wanted'[j] = wanted[j]
    BY <2>1, <2>2, <2>3, <1>1 DEF FieldsOK
  <2>. HIDE DEF sh
  <2>5. /\ current' \in [Clients -> Renders \cup {None}]
        /\ shown' \in [Clients -> Images \cup {None}]
        /\ unserved' \subseteq living' /\ WaitsAreOpen' /\ ClientsFit'
    BY <2>1, <2>2, <2>4, <1>1, <1>2, <1>3, <1>4, PerformKeeps
  <2>6. FieldsOK'
    BY <2>4, <2>5, <1>1, <1>2 DEF FieldsOK
  <2>. QED
    BY <2>5, <2>6 DEF PInv
<1>. QED
  BY <1>6, <1>7

\* The kernel's events.
LEMMA UpdateStep ==
  ASSUME PInv, IInv', NEW pre \in Sizes \cup {None}, Update(pre)
  PROVE  PInv'
<1>1. FieldsOK /\ WaitsAreOpen /\ ClientsFit
  BY DEF PInv
<1>2. /\ telling = {} /\ telling' = living /\ update' = pre
      /\ shown' = [k \in Clients |-> Outdated(shown[k])]
      /\ first' = Outdated(first)
      /\ UNCHANGED <<vars, living, current, wanted, unserved>>
  BY DEF Update, Told
<1>3. FieldsOK'
  BY <1>1, <1>2, OutdatedIsImage DEF FieldsOK
<1>4. WaitsAreOpen'
  BY <1>1, <1>2 DEF WaitsAreOpen, Open, vars
<1>5. ASSUME NEW k \in living' PROVE Fits(k, current', shown', wanted', telling', unserved')
  <2>1. k \in Clients /\ k \in living /\ Fits(k, current, shown, wanted, telling, unserved)
    BY <1>1, <1>2 DEF FieldsOK, ClientsFit
  <2>2. shown[k] \in Images \cup {None} /\ shown'[k] = Outdated(shown[k]) /\ k \in telling'
    BY <1>1, <1>2, <2>1 DEF FieldsOK
  <2>3. shown'[k] # None => shown[k] # None /\ shown'[k].size = shown[k].size
    BY <2>2, OutdatedIsImage
  <2>. QED
    BY <1>2, <2>1, <2>2, <2>3 DEF Fits
<1>. QED
  BY <1>3, <1>4, <1>5 DEF PInv, ClientsFit

LEMMA ShowPlotStep ==
  ASSUME PInv, IInv', NEW pre \in Sizes, ShowPlot(pre)
  PROVE  PInv'
<1>1. FieldsOK /\ WaitsAreOpen /\ ClientsFit
  BY DEF PInv
<1>. DEFINE ks == {k \in living : shown[k] # New(pre)}
<1>2. /\ shown' = [k \in Clients |-> IF k \in ks THEN New(pre) ELSE shown[k]]
      /\ current' = [k \in Clients |-> IF k \in ks THEN None ELSE current[k]]
      /\ unserved' = unserved \ ks
      /\ wanted' = [k \in Clients |-> IF k \in ks THEN pre ELSE wanted[k]]
      /\ UNCHANGED <<vars, living, telling, update, first>>
  BY DEF ShowPlot
<1>. HIDE DEF ks
<1>3. FieldsOK'
  BY <1>1, <1>2, NewIsImage DEF FieldsOK
<1>4. WaitsAreOpen'
  BY <1>1, <1>2 DEF WaitsAreOpen, Open, vars
<1>5. ASSUME NEW k \in living' PROVE Fits(k, current', shown', wanted', telling', unserved')
  <2>1. k \in Clients /\ k \in living /\ Fits(k, current, shown, wanted, telling, unserved)
    BY <1>1, <1>2 DEF FieldsOK, ClientsFit
  <2>2. CASE k \in ks
    BY <1>2, <2>1, <2>2, NewIsImage DEF Fits
  <2>3. CASE k \notin ks
    BY <1>2, <2>1, <2>3 DEF Fits
  <2>. QED
    BY <2>2, <2>3
<1>. QED
  BY <1>3, <1>4, <1>5 DEF PInv, ClientsFit

\* Clients come and go.
LEMMA DisposedKeeps ==
  ASSUME PInv, NEW ks \in SUBSET living, Disposed(ks), telling = {},
         UNCHANGED <<telling, update, first>>
  PROVE  /\ FieldsOK' /\ ClientsFit'
         /\ \A k \in Clients : current'[k] # None => k \in living' /\ current'[k] = current[k]
<1>1. FieldsOK /\ WaitsAreOpen /\ ClientsFit
  BY DEF PInv
<1>2. /\ living' = living \ ks
      /\ unserved' = unserved \ ks
      /\ shown' = [k \in Clients |-> IF k \in ks THEN None ELSE shown[k]]
      /\ wanted' = [k \in Clients |-> IF k \in ks THEN None ELSE wanted[k]]
      /\ current' = [k \in Clients |-> IF k \in ks THEN None ELSE current[k]]
  BY DEF Disposed
<1>3. FieldsOK'
  BY <1>1, <1>2 DEF FieldsOK
<1>4. \A k \in Clients : current'[k] # None => k \in living' /\ current'[k] = current[k]
  BY <1>1, <1>2 DEF WaitsAreOpen
<1>5. ClientsFit'
  BY <1>1, <1>2 DEF FieldsOK, ClientsFit, Fits
<1>. QED
  BY <1>3, <1>4, <1>5

LEMMA PlotClosesStep ==
  ASSUME PInv, IInv', PlotCloses
  PROVE  PInv'
<1>1. telling = {} /\ Disposed(living) /\ UNCHANGED <<telling, update, first>>
  BY DEF PlotCloses, Told
<1>2. living' = {}
  BY <1>1 DEF Disposed
<1>3. /\ FieldsOK' /\ ClientsFit'
      /\ \A k \in Clients : current'[k] # None => k \in living'
  BY <1>1, DisposedKeeps
<1>. QED
  BY <1>2, <1>3 DEF PInv, WaitsAreOpen

LEMMA UnregisterStep ==
  ASSUME PInv, IInv', NEW k \in Clients, UnregisterPlotClient(k)
  PROVE  PInv'
<1>1. CASE PlotCloses
  BY <1>1, PlotClosesStep
<1>2. CASE /\ telling = {} /\ Disposed({k})
           /\ UNCHANGED <<vars, telling, update, first>>
  <2>1. {k} \in SUBSET living
    BY DEF UnregisterPlotClient
  <2>2. /\ FieldsOK' /\ ClientsFit'
        /\ \A j \in Clients : current'[j] # None => j \in living' /\ current'[j] = current[j]
    BY <1>2, <2>1, DisposedKeeps
  <2>3. WaitsAreOpen'
    BY <1>2, <2>2 DEF PInv, WaitsAreOpen, Open, vars
  <2>. QED
    BY <2>2, <2>3 DEF PInv
<1>. QED
  BY <1>1, <1>2 DEF UnregisterPlotClient, Told

LEMMA EditorStep ==
  ASSUME PInv, IInv', GetOrCreateEditorInstance
  PROVE  PInv'
<1>1. FieldsOK /\ WaitsAreOpen /\ ClientsFit
  BY DEF PInv
<1>2. /\ Editor \notin living /\ living' = living \cup {Editor}
      /\ shown' = [shown EXCEPT ![Editor] = first]
      /\ wanted' = [wanted EXCEPT ![Editor] = IF first = None THEN None ELSE first.size]
      /\ unserved' = IF first = Outdated(first) /\ first # None
                     THEN unserved \cup {Editor} ELSE unserved
      /\ UNCHANGED <<vars, current, telling, update, first>>
  BY DEF GetOrCreateEditorInstance
<1>3. Editor \in Clients
  BY DEF Clients
<1>4. first # None => first \in Images /\ first.size \in Sizes
  BY <1>1 DEF FieldsOK, Images
<1>5. FieldsOK'
  BY <1>1, <1>2, <1>3, <1>4 DEF FieldsOK
<1>6. WaitsAreOpen'
  BY <1>1, <1>2 DEF WaitsAreOpen, Open, vars
<1>7. ASSUME first # None, first # Outdated(first) PROVE first.fresh
  BY <1>4, <1>7 DEF Images, Outdated
<1>8. current[Editor] = None
  BY <1>1, <1>2, <1>3 DEF WaitsAreOpen
<1>9. Fits(Editor, current', shown', wanted', telling', unserved')
  BY <1>1, <1>2, <1>3, <1>7, <1>8 DEF Fits, FieldsOK
<1>10. ASSUME NEW k \in living PROVE Fits(k, current', shown', wanted', telling', unserved')
  <2>1. k \in Clients /\ k # Editor /\ Fits(k, current, shown, wanted, telling, unserved)
    BY <1>1, <1>2 DEF FieldsOK, ClientsFit
  <2>2. /\ shown'[k] = shown[k] /\ wanted'[k] = wanted[k]
        /\ k \in unserved' <=> k \in unserved
    BY <1>1, <1>2, <2>1 DEF FieldsOK
  <2>. QED
    BY <1>2, <2>1, <2>2 DEF Fits
<1>. QED
  BY <1>2, <1>5, <1>6, <1>9, <1>10 DEF PInv, ClientsFit

\* What the queue does for others, or on its own.
LEMMA ClientsHearStep ==
  ASSUME PInv, IInv', ClientsHear,
         \A p \in Ops : outcome[p] # "none" => outcome'[p] # "none"
  PROVE  PInv'
<1>1. FieldsOK /\ WaitsAreOpen /\ ClientsFit /\ TypeOK'
  BY DEF PInv, IInv
<1>2. Hear(current, shown) /\ UNCHANGED <<living, telling, update, first, wanted>>
  BY DEF ClientsHear
<1>3. \A k \in Clients : current[k] # None => k \in living /\ outcome'[current[k].op] # "none"
  BY <1>1 DEF WaitsAreOpen, Open
<1>4. \A k \in living : Fits(k, current, shown, wanted', telling', unserved)
  BY <1>1, <1>2 DEF ClientsFit
<1>5. /\ living' = living /\ telling' \subseteq living /\ unserved \subseteq living
      /\ living \subseteq Clients
      /\ current \in [Clients -> Renders \cup {None}]
      /\ shown \in [Clients -> Images \cup {None}]
      /\ wanted' \in [Clients -> Sizes \cup {None}]
  BY <1>1, <1>2 DEF FieldsOK
<1>6. /\ current' \in [Clients -> Renders \cup {None}]
      /\ shown' \in [Clients -> Images \cup {None}]
      /\ unserved' \subseteq living' /\ WaitsAreOpen' /\ ClientsFit'
  BY <1>1, <1>2, <1>3, <1>4, <1>5, HearKeeps
<1>. QED
  BY <1>1, <1>2, <1>6 DEF PInv, FieldsOK

LEMMA NoneIsForgotten ==
  ASSUME TypeOK,
         \/ \E o \in Ops, req \in Requests : Queue(o, req)
         \/ \E o \in Ops, result \in {"done", "failed"} : Returns(o, result)
         \/ RuntimeReady \/ RuntimeBusy \/ RuntimeExits \/ Dispose
         \/ \E c \in Comms : CommCloses(c)
  PROVE  \A p \in Ops : outcome[p] # "none" => outcome'[p] # "none"
<1>1. outcome \in [Ops -> {"none", "open", "done", "failed", "cancelled"}]
  BY DEF TypeOK
<1>2. ASSUME NEW o \in Ops, NEW req \in Requests, Queue(o, req)
      PROVE  \A p \in Ops : outcome[p] # "none" => outcome'[p] # "none"
  BY <1>1, <1>2 DEF Queue
<1>3. ASSUME NEW o \in Ops, NEW result \in {"done", "failed"}, Returns(o, result)
      PROVE  \A p \in Ops : outcome[p] # "none" => outcome'[p] # "none"
  <2>1. outcome' = [outcome EXCEPT ![o] = IF outcome[o] = "open" THEN result ELSE outcome[o]]
    BY <1>3 DEF Returns
  <2>. QED
    BY <1>1, <2>1
<1>4. ASSUME NEW gone, Cancel(gone)
      PROVE  \A p \in Ops : outcome[p] # "none" => outcome'[p] # "none"
  BY <1>1, <1>4 DEF Cancel
<1>5. ASSUME RuntimeReady \/ RuntimeBusy PROVE outcome' = outcome
  BY <1>5 DEF RuntimeReady, RuntimeBusy
<1>6. ASSUME RuntimeExits PROVE outcome' = outcome \/ Cancel(Queued \cup {active})
  BY <1>6 DEF RuntimeExits
<1>7. ASSUME Dispose PROVE Cancel(Queued \cup {active})
  BY <1>7 DEF Dispose
<1>8. ASSUME NEW c \in Comms, CommCloses(c)
      PROVE  outcome' = outcome \/ Cancel({o \in Held : request[o].comm = c})
  BY <1>8 DEF CommCloses
<1>. QED
  BY <1>2, <1>3, <1>4, <1>5, <1>6, <1>7, <1>8

LEMMA PlotInitInv == PlotInit => PInv
<1>. SUFFICES ASSUME PlotInit PROVE PInv
  OBVIOUS
<1>1. IInv
  BY InitInv DEF PlotInit
<1>2. first \in Images \cup {None} /\ (first # None => first.fresh)
  BY NewIsImage DEF PlotInit
<1>3. first # None => first.size \in Sizes
  BY <1>2 DEF Images
<1>4. FieldsOK
  BY <1>2, <1>3 DEF PlotInit, FieldsOK, Clients
<1>5. WaitsAreOpen
  BY DEF PlotInit, WaitsAreOpen
<1>6. ClientsFit
  BY <1>2 DEF PlotInit, ClientsFit, Fits, Clients
<1>. QED
  BY <1>1, <1>4, <1>5, <1>6 DEF PInv

LEMMA PlotNextInv == PInv /\ [PlotNext]_allVars => PInv'
<1>. SUFFICES ASSUME PInv, [PlotNext]_allVars PROVE PInv'
  OBVIOUS
<1>0. IInv' /\ TypeOK
  BY StepIsQueues, NextInv DEF PInv, IInv
<1>1. ASSUME NEW k \in Clients, NEW size \in Sizes, RenderPlot(k, size) PROVE PInv'
  BY <1>0, <1>1, RenderPlotStep
<1>2. ASSUME NEW k \in Clients, RenderUpdate(k) PROVE PInv'
  BY <1>0, <1>2, RenderUpdateStep
<1>3. ASSUME NEW k \in Clients, UnregisterPlotClient(k) PROVE PInv'
  BY <1>0, <1>3, UnregisterStep
<1>4. ASSUME NEW pre \in Sizes \cup {None}, Update(pre) PROVE PInv'
  BY <1>0, <1>4, UpdateStep
<1>5. ASSUME NEW pre \in Sizes, ShowPlot(pre) PROVE PInv'
  BY <1>0, <1>5, ShowPlotStep
<1>6. CASE GetOrCreateEditorInstance
  BY <1>0, <1>6, EditorStep
<1>7. CASE PlotCloses
  BY <1>0, <1>7, PlotClosesStep
<1>8. ASSUME NEW o \in Ops, NEW req \in Requests, QueueOther(o, req), ClientsHear PROVE PInv'
  BY <1>0, <1>8, NoneIsForgotten, ClientsHearStep DEF QueueOther
<1>9. ASSUME NEW o \in Ops, Answered(o) PROVE PInv'
  BY <1>0, <1>9, NoneIsForgotten, ClientsHearStep DEF Answered
<1>10. ASSUME RuntimeReady \/ RuntimeBusy \/ RuntimeExits \/ Dispose, ClientsHear PROVE PInv'
  BY <1>0, <1>10, NoneIsForgotten, ClientsHearStep
<1>11. ASSUME NEW c \in Comms, CommCloses(c), ClientsHear PROVE PInv'
  BY <1>0, <1>11, NoneIsForgotten, ClientsHearStep
<1>12. CASE UNCHANGED allVars
  <2>1. UNCHANGED <<vars, living, shown, current, telling, update, first, wanted, unserved>>
    BY <1>12 DEF allVars, clientVars
  <2>2. FieldsOK' /\ WaitsAreOpen'
    BY <2>1 DEF PInv, FieldsOK, WaitsAreOpen, Open, vars
  <2>3. ClientsFit'
    BY <2>1 DEF PInv, ClientsFit, Fits
  <2>. QED
    BY <1>0, <2>2, <2>3 DEF PInv
<1>. QED
  BY <1>1, <1>2, <1>3, <1>4, <1>5, <1>6, <1>7, <1>8, <1>9, <1>10, <1>11, <1>12 DEF PlotNext

LEMMA PlotInvariance == PlotSpec => []PInv
  BY PlotInitInv, PlotNextInv, PTL DEF PlotSpec

\* The fields of the clients and their queue keep their types, and a client waits
\* only while it lives, for an operation whose promise is open
\* (PlotClientInstance.ts:554-603, 661-669).
THEOREM PlotTypesCorrect == PlotSpec => []TypesOK
<1>1. PInv => TypesOK
  BY DEF PInv, IInv, FieldsOK, WaitsAreOpen, TypesOK, Renders
<1>. QED
  BY <1>1, PlotInvariance, PTL

\* Whatever updates, answers, supersessions and closes cross each other, a client
\* that waits for nothing shows the plot as it is at the size asked for, unless
\* its last request ended without an image (PlotClientInstance.ts:232-301, 499-619).
THEOREM WantedIsShown == PlotSpec => []ShownIsWanted
<1>1. ASSUME PInv PROVE ShownIsWanted
  <2>1. SUFFICES ASSUME NEW k \in living \ (telling \cup unserved),
                        current[k] = None, shown[k] # None
                 PROVE  shown[k] = New(wanted[k])
    BY DEF ShownIsWanted
  <2>2. k \in Clients /\ shown[k] \in Images
    BY <1>1, <2>1 DEF PInv, FieldsOK
  <2>3. shown[k].size = wanted[k] /\ shown[k].fresh
    BY <1>1, <2>1 DEF PInv, ClientsFit, Fits
  <2>4. shown[k].fresh = TRUE
    BY <2>2, <2>3 DEF Images
  <2>. QED
    BY <2>2, <2>3, <2>4 DEF Images, New
<1>. QED
  BY <1>1, PlotInvariance, PTL
=============================================================================
