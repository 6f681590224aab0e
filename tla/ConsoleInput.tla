----------------------------- MODULE ConsoleInput -----------------------------
(***************************************************************************)
(* The input of one console, services/console/consoleInstance.ts: code is  *)
(* submitted from the console, enqueued from an editor or executed at      *)
(* once, is checked for completeness, waits while the kernel is busy, and  *)
(* is handed to the session, while the user cancels, interrupts and        *)
(* clears, and the session exits and is attached again.                    *)
(*                                                                         *)
(* A console of a console session (_alignConsoleSubmission).  An action is *)
(* what runs between two awaits; what follows a cancelled await runs       *)
(* before any other event (Calm).  The kernel, the input boundary provider *)
(* and what the session does with an execution are external.               *)
(***************************************************************************)
EXTENDS Naturals, Sequences, FiniteSets

CONSTANTS
  MaxInputs,  \* bound: inputs accepted, the remainders of split ones included
  MaxLosses,  \* bound: exits of the kernel and attachments over another one
  MaxAside    \* bound: inputs of background requests, or nothing but white space

ASSUME BoundsAssumption ==
  MaxInputs \in Nat /\ MaxLosses \in Nat /\ MaxAside \in Nat

Inputs == 1 .. MaxInputs
None   == 0
Pass   == MaxInputs + 1  \* the frame of processPendingInput

VARIABLES
  con,      \* the fields of the instance and of the session it is attached to
  call,     \* where the call that brought an input stands
  pass,     \* where processPendingInput stands, and the input it works on
  kind,     \* of an input: brought by a background request, known to be complete, blank
  life,     \* what became of an input
  sent,     \* history: the inputs in the order they were handed to the session
  rest,     \* history: the input that one is the remainder of
  losses,   \* exits and attachments so far
  stalled   \* history: a pass left input in the queue that nothing has gone on with since

vars == <<con, call, pass, kind, life, sent, rest, losses, stalled>>

-----------------------------------------------------------------------------
\* What is known of an input: "open" from its acceptance until it is handed over,
\* "handed" until execute() resolves; the kernel then has it and says "busy" and
\* "idle" of it.  It is "over" if it has been given back to the user as incomplete,
\* cancelled, or refused.
Lives == {"new", "open", "handed", "kernel", "busy", "done", "over"}

\* submitCode waits for boundaries, for the supervisor to check, and, when the
\* kernel has the code, for its answer; enqueueCode waits for the draft and
\* boundaries, then for the kernel's check, which is all a background one does.
Calls == {"none", "boundaries", "supervisor", "accepted", "prepare", "check", "background"}

NoPass == [pc |-> "none", input |-> None]

Init ==
  /\ con = [attached |-> FALSE, disposed |-> FALSE, state |-> "off", queue |-> <<>>,
            inputState |-> "Idle", canceller |-> None, cancelled |-> {}, stale |-> {},
            busyId |-> None, interactive |-> FALSE, enqueueCheck |-> FALSE, drain |-> FALSE]
  /\ call = [i \in Inputs |-> "none"]
  /\ pass = NoPass
  /\ kind = [i \in Inputs |-> [background |-> FALSE, verified |-> FALSE, blank |-> FALSE]]
  /\ life = [i \in Inputs |-> "new"]
  /\ sent = <<>>
  /\ rest = [i \in Inputs |-> None]
  /\ losses = 0
  /\ stalled = FALSE

-----------------------------------------------------------------------------
(* The instance *)

\* codeSubmissionInProgress.
InProgress(c) == c.canceller # None \/ (c.busyId # None /\ c.interactive)

\* Of the user, and code.
InLine(k) == ~k.background /\ ~k.blank

\* The pending input shown in the transcript, _runtimeItemPendingInput: that of the
\* user, unless it is a single one and blank.
PendingShown ==
  LET shown == {k \in DOMAIN con.queue : ~kind[con.queue[k]].background} IN
  \E k \in shown : ~kind[con.queue[k]].blank \/ shown # {k}

\* Fault: a check or submission under way is not waited for.
OccupiedByQueue == con.busyId # None \/ con.inputState = "Processing" \/ PendingShown

\* What submitCode, enqueueCode and executeCode wait for.
Occupied ==
  \/ InProgress(con)
  \/ con.busyId # None
  \/ con.enqueueCheck
  \/ con.inputState = "Processing"
  \/ PendingShown

\* A check of the queue's head that can be cancelled.
Cancellable(i) == ~kind[i].background /\ ~kind[i].verified

\* processPendingInput up to its await.
MayProcess(c) ==
  /\ c.attached /\ c.queue # <<>> /\ c.inputState = "Idle"
  /\ ~InProgress(c) /\ c.busyId = None /\ ~c.enqueueCheck

Process(c) ==
  IF ~MayProcess(c) THEN c ELSE
    [c EXCEPT !.inputState = "Processing",
              !.canceller = IF Cancellable(Head(c.queue)) THEN Pass ELSE None]

\* _drainPendingInputIfIdle.
Drain(c) == IF ~c.disposed /\ c.state = "idle" THEN Process(c) ELSE c

\* The frame of the pass, given the instance before and after.
PassOf(before, after) ==
  IF before.inputState = "Idle" /\ after.inputState = "Processing"
    THEN [pc |-> "check", input |-> Head(after.queue)]
    ELSE pass

\* cancelCodeSubmission.
CancelSubmission(c) ==
  IF ~InProgress(c) THEN c ELSE
    [c EXCEPT !.stale = {i \in Inputs : call[i] # "none"},
              !.cancelled = @ \cup ({c.canceller} \ {None}),
              !.busyId = IF c.interactive THEN None ELSE @,
              !.canceller = None,
              !.drain = TRUE]

\* clearPendingInput.
ClearQueue(c) ==
  [c EXCEPT !.queue = <<>>,
            !.inputState = IF @ = "Processing" THEN "Interrupted" ELSE @]

Detach(c) == [CancelSubmission(c) EXCEPT !.busyId = None, !.attached = FALSE]

\* _trackPendingDispatch.
Track(c, i) == [c EXCEPT !.busyId = i, !.interactive = ~kind[i].background]

\* No continuation of a cancelled await, or of one that did not wait, is due.
Calm ==
  /\ ~con.drain
  /\ con.cancelled = {}
  /\ pass.pc = "check" => Cancellable(pass.input) \/ ~kind[pass.input].verified

\* The next input to be accepted.
IsNext(i) == i \in Inputs /\ life[i] = "new" /\ \A j \in 1 .. i - 1 : life[j] # "new"

\* What goes on with the queue, if it is not to wait.
Instance(c) == con' = c /\ pass' = PassOf(con, c) /\ stalled' = FALSE
Becomes(i, l) == life' = [life EXCEPT ![i] = l]

-----------------------------------------------------------------------------
(* Input arrives *)

Accept(i, background, verified) ==
  /\ IsNext(i) /\ Calm /\ ~con.disposed
  /\ \E blank \in BOOLEAN :
       /\ blank => ~background
       /\ blank \/ background => Cardinality({j \in Inputs : ~InLine(kind[j])}) < MaxAside
       /\ kind' = [kind EXCEPT ![i] =
                    [background |-> background, verified |-> verified, blank |-> blank]]
  /\ UNCHANGED <<pass, rest, losses, stalled>>

\* addPendingInput.
Queued(i) ==
  /\ con' = [con EXCEPT !.queue = Append(@, i)]
  /\ Becomes(i, "open")
  /\ UNCHANGED <<call, sent>>

\* doExecuteCode of an input that has not been handed over: without a session
\* there is but a warning.
Sent(c, i) ==
  IF c.attached
    THEN /\ Becomes(i, "handed") /\ sent' = Append(sent, i)
    ELSE /\ Becomes(i, "over") /\ UNCHANGED sent

\* submitCode (or executeCode: verified) has to wait.
SubmitWaits == Occupied \/ (con.attached /\ con.state # "idle")

\* submitCode with its completeness check.
Submit(i) ==
  /\ Accept(i, FALSE, FALSE)
  /\ IF SubmitWaits THEN Queued(i)
     ELSE IF ~con.attached
       THEN Becomes(i, "over") /\ UNCHANGED <<con, call, sent>>
       ELSE /\ con' = [con EXCEPT !.canceller = i]
            /\ call' = [call EXCEPT ![i] = "boundaries"]
            /\ Becomes(i, "open")
            /\ UNCHANGED sent

\* executeCode, and submitCode without a check.
Execute(i, background) ==
  /\ Accept(i, background, TRUE)
  /\ IF SubmitWaits THEN Queued(i)
     ELSE /\ Sent(con, i)
          /\ con' = IF con.attached
                    THEN [con EXCEPT !.busyId = i, !.interactive = ~background] ELSE con
          /\ UNCHANGED call

EnqueueWaits == PendingShown \/ ~con.attached \/ con.state # "idle" \/ Occupied

\* enqueueCode: an interactive one reads the draft first, a background one that is
\* known to be complete is executed at once.
Enqueue(i, background, verified) ==
  /\ Accept(i, background, verified)
  /\ IF EnqueueWaits THEN Queued(i)
     ELSE IF background /\ verified
       THEN /\ Sent(con, i)
            /\ con' = [con EXCEPT !.busyId = i, !.interactive = FALSE]
            /\ UNCHANGED call
       ELSE /\ con' = IF background THEN con
                      ELSE [con EXCEPT !.canceller = i, !.enqueueCheck = TRUE]
            /\ call' = [call EXCEPT ![i] = IF background THEN "background" ELSE "prepare"]
            /\ Becomes(i, "open")
            /\ UNCHANGED sent

-----------------------------------------------------------------------------
(* submitCode goes on *)

Gone(i) == i \in con.cancelled \/ i \in con.stale \/ ~con.attached \/ con.disposed

\* The finally of submitCode, of a call that is not stale: it clears the handler,
\* whoever set it.
SubmitEnds(c, i) ==
  Drain([c EXCEPT !.canceller = IF i \in con.stale THEN @ ELSE None,
                  !.cancelled = @ \ {i}, !.stale = @ \ {i}])

Returns(i) == call' = [call EXCEPT ![i] = "none"]

\* It was cancelled meanwhile, or is incomplete.
SubmitOver(i) ==
  /\ call[i] = "boundaries"
  /\ Instance(SubmitEnds(con, i))
  /\ Becomes(i, "over") /\ Returns(i)
  /\ UNCHANGED <<kind, sent, rest, losses>>

SubmitWhole(i) ==
  /\ call[i] = "boundaries" /\ ~Gone(i)
  /\ Sent(con, i)
  /\ Instance(SubmitEnds(Track(con, i), i))
  /\ Returns(i)
  /\ UNCHANGED <<kind, rest, losses>>

\* The input is several fragments: the first is executed, and r, which stands for
\* the others, queued.
Splits(i, r) ==
  /\ IsNext(r) /\ ~kind[i].blank
  /\ kind' = [kind EXCEPT ![r] = [background |-> FALSE, verified |-> TRUE, blank |-> FALSE]]
  /\ life' = [life EXCEPT ![i] = "handed", ![r] = "open"]
  /\ sent' = Append(sent, i)
  /\ rest' = [rest EXCEPT ![r] = i]
  /\ Returns(i)
  /\ UNCHANGED losses

\* The instance when the remainder is queued and the first fragment executed.
WithRemainder(i, r) == Track([con EXCEPT !.queue = Append(@, r)], i)

SubmitSplit(i) ==
  /\ call[i] = "boundaries" /\ ~Gone(i)
  /\ \E r \in Inputs : Splits(i, r) /\ Instance(SubmitEnds(WithRemainder(i, r), i))

\* No boundaries: the supervisor checks and executes.
SubmitUnprocessed(i) ==
  /\ call[i] = "boundaries" /\ ~Gone(i)
  /\ con' = [con EXCEPT !.busyId = i, !.interactive = TRUE]
  /\ call' = [call EXCEPT ![i] = "supervisor"]
  /\ UNCHANGED <<pass, kind, life, sent, rest, losses, stalled>>

\* _executeUnprocessed has found the code complete and sends it.
SupervisorAccepts(i) ==
  /\ call[i] = "supervisor" /\ i \notin con.cancelled /\ con.attached
  /\ call' = [call EXCEPT ![i] = "accepted"]
  /\ Becomes(i, "kernel") /\ sent' = Append(sent, i)
  /\ UNCHANGED <<con, pass, kind, rest, losses, stalled>>

\* The busy message of an input is no longer waited for.
NotBusy(c, i) == [c EXCEPT !.busyId = IF @ = i THEN None ELSE @]

\* It has been accepted, and is shown, or has been cancelled meanwhile.
AcceptReturns(i) ==
  /\ call[i] = "accepted"
  /\ Instance(SubmitEnds(IF Gone(i) THEN NotBusy(con, i) ELSE con, i))
  /\ Returns(i)
  /\ UNCHANGED <<kind, life, sent, rest, losses>>

\* It was cancelled, is incomplete, or could not be checked.
SupervisorRefuses(i) ==
  /\ call[i] = "supervisor"
  /\ Instance(SubmitEnds(NotBusy(con, i), i))
  /\ Becomes(i, "over") /\ Returns(i)
  /\ UNCHANGED <<kind, sent, rest, losses>>

-----------------------------------------------------------------------------
(* enqueueCode goes on *)

\* Fault: the handler is not taken back.
LeavesHandler(c, i) ==
  Drain([c EXCEPT !.enqueueCheck = IF kind[i].background THEN @ ELSE FALSE,
                  !.cancelled = @ \ {i}, !.stale = @ \ {i}])

\* The finally of enqueueCode.
EnqueueEnds(c, i) ==
  Drain([c EXCEPT !.canceller = IF @ = i THEN None ELSE @,
                  !.enqueueCheck = IF kind[i].background THEN @ ELSE FALSE,
                  !.cancelled = @ \ {i}, !.stale = @ \ {i}])

\* No background check can be cancelled.
EnqueueGone(i) ==
  \/ ~con.attached \/ con.disposed
  \/ ~kind[i].background /\ (i \in con.cancelled \/ i \in con.stale)

\* It was cancelled; it is incomplete and shown to the user, who may have typed on
\* (of a background request nobody is told); the draft or the check failed; or
\* another client has changed the draft.
EnqueueOver(i) ==
  /\ call[i] \in {"prepare", "check", "background"}
  /\ Instance(EnqueueEnds(con, i))
  /\ Becomes(i, "over") /\ Returns(i)
  /\ UNCHANGED <<kind, sent, rest, losses>>

\* No boundaries: the kernel is asked.
EnqueueChecks(i) ==
  /\ call[i] = "prepare" /\ ~EnqueueGone(i) /\ ~kind[i].verified
  /\ call' = [call EXCEPT ![i] = "check"]
  /\ UNCHANGED <<con, pass, kind, life, sent, rest, losses, stalled>>

EnqueueSends(i) ==
  /\ call[i] \in {"prepare", "check", "background"} /\ ~EnqueueGone(i)
  /\ Sent(con, i)
  /\ Instance(EnqueueEnds(Track(con, i), i))
  /\ Returns(i)
  /\ UNCHANGED <<kind, rest, losses>>

EnqueueSplit(i) ==
  /\ call[i] = "prepare" /\ ~EnqueueGone(i) /\ ~kind[i].verified
  /\ \E r \in Inputs : Splits(i, r) /\ Instance(EnqueueEnds(WithRemainder(i, r), i))

-----------------------------------------------------------------------------
(* processPendingInput goes on *)

\* Its finally: it goes on only if told to.
PassEnds(c, on) ==
  LET d == [c EXCEPT !.inputState = "Idle"]
      e == IF on THEN Drain(d) ELSE d
  IN /\ con' = e
     /\ pass' = IF e.inputState = "Processing"
                  THEN [pc |-> "check", input |-> Head(e.queue)] ELSE NoPass

\* It does not, and leaves what is queued.
Leaves(c) == PassEnds(c, FALSE) /\ stalled' = (c.queue # <<>>)

\* The instance when the check of the queue's head has returned.
Checked ==
  [con EXCEPT !.canceller = IF @ = Pass THEN None ELSE @, !.cancelled = @ \ {Pass}]

Shifted == [Checked EXCEPT !.queue = Tail(@)]

\* The queue has been cleared, or the session lost, during the check.
Outdated ==
  \/ con.inputState = "Interrupted" \/ con.disposed \/ ~con.attached
  \/ ~(con.queue # <<>> /\ Head(con.queue) = pass.input)

PassOutdated ==
  /\ pass.pc = "check" /\ Outdated
  /\ Leaves(Checked)
  /\ UNCHANGED <<call, kind, life, sent, rest, losses>>

PassCancelled ==
  /\ pass.pc = "check" /\ ~Outdated /\ Pass \in con.cancelled
  /\ PassEnds(Shifted, TRUE) /\ stalled' = FALSE
  /\ Becomes(pass.input, "over")
  /\ UNCHANGED <<call, kind, sent, rest, losses>>

Answered ==
  pass.pc = "check" /\ ~Outdated /\ Pass \notin con.cancelled

\* Incomplete: given back to the user, and nothing else runs.
PassIncomplete ==
  /\ Answered /\ ~kind[pass.input].verified
  /\ IF kind[pass.input].background THEN PassEnds(Shifted, TRUE) /\ stalled' = FALSE
     ELSE Leaves(Shifted)
  /\ Becomes(pass.input, "over")
  /\ UNCHANGED <<call, kind, sent, rest, losses>>

\* The check fails: the input stays.
PassFails ==
  /\ pass.pc = "check" /\ Pass \notin con.cancelled /\ ~kind[pass.input].verified
  /\ Leaves(Checked)
  /\ UNCHANGED <<call, kind, life, sent, rest, losses>>

PassSends ==
  /\ Answered
  /\ con' = Track(Shifted, pass.input)
  /\ pass' = [pass EXCEPT !.pc = "execute"]
  /\ Becomes(pass.input, "handed") /\ sent' = Append(sent, pass.input)
  /\ UNCHANGED <<call, kind, rest, losses, stalled>>

\* execute() has resolved.  If the busy message of the input is still to come, the
\* idle one will go on.
PassAccepted ==
  /\ pass.pc = "execute"
  /\ life' = [life EXCEPT ![pass.input] = IF @ = "handed" THEN "kernel" ELSE @]
  /\ PassEnds(con, con.attached /\ con.busyId = None /\ con.state = "idle")
  /\ stalled' = FALSE
  /\ UNCHANGED <<call, kind, sent, rest, losses>>

PassRejected ==
  /\ pass.pc = "execute" /\ life[pass.input] = "handed"
  /\ Becomes(pass.input, "over")
  /\ PassEnds(NotBusy(con, pass.input), TRUE) /\ stalled' = FALSE
  /\ UNCHANGED <<call, kind, sent, rest, losses>>

\* The microtask of cancelCodeSubmission.
RunDrain ==
  /\ con.drain
  /\ Instance(Drain([con EXCEPT !.drain = FALSE]))
  /\ UNCHANGED <<call, kind, life, sent, rest, losses>>

-----------------------------------------------------------------------------
(* The session and the kernel *)

\* execute() of doExecuteCode resolves, or rejects.
ByPass(i) == pass.pc = "execute" /\ pass.input = i

Accepted(i) ==
  /\ life[i] = "handed" /\ ~ByPass(i)
  /\ Becomes(i, "kernel")
  /\ UNCHANGED <<con, call, pass, kind, sent, rest, losses, stalled>>

Rejected(i) ==
  /\ life[i] = "handed" /\ ~ByPass(i)
  /\ Becomes(i, "over")
  /\ Instance(Drain(NotBusy(con, i)))
  /\ UNCHANGED <<call, kind, sent, rest, losses>>

\* Fault: the end of an execution does not go on with the queue.
SaysIdleOnly(i) ==
  /\ life[i] = "busy" /\ Calm
  /\ Becomes(i, "done")
  /\ con' = IF con.attached THEN NotBusy(con, i) ELSE con
  /\ UNCHANGED <<call, pass, kind, sent, rest, losses, stalled>>

\* The kernel's busy and idle messages for an input; a console that is not
\* attached does not hear them.
SaysBusy(i) ==
  /\ life[i] = "kernel" /\ Calm
  /\ Becomes(i, "busy")
  /\ con' = IF con.attached THEN NotBusy(con, i) ELSE con
  /\ UNCHANGED <<call, pass, kind, sent, rest, losses, stalled>>

SaysIdle(i) ==
  /\ life[i] = "busy" /\ Calm
  /\ Becomes(i, "done")
  /\ Instance(IF con.attached THEN Drain(NotBusy(con, i)) ELSE con)
  /\ UNCHANGED <<call, kind, sent, rest, losses>>

\* The kernel is busy for whatever reason, or not available for a while.
KernelBusy ==
  /\ con.state = "idle" /\ Calm
  /\ con' = [con EXCEPT !.state = "busy"]
  /\ UNCHANGED <<call, pass, kind, life, sent, rest, losses, stalled>>

\* It is ready or idle: handleRuntimeStateChange.
KernelIdle ==
  /\ con.state # "idle" /\ Calm
  /\ Instance(Process([con EXCEPT !.state = "idle"]))
  /\ UNCHANGED <<call, kind, life, sent, rest, losses>>

\* The session ends: what the kernel had is lost.
Lost == [i \in Inputs |-> IF life[i] \in {"handed", "kernel", "busy"} THEN "done" ELSE life[i]]

SessionEnds ==
  /\ losses < MaxLosses /\ Calm /\ con.attached
  /\ losses' = losses + 1
  /\ con' = [Detach(con) EXCEPT !.state = "off"]
  /\ life' = Lost
  /\ UNCHANGED <<call, pass, kind, sent, rest, stalled>>

\* attachRuntimeSession: of the same session, which may be running.
Attach(c) == [c EXCEPT !.attached = TRUE]

AttachRuntimeSession ==
  /\ Calm /\ ~con.disposed
  /\ con.attached => losses < MaxLosses
  /\ losses' = IF con.attached THEN losses + 1 ELSE losses
  /\ LET c == Attach(IF con.attached THEN Detach(con) ELSE con)
     IN Instance(IF c.state = "idle" THEN Process(c) ELSE c)
  /\ UNCHANGED <<call, kind, life, sent, rest>>

-----------------------------------------------------------------------------
(* The user *)

CancelCodeSubmission ==
  /\ Calm /\ InProgress(con)
  /\ con' = CancelSubmission(con)
  /\ UNCHANGED <<call, pass, kind, life, sent, rest, losses, stalled>>

\* The check of the front end gives way to one by the runtime, or is stopped; not
\* once the supervisor has it.
CancelCompletenessCheck ==
  /\ Calm /\ con.canceller # None /\ con.busyId = None
  /\ con.canceller \in Inputs => call[con.canceller] \notin {"supervisor", "accepted"}
  /\ con' = [con EXCEPT !.cancelled = @ \cup {con.canceller}]
  /\ UNCHANGED <<call, pass, kind, life, sent, rest, losses, stalled>>

Cleared == [i \in Inputs |-> IF \E k \in DOMAIN con.queue : con.queue[k] = i
                             THEN "over" ELSE life[i]]

\* There is something to clear, if only a pass whose input has left the queue.
Clears == con.queue # <<>> \/ con.inputState = "Processing"

\* interrupt, when nothing is being submitted, and clearConsole: the queue goes.
Interrupt ==
  /\ Calm /\ Clears /\ ~InProgress(con)
  /\ con' = ClearQueue(con) /\ life' = Cleared /\ stalled' = FALSE
  /\ UNCHANGED <<call, pass, kind, sent, rest, losses>>

ClearConsole ==
  /\ Calm /\ Clears
  /\ con' = ClearQueue(con) /\ life' = Cleared /\ stalled' = FALSE
  /\ UNCHANGED <<call, pass, kind, sent, rest, losses>>

Dispose ==
  /\ Calm /\ ~con.disposed
  /\ con' = Detach(ClearQueue(CancelSubmission([con EXCEPT !.disposed = TRUE])))
  /\ life' = Cleared /\ stalled' = FALSE
  /\ UNCHANGED <<call, pass, kind, sent, rest, losses>>

-----------------------------------------------------------------------------
Arrives ==
  \E i \in Inputs :
    \/ Submit(i)
    \/ \E background \in BOOLEAN : Execute(i, background)
    \/ \E background, verified \in BOOLEAN : Enqueue(i, background, verified)

Submission(i) ==
  \/ SubmitOver(i) \/ SubmitWhole(i) \/ SubmitSplit(i) \/ SubmitUnprocessed(i)
  \/ SupervisorAccepts(i) \/ AcceptReturns(i) \/ SupervisorRefuses(i)

Enqueuing(i) ==
  \/ EnqueueOver(i) \/ EnqueueChecks(i) \/ EnqueueSends(i) \/ EnqueueSplit(i)

Passing ==
  \/ PassOutdated \/ PassCancelled \/ PassIncomplete \/ PassFails \/ PassSends
  \/ PassAccepted \/ PassRejected

Kernel(i) == Accepted(i) \/ Rejected(i) \/ SaysBusy(i) \/ SaysIdle(i)

User ==
  \/ CancelCodeSubmission \/ CancelCompletenessCheck \/ Interrupt \/ ClearConsole \/ Dispose

Work ==
  \/ \E i \in Inputs : Submission(i) \/ Enqueuing(i) \/ Kernel(i)
  \/ Passing \/ RunDrain

Next ==
  \/ Arrives
  \/ Work
  \/ KernelBusy \/ KernelIdle \/ SessionEnds \/ AttachRuntimeSession
  \/ User

Spec == Init /\ [][Next]_vars

\* Checks are answered, executions resolve, the kernel goes through its inputs, the
\* event loop runs what is due, and a kernel that is busy becomes idle.
Fairness == WF_vars(Work) /\ WF_vars(KernelIdle)

FairSpec == Spec /\ Fairness

-----------------------------------------------------------------------------
InQueue(i) == \E k \in DOMAIN con.queue : con.queue[k] = i

FieldsType ==
  /\ con \in [attached : BOOLEAN, disposed : BOOLEAN, state : {"idle", "busy", "off"},
              queue : Seq(Inputs), inputState : {"Idle", "Processing", "Interrupted"},
              canceller : Inputs \cup {None, Pass},
              cancelled : SUBSET (Inputs \cup {Pass}), stale : SUBSET Inputs,
              busyId : Inputs \cup {None}, interactive : BOOLEAN,
              enqueueCheck : BOOLEAN, drain : BOOLEAN]
  /\ call \in [Inputs -> Calls]
  /\ pass \in [pc : {"none", "check", "execute"}, input : Inputs \cup {None}]
  /\ kind \in [Inputs -> [background : BOOLEAN, verified : BOOLEAN, blank : BOOLEAN]]
  /\ life \in [Inputs -> Lives]
  /\ sent \in Seq(Inputs)
  /\ rest \in [Inputs -> Inputs \cup {None}]
  /\ losses \in 0 .. MaxLosses
  /\ stalled \in BOOLEAN

\* The fields agree with the calls under way: what can cancel is a call or pass that
\* has not ended, an input is being processed if and only if a pass is, and a check
\* of enqueueCode that keeps others waiting is under way.
FramesType ==
  /\ con.canceller \in Inputs => call[con.canceller] # "none"
  /\ con.canceller = Pass => pass.pc = "check"
  /\ con.inputState = "Idle" <=> pass = NoPass
  /\ con.enqueueCheck => \E i \in Inputs : call[i] \in {"prepare", "check"}

\* Every field is of its kind and its owner is alive: no handler, state or flag is
\* left over from a call that has ended (consoleInstance.ts:300-345, 1130-1153,
\* 1433-1441, 1864-1880).
TypeOK == FieldsType /\ FramesType

\* An input that was accepted waits in the queue or in the call that brought it,
\* and nowhere twice, until it is handed over, given back or dropped; none is
\* handed over twice, whatever is cancelled, cleared, lost or attached in between
\* (consoleInstance.ts:916-1153, 1194-1441, 1882-1998).
NothingLostOrTwice ==
  /\ \A i \in Inputs : life[i] = "open" => (InQueue(i) <=> call[i] = "none")
  /\ \A i \in Inputs : InQueue(i) => life[i] = "open"
  /\ \A k, l \in DOMAIN con.queue : con.queue[k] = con.queue[l] => k = l
  /\ \A k, l \in DOMAIN sent : sent[k] = sent[l] => k = l

\* What the user submits is handed over in the order it was accepted, by whichever
\* of the ways: submitted, from an editor, or executed at once.  Background
\* requests may overtake, and blank input be overtaken
\* (consoleInstance.ts:938-985, 1166-1187, 1201-1220).
SentInOrder ==
  \A k, l \in DOMAIN sent :
    k < l /\ InLine(kind[sent[k]]) /\ InLine(kind[sent[l]]) => sent[k] < sent[l]

\* No submission, pass or continuation is under way, no busy message is waited for,
\* and the kernel is idle.
AtRest ==
  /\ Calm /\ con.attached /\ con.state = "idle" /\ ~con.disposed
  /\ pass.pc = "none" /\ con.canceller = None /\ con.busyId = None

\* Input does not wait for nothing: beside an idle kernel only for an input that
\* the kernel has, for a background check, or because a pass left it in the queue,
\* at an incomplete fragment, a failed check or a queue cleared meanwhile, and no
\* call, message or attachment that goes on with the queue has come since
\* (consoleInstance.ts:1499-1517, 1849-1880, 3186-3213).
QueueIsServed ==
  AtRest /\ con.queue # <<>> /\ ~stalled =>
    \E i \in Inputs : life[i] \in {"handed", "kernel", "busy"} \/ call[i] # "none"

\* Input is handed over once and in order, or comes to a known end, and what waits
\* has something to wait for (consoleInstance.ts:916-1220, 1849-2000).
InputsAreKept == NothingLostOrTwice /\ SentInOrder /\ QueueIsServed

\* Input does not wait for ever: again and again all of it has been handed over,
\* given back or dropped, unless the session is not attached or a pass has left it
\* in the queue (consoleInstance.ts:1149-1153, 1433-1441, 1864-1880).
InputsSettle ==
  []<>((\A i \in Inputs : life[i] # "open") \/ ~con.attached \/ stalled)

\* The remainder of an input runs right after its first fragment: "Queue the
\* remainder before dispatch: a synchronous Idle event must not reorder it"
\* (consoleInstance.ts:1103).
RemainderFollows ==
  \A k, l \in DOMAIN sent :
    k < l /\ rest[sent[l]] # None /\ ~kind[sent[k]].background => sent[k] <= rest[sent[l]]

\* "an immediate submission is not stranded behind an empty asynchronous processing
\* pass" (consoleInstance.ts:1850-1852): input does not wait beside an idle kernel
\* that has nothing to do.
NothingStranded ==
  AtRest /\ con.queue # <<>> =>
    \E i \in Inputs : life[i] \in {"handed", "kernel", "busy"} \/ call[i] # "none"
=============================================================================
