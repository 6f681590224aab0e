------------------------- MODULE MCSessionLifecycle -------------------------
(* SessionLifecycle on small instances.                                    *)
EXTENDS SessionLifecycle

\* The behaviours of a session that this window created.
NewSession == Init /\ isNew = TRUE
NewSessionSpec == NewSession /\ [][Next]_vars

\* The behaviours of a session that was restored, and those of a new one that is
\* not started or restarted again.
FairSessionSpec ==
  /\ Init /\ [][Next /\ (isNew => made' = 0)]_vars
  /\ WF_vars(StartLimited) /\ WF_vars(RestartLimited) /\ WF_vars(Shutting)

\* The behaviours of a new session from its first successful start, as long
\* as it is restarted and deleted but not started again.
RunningSession ==
  /\ inSessions = TRUE /\ kernel = TRUE /\ isNew = TRUE
  /\ state = "ready" /\ link = TRUE /\ barrier = "open" /\ inbox = <<>>
  /\ connecting = "no" /\ byHand = FALSE /\ retry = TRUE /\ spawned = FALSE
  /\ restarting = FALSE /\ validating = FALSE
  /\ startPc = "none" /\ restartPc = "none" /\ deletePc = "idle"
  /\ exitObserved = FALSE /\ reconnecting = "no"
  /\ proc = "running" /\ srv = "steady" /\ asked = FALSE
  /\ settled = TRUE /\ abandoned = FALSE /\ made = 0

RunningSessionSpec == RunningSession /\ [][Next /\ startPc' = "none"]_vars
=============================================================================
