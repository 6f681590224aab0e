---------------------------- MODULE MCConsoleInput ----------------------------
(***************************************************************************)
(* TLC's instance of a console's input: background and blank input, and    *)
(* the session's exits and attachments, are each followed without the      *)
(* other.                                                                  *)
(***************************************************************************)
EXTENDS ConsoleInput

AllInLine == \A i \in Inputs : InLine(kind[i])

MCSpec == Init /\ [][Next /\ (losses = 0 \/ AllInLine)']_vars /\ Fairness
=============================================================================
