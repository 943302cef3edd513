--------------------------- MODULE SessionClaims ----------------------------
(***************************************************************************)
(* What the comments and the documentation say of turns and messages, and  *)
(* SessionTurns refutes: the PROPERTY of a run that is expected to find a  *)
(* counterexample.                                                         *)
(***************************************************************************)
EXTENDS SessionTurns

\* docs/tui.md:32: "while a turn runs the message is queued and delivered next".  A
\* message queued on a session whose turns end normally does not wait for ever.
QueuedIsDelivered ==
  \A s \in Sessions :
    queue[s] # <<>> ~>
      queue[s] = <<>> \/ status[s] \notin {"pass", "input_required", "interrupted"}

=============================================================================
