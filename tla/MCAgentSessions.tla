--------------------------- MODULE MCAgentSessions ---------------------------
(***************************************************************************)
(* An instance of AgentSessions for TLC, three stories: a session with a   *)
(* rich life, one that is watched, or two that compete for the plan.       *)
(***************************************************************************)
EXTENDS AgentSessionsProperties

CONSTANTS rich, watched, c1, c2

Stories == {Agent \ {rich}, Agent \ {watched}, {rich, watched}}
Plans   == {[concurrent |-> 1, daily |-> 2], [concurrent |-> 2, daily |-> 1]}

only(a, x, y) == [s \in Agent |-> IF s = a THEN x ELSE y]
Answers ==
  only(rich, {<<>>, <<"git_ops">>, <<"shell_exec", "file_read">>,
              <<"shell_exec", "shell_exec">>}, {<<>>, <<"git_ops">>})
Iterations == only(rich, 2, 1)
Pauses     == only(rich, 1, 0)
Watches    == only(watched, 2, 0)
=============================================================================
