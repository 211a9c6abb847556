\* A session of two iterations, one that is watched, or two that compete.
SPECIFICATION AgentFairSpec
CONSTANTS
  rich = rich
  watched = watched
  c1 = c1
  c2 = c2
  Agent = {rich, watched, c1, c2}
  Risky = {"shell_exec", "git_ops"}
  Replies <- Answers
  MaxIterations <- Iterations
  Limits <- Plans
  Former <- Stories
  MaxEventBuffer = 3
  MaxPauses <- Pauses
  MaxWatches <- Watches
INVARIANTS
  AgentsSound
  UsedWithConsent
  StopHolds
  ReaderHearsAll
  EndSettles
PROPERTIES
  RunSettles
CHECK_DEADLOCK FALSE
