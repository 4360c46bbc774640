---------------------- MODULE MCRuntimeCommandQueue ----------------------
(* Instances of RuntimeCommandQueue for TLC: which commands are enqueued.   *)
EXTENDS RuntimeCommandQueue

CONSTANT h1

MCHolder == {h1}

\* Every interplay of user prompts, target loops, background messages,
\* control turns, rewinds and one promotion.
SafetyModes == {"prompt", "target", "loop", "note", "subagent", "control"}

\* Target loops, which go on for ever, against what waits behind them; the
\* runtime of a child agent, whose Bash notifications get sealed.
ProgressModes == {"prompt", "loop", "note", "bash"}

\* The commands that each disagreement needs.
BranchModes  == {"note", "subagent", "control"}
ControlModes == {"prompt", "note", "control"}
==========================================================================
