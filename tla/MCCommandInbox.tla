--------------------------- MODULE MCCommandInbox ---------------------------
(* Instances of CommandInbox for TLC.                                       *)
EXTENDS CommandInbox, TLC

CONSTANTS a, b, x, t, u, s

Handle(k) == [of |-> "handle", command |-> k]
Ask(k) == [of |-> "query", command |-> k]

\* A text command that is retried, or queried, with another command that evicts
\* it from the settled ones; a compaction that is retried and queried.
Scenarios ==
    { (a :> Handle(t)) @@ (b :> Handle(t)) @@ (x :> Handle(s)),
      (a :> Handle(t)) @@ (b :> Ask(t)) @@ (x :> Handle(u)),
      (a :> Handle(t)) @@ (b :> Ask(t)) @@ (x :> Handle(s)),
      (a :> Handle(u)) @@ (b :> Ask(u)) @@ (x :> Handle(u)) }
=============================================================================
