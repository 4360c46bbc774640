----------------------------- MODULE MCFileLock -----------------------------
(* Instances of FileLock: two processes, the first with one call or two.    *)
EXTENDS FileLock, TLC

CONSTANTS c1, c2, c3, p1, p2

OwnProcess == c1 :> p1 @@ c2 :> p2
Mixed      == c1 :> p1 @@ c2 :> p2 @@ c3 :> p1
=============================================================================
