------------------------------ MODULE FileLock ------------------------------
(***************************************************************************)
(* The lock that CCBuddy's processes take before they write a shared file: *)
(* a directory next to the file, with an owner file in it                  *)
(* (packages/shared/src/node/atomicFileLock.ts).  One action is one call   *)
(* of the file system, where other processes run in between.               *)
(*                                                                         *)
(* A Call is one call of acquireFileLock and the release it returns: it    *)
(* draws its token once, so its owner file has the same name in all its    *)
(* attempts and a name of its own among the calls.  Inode numbers may be   *)
(* used again as soon as a directory is gone.                              *)
(*                                                                         *)
(* Time is what grace makes of it: whether the lock directory, or an owner *)
(* file still empty, is older than ownerlessGraceMs.                       *)
(***************************************************************************)
EXTENDS Naturals, FiniteSets

CONSTANTS
    Call,
    Process,
    HostOf,         \* the process of each call
    Ino,            \* inode numbers of directories
    NoLock, Legacy, \* what else the lock's path may lead to
    MaxCrashes,     \* bound on the processes that crash
    MaxStuck,       \* bound on the owner files left by a failing rm at a time
    PromptWriters   \* does a live process write, or try to remove, within the
                    \* grace period the owner file it has opened?

ASSUME FileLockAssumption ==
    /\ HostOf \in [Call -> Process]
    /\ NoLock \notin Ino /\ Legacy \notin Ino /\ NoLock # Legacy
    /\ MaxCrashes \in Nat
    /\ MaxStuck \in Nat
    /\ PromptWriters \in BOOLEAN

VARIABLES
    lock,      \* what the lock's path leads to
    lockAge,   \* the directory's: "old" once it has passed the grace period
    file,      \* each call's owner file in the directory
    fileOld,   \* the calls whose empty owner file has passed the grace period
    stuck,     \* history: calls whose own rm failed and left the owner file
    dead,      \* the processes that have crashed
    pc,        \* where each call is
    ino,       \* createdLockStat.ino
    seenAge,   \* the age the directory had when removeAbandonedLock saw it
    seen,      \* the owners removeAbandonedLock listed and has yet to remove
    todo,      \* those it has yet to examine
    next       \* where the call goes once it has withdrawn from the directory

ownerVars == <<file, fileOld, stuck>>
diskVars  == <<lock, lockAge, ownerVars>>
localVars == <<ino, seenAge, seen, todo, next>>
vars == <<diskVars, dead, pc, localVars>>

Age == {"fresh", "old"}
FileState == {"none", "empty", "full"}

Location == {"new", "mkdir", "stat", "open", "write", "verify", "list", "held",
             "rm", "rmdir", "contend", "readdir", "judge", "remove", "legacy",
             "rmLegacy", "pause", "done"}

\* Types, and: a call between its two stats knows its directory's inode.
TypeOK ==
    /\ lock \in Ino \cup {NoLock, Legacy}
    /\ lockAge \in Age
    /\ file \in [Call -> FileState]
    /\ fileOld \in SUBSET Call
    /\ stuck \in SUBSET Call
    /\ dead \in SUBSET Process
    /\ pc \in [Call -> Location]
    /\ ino \in [Call -> Ino \cup {NoLock}]
    /\ \A c \in Call : pc[c] \in {"open", "write", "verify", "list", "held"} => ino[c] \in Ino
    /\ seenAge \in [Call -> Age]
    /\ seen \in [Call -> SUBSET Call]
    /\ todo \in [Call -> SUBSET Call]
    /\ next \in [Call -> {"contend", "done"}]

\* A lock file of an earlier version may have been left behind.
Init ==
    /\ lock \in {NoLock, Legacy}
    /\ lockAge = "fresh"
    /\ file = [c \in Call |-> "none"]
    /\ fileOld = {}
    /\ stuck = {}
    /\ dead = {}
    /\ pc = [c \in Call |-> "new"]
    /\ ino = [c \in Call |-> NoLock]
    /\ seenAge = [c \in Call |-> "fresh"]
    /\ seen = [c \in Call |-> {}]
    /\ todo = [c \in Call |-> {}]
    /\ next = [c \in Call |-> "done"]

Live(c) == HostOf[c] \notin dead
At(c, l) == pc[c] = l /\ Live(c)
Goto(c, l) == pc' = [pc EXCEPT ![c] = l]

Owners == {c \in Call : file[c] # "none"}

\* Adding or removing an entry renews the directory's mtime.
Touch == lockAge' = "fresh"

-----------------------------------------------------------------------------
(* acquireFileLock: the attempt                                             *)

Begin(c) ==
    /\ At(c, "new")
    /\ Goto(c, "mkdir")
    /\ UNCHANGED <<diskVars, dead, localVars>>

Mkdir(c) ==
    /\ At(c, "mkdir")
    /\ \/ /\ lock = NoLock
          /\ lock' \in Ino
          /\ Touch
          /\ Goto(c, "stat")
       \/ /\ lock # NoLock
          /\ Goto(c, "contend")
          /\ UNCHANGED <<lock, lockAge>>
    /\ UNCHANGED <<ownerVars, dead, localVars>>

\* Mutant: removes the directory only.
WithdrawDirectory(c, l) ==
    /\ Goto(c, "rmdir")
    /\ next' = [next EXCEPT ![c] = l]
    /\ ino' = [ino EXCEPT ![c] = NoLock]
    /\ UNCHANGED <<seenAge, seen, todo>>

\* The catch block of an attempt that has created the directory, on its way
\* to another attempt or to throwing.
Withdraw(c, l) ==
    /\ Goto(c, "rm")
    /\ next' = [next EXCEPT ![c] = l]
    /\ ino' = [ino EXCEPT ![c] = NoLock]
    /\ UNCHANGED <<seenAge, seen, todo>>

\* Mutant: takes whatever stat returns.
StatCreatedUnchecked(c) ==
    /\ At(c, "stat")
    /\ ino' = [ino EXCEPT ![c] = lock]
    /\ Goto(c, "open")
    /\ UNCHANGED <<diskVars, dead, seenAge, seen, todo, next>>

StatCreated(c) ==
    /\ At(c, "stat")
    /\ \/ /\ lock \in Ino
          /\ ino' = [ino EXCEPT ![c] = lock]
          /\ Goto(c, "open")
          /\ UNCHANGED <<seenAge, seen, todo, next>>
       \/ /\ lock \notin Ino
          /\ Withdraw(c, "contend")
    /\ UNCHANGED <<diskVars, dead>>

\* writeFile with flag "wx" opens the owner file and then writes it.  A file
\* that an earlier attempt of the call has left cannot be there any more.
OpenOwner(c) ==
    /\ At(c, "open")
    /\ \/ /\ lock \in Ino
          /\ file' = [file EXCEPT ![c] = "empty"]
          /\ fileOld' = fileOld \ {c}
          /\ Touch
          /\ Goto(c, "write")
          /\ UNCHANGED <<lock, stuck, localVars>>
       \/ /\ lock \notin Ino
          /\ Withdraw(c, "contend")
          /\ UNCHANGED diskVars
    /\ UNCHANGED dead

\* Writing to a file that has been removed succeeds and shows nowhere.
WriteOwner(c) ==
    /\ At(c, "write")
    /\ file' = [file EXCEPT ![c] = IF @ = "empty" THEN "full" ELSE @]
    /\ fileOld' = fileOld \ {c}
    /\ Goto(c, "verify")
    /\ UNCHANGED <<lock, lockAge, stuck, dead, localVars>>

\* Mutant: does not compare the inodes.
StatCurrentUncompared(c) ==
    /\ At(c, "verify")
    /\ \/ /\ lock \in Ino
          /\ Goto(c, "list")
          /\ UNCHANGED localVars
       \/ /\ lock \notin Ino
          /\ Withdraw(c, "contend")
    /\ UNCHANGED <<diskVars, dead>>

\* Is the directory still the one this call saw?
StatCurrent(c) ==
    /\ At(c, "verify")
    /\ \/ /\ lock = ino[c]
          /\ Goto(c, "list")
          /\ UNCHANGED localVars
       \/ /\ lock # ino[c]
          /\ Withdraw(c, "contend")
    /\ UNCHANGED <<diskVars, dead>>

\* Mutant: its own owner file is enough.
ListOwnersIncluded(c) ==
    /\ At(c, "list")
    /\ \/ /\ c \in Owners
          /\ Goto(c, "held")
          /\ UNCHANGED localVars
       \/ /\ c \notin Owners
          /\ Withdraw(c, "contend")
    /\ UNCHANGED <<diskVars, dead>>

\* Is this call its only owner?
ListOwners(c) ==
    /\ At(c, "list")
    /\ \/ /\ Owners = {c}
          /\ Goto(c, "held")
          /\ UNCHANGED localVars
       \/ /\ Owners # {c}
          /\ Withdraw(c, "contend")
    /\ UNCHANGED <<diskVars, dead>>

\* Any other error of the file system ends the call.
FailAttempt(c) ==
    /\ \/ /\ At(c, "mkdir")
          /\ Goto(c, "done")
          /\ UNCHANGED localVars
       \/ /\ Live(c) /\ pc[c] \in {"stat", "open", "write", "verify", "list"}
          /\ Withdraw(c, "done")
    /\ UNCHANGED <<diskVars, dead>>

Release(c) ==
    /\ At(c, "held")
    /\ Withdraw(c, "done")
    /\ UNCHANGED <<diskVars, dead>>

\* Removing an entry, with force: no error if it is not there.
Remove(o) ==
    /\ file' = [file EXCEPT ![o] = "none"]
    /\ fileOld' = fileOld \ {o}
    /\ stuck' = stuck \ {o}
    /\ lockAge' = IF file[o] = "none" THEN lockAge ELSE "fresh"

\* A failing rm is swallowed: the file stays and the call goes on.
RmFails(c) ==
    /\ file[c] # "none"
    /\ Cardinality(stuck) < MaxStuck
    /\ stuck' = stuck \cup {c}
    /\ UNCHANGED <<lockAge, file, fileOld>>

RmOwner(c) ==
    /\ At(c, "rm")
    /\ Remove(c) \/ RmFails(c)
    /\ Goto(c, "rmdir")
    /\ UNCHANGED <<lock, dead, localVars>>

\* rmdir removes whichever directory is there, if it is empty.
RmdirSucceeds == lock \in Ino /\ Owners = {}

\* So is a failing rmdir, whatever the reason.
RmDirectory(c) ==
    /\ At(c, "rmdir")
    /\ \/ RmdirSucceeds /\ lock' = NoLock
       \/ UNCHANGED lock
    /\ Goto(c, next[c])
    /\ next' = [next EXCEPT ![c] = "done"]
    /\ UNCHANGED <<lockAge, ownerVars, dead, ino, seenAge, seen, todo>>

-----------------------------------------------------------------------------
(* acquireFileLock: contention                                              *)

\* maxWaitMs has elapsed, or there are no retries.
TimeOut(c) ==
    /\ Live(c) /\ pc[c] \in {"contend", "pause"}
    /\ Goto(c, "done")
    /\ UNCHANGED <<diskVars, dead, localVars>>

\* The sleep between two attempts ends.
Wake(c) ==
    /\ At(c, "pause")
    /\ Goto(c, "mkdir")
    /\ UNCHANGED <<diskVars, dead, localVars>>

\* removeAbandonedLock returns: its variables are gone.
Return(c, l) ==
    /\ Goto(c, l)
    /\ seenAge' = [seenAge EXCEPT ![c] = "fresh"]
    /\ seen' = [seen EXCEPT ![c] = {}]
    /\ todo' = [todo EXCEPT ![c] = {}]

\* It begins with stat.
Inspect(c) ==
    /\ At(c, "contend")
    /\ \/ lock = NoLock /\ Goto(c, "pause") /\ UNCHANGED seenAge
       \/ lock = Legacy /\ Goto(c, "legacy") /\ UNCHANGED seenAge
       \/ /\ lock \in Ino
          /\ Goto(c, "readdir")
          /\ seenAge' = [seenAge EXCEPT ![c] = lockAge]
    /\ UNCHANGED <<diskVars, dead, ino, seen, todo, next>>

\* Mutant: sees to directories with one owner only.
ListSingleOwner(c) ==
    /\ At(c, "readdir")
    /\ \/ /\ \E o \in Call : Owners = {o}
          /\ seen' = [seen EXCEPT ![c] = Owners]
          /\ todo' = [todo EXCEPT ![c] = Owners]
          /\ Goto(c, "judge")
          /\ UNCHANGED seenAge
       \/ /\ \A o \in Call : Owners # {o}
          /\ Return(c, "pause")
    /\ UNCHANGED <<diskVars, dead, ino, next>>

\* With one owner its file decides; otherwise the directory must be old too.
ListAbandoned(c) ==
    /\ At(c, "readdir")
    /\ \/ /\ lock \in Ino
          /\ \/ \E o \in Call : Owners = {o}
             \/ seenAge[c] = "old"
          /\ seen' = [seen EXCEPT ![c] = Owners]
          /\ todo' = [todo EXCEPT ![c] = Owners]
          /\ Goto(c, IF Owners = {} THEN "remove" ELSE "judge")
          /\ UNCHANGED seenAge
       \/ /\ \/ lock \notin Ino
             \/ seenAge[c] = "fresh" /\ \A o \in Call : Owners # {o}
          /\ Return(c, "pause")
    /\ UNCHANGED <<diskVars, dead, ino, next>>

\* Mutant: an owner file that names no process is reclaimed at any age.
ReclaimableAtAnyAge(o) ==
    \/ file[o] = "full" /\ ~Live(o)
    \/ file[o] = "empty"

\* Mutant: only an owner file that names no process is reclaimed.
ReclaimableByAge(o) == file[o] = "empty" /\ o \in fileOld

\* isOwnerFileReclaimable: its process has exited, or it names none and the
\* grace period is over.
Reclaimable(o) ==
    \/ file[o] = "full" /\ ~Live(o)
    \/ file[o] = "empty" /\ o \in fileOld

JudgeOwner(c) ==
    /\ At(c, "judge")
    /\ \E o \in todo[c] :
         \/ /\ Reclaimable(o)
            /\ todo' = [todo EXCEPT ![c] = @ \ {o}]
            /\ Goto(c, IF todo[c] = {o} THEN "remove" ELSE "judge")
            /\ UNCHANGED <<seenAge, seen>>
         \/ /\ ~Reclaimable(o)
            /\ Return(c, "pause")
    /\ UNCHANGED <<diskVars, dead, ino, next>>

RmAbandoned(c) ==
    /\ At(c, "remove")
    /\ \E o \in seen[c] :
         /\ Remove(o)
         /\ seen' = [seen EXCEPT ![c] = @ \ {o}]
    /\ UNCHANGED <<lock, dead, pc, ino, seenAge, todo, next>>

RmdirAbandoned(c) ==
    /\ At(c, "remove")
    /\ seen[c] = {}
    /\ \/ /\ RmdirSucceeds
          /\ lock' = NoLock
          /\ Return(c, "mkdir")
       \/ /\ ~RmdirSucceeds
          /\ Return(c, "pause")
          /\ UNCHANGED lock
    /\ UNCHANGED <<lockAge, ownerVars, dead, ino, next>>

\* A lock of an earlier version is a file.  It is taken to be left over from
\* before an upgrade, so isOwnerFileReclaimable holds of it.
JudgeLegacy(c) ==
    /\ At(c, "legacy")
    /\ Goto(c, IF lock = Legacy THEN "rmLegacy" ELSE "pause")
    /\ UNCHANGED <<diskVars, dead, localVars>>

\* rm without recursive refuses a directory.
RmLegacy(c) ==
    /\ At(c, "rmLegacy")
    /\ \/ /\ lock \in Ino
          /\ Goto(c, "pause")
          /\ UNCHANGED lock
       \/ /\ lock \notin Ino
          /\ lock' = NoLock
          /\ Goto(c, "mkdir")
    /\ UNCHANGED <<lockAge, ownerVars, dead, localVars>>

-----------------------------------------------------------------------------
(* The environment                                                          *)

Crash(p) ==
    /\ p \notin dead
    /\ Cardinality(dead) < MaxCrashes
    /\ dead' = dead \cup {p}
    /\ UNCHANGED <<diskVars, pc, localVars>>

DirectoryAges ==
    /\ lock \in Ino /\ lockAge = "fresh"
    /\ lockAge' = "old"
    /\ UNCHANGED <<lock, ownerVars, dead, pc, localVars>>

OwnerAges(c) ==
    /\ file[c] = "empty" /\ c \notin fileOld
    /\ PromptWriters => ~Live(c) \/ c \in stuck
    /\ fileOld' = fileOld \cup {c}
    /\ UNCHANGED <<lock, lockAge, file, stuck, dead, pc, localVars>>

-----------------------------------------------------------------------------

\* Every call has ended: only then may nothing happen any more.
Ended ==
    /\ \A c \in Call : pc[c] = "done" \/ ~Live(c)
    /\ UNCHANGED vars

\* What a live process does of itself.
Attempt(c) ==
    \/ Mkdir(c) \/ StatCreated(c) \/ OpenOwner(c) \/ WriteOwner(c)
    \/ StatCurrent(c) \/ ListOwners(c) \/ Release(c) \/ RmOwner(c) \/ RmDirectory(c)

Reclaim(c) ==
    \/ Wake(c) \/ Inspect(c) \/ ListAbandoned(c) \/ JudgeOwner(c) \/ RmAbandoned(c)
    \/ RmdirAbandoned(c) \/ JudgeLegacy(c) \/ RmLegacy(c)

Next ==
    \/ \E c \in Call :
         \/ Begin(c) \/ Attempt(c) \/ Reclaim(c)
         \/ FailAttempt(c) \/ TimeOut(c) \/ OwnerAges(c)
    \/ \E p \in Process : Crash(p)
    \/ DirectoryAges
    \/ Ended

Spec == Init /\ [][Next]_vars

\* A live process goes on, its critical section included; time goes on.
Fairness ==
    /\ \A c \in Call : WF_vars(Attempt(c)) /\ WF_vars(Reclaim(c)) /\ WF_vars(OwnerAges(c))
    /\ WF_vars(DirectoryAges)

FairSpec == Spec /\ Fairness

-----------------------------------------------------------------------------
(* Properties                                                               *)

Holds(c) == At(c, "held")

\* No two live calls hold the lock: writers of a shared file are serialised.
MutualExclusion == \A c, d \in Call : Holds(c) /\ Holds(d) => c = d

\* While a call holds the lock, the directory it created is in place with its
\* owner file in it, whatever directories others have removed.
HolderKeepsItsLock ==
    \A c \in Call : Holds(c) => lock = ino[c] /\ file[c] = "full"

\* An attempt that has ended has left no owner file, which would block the lock
\* for as long as its process lives, unless its own rm failed.
EndedLeavesNoOwner ==
    \A c \in Call : pc[c] \in {"new", "contend", "done"} => file[c] = "none" \/ c \in stuck

\* Has the call passed its last rm, so that it never creates a file again?
GaveUp(c) == pc[c] = "done" \/ (pc[c] = "rmdir" /\ next[c] = "done")

\* Owner files are in a directory, each put there by an attempt that has not
\* withdrawn it yet or could not remove it.
FilesInPlace ==
    /\ lock \notin Ino => Owners = {}
    /\ stuck \subseteq Owners
    /\ \A c \in Owners \ stuck : pc[c] \in {"write", "verify", "list", "held", "rm"}
    /\ \A c \in stuck : pc[c] \notin {"stat", "open", "write", "verify", "list", "held", "rm"}

\* A live call's owner file is there from open to rm and in time.
LiveOwnersKept ==
    \A c \in Call : Live(c) =>
        /\ c \in fileOld => c \in stuck
        /\ file[c] = "empty" =>
              pc[c] = "write" \/ (pc[c] = "rm" /\ next[c] = "done") \/ GaveUp(c)
        /\ pc[c] = "write" => file[c] = "empty"
        /\ pc[c] \in {"verify", "list", "held"} => file[c] = "full"
        /\ pc[c] \in {"list", "held"} => lock = ino[c]

\* What has passed removeAbandonedLock's examination is dead, or a call that
\* is over and whose file names no process.
Abandoned(o) == ~Live(o) \/ (GaveUp(o) /\ file[o] # "full")

JudgedAreDead ==
    \A c \in Call :
        /\ pc[c] = "judge" => \A o \in seen[c] \ todo[c] : Abandoned(o)
        /\ pc[c] = "remove" => \A o \in seen[c] : Abandoned(o)

\* The inductive invariant behind the properties above and the next.
IInv ==
    /\ TypeOK
    /\ FilesInPlace
    /\ PromptWriters => LiveOwnersKept /\ JudgedAreDead /\ MutualExclusion

\* Only its own call removes the owner file of a live process: others reclaim
\* what processes that have exited leave behind, and what names no process and
\* its own call has failed to remove.
ReclaimSparesTheLiving ==
    [][\A c \in Call : Live(c) /\ file[c] # "none" /\ file'[c] = "none" =>
          At(c, "rm") \/ (file[c] = "empty" /\ c \in stuck)]_vars

\* Is no other call at work?
Alone(c) == \A d \in Call \ {c} : pc[d] \in {"new", "done"} \/ ~Live(d)

\* A complete owner file that a process could not remove, and that lives on.
LeftByTheLiving == \E o \in stuck : Live(o) /\ file[o] = "full"

\* Whatever a crash or a failing removal leaves behind (an empty directory, an
\* empty or a complete owner file, several of them, a lock file of an earlier
\* version), a call that is alone with it and does not time out gets the lock,
\* unless a process that lives on has failed to remove its complete owner file.
LoneCallGetsTheLock ==
    \A c \in Call :
        []<>(\/ ~Live(c) \/ ~Alone(c) \/ pc[c] \in {"new", "held", "done"}
            \/ LeftByTheLiving)

\* Also among others that come and go, the owner file of a crashed process does
\* not outlast a call that keeps waiting for the lock, with the same exception.
OrphanIsReclaimed ==
    \A c, o \in Call :
        []<>(\/ ~Live(c) \/ pc[c] \in {"new", "held", "done"}
            \/ Live(o) \/ file[o] = "none" \/ LeftByTheLiving)

=============================================================================
