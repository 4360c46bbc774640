--------------------------- MODULE FileLockProofs ---------------------------
(***************************************************************************)
(* FileLock, proved for any number of calls, processes and crashes: what   *)
(* the runs check on three calls of two processes.                         *)
(*                                                                         *)
(* The argument: an owner file stays in the directory from the moment it   *)
(* is opened until its call removes it, unless the call's process is dead, *)
(* because a reclaimer removes only what it has examined, and what passes  *)
(* the examination is dead and stays so, or is a call that is over and     *)
(* failed to remove its file: it never creates another by that name.  That *)
(* needs PromptWriters.  Of two calls that hold the lock, the second to    *)
(* list the owners would then have seen the first one's file.              *)
(***************************************************************************)
EXTENDS FileLock, TLAPS

(* Every step keeps the types.                                              *)
LEMMA TypeStep ==
    ASSUME TypeOK, [Next]_vars
    PROVE  TypeOK'
<1> USE FileLockAssumption DEF TypeOK, Age, FileState, Location, ownerVars
<1>1. ASSUME NEW c \in Call, Begin(c)
      PROVE  TypeOK'
  BY <1>1 DEF Begin, diskVars, localVars, At, Live, Goto
<1>2. ASSUME NEW c \in Call, Mkdir(c)
      PROVE  TypeOK'
  BY <1>2 DEF Mkdir, localVars, At, Live, Goto, Touch
<1>3. ASSUME NEW c \in Call, StatCreated(c)
      PROVE  TypeOK'
  BY <1>3 DEF StatCreated, diskVars, At, Live, Goto, Withdraw
<1>4. ASSUME NEW c \in Call, OpenOwner(c)
      PROVE  TypeOK'
  BY <1>4 DEF OpenOwner, diskVars, localVars, At, Live, Goto, Withdraw, Touch
<1>5. ASSUME NEW c \in Call, WriteOwner(c)
      PROVE  TypeOK'
  BY <1>5 DEF WriteOwner, localVars, At, Live, Goto
<1>6. ASSUME NEW c \in Call, StatCurrent(c)
      PROVE  TypeOK'
  BY <1>6 DEF StatCurrent, diskVars, localVars, At, Live, Goto, Withdraw
<1>7. ASSUME NEW c \in Call, ListOwners(c)
      PROVE  TypeOK'
  BY <1>7 DEF ListOwners, diskVars, localVars, At, Live, Goto, Withdraw,
       Owners
<1>8. ASSUME NEW c \in Call, Release(c)
      PROVE  TypeOK'
  BY <1>8 DEF Release, diskVars, At, Live, Goto, Withdraw
<1>9. ASSUME NEW c \in Call, RmOwner(c)
      PROVE  TypeOK'
  BY <1>9 DEF RmOwner, RmFails, localVars, At, Live, Goto, Remove
<1>10. ASSUME NEW c \in Call, RmDirectory(c)
      PROVE  TypeOK'
  BY <1>10 DEF RmDirectory, At, Live, Goto, Owners, RmdirSucceeds
<1>11. ASSUME NEW c \in Call, Wake(c)
      PROVE  TypeOK'
  BY <1>11 DEF Wake, diskVars, localVars, At, Live, Goto
<1>12. ASSUME NEW c \in Call, Inspect(c)
      PROVE  TypeOK'
  BY <1>12 DEF Inspect, diskVars, At, Live, Goto
<1>13. ASSUME NEW c \in Call, ListAbandoned(c)
      PROVE  TypeOK'
  BY <1>13 DEF ListAbandoned, diskVars, At, Live, Goto, Return, Owners
<1>14. ASSUME NEW c \in Call, JudgeOwner(c)
      PROVE  TypeOK'
  BY <1>14 DEF JudgeOwner, diskVars, At, Live, Goto, Return, Reclaimable
<1>15. ASSUME NEW c \in Call, RmAbandoned(c)
      PROVE  TypeOK'
  BY <1>15 DEF RmAbandoned, At, Live, Remove
<1>16. ASSUME NEW c \in Call, RmdirAbandoned(c)
      PROVE  TypeOK'
  BY <1>16 DEF RmdirAbandoned, At, Live, Goto, Return, Owners, RmdirSucceeds
<1>17. ASSUME NEW c \in Call, JudgeLegacy(c)
      PROVE  TypeOK'
  BY <1>17 DEF JudgeLegacy, diskVars, localVars, At, Live, Goto
<1>18. ASSUME NEW c \in Call, RmLegacy(c)
      PROVE  TypeOK'
  BY <1>18 DEF RmLegacy, localVars, At, Live, Goto
<1>19. ASSUME NEW c \in Call, FailAttempt(c)
      PROVE  TypeOK'
  BY <1>19 DEF FailAttempt, diskVars, localVars, At, Live, Goto, Withdraw
<1>20. ASSUME NEW c \in Call, TimeOut(c)
      PROVE  TypeOK'
  BY <1>20 DEF TimeOut, diskVars, localVars, Live, Goto
<1>21. ASSUME NEW c \in Call, OwnerAges(c)
      PROVE  TypeOK'
  BY <1>21 DEF OwnerAges, localVars, Live
<1>22. ASSUME NEW p \in Process, Crash(p)
      PROVE  TypeOK'
  BY <1>22 DEF Crash, diskVars, localVars, Live
<1>23. CASE DirectoryAges
  BY <1>23 DEF DirectoryAges, localVars
<1>24. CASE Ended \/ UNCHANGED vars
  BY <1>24 DEF Ended, vars, diskVars, localVars, Live
<1> QED
  BY <1>1, <1>2, <1>3, <1>4, <1>5, <1>6, <1>7, <1>8, <1>9, <1>10, <1>11,
       <1>12, <1>13, <1>14, <1>15, <1>16, <1>17, <1>18, <1>19, <1>20, <1>21,
       <1>22, <1>23, <1>24
  DEF Next, Attempt, Reclaim

(* Every step keeps the owner files in place: rmdir spares a directory with *)
(* files in it, and an attempt removes its file before it ends or is stuck; *)
(* it cannot create the directory again while its own file is in it.        *)
LEMMA PlaceStep ==
    ASSUME TypeOK, FilesInPlace, [Next]_vars
    PROVE  FilesInPlace'
<1> USE FileLockAssumption DEF TypeOK, FilesInPlace, Owners, FileState, ownerVars
<1>1. ASSUME NEW c \in Call, Begin(c)
      PROVE  FilesInPlace'
  BY <1>1 DEF Begin, diskVars, localVars, At, Live, Goto
<1>2. ASSUME NEW c \in Call, Mkdir(c)
      PROVE  FilesInPlace'
  BY <1>2 DEF Mkdir, localVars, At, Live, Goto, Touch
<1>3. ASSUME NEW c \in Call, StatCreated(c)
      PROVE  FilesInPlace'
  BY <1>3 DEF StatCreated, diskVars, At, Live, Goto, Withdraw
<1>4. ASSUME NEW c \in Call, OpenOwner(c)
      PROVE  FilesInPlace'
  BY <1>4 DEF OpenOwner, diskVars, localVars, At, Live, Goto, Withdraw, Touch
<1>5. ASSUME NEW c \in Call, WriteOwner(c)
      PROVE  FilesInPlace'
  BY <1>5 DEF WriteOwner, localVars, At, Live, Goto
<1>6. ASSUME NEW c \in Call, StatCurrent(c)
      PROVE  FilesInPlace'
  BY <1>6 DEF StatCurrent, diskVars, localVars, At, Live, Goto, Withdraw
<1>7. ASSUME NEW c \in Call, ListOwners(c)
      PROVE  FilesInPlace'
  BY <1>7 DEF ListOwners, diskVars, localVars, At, Live, Goto, Withdraw
<1>8. ASSUME NEW c \in Call, Release(c)
      PROVE  FilesInPlace'
  BY <1>8 DEF Release, diskVars, At, Live, Goto, Withdraw
<1>9. ASSUME NEW c \in Call, RmOwner(c)
      PROVE  FilesInPlace'
  BY <1>9 DEF RmOwner, RmFails, localVars, At, Live, Goto, Remove
<1>10. ASSUME NEW c \in Call, RmDirectory(c)
      PROVE  FilesInPlace'
  BY <1>10 DEF RmDirectory, At, Live, Goto, RmdirSucceeds
<1>11. ASSUME NEW c \in Call, Wake(c)
      PROVE  FilesInPlace'
  BY <1>11 DEF Wake, diskVars, localVars, At, Live, Goto
<1>12. ASSUME NEW c \in Call, Inspect(c)
      PROVE  FilesInPlace'
  BY <1>12 DEF Inspect, diskVars, At, Live, Goto
<1>13. ASSUME NEW c \in Call, ListAbandoned(c)
      PROVE  FilesInPlace'
  BY <1>13 DEF ListAbandoned, diskVars, At, Live, Goto, Return
<1>14. ASSUME NEW c \in Call, JudgeOwner(c)
      PROVE  FilesInPlace'
  BY <1>14 DEF JudgeOwner, diskVars, At, Live, Goto, Return, Reclaimable
<1>15. ASSUME NEW c \in Call, RmAbandoned(c)
      PROVE  FilesInPlace'
  BY <1>15 DEF RmAbandoned, At, Live, Remove
<1>16. ASSUME NEW c \in Call, RmdirAbandoned(c)
      PROVE  FilesInPlace'
  BY <1>16 DEF RmdirAbandoned, At, Live, Goto, Return, RmdirSucceeds
<1>17. ASSUME NEW c \in Call, JudgeLegacy(c)
      PROVE  FilesInPlace'
  BY <1>17 DEF JudgeLegacy, diskVars, localVars, At, Live, Goto
<1>18. ASSUME NEW c \in Call, RmLegacy(c)
      PROVE  FilesInPlace'
  BY <1>18 DEF RmLegacy, localVars, At, Live, Goto
<1>19. ASSUME NEW c \in Call, FailAttempt(c)
      PROVE  FilesInPlace'
  BY <1>19 DEF FailAttempt, diskVars, localVars, At, Live, Goto, Withdraw
<1>20. ASSUME NEW c \in Call, TimeOut(c)
      PROVE  FilesInPlace'
  BY <1>20 DEF TimeOut, diskVars, localVars, Live, Goto
<1>21. ASSUME NEW c \in Call, OwnerAges(c)
      PROVE  FilesInPlace'
  BY <1>21 DEF OwnerAges, localVars, Live
<1>22. ASSUME NEW p \in Process, Crash(p)
      PROVE  FilesInPlace'
  BY <1>22 DEF Crash, diskVars, localVars, Live
<1>23. CASE DirectoryAges
  BY <1>23 DEF DirectoryAges, localVars
<1>24. CASE Ended \/ UNCHANGED vars
  BY <1>24 DEF Ended, vars, diskVars, localVars, Live
<1> QED
  BY <1>1, <1>2, <1>3, <1>4, <1>5, <1>6, <1>7, <1>8, <1>9, <1>10, <1>11,
       <1>12, <1>13, <1>14, <1>15, <1>16, <1>17, <1>18, <1>19, <1>20, <1>21,
       <1>22, <1>23, <1>24
  DEF Next, Attempt, Reclaim

(* A live call's owner file is not removed before its time, and as long as  *)
(* it is there the directory is.                                            *)
LEMMA KeptStep ==
    ASSUME PromptWriters, TypeOK, FilesInPlace, LiveOwnersKept, JudgedAreDead,
           [Next]_vars
    PROVE  LiveOwnersKept'
<1> USE FileLockAssumption DEF TypeOK, FilesInPlace, LiveOwnersKept, Owners, Live, FileState,
       ownerVars, GaveUp
<1>1. ASSUME NEW c \in Call, Begin(c)
      PROVE  LiveOwnersKept'
  BY <1>1 DEF Begin, diskVars, localVars, At, Goto
<1>2. ASSUME NEW c \in Call, Mkdir(c)
      PROVE  LiveOwnersKept'
  BY <1>2 DEF Mkdir, localVars, At, Goto, Touch
<1>3. ASSUME NEW c \in Call, StatCreated(c)
      PROVE  LiveOwnersKept'
  BY <1>3 DEF StatCreated, diskVars, At, Goto, Withdraw
<1>4. ASSUME NEW c \in Call, OpenOwner(c)
      PROVE  LiveOwnersKept'
  BY <1>4 DEF OpenOwner, diskVars, localVars, At, Goto, Withdraw, Touch
<1>5. ASSUME NEW c \in Call, WriteOwner(c)
      PROVE  LiveOwnersKept'
  BY <1>5 DEF WriteOwner, localVars, At, Goto
<1>6. ASSUME NEW c \in Call, StatCurrent(c)
      PROVE  LiveOwnersKept'
  BY <1>6 DEF StatCurrent, diskVars, localVars, At, Goto, Withdraw
<1>7. ASSUME NEW c \in Call, ListOwners(c)
      PROVE  LiveOwnersKept'
  BY <1>7 DEF ListOwners, diskVars, localVars, At, Goto, Withdraw
<1>8. ASSUME NEW c \in Call, Release(c)
      PROVE  LiveOwnersKept'
  BY <1>8 DEF Release, diskVars, At, Goto, Withdraw
<1>9. ASSUME NEW c \in Call, RmOwner(c)
      PROVE  LiveOwnersKept'
  BY <1>9 DEF RmOwner, RmFails, localVars, At, Goto, Remove
<1>10. ASSUME NEW c \in Call, RmDirectory(c)
      PROVE  LiveOwnersKept'
  BY <1>10 DEF RmDirectory, At, Goto, RmdirSucceeds
<1>11. ASSUME NEW c \in Call, Wake(c)
      PROVE  LiveOwnersKept'
  BY <1>11 DEF Wake, diskVars, localVars, At, Goto
<1>12. ASSUME NEW c \in Call, Inspect(c)
      PROVE  LiveOwnersKept'
  BY <1>12 DEF Inspect, diskVars, At, Goto
<1>13. ASSUME NEW c \in Call, ListAbandoned(c)
      PROVE  LiveOwnersKept'
  BY <1>13 DEF ListAbandoned, diskVars, At, Goto, Return
<1>14. ASSUME NEW c \in Call, JudgeOwner(c)
      PROVE  LiveOwnersKept'
  BY <1>14 DEF JudgeOwner, diskVars, At, Goto, Return, Reclaimable
<1>15. ASSUME NEW c \in Call, RmAbandoned(c)
      PROVE  LiveOwnersKept'
  BY <1>15 DEF RmAbandoned, At, Remove, localVars, JudgedAreDead, Abandoned
<1>16. ASSUME NEW c \in Call, RmdirAbandoned(c)
      PROVE  LiveOwnersKept'
  BY <1>16 DEF RmdirAbandoned, At, Goto, Return, RmdirSucceeds
<1>17. ASSUME NEW c \in Call, JudgeLegacy(c)
      PROVE  LiveOwnersKept'
  BY <1>17 DEF JudgeLegacy, diskVars, localVars, At, Goto
<1>18. ASSUME NEW c \in Call, RmLegacy(c)
      PROVE  LiveOwnersKept'
  BY <1>18 DEF RmLegacy, localVars, At, Goto
<1>19. ASSUME NEW c \in Call, FailAttempt(c)
      PROVE  LiveOwnersKept'
  BY <1>19 DEF FailAttempt, diskVars, localVars, At, Goto, Withdraw
<1>20. ASSUME NEW c \in Call, TimeOut(c)
      PROVE  LiveOwnersKept'
  BY <1>20 DEF TimeOut, diskVars, localVars, Goto
<1>21. ASSUME NEW c \in Call, OwnerAges(c)
      PROVE  LiveOwnersKept'
  BY <1>21 DEF OwnerAges, localVars
<1>22. ASSUME NEW p \in Process, Crash(p)
      PROVE  LiveOwnersKept'
  BY <1>22 DEF Crash, diskVars, localVars
<1>23. CASE DirectoryAges
  BY <1>23 DEF DirectoryAges, localVars
<1>24. CASE Ended \/ UNCHANGED vars
  BY <1>24 DEF Ended, vars, diskVars, localVars
<1> QED
  BY <1>1, <1>2, <1>3, <1>4, <1>5, <1>6, <1>7, <1>8, <1>9, <1>10, <1>11,
       <1>12, <1>13, <1>14, <1>15, <1>16, <1>17, <1>18, <1>19, <1>20, <1>21,
       <1>22, <1>23, <1>24
  DEF Next, Attempt, Reclaim

(* Whom a reclaimer has examined and not spared is dead or over.            *)
LEMMA JudgeStep ==
    ASSUME TypeOK, FilesInPlace, LiveOwnersKept, JudgedAreDead, [Next]_vars
    PROVE  JudgedAreDead'
<1> USE FileLockAssumption DEF TypeOK, JudgedAreDead, Live, ownerVars, Abandoned, GaveUp
<1>1. ASSUME NEW c \in Call, Begin(c)
      PROVE  JudgedAreDead'
  BY <1>1 DEF Begin, diskVars, localVars, At, Goto
<1>2. ASSUME NEW c \in Call, Mkdir(c)
      PROVE  JudgedAreDead'
  BY <1>2 DEF Mkdir, localVars, At, Goto, Touch
<1>3. ASSUME NEW c \in Call, StatCreated(c)
      PROVE  JudgedAreDead'
  BY <1>3 DEF StatCreated, diskVars, At, Goto, Withdraw
<1>4. ASSUME NEW c \in Call, OpenOwner(c)
      PROVE  JudgedAreDead'
  BY <1>4 DEF OpenOwner, diskVars, localVars, At, Goto, Withdraw, Touch
<1>5. ASSUME NEW c \in Call, WriteOwner(c)
      PROVE  JudgedAreDead'
  BY <1>5 DEF WriteOwner, localVars, At, Goto
<1>6. ASSUME NEW c \in Call, StatCurrent(c)
      PROVE  JudgedAreDead'
  BY <1>6 DEF StatCurrent, diskVars, localVars, At, Goto, Withdraw
<1>7. ASSUME NEW c \in Call, ListOwners(c)
      PROVE  JudgedAreDead'
  BY <1>7 DEF ListOwners, diskVars, localVars, At, Goto, Withdraw, Owners
<1>8. ASSUME NEW c \in Call, Release(c)
      PROVE  JudgedAreDead'
  BY <1>8 DEF Release, diskVars, At, Goto, Withdraw
<1>9. ASSUME NEW c \in Call, RmOwner(c)
      PROVE  JudgedAreDead'
  BY <1>9 DEF RmOwner, RmFails, localVars, At, Goto, Remove
<1>10. ASSUME NEW c \in Call, RmDirectory(c)
      PROVE  JudgedAreDead'
  BY <1>10 DEF RmDirectory, At, Goto, Owners, RmdirSucceeds
<1>11. ASSUME NEW c \in Call, Wake(c)
      PROVE  JudgedAreDead'
  BY <1>11 DEF Wake, diskVars, localVars, At, Goto
<1>12. ASSUME NEW c \in Call, Inspect(c)
      PROVE  JudgedAreDead'
  BY <1>12 DEF Inspect, diskVars, At, Goto
<1>13. ASSUME NEW c \in Call, ListAbandoned(c)
      PROVE  JudgedAreDead'
  BY <1>13 DEF ListAbandoned, diskVars, At, Goto, Return, Owners
<1>14. ASSUME NEW c \in Call, JudgeOwner(c)
      PROVE  JudgedAreDead'
  BY <1>14 DEF JudgeOwner, At, Goto, Return, Reclaimable, diskVars, LiveOwnersKept,
       FilesInPlace
<1>15. ASSUME NEW c \in Call, RmAbandoned(c)
      PROVE  JudgedAreDead'
  BY <1>15 DEF RmAbandoned, At, Remove
<1>16. ASSUME NEW c \in Call, RmdirAbandoned(c)
      PROVE  JudgedAreDead'
  BY <1>16 DEF RmdirAbandoned, At, Goto, Return, Owners, RmdirSucceeds
<1>17. ASSUME NEW c \in Call, JudgeLegacy(c)
      PROVE  JudgedAreDead'
  BY <1>17 DEF JudgeLegacy, diskVars, localVars, At, Goto
<1>18. ASSUME NEW c \in Call, RmLegacy(c)
      PROVE  JudgedAreDead'
  BY <1>18 DEF RmLegacy, localVars, At, Goto
<1>19. ASSUME NEW c \in Call, FailAttempt(c)
      PROVE  JudgedAreDead'
  BY <1>19 DEF FailAttempt, diskVars, localVars, At, Goto, Withdraw
<1>20. ASSUME NEW c \in Call, TimeOut(c)
      PROVE  JudgedAreDead'
  BY <1>20 DEF TimeOut, diskVars, localVars, Goto
<1>21. ASSUME NEW c \in Call, OwnerAges(c)
      PROVE  JudgedAreDead'
  BY <1>21 DEF OwnerAges, localVars
<1>22. ASSUME NEW p \in Process, Crash(p)
      PROVE  JudgedAreDead'
  BY <1>22 DEF Crash, diskVars, localVars
<1>23. CASE DirectoryAges
  BY <1>23 DEF DirectoryAges, localVars
<1>24. CASE Ended \/ UNCHANGED vars
  BY <1>24 DEF Ended, vars, diskVars, localVars
<1> QED
  BY <1>1, <1>2, <1>3, <1>4, <1>5, <1>6, <1>7, <1>8, <1>9, <1>10, <1>11,
       <1>12, <1>13, <1>14, <1>15, <1>16, <1>17, <1>18, <1>19, <1>20, <1>21,
       <1>22, <1>23, <1>24
  DEF Next, Attempt, Reclaim

(* Nobody finds itself the only owner while another call holds the lock.    *)
LEMMA ExclusionStep ==
    ASSUME TypeOK, LiveOwnersKept, MutualExclusion, [Next]_vars
    PROVE  MutualExclusion'
<1> USE DEF TypeOK, MutualExclusion, Holds, At, Live, ownerVars
<1>1. ASSUME NEW c \in Call, Begin(c)
      PROVE  MutualExclusion'
  BY <1>1 DEF Begin, diskVars, localVars, Goto
<1>2. ASSUME NEW c \in Call, Mkdir(c)
      PROVE  MutualExclusion'
  BY <1>2 DEF Mkdir, localVars, Goto, Touch
<1>3. ASSUME NEW c \in Call, StatCreated(c)
      PROVE  MutualExclusion'
  BY <1>3 DEF StatCreated, diskVars, Goto, Withdraw
<1>4. ASSUME NEW c \in Call, OpenOwner(c)
      PROVE  MutualExclusion'
  BY <1>4 DEF OpenOwner, diskVars, localVars, Goto, Withdraw, Touch
<1>5. ASSUME NEW c \in Call, WriteOwner(c)
      PROVE  MutualExclusion'
  BY <1>5 DEF WriteOwner, localVars, Goto
<1>6. ASSUME NEW c \in Call, StatCurrent(c)
      PROVE  MutualExclusion'
  BY <1>6 DEF StatCurrent, diskVars, localVars, Goto, Withdraw
<1>7. ASSUME NEW c \in Call, ListOwners(c)
      PROVE  MutualExclusion'
  BY <1>7 DEF ListOwners, Goto, Withdraw, diskVars, Owners, LiveOwnersKept
<1>8. ASSUME NEW c \in Call, Release(c)
      PROVE  MutualExclusion'
  BY <1>8 DEF Release, diskVars, Goto, Withdraw
<1>9. ASSUME NEW c \in Call, RmOwner(c)
      PROVE  MutualExclusion'
  BY <1>9 DEF RmOwner, RmFails, localVars, Goto, Remove
<1>10. ASSUME NEW c \in Call, RmDirectory(c)
      PROVE  MutualExclusion'
  BY <1>10 DEF RmDirectory, Goto, Owners, RmdirSucceeds
<1>11. ASSUME NEW c \in Call, Wake(c)
      PROVE  MutualExclusion'
  BY <1>11 DEF Wake, diskVars, localVars, Goto
<1>12. ASSUME NEW c \in Call, Inspect(c)
      PROVE  MutualExclusion'
  BY <1>12 DEF Inspect, diskVars, Goto
<1>13. ASSUME NEW c \in Call, ListAbandoned(c)
      PROVE  MutualExclusion'
  BY <1>13 DEF ListAbandoned, diskVars, Goto, Return, Owners
<1>14. ASSUME NEW c \in Call, JudgeOwner(c)
      PROVE  MutualExclusion'
  BY <1>14 DEF JudgeOwner, diskVars, Goto, Return, Reclaimable
<1>15. ASSUME NEW c \in Call, RmAbandoned(c)
      PROVE  MutualExclusion'
  BY <1>15 DEF RmAbandoned, Remove
<1>16. ASSUME NEW c \in Call, RmdirAbandoned(c)
      PROVE  MutualExclusion'
  BY <1>16 DEF RmdirAbandoned, Goto, Return, Owners, RmdirSucceeds
<1>17. ASSUME NEW c \in Call, JudgeLegacy(c)
      PROVE  MutualExclusion'
  BY <1>17 DEF JudgeLegacy, diskVars, localVars, Goto
<1>18. ASSUME NEW c \in Call, RmLegacy(c)
      PROVE  MutualExclusion'
  BY <1>18 DEF RmLegacy, localVars, Goto
<1>19. ASSUME NEW c \in Call, FailAttempt(c)
      PROVE  MutualExclusion'
  BY <1>19 DEF FailAttempt, diskVars, localVars, Goto, Withdraw
<1>20. ASSUME NEW c \in Call, TimeOut(c)
      PROVE  MutualExclusion'
  BY <1>20 DEF TimeOut, diskVars, localVars, Goto
<1>21. ASSUME NEW c \in Call, OwnerAges(c)
      PROVE  MutualExclusion'
  BY <1>21 DEF OwnerAges, localVars
<1>22. ASSUME NEW p \in Process, Crash(p)
      PROVE  MutualExclusion'
  BY <1>22 DEF Crash, diskVars, localVars
<1>23. CASE DirectoryAges
  BY <1>23 DEF DirectoryAges, localVars
<1>24. CASE Ended \/ UNCHANGED vars
  BY <1>24 DEF Ended, vars, diskVars, localVars
<1> QED
  BY <1>1, <1>2, <1>3, <1>4, <1>5, <1>6, <1>7, <1>8, <1>9, <1>10, <1>11,
       <1>12, <1>13, <1>14, <1>15, <1>16, <1>17, <1>18, <1>19, <1>20, <1>21,
       <1>22, <1>23, <1>24
  DEF Next, Attempt, Reclaim

(* The invariant holds initially.                                           *)
LEMMA IInvInit == Init => IInv
  BY FileLockAssumption
  DEF Init, IInv, TypeOK, FilesInPlace, LiveOwnersKept, JudgedAreDead, MutualExclusion,
      Holds, At, Owners, Age, FileState, Location

(* Every step keeps it.                                                     *)
LEMMA IInvStep == IInv /\ [Next]_vars => IInv'
<1> SUFFICES ASSUME IInv, [Next]_vars PROVE IInv'
  OBVIOUS
<1>1. TypeOK' /\ FilesInPlace'
  BY TypeStep, PlaceStep DEF IInv
<1>2. PromptWriters => LiveOwnersKept' /\ JudgedAreDead' /\ MutualExclusion'
  BY KeptStep, JudgeStep, ExclusionStep DEF IInv
<1> QED
  BY <1>1, <1>2 DEF IInv

(* IInv is an invariant of the lock, prompt writers or not.                 *)
THEOREM Invariance == Spec => []IInv
<1>1. Init => IInv
  BY IInvInit
<1>2. IInv /\ [Next]_vars => IInv'
  BY IInvStep
<1> QED
  BY <1>1, <1>2, PTL DEF Spec

(* The variables keep their types, and between its two stats a call knows   *)
(* the inode of its directory.                                              *)
THEOREM TypeCorrect == Spec => []TypeOK
<1>1. IInv => TypeOK
  BY DEF IInv
<1> QED
  BY <1>1, Invariance, PTL

(* Writers of a shared file are serialised if no live process leaves its    *)
(* owner file empty for the grace period.                                   *)
THEOREM Exclusion ==
    ASSUME PromptWriters
    PROVE  Spec => []MutualExclusion
<1>1. IInv => MutualExclusion
  BY DEF IInv
<1> QED
  BY <1>1, Invariance, PTL

(* Under the same condition a holder's directory is the one it created and  *)
(* stays in place with its owner file in it.                                *)
THEOREM HolderKeeps ==
    ASSUME PromptWriters
    PROVE  Spec => []HolderKeepsItsLock
<1>1. IInv => HolderKeepsItsLock
  BY DEF IInv, LiveOwnersKept, HolderKeepsItsLock, Holds, At
<1> QED
  BY <1>1, Invariance, PTL

(* An attempt that has ended leaves an owner file only if its own rm of     *)
(* that file failed (lines 220 and 227 swallow this), whatever else failed. *)
THEOREM EndedLeavesNothing == Spec => []EndedLeavesNoOwner
<1>1. IInv => EndedLeavesNoOwner
  BY DEF IInv, FilesInPlace, Owners, EndedLeavesNoOwner
<1> QED
  BY <1>1, Invariance, PTL

(* The only steps that remove an owner file are its call's rm and a         *)
(* reclaimer's, and the latter finds it dead, or stuck and empty.           *)
LEMMA RemovalStep ==
    ASSUME PromptWriters, IInv, [Next]_vars,
           NEW o \in Call, Live(o), file[o] # "none", file'[o] = "none"
    PROVE  At(o, "rm") \/ (file[o] = "empty" /\ o \in stuck)
<1> USE DEF IInv, TypeOK, Live, ownerVars
<1>1. ASSUME NEW c \in Call, Begin(c)
      PROVE  At(o, "rm") \/ (file[o] = "empty" /\ o \in stuck)
  BY <1>1 DEF Begin, diskVars, localVars, At, Goto
<1>2. ASSUME NEW c \in Call, Mkdir(c)
      PROVE  At(o, "rm") \/ (file[o] = "empty" /\ o \in stuck)
  BY <1>2 DEF Mkdir, localVars, At, Goto, Touch
<1>3. ASSUME NEW c \in Call, StatCreated(c)
      PROVE  At(o, "rm") \/ (file[o] = "empty" /\ o \in stuck)
  BY <1>3 DEF StatCreated, diskVars, At, Goto, Withdraw
<1>4. ASSUME NEW c \in Call, OpenOwner(c)
      PROVE  At(o, "rm") \/ (file[o] = "empty" /\ o \in stuck)
  BY <1>4 DEF OpenOwner, diskVars, localVars, At, Goto, Withdraw, Touch
<1>5. ASSUME NEW c \in Call, WriteOwner(c)
      PROVE  At(o, "rm") \/ (file[o] = "empty" /\ o \in stuck)
  BY <1>5 DEF WriteOwner, localVars, At, Goto
<1>6. ASSUME NEW c \in Call, StatCurrent(c)
      PROVE  At(o, "rm") \/ (file[o] = "empty" /\ o \in stuck)
  BY <1>6 DEF StatCurrent, diskVars, localVars, At, Goto, Withdraw
<1>7. ASSUME NEW c \in Call, ListOwners(c)
      PROVE  At(o, "rm") \/ (file[o] = "empty" /\ o \in stuck)
  BY <1>7 DEF ListOwners, diskVars, localVars, At, Goto, Withdraw, Owners
<1>8. ASSUME NEW c \in Call, Release(c)
      PROVE  At(o, "rm") \/ (file[o] = "empty" /\ o \in stuck)
  BY <1>8 DEF Release, diskVars, At, Goto, Withdraw
<1>9. ASSUME NEW c \in Call, RmOwner(c)
      PROVE  At(o, "rm") \/ (file[o] = "empty" /\ o \in stuck)
  BY <1>9 DEF RmOwner, RmFails, localVars, At, Goto, Remove
<1>10. ASSUME NEW c \in Call, RmDirectory(c)
      PROVE  At(o, "rm") \/ (file[o] = "empty" /\ o \in stuck)
  BY <1>10 DEF RmDirectory, At, Goto, Owners, RmdirSucceeds
<1>11. ASSUME NEW c \in Call, Wake(c)
      PROVE  At(o, "rm") \/ (file[o] = "empty" /\ o \in stuck)
  BY <1>11 DEF Wake, diskVars, localVars, At, Goto
<1>12. ASSUME NEW c \in Call, Inspect(c)
      PROVE  At(o, "rm") \/ (file[o] = "empty" /\ o \in stuck)
  BY <1>12 DEF Inspect, diskVars, At, Goto
<1>13. ASSUME NEW c \in Call, ListAbandoned(c)
      PROVE  At(o, "rm") \/ (file[o] = "empty" /\ o \in stuck)
  BY <1>13 DEF ListAbandoned, diskVars, At, Goto, Return, Owners
<1>14. ASSUME NEW c \in Call, JudgeOwner(c)
      PROVE  At(o, "rm") \/ (file[o] = "empty" /\ o \in stuck)
  BY <1>14 DEF JudgeOwner, diskVars, At, Goto, Return, Reclaimable
<1>15. ASSUME NEW c \in Call, RmAbandoned(c)
      PROVE  At(o, "rm") \/ (file[o] = "empty" /\ o \in stuck)
  BY <1>15 DEF RmAbandoned, Remove, At, JudgedAreDead, Abandoned, GaveUp, FilesInPlace,
       Owners, FileState
<1>16. ASSUME NEW c \in Call, RmdirAbandoned(c)
      PROVE  At(o, "rm") \/ (file[o] = "empty" /\ o \in stuck)
  BY <1>16 DEF RmdirAbandoned, At, Goto, Return, Owners, RmdirSucceeds
<1>17. ASSUME NEW c \in Call, JudgeLegacy(c)
      PROVE  At(o, "rm") \/ (file[o] = "empty" /\ o \in stuck)
  BY <1>17 DEF JudgeLegacy, diskVars, localVars, At, Goto
<1>18. ASSUME NEW c \in Call, RmLegacy(c)
      PROVE  At(o, "rm") \/ (file[o] = "empty" /\ o \in stuck)
  BY <1>18 DEF RmLegacy, localVars, At, Goto
<1>19. ASSUME NEW c \in Call, FailAttempt(c)
      PROVE  At(o, "rm") \/ (file[o] = "empty" /\ o \in stuck)
  BY <1>19 DEF FailAttempt, diskVars, localVars, At, Goto, Withdraw
<1>20. ASSUME NEW c \in Call, TimeOut(c)
      PROVE  At(o, "rm") \/ (file[o] = "empty" /\ o \in stuck)
  BY <1>20 DEF TimeOut, diskVars, localVars, Goto
<1>21. ASSUME NEW c \in Call, OwnerAges(c)
      PROVE  At(o, "rm") \/ (file[o] = "empty" /\ o \in stuck)
  BY <1>21 DEF OwnerAges, localVars
<1>22. ASSUME NEW p \in Process, Crash(p)
      PROVE  At(o, "rm") \/ (file[o] = "empty" /\ o \in stuck)
  BY <1>22 DEF Crash, diskVars, localVars
<1>23. CASE DirectoryAges
  BY <1>23 DEF DirectoryAges, localVars
<1>24. CASE Ended \/ UNCHANGED vars
  BY <1>24 DEF Ended, vars, diskVars, localVars
<1> QED
  BY <1>1, <1>2, <1>3, <1>4, <1>5, <1>6, <1>7, <1>8, <1>9, <1>10, <1>11,
       <1>12, <1>13, <1>14, <1>15, <1>16, <1>17, <1>18, <1>19, <1>20, <1>21,
       <1>22, <1>23, <1>24
  DEF Next, Attempt, Reclaim

(* Under the same condition nobody but its own call removes the owner file  *)
(* of a live process, unless it names none and that call failed to remove it. *)
THEOREM LivingSpared ==
    ASSUME PromptWriters
    PROVE  Spec => ReclaimSparesTheLiving
<1>1. IInv /\ [Next]_vars
        => [\A c \in Call : Live(c) /\ file[c] # "none" /\ file'[c] = "none" =>
              At(c, "rm") \/ (file[c] = "empty" /\ c \in stuck)]_vars
  BY RemovalStep
<1> QED
  BY <1>1, Invariance, PTL DEF Spec, ReclaimSparesTheLiving
=============================================================================
