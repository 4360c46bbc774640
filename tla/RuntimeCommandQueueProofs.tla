--------------------- MODULE RuntimeCommandQueueProofs ---------------------
(***************************************************************************)
(* What holds of RuntimeCommandQueue for every number of commands, rewinds *)
(* and promotions and for every set of modes: its invariants, by one       *)
(* inductive invariant (IInv), its action properties, by a second one, and *)
(* that it implements the one-seat server of module TurnServer.            *)
(***************************************************************************)
EXTENDS RuntimeCommandQueue, TLAPS, WellFoundedInduction

(* The commands of a non-empty set have an oldest one.                     *)
LEMMA OldestExists ==
    ASSUME NEW S \in SUBSET Command, S # {}
    PROVE  \E c \in S : IsFirst(c, S)
<1>1. S \subseteq Nat
  BY QueueAssumption DEF Command
<1>2. \E c \in S : \A d \in S : ~(<<d, c>> \in OpToRel(<, Nat))
  BY <1>1, NatLessThanWellFounded, WFMin
<1>3. \A c, d \in S : ~(<<d, c>> \in OpToRel(<, Nat)) => c <= d
  BY <1>1 DEF OpToRel
<1> QED
  BY <1>2, <1>3 DEF IsFirst

-----------------------------------------------------------------------------
(* What the drain loop's synchronous stretch does to the commands of q.     *)

DispatchEffect(C, q, l) ==
    /\ queue' \subseteq q
    /\ running' \subseteq q \ queue'
    /\ outcome' \in [Command -> Outcome]
    /\ \A c \in Command : outcome'[c] = IF c \in (q \ queue') \ running'
                                        THEN "dropped" ELSE outcome[c]
    /\ cancelPending' = {}
    /\ aborted' \in BOOLEAN
    /\ pc' \in {"idle", "top", "start", "verify", "persist", "control"}
    /\ running' = {} <=> pc' \in {"idle", "top"}
    /\ reservation' # NoCommand <=> pc' = "start"
    /\ reservation' \in running' \cup {NoCommand}
    /\ lease' \in {l, NoHolder}
    /\ pc' = "idle" => \A c \in queue' : lease' # NoHolder /\ C[c].input # lease'

(* A batch is empty only if nothing in q may run.                          *)
LEMMA EmptyBatch ==
    ASSUME NEW C, NEW q \in SUBSET Command, NEW l,
           NextRunnableBatch(C, q, l) = {}
    PROVE  \A c \in q : l # NoHolder /\ C[c].input # l
<1>1. CASE l = NoHolder
  <2>1. NextBatch(C, q) = {}
    BY <1>1 DEF NextRunnableBatch
  <2>2. ~ \E c \in q : IsFirst(c, q)
    BY <2>1 DEF NextBatch
  <2> QED
    BY <2>2, OldestExists
<1>2. CASE l # NoHolder
  BY <1>2 DEF NextRunnableBatch
<1> QED
  BY <1>1, <1>2

(* The first await of a command that is being executed.                    *)
LEMMA FirstPhaseType ==
    ASSUME NEW m \in Mode
    PROVE  /\ FirstPhase(m) \in {"start", "verify", "persist", "control"}
           /\ FirstPhase(m) = "start" <=> m = "prompt"
BY DEF FirstPhase, Mode, Cancellable, BranchBound, Notification

LEMMA DispatchLemma ==
    ASSUME TypeOK, running = {}, cancelPending = {}, activeTurn = NoCommand,
           NEW C \in [Command -> CommandRecord],
           NEW q \in SUBSET Command,
           NEW l,
           NEW r \in Command \cup {NoCommand},
           r # NoCommand => /\ q = {r}
                            /\ C[r].mode = "prompt"
                            /\ l = NoHolder \/ C[r].input = l,
           Dispatch(C, q, l, r)
    PROVE  DispatchEffect(C, q, l)
<1> DEFINE batch == NextRunnableBatch(C, q, l)
           live  == Eligible(C, batch)
<1>1. batch \subseteq q /\ live \subseteq batch
  BY DEF NextRunnableBatch, NextBatch, Eligible
<1>2. queue' = q \ batch /\ lease' = IF batch = {} THEN l ELSE NoHolder
  BY DEF Dispatch
<1>3. r # NoCommand => batch = {r} /\ live = {r}
  <2> SUFFICES ASSUME r # NoCommand
               PROVE  batch = {r} /\ live = {r}
    OBVIOUS
  <2>1. r \in batch
    BY EmptyBatch, <1>1
  <2>2. ~Stale(C, r) /\ ~Suppressed(C, r)
    BY DEF Stale, Suppressed, BranchBound, Notification
  <2> QED
    BY <2>1, <2>2, <1>1 DEF Eligible
<1>4. \A c \in Command : C[c].mode \in Mode
  BY DEF CommandRecord
<1>5. CASE LoopEnds(batch, r)
  <2>1. \A c \in q : l # NoHolder /\ C[c].input # l
    BY <1>5, EmptyBatch DEF LoopEnds
  <2>2. r = NoCommand
    BY <1>3, <1>5 DEF LoopEnds
  <2> QED
    BY <1>2, <1>5, <2>1, <2>2 DEF LoopEnds, DispatchEffect, TypeOK
<1>6. CASE AllDropped(batch, live, r)
  <2>1. r = NoCommand
    BY <1>3, <1>6 DEF AllDropped
  <2> QED
    BY <1>1, <1>2, <1>6, <2>1 DEF AllDropped, DispatchEffect, TypeOK, Settle, Outcome
<1>7. ASSUME NEW c \in live, ExecutionBegins(C, c, batch, live, r)
      PROVE  DispatchEffect(C, q, l)
  <2>1. c \in Command /\ C[c].mode \in Mode
    BY <1>1, <1>4
  <2>2. /\ pc' \in {"start", "verify", "persist", "control"}
        /\ pc' = "start" <=> C[c].mode = "prompt"
    BY <1>7, <2>1, FirstPhaseType DEF ExecutionBegins
  <2>3. /\ reservation' # NoCommand <=> pc' = "start"
        /\ reservation' \in running' \cup {NoCommand}
    BY <1>3, <1>7, <2>1, <2>2, QueueAssumption DEF ExecutionBegins, Command, NoCommand
  <2> QED
    BY <1>1, <1>2, <1>7, <2>2, <2>3
    DEF ExecutionBegins, DispatchEffect, TypeOK, Settle, Outcome
<1>8. ASSUME NEW c \in live, ExecutionRejected(C, c, live, r)
      PROVE  FALSE
  <2>1. ~CanStart(r, c)
    BY <1>8 DEF ExecutionRejected
  <2> QED
    BY <1>3, <2>1 DEF CanStart, SlotFree
<1> QED
  BY <1>5, <1>6, <1>7, <1>8 DEF Dispatch

-----------------------------------------------------------------------------
(* IInv is inductive: a lemma for each group of actions.                    *)

(* In the drain loop's idle and top states nothing is being executed.       *)
LEMMA NothingRuns ==
    ASSUME IInv, pc \in {"idle", "top"}
    PROVE  /\ running = {} /\ cancelPending = {}
           /\ reservation = NoCommand /\ activeTurn = NoCommand
           /\ absorbing = NoCommand /\ snapshot = {}
BY DEF IInv, ExecutionShape, CancelMarksAreLive

(* The part of IInv about the commands once the loop has run over q, a set  *)
(* that holds the queue and perhaps one command created in the same step.   *)
LEMMA CommandsAfterDispatch ==
    ASSUME IInv, pc \in {"idle", "top"},
           NEW q \in SUBSET Command,
           NEW l \in Holder \cup {NoHolder},
           DispatchEffect(cmd', q, l),
           \/ q = queue /\ nextId' = nextId
           \/ /\ nextId \in Command
              /\ q = queue \cup {nextId} /\ nextId' = nextId + 1,
           UNCHANGED <<signalled, activeTurn, absorbVars, history, branchVars>>
    PROVE  /\ EveryCommandInOnePlace'
           /\ ExecutionShape'
           /\ TurnBelongsToExecution'
           /\ NoTurnCollision'
           /\ CancelMarksAreLive'
           /\ NoStrandedCommand'
           /\ \A c \in Command : c >= nextId' => outcome'[c] = "none"
<1> USE QueueAssumption DEF NoCommand
<1>0. /\ running = {} /\ cancelPending = {} /\ reservation = 0 /\ activeTurn = 0
      /\ absorbing = 0 /\ snapshot = {}
  BY NothingRuns
<1>1. \A c \in q : outcome[c] = "none" /\ c < nextId'
  BY DEF IInv, EveryCommandInOnePlace, OnlyIssuedCommands, TypeOK, Command
<1>2. \A c \in Command : c < nextId' /\ outcome[c] = "none" => c \in q
  BY <1>0 DEF IInv, EveryCommandInOnePlace, TypeOK, Command
<1>3. history \cap q = {}
  BY DEF IInv, EveryCommandInOnePlace, OnlyIssuedCommands, TypeOK, Command
<1>4. EveryCommandInOnePlace'
  <2>1. \A c \in Command : (c < nextId' /\ outcome'[c] = "none") <=>
                              c \in queue' \cup running'
    BY <1>1, <1>2 DEF DispatchEffect
  <2>2. queue' \cap running' = {} /\ history' \cap queue' = {}
    BY <1>3 DEF DispatchEffect
  <2>3. absorbing' = 0 /\ 0 \notin queue' \cup running'
    BY <1>0 DEF DispatchEffect, absorbVars, Command
  <2> QED
    BY <2>1, <2>2, <2>3 DEF EveryCommandInOnePlace
<1>5. ExecutionShape'
  BY <1>0 DEF ExecutionShape, DispatchEffect, absorbVars
<1>6. TurnBelongsToExecution'
  BY <1>0 DEF TurnBelongsToExecution, DispatchEffect
<1>7. NoTurnCollision'
  BY DEF IInv, NoTurnCollision, DispatchEffect
<1>8. CancelMarksAreLive'
  BY DEF CancelMarksAreLive, DispatchEffect
<1>9. NoStrandedCommand'
  BY DEF NoStrandedCommand, DispatchEffect, DrainActive
<1>10. \A c \in Command : c >= nextId' => outcome'[c] = "none"
  BY <1>1 DEF IInv, OnlyIssuedCommands, DispatchEffect, TypeOK, Command
<1> QED
  BY <1>4, <1>5, <1>6, <1>7, <1>8, <1>9, <1>10

(* A command is created, and the loop woken.                                *)
LEMMA EnqueueStep ==
    ASSUME IInv,
           NEW m \in Mode, NEW i \in Holder \cup {NoHolder}, NEW reserves \in BOOLEAN,
           Enqueue(m, i, reserves),
           reserves => /\ Quiet
                       /\ m = "prompt"
                       /\ lease = NoHolder \/ i = lease,
           \/ i = NoHolder /\ UNCHANGED promo
           \/ i \in Holder /\ promo' = [promo EXCEPT ![i] = "admitted"]
    PROVE  IInv'
<1> DEFINE C == [cmd EXCEPT ![nextId] =
                    [mode |-> m, gen |-> branchGeneration, input |-> i]]
           q == queue \cup {nextId}
           r == IF reserves THEN nextId ELSE reservation
<1> USE QueueAssumption
<1>1. /\ nextId \in Command /\ nextId' = nextId + 1 /\ cmd' = C
      /\ KickDrain(C, q, lease, r)
      /\ UNCHANGED <<signalled, activeTurn, absorbVars, history, branchVars>>
  BY DEF Enqueue
<1>2. C \in [Command -> CommandRecord] /\ TypeOK
  BY <1>1 DEF IInv, TypeOK, CommandRecord
<1>3. promo' \in [Holder -> {"none", "leased", "admitted", "rejected", "released"}]
  BY DEF IInv, TypeOK
<1>4. \A c \in Command : cmd'[c].input # NoHolder =>
         promo'[cmd'[c].input] \in {"admitted", "released"}
  <2> SUFFICES ASSUME NEW c \in Command, cmd'[c].input # NoHolder
               PROVE  promo'[cmd'[c].input] \in {"admitted", "released"}
    OBVIOUS
  <2>1. CASE c = nextId
    <3>1. cmd'[c].input = i
      BY <1>1, <1>2, <2>1 DEF TypeOK
    <3> QED
      BY <3>1, <1>2 DEF TypeOK
  <2>2. CASE c # nextId
    <3>1. cmd'[c] = cmd[c] /\ cmd[c].input \in Holder
      BY <1>1, <1>2, <2>2 DEF TypeOK, CommandRecord
    <3>2. promo[cmd[c].input] \in {"admitted", "released"}
      BY <3>1 DEF IInv, OnlyIssuedCommands
    <3> QED
      BY <3>1, <3>2, <1>2 DEF TypeOK
  <2> QED
    BY <2>1, <2>2
<1>5. \A c \in Command : c >= nextId' => cmd'[c].input = NoHolder
  BY <1>1, <1>2 DEF IInv, OnlyIssuedCommands, TypeOK, Command
<1>6. \A c \in signalled' \cup history' : c < nextId'
  BY <1>1, <1>2 DEF IInv, OnlyIssuedCommands, TypeOK, Command
<1>7. CASE DrainActive
  <2>1. ~reserves
    BY <1>7 DEF Quiet
  <2>2. /\ queue' = q /\ lease' = lease /\ reservation' = reservation
        /\ UNCHANGED <<outcome, cancelPending, pc, running, aborted>>
    BY <1>1, <1>7, <2>1 DEF KickDrain, drainVars
  <2>3. TypeOK'
    BY <1>1, <1>2, <1>3, <2>2 DEF TypeOK, absorbVars, branchVars, Command
  <2>4. EveryCommandInOnePlace'
    <3>1. outcome[nextId] = "none" /\ nextId \notin history
      BY <1>1, <1>2 DEF IInv, OnlyIssuedCommands, TypeOK, Command
    <3>2. nextId \notin running \cup {absorbing}
      BY <1>1, <1>2 DEF IInv, EveryCommandInOnePlace, TypeOK, Command, NoCommand
    <3>3. \A c \in Command : c < nextId' <=> c < nextId \/ c = nextId
      BY <1>1, <1>2 DEF TypeOK, Command
    <3> QED
      BY <1>1, <2>2, <3>1, <3>2, <3>3 DEF IInv, EveryCommandInOnePlace, absorbVars
  <2>5. ExecutionShape'
    BY <1>1, <1>2, <2>2
    DEF IInv, ExecutionShape, OnlyIssuedCommands, EveryCommandInOnePlace,
        Absorbable, absorbVars, TypeOK, Command
  <2>6. OnlyIssuedCommands'
    BY <1>1, <1>2, <1>4, <1>5, <1>6, <2>2
    DEF IInv, OnlyIssuedCommands, TypeOK, Command
  <2>7. NoStrandedCommand'
    BY <1>7, <2>2 DEF NoStrandedCommand, DrainActive
  <2>8. TurnBelongsToExecution' /\ NoTurnCollision' /\ CancelMarksAreLive'
    BY <1>1, <2>2 DEF IInv, TurnBelongsToExecution, NoTurnCollision, CancelMarksAreLive
  <2> QED
    BY <2>3, <2>4, <2>5, <2>6, <2>7, <2>8 DEF IInv
<1>8. CASE ~DrainActive
  <2>0. pc = "idle"
    BY <1>8 DEF DrainActive
  <2>1. Dispatch(C, q, lease, r)
    BY <1>1, <1>8 DEF KickDrain
  <2>2. r # NoCommand => /\ q = {r}
                         /\ C[r].mode = "prompt"
                         /\ lease = NoHolder \/ C[r].input = lease
    BY <2>0, <1>1, <1>2, NothingRuns DEF Quiet, TypeOK
  <2>3. r \in Command \cup {NoCommand} /\ q \in SUBSET Command
        /\ lease \in Holder \cup {NoHolder}
    BY <1>1, <1>2 DEF TypeOK
  <2>4. DispatchEffect(C, q, lease)
    BY <1>2, <2>0, <2>1, <2>2, <2>3, NothingRuns, DispatchLemma
  <2>5. DispatchEffect(cmd', q, lease)
    BY <2>4, <1>1
  <2>6. /\ EveryCommandInOnePlace' /\ ExecutionShape' /\ TurnBelongsToExecution'
        /\ NoTurnCollision' /\ CancelMarksAreLive' /\ NoStrandedCommand'
        /\ \A c \in Command : c >= nextId' => outcome'[c] = "none"
    BY <1>1, <2>0, <2>3, <2>5, CommandsAfterDispatch
  <2>7. TypeOK'
    BY <1>1, <1>2, <1>3, <2>3, <2>4
    DEF TypeOK, DispatchEffect, Phase, absorbVars, branchVars, Command
  <2>8. OnlyIssuedCommands'
    BY <1>4, <1>5, <1>6, <2>6 DEF OnlyIssuedCommands
  <2> QED
    BY <2>6, <2>7, <2>8 DEF IInv
<1> QED
  BY <1>7, <1>8

(* The other operations of the runtime's callers.                           *)
LEMMA CallerStep ==
    ASSUME IInv, Callers
    PROVE  IInv'
<1> USE QueueAssumption
<1>1. ASSUME NEW m \in Mode, Submit(m) \/ Notify(m)
      PROVE  IInv'
  BY <1>1, EnqueueStep DEF Submit, Notify
<1>2. CASE AdmitPrompt
  <2>1. "prompt" \in Mode
    BY DEF Mode, Cancellable
  <2> QED
    BY <1>2, <2>1, EnqueueStep DEF AdmitPrompt
<1>3. CASE AdmitAborted
  <2> USE DEF AdmitAborted, Quiet
  <2>1. reservation = NoCommand /\ reservation' = NoCommand
    BY <1>3
  <2>2. TypeOK'
    BY <1>3
    DEF IInv, TypeOK, Settle, Outcome, drainVars, absorbVars, branchVars, Command
  <2>3. ExecutionShape'
    BY <1>3, <2>1 DEF IInv, ExecutionShape, Absorbable, drainVars, absorbVars
  <2>4. OnlyIssuedCommands'
    BY <1>3 DEF IInv, OnlyIssuedCommands, TypeOK, Settle, Command
  <2>5. EveryCommandInOnePlace'
    <3>1. nextId \notin queue \cup running \cup {absorbing}
      BY <1>3 DEF IInv, EveryCommandInOnePlace, TypeOK, Command, NoCommand
    <3> QED
      BY <1>3, <3>1
      DEF IInv, EveryCommandInOnePlace, TypeOK, Settle, drainVars, absorbVars, Command
  <2>6. NoStrandedCommand' /\ TurnBelongsToExecution' /\ NoTurnCollision'
        /\ CancelMarksAreLive'
    BY <1>3, <2>1
    DEF IInv, NoStrandedCommand, DrainActive, TurnBelongsToExecution,
        NoTurnCollision, CancelMarksAreLive, Settle, drainVars
  <2> QED
    BY <2>2, <2>3, <2>4, <2>5, <2>6 DEF IInv
<1>4. ASSUME NEW c \in Command, Abort(c)
      PROVE  IInv'
  <2> USE <1>4 DEF Abort
  <2>1. UNCHANGED <<nextId, cmd, lease, promo, pc, running, activeTurn, snapshot,
                    absorbing, history, branchGeneration, rewindPlan, sealed>>
    BY DEF absorbVars, branchVars
  <2>2. signalled' = signalled \cup {c}
    OBVIOUS
  <2>3. CASE c \in queue
    <3>1. /\ queue' = queue \ {c}
          /\ outcome' = Settle({c}, "cancelled")
          /\ UNCHANGED <<cancelPending, aborted>>
      BY <2>3
    <3>2. reservation' = reservation
      BY <2>3 DEF IInv, TurnBelongsToExecution, EveryCommandInOnePlace, Command,
                  NoCommand
    <3>3. c \notin snapshot
      BY DEF IInv, ExecutionShape, Absorbable, Notification, Cancellable
    <3>4. TypeOK'
      BY <2>1, <2>2, <3>1, <3>2 DEF IInv, TypeOK, Settle, Outcome
    <3>5. ExecutionShape' /\ TurnBelongsToExecution' /\ CancelMarksAreLive'
      BY <2>1, <3>1, <3>2, <3>3
      DEF IInv, ExecutionShape, Absorbable, TurnBelongsToExecution, CancelMarksAreLive
    <3>6. OnlyIssuedCommands'
      BY <2>1, <2>2, <3>1 DEF IInv, OnlyIssuedCommands, Settle, TypeOK, Command
    <3>7. EveryCommandInOnePlace'
      BY <2>1, <2>3, <3>1 DEF IInv, EveryCommandInOnePlace, Settle, NoCommand, Command
    <3>8. NoStrandedCommand' /\ NoTurnCollision'
      BY <2>1, <3>1
      DEF IInv, NoStrandedCommand, DrainActive, NoTurnCollision, Settle
    <3> QED
      BY <3>4, <3>5, <3>6, <3>7, <3>8 DEF IInv
  <2>4. CASE c \notin queue
    <3>1. /\ UNCHANGED <<queue, outcome, reservation>>
          /\ cancelPending' = cancelPending \cup {c}
          /\ aborted' = (aborted \/ c \in running)
      BY <2>4
    <3>2. c \in running
      <4>1. c \in running \cup ({absorbing} \ {NoCommand})
        BY <2>4 DEF IInv, EveryCommandInOnePlace
      <4>2. c # absorbing
        BY DEF IInv, ExecutionShape, Absorbable, Notification, Cancellable,
               NoCommand, Command
      <4> QED
        BY <4>1, <4>2
    <3>3. TypeOK'
      BY <2>1, <2>2, <3>1 DEF IInv, TypeOK
    <3>4. ExecutionShape' /\ TurnBelongsToExecution' /\ CancelMarksAreLive'
      BY <2>1, <3>1, <3>2
      DEF IInv, ExecutionShape, Absorbable, TurnBelongsToExecution, CancelMarksAreLive
    <3>5. OnlyIssuedCommands'
      BY <2>1, <2>2, <3>1 DEF IInv, OnlyIssuedCommands
    <3>6. EveryCommandInOnePlace' /\ NoStrandedCommand' /\ NoTurnCollision'
      BY <2>1, <3>1
      DEF IInv, EveryCommandInOnePlace, NoStrandedCommand, DrainActive, NoTurnCollision
    <3> QED
      BY <3>3, <3>4, <3>5, <3>6 DEF IInv
  <2> QED
    BY <2>3, <2>4
<1>5. ASSUME Stop \/ Seal \/ RewindBegin \/ RewindCommit
      PROVE  IInv'
  <2> USE DEF drainVars, turnVars, absorbVars, branchVars, commandVars
  <2>1. UNCHANGED <<nextId, cmd, signalled, outcome, queue, cancelPending, lease,
                    promo, pc, running, reservation, activeTurn, snapshot,
                    absorbing, history>>
    BY <1>5 DEF Stop, Seal, RewindBegin, RewindCommit
  <2>2. aborted' \in BOOLEAN /\ sealed' \in BOOLEAN
    BY <1>5 DEF IInv, TypeOK, Stop, Seal, RewindBegin, RewindCommit
  <2>3. branchGeneration' \in Generation /\ rewindPlan' \in Generation
    BY <1>5 DEF IInv, TypeOK, Stop, Seal, RewindBegin, RewindCommit, Generation
  <2> QED
    BY <2>1, <2>2, <2>3
    DEF IInv, TypeOK, ExecutionShape, Absorbable, OnlyIssuedCommands,
        EveryCommandInOnePlace, NoStrandedCommand, DrainActive,
        TurnBelongsToExecution, NoTurnCollision, CancelMarksAreLive
<1> QED
  BY <1>1, <1>2, <1>3, <1>4, <1>5 DEF Callers

(* Promotions: the lease is taken, used and given back.                     *)
LEMMA PromotionStep ==
    ASSUME IInv, NEW h \in Holder, Promotion(h)
    PROVE  IInv'
<1> USE QueueAssumption
<1>1. ASSUME NEW idleOnly \in BOOLEAN, AcquireLease(h, idleOnly)
      PROVE  IInv'
  <2>1. /\ UNCHANGED <<nextId, cmd, signalled, outcome, queue, cancelPending, pc,
                       running, aborted, reservation, activeTurn, snapshot,
                       absorbing, history, branchGeneration, rewindPlan, sealed>>
        /\ lease' = h /\ promo[h] = "none"
        /\ promo' = [promo EXCEPT ![h] = "leased"]
    BY <1>1 DEF AcquireLease, commandVars, drainVars, turnVars, absorbVars, branchVars
  <2>2. TypeOK'
    BY <2>1 DEF IInv, TypeOK
  <2>3. \A c \in Command : cmd[c].input # h
    BY <2>1 DEF IInv, OnlyIssuedCommands
  <2>4. OnlyIssuedCommands'
    BY <2>1, <2>3 DEF IInv, OnlyIssuedCommands, TypeOK, CommandRecord
  <2>5. NoStrandedCommand'
    BY <2>1, <2>3 DEF IInv, NoStrandedCommand, DrainActive, TypeOK
  <2> QED
    BY <2>1, <2>2, <2>4, <2>5
    DEF IInv, ExecutionShape, Absorbable, EveryCommandInOnePlace,
        TurnBelongsToExecution, NoTurnCollision, CancelMarksAreLive
<1>2. CASE AdmitPromoted(h)
  <2>1. "prompt" \in Mode
    BY DEF Mode, Cancellable
  <2> QED
    BY <1>2, <2>1, EnqueueStep DEF AdmitPromoted, HolderResumes
<1>3. CASE RejectPromoted(h)
  <2>1. /\ UNCHANGED <<nextId, cmd, signalled, outcome, queue, cancelPending, lease,
                       pc, running, aborted, reservation, activeTurn, snapshot,
                       absorbing, history, branchGeneration, rewindPlan, sealed>>
        /\ promo[h] = "leased"
        /\ promo' = [promo EXCEPT ![h] = "rejected"]
    BY <1>3
    DEF RejectPromoted, HolderResumes, commandVars, drainVars, turnVars, absorbVars,
        branchVars
  <2>2. TypeOK'
    BY <2>1 DEF IInv, TypeOK
  <2>3. \A c \in Command : cmd[c].input # h
    BY <2>1 DEF IInv, OnlyIssuedCommands
  <2>4. OnlyIssuedCommands'
    BY <2>1, <2>3 DEF IInv, OnlyIssuedCommands, TypeOK, CommandRecord
  <2> QED
    BY <2>1, <2>2, <2>4
    DEF IInv, ExecutionShape, Absorbable, EveryCommandInOnePlace, NoStrandedCommand,
        DrainActive, TurnBelongsToExecution, NoTurnCollision, CancelMarksAreLive
<1>4. ASSUME NEW m \in Mode, SubmitPromoted(h, m)
      PROVE  IInv'
  BY <1>4, EnqueueStep DEF SubmitPromoted, HolderResumes
<1>5. CASE ReleaseLease(h)
  <2>1. /\ KickDrain(cmd, queue, NoHolder, reservation)
        /\ promo' = [promo EXCEPT ![h] = "released"]
        /\ UNCHANGED <<nextId, cmd, signalled, activeTurn, snapshot, absorbing, history,
                       branchGeneration, rewindPlan, sealed>>
        /\ UNCHANGED <<signalled, activeTurn, absorbVars, history, branchVars>>
    BY <1>5 DEF ReleaseLease, commandVars, absorbVars, branchVars
  <2>2. TypeOK
    BY DEF IInv
  <2>3. OnlyIssuedCommands' \/ ~ \A c \in Command : c >= nextId => outcome'[c] = "none"
    BY <2>1, <2>2 DEF IInv, OnlyIssuedCommands, TypeOK, CommandRecord
  <2>4. CASE DrainActive
    <3>1. /\ queue' = queue /\ lease' = NoHolder /\ reservation' = reservation
          /\ UNCHANGED <<outcome, cancelPending, pc, running, aborted>>
      BY <2>1, <2>4 DEF KickDrain, drainVars
    <3>2. TypeOK' /\ NoStrandedCommand'
      BY <2>1, <2>2, <2>4, <3>1 DEF TypeOK, NoStrandedCommand, DrainActive
    <3>3. OnlyIssuedCommands'
      BY <2>3, <3>1 DEF IInv, OnlyIssuedCommands
    <3> QED
      BY <2>1, <3>1, <3>2, <3>3
      DEF IInv, ExecutionShape, Absorbable, EveryCommandInOnePlace,
          TurnBelongsToExecution, NoTurnCollision, CancelMarksAreLive
  <2>5. CASE ~DrainActive
    <3>1. pc = "idle" /\ Dispatch(cmd, queue, NoHolder, reservation)
      BY <2>1, <2>5 DEF KickDrain, DrainActive
    <3>2. DispatchEffect(cmd, queue, NoHolder)
      BY <2>2, <3>1, NothingRuns, DispatchLemma DEF TypeOK
    <3>3. DispatchEffect(cmd', queue, NoHolder)
      BY <2>1, <3>2
    <3>4. /\ EveryCommandInOnePlace' /\ ExecutionShape' /\ TurnBelongsToExecution'
          /\ NoTurnCollision' /\ CancelMarksAreLive' /\ NoStrandedCommand'
          /\ \A c \in Command : c >= nextId' => outcome'[c] = "none"
      BY <2>1, <2>2, <3>1, <3>3, CommandsAfterDispatch DEF TypeOK
    <3>5. TypeOK'
      BY <2>1, <2>2, <3>2 DEF TypeOK, DispatchEffect, Phase
    <3>6. OnlyIssuedCommands'
      BY <2>1, <2>3, <3>4
    <3> QED
      BY <3>4, <3>5, <3>6 DEF IInv
  <2> QED
    BY <2>4, <2>5
<1> QED
  BY <1>1, <1>2, <1>3, <1>4, <1>5 DEF Promotion

(* The loop's next stretch when it has nothing in execution.                *)
LEMMA DrainNextStep ==
    ASSUME IInv, DrainNext
    PROVE  IInv'
<1> USE QueueAssumption
<1>1. /\ pc = "top"
      /\ Dispatch(cmd, queue, lease, reservation)
      /\ UNCHANGED <<nextId, cmd, signalled, promo, activeTurn, snapshot, absorbing,
                     history, branchGeneration, rewindPlan, sealed>>
      /\ UNCHANGED <<signalled, activeTurn, absorbVars, history, branchVars>>
  BY DEF DrainNext, commandVars, absorbVars, branchVars
<1>2. TypeOK
  BY DEF IInv
<1>3. DispatchEffect(cmd, queue, lease)
  BY <1>1, <1>2, NothingRuns, DispatchLemma DEF TypeOK
<1>4. DispatchEffect(cmd', queue, lease)
  BY <1>1, <1>3
<1>5. /\ EveryCommandInOnePlace' /\ ExecutionShape' /\ TurnBelongsToExecution'
      /\ NoTurnCollision' /\ CancelMarksAreLive' /\ NoStrandedCommand'
      /\ \A c \in Command : c >= nextId' => outcome'[c] = "none"
  BY <1>1, <1>2, <1>4, CommandsAfterDispatch DEF TypeOK
<1>6. TypeOK'
  BY <1>1, <1>2, <1>3 DEF TypeOK, DispatchEffect, Phase
<1>7. OnlyIssuedCommands'
  BY <1>1, <1>5 DEF IInv, OnlyIssuedCommands
<1> QED
  BY <1>5, <1>6, <1>7 DEF IInv

(* An execution ends: with its turn over, and nothing else changed but that *)
(* its text may have entered the conversation and the generation moved.     *)
LEMMA FinishStep ==
    ASSUME IInv, running # {}, pc # "absorb",
           Finish("settled"),
           reservation' = NoCommand, activeTurn' = NoCommand,
           history' \in {history, history \cup running},
           UNCHANGED commonVars
    PROVE  IInv'
<1> USE QueueAssumption
<1>1. /\ UNCHANGED <<nextId, cmd, signalled, queue, lease, promo, snapshot, absorbing,
                     branchGeneration, rewindPlan, sealed>>
  BY DEF commonVars, commandVars, absorbVars, branchVars
<1>2. /\ outcome' = Settle(running, "settled") /\ cancelPending' = cancelPending \ running
      /\ running' = {} /\ aborted' = FALSE /\ pc' = "top"
  BY DEF Finish
<1>3. TypeOK'
  BY <1>1, <1>2 DEF IInv, TypeOK, Settle, Outcome, Phase
<1>4. ExecutionShape'
  BY <1>1, <1>2 DEF IInv, ExecutionShape, Absorbable
<1>5. \A c \in running : c \in Command /\ c < nextId
  BY DEF IInv, TypeOK, EveryCommandInOnePlace
<1>6. OnlyIssuedCommands'
  BY <1>1, <1>2, <1>5 DEF IInv, OnlyIssuedCommands, Settle, TypeOK, Command
<1>7. EveryCommandInOnePlace'
  BY <1>1, <1>2, <1>5 DEF IInv, EveryCommandInOnePlace, Settle
<1>8. NoStrandedCommand' /\ TurnBelongsToExecution' /\ NoTurnCollision'
      /\ CancelMarksAreLive'
  BY <1>1, <1>2
  DEF IInv, NoStrandedCommand, DrainActive, TurnBelongsToExecution, NoTurnCollision,
      CancelMarksAreLive, Settle
<1> QED
  BY <1>3, <1>4, <1>6, <1>7, <1>8 DEF IInv

(* A step that only moves the loop and the turn along within an execution.  *)
LEMMA WithinExecution ==
    ASSUME IInv, running # {}, pc # "absorb",
           pc' \in Phase \ {"idle", "top", "absorb"},
           reservation' \in running \cup {NoCommand},
           activeTurn' \in running \cup {NoCommand},
           reservation' # NoCommand <=> pc' \in {"start", "restart"},
           activeTurn' # NoCommand <=> pc' \in {"turn", "maintenance"},
           history' \in {history, history \cup running},
           UNCHANGED <<commonVars, outcome, cancelPending, running, aborted>>
    PROVE  IInv'
<1> USE QueueAssumption
<1>1. UNCHANGED <<nextId, cmd, signalled, queue, lease, promo, snapshot, absorbing,
                  branchGeneration, rewindPlan, sealed, outcome, cancelPending,
                  running, aborted>>
  BY DEF commonVars, commandVars, absorbVars, branchVars
<1>2. TypeOK'
  BY <1>1 DEF IInv, TypeOK, Phase
<1>3. ExecutionShape' /\ TurnBelongsToExecution' /\ NoTurnCollision'
      /\ CancelMarksAreLive'
  BY <1>1
  DEF IInv, ExecutionShape, Absorbable, TurnBelongsToExecution, NoTurnCollision,
      CancelMarksAreLive
<1>4. \A c \in running : c \in Command /\ c < nextId
  BY DEF IInv, TypeOK, EveryCommandInOnePlace
<1>5. OnlyIssuedCommands' /\ EveryCommandInOnePlace' /\ NoStrandedCommand'
  BY <1>1, <1>4
  DEF IInv, OnlyIssuedCommands, EveryCommandInOnePlace, NoStrandedCommand, DrainActive
<1> QED
  BY <1>2, <1>3, <1>5 DEF IInv

(* A turn that starts after an await finds no other turn.                   *)
LEMMA StartTurnStep ==
    ASSUME IInv, pc \in {"persist", "verify"},
           NEW c \in running, NEW phase \in {"start", "restart"},
           StartTurn(c, phase),
           history' \in {history, history \cup running},
           UNCHANGED <<commonVars, activeTurn>>
    PROVE  IInv'
<1>1. reservation = NoCommand /\ activeTurn = NoCommand /\ running # {}
  BY DEF IInv, ExecutionShape
<1>2. c # NoCommand
  BY QueueAssumption DEF IInv, TypeOK, Command, NoCommand
<1>3. CASE ~aborted
  BY <1>1, <1>2, <1>3, WithinExecution DEF StartTurn, SlotFree, Phase
<1>4. CASE aborted
  BY <1>1, <1>4, FinishStep DEF StartTurn, SlotFree
<1> QED
  BY <1>3, <1>4

(* Absorption goes on over what is left of its snapshot.                    *)
LEMMA AbsorbFromStep ==
    ASSUME IInv, pc \in {"turn", "absorb"}, absorbing = NoCommand,
           NEW S \in SUBSET queue,
           \A c \in S : Absorbable(c),
           AbsorbFrom(S),
           UNCHANGED <<commandVars, cancelPending, lease, promo, running, aborted,
                       turnVars, history, branchVars>>
    PROVE  IInv'
<1> USE QueueAssumption
<1>1. UNCHANGED <<nextId, cmd, signalled, cancelPending, lease, promo, running, aborted,
                  reservation, activeTurn, history, branchGeneration, rewindPlan, sealed>>
  BY DEF commandVars, turnVars, branchVars
<1>2. PICK gone \in SUBSET S :
         /\ queue' = queue \ gone
         /\ outcome' = Settle(gone \ {absorbing'}, "dropped")
         /\ absorbing' \in gone \cup {NoCommand}
         /\ snapshot' = S \ gone
         /\ pc' = IF absorbing' = NoCommand THEN "turn" ELSE "absorb"
         /\ absorbing' = NoCommand => snapshot' = {}
  <2>1. CASE Eligible(cmd, S) = {}
    <3>1. /\ queue' = queue \ S /\ outcome' = Settle(S, "dropped")
          /\ snapshot' = {} /\ absorbing' = NoCommand /\ pc' = "turn"
      BY <2>1 DEF AbsorbFrom
    <3>2. S \ {absorbing'} = S
      BY <3>1 DEF IInv, TypeOK, Command, NoCommand
    <3> QED
      BY <3>1, <3>2
  <2>2. CASE Eligible(cmd, S) # {}
    <3>1. PICK c \in S :
             /\ queue' = queue \ {d \in S : d <= c}
             /\ outcome' = Settle({d \in S : d <= c} \ {c}, "dropped")
             /\ snapshot' = S \ {d \in S : d <= c}
             /\ absorbing' = c /\ pc' = "absorb"
      BY <2>2 DEF AbsorbFrom, Eligible
    <3>2. c \in {d \in S : d <= c} /\ c # NoCommand
      BY DEF IInv, TypeOK, Command, NoCommand
    <3> QED
      BY <3>1, <3>2
  <2> QED
    BY <2>1, <2>2
<1>3. TypeOK'
  BY <1>1, <1>2 DEF IInv, TypeOK, Settle, Outcome, Phase
<1>4. ExecutionShape'
  BY <1>1, <1>2 DEF IInv, ExecutionShape, Absorbable
<1>5. gone \subseteq queue /\ gone \subseteq Command /\ NoCommand \notin gone
  BY DEF IInv, TypeOK, Command, NoCommand
<1>6. OnlyIssuedCommands'
  BY <1>1, <1>2, <1>5
  DEF IInv, OnlyIssuedCommands, EveryCommandInOnePlace, Settle, TypeOK, Command
<1>7. EveryCommandInOnePlace'
  <2>1. \A c \in Command : (c < nextId /\ outcome'[c] = "none") <=>
           c \in queue' \cup running \cup ({absorbing'} \ {NoCommand})
    BY <1>2, <1>5 DEF IInv, EveryCommandInOnePlace, Settle
  <2>2. absorbing' \notin queue' \cup running
    BY <1>2, <1>5 DEF IInv, EveryCommandInOnePlace, TypeOK, Command, NoCommand
  <2> QED
    BY <1>1, <1>2, <2>1, <2>2 DEF IInv, EveryCommandInOnePlace
<1>8. NoStrandedCommand' /\ TurnBelongsToExecution' /\ NoTurnCollision'
      /\ CancelMarksAreLive'
  BY <1>1, <1>2
  DEF IInv, NoStrandedCommand, DrainActive, TurnBelongsToExecution, NoTurnCollision,
      CancelMarksAreLive, Settle
<1> QED
  BY <1>3, <1>4, <1>6, <1>7, <1>8 DEF IInv

LEMMA AbsorptionStep ==
    ASSUME IInv, BeginAbsorb \/ AbsorbPersists \/ AbsorbNext \/ AbsorbFails
    PROVE  IInv'
<1> USE QueueAssumption
<1>1. CASE BeginAbsorb
  <2> DEFINE S == {c \in Reachable(queue) : Absorbable(c)}
  <2>1. /\ pc = "turn" /\ absorbing = NoCommand /\ AbsorbFrom(S)
        /\ S \subseteq queue
    BY <1>1 DEF BeginAbsorb, IInv, ExecutionShape, Reachable
  <2> QED
    BY <1>1, <2>1, AbsorbFromStep DEF BeginAbsorb
<1>2. CASE AbsorbPersists
  <2>1. /\ absorbing # NoCommand /\ absorbing' = NoCommand
        /\ history' = history \cup {absorbing}
        /\ outcome' = Settle({absorbing}, "settled")
        /\ pc = "absorb"
        /\ UNCHANGED <<nextId, cmd, signalled, queue, cancelPending, lease, promo, pc,
                       running, aborted, reservation, activeTurn, snapshot,
                       branchGeneration, rewindPlan, sealed>>
    BY <1>2 DEF AbsorbPersists, commandVars, drainVars, turnVars, branchVars
  <2>2. absorbing \in Command /\ absorbing < nextId /\ absorbing \notin queue \cup running
    BY <2>1 DEF IInv, TypeOK, EveryCommandInOnePlace
  <2>3. TypeOK'
    BY <2>1, <2>2 DEF IInv, TypeOK, Settle, Outcome
  <2>4. ExecutionShape'
    BY <2>1 DEF IInv, ExecutionShape, Absorbable
  <2>5. OnlyIssuedCommands'
    BY <2>1, <2>2 DEF IInv, OnlyIssuedCommands, Settle, TypeOK, Command
  <2>6. EveryCommandInOnePlace'
    <3>1. 0 \notin queue \cup running
      BY DEF IInv, TypeOK, Command
    <3> QED
      BY <2>1, <2>2, <3>1 DEF IInv, EveryCommandInOnePlace, Settle, NoCommand
  <2>7. NoStrandedCommand' /\ TurnBelongsToExecution' /\ NoTurnCollision'
        /\ CancelMarksAreLive'
    BY <2>1
    DEF IInv, NoStrandedCommand, DrainActive, TurnBelongsToExecution, NoTurnCollision,
        CancelMarksAreLive, Settle
  <2> QED
    BY <2>3, <2>4, <2>5, <2>6, <2>7 DEF IInv
<1>3. CASE AbsorbNext
  BY <1>3, AbsorbFromStep DEF AbsorbNext, IInv, ExecutionShape
<1>4. CASE AbsorbFails
  <2>1. /\ absorbing # NoCommand /\ absorbing' = NoCommand /\ snapshot' = {}
        /\ outcome' = Settle(running \cup {absorbing}, "settled")
        /\ pc = "absorb" /\ pc' = "top" /\ running' = {} /\ aborted' = FALSE
        /\ cancelPending' = cancelPending \ running
        /\ activeTurn' = NoCommand
        /\ history' \in {history, history \cup {absorbing}}
        /\ UNCHANGED <<nextId, cmd, signalled, queue, lease, promo,
                       branchGeneration, rewindPlan, sealed>>
    BY <1>4 DEF AbsorbFails, TurnOver, commandVars, branchVars
  <2>2. reservation' = NoCommand
    BY <1>4, <2>1 DEF AbsorbFails, TurnOver, IInv, ExecutionShape
  <2>3. /\ absorbing \in Command /\ absorbing < nextId /\ absorbing \notin queue
        /\ \A c \in running : c \in Command /\ c < nextId /\ c \notin queue
    BY <2>1 DEF IInv, TypeOK, EveryCommandInOnePlace
  <2>4. TypeOK'
    BY <2>1, <2>2, <2>3 DEF IInv, TypeOK, Settle, Outcome, Phase
  <2>5. ExecutionShape'
    BY <2>1, <2>2 DEF IInv, ExecutionShape
  <2>6. OnlyIssuedCommands'
    BY <2>1, <2>3 DEF IInv, OnlyIssuedCommands, Settle, TypeOK, Command
  <2>7. EveryCommandInOnePlace'
    <3>1. 0 \notin queue
      BY DEF IInv, TypeOK, Command
    <3> QED
      BY <2>1, <2>3, <3>1 DEF IInv, EveryCommandInOnePlace, Settle, NoCommand
  <2>8. NoStrandedCommand' /\ TurnBelongsToExecution' /\ NoTurnCollision'
        /\ CancelMarksAreLive'
    BY <2>1, <2>2
    DEF IInv, NoStrandedCommand, DrainActive, TurnBelongsToExecution, NoTurnCollision,
        CancelMarksAreLive, Settle
  <2> QED
    BY <2>4, <2>5, <2>6, <2>7, <2>8 DEF IInv
<1> QED
  BY <1>1, <1>2, <1>3, <1>4

(* The stretches of an execution.                                           *)
LEMMA DrainStepStep ==
    ASSUME IInv, DrainStep
    PROVE  IInv'
<1> USE QueueAssumption
<1>0. /\ pc \in {"persist", "control", "verify", "start", "restart", "turn",
                 "maintenance", "post"} => running # {}
      /\ pc \in {"control", "persist", "verify", "post"} =>
            reservation = NoCommand /\ activeTurn = NoCommand
      /\ TurnOver => reservation' = NoCommand /\ activeTurn' = NoCommand
  BY DEF IInv, ExecutionShape, TurnBelongsToExecution, TurnOver
<1>1. CASE PersistAndStart
  BY <1>1, StartTurnStep DEF PersistAndStart, IsFirst
<1>2. CASE PersistFails \/ ControlTurn \/ TargetSettled \/ LoopYields
  BY <1>0, <1>2, FinishStep DEF PersistFails, ControlTurn, TargetSettled, LoopYields, turnVars
<1>3. CASE TargetContinues
  BY <1>3, StartTurnStep DEF TargetContinues, IsFirst
<1>4. ASSUME NEW phase \in {"turn", "maintenance"}, BeginTurn(phase)
      PROVE  IInv'
  <2>1. \A c \in running : c # NoCommand
    BY DEF IInv, TypeOK, Command, NoCommand
  <2> QED
    BY <1>0, <1>4, <2>1, WithinExecution DEF BeginTurn, Phase
<1>5. CASE TurnFails
  BY <1>0, <1>5, FinishStep DEF TurnFails
<1>6. CASE TurnCompletes
  <2>1. running # {} /\ pc # "absorb" /\ reservation' = NoCommand /\ activeTurn' = NoCommand
        /\ history' = history /\ UNCHANGED commonVars
    BY <1>0, <1>6 DEF TurnCompletes
  <2>2. CASE Finish("settled")
    BY <2>1, <2>2, FinishStep
  <2>3. CASE pc' = "post" /\ UNCHANGED <<outcome, cancelPending, running, aborted>>
    BY <2>1, <2>3, WithinExecution DEF Phase
  <2> QED
    BY <1>6, <2>2, <2>3 DEF TurnCompletes
<1>7. CASE LoopContinues
  BY <1>0, <1>7, WithinExecution DEF LoopContinues, turnVars, Phase
<1>8. CASE RewindInTurn
  <2>1. /\ UNCHANGED <<nextId, cmd, signalled, outcome, queue, cancelPending, lease,
                       promo, pc, running, aborted, reservation, activeTurn, snapshot,
                       absorbing, history, rewindPlan, sealed>>
        /\ branchGeneration' \in Generation
    BY <1>8
    DEF IInv, TypeOK, RewindInTurn, Generation, commandVars, drainVars, turnVars,
        absorbVars
  <2> QED
    BY <2>1
    DEF IInv, TypeOK, ExecutionShape, Absorbable, OnlyIssuedCommands,
        EveryCommandInOnePlace, NoStrandedCommand, DrainActive,
        TurnBelongsToExecution, NoTurnCollision, CancelMarksAreLive
<1> QED
  BY <1>1, <1>2, <1>3, <1>4, <1>5, <1>6, <1>7, <1>8, DrainNextStep, AbsorptionStep
  DEF DrainStep

-----------------------------------------------------------------------------
(* The theorems.                                                            *)

(* IInv holds in the initial state and every step preserves it: it is an    *)
(* invariant of the queue, however many commands and promotions there are.  *)
THEOREM Invariance == Spec => []IInv
<1> USE QueueAssumption
<1>1. Init => IInv
  <2> SUFFICES ASSUME Init
               PROVE  IInv
    OBVIOUS
  <2>1. TypeOK
    <3>1. [mode |-> "prompt", gen |-> 0, input |-> NoHolder] \in CommandRecord
      BY DEF CommandRecord, Mode, Cancellable, Generation
    <3>2. cmd \in [Command -> CommandRecord] /\ outcome \in [Command -> Outcome]
      BY <3>1 DEF Init, Outcome
    <3>3. nextId \in 1 .. MaxCommands + 1 /\ 0 \in Generation
      BY DEF Init, Generation
    <3> QED
      BY <3>2, <3>3 DEF Init, TypeOK, Phase
  <2>2. ExecutionShape /\ NoStrandedCommand /\ TurnBelongsToExecution
        /\ NoTurnCollision /\ CancelMarksAreLive
    BY DEF Init, ExecutionShape, NoStrandedCommand, TurnBelongsToExecution,
           NoTurnCollision, CancelMarksAreLive
  <2>3. OnlyIssuedCommands /\ EveryCommandInOnePlace
    BY DEF Init, OnlyIssuedCommands, EveryCommandInOnePlace, Command, NoCommand
  <2> QED
    BY <2>1, <2>2, <2>3 DEF IInv
<1>2. IInv /\ [Next]_vars => IInv'
  <2> SUFFICES ASSUME IInv, [Next]_vars
               PROVE  IInv'
    OBVIOUS
  <2>1. CASE UNCHANGED vars
    BY <2>1
    DEF vars, commandVars, drainVars, turnVars, absorbVars, branchVars, IInv, TypeOK,
        ExecutionShape, Absorbable, OnlyIssuedCommands, EveryCommandInOnePlace,
        NoStrandedCommand, DrainActive, TurnBelongsToExecution, NoTurnCollision,
        CancelMarksAreLive
  <2> QED
    BY <2>1, CallerStep, PromotionStep, DrainStepStep DEF Next
<1> QED
  BY <1>1, <1>2, PTL DEF Spec

(* Type correctness of the runtime's state.                                 *)
THEOREM TypeCorrectness == Spec => []TypeOK
<1>1. IInv => TypeOK
  BY DEF IInv
<1> QED
  BY <1>1, Invariance, PTL

(* No lost wakeup: whatever the order in which commands are enqueued and    *)
(* the lease is taken, used and released, a command that may run is never   *)
(* left in the queue with the drain loop stopped.                           *)
THEOREM NoLostWakeup == Spec => []NoStrandedCommand
<1>1. IInv => NoStrandedCommand
  BY DEF IInv
<1> QED
  BY <1>1, Invariance, PTL

(* Nothing is lost and nothing runs twice: an unsettled command is in       *)
(* exactly one place, whatever fails or is cancelled.                       *)
THEOREM NothingLost == Spec => []EveryCommandInOnePlace
<1>1. IInv => EveryCommandInOnePlace
  BY DEF IInv
<1> QED
  BY <1>1, Invariance, PTL

(* The reservation protocol: no command fails because another turn is       *)
(* reserved or active ...                                                   *)
THEOREM NoTurnInProgressError == Spec => []NoTurnCollision
<1>1. IInv => NoTurnCollision
  BY DEF IInv
<1> QED
  BY <1>1, Invariance, PTL

(* ... and no reservation, turn or cancel mark outlives the execution it    *)
(* belongs to.                                                              *)
THEOREM NothingLeaks == Spec => []ExecutionLeavesNothing
<1>1. IInv => ExecutionLeavesNothing
  BY DEF IInv, ExecutionLeavesNothing
<1> QED
  BY <1>1, Invariance, PTL

-----------------------------------------------------------------------------
(* What a step may do: the action properties of the queue, and that it      *)
(* implements the one-seat server of module TurnServer.  Every step is one  *)
(* of a few kinds (StepKinds); the theorems are proved kind by kind.        *)

(* Which commands the drain loop starts when it runs over q under lease l.  *)
DispatchStarts(C, q, l) ==
    /\ \A c \in running' :
          ~Stale(C, c) /\ ~Suppressed(C, c) /\ (l = NoHolder \/ C[c].input = l)
    /\ running' = {} => aborted' = aborted
    /\ l = NoHolder =>
          \/ \A c \in running' : C[c].mode \in Notification
          \/ \A c \in running' : running' = {c} /\ \A d \in queue' : c <= d

LEMMA DispatchStartsLemma ==
    ASSUME running = {}, NEW C, NEW q \in SUBSET Command, NEW l, NEW r,
           Dispatch(C, q, l, r)
    PROVE  DispatchStarts(C, q, l)
<1> DEFINE batch == NextRunnableBatch(C, q, l)
           live  == Eligible(C, batch)
<1>1. \/ running' = {} /\ aborted' = aborted
      \/ running' = live
  BY DEF Dispatch, LoopEnds, AllDropped, ExecutionBegins, ExecutionRejected
<1>2. running' # {} => running' = live /\ queue' = q \ batch
  BY <1>1 DEF Dispatch
<1>3. running' = {} => aborted' = aborted
  BY DEF Dispatch, LoopEnds, AllDropped, ExecutionBegins, ExecutionRejected, IsFirst
<1>4. \A c \in live :
         /\ c \in batch /\ ~Stale(C, c) /\ ~Suppressed(C, c)
         /\ l = NoHolder \/ C[c].input = l
  BY DEF Eligible, NextRunnableBatch
<1>5. \A c, h \in q : IsFirst(c, q) /\ IsFirst(h, q) => c = h
  BY QueueAssumption DEF IsFirst, Command
<1>6. ASSUME l = NoHolder
      PROVE  \/ \A c \in live : C[c].mode \in Notification
             \/ \A c \in live : live = {c} /\ \A d \in q \ batch : c <= d
  <2>1. batch = NextBatch(C, q)
    BY <1>6 DEF NextRunnableBatch
  <2>2. CASE \E h \in q : IsFirst(h, q) /\ C[h].mode \in Notification
    BY <1>5, <2>1, <2>2 DEF NextBatch, Eligible
  <2>3. CASE ~ \E h \in q : IsFirst(h, q) /\ C[h].mode \in Notification
    BY <1>5, <2>1, <2>3 DEF NextBatch, Eligible, IsFirst
  <2> QED
    BY <2>2, <2>3
<1> QED
  BY <1>1, <1>2, <1>3, <1>4, <1>6 DEF DispatchStarts

-----------------------------------------------------------------------------
(* The kinds of step.                                                       *)

\* A command is created: the next one of the table.
Creates ==
    /\ nextId \in Command /\ nextId' = nextId + 1
    /\ \A c \in Command : c # nextId => cmd'[c] = cmd[c]
    /\ cmd'[nextId].input \in Holder =>
          cmd'[nextId].input = lease /\ promo[lease] = "leased"

\* The drain loop dequeues and starts, over the queue q it finds.
LoopStep ==
    \E q \in SUBSET Command, l \in Holder \cup {NoHolder} :
        /\ pc \in {"idle", "top"}
        /\ DispatchEffect(cmd', q, l) /\ DispatchStarts(cmd', q, l)
        /\ \/ q = queue /\ UNCHANGED <<nextId, cmd>>
           \/ q = queue \cup {nextId} /\ Creates
        /\ \/ l = lease
           \/ l = NoHolder /\ lease \in Holder /\ promo'[lease] = "released"
        /\ UNCHANGED <<signalled, activeTurn, absorbVars, history, branchVars>>

\* The drain loop is busy: the new command waits.
WaitStep ==
    /\ Creates
    /\ queue' = queue \cup {nextId}
    /\ UNCHANGED <<signalled, outcome, running, aborted, reservation, absorbVars,
                   history, branchVars>>

\* No command moves.
StillStep ==
    /\ aborted => reservation' \in {reservation, NoCommand}
    /\ running = {} => aborted' = aborted
    /\ history' \subseteq history \cup running
    /\ absorbVars' = absorbVars
    /\ UNCHANGED <<nextId, cmd, signalled, outcome, queue, running>>

\* The execution is over, and so is what it was absorbing.
EndStep ==
    /\ running # {}
    /\ running' = {} /\ aborted' = FALSE
    /\ snapshot' = {} /\ absorbing' = NoCommand
    /\ outcome' = Settle(running \cup ({absorbing} \ {NoCommand}), "settled")
    /\ history' \subseteq history \cup running \cup ({absorbing} \ {NoCommand})
    /\ UNCHANGED <<nextId, cmd, signalled, queue>>

\* The active turn takes messages out of the queue.
TakeStep ==
    \E S \in SUBSET queue :
        /\ pc \in {"turn", "absorb"} /\ absorbing = NoCommand
        /\ \A c \in S : Absorbable(c)
        /\ \/ S = {c \in Reachable(queue) : Absorbable(c)}
           \/ S = snapshot
        /\ AbsorbFrom(S)
        /\ UNCHANGED <<commandVars, cancelPending, lease, promo, running, aborted,
                       turnVars, history, branchVars>>

LEMMA EnqueueKind ==
    ASSUME IInv,
           NEW m \in Mode, NEW i \in Holder \cup {NoHolder}, NEW reserves \in BOOLEAN,
           Enqueue(m, i, reserves),
           reserves => /\ Quiet
                       /\ m = "prompt"
                       /\ lease = NoHolder \/ i = lease,
           i \in Holder => i = lease /\ promo[lease] = "leased"
    PROVE  LoopStep \/ WaitStep
<1> DEFINE C == [cmd EXCEPT ![nextId] =
                    [mode |-> m, gen |-> branchGeneration, input |-> i]]
           q == queue \cup {nextId}
           r == IF reserves THEN nextId ELSE reservation
<1> USE QueueAssumption
<1>1. /\ nextId \in Command /\ nextId' = nextId + 1 /\ cmd' = C
      /\ KickDrain(C, q, lease, r)
      /\ UNCHANGED <<signalled, activeTurn, absorbVars, history, branchVars>>
  BY DEF Enqueue
<1>2. C \in [Command -> CommandRecord] /\ TypeOK
  BY <1>1 DEF IInv, TypeOK, CommandRecord
<1>3. Creates
  BY <1>1, <1>2 DEF Creates, TypeOK
<1>4. CASE DrainActive
  <2>1. ~reserves
    BY <1>4 DEF Quiet
  <2> QED
    BY <1>1, <1>3, <1>4, <2>1 DEF KickDrain, WaitStep, drainVars
<1>5. CASE ~DrainActive
  <2>1. pc = "idle" /\ running = {} /\ Dispatch(C, q, lease, r)
    BY <1>1, <1>5, NothingRuns DEF DrainActive, KickDrain
  <2>2. r # NoCommand => /\ q = {r}
                         /\ C[r].mode = "prompt"
                         /\ lease = NoHolder \/ C[r].input = lease
    BY <1>1, <1>2, <2>1, NothingRuns DEF Quiet, TypeOK
  <2>3. r \in Command \cup {NoCommand} /\ q \in SUBSET Command
        /\ lease \in Holder \cup {NoHolder}
    BY <1>1, <1>2 DEF TypeOK
  <2>4. DispatchEffect(C, q, lease)
    BY <1>2, <2>1, <2>2, <2>3, NothingRuns, DispatchLemma
  <2>5. DispatchStarts(C, q, lease)
    BY <2>1, <2>3, DispatchStartsLemma
  <2>6. DispatchEffect(cmd', q, lease) /\ DispatchStarts(cmd', q, lease)
    BY <1>1, <2>4, <2>5
  <2> QED
    BY <1>1, <1>3, <2>1, <2>3, <2>6 DEF LoopStep
<1> QED
  BY <1>4, <1>5

LEMMA CallerKind ==
    ASSUME IInv, Callers
    PROVE  \/ LoopStep \/ WaitStep \/ StillStep \/ AdmitAborted
           \/ \E c \in Command : Abort(c)
<1> USE QueueAssumption
<1>1. ASSUME NEW m \in Mode, Submit(m) \/ Notify(m)
      PROVE  LoopStep \/ WaitStep
  BY <1>1, EnqueueKind DEF Submit, Notify
<1>2. CASE AdmitPrompt
  <2>1. "prompt" \in Mode
    BY DEF Mode, Cancellable
  <2> QED
    BY <1>2, <2>1, EnqueueKind DEF AdmitPrompt
<1>3. CASE Stop \/ Seal \/ RewindBegin \/ RewindCommit
  BY <1>3
  DEF StillStep, Stop, Seal, RewindBegin, RewindCommit, commandVars, drainVars, turnVars
<1> QED
  BY <1>1, <1>2, <1>3 DEF Callers

LEMMA PromotionKind ==
    ASSUME IInv, NEW h \in Holder, Promotion(h)
    PROVE  LoopStep \/ WaitStep \/ StillStep
<1> USE QueueAssumption
<1>1. CASE AdmitPromoted(h)
  <2>1. "prompt" \in Mode
    BY DEF Mode, Cancellable
  <2> QED
    BY <1>1, <2>1, EnqueueKind DEF AdmitPromoted, HolderResumes
<1>2. ASSUME NEW m \in Mode, SubmitPromoted(h, m)
      PROVE  LoopStep \/ WaitStep
  BY <1>2, EnqueueKind DEF SubmitPromoted, HolderResumes
<1>3. ASSUME \/ \E idleOnly \in BOOLEAN : AcquireLease(h, idleOnly)
             \/ RejectPromoted(h)
      PROVE  StillStep
  BY <1>3 DEF StillStep, AcquireLease, RejectPromoted, commandVars, drainVars, turnVars
<1>4. CASE ReleaseLease(h)
  <2>1. /\ lease = h /\ KickDrain(cmd, queue, NoHolder, reservation)
        /\ promo' = [promo EXCEPT ![h] = "released"]
        /\ UNCHANGED <<nextId, cmd, signalled, activeTurn, absorbVars, history, branchVars>>
    BY <1>4 DEF ReleaseLease, commandVars
  <2>2. TypeOK
    BY DEF IInv
  <2>3. CASE DrainActive
    BY <2>1, <2>3 DEF KickDrain, StillStep, drainVars
  <2>4. CASE ~DrainActive
    <3>1. pc = "idle" /\ running = {} /\ Dispatch(cmd, queue, NoHolder, reservation)
      BY <2>1, <2>4, NothingRuns DEF KickDrain, DrainActive
    <3>2. DispatchEffect(cmd, queue, NoHolder)
      BY <2>2, <3>1, NothingRuns, DispatchLemma DEF TypeOK
    <3>3. DispatchStarts(cmd, queue, NoHolder)
      BY <2>2, <3>1, DispatchStartsLemma DEF TypeOK
    <3>4. DispatchEffect(cmd', queue, NoHolder) /\ DispatchStarts(cmd', queue, NoHolder)
      BY <2>1, <3>2, <3>3
    <3>5. promo'[lease] = "released"
      BY <2>1, <2>2 DEF TypeOK
    <3> QED
      BY <2>1, <2>2, <3>1, <3>4, <3>5 DEF LoopStep, TypeOK
  <2> QED
    BY <2>3, <2>4
<1> QED
  BY <1>1, <1>2, <1>3, <1>4 DEF Promotion

LEMMA DrainKind ==
    ASSUME IInv, DrainStep
    PROVE  LoopStep \/ StillStep \/ EndStep \/ TakeStep \/ AbsorbPersists
<1> USE QueueAssumption
<1>1. CASE DrainNext
  <2>1. /\ pc = "top" /\ running = {}
        /\ Dispatch(cmd, queue, lease, reservation)
        /\ UNCHANGED <<nextId, cmd, signalled, activeTurn, absorbVars, history, branchVars>>
    BY <1>1, NothingRuns DEF DrainNext, commandVars
  <2>2. TypeOK
    BY DEF IInv
  <2>3. DispatchEffect(cmd, queue, lease)
    BY <2>1, <2>2, NothingRuns, DispatchLemma DEF TypeOK
  <2>4. DispatchStarts(cmd, queue, lease)
    BY <2>1, <2>2, DispatchStartsLemma DEF TypeOK
  <2>5. DispatchEffect(cmd', queue, lease) /\ DispatchStarts(cmd', queue, lease)
    BY <2>1, <2>3, <2>4
  <2> QED
    BY <2>1, <2>2, <2>5 DEF LoopStep, TypeOK
<1>2. /\ pc \in {"persist", "control", "verify", "start", "restart", "turn",
                 "maintenance", "post", "absorb"} => running # {}
      /\ pc # "absorb" => absorbing = NoCommand /\ snapshot = {}
      /\ NoCommand \notin running
  BY DEF IInv, ExecutionShape, TypeOK, Command, NoCommand
<1>3. ASSUME Finish("settled"), pc # "absorb", running # {},
             history' \subseteq history \cup running, UNCHANGED commonVars
      PROVE  EndStep
  BY <1>2, <1>3 DEF Finish, EndStep, commonVars, commandVars, absorbVars
<1>4. CASE PersistFails \/ ControlTurn \/ TargetSettled \/ LoopYields \/ TurnFails
  BY <1>2, <1>3, <1>4 DEF PersistFails, ControlTurn, TargetSettled, LoopYields, TurnFails
<1>5. ASSUME pc \in {"persist", "verify"}, NEW c \in running,
             NEW phase \in {"start", "restart"}, StartTurn(c, phase),
             history' \subseteq history \cup running, UNCHANGED <<commonVars, activeTurn>>
      PROVE  StillStep \/ EndStep
  <2>1. SlotFree(reservation)
    BY <1>5 DEF IInv, ExecutionShape, SlotFree
  <2> QED
    BY <1>2, <1>3, <1>5, <2>1
    DEF StartTurn, StillStep, commonVars, commandVars
<1>6. CASE PersistAndStart \/ TargetContinues
  BY <1>5, <1>6 DEF PersistAndStart, TargetContinues
<1>7. CASE \/ \E phase \in {"turn", "maintenance"} : BeginTurn(phase)
           \/ LoopContinues \/ RewindInTurn
  BY <1>7
  DEF BeginTurn, LoopContinues, RewindInTurn, StillStep, commonVars, commandVars,
      drainVars, turnVars
<1>8. CASE TurnCompletes
  <2>1. reservation' \in {reservation, NoCommand} /\ history' = history
        /\ UNCHANGED commonVars /\ pc # "absorb" /\ running # {}
    BY <1>2, <1>8 DEF TurnCompletes, TurnOver
  <2>2. Finish("settled") \/ UNCHANGED <<outcome, running, aborted>>
    BY <1>8 DEF TurnCompletes
  <2> QED
    BY <1>3, <2>1, <2>2 DEF StillStep, commonVars, commandVars
<1>9. CASE BeginAbsorb
  BY <1>9
  DEF BeginAbsorb, TakeStep, Reachable, IInv, ExecutionShape
<1>10. CASE AbsorbNext
  BY <1>10 DEF AbsorbNext, TakeStep, IInv, ExecutionShape
<1>11. CASE AbsorbFails
  BY <1>2, <1>11 DEF AbsorbFails, EndStep, commandVars
<1> QED
  BY <1>1, <1>4, <1>6, <1>7, <1>8, <1>9, <1>10, <1>11 DEF DrainStep

-----------------------------------------------------------------------------
(* A second inductive invariant, on top of IInv: what is cancelled is not   *)
(* queued, the abort flag is that of an execution, absorption stays ahead   *)
(* of the control turns, and a promotion promotes one command.              *)

Discipline ==
    /\ signalled \cap queue = {}
    /\ running = {} => ~aborted
    /\ \A c \in snapshot \cup ({absorbing} \ {NoCommand}), k \in queue :
          cmd[k].mode = "control" => c < k
    /\ \A c, d \in Command :
          cmd[c].input = cmd[d].input /\ cmd[c].input # NoHolder => c = d

(* Creating a command keeps the last conjunct: its promotion was not        *)
(* admitted before.                                                         *)
LEMMA OneCommandPerPromotion ==
    ASSUME IInv, Creates, TypeOK', IInv',
           \A c, d \in Command :
              cmd[c].input = cmd[d].input /\ cmd[c].input # NoHolder => c = d
    PROVE  \A c, d \in Command :
              cmd'[c].input = cmd'[d].input /\ cmd'[c].input # NoHolder => c = d
<1>1. \A c \in Command : cmd'[c].input \in Holder \cup {NoHolder}
  BY DEF TypeOK, CommandRecord
<1>2. ASSUME NEW c \in Command, c # nextId, cmd'[c].input = cmd'[nextId].input,
             cmd'[c].input # NoHolder
      PROVE  FALSE
  <2>1. cmd[c].input = lease /\ promo[lease] = "leased" /\ cmd[c].input # NoHolder
    BY <1>1, <1>2 DEF Creates
  <2> QED
    BY <2>1 DEF IInv, OnlyIssuedCommands
<1> QED
  BY <1>2 DEF Creates

LEMMA DisciplineStep ==
    ASSUME IInv, IInv', Discipline, [Next]_vars
    PROVE  Discipline'
<1> USE QueueAssumption
<1>1. TypeOK /\ TypeOK'
  BY DEF IInv
<1>2. CASE LoopStep
  <2>1. PICK q \in SUBSET Command, l \in Holder \cup {NoHolder} :
           /\ pc \in {"idle", "top"}
           /\ DispatchEffect(cmd', q, l) /\ DispatchStarts(cmd', q, l)
           /\ \/ q = queue /\ UNCHANGED <<nextId, cmd>>
              \/ q = queue \cup {nextId} /\ Creates
           /\ UNCHANGED <<signalled, activeTurn, absorbVars, history, branchVars>>
    BY <1>2 DEF LoopStep
  <2>2. running = {} /\ absorbing = NoCommand /\ snapshot = {}
    BY <2>1, NothingRuns
  <2>3. nextId \notin signalled
    BY <1>1 DEF IInv, OnlyIssuedCommands, TypeOK
  <2>4. signalled' \cap queue' = {}
    BY <2>1, <2>3 DEF Discipline, DispatchEffect
  <2>5. running' = {} => ~aborted'
    BY <2>1, <2>2 DEF Discipline, DispatchStarts
  <2>6. \A c \in snapshot' \cup ({absorbing'} \ {NoCommand}) : FALSE
    BY <2>1, <2>2 DEF absorbVars
  <2>7. \A c, d \in Command :
           cmd'[c].input = cmd'[d].input /\ cmd'[c].input # NoHolder => c = d
    BY <1>1, <2>1, OneCommandPerPromotion DEF Discipline
  <2> QED
    BY <2>4, <2>5, <2>6, <2>7 DEF Discipline
<1>3. CASE WaitStep
  <2>1. /\ Creates /\ queue' = queue \cup {nextId}
        /\ UNCHANGED <<signalled, running, aborted, snapshot, absorbing>>
    BY <1>3 DEF WaitStep, absorbVars
  <2>2. nextId \notin signalled
    BY <1>1 DEF IInv, OnlyIssuedCommands, TypeOK
  <2>3. \A c \in snapshot \cup ({absorbing} \ {NoCommand}) : c \in Command /\ c < nextId
    BY <1>1 DEF IInv, ExecutionShape, EveryCommandInOnePlace, TypeOK
  <2>4. \A c \in snapshot' \cup ({absorbing'} \ {NoCommand}), k \in queue' :
           cmd'[k].mode = "control" => c < k
    BY <1>1, <2>1, <2>3 DEF Discipline, Creates, TypeOK
  <2>5. \A c, d \in Command :
           cmd'[c].input = cmd'[d].input /\ cmd'[c].input # NoHolder => c = d
    BY <1>1, <2>1, OneCommandPerPromotion DEF Discipline
  <2>6. signalled' \cap queue' = {} /\ (running' = {} => ~aborted')
    BY <2>1, <2>2 DEF Discipline
  <2> QED
    BY <2>4, <2>5, <2>6 DEF Discipline
<1>4. CASE StillStep
  BY <1>4 DEF StillStep, Discipline, absorbVars
<1>5. CASE AdmitAborted
  <2>1. /\ signalled' = signalled \cup {nextId} /\ queue = {}
        /\ UNCHANGED <<cmd, queue, running, aborted, snapshot, absorbing>>
    BY <1>5 DEF AdmitAborted, Quiet, drainVars, absorbVars
  <2> QED
    BY <2>1 DEF Discipline
<1>6. ASSUME NEW c \in Command, Abort(c)
      PROVE  Discipline'
  <2>1. /\ signalled' = signalled \cup {c}
        /\ UNCHANGED <<cmd, running, snapshot, absorbing>>
        /\ queue' = queue \ {c}
    BY <1>6 DEF Abort, absorbVars
  <2>2. running = {} => ~aborted'
    BY <1>6 DEF Abort, Discipline
  <2> QED
    BY <2>1, <2>2 DEF Discipline
<1>7. CASE EndStep
  BY <1>7 DEF EndStep, Discipline
<1>8. CASE TakeStep
  <2>1. PICK S \in SUBSET queue :
           /\ \A c \in S : Absorbable(c)
           /\ \/ S = {c \in Reachable(queue) : Absorbable(c)}
              \/ S = snapshot
           /\ AbsorbFrom(S)
           /\ UNCHANGED <<commandVars, cancelPending, lease, promo, running, aborted,
                          turnVars, history, branchVars>>
    BY <1>8 DEF TakeStep
  <2>2. \A c \in S, k \in queue : cmd[k].mode = "control" => c < k
    BY <2>1 DEF Discipline, Reachable
  <2>3. queue' \subseteq queue /\ snapshot' \subseteq S
        /\ absorbing' \in S \cup {NoCommand}
    BY <2>1 DEF AbsorbFrom, Eligible
  <2> QED
    BY <2>1, <2>2, <2>3 DEF Discipline, commandVars
<1>9. CASE AbsorbPersists
  BY <1>9 DEF AbsorbPersists, Discipline, commandVars, drainVars
<1>10. CASE UNCHANGED vars
  BY <1>10 DEF vars, Discipline, commandVars, drainVars, absorbVars
<1> QED
  BY <1>2, <1>3, <1>4, <1>5, <1>6, <1>7, <1>8, <1>9, <1>10, CallerKind, PromotionKind,
     DrainKind
  DEF Next

(* The commands' discipline holds throughout.                               *)
THEOREM DisciplineHolds == Spec => [](IInv /\ Discipline)
<1>1. Init => Discipline
  BY DEF Init, Discipline
<1>2. IInv /\ IInv' /\ Discipline /\ [Next]_vars => Discipline'
  BY DisciplineStep
<1> QED
  BY <1>1, <1>2, Invariance, PTL DEF Spec

-----------------------------------------------------------------------------
(* The action properties.                                                   *)

(* Only the loop starts commands.                                           *)
LEMMA OnlyLoopStarts ==
    ASSUME IInv, [Next]_vars, ~LoopStep
    PROVE  running' \subseteq running
<1>1. CASE UNCHANGED vars
  BY <1>1 DEF vars, drainVars
<1>2. CASE Next
  BY <1>2, CallerKind, PromotionKind, DrainKind
  DEF Next, WaitStep, StillStep, EndStep, TakeStep, AdmitAborted, Abort, AbsorbPersists,
      drainVars
<1> QED
  BY <1>1, <1>2

(* A command that was cancelled while it waited is never executed, however  *)
(* the abort interleaves with the drain loop.                               *)
THEOREM CancelledStayOut == Spec => CancelledNeverStarts
<1>1. ASSUME IInv, Discipline, [Next]_vars, NEW c \in running' \ running
      PROVE  c \notin signalled
  <2>1. LoopStep
    BY <1>1, OnlyLoopStarts
  <2>2. c \in queue \cup {nextId}
    BY <2>1 DEF LoopStep, DispatchEffect
  <2> QED
    BY <1>1, <2>2 DEF Discipline, IInv, OnlyIssuedCommands, TypeOK
<1>2. IInv /\ Discipline /\ [Next]_vars =>
         [\A c \in running' \ running : c \notin signalled]_vars
  BY <1>1
<1> QED
  BY <1>2, DisciplineHolds, PTL DEF Spec, CancelledNeverStarts

(* While a promotion holds the lease nothing but its own command starts.    *)
THEOREM LeaseProtects == Spec => LeaseProtectsPromotion
<1>1. ASSUME IInv, [Next]_vars, NEW c \in running' \ running
      PROVE  lease = NoHolder \/ promo'[lease] = "released" \/ cmd'[c].input = lease
  BY <1>1, OnlyLoopStarts DEF LoopStep, DispatchStarts
<1>2. IInv /\ [Next]_vars =>
         [\A c \in running' \ running :
             \/ lease = NoHolder
             \/ promo'[lease] = "released"
             \/ cmd'[c].input = lease]_vars
  BY <1>1
<1> QED
  BY <1>2, Invariance, PTL DEF Spec, LeaseProtectsPromotion

(* Neither the drain loop nor the active turn takes up a command of an      *)
(* abandoned branch or a notification that the seal suppresses.             *)
THEOREM UnwantedStayOut == Spec => UnwantedNeverStarts
<1>1. ASSUME IInv, [Next]_vars,
             NEW c \in (running' \cup {absorbing'}) \ (running \cup {absorbing, NoCommand})
      PROVE  ~Stale(cmd', c) /\ ~Suppressed(cmd', c)
  <2>1. CASE LoopStep
    <3>1. c \in running'
      BY <1>1, <2>1 DEF LoopStep, absorbVars
    <3> QED
      BY <2>1, <3>1 DEF LoopStep, DispatchStarts
  <2>2. CASE TakeStep
    <3>1. c = absorbing' /\ cmd' = cmd
      BY <1>1, <2>2 DEF TakeStep, commandVars
    <3>2. PICK S \in SUBSET queue : AbsorbFrom(S)
      BY <2>2 DEF TakeStep
    <3>3. absorbing' \in Eligible(cmd, S)
      BY <1>1, <3>1, <3>2 DEF AbsorbFrom
    <3> QED
      BY <3>1, <3>3 DEF Eligible
  <2>3. CASE ~LoopStep /\ ~TakeStep
    <3>1. absorbing' \in {absorbing, NoCommand}
      BY <1>1, <2>3, CallerKind, PromotionKind, DrainKind
      DEF Next, WaitStep, StillStep, EndStep, AdmitAborted, Abort, AbsorbPersists,
          absorbVars, vars
    <3> QED
      BY <1>1, <2>3, <3>1, OnlyLoopStarts
  <2> QED
    BY <2>1, <2>2, <2>3
<1>2. IInv /\ [Next]_vars =>
         [\A c \in (running' \cup {absorbing'}) \ (running \cup {absorbing, NoCommand}) :
             ~Stale(cmd', c) /\ ~Suppressed(cmd', c)]_vars
  BY <1>1
<1> QED
  BY <1>2, Invariance, PTL DEF Spec, UnwantedNeverStarts

(* The active turn never absorbs a message from behind a control turn.      *)
THEOREM AbsorptionWaits == Spec => AbsorptionWaitsForControlTurn
<1>1. ASSUME IInv, Discipline, [Next]_vars, NEW c \in history' \ history, NEW k \in queue,
             pc = "absorb", cmd[k].mode = "control"
      PROVE  c < k
  <2>1. CASE AbsorbPersists \/ AbsorbFails
    BY <1>1, <2>1 DEF AbsorbPersists, AbsorbFails, Discipline, IInv, TypeOK
  <2>2. CASE history' = history
    BY <1>1, <2>2
  <2>3. AbsorbPersists \/ AbsorbFails \/ history' = history
    <3>1. ~ LoopStep /\ pc \notin {"persist", "control"}
      BY <1>1 DEF LoopStep
    <3>2. CASE UNCHANGED vars
      BY <3>2 DEF vars
    <3>3. CASE Callers
      BY <1>1, <3>1, <3>3
      DEF Callers, Submit, Notify, AdmitPrompt, AdmitAborted, Enqueue, Abort, Stop, Seal,
          RewindBegin, RewindCommit
    <3>4. CASE \E h \in Holder : Promotion(h)
      BY <3>4
      DEF Promotion, AcquireLease, AdmitPromoted, RejectPromoted, SubmitPromoted,
          ReleaseLease, Enqueue
    <3>5. CASE DrainStep
      BY <1>1, <3>5
      DEF DrainStep, DrainNext, PersistAndStart, PersistFails, ControlTurn, TargetSettled,
          TargetContinues, BeginTurn, TurnFails, TurnCompletes, LoopYields, LoopContinues,
          RewindInTurn, BeginAbsorb, AbsorbNext
    <3> QED
      BY <1>1, <3>2, <3>3, <3>4, <3>5 DEF Next
  <2> QED
    BY <2>1, <2>2, <2>3
<1>2. IInv /\ Discipline /\ [Next]_vars =>
         [\A c \in history' \ history, k \in queue :
             pc = "absorb" /\ cmd[k].mode = "control" => c < k]_vars
  BY <1>1
<1> QED
  BY <1>2, DisciplineHolds, PTL DEF Spec, AbsorptionWaitsForControlTurn

(* A stopped execution reserves no further turn.                            *)
THEOREM StopIsFinal == Spec => StoppedStartsNoTurn
<1>1. ASSUME IInv, Discipline, [Next]_vars, aborted, aborted'
      PROVE  reservation' \in {reservation, NoCommand}
  <2>1. ~LoopStep
    BY <1>1, NothingRuns DEF LoopStep, Discipline
  <2>2. CASE UNCHANGED vars
    BY <2>2 DEF vars, turnVars
  <2>3. CASE Next
    BY <1>1, <2>1, <2>3, CallerKind, PromotionKind, DrainKind
    DEF Next, WaitStep, StillStep, EndStep, TakeStep, AdmitAborted, Abort, AbsorbPersists,
        turnVars
  <2> QED
    BY <1>1, <2>2, <2>3
<1>2. IInv /\ Discipline /\ [Next]_vars =>
         [aborted /\ aborted' => reservation' \in {reservation, NoCommand}]_vars
  BY <1>1
<1> QED
  BY <1>2, DisciplineHolds, PTL DEF Spec, StoppedStartsNoTurn

-----------------------------------------------------------------------------
(* The runtime implements the one-seat server of TurnServer.                *)

Serving == running \cup ({absorbing} \ {NoCommand})
Left    == {c \in Command : outcome[c] # "none"}
Issued  == {c \in Command : c < nextId}

(* The places of the server's commands, and the commands it knows.          *)
CommandPlaces ==
    /\ queue \cup Serving \cup Left = Issued
    /\ queue \cap Serving = {} /\ queue \cap Left = {} /\ Serving \cap Left = {}
    /\ Server!Known = Issued

LEMMA Places == IInv => CommandPlaces
<1> SUFFICES ASSUME IInv
             PROVE  CommandPlaces
  OBVIOUS
<1> USE QueueAssumption
<1>1. /\ queue \subseteq Command /\ running \subseteq Command
      /\ absorbing \in Command \cup {NoCommand}
      /\ \A c \in Command : c >= nextId => outcome[c] = "none"
      /\ nextId \in Nat /\ Command \subseteq Nat
  BY DEF IInv, TypeOK, OnlyIssuedCommands, Command
<1>2. \A c \in Command : (c < nextId /\ outcome[c] = "none") <=> c \in queue \cup Serving
  BY DEF IInv, EveryCommandInOnePlace, Serving
<1>3. queue \cap Serving = {}
  BY DEF IInv, EveryCommandInOnePlace, Serving
<1>4. \A c \in queue \cup Serving : c \in Command
  BY <1>1 DEF Serving
<1>5. \A c \in Command : c < nextId \/ c >= nextId
  BY <1>1
<1>6. queue \cup Serving \cup Left = Issued
  BY <1>1, <1>2, <1>4, <1>5 DEF Left, Issued
<1>7. Server!Known = queue \cup Serving \cup Left
  BY DEF Server!Known, Serving, Left
<1> QED
  BY <1>2, <1>3, <1>4, <1>6, <1>7 DEF Left, CommandPlaces

LEMMA PlacesNext == IInv' => CommandPlaces'
BY Places, PTL

(* Who arrives, gives up, is seated and is done, in the runtime's terms.    *)
LEMMA Changes ==
    ASSUME IInv, IInv'
    PROVE  /\ Server!Arriving = Issued' \ Issued
           /\ Server!Withdrawing = Left' \ (Left \cup Serving)
           /\ Server!Seated = Serving' \ Serving
           /\ Server!Done = Serving \ Serving'
<1>1. Server!Known = Issued /\ queue' \cup Serving' \cup Left' = Issued'
  BY Places, PlacesNext DEF CommandPlaces
<1> QED
  BY <1>1 DEF Server!Arriving, Server!Withdrawing, Server!Seated, Server!Done, Serving, Left

(* At most one command arrives, the youngest.                               *)
LEMMA ArriveStep ==
    ASSUME IInv, IInv', UNCHANGED <<nextId, cmd>> \/ Creates
    PROVE  /\ Server!Arrive
           /\ Issued' \ Issued \subseteq {nextId}
           /\ Issued \subseteq Issued'
<1> USE QueueAssumption
<1>1. nextId \in Nat /\ nextId' \in Nat /\ Command \subseteq Nat
  BY DEF IInv, TypeOK, Command
<1>2. Issued' \ Issued \subseteq {nextId} /\ Issued \subseteq Issued'
  <2>1. nextId' = nextId \/ nextId' = nextId + 1
    BY DEF Creates
  <2>2. \A c \in Command :
           /\ c < nextId => c < nextId'
           /\ c < nextId' => c < nextId \/ c = nextId
    BY <1>1, <2>1
  <2> QED
    BY <2>2 DEF Issued
<1>3. Server!Arriving = Issued' \ Issued /\ Server!Known = Issued
  BY Changes, Places DEF CommandPlaces
<1>4. \A c \in Issued : c < nextId
  BY DEF Issued
<1>5. \A c \in Command : c < nextId => cmd'[c] = cmd[c] /\ c < nextId'
  BY <1>1 DEF Creates
<1>6. \A c \in Command : c < nextId' => c < nextId \/ c \in Issued' \ Issued
  BY DEF Issued
<1> QED
  BY <1>2, <1>3, <1>4, <1>5, <1>6 DEF Server!Arrive, Server!AtMostOne

(* The drain loop admits.                                                   *)
LEMMA LoopAdmits ==
    ASSUME IInv, IInv', Discipline', LoopStep
    PROVE  Server!Admit
<1> USE QueueAssumption
<1>1. PICK q \in SUBSET Command, l \in Holder \cup {NoHolder} :
         /\ pc \in {"idle", "top"}
         /\ DispatchEffect(cmd', q, l) /\ DispatchStarts(cmd', q, l)
         /\ \/ q = queue /\ UNCHANGED <<nextId, cmd>>
            \/ q = queue \cup {nextId} /\ Creates
         /\ UNCHANGED <<signalled, activeTurn, absorbVars, history, branchVars>>
  BY DEF LoopStep
<1>2. Serving = {} /\ Serving' = running' /\ absorbing' = NoCommand
  BY <1>1, NothingRuns DEF Serving, absorbVars
<1>3. Server!Arrive /\ Issued' \ Issued \subseteq {nextId} /\ Issued \subseteq Issued'
  BY <1>1, ArriveStep
<1>4. q = queue \cup (Issued' \ Issued)
  <2>1. CASE UNCHANGED <<nextId, cmd>> /\ q = queue
    BY <2>1 DEF Issued
  <2>2. CASE Creates /\ q = queue \cup {nextId}
    BY <2>2 DEF Creates, Issued, IInv, TypeOK, Command
  <2> QED
    BY <1>1, <2>1, <2>2
<1>5. Left' = Left \cup ((q \ queue') \ running')
  BY <1>1 DEF DispatchEffect, Left
<1>6. /\ queue \cap Left = {} /\ queue \cup Left = Issued
      /\ Issued \cap (Issued' \ Issued) = {}
  BY <1>2, Places DEF CommandPlaces
<1>7. /\ Server!Arriving = Issued' \ Issued
      /\ Server!Withdrawing = (q \ queue') \ running'
      /\ Server!Seated = running'
      /\ Server!Done = {}
  BY <1>2, <1>4, <1>5, <1>6, Changes
<1>8. running' \subseteq q \ queue' /\ queue' \subseteq q
  BY <1>1 DEF DispatchEffect
<1>9. Server!SeatedInOrder
  <2>1. \A c \in running' : c \in Command /\ c < nextId'
    BY PlacesNext, <1>2 DEF CommandPlaces, Issued
  <2>2. CASE l = NoHolder
    <3>1. CASE \A c \in running' : cmd'[c].mode \in Notification
      BY <1>7, <2>1, <3>1 DEF Server!SeatedInOrder
    <3>2. CASE \A c \in running' : running' = {c} /\ \A d \in queue' : c <= d
      <4>1. \A c \in running', d \in queue' : c < d
        BY <1>1, <1>8, <3>2 DEF Command
      <4> QED
        BY <1>7, <3>2, <4>1 DEF Server!SeatedInOrder, Server!AtMostOne
    <3> QED
      BY <1>1, <2>2, <3>1, <3>2 DEF DispatchStarts
  <2>3. CASE l # NoHolder
    <3>1. \A c \in running' : cmd'[c].input = l
      BY <1>1, <2>3 DEF DispatchStarts
    <3>2. \A c, d \in running' : c = d
      BY <2>1, <2>3, <3>1 DEF Discipline
    <3> QED
      BY <1>7, <2>1, <2>3, <3>1, <3>2 DEF Server!SeatedInOrder, Server!AtMostOne
  <2> QED
    BY <2>2, <2>3
<1> QED
  BY <1>2, <1>3, <1>4, <1>5, <1>7, <1>8, <1>9 DEF Server!Admit, Serving, Left

(* Every step of the runtime is one of the server's, or moves nobody.       *)
LEMMA ServerStep ==
    ASSUME IInv, IInv', Discipline, Discipline', [Next]_vars
    PROVE  [Server!Next]_(Server!vars)
<1> USE QueueAssumption
<1>1. CommandPlaces /\ CommandPlaces'
  BY Places, PlacesNext
<1>2. CASE LoopStep
  BY <1>2, LoopAdmits DEF Server!Next
<1>3. CASE WaitStep
  <2>1. /\ Server!Arrive /\ Issued' \ Issued \subseteq {nextId}
        /\ Issued \subseteq Issued' /\ nextId \in Issued'
        /\ queue' = queue \cup {nextId} /\ Serving' = Serving /\ Left' = Left
    <3>1. Creates /\ queue' = queue \cup {nextId} /\ outcome' = outcome
          /\ running' = running /\ absorbing' = absorbing
      BY <1>3 DEF WaitStep, absorbVars
    <3>2. nextId \in Issued'
      <4>1. nextId \in Command /\ nextId \in Nat /\ nextId' = nextId + 1
        BY <3>1 DEF Creates, IInv, TypeOK
      <4>2. nextId < nextId'
        BY <4>1
      <4> QED
        BY <4>1, <4>2 DEF Issued
    <3>3. Serving' = Serving /\ Left' = Left
      BY <3>1 DEF Serving, Left
    <3> QED
      BY <3>1, <3>2, <3>3, ArriveStep
  <2>2. nextId \notin Issued
    BY DEF Issued, IInv, TypeOK
  <2>3. Server!Arriving = {nextId} /\ Server!Withdrawing = {} /\ Server!Seated = {}
        /\ Server!Done = {}
    BY <2>1, <2>2, Changes
  <2> QED
    BY <2>1, <2>3
    DEF Server!Next, Server!Admit, Server!SeatedInOrder, Serving, Left
<1>4. CASE StillStep
  BY <1>4 DEF StillStep, Server!vars, absorbVars
<1>5. CASE AdmitAborted
  <2>1. /\ nextId \in Command /\ nextId' = nextId + 1
        /\ outcome' = Settle({nextId}, "cancelled")
        /\ UNCHANGED <<cmd, queue, running, absorbing>>
    BY <1>5 DEF AdmitAborted, drainVars, absorbVars
  <2>2. cmd[nextId].input = NoHolder
    BY <2>1 DEF IInv, OnlyIssuedCommands, TypeOK
  <2>3. Creates
    BY <2>1, <2>2 DEF Creates
  <2>4. /\ Server!Arrive /\ Issued' \ Issued \subseteq {nextId}
        /\ nextId \in Issued' /\ nextId \notin Issued
    <3>1. nextId \in Nat
      BY DEF IInv, TypeOK
    <3>2. nextId < nextId' /\ ~(nextId < nextId)
      BY <2>1, <3>1
    <3>3. nextId \in Issued' /\ nextId \notin Issued
      BY <2>1, <3>2 DEF Issued
    <3> QED
      BY <2>3, <3>3, ArriveStep
  <2>5. Left' = Left \cup {nextId} /\ Serving' = Serving /\ nextId \notin Left \cup Serving
    BY <1>1, <2>1, <2>4 DEF Left, Serving, Settle, CommandPlaces
  <2>6. Server!Arriving = {nextId} /\ Server!Withdrawing = {nextId} /\ Server!Seated = {}
        /\ Server!Done = {}
    BY <1>1, <2>4, <2>5, Changes DEF CommandPlaces
  <2>7. queue' = queue /\ nextId \notin queue
    BY <1>1, <2>1, <2>4 DEF CommandPlaces
  <2> QED
    BY <2>4, <2>5, <2>6, <2>7
    DEF Server!Next, Server!Admit, Server!SeatedInOrder, Serving, Left
<1>6. ASSUME NEW c \in Command, Abort(c)
      PROVE  [Server!Next]_(Server!vars)
  <2>1. UNCHANGED <<nextId, cmd, running, absorbing>>
    BY <1>6 DEF Abort, absorbVars
  <2>2. CASE c \notin queue
    <3>1. UNCHANGED <<queue, outcome>>
      BY <1>6, <2>2 DEF Abort
    <3> QED
      BY <2>1, <3>1 DEF Server!vars
  <2>3. CASE c \in queue
    <3>1. queue' = queue \ {c} /\ outcome' = Settle({c}, "cancelled")
      BY <1>6, <2>3 DEF Abort
    <3>2. Left' = Left \cup {c} /\ Serving' = Serving /\ Issued' = Issued
      BY <2>1, <3>1 DEF Left, Serving, Settle, Issued
    <3>3. Server!Arriving = {} /\ Server!Withdrawing = {c} /\ Server!Seated = {}
          /\ Server!Done = {}
      BY <1>1, <2>3, <3>2, Changes DEF CommandPlaces
    <3>4. Server!Arrive
      BY <2>1, ArriveStep
    <3> QED
      BY <2>3, <3>1, <3>2, <3>3, <3>4
      DEF Server!Next, Server!Admit, Server!SeatedInOrder, Serving, Left
  <2> QED
    BY <2>2, <2>3
<1>7. CASE EndStep
  <2>1. Serving' = {} /\ Left' = Left \cup Serving
    <3>1. Serving \subseteq Command
      BY DEF Serving, IInv, TypeOK
    <3>2. /\ running' = {} /\ absorbing' = NoCommand
          /\ outcome' = Settle(Serving, "settled")
      BY <1>7 DEF EndStep, Serving
    <3> QED
      BY <3>1, <3>2 DEF Left, Settle, Serving
  <2>2. Server!Done = Serving
    BY <2>1, Changes
  <2> QED
    BY <1>7, <2>1, <2>2 DEF EndStep, Server!Next, Server!Leave, Serving, Left
<1>8. CASE TakeStep
  <2>1. PICK S \in SUBSET queue :
           /\ pc \in {"turn", "absorb"} /\ absorbing = NoCommand
           /\ \A c \in S : Absorbable(c)
           /\ AbsorbFrom(S)
           /\ UNCHANGED <<nextId, cmd, running>>
    BY <1>8 DEF TakeStep, commandVars
  <2>2. Serving = running /\ running # {}
    BY <2>1 DEF Serving, IInv, ExecutionShape
  <2>3. PICK gone \in SUBSET S :
           /\ queue' = queue \ gone
           /\ outcome' = Settle(gone \ {absorbing'}, "dropped")
           /\ absorbing' \in gone \cup {NoCommand}
    <3>1. CASE Eligible(cmd, S) = {}
      <4>1. absorbing' = NoCommand /\ queue' = queue \ S /\ outcome' = Settle(S, "dropped")
        BY <2>1, <3>1 DEF AbsorbFrom
      <4>2. S \ {absorbing'} = S
        BY <4>1 DEF IInv, TypeOK, Command, NoCommand
      <4> QED
        BY <4>1, <4>2
    <3>2. CASE Eligible(cmd, S) # {}
      <4>1. PICK c \in S :
               /\ queue' = queue \ {d \in S : d <= c}
               /\ outcome' = Settle({d \in S : d <= c} \ {c}, "dropped")
               /\ absorbing' = c
        BY <2>1, <3>2 DEF AbsorbFrom, Eligible
      <4>2. c \in {d \in S : d <= c}
        BY DEF IInv, TypeOK, Command
      <4> QED
        BY <4>1, <4>2
    <3> QED
      BY <3>1, <3>2
  <2>4. /\ gone \subseteq queue /\ gone \subseteq Command /\ NoCommand \notin gone
        /\ gone \cap (Serving \cup Left) = {}
    <3>1. queue \subseteq Command /\ NoCommand \notin Command
      BY DEF IInv, TypeOK, Command, NoCommand
    <3> QED
      BY <1>1, <3>1 DEF CommandPlaces
  <2>5. Left' = Left \cup (gone \ {absorbing'})
        /\ Serving' = Serving \cup ({absorbing'} \ {NoCommand})
    BY <2>1, <2>2, <2>3, <2>4 DEF Left, Settle, Serving
  <2>6. Server!Withdrawing = gone \ {absorbing'} /\ Server!Done = {}
        /\ Server!Seated = {absorbing'} \ {NoCommand}
    BY <2>3, <2>4, <2>5, Changes
  <2>7. \A c \in gone : c < nextId /\ cmd[c].mode \in Notification \cup {"subagent"}
    BY <1>1, <2>1, <2>4 DEF Absorbable, CommandPlaces, Issued
  <2>8. Server!Withdrawing \cup Server!Seated = gone
        /\ Server!Withdrawing \cap Server!Seated = {}
        /\ Left' = Left \cup Server!Withdrawing
    BY <2>3, <2>4, <2>5, <2>6
  <2>9. Server!Seated \subseteq {c \in Command : c < nextId /\ cmd[c].mode \in Notification \cup {"subagent"}}
    BY <2>4, <2>7, <2>8
  <2>10. Server!Join
    BY <2>1, <2>2, <2>3, <2>4, <2>6, <2>8, <2>9 DEF Server!Join, Serving, Left
  <2> QED
    BY <2>10 DEF Server!Next
<1>9. CASE AbsorbPersists
  <2>1. /\ absorbing # NoCommand /\ absorbing' = NoCommand
        /\ outcome' = Settle({absorbing}, "settled")
        /\ UNCHANGED <<nextId, cmd, queue, running>>
    BY <1>9 DEF AbsorbPersists, commandVars, drainVars
  <2>2. absorbing \in Command /\ absorbing \notin running
    BY <2>1 DEF IInv, TypeOK, EveryCommandInOnePlace
  <2>3. Left' = Left \cup {absorbing} /\ Serving' = running
        /\ Serving = running \cup {absorbing}
    BY <2>1, <2>2 DEF Left, Serving, Settle
  <2>4. Server!Done = {absorbing}
    BY <2>2, <2>3, Changes
  <2> QED
    BY <2>1, <2>3, <2>4 DEF Server!Next, Server!Leave, Serving, Left
<1>10. CASE UNCHANGED vars
  BY <1>10 DEF vars, commandVars, drainVars, absorbVars, Server!vars
<1> QED
  BY <1>2, <1>3, <1>4, <1>5, <1>6, <1>7, <1>8, <1>9, <1>10, CallerKind, PromotionKind,
     DrainKind
  DEF Next

(* The runtime, whatever its callers do, behaves as a server with one seat: *)
(* it implements TurnServer under the mapping of Server.                    *)
THEOREM Refinement == Spec => ServesOneAtATime
<1>1. Init => Server!Init
  BY DEF Init, Server!Init, NoCommand, Command
<1>2. /\ IInv /\ Discipline /\ (IInv /\ Discipline)' /\ [Next]_vars
      => [Server!Next]_(Server!vars)
  BY ServerStep
<1> QED
  BY <1>1, <1>2, DisciplineHolds, PTL DEF Spec, ServesOneAtATime, Server!Spec
=============================================================================
