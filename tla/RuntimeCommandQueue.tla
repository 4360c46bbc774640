------------------------ MODULE RuntimeCommandQueue ------------------------
(***************************************************************************)
(* One AgentRuntime: its command queue, the loop that drains it, the       *)
(* foreground execution it runs, the start reservation and the active turn *)
(* of that execution, the promotion lease of the caller that jumps the     *)
(* queue, and the branch generation that a rewind moves.                   *)
(*                                                                         *)
(* JavaScript runs to the next `await` without interruption, so one action *)
(* is one such stretch of a handler.  Enqueueing, releasing the lease and  *)
(* waking the drain loop are one stretch: `void this.drain...()` runs up   *)
(* to its first await, and that includes dequeueing a command and starting *)
(* its foreground execution (see KickDrain).                               *)
(***************************************************************************)
EXTENDS Naturals, FiniteSets

CONSTANTS
    MaxCommands,    \* bound: commands created in a behaviour
    MaxGeneration,  \* bound: conversation rewinds in a behaviour
    Modes,          \* the modes of command the environment enqueues
    Holder,         \* promotions: each has one lease id and one promoted input
    NoHolder,       \* "undefined" for a lease or an input id
    ChildRuntime    \* taskType = "subagent_child"

Cancellable   == {"prompt", "target", "loop"}
Notification  == {"note", "bash"}
BranchBound   == Notification \cup {"subagent", "control"}
Mode          == Cancellable \cup BranchBound

Command    == 1 .. MaxCommands
NoCommand  == 0
Generation == 0 .. MaxGeneration
Outcome    == {"none", "settled", "cancelled", "dropped", "refused"}
Phase      == {"idle", "top", "persist", "control", "verify", "start", "restart",
               "turn", "maintenance", "absorb", "post"}

ASSUME QueueAssumption ==
    /\ MaxCommands \in Nat \ {0}
    /\ MaxGeneration \in Nat
    /\ Modes \subseteq Mode
    /\ NoHolder \notin Holder
    /\ ChildRuntime \in BOOLEAN

VARIABLES
    nextId,            \* runtimeCommandIdSequence: ids grow in enqueue order
    cmd,               \* the fields of each command, fixed when it is created
    signalled,         \* commands whose caller fired the abort signal
    outcome,           \* how each command settled, "none" while it has not
    queue,             \* the queued commands; all have priority "next"
    cancelPending,     \* cancelPendingCommandIds
    lease,             \* foregroundPromotionLease (the id of its holder)
    promo,             \* where each promotion stands, on its caller's side
    pc,                \* where the drain loop is suspended
    running,           \* the dequeued commands of activeForegroundExecution
    aborted,           \* its controller.signal.aborted
    reservation,       \* activeTurnStartReservation (the command it is for)
    activeTurn,        \* activeTurn (the command it runs for)
    snapshot,          \* active-loop absorption: what is left of the snapshot
    absorbing,         \* ... and the command whose persist it awaits
    history,           \* commands whose text entered the conversation
    branchGeneration,
    rewindPlan,        \* the generation a planned rewind will commit, 0 if none
    sealed             \* backgroundTaskNotificationsSealed

commandVars == <<nextId, cmd, signalled>>
drainVars   == <<pc, running, aborted>>
turnVars    == <<reservation, activeTurn>>
absorbVars  == <<snapshot, absorbing>>
branchVars  == <<branchGeneration, rewindPlan, sealed>>
vars == <<commandVars, outcome, queue, cancelPending, lease, promo, drainVars,
          turnVars, absorbVars, history, branchVars>>

CommandRecord == [mode : Mode, gen : Generation, input : Holder \cup {NoHolder}]

Init ==
    /\ nextId = 1
    /\ cmd = [c \in Command |->
                [mode |-> "prompt", gen |-> 0, input |-> NoHolder]]
    /\ signalled = {}
    /\ outcome = [c \in Command |-> "none"]
    /\ queue = {}
    /\ cancelPending = {}
    /\ lease = NoHolder
    /\ promo = [h \in Holder |-> "none"]
    /\ pc = "idle"
    /\ running = {}
    /\ aborted = FALSE
    /\ reservation = NoCommand
    /\ activeTurn = NoCommand
    /\ snapshot = {}
    /\ absorbing = NoCommand
    /\ history = {}
    /\ branchGeneration = 0
    /\ rewindPlan = 0
    /\ sealed = FALSE

-----------------------------------------------------------------------------
(* Helpers.  They take the command table C because a command that is being *)
(* enqueued is dequeued, when the runtime is idle, in the same step.       *)

IsFirst(c, S) == c \in S /\ \A d \in S : c <= d

Settle(S, o) == [c \in Command |-> IF c \in S THEN o ELSE outcome[c]]

\* runtimeCommandDrainActive
DrainActive == pc # "idle"

\* isStaleBranchRuntimeCommand
Stale(C, c) == C[c].mode \in BranchBound /\ C[c].gen # branchGeneration

\* shouldSuppressTaskNotificationRuntimeCommand
Suppressed(C, c) == ChildRuntime /\ sealed /\ C[c].mode = "bash"

\* Mutant: the batch of notifications takes the oldest command along.
MixedBatch(C, q) == {c \in q : IsFirst(c, q) \/ C[c].mode \in Notification}

\* RuntimeCommandQueue.dequeueNextBatch: the oldest command alone or, when
\* that is a task notification, all the notifications in the queue.
NextBatch(C, q) ==
    {c \in q : \/ IsFirst(c, q)
               \/ /\ C[c].mode \in Notification
                  /\ \E h \in q : IsFirst(h, q) /\ C[h].mode \in Notification}

\* Mutant: the lease is not consulted.
UnleasedBatch(C, q, l) == NextBatch(C, q)

\* dequeueNextRunnableBatch: under a lease only the promoted command may run.
NextRunnableBatch(C, q, l) ==
    IF l = NoHolder THEN NextBatch(C, q)
                    ELSE {c \in q : C[c].input = l}

\* Mutant: the generation is only checked when a command is enqueued.
EligibleIfNotSealed(C, S) == {c \in S : ~Suppressed(C, c)}

\* What runRuntimeCommand and runTaskNotificationBatch go on with: a stale
\* command is dropped, and so is a notification the seal suppresses.
Eligible(C, S) == {c \in S : ~Stale(C, c) /\ ~Suppressed(C, c)}

\* Where the first await of a command's execution suspends the drain loop.
FirstPhase(m) ==
    CASE m = "prompt"                      -> "start"
      [] m \in {"target", "loop"}          -> "verify"
      [] m \in Notification \/ m = "subagent" -> "persist"
      [] m = "control"                     -> "control"

\* reserveTurnStart throws unless there is neither a turn nor a reservation.
SlotFree(r) == r = NoCommand /\ activeTurn = NoCommand

\* executeTurnCommand's first stretch: it takes the admission's reservation
\* over or reserves; FALSE when reserveTurnStart throws.
CanStart(r, c) == r = c \/ SlotFree(r)

-----------------------------------------------------------------------------
(* The drain loop's synchronous stretch: dequeue, then start what was       *)
(* dequeued up to its first await.                                          *)

\* Nothing runnable: the loop ends, runtimeCommandDrainActive := false.  The
\* re-check after the loop cannot find a runnable command in this stretch.
LoopEnds(batch, r) ==
    /\ batch = {}
    /\ pc' = "idle"
    /\ reservation' = r
    /\ UNCHANGED <<outcome, cancelPending, running, aborted>>

\* Everything dequeued is stale or suppressed: no execution begins.
AllDropped(batch, live, r) ==
    /\ batch # {}
    /\ live = {}
    /\ pc' = "top"
    /\ reservation' = r
    /\ outcome' = Settle(batch, "dropped")
    /\ UNCHANGED <<cancelPending, running, aborted>>

\* beginForegroundExecution and the command's first stretch.
ExecutionBegins(C, c, batch, live, r) ==
    /\ IsFirst(c, live)
    /\ c \notin cancelPending
    /\ C[c].mode = "prompt" => CanStart(r, c)
    /\ pc' = FirstPhase(C[c].mode)
    /\ running' = live
    /\ aborted' = (c \in signalled)
    /\ reservation' = IF C[c].mode = "prompt" THEN c ELSE r
    /\ outcome' = Settle(batch \ live, "dropped")
    /\ UNCHANGED cancelPending

\* The command settles before its first await: consumeCancelPending found its
\* mark, or reserveTurnStart threw.
ExecutionRejected(C, c, live, r) ==
    /\ IsFirst(c, live)
    /\ \/ c \in cancelPending
       \/ C[c].mode = "prompt" /\ ~CanStart(r, c)
    /\ pc' = "top"
    /\ reservation' = IF r = c THEN NoCommand ELSE r
    /\ outcome' = Settle({c}, IF c \in cancelPending THEN "cancelled" ELSE "refused")
    /\ cancelPending' = cancelPending \ {c}
    /\ UNCHANGED <<running, aborted>>

Dispatch(C, q, l, r) ==
    LET batch == NextRunnableBatch(C, q, l)
        live  == Eligible(C, batch)
    IN  /\ queue' = q \ batch
        /\ lease' = IF batch = {} THEN l ELSE NoHolder  \* consumed with its command
        /\ \/ LoopEnds(batch, r)
           \/ AllDropped(batch, live, r)
           \/ \E c \in live : \/ ExecutionBegins(C, c, batch, live, r)
                              \/ ExecutionRejected(C, c, live, r)

\* drainRuntimeCommandQueue called without await: a no-op while the loop runs.
KickDrain(C, q, l, r) ==
    \/ /\ ~DrainActive
       /\ Dispatch(C, q, l, r)
    \/ /\ DrainActive
       /\ queue' = q
       /\ lease' = l
       /\ reservation' = r
       /\ UNCHANGED <<outcome, cancelPending, drainVars>>

-----------------------------------------------------------------------------
(* The runtime's callers.                                                   *)

\* createRuntimeCommandId and enqueueRuntimeCommand, one stretch everywhere.
Enqueue(m, i, reserves) ==
    LET C == [cmd EXCEPT ![nextId] =
                 [mode |-> m, gen |-> branchGeneration, input |-> i]]
    IN  /\ nextId \in Command
        /\ m \in Modes
        /\ nextId' = nextId + 1
        /\ cmd' = C
        /\ KickDrain(C, queue \cup {nextId}, lease,
                     IF reserves THEN nextId ELSE reservation)
        /\ UNCHANGED <<signalled, activeTurn, absorbVars, history, branchVars>>

\* submitPrompt, continueActiveTarget(Loop): always queued, never admitted.
Submit(m) ==
    /\ m \in Cancellable
    /\ Enqueue(m, NoHolder, FALSE)
    /\ UNCHANGED promo

\* enqueueBackgroundTaskNotification, enqueueSubagentMessage and
\* enqueueSettingsTurn.  A task of another branch is dropped at this point.
Notify(m) ==
    /\ m \in BranchBound
    /\ Enqueue(m, NoHolder, FALSE)
    /\ UNCHANGED promo

\* Mutant: admission asks for the turn and the queue, not for the drain loop.
QuietTurn ==
    /\ queue = {}
    /\ activeTurn = NoCommand
    /\ reservation = NoCommand

Quiet ==
    /\ running = {}
    /\ ~DrainActive
    /\ queue = {}
    /\ activeTurn = NoCommand
    /\ reservation = NoCommand

\* admitPrompt of an idle runtime: reserve the turn, then enqueue.
AdmitPrompt ==
    /\ Quiet
    /\ lease = NoHolder
    /\ Enqueue("prompt", NoHolder, TRUE)
    /\ UNCHANGED promo

\* The same with a signal that has already fired: the command is created and
\* rejected, and its reservation given back, in one stretch.
AdmitAborted ==
    /\ Quiet
    /\ lease = NoHolder
    /\ nextId \in Command
    /\ "prompt" \in Modes
    /\ nextId' = nextId + 1
    /\ signalled' = signalled \cup {nextId}
    /\ outcome' = Settle({nextId}, "cancelled")
    /\ reservation' = NoCommand
    /\ UNCHANGED <<cmd, queue, cancelPending, lease, promo, drainVars,
                   activeTurn, absorbVars, history, branchVars>>

\* acquireForegroundPromotionLease in mode "after-current" (sendQueuedNow and
\* sendText startNow) or "idle-only" (auto-drain).
AcquireLease(h, idleOnly) ==
    /\ promo[h] = "none"
    /\ lease = NoHolder
    /\ idleOnly => Quiet
    /\ lease' = h
    /\ promo' = [promo EXCEPT ![h] = "leased"]
    /\ UNCHANGED <<commandVars, outcome, queue, cancelPending, drainVars,
                   turnVars, absorbVars, history, branchVars>>

\* The holder has waited (waitForSessionIdle) for the execution it stopped: for
\* the execution and its turn to be over.  It looks from a timer, so never in
\* the microtasks that the drain loop spends at its top.
HolderResumes(h) ==
    /\ lease = h
    /\ promo[h] = "leased"
    /\ running = {}
    /\ activeTurn = NoCommand
    /\ pc # "top"

\* admitPrompt with requireIdle: the lease itself is the only authority held.
\* It asks for some lease; only holders call it so, and theirs is the only one.
AdmitPromoted(h) ==
    /\ HolderResumes(h)
    /\ Quiet
    /\ Enqueue("prompt", h, TRUE)
    /\ promo' = [promo EXCEPT ![h] = "admitted"]

\* ... and the same call when commands wait behind the lease: kind "rejected".
RejectPromoted(h) ==
    /\ HolderResumes(h)
    /\ ~Quiet
    /\ promo' = [promo EXCEPT ![h] = "rejected"]
    /\ UNCHANGED <<commandVars, outcome, queue, cancelPending, lease, drainVars,
                   turnVars, absorbVars, history, branchVars>>

\* A queued /compact or goal is promoted by submitPrompt or continueActiveTarget.
SubmitPromoted(h, m) ==
    /\ HolderResumes(h)
    /\ m \in Cancellable
    /\ Enqueue(m, h, FALSE)
    /\ promo' = [promo EXCEPT ![h] = "admitted"]

\* Mutant: the release does not wake the drain loop.
ReleaseWithoutDrain(h) ==
    /\ lease = h
    /\ \A c \in Command : cmd[c].input = h => outcome[c] # "none"
    /\ promo' = [promo EXCEPT ![h] = "released"]
    /\ lease' = NoHolder
    /\ UNCHANGED <<commandVars, outcome, queue, cancelPending, drainVars,
                   turnVars, absorbVars, history, branchVars>>

\* releaseForegroundPromotionLease in the caller's finally.  A no-op, and not
\* an action, once the promoted command consumed the lease.
ReleaseLease(h) ==
    /\ lease = h
    /\ \A c \in Command : cmd[c].input = h => outcome[c] # "none"
    /\ promo' = [promo EXCEPT ![h] = "released"]
    /\ KickDrain(cmd, queue, NoHolder, reservation)
    /\ UNCHANGED <<commandVars, activeTurn, absorbVars, history, branchVars>>

\* Mutant: the command is rejected but stays in the queue.
AbortWithoutRemoval(c) ==
    /\ c < nextId
    /\ cmd[c].mode \in Cancellable
    /\ outcome[c] = "none"
    /\ c \notin signalled
    /\ signalled' = signalled \cup {c}
    /\ outcome' = Settle({c} \cap queue, "cancelled")
    /\ cancelPending' = cancelPending \cup ({c} \ queue)
    /\ aborted' = (aborted \/ c \in running)
    /\ UNCHANGED <<nextId, cmd, queue, lease, promo, pc, running, turnVars,
                   absorbVars, history, branchVars>>

\* abortQueuedCommand: the caller's abort signal fires.
Abort(c) ==
    /\ c < nextId
    /\ cmd[c].mode \in Cancellable
    /\ outcome[c] = "none"
    /\ c \notin signalled
    /\ signalled' = signalled \cup {c}
    /\ \/ /\ c \in queue
          /\ queue' = queue \ {c}
          /\ outcome' = Settle({c}, "cancelled")
          /\ reservation' = IF reservation = c THEN NoCommand ELSE reservation
          /\ UNCHANGED <<cancelPending, aborted>>
       \/ /\ c \notin queue
          /\ cancelPending' = cancelPending \cup {c}
          /\ aborted' = (aborted \/ c \in running)
          /\ UNCHANGED <<queue, outcome, reservation>>
    /\ UNCHANGED <<nextId, cmd, lease, promo, pc, running, activeTurn,
                   absorbVars, history, branchVars>>

\* stopActiveForegroundExecution: the user's Stop, or a promotion's preemption.
Stop ==
    /\ running # {}
    /\ ~aborted
    /\ aborted' = TRUE
    /\ UNCHANGED <<commandVars, outcome, queue, cancelPending, lease, promo, pc,
                   running, turnVars, absorbVars, history, branchVars>>

\* sealBackgroundTaskNotifications
Seal ==
    /\ ChildRuntime
    /\ ~sealed
    /\ sealed' = TRUE
    /\ UNCHANGED <<commandVars, outcome, queue, cancelPending, lease, promo,
                   drainVars, turnVars, absorbVars, history, branchGeneration,
                   rewindPlan>>

\* Mutant: the plan adds to a generation that was already incremented.
RewindBeginTwice ==
    /\ running = {}
    /\ rewindPlan = 0
    /\ branchGeneration < MaxGeneration
    /\ rewindPlan' = branchGeneration + 2
    /\ UNCHANGED <<commandVars, outcome, queue, cancelPending, lease, promo,
                   drainVars, turnVars, absorbVars, history, branchGeneration,
                   sealed>>

\* editUserQuery and retryTurn wait for an idle session, then plan a rewind ...
RewindBegin ==
    /\ running = {}
    /\ rewindPlan = 0
    /\ branchGeneration < MaxGeneration
    /\ rewindPlan' = branchGeneration + 1
    /\ UNCHANGED <<commandVars, outcome, queue, cancelPending, lease, promo,
                   drainVars, turnVars, absorbVars, history, branchGeneration,
                   sealed>>

\* ... and commit it some awaits later, holding nothing in between.
RewindCommit ==
    /\ rewindPlan # 0
    /\ branchGeneration' = rewindPlan
    /\ rewindPlan' = 0
    /\ UNCHANGED <<commandVars, outcome, queue, cancelPending, lease, promo,
                   drainVars, turnVars, absorbVars, history, sealed>>

-----------------------------------------------------------------------------
(* The drain loop, from one await to the next.                              *)

commonVars == <<commandVars, queue, lease, promo, absorbVars, branchVars>>


\* The last stretch of a command: its finally blocks and its settlement.
Finish(o) ==
    /\ outcome' = Settle(running, o)
    /\ cancelPending' = cancelPending \ running
    /\ running' = {}
    /\ aborted' = FALSE
    /\ pc' = "top"

\* Mutant: no throwIfTurnAborted at the start of the turn.
StartTurnUnchecked(c, phase) ==
    \/ /\ SlotFree(reservation)
       /\ reservation' = c
       /\ pc' = phase
       /\ UNCHANGED <<outcome, cancelPending, running, aborted>>
    \/ /\ ~SlotFree(reservation)
       /\ Finish("refused")
       /\ UNCHANGED reservation

\* executeTurnCommand called, after an await, by a command without reservation:
\* it reserves and, in the same stretch, throws if the execution is aborted; the
\* reservation it gives back some microtasks later is not shown.
StartTurn(c, phase) ==
    \/ /\ SlotFree(reservation)
       /\ ~aborted
       /\ reservation' = c
       /\ pc' = phase
       /\ UNCHANGED <<outcome, cancelPending, running, aborted>>
    \/ /\ SlotFree(reservation)
       /\ aborted
       /\ Finish("settled")
       /\ UNCHANGED reservation
    \/ /\ ~SlotFree(reservation)
       /\ Finish("refused")
       /\ UNCHANGED reservation

\* The while condition of drainRuntimeCommandQueue.
DrainNext ==
    /\ pc = "top"
    /\ Dispatch(cmd, queue, lease, reservation)
    /\ UNCHANGED <<commandVars, promo, activeTurn, absorbVars, history, branchVars>>

\* persistBackgroundTaskNotificationBatch or persistSubagentMessageCommand,
\* after its await of the context, then executeTurnCommand.
PersistAndStart ==
    /\ pc = "persist"
    /\ history' = history \cup running
    /\ \E c \in running : IsFirst(c, running) /\ StartTurn(c, "start")
    /\ UNCHANGED <<commonVars, activeTurn>>

\* ... which may throw before or after the text is in the conversation.
PersistFails ==
    /\ pc = "persist"
    /\ history' \in {history, history \cup running}
    /\ Finish("settled")
    /\ UNCHANGED <<commonVars, turnVars>>

\* runControlOnlyTurnCommand records a user turn and runs no model.
ControlTurn ==
    /\ pc = "control"
    /\ \/ history' = history \cup running
       \/ history' = history    \* it threw: logged, not retried
    /\ Finish("settled")
    /\ UNCHANGED <<commonVars, turnVars>>

\* executeTargetContinuationCommand after its awaits: no turn is due ...
TargetSettled ==
    /\ pc = "verify"
    /\ Finish("settled")
    /\ UNCHANGED <<commonVars, turnVars, history>>

\* ... or it executes a continuation turn.
TargetContinues ==
    /\ pc = "verify"
    /\ \E c \in running : IsFirst(c, running) /\ StartTurn(c, "restart")
    /\ UNCHANGED <<commonVars, activeTurn, history>>

\* beginActiveTurn, by the turn itself ("turn") or by the manual compact or
\* rewind that a user prompt turns out to be ("maintenance").
BeginTurn(phase) ==
    /\ \/ phase = "turn" /\ pc \in {"start", "restart"}
       \/ phase = "maintenance" /\ pc = "start"
          /\ \A c \in running : cmd[c].mode = "prompt"
    /\ activeTurn = NoCommand
    /\ reservation \in running \cup {NoCommand}
    /\ \E c \in running : IsFirst(c, running) /\ activeTurn' = c
    /\ reservation' = NoCommand
    /\ pc' = phase
    /\ UNCHANGED <<commonVars, outcome, cancelPending, running, aborted, history>>

\* Mutant: only an active turn is cleaned up.
TurnOverKeepsReservation == activeTurn' = NoCommand /\ UNCHANGED reservation

\* The finally of executeTurnCommand.
TurnOver ==
    /\ activeTurn' = NoCommand
    /\ reservation' = IF reservation \in running THEN NoCommand ELSE reservation

\* The turn throws: before it is active (an abort check, a hook, the model)
\* or while it is.  Every mode settles and the drain loop goes on.
TurnFails ==
    /\ pc \in {"start", "restart", "turn", "maintenance"}
    /\ TurnOver
    /\ Finish("settled")
    /\ UNCHANGED <<commonVars, history>>

\* The turn completes.  A prompt may ask for the target loop afterwards
\* (continueActiveTargetAfterTurn); a notification always does, and a
\* target-continuation-loop is in it.
TurnCompletes ==
    /\ pc \in {"turn", "maintenance"}
    /\ TurnOver
    /\ \/ /\ \E c \in running : cmd[c].mode \in Notification \cup {"prompt", "loop"}
          /\ pc' = "post"
          /\ UNCHANGED <<outcome, cancelPending, running, aborted>>
       \/ /\ \A c \in running : cmd[c].mode \in {"prompt", "target", "subagent"}
          /\ Finish("settled")
    /\ UNCHANGED <<commonVars, history>>

\* runActiveTargetContinuationLoop between turns: an aborted execution stops
\* and so does one with commands waiting.
LoopYields ==
    /\ pc = "post"
    /\ aborted \/ queue # {}
    /\ Finish("settled")
    /\ UNCHANGED <<commonVars, turnVars, history>>

\* Mutant: the loop does not look at the queue.
LoopContinuesRegardless ==
    /\ pc = "post"
    /\ ~aborted
    /\ pc' = "verify"
    /\ UNCHANGED <<commonVars, outcome, cancelPending, running, aborted,
                   turnVars, history>>

LoopContinues ==
    /\ pc = "post"
    /\ ~aborted
    /\ queue = {}
    /\ pc' = "verify"
    /\ UNCHANGED <<commonVars, outcome, cancelPending, running, aborted,
                   turnVars, history>>

\* An inline /rewind plans and commits within its turn.
RewindInTurn ==
    /\ pc = "maintenance"
    /\ branchGeneration < MaxGeneration
    /\ branchGeneration' = branchGeneration + 1
    /\ UNCHANGED <<commandVars, outcome, queue, cancelPending, lease, promo,
                   drainVars, turnVars, absorbVars, history, rewindPlan, sealed>>

-----------------------------------------------------------------------------
(* drainPendingRuntimeCommandsForActiveLoop: between two model steps the    *)
(* active turn takes notifications and subagent messages out of the queue.  *)

Absorbable(c) == cmd[c].mode \in Notification \cup {"subagent"}

\* Mutant: the loop skips control turns and goes on.
ReachableBeyondControl(S) == S

\* The commands of the snapshot the loop reaches: it stops at a control turn.
Reachable(S) ==
    {c \in S : \A d \in S : cmd[d].mode = "control" => c < d}

\* Mutant: the commands are read from the snapshot and not removed.
AbsorbInPlace(S) ==
    LET wanted == Eligible(cmd, S)
    IN  \/ /\ wanted = {}
           /\ outcome' = Settle(S, "dropped")
           /\ snapshot' = {}
           /\ absorbing' = NoCommand
           /\ pc' = "turn"
           /\ UNCHANGED queue
        \/ \E c \in wanted :
              LET passed == {d \in S : d <= c}
              IN  /\ IsFirst(c, wanted)
                  /\ outcome' = Settle(passed \ {c}, "dropped")
                  /\ snapshot' = S \ passed
                  /\ absorbing' = c
                  /\ pc' = "absorb"
                  /\ UNCHANGED queue

\* One stretch of the loop over S: remove commands up to the first one that
\* is still wanted, and await its persist; or reach the end.
AbsorbFrom(S) ==
    LET wanted == Eligible(cmd, S)
    IN  \/ /\ wanted = {}
           /\ queue' = queue \ S
           /\ outcome' = Settle(S, "dropped")
           /\ snapshot' = {}
           /\ absorbing' = NoCommand
           /\ pc' = "turn"
        \/ \E c \in wanted :
              LET passed == {d \in S : d <= c}
              IN  /\ IsFirst(c, wanted)
                  /\ queue' = queue \ passed
                  /\ outcome' = Settle(passed \ {c}, "dropped")
                  /\ snapshot' = S \ passed
                  /\ absorbing' = c
                  /\ pc' = "absorb"

BeginAbsorb ==
    /\ pc = "turn"
    /\ ~aborted
    /\ \E c \in Reachable(queue) : Absorbable(c)
    /\ AbsorbFrom({c \in Reachable(queue) : Absorbable(c)})
    /\ UNCHANGED <<commandVars, cancelPending, lease, promo, running, aborted,
                   turnVars, history, branchVars>>

\* The text enters the conversation, then the persist completes.
AbsorbPersists ==
    /\ pc = "absorb"
    /\ absorbing # NoCommand
    /\ history' = history \cup {absorbing}
    /\ outcome' = Settle({absorbing}, "settled")
    /\ absorbing' = NoCommand
    /\ UNCHANGED <<commandVars, queue, cancelPending, lease, promo, drainVars,
                   turnVars, snapshot, branchVars>>

AbsorbNext ==
    /\ pc = "absorb"
    /\ absorbing = NoCommand
    /\ AbsorbFrom(snapshot)
    /\ UNCHANGED <<commandVars, cancelPending, lease, promo, running, aborted,
                   turnVars, history, branchVars>>

\* The persist throws, before or after the text is in the conversation: the
\* turn fails, and the command is not queued again.
AbsorbFails ==
    /\ pc = "absorb"
    /\ absorbing # NoCommand
    /\ history' \in {history, history \cup {absorbing}}
    /\ TurnOver
    /\ outcome' = Settle(running \cup {absorbing}, "settled")
    /\ cancelPending' = cancelPending \ running
    /\ running' = {}
    /\ aborted' = FALSE
    /\ pc' = "top"
    /\ snapshot' = {}
    /\ absorbing' = NoCommand
    /\ UNCHANGED <<commandVars, queue, lease, promo, branchVars>>

-----------------------------------------------------------------------------
Callers ==
    \/ \E m \in Mode : Submit(m) \/ Notify(m)
    \/ AdmitPrompt \/ AdmitAborted
    \/ \E c \in Command : Abort(c)
    \/ Stop \/ Seal \/ RewindBegin \/ RewindCommit

Promotion(h) ==
    \/ \E idleOnly \in BOOLEAN : AcquireLease(h, idleOnly)
    \/ AdmitPromoted(h) \/ RejectPromoted(h)
    \/ \E m \in Mode : SubmitPromoted(h, m)
    \/ ReleaseLease(h)

DrainStep ==
    \/ DrainNext
    \/ PersistAndStart \/ PersistFails \/ ControlTurn
    \/ TargetSettled \/ TargetContinues
    \/ \E phase \in {"turn", "maintenance"} : BeginTurn(phase)
    \/ TurnFails \/ TurnCompletes
    \/ LoopYields \/ LoopContinues
    \/ RewindInTurn
    \/ BeginAbsorb \/ AbsorbPersists \/ AbsorbNext \/ AbsorbFails

Next == Callers \/ (\E h \in Holder : Promotion(h)) \/ DrainStep

\* Every await of the drain loop settles: the model, the store and the hooks
\* return or throw.  Nobody has to give a lease back.
Fairness == WF_vars(DrainStep)

Spec == Init /\ [][Next]_vars /\ Fairness

-----------------------------------------------------------------------------
(* Properties.                                                              *)

TypeOK ==
    /\ nextId \in 1 .. MaxCommands + 1
    /\ cmd \in [Command -> CommandRecord]
    /\ signalled \subseteq Command
    /\ outcome \in [Command -> Outcome]
    /\ queue \subseteq Command
    /\ cancelPending \subseteq Command
    /\ lease \in Holder \cup {NoHolder}
    /\ promo \in [Holder -> {"none", "leased", "admitted", "rejected", "released"}]
    /\ pc \in Phase
    /\ running \subseteq Command
    /\ aborted \in BOOLEAN
    /\ reservation \in Command \cup {NoCommand}
    /\ activeTurn \in Command \cup {NoCommand}
    /\ snapshot \subseteq Command
    /\ absorbing \in Command \cup {NoCommand}
    /\ history \subseteq Command
    /\ branchGeneration \in Generation
    /\ rewindPlan \in Generation
    /\ sealed \in BOOLEAN

\* No lost wakeup: a command that may run (there is no lease, or it is the one
\* promoted) is never left in the queue with the drain loop stopped.
NoStrandedCommand ==
    \A c \in queue : lease = NoHolder \/ cmd[c].input = lease => DrainActive

\* Nothing is lost or handled twice: a command that has not settled is in
\* exactly one of the queue, the foreground execution and the absorption of
\* the active turn, and what entered the conversation is not queued any more.
EveryCommandInOnePlace ==
    /\ \A c \in Command :
          (c < nextId /\ outcome[c] = "none") <=>
              c \in queue \cup running \cup ({absorbing} \ {NoCommand})
    /\ queue \cap running = {}
    /\ absorbing \notin queue \cup running
    /\ history \cap queue = {}

\* The reservation protocol is sound: no command ever fails because
\* reserveTurnStart found another turn ("turn in progress").
NoTurnCollision == \A c \in Command : outcome[c] # "refused"

\* A start reservation or an active turn is always that of the foreground
\* execution: Stop reaches it, and none is leaked.
TurnBelongsToExecution ==
    /\ {reservation, activeTurn} \subseteq running \cup {NoCommand}
    /\ reservation = NoCommand \/ activeTurn = NoCommand

\* A cancel mark exists only for a command in execution, so it can neither
\* leak nor cancel a later command.
CancelMarksAreLive == cancelPending \subseteq running

\* Nothing outlives the foreground execution it belongs to: no start reservation
\* or active turn, which would block every turn to come and which Stop would not
\* reach, and no cancel mark.
ExecutionLeavesNothing == TurnBelongsToExecution /\ CancelMarksAreLive

\* Where the drain loop is suspended decides whether there is an execution,
\* whether its turn is reserved or active, and whether it absorbs messages.
ExecutionShape ==
    /\ running = {} <=> pc \in {"idle", "top"}
    /\ reservation # NoCommand <=> pc \in {"start", "restart"}
    /\ activeTurn # NoCommand <=> pc \in {"turn", "maintenance", "absorb"}
    /\ snapshot \subseteq queue
    /\ pc # "absorb" => snapshot = {} /\ absorbing = NoCommand
    /\ \A c \in snapshot \cup ({absorbing} \ {NoCommand}) : Absorbable(c)

\* Nothing refers to a command before it is created, and a promoted command
\* exists only once its promotion has been admitted.
OnlyIssuedCommands ==
    /\ \A c \in signalled \cup history : c < nextId
    /\ \A c \in Command : c >= nextId => outcome[c] = "none" /\ cmd[c].input = NoHolder
    /\ \A c \in Command : cmd[c].input # NoHolder =>
          promo[cmd[c].input] \in {"admitted", "released"}

\* The inductive invariant: every invariant above, and the facts about the
\* loop's suspension points that each of its stretches relies on.
IInv ==
    /\ TypeOK
    /\ ExecutionShape
    /\ OnlyIssuedCommands
    /\ EveryCommandInOnePlace
    /\ NoStrandedCommand
    /\ TurnBelongsToExecution
    /\ NoTurnCollision
    /\ CancelMarksAreLive

\* A command whose caller cancelled it while it was queued is never executed.
CancelledNeverStarts ==
    [][\A c \in running' \ running : c \notin signalled]_vars

\* A command of an abandoned branch, or a suppressed notification, never
\* starts an execution and is never taken by the active turn.
UnwantedNeverStarts ==
    [][\A c \in (running' \cup {absorbing'}) \ (running \cup {absorbing, NoCommand}) :
          ~Stale(cmd', c) /\ ~Suppressed(cmd', c)]_vars

\* While a promotion holds the lease nothing but its command starts, unless
\* this very step is the release.
LeaseProtectsPromotion ==
    [][\A c \in running' \ running :
          \/ lease = NoHolder
          \/ promo'[lease] = "released"
          \/ cmd'[c].input = lease]_vars

\* The active turn never absorbs a message that was queued after a control
\* turn which has not run yet.
AbsorptionWaitsForControlTurn ==
    [][\A c \in history' \ history, k \in queue :
          pc = "absorb" /\ cmd[k].mode = "control" => c < k]_vars

\* Stop ends the whole execution: once aborted it reserves no further turn.
StoppedStartsNoTurn ==
    [][aborted /\ aborted' => reservation' \in {reservation, NoCommand}]_vars

\* Is the lease held for another command?
HeldBack(c) == lease \notin {NoHolder, cmd[c].input}

\* No starvation: whatever target loop is running and whatever promotions come
\* and go, a command stays in the queue for ever only behind a lease that is
\* from some time on kept for ever, for another command.  That holders give it
\* back is not assumed: the release may be left to a goal continuation that
\* does not start (handlers/queue.ts:251, goal-compact.ts:446).
QueuedCommandLeaves ==
    \A c \in Command : <>[](c \in queue) => <>[]HeldBack(c)

\* The runtime is a server with one seat for turns (module TurnServer).
Server == INSTANCE TurnServer WITH
    waiting  <- queue,
    serving  <- running \cup ({absorbing} \ {NoCommand}),
    left     <- {c \in Command : outcome[c] # "none"},
    message  <- {c \in Command : c < nextId /\ cmd[c].mode \in Notification \cup {"subagent"}},
    promoted <- {c \in Command : c < nextId /\ cmd[c].input # NoHolder}

ServesOneAtATime == Server!Spec

(* What comments in the source say and the code does not do.                *)

\* runtime-command-generation.ts: the generation is checked again before a
\* command is persisted and injected.
StaleNeverRecorded ==
    [][\A c \in history' \ history : ~Stale(cmd, c)]_vars

\* dynamic-workflow-run-settings-turn.ts: the settings turn comes before any
\* notification of the new run.
ControlTurnComesFirst ==
    [][\A c \in history' \ history, k \in queue :
          cmd[k].mode = "control" /\ ~Stale(cmd, k) => c < k]_vars
=============================================================================
