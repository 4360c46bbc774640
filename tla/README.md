# CCBuddy: verification project

TLA+ specifications of CCBuddy's agent core, the TLC configurations that check
them on small instances, and TLAPS proofs of their main properties for every
value of the constants. Paths below are relative to the repository; `cli/`
stands for `apps/ccbuddy-cli/packages/` and `core/` for
`apps/ccbuddy-cli/packages/core/src/`.

## 1. The system

CCBuddy is a coding agent. A CLI process hosts one `AgentRuntime` per session
and serves it to desktop, web, bot and terminal clients over a command protocol
("v4"); dynamic workflows run scripts that ask many agents; services around the
CLI supervise processes and share files between them.

| Component | State it keeps | Operations | Talks to |
|---|---|---|---|
| Runtime command queue (`core/runtime/command-queue.ts`, `methods/runtime-command-*.ts`) | queued commands, cancel marks, drain flag, foreground execution with its abort controller, promotion lease | enqueue, drain, batch, cancel, stop, acquire and release a lease, absorb into the active turn | everything that wants a turn; the turn execution |
| Prompt admission and the active turn (`methods/prompt-admission.ts`, `steering.ts`) | start reservation, active turn, pending inputs and their reservations | admit, steer, defer, reserve, promote, remove | queue, session store, v4 handlers |
| Turn execution (`methods/turn.ts`, `turn-loop.ts`, `compact.ts`, `rewind.ts`) | message history, turn machine, branch generation | execute a turn, compact, rewind | model, tools, hooks, store |
| Goals (`methods/target*.ts`) | the session's goal, its status and accounting | set, pause, verify, continue, continuation loop | queue, turn execution |
| Background work (`methods/background-notifications.ts`, `subagent-messages.ts`, `control-only-turn.ts`, `runtime-task/`, `subagent/`) | task registry, seal of a child's notifications | enqueue a notification, a subagent reply, a settings turn; persist it | queue, store |
| Queue promotion (`cli/bootstrap/.../handlers/queue.ts`, `session-flow.ts`, `goal-compact.ts`) | item reservations, bootstrap abort controller | send now, start now, auto-drain: lease, stop, wait, admit, release | queue, pending inputs |
| Command inbox (`cli/bootstrap/.../command-inbox.ts`) | in-flight, live and settled commands, FIFO gates per key and per session | handle, settle, query, pin, release, clear | v4 gateway, session store |
| v4 gateway and projections | event-sourced projections, revisions, epochs | execute, ingest, hydrate, deactivate | inbox, handlers, publishers |
| Conversation delivery (`cli/bootstrap/.../conversation-topic-publisher.ts`, `v4-gateway.ts`; `packages/ui/src/v4`, `packages/shared/src/ccbuddy-protocol-v4`) | the publisher's log, floor and subscriptions, flush timers, reservations; the client's barrier, assembler, decoder gate, projection and recovery flight | subscribe, flush, pause, resync, rehydrate; apply, recover, retry, replace the transport | gateway, request channel, panes |
| Dynamic workflow engine (`cli/dynamic-workflow/src/engine`) | journal, actors, live asks, import cache, settle order, concurrency limit | admit, dispatch, settle, resume, abort, retune | drivers (agent sessions), journal store |
| Dynamic workflow compiler | syntax trees, plans | analyse, lower | engine |
| File lock (`packages/shared/src/node/atomicFileLock.ts`) | lock directory, owner files | acquire, reclaim, release | other processes through the file system |
| Persistent protocol (`packages/rpc`) | unacknowledged messages, ids, saturation | send, receive, acknowledge, replace the socket, abandon | sockets, RPC channels |
| Permission broker (`core/permission/broker.ts`) | pending requests | request, resolve, reject, time out, abort | tools, clients |
| Tools, hooks, MCP, memory, providers, services, desktop, web, TUI | mostly external effects and rendering | | |

**What is hard.** The runtime is single-threaded but everything is `async`: a
handler runs without interruption only to its next `await`, and user input,
Stop, background completions, rewinds and promotions arrive in between. The
dangers are those of `PROJECT.json` "hazards": a wakeup lost when the drain
loop ends, two turns at once, a turn that starts after Stop, work executed for
an abandoned branch, a promoted input overtaken, a reservation or mark that
leaks, starvation behind a goal that continues for ever; and outside the
runtime, retries, replays after a crash or a reconnect, and locks of dead
processes.

**What makes each part correct.**

- *Queue*: nothing lost, nothing twice, nobody stranded, nobody starved; one
  turn at a time, in order of arrival apart from batching and promotion.
- *Turn*: a reservation or active turn always belongs to the execution that
  Stop reaches; no execution fails because of another turn.
- *Cancellation*: cancelled in the queue means never executed; a mark for a
  running command ends with it.
- *Branches*: a message of an abandoned branch is not handled.
- *Promotion*: under the lease only the promoted command starts, and only a lease
  that is never given back keeps others waiting.
- *Inbox*: a command identity is executed at most once and every retry learns
  the same outcome; no gate is held for ever.
- *Conversation delivery*: what a client shows is what was published, it never
  goes back, it catches up, and every recovery ends.
- *Workflow engine*: admission order per actor, the concurrency bound, and a
  replay that follows its journal to the end.
- *File lock*: mutual exclusion, and a lock of a dead process is reclaimed.
- *Persistent protocol*: no message lost, none delivered twice.

## 2. Plan

In order of importance. Items 1 to 6 are done and described below.

| # | Module | Models | Abstract specification | Runs and bounds | Theorems |
|---|---|---|---|---|---|
| 1 | `RuntimeCommandQueue` | queue, drain, admission, execution, lease, absorption | `TurnServer` | safety and progress with 3 commands, 1 rewind, 1 promotion; two disagreements with comments | all invariants and action properties, refinement |
| 2 | `TurnServer` | (abstract) one seat for turns | | checked as property of 1 | |
| 3 | `FileLock` | `atomicFileLock.ts`, crashes and stalls of processes, failing removals | | 3 calls of 2 processes, 1 crash, 1 file left at a time, inodes used again; one disagreement | mutual exclusion, and its other safety properties |
| 4 | `CommandInbox` | gates, index of durable facts, pins, LRU, retries, queries, eviction, unloading, restart | counters of effects | 3 calls, 3 commands, table of 1, 1 restart; one disagreement | one execution, effects once, true answers, order of live inputs |
| 5 | `AskScheduler` | admission, cap, sessions, journal, replay gate, crash, stop and resume | the script's own order | 2 actors, 2 scripts, 3 lives; one disagreement | order per actor, answers stand, no idle actor, nothing is journalled after the end, replay |
| 6 | `TopicDelivery` | publisher, request channel, barrier, assembler, decoder gate, recovery flights | the published rows | 3 events, buffer and log of 1, 2 troubles | types, what is shown is what was published, it never goes back, it catches up |
| 7 | `QueuePromotion` | `sendQueuedNow` with its decisions, over module 1's lease | | 2 items, plan mode and goal | the lease is released |
| 8 | `PendingInputs` | steering, deferred inputs, reservations, removal by index | | 3 inputs, 2 clients | |
| 9 | `PersistentProtocol` | ids, acknowledgements, replay on a new socket | FIFO channel | 3 messages, 1 disconnect | unacknowledged messages form a suffix |
| 10 | `ConcurrencyController`, `PermissionBroker` | the limit's epochs; settlement races | | small caps; 2 requests | bounds of the cap |
| 11 | `TokenRefresh` | `withFileLock`'s queue in a process, `oauth-refresh.ts` under the lock | `FileLock`'s mutual exclusion | 2 processes, 2 callers each | one refresh per generation |

The modules still to come are to be written so that one can be proved about as
well as checked: constants with named assumptions, one action per operation or
per stretch between awaits, invariants as conjunctions, no recursive operators.
Module 7 composes with module 1 through the lease: that no lease is kept for
ever, which is the condition of `QueuedCommandLeaves`, is what it is to examine.
4 and 8 feed module 1 from outside. The protocol of
module 9 is used by `RemoteAgentConnection` only, which nothing under `packages/`
or `apps/` instantiates, so it comes late.

## 3. Modules

### `RuntimeCommandQueue`

The state of one `AgentRuntime` that decides who gets the next turn, and the
actions of everybody who touches it. One action is one stretch of JavaScript
from an `await` to the next. That makes some actions larger than a function:
`enqueueRuntimeCommand` calls `void this.drainRuntimeCommandQueue()`, which runs
synchronously into `dequeueNextRunnableBatch`, `beginForegroundExecution` and
the first part of `executeTurnCommand` (its `reserveTurnStart` included). The
operators `KickDrain` and `Dispatch` are that stretch and are part of every
enqueue and of the release of the lease.

| Variable | In the code |
|---|---|
| `nextId`, `cmd` | `createRuntimeCommandId` and the command objects: mode, branch generation, input id |
| `queue` | the array in `createRuntimeCommandQueue`; all callers use priority `"next"`, so the order is that of the ids and the array is a set |
| `cancelPending`, `signalled` | `cancelPendingCommandIds`; the callers' abort signals |
| `pc` | where `drainRuntimeCommandQueue` is suspended; `"idle"` is `runtimeCommandDrainActive === false` |
| `running`, `aborted` | the commands of `activeForegroundExecution` and its controller's signal |
| `reservation`, `activeTurn` | `activeTurnStartReservation`, `activeTurn` |
| `lease`, `promo` | `foregroundPromotionLease`; how far each promotion is |
| `snapshot`, `absorbing` | the local variables of `drainPendingRuntimeCommandsForActiveLoop` |
| `history`, `outcome` | commands recorded in the conversation; how each command settled |
| `branchGeneration`, `rewindPlan`, `sealed` | the fields of the same names, and the plan that `rewindConversationToMessage` holds across awaits |

The phases of `pc`: `top` (the while condition), `persist` (a notification or
subagent message awaits its persistence), `control` (a control-only turn),
`verify` (a target continuation decides whether a turn is due), `start` and
`restart` (a turn is reserved and prepares), `turn` and `maintenance` (an active
turn, or a compact or rewind), `absorb` (the turn awaits the persistence of a
message it took), `post` (between two turns of a target loop). The model, tools
and hooks act inside `turn` and can complete or throw at any time.

Callers: `Submit`, `Notify`, `AdmitPrompt`, `AdmitAborted`, `Abort`, `Stop`,
`Seal`, `RewindBegin`, `RewindCommit`, and a promotion's `AcquireLease`,
`AdmitPromoted`, `RejectPromoted`, `SubmitPromoted`, `ReleaseLease`. A rewind
from the edit and retry commands plans when it finds the session idle and
commits some awaits later without holding anything; an inline `/rewind` is in
its own turn (`RewindInTurn`).

A promotion's admission or rejection does not tell whose lease there is, as
`admitPrompt` does not: nobody else asks with `requireIdle` while one is held. It
happens between two stretches of the drain loop, never at `top`, where the loop
is about to run in the same microtask. The awaits of
`persistBackgroundTaskNotificationBatch` (context, recording, store, event) are
one step that records the text, or one that fails before or after recording it.
A turn that Stop has met reserves its slot and gives it back some microtasks later
(`turn.ts:137`, `:198`); here it does not reserve it.

Abstractions: command contents, telemetry, the ledger of session inputs and
residency are left out; `"bash"` is a notification that a sealed child runtime
suppresses, `"note"` any other; admission to a busy runtime (steer or defer)
does not touch this state and is not an action. `preserveQueueAutoDrainOnCancel`
only concerns the pending inputs.

### `TurnServer`

What the runtime promises, in terms of who waits, who is served and who has
left: at most one arrival per step, nobody seated beside somebody who is
served except messages that join, seating in order of arrival except for
messages and promoted commands, and nobody comes back. `RuntimeCommandQueue`
instantiates it (`Server`), mapping `waiting` to the queue, `serving` to the
foreground execution and the message being absorbed, `left` to what settled.

### `FileLock`

The lock that the CLI, the desktop hosts and the services take before they
write a file they share: the directory `<file>.lock` with one owner file in it.
It shares no state with the runtime's modules. A `Call` is one call of
`acquireFileLock` with the release it returns; it has one token and therefore
one owner file name in all its attempts. `HostOf` says which process it belongs
to, since the owner file carries a process id and a crash ends all the calls of
a process.

| Variable | In the code |
|---|---|
| `lock` | what `lockFile` leads to: nothing, a directory with an inode number, a lock file of an earlier version |
| `file` | the owner file of each call in that directory: none, opened and still empty, written |
| `lockAge`, `fileOld` | whether the directory's mtime, or that of an owner file without a process id, is `ownerlessGraceMs` past |
| `stuck` | history: the calls that failed to remove their owner file, while it is there |
| `dead` | processes for which `isProcessAlive` is false |
| `pc` | the next file system call of each call |
| `ino` | `createdLockStat.ino` |
| `seenAge`, `seen`, `todo` | locals of `removeAbandonedLock`: `lockStat`, the owners yet to remove, yet to examine |
| `next` | whether the `catch` block goes on to another attempt or throws |

One action is one call of `node:fs/promises`; `writeFile` is two, since it opens
the file and then writes it. `mkdir`, `rm` and `rmdir` are by path, so anybody
may remove a directory that is empty at that moment, and a call can go on in a
directory that is not the one it created. The next directory may have the same
inode number (`Ino` is small), so the comparison of inodes is not idealised.
`readFile` and the `stat` behind it in `isOwnerFileReclaimable` are one step: an
owner file that is written in between is too young at the `stat`.

The `rm` and `rmdir` of a release and of a failed attempt swallow their errors:
either may fail for any reason, and a file that is left is then one of a process
that may live on. What others do with it depends on what it says: an empty one is
reclaimed once it is old, a complete one when its process has ended.

Left out: the token's text, the observer for invalid timestamps, clock skew, and
failing calls of a reclaimer (it waits as if the lock were held; that some of
several removals, which run together, may have been done by then is left out). The
process behind a lock file of an earlier version no longer runs.

### `CommandInbox`

The admission of the commands of one session. A `Call` is one call of `handle`,
or of `query` for one key; a client that has lost a reply calls again with the
same command. One action is what runs between two awaits, so every look-up in a
durable source is a step of its own and every table is left for the next while
others act.

| Variable | In the code |
|---|---|
| `pc`, `reply`, `entry`, `source`, `view`, `own` | where each call is, with the locals of `handle`, `lookupExact` and `lookup` |
| `keyGate`, `sessionGate` | the two `AsyncGateRegistry`s: the calls that hold or await each gate |
| `inFlight`, `final` | `inFlight` and the `final` promise of its entries |
| `live`, `settled`, `seqNo`, `seqOf` | live inputs, the LRU of settled acks, `admissionSeq` and the numbers it gave |
| `index` | the shared `PersistentCommandIndex` entry: absent, loading, loaded |
| `session`, `ledger`, `markers` | the loaded runtime; the rows of `session_inputs`; timeline facts |
| `held`, `effects` | what the runtime does with an input, and how often it took effect |

Left out: the bucket of commands without a session (`createSession`), replies to
malformed envelopes, the settlement of imported shared contexts, telemetry. The
load of the facts is one step although it reads two tables; when it fails, nothing
has been swept. An execution fails before it has handed its input over or not at
all; goal commands, whose handler may throw after their continuation has begun
(`goal-compact.ts:464`), are not among the commands. The gateway would cancel and
unpin an input whose handler finds nothing to do (`v4-gateway.ts:2542`), but none of
the handlers of inputs says so (`queue.ts:90`, `model-config.ts:104` and
`session-flow.ts:300` are of other commands). The second look at
what is in flight (`command-inbox.ts:144`) cannot find anything while the key
gate is held, and the pin that a queued steer sets again is there already; both
are no-ops in the model. A compaction that starts at once leaves its pin for as
long as the process lives, so its session is never unloaded: an observation, and
`EndCompact` does so too.

### `AskScheduler`

One run of a dynamic workflow through its lives: the script's asks, the
scheduler that admits and dispatches them to sessions, the journal, and the gate
that gives a resumed script its recorded answers in their order. The script is
deterministic and runs in a child process behind ordered pipes: branches that
start together, each making its asks one after the other. The caller of an ask
stands for the hash of its input, so two asks never look alike by accident.

| Variable | In the code |
|---|---|
| `run`, `rows`, `events` | the run's status, the rows of its asks, the order of their first `node-settled` events |
| `recorded`, `nextAdmitSeq`, `pendingRecorded`, `pendingLive` | the admission state of each actor |
| `liveQueue`, `current`, `session`, `liveNodes`, `activeAsks`, `cap` | dispatch: queue, ask at work and session of each actor, live asks, their count and its limit |
| `order`, `cursor`, `parked` | `ReplaySettleOrder` |
| `ordinals`, `calls`, `answers`, `read` | the ordinals of each site; how far the script and its pipe are |
| `heard`, `overtaken` | history: the longest answer sequence of any life; whether an ask settled while recorded answers were unread |

Initial calls precede continuations, a failed ask ends its branch, microtasks
belong to their macrotask. `ensureSession` keeps a rejected promise
(`"broken"`). A crash is the end of the process; the reconciliation of orphan
runs is part of `Resume`. `Pump` over all actors after an admission is the
code's pump of one actor and then of all, since no actor was idle before
(`NoIdleActor`). Left out: world reads, reports, artifacts and holes that share
ordinals and gate, the imported cache of amended runs, repairs and nudges inside
a turn, statistics, a session that opens after the end, and a crash between the
row and the event of one settlement (`scheduler.ts:499`), listed as a hazard.

### `TopicDelivery`

One conversation and one client: the publisher with its flush timer and its back
pressure, the channel, and the client's store behind barrier, assembler and
decoder. It is about what a client shows, whatever the network loses, and not about
what an error reply makes the interface do. An event adds its own row or produces
no delta; rows are kept in the
order they were added in, so loss, duplication and misplacement show.

| Variable | In the code |
|---|---|
| `pub` | `projection`, `log`, `floorSeq`; `num` counts rehydrations |
| `srv` | the `Subscription`: `sentSeq`, `buffer`, `resyncRequired`, `nextLogicalFrameOrdinal`; `held` is an `inFlight` that a reply has reserved |
| `timer`, `paused` | the `FlushState`'s timer; `pausedConnections` |
| `outbox` | `postResponseOutbox` and its reply |
| `down`, `arrived` | what travels to the client; replies whose promise continuation has not run |
| `cl` | `generation`, `subscriptionId`, `snapshot`, `subscriptionHasAppliedBase`, `awaitingInitial`, `recovery`; pending and staged wires of the barrier; the decoder's gate, assembly and tombstone; requests on their way |
| `lost`, `mixed` | history: frames of which the last wire was lost; whether numbers of one numbering may have been taken for those of another |

Requests are handled one after the other (`transport.ts:234`), a reply is
written before its wires, and the reservation is committed behind them. An
online frame is reserved, written and committed in one step, since nothing
awaits in between. The continuation of a reply is an action of its own: it may
run after wires that arrived later, which is what the barrier and the flags of
the recovery flight are for. Rehydration is not ordered with requests
(`waitForPermissionGrantCommit` runs it from elsewhere) and its own flush may
come as late as the timer's.

Troubles share one budget: a lost, garbled or unreadable wire, a timer that runs
out early, saturation, a rehydration, a stale authority, a new transport. A timer
whose frame is no longer under way runs out for free, and the user's retry is free.

Left out: a restart of the runtime (a new epoch, always a snapshot), the rollback
of an encoding that fails, overflow of the barrier, byte limits (overflow is by
operations), wires without a delivery kind, the handshake that a request awaits
before it is sent (`agentConversationTransport.ts:204`, `:290`), error replies to a
resync other than that the subscription is not owned, and a subscribe that fails
(`conversationProjectionStore.ts:955`, `:493`), frames found unreadable before their
last wire, paging of older rows, optimistic
commands, the rehydration that falls back to single events (it keeps a log), and
the topics of the index and of the configuration, which have publishers of their
own.

Two observations. A client whose *whole* initial or last frame is lost waits for
the next event: nothing times out without an assembly or a recovery, and
`CaughtUp` excepts that case. And `rehydrate` numbers the projection anew under
the same `logEpoch`, while both ends compare numbers only. There are three ways
in which a client then takes numbers of one numbering for those of another, and
stays behind without noticing:

- It is not subscribed at the rehydration and comes back with a base at or above
  `floorSeq`, which turns away lower bases only: it is resumed onto rows of the
  old numbering (`Answer`).
- It is subscribed, and the snapshot of the new numbering is lost as a whole, as it
  can be when it is one wire: the next deltas begin where the client's old view
  ends, and `conversationProjectionStore.ts:716` compares only that (`Damage`).
- The flush that follows the rehydration runs before the wires of a reply that was
  made before it are written, and overtakes them (`FlushTimer`, `Overtaken`). What
  the reply brings is then settled already and dropped.

`CaughtUp` is stated up to the first of these (`mixed`). `ViewMatches` needs no such
condition, but says nothing of a view that goes on with an earlier numbering until
the next snapshot replaces it.

### `Selections`

Operators on finite sets and sequences that `AskScheduler` and `TopicDelivery` are written with: the
greatest number of a set, and the members of a sequence that are, or are not, in a
set, in their order. `SelectSeq` and `SortSeq` do the same, but the first is
recursive and the second opaque for the provers. `MCAskScheduler` compares `Among`
and `Without` with `SelectSeq` on all sequences of up to four members of three
(`SelectionsAssumption`); `SelectionsProofs` proves what they return for any.

### `RuntimeCommandQueueProofs`, `FileLockProofs`, `CommandInboxProofs`, `AskSchedulerProofs`, `TopicDeliverySteps`, `TopicDeliveryProofs`, `TopicDeliveryCatchUp`, `SelectionsProofs`

The proofs (section 6).

## 4. Runs

| Run | Instance | Shows |
|---|---|---|
| `QueueSafety` | 3 commands of 6 kinds, 1 rewind, 1 promotion; about 1.4 million states | the safety properties below |
| `QueueProgress` | 3 commands (prompt, target loop, notification, Bash notification), child runtime, 1 promotion; about 180 thousand states | refinement of `TurnServer`; a queued command leaves the queue unless a lease is kept for ever |
| `QueueControlTurn`, `QueueStaleBranch` | 2 or 3 commands | the code against its comments (section 5) |
| `FileLockSafety` | 3 calls of 2 processes, 1 crash, 2 inode numbers, 1 file left at a time, prompt writers; about 1.1 million states | safety of the lock |
| `FileLockRecovery` | the same with 1 inode number; about 430 thousand states | what is left behind is reclaimed |
| `FileLockStalledWriter` | 2 calls of 2 processes, no crash, writers that may stall | the lock against its comments (section 5) |
| `CommandInbox` | 3 calls over 3 commands (a text, a compaction, another), table of 1, 1 restart; about 520 thousand states | effects at most once, and replies that agree with them |
| `CommandInboxStaleIndex` | the same without a restart | the inbox against its comments (section 5) |
| `AskScheduler` | 2 scripts over 2 actors, caps 1 and 2, 3 lives, a stop in the second; about 290 thousand states | replay, answers, order, and that a run ends |
| `AskScheduleLost` | the same with a stop in the first life | the replay against its comments (section 5) |
| `TopicDelivery` | 3 events, buffer and log of 1, snapshots of 2 wires, 2 troubles; about 470 thousand states | what a client shows, and that it catches up |

Deadlock is not checked where the system may stop: a runtime that has served its
commands, an inbox whose calls are answered, a run that has ended, a client that
has caught up when there are no more events. For the lock it is: `Ended` is the only step when every call has ended,
and there is no other state without one.

**Bounds.** `MaxCommands` bounds commands ever created, `MaxGeneration` the
rewinds. Three commands are one in execution (or in absorption) and two that
wait, which is what overtaking, batching, stopping at a control turn and a
promotion among others need; a fourth adds only longer queues. One rewind
distinguishes current from abandoned. One promotion at a time exists by
construction of the lease; the second holder only ever gets a conflict. Neither
bound is in the proofs. `MaxCrashes` bounds the processes that crash, `MaxStuck`
the owner files that failing removals have left at one moment: one is left to
everybody else, and a second beside it is in the way no more than the first.
`FileLockRecovery` has one inode number to stay small: a comparison that fails
sends a call back like any other error of its attempt, which the run has.

**Properties of `QueueSafety`.**

- `NoStrandedCommand`: no lost wakeup.
- `EveryCommandInOnePlace`: nothing lost, nothing handled twice.
- `NoTurnCollision`: no command fails with "turn in progress".
- `ExecutionLeavesNothing`: reservations, active turns and cancel marks never leak,
  and Stop reaches every turn.
- `CancelledNeverStarts`: cancellation is not late.
- `UnwantedNeverStarts`: stale and suppressed commands are dropped at the point
  of dequeueing and absorption.
- `LeaseProtectsPromotion`, `AbsorptionWaitsForControlTurn`,
  `StoppedStartsNoTurn`.

**Properties of `QueueProgress`.** `ServesOneAtATime`: the refinement.
`QueuedCommandLeaves`: a command that stays in the queue for ever does so behind a
lease that is kept for ever for another command; a target loop, promotions that
come and go, and what else is queued never hold it back for good.

**Properties of `FileLockSafety` and `FileLockRecovery`.**

- `MutualExclusion`, `HolderKeepsItsLock`: one holder, in the directory it
  created, whatever others remove by path.
- `ReclaimSparesTheLiving`: the owner file of a live process is removed by its
  own call only, unless it is empty and that call has failed to remove it.
- `EndedLeavesNoOwner`: whatever else fails in an attempt, it leaves an owner file
  only if the removal of that file has failed.
- `LoneCallGetsTheLock`, `OrphanIsReclaimed`: what a crash or a failed removal leaves
  behind is reclaimed by a call that goes on waiting, alone or among others. The
  exception, `LeftByTheLiving`, is what the code cannot recover from: a process that
  lives on has failed to remove a complete owner file, which names it as the owner.

`PromptWriters = TRUE` assumes that no live process takes longer than the grace
period (100 ms by default) from opening its owner file to writing it, or to
removing it after an error. `FileLockStalledWriter` shows what happens without
this. Three calls are one that withdraws, one whose directory it removes, and
one that creates the next; two of them in one process crash together and leave
two owner files, which is what `OrphanIsReclaimed` needs with a waiter.

**Properties of `CommandInbox`.**

- `OneExecutes`: the commands of a session run one after the other, each in the
  hands of the call that is in flight.
- `EffectsOnce`: an input takes effect at most once, whatever is retried, evicted,
  swept, restarted or failing in between.
- `UnknownIsUnknown`, `DuplicateIsTaken`: "unknown" is said of nothing that is in
  flight, live or done, and "duplicate" of nothing that failed.
- `PinnedWhileHeld`: eviction and unloading spare what the runtime holds.
- `LiveOrder`: a number is not given twice while its first holder lives.
- `NobodyStuck`: gates, finals and loads never wait for each other.

Three calls are a first attempt, its retry or query, and another command that
evicts it. A table of one makes every settlement an eviction. The scenarios fix
which call is for which command, as any other assignment renames one of these.

**Properties of `AskScheduler`.**

- `ReplayMatches`, `ScheduleReplayed`: a resumed script gets its recorded answers
  in their order and asks what the journal has. Both hold until an ask that is
  run again settles before the recorded answers have been read (`overtaken`), and
  TLC finds them violated after that: the gate holds recorded answers only.
- `AnswersKept`, `ActorOrderKept`, `QuietAfterEnd`, `NoIdleActor`: the journal
  keeps what the script was told, transcripts grow in order of admission, late
  reports change nothing, no slot stays idle.
- `RunEnds`: the run is not blocked for good by gate, cap, actor or session.

The two scripts are the two ways in which the order of answers matters: branches
that reach a shared site, and branches that reach the same actor. Three lives are
a first, one that is interrupted in its replay, and one that replays both.
Stops are in the second life there: a stop in the first with two resumptions is
what `AskScheduleLost` shows.

**Properties of `TopicDelivery`.**

- `ViewMatches`: the rows the client shows are those the publisher held after the
  event the client says it has seen, after any losses, recoveries and
  re-subscriptions.
- `NeverBackwards`: what is shown is a beginning of what is shown later.
- `CaughtUp`: when nothing is under way a live client has everything, in the
  publisher's numbering; this is where a flush whose timer was suppressed, a frame
  dropped beside a recovery and forgotten, or a recovery that ended too early, would
  show.
- `FlightCloses`: a recovery is answered, replaced or given up.

A buffer of one overflows with the second event, a log of one makes a base two
events old too old, two wires of a snapshot can be torn apart, and two troubles
are one that starts a recovery and one that hits it. Each of these situations is
reached: a gap remembered in a flight, an upgrade, staged wires, a resync that is
not owned, a failed recovery and its retry, an assembly that is superseded.

**Fairness.** In `QueueProgress`: `WF(DrainStep)`: when the drain loop is not idle
its next await settles. The model call, the store and the hooks return or throw
(requests have timeouts and the abort signal), and nothing else schedules the
loop. It does not say that a turn ends well, or that a goal is ever reached: a
target loop may choose to continue for ever, and it is the loop's look at the
queue that lets others pass. Nothing is assumed of the holders of leases. Most
release theirs in a `finally` they reach after a timeout or the settlement of what
they submitted, but `handlers/queue.ts:251` hands the release to a goal continuation
that decides again whether to start (`goal-compact.ts:446`). `QueuedCommandLeaves`
therefore excepts a lease that is kept for ever; module 7 of the plan is to say when
there is one.

In `FileLockRecovery`: a live call's next file system call returns, the holder's
operation ends, a sleep ends, and time passes (`WF` of `Attempt`, `Reclaim`,
`DirectoryAges`, `OwnerAges`). Crashes, errors, the first step of a call and
time-outs are not fair; a call that times out asks for nothing, so the properties
speak of calls that go on waiting. That every call gets the lock is not claimed:
two calls that keep removing each other's empty directories could go on for ever
if their sleeps allowed it.

In `AskScheduler` and `TopicDelivery`: weak fairness of `Goes`, the disjunction
of what script, driver and engine, or agent, channel and client, do of
themselves. It is written `[]<>~CanGo \/ []<><<Goes>>_vars`, where `CanGo` says
that a disjunct of `Goes` has its guard, each of which changes the state. It
justifies that sessions open or fail, turns end, pipes and sockets are read,
promises continue and timers run out. Nobody has to ask, stop, resume, retune,
drain a saturated connection, retry or lose anything.

## 5. Where code and comments disagree

1. `QueueControlTurn`. `dequeueNextBatch` takes all queued notifications along
   with one at the head, including those queued behind a control-only turn.
   `dynamic-workflow-run-settings-turn.ts:23` relies on the settings turn being
   before any notification of the new run. Inside an active turn the order is
   kept (`AbsorptionWaitsForControlTurn`).
2. `QueueStaleBranch`. The generation is checked before the execution begins;
   `persistBackgroundTaskNotificationBatch` awaits the context before it
   records the text, and does not look again. A rewind may commit in between:
   it plans while the runtime is idle and commits later. The comment in
   `runtime-command-generation.ts:18` asks for the check before persisting.
3. `FileLockStalledWriter`. An owner file is judged, and removed some file system
   calls later. If its owner is alive but was held up between `open` and `write`
   for more than the grace period (a suspended machine, a blocked disk), it may
   write, verify and take the lock in between; the waiter then removes the
   complete owner file and the directory and takes the lock as well. The comment
   at `atomicFileLock.ts:107` argues from a *replaced* directory, where the name
   protects; here it is the same owner file that has changed.

4. `CommandInboxStaleIndex`. When the execution of a text fails,
   `cancelDurableInput` writes its row and `releaseDurableInput` unpins it, but
   the index of durable facts, which the call's own lookup has cached without the
   row, is not invalidated (`v4-gateway.ts:2466`). After an eviction of the ack a
   retry is unknown and executed again. The comment at `v4-gateway.ts:1013` states
   the rule for the path of a removed input: invalidate first, or this happens.
5. `AskScheduleLost`. A stop records cancelled events for asks whose rows stay
   running. Resumed, they settle in another order; `recoverSettleOrder` keeps the
   first event of an ask whatever its outcome, so the next life replays the order
   of the cancellation, branches reach a shared site in another order and the
   script fails with `InputHashMismatch`. `replay-order.ts:167` says that taking
   the first makes the table stable across lives.

## 6. Proofs

The theorems about the queue are for any number of commands, rewinds, holders,
any set of modes and either kind of runtime; their only assumption is
`QueueAssumption`.

`RuntimeCommandQueueProofs`. `Invariance` proves `Spec => []IInv`. The
invariants of section 4 are not inductive alone: `NoTurnCollision`, for
instance, needs that a turn is reserved exactly in the phases `start` and
`restart` and active exactly in `turn`, `maintenance` and `absorb`
(`ExecutionShape`), that reservations belong to the execution, and that the
queue holds only issued commands (`OnlyIssuedCommands`). `IInv` is the
conjunction. The central lemma is `DispatchLemma`: the synchronous stretch of
the drain loop re-establishes everything, whoever triggered it. `EnqueueStep`,
`CallerStep`, `PromotionStep` and `DrainStepStep` go through the actions. The
existence of an oldest command (`OldestExists`) is the well-foundedness of the
naturals. `TypeCorrectness`, `NoLostWakeup`, `NothingLost`,
`NoTurnInProgressError` and `NothingLeaks` follow.

The second part of the module is about steps. The action properties need facts about cancelled
commands and promoted inputs that are kept in a second invariant, `Discipline`
(inductive relative to `IInv`). Each action is classified by what it does to
the queue and the execution (`LoopStep`, `WaitStep`, `StillStep`, `EndStep`,
`TakeStep`), and each action property is proved once per class:
`CancelledStayOut`, `LeaseProtects`, `UnwantedStayOut`, `AbsorptionWaits`,
`StopIsFinal`. `Refinement` proves `Spec => Server!Spec` by the same classes:
an arrival or dispatch is `Admit`, an absorption `Join`, an end `Leave`.

`FileLockProofs`. For any calls, processes, placement of calls on processes,
inode numbers and number of crashes (`FileLockAssumption`). `Invariance` proves
`Spec => []IInv`. Mutual exclusion alone is not inductive: that the second call
to list the owners sees the first holder's file needs that this file is still
there (`LiveOwnersKept`), which needs that reclaimers remove only files that are
`Abandoned` (`JudgedAreDead`): of dead calls, which are dead for good, or empty ones
of calls that have `GaveUp` and write no more. The directory stays because
`rmdir` wants it empty (`FilesInPlace`, which also says that a call without an
attempt has a file only if it is `stuck`). One lemma per conjunct, one step per
action. `Exclusion`, `HolderKeeps` and `LivingSpared` assume `PromptWriters`;
`TypeCorrect` and `EndedLeavesNothing` do not. The proof does not use the
comparison of inodes for mutual exclusion: the list of owners is what excludes.

`CommandInboxProofs`. For any number of calls and commands, sizes of the table,
evictions, unloadings and restarts, under `CommandInboxAssumption` and
`NoneAssumption`. `InboxInvariance` proves `Spec => []IInv`. That an input takes
effect once is a chain over four stores: who is past a gate is its head
(`GatesHeld`), so one call at a time decides about a command and nothing becomes
known of it meanwhile (`NothingKnown`); an input the runtime holds is pinned,
which keeps the session loaded (`HeldIsPinned`); a promoted input is missing from
an index that has been read only while its event is on the way (`IndexIsFresh`),
so a call on its way to the runtime is never about a promoted input
(`PromotedOnce`). `FactsAreTrue` and `TablesAreTrue` say the converse, that
neither an index nor a table claims what did not happen, and give the truth of the
answers. `Numbered` carries the order of the live inputs over a counter that
starts again. One lemma per part. `InboxTypeCorrect`, `OneCommandExecutes`,
`HeldInputsArePinned`, `InputsTakeEffectOnce`, `DuplicatesWereTaken`,
`LiveInputsAreOrdered` and the action property `UnknownAnswersAreTrue` follow.

`AskSchedulerProofs`. For any scripts, actors, caps, lives and stops, under
`AskSchedulerAssumption` and `ScriptsAssumption` (branches are numbered as they start, a
branch makes an ask, an actor is created once). `SchedulerInvariance` proves `Spec => []IInv`.

- *Order.* `ActorOrderKept` needs that an actor's asks of this life stand in line
  by their numbers, the one at work first, and that everything admitted that has
  not settled is in it (`Lines`). A new ask gets the next number, and it must be a
  free one, in spite of rows of earlier lives that have not been asked for again:
  the numbers of an actor have no gap (`Dense`), so there are more rows than any
  number (`NumberBelowCount`), and as new asks wait for as many admissions as there
  were rows (`Below`), no row has a number at or above the next (`Distinct`).
- *Work.* The count of asks at work is that of the busy actors (`Counted`), and
  `PumpKeeps` carries it, the lines and `NoIdleActor` through every pump. When an
  ask that was recorded is admitted only its own actor is scanned: that suffices
  because no other was idle beside a queue, which is why `NoIdleActor` is part of
  the invariant and why the model may pump all actors after a new one.
- *Answers.* Only live asks settle, and those have no answer yet (`LiveUnsettled`,
  `AnswersTrue`, `ParkedSettled`): `AnswersStand`.

`DrainDrains` reduces an admission to what the rest of the proof needs of it
(`Drained`); `DrainedRows`, `DrainedNumbers`, `DrainedWork` and `DrainedWaiters`
each restore a part. `SchedulerTypeCorrect`, `NobodyIdles`, `ActorsKeepOrder` and
`AnswersStand` follow. `NoneLiveAfterEnd` and `Quiet` need `NoneLive` only: every
end empties `liveNodes`, so whatever session, turn or recorded answer still reports
finds no live node to settle.

`ReplayedAsRecorded` and `NeverMismatched` prove `ScheduleReplayed` and
`ReplayMatches` under one more hypothesis, `LateStops`: no life is stopped that two
others may follow. It is needed, since `AskScheduleLost` refutes the replay after such
a stop (section 5, item 5); crashes are unrestricted, and the run `AskScheduler`, where the two
properties are checked, has a stop in the second of three lives. Both theorems hold, as
the properties say, until an ask overtakes the recorded answers.

- *Once* (`OnceEach`): what waits for its admission, and what the script has not asked
  for again, has not been admitted in this life; so no answer is given twice. That a row
  was admitted is read off the actor's numbers, which is what `IInv` is for.
- *As recorded* (`Replaying`): the answers of this life are a beginning of those of the
  longest life (`AsHeard`); those are what has settled, each once (`HeardOnce`,
  `HeardSettled`); the gate's order is theirs, and as long as its cursor is not at the
  end nothing new is told (`OrderHeard`); and a life that can have a successor leaves
  events from which the gate's next order is read (`EventsHeard`). The last is where a stop
  differs from a crash: it adds events of asks that have not settled. The next order
  leaves them out; the order after that has them where they were cancelled. `HoldGivesHeard` is the gate: what it
  releases is what was told next. `SettleKeepsReplaying` is where `overtaken` is needed.
- *On course* (`OnCourse`): there is one sequence of places, the course, that every life
  follows: a step of it is the start of a branch or the reading of an answer, and the next
  place is computed from the script and the recorded answers (`After`). Every ask
  of the journal, and every new ask that waits, was made in a step of it (`AllMade`).
  `CourseGoesOn` extends the course by a step when a life goes farther than all before it,
  `CourseStays` keeps it while answers are added, and a new engine goes back to its
  first place (`EngineBegins`). As the ordinals of a site only grow along the course, an
  instance has one caller (`OneCaller`): that is why the hash of the input always matches.

`TopicDeliverySteps`, `TopicDeliveryProofs`. For any number of events and of
troubles, and any sizes of the log, the buffer and the snapshots, under
`TopicDeliveryAssumption` (a log, a buffer and a snapshot hold something) and
`NoneAssumption`. `DeliveryInvariance` proves `Spec => []IInv`. What is shown can
only be right if what is *under way* is right, in the channel, in the outbox and
behind the barrier, and what is sent next depends on the buffer:

- *What the publisher keeps* (`BufferTrue`): the buffer of a live subscription
  holds what has been added since the last frame it was sent, unless it has run
  over; while a reply is unwritten the last frame is the one reserved for it. This
  is what a resync that kept the buffer would break, and it makes the next
  frame of a flush lead from `sentSeq` to the publisher's last number.
- *What is under way* (`FramesTrue`, `Newest`): each frame is true of the projection
  it was made from, and of two frames the one sent later, by subscription and then
  by ordinal, goes at least as far. As a rehydration replaces the projection while
  frames of the old one travel, this is stated over a function `H` from
  numberings to projections. `H` is no variable: the invariant says that there is
  one, `TruthAfterLogging` extends it, and the others keep it.
- *What the client shows* (`Showing`): it is true, and every frame that the decoder
  would still let through, because its ordinal is above the settled ones or its
  subscription is later, goes as far as the view at least, or belongs to a later
  numbering. Hence an old snapshot that comes late is stopped by the tombstone of the
  assembler, and no other check is needed: that is the whole of `ShownNeverBackwards`.
- *Who is who* (`Numbered`, `Distinct`): the reply to the latest subscribe brings a
  later subscription than the client has, and no two messages belong to one
  subscribe; otherwise an activation could go back to an older subscription, whose
  frames the new decoder would let through.

`TopicDeliverySteps` is about the client's operators. `Kept` says what an operation
that shows nothing leaves alone, `TookInTurn` that decoding a wire shows its frame
or nothing and settles it, `DecodeMoves` that a true frame keeps the view true and
going on. The wires given out by the barrier are taken one after the other by a
recursive function; `DecodeAllRuns` and `DecodeAllMoves` need an induction over it
and get it from `Climb` (`SelectionsProofs`): if a set has 0 and with every number
below n the next, the greatest number up to which it has all is n.
`TopicDeliveryProofs` has one lemma per action; `ClientStep`, `PublisherAlone`,
`FrameSent` and `AnswerKeeps` carry what actions of one kind have in common.
`DeliveryTypeCorrect`, `ViewsMatch` and `ShownNeverBackwards` follow, the last from
`Onward`, which every step lemma proves.

`TopicDeliveryCatchUp`. Under the same assumptions, `CatchesUp` proves `CaughtUp`. That
nothing is missing when all is quiet follows only if in every state somebody is still
going to act for what the client lacks. `CatchUpInvariance` says who, up to the first
mixed numbering (`mixed`); it says that there is a set `G`, the frames that were sent on
the last subscription, such that `Delivers(G)`:

- *What was sent* (`Sent`, `Ordered`): `G` has one frame for every ordinal that matters,
  later ones go at least as far, everything under way on this subscription is in it and
  travels in order. `G` is no variable of the model, like `H` above: a step that
  subscribes starts another, a flush and a recovery add a frame (`FrameGoes`).
- *What is not sent yet* (`Sends`): without an armed timer, a saturated connection or a
  reservation, the last frame of `G` goes to the publisher's last number; a subscription
  with no frame was resumed by a client that has all. The commit of a reply arms the
  timer for what the reservation suppressed: without that (the mutant of `CaughtUp`)
  `RespondGoes` fails.
- *What deltas rely on* (`DeltasKnown`, `NumKnown`): deltas are sent only to who shows
  this numbering, or after a snapshot of it.
- *Who is subscribed* (`Seats`, `Based`): a live client has the last subscription and asks
  for no other; a reply to the latest subscribe brings the last subscription; a reply that
  is not the latest brings one that is replaced, or will be, so giving it up takes nothing
  away; an unsubscribe never meets the last subscription. Every base that is asked for is
  one the client has shown.
- *What the client waits for* (`Expects`, `Waits`): a client *at rest*, one that recovers
  nothing or has only to hear that its recovery is over, has for every frame it has to get
  (`Awaited`: not lost, or the first of its numbering) a view that covers it, the frame
  still before it, or an assembly that will do instead (`Shall`). A client that is not at
  rest has asked, or will ask, for a frame that covers all.

The lemmas are of three kinds. *Of the store's operations*: `Meek` is one that shows nothing
and comes to rest only where it was at rest (a new generation, a resync, a failed
recovery, a reply), `Onto` that what it asks for starts from what it shows. *Of one wire*:
it is stale, goes into an assembly, supersedes one, completes one whose frame is applied
in order, is skipped, or leaves a gap for which a recovery is opened; each keeps `Waits`
for one frame less to come, and the wires that the barrier gives out at an activation are
taken by `Climb` as before. *Of one action* (`...Goes`), put together by `StepDelivers`;
`ClientGoes`, `QuietGoes`, `ServerGoes` and `FrameGoes` carry what they have in common.
`QuietHasAll` then reads the theorem off the invariant.

`SelectionsProofs`. `AscendingLists` is the core: counting the members up to each
member is a bijection onto `1..Cardinality(N)`, by the theorem on injections
between finite sets of one size. `AmongSelects`, `WithoutSelects` and
`LargestIsGreatest` follow.

**Only model-checked**: the liveness properties (`QueuedCommandLeaves`,
`LoneCallGetsTheLock`, `OrphanIsReclaimed`, `RunEnds`, `FlightCloses`), since the
prover does not reason about fairness; `NobodyStuck` of `CommandInbox`, which says
ENABLED; and the five disagreements, which are counterexamples.

## 7. Not modelled

The compiler of dynamic workflows (sequential, over syntax trees), the reducers
of the v4 projections, tools, hooks, MCP, memory, providers, desktop, web, TUI and
bots: external effects, rendering and formatting, or so large a data space that
a finite model would say nothing. They are most of the repository's lines. What
each module leaves out of its own code is said in section 3, and what the plan
still covers is in section 2.
