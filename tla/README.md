# Verification of the Aelix agent harness

Aelix is a terminal coding agent. Its core is an asyncio program: a **harness** takes the user's
inputs, runs a model and its tools in a loop, keeps the live conversation and a session file in
step, and has to survive aborts, cancels, retries, failing extensions and crashes. Around it a
**runtime** replaces the session, **delegations** run child agents, **RPC mode** lets a program drive
it, and several processes share its credentials and settings. This directory holds TLA+ modules
translated from that core, TLC configurations that check them on small instances, and TLAPS proofs
of what holds for every value of the constants.

`CORE` below is `packages/aelix-agent-core/src/aelix_agent_core`, `CA` is
`packages/aelix-coding-agent/src/aelix_coding_agent`, `AG` is
`packages/aelix-coding-agent/src/aelix_agents`, `AI` is `packages/aelix-ai/src/aelix_ai`.
`PROJECT.json` maps every definition to its lines.

## 1. The system

| Component (code) | State | Operations | Talks to |
|---|---|---|---|
| **Prompt lifecycle** (`CORE/harness/core.py`) | `_phase`, live `messages`, steering / follow-up / next-turn queues, `_abort_requested`, `_withdraw_requested`, `_retry_attempt`, `_overflow_recovery_attempted`, `_unanswered` | `prompt`, `steer`, `follow_up`, `next_turn`, `abort`, `abort_retry`, retry tail, overflow recovery, threshold compaction, withdrawal | loop (awaits it, receives `message_end`), session, hooks, pending writes |
| **Pending session writes** (`CORE/harness/core.py`) | `_pending_session_writes`, `_drain_lock`, `_phase`, `_disposed` | `append_message`, `set_thinking_level`, `set_model`, the flush, the drain, `idle_write`, `compact`, `navigate_tree`, `dispose` | session storage |
| **Agent loop and tool batches** (`CORE/loop.py`) | the batch's tasks, results, end events, `_CANCEL_REACHED`, `_STRAGGLERS` | prepare, execute, finalize, wait, cancel, commit | tools, hooks, the harness's event sink |
| **Session storage** (`CORE/session/`) | the JSONL file, `_entries`, `_current_leaf_id`, `_needs_newline`, the storage lock | appends, leaf moves, `withdraw_tail`, load with recovery | a `FileSystem` |
| **Session runtime** (`CORE/runtime/`) with the **repository and writer lock** (`CORE/session/`) | the current harness and session, `_lifecycle`, `stopped`, the sidecar locks | new, switch, fork, import, reload; teardown, build, restore, stop | prompt lifecycle, extensions, other terminals |
| **Delegation** (`AG`) | batches and their permits, the registry, `_draining`, children, reapers, receipts | `agent()`, `/agents run`, `stop`, `stop_all`, settle | child processes, the session (receipts) |
| **Shared files** (`AI/oauth`, `AI/settings`) | one file each and its memory, an inode lock, a sidecar lock, a write queue | `set`, `delete`, refresh; setters, `edit_list`, `reload` | other processes |
| **RPC mode** (`CA/rpc`) | the mutation lock, `operations`, `classic_inflight`, `transitioning`, MCP leases, `closing` | control mutations, `commands/cancel`, classic commands, `mcp/configure`, shutdown | a client's pipe, session runtime, harness, MCP |
| Hook bus, extensions (`CORE/harness/hooks.py`, `_extension_runner.py`) | handlers | emit, register | every component, by callback |
| Compaction text (`CORE/session/compaction.py`, `branch_summarization.py`) | none | where to cut, what to say | a model |
| Built-in tools (`CA/tools`) | one lock per file, running commands | edit, write, bash | files, processes |
| MCP connections (`CA/mcp`) | connections | connect, call | tool servers |
| Providers, model catalogue, TUI, command line, server | wire formats, tables, screens | | |

### What is hard

* **Every await is a suspension point.** The harness is one thread but many tasks: state read before
  an await is stale after it (the phase under `idle_write`, the leaf under an append, the last
  assistant message under overflow recovery, the registry under `stop_all`).
* **A cancel arrives anywhere, once, and may be swallowed** by a hook, a listener or a tool; a
  second one may arrive while the first is being handled. Where code shields itself from a cancel
  it has to remember it (a session replacement, the settle of a receipt).
* **Some effects need several awaits**: a flush is several appends, a withdrawal touches live
  messages, queues, session and subscribers, a session change is a teardown and a build that may fail
  in between, `withdraw_tail` is a leaf move and re-appends.
* **A lock handed to a waiter is free until the waiter runs** (`asyncio.Lock`), so `locked()` may be
  False with somebody next in line; and a `flock` is on an inode that a rename may have replaced.
* **Resources outlive the task that took them**: a permit, a child process and its own children, a
  connected server, the writer lock of a session that could not be installed.
* **Files outlive processes**: writes are cut part-way, and the next open must neither fuse lines nor
  lose what an append had returned for.

### What correctness means, per component

* *Pending writes*: records reach the session in the order they were decided; none is lost or
  doubled; one drain appends at a time; one claim owns the harness; everything comes to rest.
* *Prompt lifecycle*: an input is in exactly one place; an abort sends nothing more; an Esc gives the
  input back; live context and session agree; every prompt ends.
* *Tool batches*: every call that began is answered in the context once, in order, through its hook;
  nothing begins after a cancel; a second cancel ends the wait.
* *Session storage*: nothing an append returned for is lost; what is loaded hangs together; withdrawn
  entries stay off the path.
* *Session runtime*: a change leaves one live harness or a stopped runtime; only the holder of a
  session's lock writes it; a line answered with success comes home once; an Esc is honoured.
* *Delegation*: permits are conserved; no child runs on unattended; behind a shut door nothing runs;
  every receipt is closed; `stop_all` and a kill end.
* *Shared files*: no save loses another one; a refresh token is spent once; memory agrees with what was saved.
* *RPC mode*: mutations, turns and replacements keep apart; the harness has the tools of the lease
  that is connected; a cancelled operation gets no further; shutdown ends.

`PROJECT.json` "hazards" lists each hazard at its line with the properties that watch it, and the
ones no property covers, with the reason.

## 2. The modules

A module's action runs from one suspension point of a coroutine to the next: that is exactly what
asyncio makes atomic. A cancel is an action that sets a task up to raise at the await it stands in.

| Module | Models | Correspondence |
|---|---|---|
| `PendingWrites` | the queue of session writes and all who drain it | `queue` = `_pending_session_writes`; `lock`, `waiters` = `_drain_lock` with asyncio's handover (`HandedOver`, `ran`); `batch[t]` = what a task's flush detached and still holds; `store` = appends begun on the session, FIFO by the storage lock. One constant set per kind of caller: `Prompts`, `Setters`, `Recorders` (`idle_write`), `Compactors`, `Disposers`. `pc[t]` = "nested": an overflow or threshold compaction under the claim of prompt `t`, while `phase` = "compaction" and setters append at once. |
| `PromptTurn` | the life of an input | `pc` = where `prompt()` stands (claim, entry, hooks, loop, request, tools, tail, countdown, recovery, compaction, withdrawal, release); `live` / `path` = live messages and session branch; `nextQ`, `steerQ`, `followQ`, `withdrawnQ` the queues; `tracker` = `_unanswered`; `fate` = where an input went that is in none of them. Other tasks' calls (`steer`, `abort`, ...) are `Callers`. |
| `ToolBatch` | one batch of tool calls | `st[c]` = where call `c` is; `out`, `result` = what it holds, as "raw", "shown" (the hook saw it) or "cut"; `reached` = `_CANCEL_REACHED`; `abandoned` = stragglers; `hits` = cancels not delivered yet. |
| `SessionTree` | what a session promises | a growing tree with a leaf, and `doubt`: entries that an append which raised, or a crash cut, may have left. |
| `SessionStore` | the file and its process | `file` lines with an `ends` flag for the last newline; `entries`, `leaf`, `heals` of the process; `lock`; `job` = the appends a call of `Session` still makes. |
| `SessionSwap` | reload, new, switch, fork, import and quit | per transition where it stands between its request and its after-start callback; the writer lock of each file (us, another terminal, nobody); harnesses by number with the file each one writes; where each queued line is; the Esc that was asked for; `stopped`. |
| `Delegation` | batches, solo spawns, their children | `pc` = where a member stands from its permit to its settled receipt; `free` = the semaphore; `row`, `known` = the registry and the processes it knows; `child`, `helper` = a child process and one command of its own; `reaper`, `snap` = the reaper and what its walk found; `kept`, `settling` = the records; `sweep`, `draining`, `closed` = `stop_all` and its door. |
| `SharedFiles` | `auth.json` and `settings.json` under several processes | the file's inodes and contents, the `flock` on an inode, the sidecar with its deadline, each process's memory, write queue and marks; `Credential` calls and `Setting` calls. |
| `RpcControl` | the control plane of RPC mode | `at[o]` = where a control mutation stands (queued for the lock, at work, in a replacement, waiting for the previous lease); `in[c]` = where a classic command stands; `stage` = a replacement before and after its teardown; `hit`, `interrupted` = a cancel on its way or kept; `lease`, `leases`, `tools` = `RpcMcpController` and the live harness; `host` = the main loop's end. |
| `MC*` | TLC instances | model values and the sets of histories. |
| `*_proofs` | TLAPS proofs | see section 5. |

**Composition.** `SessionStore` implements `SessionTree`: it instantiates it with a refinement
mapping (`Tree == INSTANCE SessionTree WITH ...`) and `ImplementsTree` is checked and proved. The other
modules share interfaces, not variables: `PendingWrites` sees the storage as a FIFO of appends that
may suspend, fail or be cut, which is what `SessionStore`'s lock provides; `PromptTurn` sees
`PendingWrites` as an entry drain and a release drain around a turn, and a batch of `ToolBatch` as
one `tools` step that ends with results or a cancel; `SessionSwap` sees a turn as something its
teardown aborts and waits for, which is `ComesIdle`; `RpcControl` sees a session change as hooks, a
teardown and an install that may fail, whose inside is `SessionSwap`.

**Histories.** A product of everything that may happen is beyond TLC, so most modules have a variable
that never changes after `Init` (`scope`, in `ToolBatch` `kind`) and that `Init` chooses from a
constant set of bounds: one run then explores several histories, each small enough to be exhaustive,
and no definition is replaced. The proofs are about every such set.

**Abstractions.**

* A message, a write, an entry, a file and a credential are names. An answer of the model is one of
  `ok`, `tools`, or a kind of failure. A hook returns, raises or swallows a cancel.
* `PendingWrites`: each task makes one call; sequences of calls are several tasks. A prompt may nest any number
  of compactions, the code at most one in its recovery and one in its closing check; how one ends (done,
  failed, aborted) makes no difference here, its `finally` hands "turn" back in each case.
* `PromptTurn`: messages a hook injects, a harness without a session, and an answer that overflowed
  silently are left out; a session append met by a cancel is not made (in `PendingWrites` it may be or not).
* `ToolBatch`: several listeners of one event are one await; a tool's progress updates are folded into its hook.
* `SessionStore`: labels are left out, the loader recomputes them from the entries.
* `SessionSwap`: what a hook, a factory or a callback does is that it returns, raises, or asks for a
  nested transition (which is refused). The local file system does not suspend. Locks that degrade to
  soft ones, a `compact()` on a harness that is torn down, a quit that meets a transition, and a switch
  to the file that is already live (`scope.own`) are left out of the histories or the module.
* `Delegation`: one batch per behaviour. A child has at most one command of its own (`helper`), found by the
  parent-process walk only, and begun once asyncio has handed the process over; a command begun after the walk
  (`late`) may survive it, and a child that exits by itself may leave a quiet command: the code promises no
  more. Once `gather` has raised, a second cancel reaches nobody.
* `SharedFiles`: `memory` has a refreshed token from the provider's answer on, before the file has it, and keeps it
  when the write fails: `_data` is the dict the refresh changes. One scope of settings; no project trust, load errors, migration, snapshot and
  restore, keys from the environment, nor Windows, where there is no lock.
* `RpcControl`: reads, aborts, dialogs (they end by their timeout) and `ui/enable` change nothing the
  properties speak of. `setting` stands for every mutation that only waits for a write, `other` for every
  classic command that starts no turn; a branch is one transition, not the two it makes; after a failed build the
  old session's harness is rebuilt and rebound. A handler that swallows the `CancelledError` itself, an
  `attach` that fails, and a runtime left stopped are left out; the rollback of a cancelled configuration, which
  awaits its own task, is one step.

## 3. The runs

Deadlock is checked in `shared`, whose behaviours are finite: that none stops early is its liveness.
In the others the system really stops, when every caller has made its calls or the bounds are used
up, and that it does not stop *early* is what their liveness properties are for.

### Runs that pass

| Run | Instance | What it shows |
|---|---|---|
| `pending` | 2 prompts, 2 setters, 1 `idle_write`, 1 compaction, 1 dispose, 4 writes, cancels anywhere | `LogInCallOrder`, `NoWriteLost`, `OneOwner`, `ComesToRest`, `DisposeWaits` |
| `turn` | four histories: an abort beside prompt + steer + next-turn + retry + a tool turn; two prompts; a session that refuses writes; `prompt()` cancelled beside a follow-up and a next-turn | `OneHome`, `PromptLeaves` (live context and session agree; an Esc gives back), `AbortSendsNothing`, `ComesIdle` |
| `batch` | 3 calls; {sequential, parallel} x {host tells of cancels or not} x {hooks and sinks fail or not}, 2 cancels; one batch with 3 | `ResultsInPlace`, `OnlyShownOutput`, `CancelStops`, `SecondCancelEnds` |
| `store` | four histories: 5 entries with 2 faults; two tasks on a suspending `FileSystem`, 4 entries; 2 lines damaged; 6 entries without faults | `PathHolds`, `ImplementsTree`, `WithdrawKeeps` |
| `swap` | 2 transitions, 2 lines, 2 old and 2 new files; five histories: every kind beside another terminal with every step failing; cancelled anywhere, with a quit; lines and an Esc with failing builds; the same with cancels; a session whose sidecar cannot be used | `LeavesClean` (locks follow the session, a failed change leaves no file, a stopped runtime holds nothing), `LinesHome`, `OnlyOwnerWrites`, `EscHonoured`, `TransitionsEnd` |
| `delegation` | 3 members, 2 permits, 1 solo; six histories: one child ended in every way; two waves met by `stop_all`; a door reopened; `/agents run`; `stop_all` itself cancelled; a chain | `StopAllHolds`, `Attended`, `ReceiptsClosed`, `StopAllEnds`, `KillIsPrompt` |
| `shared` | 2 processes, up to 4 calls, 2 keys, 1 fault (a failed write, a deadline, a crash), 1 reload; one storage with three calls on `auth.json`; two one-shot processes; two sessions over `settings.json` | `RefreshedOnce`, `Agree`, `OnlyAsked`, no deadlock |
| `rpc` | 3 mutations, 2 classic commands, up to 2 cancels, the end of stdin or a signal; leases that replace one another; a command and a reload beside every pair of classic commands | `Apart`, `LeaseFollows`, `CancelHolds`, `ShutdownEnds` |

All but `pending`, whose `TypeOK` is proved, check their module's `TypeOK` too. Each has between 100,000 and 1.6 million
states and takes between half a minute and three minutes.

**Why these bounds are enough to be interesting.** Two setters and two prompts make a drain that
waits behind a drain that is itself cut, the shape behind every ordering question; four writes let
one flush hold two, with a third queued behind and a fourth decided during the appends. One abort of
each kind meets a prompt at every await; one retry reaches both ends of the countdown. Three calls
make one done, one running, one not begun; a second cancel ends the wait, a third lets two meet a
wait that began with one. Six entries let a withdrawal skip one entry and keep two in order; two
faults let a torn line be followed by a crash before it is healed. Two transitions make one wait
for the other, with a failure of the first restored into by the second; two lines make an order.
Three members on two permits leave one parked when a permit is taken back; two waves are what
`stop_all` has to take one after the other. Two calls of one process and one of another are what an inode
needs to be replaced under a waiter. Three mutations leave one in the lock, one next in line and one
behind it; two leases are one to install and one to end; two commands are what a gate has to keep apart.

**Guards to read closely.** `LogInCallOrder` exempts a run in which a turn or a compaction was
claimed while the drain lock was between two holders (`overtaken`): there `locked()` is False
although a waiter is next, and the claimant's own writes may go first; the exemption is exactly that window.
What `PathHolds` says of withdrawn entries it says where the `FileSystem` does not suspend, which is
the one the program ships. A crash between `withdraw_tail`'s leaf move and its re-appends leaves the
survivors off the path: they stay in the file and the code promises no more. The histories of `swap`
leave out a cancel at the second give-back, which is the run `swap_cut`, and `OnlyOwnerWrites` passes
over a file whose sidecar nobody can use. `OneShots` in `shared` are two processes of one call each, where the lock on
the inode is enough; three calls are the run `shared_siblings`. The last part of `Apart` speaks of
the end of stdin, not of a signal; `CancelHolds` and `ShutdownEnds` of handlers that do not catch
what a replacement raises (`scope.catches`): both for the reasons below.

### Runs that find a disagreement

Each checks one statement of a docstring or a decision record which the code does not keep. The
text of each is in `PROJECT.json` "findings".

| Run | Statement | What happens |
|---|---|---|
| `turn_countdown` | `CountdownEscGivesBack`: an Esc in the countdown withdraws the whole prompt (ADR-0286) | the answer of an *earlier* prompt, left by a failed recovery, is taken for this one's: compacted, re-run, sent |
| `batch_straggler` | `HookSawResult`: a straggler's result is the default text (ADR-0290) | one that returns during another's end event gets its raw output committed, unseen by its hook |
| `swap_cut` | `InterruptStops`: a cancel between the teardown and the install stops the runtime (ADR-0289) | one that lands in the second give-back leaves the torn-down harness installed and the runtime not stopped |
| `shared_siblings` | `SiblingsKept`: a write loses no sibling's entry (auth_storage.py:441) | the `flock` is on an inode that a rename replaced: two writers are in together, and one installs the temporary file the other has just emptied |

**Seen, and not kept as runs**, each found with TLC on one of these modules or a variant of it:

* `idle_write()` checks the phase before it waits for the drain lock (core.py:4259); a prompt that
  claims while the lock passes on runs beside the second body, against "Entered only while idle"
  (4214). An abort at the entry drain survives since #684, against the docstring at 4234.
* In a nested compaction "`set_model` records nothing" (comment at core.py:1859), but its guard (3080) is the one
  of `set_thinking_level`: it appends at once, or goes behind what is queued.
* A second cancel of a withdrawal costs the `input_withdrawn` event too (core.py:6245), not only
  the session write (6189). A line that a `session_shutdown` handler queues is cleared by
  `dispose()` before the second give-back (core.py:2036, docs/decisions/0286).
* With a suspending `FileSystem` an append that read the leaf before `withdraw_tail` moved it puts
  the withdrawn entries back on the path (session.py:356).
* `stop_all` "Leaves NOTHING running" (runtime.py:1198) but may return beside a row whose
  `create_subprocess_exec` is still in flight.
* A write of settings that succeeds clears every mark (settings_manager.py:1252), also those set
  since; a setter of a list whose `edit_list` is in its thread leaves memory and file different (no caller does
  it); the old locking protocol does not serialise with the new one (storage.py:326).
* A command whose session replacement *raises* forgets the cancel it kept (`_finish_uncancelled`,
  control.py:160): a handler that catches the error goes on, may replace the session again, and shutdown
  waits for it, against ADR-0275's "stops when it finishes". `CancelHolds` and `ShutdownEnds` fail
  with `scope.catches` TRUE.
* On a signal with stdin open, a classic `new_session` that arrives while shutdown gathers is admitted
  (`classic_gate` does not look at `closing`), not gathered, and `dispose()` runs beside it (comment
  at rpc_mode.py:2554).
* A configuration cancelled while the previous lease disconnects is answered "Command cancelled" with
  the new lease installed, against "undoes itself" (control.py:118).
* `RpcClient`: the `agent_end` of one prompt may arrive between the registration of the next one's
  listener and its acceptance, and be taken for its end (rpc_client.py:83).

## 4. Fairness

Safety is checked without fairness. Liveness assumes the least the code's scheduling gives:

* `PendingWrites!Fairness`: a task that can run runs, and a session append ends. No cancel and no
  call is ever forced.
* `PromptTurn!FairSpec`: what `prompt()` itself waits for (a hook, the model, a tool, a timer, a
  write) answers or fails. Callers are not fair: nobody has to steer or abort.
* `ToolBatch!FairSpec`: the batch and each call's own code go on, but a **tool is not fair**: it may
  run for ever, and `SecondCancelEnds` says two cancels end the batch all the same.
* `SessionSwap!Fairness`: each transition's own steps (its hooks and callbacks return or raise), and
  the end of a turn that was told to stop.
* `Delegation!FairSpec`: the event loop runs every task that can go on; appends, process starts and
  the bound on draining a child's output end. **Nothing is assumed of a child**, of its commands, or
  of the end of a grace: `KillIsPrompt` says that a second cancel does not wait for it.
* `SharedFiles`: none. Its behaviours are finite and deadlock is checked, so every call ends.
* `RpcControl!Fairness`: an operation's writes and connects (they have a deadline), the hooks and the build
  of a replacement, the acceptance of a prompt and the other classic commands end (a classic `bash` too). **A handler, a turn and
  a compaction's summary need not**, and `ShutdownEnds` says shutdown ends all the same.

The first part is what asyncio's ready queue does. What is assumed and not checked is that the
model, the file system and the hooks of extensions answer where a bullet says they do.

## 5. What is proved

TLAPS checks these for every value of the constants. Each proof rests on the module's named assumption
(which TLC evaluates on every run) and on an inductive invariant, which TLC checked on a small instance first.
Every safety invariant and every safety action property of a passing run is a theorem; the ones that hold
of some histories only carry that condition in their statement.

* `PendingWrites_proofs`, from `RolesAssumption`: **`TypeCorrect`**, **`OwnersExclude`**
  (`[]OneOwner`: one drain appends, one claim owns the harness, and `_phase` is idle with no owner only and "turn"
  exactly while the owner is a prompt outside a nested compaction), **`NoWriteLostHolds`**,
  **`LogInCallOrderHolds`** and **`DisposeWaitsHolds`**. The first two need `RolePC`, which
  caller can stand where (a setter has no `release`), and `Empty`, that a task outside an append, a
  drain and a turn holds no detached writes; otherwise a task could enter the lock's queue already
  holding a batch. Every action is shown to make one of a few kinds of move (`EveryStepMoves`), and a
  move preserves the invariant (`MovesKeep`). `Placed` says that each write is in one place: the queue, one
  detached batch, the session, or dropped. The order needs `Waiting` and `Last`, who may
  still get the drain lock once the harness is claimed, `Single`, that only a flush holds more than one
  write, and `Ordered`, which relates the session, the appends in progress and the queue (`OInv`).
  `DisposeWaits` needs `Closing`: `dispose()` reaches its drain only when the last prompt has released the
  harness, and `_disposed` lets none claim it after, so that no turn is left holding a flush outside the lock.
* `PromptTurn_proofs`, from `InputsAssumption`: **`TypesHold`**, **`AbortSends`** (`AbortSendsNothing`),
  **`OneHomeHolds`** and **`PromptLeavesHolds`**. `Stopping` says that an abort the prompt answers to is
  flagged, with its cancel on its way. `OneHome` speaks of sets; what is inductive is `Counts`, which adds up the
  places an input has on every sequence and finds one. For it to survive a withdrawal, `Behind` says that
  what the tracker points at comes after all that the withdrawal leaves, and `Matches` that the branch has the
  inputs of the live context but the one being stored (`Homed`). What an Esc gives back needs who it may
  still speak for (`Bound`, `Escaping`) and that each of those is given back or will be met by the
  withdrawal (`Due`): `Honoured`.
* `ToolBatch_proofs`, from `BatchAssumption`: **`TypesHold`**, **`ResultsInOrder`** (`ResultsInPlace`),
  **`OutputIsShown`** (`OnlyShownOutput`) and **`CancelEndsTheBatch`** (`CancelStops`). The invariant says where a batch
  of either kind can be (`Places`), where its calls are in each phase (`Phases` in parallel, `InTurn` one by
  one), what a call's end event and output are worth there (`Sent`), and which results have been gathered and
  committed (`Gathered`, `Committed`): an abandoned call may still run, and still change its output, long after the phase in which
  the others were gathered, so each part speaks of it apart.
* `SessionStore_proofs`, from `StoreAssumption`: **`TypesHold`**, **`StoreImplementsTree`** (the
  refinement `ImplementsTree`, action by action), **`PathHoldsAlways`** and **`WithdrawKeepsHolds`**. The refinement needs to
  know what every entry that waits for the lock was built on (`Pending`), that it has a name no line has
  (`Fresh`), that the lines, readable or not, hang together (`Hanging`), and, with no line damaged, that the
  file has all that is in memory and puts the leaf where memory has it unless its last line is in doubt
  (`Undamaged`); types need that the bound leaves room for the appends still owed (`Room`). The other two speak of a `FileSystem` that does not
  suspend (`Solo`): no content comes twice on a path (`Once`), what is on the path and what a withdrawal
  still appends make up what it wants (`Going`), and what was withdrawn is off the path of the leaf, of the leaf the
  next open would find, and of what the call at the lock will make the leaf (`KeptOff`). The last
  two are why a crash after the leaf moved brings nothing back.
  In the same module, from no assumption, what `SessionTree` itself promises: **`AlwaysResolves`** (`Spec => []Resolves`)
  and **`NothingIsLost`** (`OnlyGrows`). `Resolves` is not inductive: a crash moves entries from `doubt` to the tree at the
  next open, so they must have hung from it all along (`DoubtHangs`).
* `SessionSwap_proofs`, from `NamesAssumption`: **`TypesHold`**, **`LinesHomeHolds`**, **`OnlyOwnerWritesHolds`**,
  **`EscHonouredHolds`**, and `LeavesClean` in its three parts: **`FailedLeavesNoFileHolds`** for every history,
  **`LockFollowsSessionHolds`** where nobody resumes or imports over the live file (`~scope.own`), **`StoppedRuntimeHolds`** where no
  cancel is set at the second giving back (`"give2" \notin scope.cancels`, which the run `swap_cut` refutes);
  **`LeavesCleanHolds`** puts them together. The invariant: `Counts`, there are enough harnesses and names; `Alone` and
  `Locals`, one transition runs and what it holds where it stands; `Locked`, `Filed` and `Known`, which locks
  are held, which files there are and why, what a harness has read of one; `Left`, `Torn` and `Halted`, the
  harnesses before, at and after the installed one; `Lined`, where each line is; `Warned`, when an Esc came.
* `SharedFiles_proofs`, from `HistoryAssumption`: **`FlocksExclude`** (the type invariant with the
  exclusion of the inode locks) for every history, **`SavesKeepTheRest`** (`OnlyAsked`: a save changes
  what was asked and nothing else) for every history of settings calls, the ones that take both
  locks, **`RefreshedOnceHolds`** and **`AgreeHolds`** under the conditions below. For `OnlyAsked`: one call at a time is
  past the sidecar (`OnePast`), what it read is still in the file (`NotMoved`), and it writes
  once (`WritesOnce`). For `auth.json`: who is at work has the lock of the file there is (`Holds`, `Steady`),
  what it has read is in it (`Fresh`), and a token the provider has answered for is about to be written or was (`Spent`). For
  `Agree`: a key of `auth.json` whose memory runs ahead of the file was written by nobody (`Known`); for the
  settings, what a write put down is what its call was to write (`AsSaved`), what a setter has yet
  to write is what memory has or a later setter writes too (`Newest`), and memory agrees with the file or a
  write that makes it agree is coming (`Settled`).
* `Delegation_proofs`, from `LimitsAssumption`: **`PermitsConserved`**, **`SweepsHold`** (`StopAllHolds`),
  **`NoChildForgotten`** (`Attended`) and **`EveryReceiptCloses`** (`ReceiptsClosed`). The invariant:
  `Permits` counts the free permits and the members past admission; `Reach`, `Walks` and `Records` say for one member who can still
  reach its child, what the reaper's walk can have missed, and which records there are; `Order` that
  nobody of a chain begins before the one ahead is over; `Waves` what `stop_all` has taken.
* `RpcControl_proofs`, from `RequestsAssumption`: **`TypeCorrect`**, **`AllApart`** (`Apart`),
  **`LeaseFollowed`** (`LeaseFollows`) for every set of requests and histories, and **`CancelsHold`**
  (`CancelHolds`) for histories in which no handler catches what a replacement raised. `Apart` is not
  inductive: a prompt may claim the harness only because its command is counted while no mutation is
  active, so `Stages` says which command can be where and `Excludes` what runs beside a mutation;
  `Ends` that what the gather waits for is all that is in a replacement; `Leased` that a lease is a
  running configuration's or the installed one; `Cancelled` where a cancel that was answered is kept
  until it is raised.

**The conditions, and why they are there.** `FewOnAuth`: the calls on `auth.json` are of one process, or are two. A third call
that opened the file before another one replaced it is excluded by nobody; that is what `shared_siblings` finds. `ListsApart`: a list that a process
edits has no other save of that process. The loop may take over two edits' lists in the other order, and no caller of
the code makes two. Both hold of the histories `shared` explores. The conditions on `SessionSwap` are the
histories section 3 leaves out.

**Facts about data.** What a recursive definition computes cannot be proved by the library's induction theorems here, which
take an operator as a parameter. The proofs about `Without`, `Readable`, `Kept`, `Path` and the counts of `PromptTurn` go by the
lowest number, or the shortest prefix, that would be an exception: `NatLessThanWellFounded` with
`WFMin`. For that these operators are recursive functions over the prefixes of a sequence, not folds.

**What the proofs changed in the models.** An invariant that failed to be inductive showed that two cases of a `CASE` in
`PromptTurn` overlapped and its value was a choice, that `SessionSwap` needed
its "nobody" to differ from an owner, and that
`SessionStore` bounds the appends still owed only for finitely many tasks.

**Model-checked only**: liveness and termination (out of the prover's reach): `ComesToRest`, `ComesIdle`,
`SecondCancelEnds`, `TransitionsEnd`, `StopAllEnds`, `KillIsPrompt`, `ShutdownEnds`, and that `shared` never stops early.

## 6. Not modelled, and why

* **A published session file's staging**: one rename between two synchronous calls; a crash between
  the two is what section 7 leaves first. **Soft writer locks** with two processes: nothing orders them.
* **RPC client and framing**: the client is a test double's shape around futures; the control plane it
  drives is modelled. Budgets of a prompt, profiles, consent and the RPC channel of delegations; the way back of
  a branch.
* **MCP connections of extensions**: the retry beside a call in flight has no caller in production
  code; the leases RPC mode makes of them are in `RpcControl`.
* **Built-in tools**: the mutation queue is one `asyncio.Lock` per real path, which excludes by
  construction; the rest of a tool is I/O.
* Where a compaction cuts and what a summary says, providers and wire formats, the model catalogue:
  data, not control. That a compaction happens, fails or is aborted is in `PromptTurn`.
* The order of handlers on the hook bus; the terminal interface (its Esc and its shell are callers of
  the modelled harness); process groups and job objects, whose behaviour the code only observes;
  extension loading, the command line and the server, which have no state of this kind.

The greater part of the repository's lines is screens, argument parsing, wire formats and loading:
the modules cover the components that keep concurrent state, and a small share of the lines.

## 7. Plan

*Done*: the nine modules above, with the theorems of section 5. *Left*, in this order:

1. `SessionFile`: header and one-shot publish (stage, rename) by create, fork and import, with a
   crash between any two steps; the soft writer lock and two processes over one file.
2. `RpcClient`: registration, acceptance and the end of a prompt over one pipe.
3. Composition: `WriteLog`, an abstract log of records that `PendingWrites` implements, and
   `PendingWrites` over the storage of `SessionStore`.
4. Proofs: the conditional theorems for the histories they leave out, where the code is changed so that
   they hold: a temporary file of each writer's own under `auth.json` (`RefreshedOnce`, `Agree`), the second
   giving back guarded against a cancel (`LeavesClean`).

Further questions about a modelled component become another history of its run, not another run.
