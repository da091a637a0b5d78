--------------------------- MODULE PendingWrites ---------------------------
(***************************************************************************)
(* The session writes an AgentHarness queues while it is busy              *)
(* (harness/core.py): `_pending_session_writes', the flush that detaches   *)
(* the queue, the drain lock around it, and every caller that drains --    *)
(* prompt() at its entry and its release, an idle set_thinking_level() or  *)
(* set_model(), compact() and navigate_tree() at their entry, dispose() -- *)
(* with the writers that go to the session directly.                       *)
(*                                                                         *)
(* A write is the number of its place in the order the harness decided to  *)
(* record it; 0 is the record of an idle_write() body, which never uses    *)
(* the queue.  The session is a FIFO of appends in progress, as the        *)
(* storage's own asyncio.Lock makes it, and an append may suspend its      *)
(* caller (FileSystem is an awaiting protocol).  One action runs from one  *)
(* suspension point of a coroutine to the next.                            *)
(***************************************************************************)
EXTENDS Naturals, Sequences, FiniteSets

CONSTANTS Prompts,      \* tasks that call prompt() once
          Setters,      \* tasks that call set_thinking_level()/set_model() once
          Recorders,    \* tasks that enter idle_write() once
          Compactors,   \* tasks that call a public compact()/navigate_tree() once
          Disposers,    \* tasks that call dispose() once
          Nobody,       \* the owner of a free lock
          MaxWrites     \* bound: writes the run may record

Tasks == Prompts \cup Setters \cup Recorders \cup Compactors \cup Disposers

ASSUME RolesAssumption ==
  /\ MaxWrites \in Nat
  /\ Nobody \notin Tasks
  /\ Prompts \cap (Setters \cup Recorders \cup Compactors \cup Disposers) = {}
  /\ Compactors \cap (Setters \cup Recorders \cup Disposers) = {}
  /\ Setters \cap (Recorders \cup Disposers) = {}
  /\ Recorders \cap Disposers = {}

VARIABLES
  phase,      \* `_phase': "idle", "turn" or "compaction"
  disposed,   \* `_disposed'
  queue,      \* `_pending_session_writes'
  lock,       \* the task holding `_drain_lock', or Nobody
  waiters,    \* the tasks waiting for `_drain_lock', oldest first
  pc,         \* where each task stands
  batch,      \* what each task's flush, or direct append, still holds
  store,      \* appends the session storage has begun, oldest first
  log,        \* the queue-carried records on the session, oldest first
  issued,     \* how many writes the harness decided to record
  dropped,    \* writes refused by the session, or cut while being appended
  ran,        \* the tasks that ran since the drain lock was handed to a waiter
  overtaken   \* history: a claim was made while the lock was being handed over

vars == <<phase, disposed, queue, lock, waiters, pc, batch, store, log, issued, dropped,
          ran, overtaken>>

Record == 0
Writes == 1..MaxWrites

\* Where a task is inside `_drain_pending_session_writes', waiting for the lock or holding it.
Draining == {"entry", "release", "setdrain", "closing"}

TypeOK ==
  /\ phase \in {"idle", "turn", "compaction"}
  /\ disposed \in BOOLEAN
  /\ queue \in Seq(Writes)
  /\ lock \in Tasks \cup {Nobody}
  /\ waiters \in Seq(Tasks)
  /\ pc \in [Tasks -> {"start", "hook", "direct", "waitidle", "body", "nested", "done"} \cup Draining]
  /\ batch \in [Tasks -> Seq(Writes) \cup {<<Record>>}]
  /\ \A t \in Tasks : batch[t] = <<Record>> => t \in Recorders
  /\ store \in Seq([task : Tasks, write : Writes \cup {Record}])
  /\ log \in Seq(Writes)
  /\ issued \in 0..MaxWrites
  /\ dropped \subseteq Writes
  /\ ran \subseteq Tasks
  /\ overtaken \in BOOLEAN

Init ==
  /\ phase = "idle"
  /\ disposed = FALSE
  /\ queue = <<>>
  /\ lock = Nobody
  /\ waiters = <<>>
  /\ pc = [t \in Tasks |-> "start"]
  /\ batch = [t \in Tasks |-> <<>>]
  /\ store = <<>>
  /\ log = <<>>
  /\ issued = 0
  /\ dropped = {}
  /\ ran = {}
  /\ overtaken = FALSE

Locked == lock # Nobody             \* asyncio.Lock.locked(): false while a woken waiter has not run
HandedOver == lock = Nobody /\ waiters # <<>>
Flushing(t) == batch[t] # <<>>      \* suspended in a session append

\* s without its i-th element; a task waits once at most, and has one append at most in the store.
Minus(s, i) == [j \in 1..(Len(s) - 1) |-> IF j < i THEN s[j] ELSE s[j + 1]]
WithoutTask(s, t) == IF \E i \in DOMAIN s : s[i] = t
                       THEN Minus(s, CHOOSE i \in DOMAIN s : s[i] = t) ELSE s
WithoutAppend(s, t) == IF \E i \in DOMAIN s : s[i].task = t
                         THEN Minus(s, CHOOSE i \in DOMAIN s : s[i].task = t) ELSE s

\* Mutant: the rest is lost.
Requeue_Lost(rest, q) == q

\* The un-attempted rest of a cut flush goes back ahead of what was queued meanwhile.
Requeue(rest, q) == rest \o q

\* Mutant: an empty queue is enough.
NothingToDrain_QueueOnly(q) == q = <<>>

\* A drain has nothing to do when nothing is queued and no other drain holds detached writes.
NothingToDrain(q) == q = <<>> /\ ~Locked

\* Mutant: it appends whatever is queued.
NothingOlder_Ignored == TRUE

\* An idle setter may append at once only when nothing older is queued or being appended.
NothingOlder == queue = <<>> /\ ~Locked

\* Mutant: a cancel leaves the lock taken.
Unlocked_Kept(t) == lock

\* `async with' releases the lock its body held, a cancel included.
Unlocked(t) == IF lock = t THEN Nobody ELSE lock

-----------------------------------------------------------------------------
\* flush_pending_session_writes: detach the queue and begin appending its head to the store s.
Detach(t, q, s) ==
  /\ batch' = [batch EXCEPT ![t] = q]
  /\ store' = Append(s, [task |-> t, write |-> Head(q)])
  /\ queue' = <<>>

\* Where a caller goes once its drain is over, and the phase it leaves behind.
After(d) == IF d = "entry" THEN "body" ELSE "done"
Leaves(d) == phase' = IF d = "release" THEN "idle" ELSE phase

\* _drain_pending_session_writes, entered with q queued: it returns at once when nothing is queued
\* and no drain runs, takes a free lock nobody waits for, and otherwise queues up for it.
Drain(t, d, q, ph) ==
  \/ /\ NothingToDrain(q)
     /\ pc' = [pc EXCEPT ![t] = After(d)]
     /\ phase' = IF d = "release" THEN "idle" ELSE ph
     /\ queue' = q
     /\ UNCHANGED <<lock, waiters, batch, store>>
  \/ /\ ~NothingToDrain(q) /\ ~Locked /\ waiters = <<>>
     /\ pc' = [pc EXCEPT ![t] = d]
     /\ phase' = ph
     /\ lock' = t
     /\ Detach(t, q, store)
     /\ UNCHANGED waiters
  \/ /\ ~NothingToDrain(q) /\ (Locked \/ waiters # <<>>)
     /\ pc' = [pc EXCEPT ![t] = d]
     /\ phase' = ph
     /\ queue' = q
     /\ waiters' = Append(waiters, t)
     /\ UNCHANGED <<lock, batch, store>>

\* The drain holds the lock, with the appends in s begun by others: another flush, or the end.
DrainLoop(t, s) ==
  IF queue # <<>>
    THEN /\ Detach(t, queue, s)
         /\ lock' = t
         /\ UNCHANGED <<pc, phase>>
    ELSE /\ lock' = Nobody
         /\ pc' = [pc EXCEPT ![t] = After(pc[t])]
         /\ Leaves(pc[t])
         /\ batch' = [batch EXCEPT ![t] = <<>>]
         /\ store' = s
         /\ UNCHANGED queue

\* A direct append of write w by its caller.
AppendDirectly(t, w) == /\ batch' = [batch EXCEPT ![t] = <<w>>]
                        /\ store' = Append(store, [task |-> t, write |-> w])
                        /\ pc' = [pc EXCEPT ![t] = "direct"]

-----------------------------------------------------------------------------
\* The lock reaches its oldest waiter.  An idle_write() asks `_disposed' again, and nothing else.
Wake(t) ==
  /\ HandedOver /\ Head(waiters) = t
  /\ waiters' = Tail(waiters)
  /\ \/ /\ pc[t] \in Draining
        /\ DrainLoop(t, store)
     \/ /\ t \in Recorders /\ pc[t] = "hook" /\ ~disposed
        /\ lock' = t
        /\ AppendDirectly(t, Record)
        /\ UNCHANGED <<phase, queue>>
     \/ /\ t \in Recorders /\ pc[t] = "hook" /\ disposed
        /\ pc' = [pc EXCEPT ![t] = "done"]
        /\ UNCHANGED <<phase, queue, lock, batch, store>>
  /\ UNCHANGED <<disposed, log, issued, dropped, overtaken>>

\* The append of t is over: the rest of its batch follows, behind the appends of others; then the
\* drain loops, and a turn_end flush or a direct append returns.
Resume(t) ==
  LET rest == Tail(batch[t])
      others == WithoutAppend(store, t)
  IN \/ /\ rest # <<>>
        /\ batch' = [batch EXCEPT ![t] = rest]
        /\ store' = Append(others, [task |-> t, write |-> Head(rest)])
        /\ UNCHANGED <<phase, pc, queue, lock>>
     \/ /\ rest = <<>> /\ pc[t] \in Draining
        /\ DrainLoop(t, others)
     \/ /\ rest = <<>> /\ pc[t] \in {"body", "direct"}
        /\ batch' = [batch EXCEPT ![t] = <<>>]
        /\ store' = others
        /\ pc' = [pc EXCEPT ![t] = IF @ = "direct" THEN "done" ELSE @]
        /\ lock' = IF lock = t THEN Nobody ELSE lock
        /\ UNCHANGED <<phase, queue>>

Appending(t) == Flushing(t) /\ store # <<>> /\ Head(store).task = t

Land(t) ==
  /\ Appending(t)
  /\ log' = IF Head(batch[t]) = Record THEN log ELSE Append(log, Head(batch[t]))
  /\ Resume(t)
  /\ UNCHANGED <<disposed, waiters, issued, dropped, overtaken>>

\* The session refuses the entry: it is logged and counted, and the flush goes on.
Refuse(t) ==
  /\ Appending(t)
  /\ dropped' = dropped \cup ({Head(batch[t])} \ {Record})
  /\ Resume(t)
  /\ UNCHANGED <<disposed, waiters, log, issued, overtaken>>

-----------------------------------------------------------------------------
\* A claim made while the lock is between two holders.
Overtakes == overtaken' = (overtaken \/ HandedOver)

Prompt(t) ==
  /\ t \in Prompts /\ pc[t] = "start"
  /\ ~disposed /\ phase = "idle"
  /\ Drain(t, "entry", queue, "turn")
  /\ Overtakes
  /\ UNCHANGED <<disposed, log, issued, dropped>>

\* The turn_end flush of a turn, and the one in `_run's finally: not under the lock.
TurnFlush(t) ==
  /\ t \in Prompts /\ pc[t] = "body" /\ ~Flushing(t)
  /\ queue # <<>>
  /\ Detach(t, queue, store)
  /\ UNCHANGED <<phase, disposed, lock, waiters, pc, log, issued, dropped, overtaken>>

\* An overflow or threshold compaction nests under the prompt's claim.  The queue is left to the
\* prompt, but the phase says "compaction", so a setter may append at once.
PromptCompacts(t) ==
  /\ t \in Prompts /\ pc[t] = "body" /\ ~Flushing(t)
  /\ pc' = [pc EXCEPT ![t] = "nested"]
  /\ phase' = "compaction"
  /\ UNCHANGED <<disposed, queue, lock, waiters, batch, store, log, issued, dropped, overtaken>>

\* Mutant: it goes idle, as a compaction with a claim of its own does.
HandedBack_Idle == "idle"

\* What a nested compaction leaves: the claim is the prompt's still.
HandedBack == "turn"

\* It ends, fails or is aborted, and the prompt goes on: a re-run, or its closing checks.
PromptCompacted(t) ==
  /\ t \in Prompts /\ pc[t] = "nested"
  /\ pc' = [pc EXCEPT ![t] = "body"]
  /\ phase' = HandedBack
  /\ UNCHANGED <<disposed, queue, lock, waiters, batch, store, log, issued, dropped, overtaken>>

\* The turn and its retries are over; a closing compaction, or a cancel of one, goes straight on.
PromptCloses(t) ==
  /\ t \in Prompts /\ pc[t] \in {"body", "nested"} /\ ~Flushing(t)
  /\ Drain(t, "release", queue, "turn")
  /\ UNCHANGED <<disposed, log, issued, dropped, overtaken>>

\* append_message() by a hook, a tool or an extension while the harness is busy.
AppendMessage ==
  /\ phase # "idle"
  /\ issued < MaxWrites /\ issued' = issued + 1
  /\ queue' = Append(queue, issued + 1)
  /\ UNCHANGED <<phase, disposed, lock, waiters, pc, batch, store, log, dropped, overtaken>>

\* set_thinking_level()/set_model(): in a turn the change is queued before the select hook is awaited.
SetCalled(t) ==
  /\ t \in Setters /\ pc[t] = "start"
  /\ pc' = [pc EXCEPT ![t] = "hook"]
  /\ \/ /\ phase = "turn"
        /\ issued < MaxWrites /\ issued' = issued + 1
        /\ queue' = Append(queue, issued + 1)
     \/ /\ phase # "turn"
        /\ UNCHANGED <<issued, queue>>
  /\ UNCHANGED <<phase, disposed, lock, waiters, batch, store, log, dropped, overtaken>>

\* The hook raised, the phase says "turn", or the value did not change: nothing more is recorded.
SetEnds(t) ==
  /\ t \in Setters /\ pc[t] = "hook"
  /\ pc' = [pc EXCEPT ![t] = "done"]
  /\ UNCHANGED <<phase, disposed, queue, lock, waiters, batch, store, log, issued, dropped,
                 overtaken>>

\* After the hook, outside a turn: behind what is queued or being drained, else at once.
SetRecords(t) ==
  /\ t \in Setters /\ pc[t] = "hook" /\ phase # "turn"
  /\ issued < MaxWrites /\ issued' = issued + 1
  /\ \/ /\ NothingOlder
        /\ AppendDirectly(t, issued + 1)
        /\ UNCHANGED <<phase, queue, lock, waiters>>
     \/ /\ ~NothingOlder /\ phase = "idle"
        /\ Drain(t, "setdrain", Append(queue, issued + 1), phase)
     \/ /\ ~NothingOlder /\ phase # "idle"
        /\ queue' = Append(queue, issued + 1)
        /\ pc' = [pc EXCEPT ![t] = "done"]
        /\ UNCHANGED <<phase, lock, waiters, batch, store>>
  /\ UNCHANGED <<disposed, log, dropped, overtaken>>

\* idle_write(): refused at once when disposed or busy; then the drain lock.
IdleWrite(t) ==
  /\ t \in Recorders /\ pc[t] = "start"
  /\ ~disposed /\ phase = "idle"
  /\ \/ /\ ~Locked /\ waiters = <<>>
        /\ lock' = t
        /\ AppendDirectly(t, Record)
        /\ UNCHANGED waiters
     \/ /\ Locked \/ waiters # <<>>
        /\ waiters' = Append(waiters, t)
        /\ pc' = [pc EXCEPT ![t] = "hook"]
        /\ UNCHANGED <<lock, batch, store>>
  /\ UNCHANGED <<phase, disposed, queue, log, issued, dropped, overtaken>>

Compact(t) ==
  /\ t \in Compactors /\ pc[t] = "start"
  /\ phase = "idle"
  /\ Drain(t, "entry", queue, "compaction")
  /\ Overtakes
  /\ UNCHANGED <<disposed, log, issued, dropped>>

CompactEnds(t) ==
  /\ t \in Compactors /\ pc[t] = "body"
  /\ pc' = [pc EXCEPT ![t] = "done"]
  /\ phase' = "idle"
  /\ UNCHANGED <<disposed, queue, lock, waiters, batch, store, log, issued, dropped, overtaken>>

\* dispose(): what is queued on an idle harness is drained; a busy one is aborted and waited for.
Dispose(t) ==
  /\ t \in Disposers /\ pc[t] = "start"
  /\ disposed' = TRUE
  /\ \/ /\ phase = "idle"
        /\ Drain(t, "closing", queue, phase)
     \/ /\ phase # "idle"
        /\ pc' = [pc EXCEPT ![t] = "waitidle"]
        /\ UNCHANGED <<phase, queue, lock, waiters, batch, store>>
  /\ UNCHANGED <<log, issued, dropped, overtaken>>

DisposeIdle(t) ==
  /\ t \in Disposers /\ pc[t] = "waitidle" /\ phase = "idle"
  /\ Drain(t, "closing", queue, phase)
  /\ UNCHANGED <<disposed, log, issued, dropped, overtaken>>

-----------------------------------------------------------------------------
\* A cancel meets t: the append it is in, if any, may have landed only if it is being made.
CutHead(t) ==
  LET w == Head(batch[t]) IN
  \/ ~Flushing(t) /\ UNCHANGED <<log, dropped>>
  \/ Flushing(t) /\ w = Record /\ UNCHANGED <<log, dropped>>
  \/ Flushing(t) /\ w # Record /\ dropped' = dropped \cup {w} /\ UNCHANGED log
  \/ Appending(t) /\ w # Record /\ log' = Append(log, w) /\ UNCHANGED dropped

\* The rest of a cut flush goes back ahead of what was queued meanwhile.
CutFlush(t) ==
  /\ batch' = [batch EXCEPT ![t] = <<>>]
  /\ store' = WithoutAppend(store, t)
  /\ queue' = Requeue(Tail(batch[t]), queue)
  /\ CutHead(t)

Cut(t) == \/ Flushing(t) /\ CutFlush(t)
          \/ ~Flushing(t) /\ UNCHANGED <<batch, store, queue, log, dropped>>

\* abort() cancels the turn's task: it cuts a turn_end flush, and the close-out flushes again.
CancelTurn(t) ==
  /\ t \in Prompts /\ pc[t] = "body" /\ Flushing(t)
  /\ CutFlush(t)
  /\ UNCHANGED <<phase, disposed, lock, waiters, pc, issued, overtaken>>

\* prompt() is cancelled in its entry drain: its finally drains again before it releases.
CancelEntry(t) ==
  LET free == lock \in {t, Nobody}
      left == WithoutTask(waiters, t)
      q == IF Flushing(t) THEN Requeue(Tail(batch[t]), queue) ELSE queue
      s == WithoutAppend(store, t)
  IN
  /\ t \in Prompts /\ pc[t] = "entry"
  /\ CutHead(t)
  /\ \/ /\ q = <<>> /\ free
        /\ pc' = [pc EXCEPT ![t] = "done"] /\ phase' = "idle"
        /\ lock' = Nobody /\ waiters' = left
        /\ batch' = [batch EXCEPT ![t] = <<>>] /\ store' = s /\ queue' = q
     \/ /\ q # <<>> /\ free /\ left = <<>>
        /\ pc' = [pc EXCEPT ![t] = "release"] /\ UNCHANGED phase
        /\ lock' = t /\ waiters' = left
        /\ Detach(t, q, s)
     \/ /\ ~free \/ (q # <<>> /\ left # <<>>)
        /\ pc' = [pc EXCEPT ![t] = "release"] /\ UNCHANGED phase
        /\ lock' = IF free THEN Nobody ELSE lock
        /\ waiters' = Append(left, t)
        /\ batch' = [batch EXCEPT ![t] = <<>>] /\ store' = s /\ queue' = q
  /\ UNCHANGED <<disposed, issued, overtaken>>

\* Any other cancel ends its caller; a prompt's release and a compaction go idle all the same.
CancelCaller(t) ==
  /\ \/ pc[t] \in {"release", "setdrain", "direct", "waitidle", "closing"}
     \/ t \in Setters \cup Recorders /\ pc[t] = "hook"
     \/ t \in Compactors /\ pc[t] \in {"entry", "body"}
  /\ Cut(t)
  /\ lock' = Unlocked(t)
  /\ waiters' = WithoutTask(waiters, t)
  /\ pc' = [pc EXCEPT ![t] = "done"]
  /\ phase' = IF t \in Prompts \cup Compactors THEN "idle" ELSE phase
  /\ UNCHANGED <<disposed, issued, overtaken>>

-----------------------------------------------------------------------------
Step(t) ==
  \/ Wake(t) \/ Land(t) \/ Refuse(t)
  \/ Prompt(t) \/ TurnFlush(t) \/ PromptCompacts(t) \/ PromptCompacted(t) \/ PromptCloses(t)
  \/ SetCalled(t) \/ SetEnds(t) \/ SetRecords(t)
  \/ IdleWrite(t)
  \/ Compact(t) \/ CompactEnds(t)
  \/ Dispose(t) \/ DisposeIdle(t)

Cancel(t) == CancelTurn(t) \/ CancelEntry(t) \/ CancelCaller(t)

\* A released lock wakes its oldest waiter through the event loop's ready queue: until that waiter
\* has run, any other task runs at most the one step that was already due.
OneStepEach(t) ==
  /\ HandedOver => t \notin ran \/ t = Head(waiters)
  /\ ran' = IF HandedOver' THEN (IF HandedOver THEN ran ELSE {}) \cup {t} ELSE {}

Next == \/ AppendMessage /\ UNCHANGED ran
        \/ \E t \in Tasks : (Step(t) \/ Cancel(t)) /\ OneStepEach(t)

Spec == Init /\ [][Next]_vars

-----------------------------------------------------------------------------
InOrder == \A i, j \in DOMAIN log : i < j => log[i] < log[j]

\* Records reach the session in the order the harness decided to make them, whatever setters, turns,
\* compactions and cancels interleave -- unless a turn or a compaction was claimed while the drain
\* lock was between two holders (_drain_pending_session_writes, the idle setters, the flush).
LogInCallOrder == overtaken \/ InOrder

\* Where write w is: queued, detached by a flush, on the session, or dropped.
Places(w) == {<<"queue", i>> : i \in {i \in DOMAIN queue : queue[i] = w}}
             \cup (UNION {{<<t, i>> : i \in {i \in DOMAIN batch[t] : batch[t][i] = w}} : t \in Tasks})
             \cup {<<"log", i>> : i \in {i \in DOMAIN log : log[i] = w}}
             \cup {<<"dropped", 0>> : x \in dropped \cap {w}}

\* No write is lost or recorded twice: each one is in exactly one place, through detaches, refusals
\* and cancels in any order (flush_pending_session_writes).
NoWriteLost == \A w \in 1..issued : Cardinality(Places(w)) = 1

\* Writes a drain detached are appended by the holder of the drain lock alone, so two drains never
\* interleave their appends (_drain_pending_session_writes).
OneDrainAppends == \A t \in Tasks : pc[t] \in Draining /\ Flushing(t) => lock = t

\* The tasks between a claim of the harness and its release.
Claimants == {t \in Prompts : pc[t] \in {"entry", "body", "nested", "release"}}
             \cup {t \in Compactors : pc[t] \in {"entry", "body"}}

\* One prompt or compaction owns the harness at a time, and `_phase' says which is running, a
\* compaction nested under a prompt's claim included: a cancel in any drain neither frees somebody
\* else's turn nor leaves a phase nobody owns, and no nested compaction lets the harness go.
OneClaim ==
  /\ \A t, u \in Claimants : t = u
  /\ phase = "idle" <=> Claimants = {}
  /\ phase = "turn" <=> \E t \in Claimants \cap Prompts : pc[t] # "nested"

\* Both: who may append, and who may run.
OneOwner == OneDrainAppends /\ OneClaim

\* dispose() returns only when no drain and no turn holds detached writes (nothing queued is lost
\* at teardown), unless it is cancelled itself.
DisposeWaits ==
  [][\A d \in Disposers :
       pc[d] # "done" /\ pc'[d] = "done" /\ ~CancelCaller(d) =>
         queue' = <<>> /\ \A t \in Tasks : pc'[t] # "direct" => batch'[t] = <<>>]_vars

-----------------------------------------------------------------------------
\* The event loop runs what is due and a session append ends; nothing forces a cancel or a call.
Fairness == \A t \in Tasks :
  WF_vars((Wake(t) \/ Land(t) \/ PromptCloses(t) \/ SetEnds(t) \/ CompactEnds(t) \/ DisposeIdle(t))
          /\ OneStepEach(t))

FairSpec == Spec /\ Fairness

\* The harness comes to rest: its phase idle, its drain lock free and nobody waiting for it.
ComesToRest == <>[](phase = "idle" /\ lock = Nobody /\ waiters = <<>> /\ store = <<>>)
=============================================================================
