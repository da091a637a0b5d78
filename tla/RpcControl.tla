----------------------------- MODULE RpcControl -----------------------------
(***************************************************************************)
(* The control plane of RPC mode (rpc/control.py, the leases of            *)
(* control_mcp.py, run_rpc_mode of rpc_mode.py): control mutations behind  *)
(* one asyncio.Lock, the classic commands beside them, cancels, and what   *)
(* happens when stdin closes or a signal comes.                            *)
(*                                                                         *)
(* A request is one line, dispatched in a task of its own.  A replacement  *)
(* of the harness is its hooks, the teardown and the install with the      *)
(* rebind (SessionSwap has the rest of it).  Reads, aborts, dialogs (which *)
(* end by themselves) and ui/enable (no await, no gate) are left out;      *)
(* `setting' stands for the mutations that only wait for a write, `other'  *)
(* for the classic commands that neither start a turn nor replace the      *)
(* session, and agents/run and auth/login are commands that start no       *)
(* replacement.                                                            *)
(***************************************************************************)
EXTENDS Naturals, SequencesExt

CONSTANTS Ops, Commands,  \* control mutations and classic commands a client may send
          Nobody,
          Scopes          \* bounds: for each history, what is sent, how often it is cancelled, what ends it

Methods == {"command", "reload", "setting", "configure"}
CANCELLABLE_METHODS == {"command", "configure"}
Kinds == {"prompt", "compact", "swap", "other"}
CLASSIC_TRANSITIONS == {"prompt", "compact", "swap"}

ASSUME RequestsAssumption ==
  /\ Ops \cap Commands = {} /\ Nobody \notin Ops \cup Commands
  /\ \A s \in Scopes :
       /\ \A o \in Ops : s.methods[o] \subseteq Methods
       /\ \A c \in Commands : s.kinds[c] \subseteq Kinds
       /\ s.ends \subseteq BOOLEAN

VARIABLES
  scope,
  at, method,            \* `operations': where each one is, and what it asks for
  hit, interrupted,      \* a CancelledError on its way, or kept by `_finish_uncancelled'
  told,                  \* history: answered that it is cancelled
  lock, waiters,
  in, kind,              \* where a classic command is, and what it asks for
  stale,                 \* commands whose harness was torn down
  stage,                 \* the replacement a request runs
  owner,                 \* the command whose turn or compaction the live harness runs
  aborted,               \* compactions told to stop
  lease, leases, tools,  \* `owner' of RpcMcpController, the connected ones, the one the harness has the tools of
  host, eof, gathered,   \* the main loop
  cancels                \* bounded counter

plane == <<at, method, lock, waiters>>
cut == <<hit, interrupted, told>>
classic == <<in, kind>>
harness == <<owner, stale, stage>>
mcp == <<lease, leases, tools>>
loop == <<host, eof, gathered, aborted>>
vars == <<scope, plane, cut, classic, harness, mcp, loop, cancels>>

TypeOK ==
  /\ scope \in Scopes
  /\ at \in [Ops -> {"new", "queued", "work", "swap", "retire", "done"}]
  /\ method \in [Ops -> Methods \cup {"none"}]
  /\ hit \subseteq Ops /\ interrupted \subseteq Ops /\ told \subseteq Ops
  /\ lock \in Ops \cup {Nobody} /\ waiters \in Seq(Ops)
  /\ in \in [Commands -> {"new", "start", "claimed", "working", "swap", "done"}]
  /\ kind \in [Commands -> Kinds \cup {"none"}] /\ stale \subseteq Commands
  /\ stage \in [Ops \cup Commands -> {"off", "hooks", "torn"}]
  /\ owner \in Commands \cup {Nobody} /\ aborted \subseteq Commands
  /\ lease \in Ops \cup {Nobody} /\ tools \in Ops \cup {Nobody} /\ leases \subseteq Ops
  /\ host \in {"serving", "closing", "finishing", "gone"} /\ eof \in BOOLEAN
  /\ gathered \subseteq Ops \cup Commands
  /\ cancels \in Nat
  /\ \A o \in Ops : at[o] \in {"work", "swap", "retire"} <=> lock = o

Init ==
  /\ scope \in Scopes
  /\ at = [o \in Ops |-> "new"] /\ method = [o \in Ops |-> "none"]
  /\ hit = {} /\ interrupted = {} /\ told = {}
  /\ lock = Nobody /\ waiters = <<>>
  /\ in = [c \in Commands |-> "new"] /\ kind = [c \in Commands |-> "none"]
  /\ stale = {} /\ stage = [x \in Ops \cup Commands |-> "off"]
  /\ owner = Nobody /\ aborted = {}
  /\ lease = Nobody /\ leases = {} /\ tools = Nobody
  /\ host = "serving" /\ eof = FALSE /\ gathered = {}
  /\ cancels = 0

-----------------------------------------------------------------------------
Active(o) == at[o] \in {"work", "swap", "retire"}
Pending(o) == at[o] = "queued" \/ Active(o)
InFlight == {c \in Commands : in[c] \notin {"new", "done"}}      \* classic_inflight
Swapping == {c \in Commands : in[c] = "swap"}                     \* classic_swapping
Transitioning == {o \in Ops : at[o] = "swap"}                     \* transitioning
Reading == host = "serving" \/ (host = "closing" /\ ~eof)         \* lines still arrive
Closing == host # "serving"

Moves(o, where) == at' = [at EXCEPT ![o] = where]

\* `async with self.lock' is left and the operation answered.
Answered(o) ==
  /\ Moves(o, "done") /\ lock' = Nobody
  /\ hit' = hit \ {o} /\ interrupted' = interrupted \ {o}
  /\ UNCHANGED <<waiters, told>>

\* Mutant: a classic command in flight does not refuse a mutation.
Quiescent_PhaseOnly == owner = Nobody

Quiescent == InFlight = {} /\ owner = Nobody

\* The body of handle() once it has the lock.
Body(o, m) ==
  \/ ~Quiescent /\ Moves(o, "done") /\ UNCHANGED <<lock, stage, leases>>
  \/ /\ Quiescent /\ lock' = o
     /\ Moves(o, IF m = "reload" THEN "swap" ELSE "work")
     /\ stage' = [stage EXCEPT ![o] = IF m = "reload" THEN "hooks" ELSE @]
     /\ leases' = leases \cup (IF m = "configure" THEN {o} ELSE {})

\* A line of the control envelope.
Request(o) ==
  /\ Reading /\ at[o] = "new"
  /\ \E m \in scope.methods[o] :
       /\ method' = [method EXCEPT ![o] = m]
       /\ \/ Closing /\ Moves(o, "done") /\ UNCHANGED <<lock, waiters, stage, leases>>
          \/ /\ ~Closing /\ lock = Nobody /\ ToSet(waiters) \subseteq hit
             /\ Body(o, m) /\ UNCHANGED waiters
          \/ /\ ~Closing /\ ~(lock = Nobody /\ ToSet(waiters) \subseteq hit)
             /\ Moves(o, "queued") /\ waiters' = Append(waiters, o)
             /\ UNCHANGED <<lock, stage, leases>>
  /\ UNCHANGED <<scope, cut, classic, owner, stale, lease, tools, loop, cancels>>

\* The lock was free since the last holder left: the first waiter goes on, or leaves if it was cancelled.
Wake(o) ==
  /\ at[o] = "queued" /\ lock = Nobody /\ waiters # <<>> /\ o = Head(waiters) /\ o \notin hit
  /\ waiters' = Tail(waiters)
  /\ \/ Closing /\ Moves(o, "done") /\ UNCHANGED <<lock, stage, leases>>
     \/ ~Closing /\ Body(o, method[o])
  /\ UNCHANGED <<scope, method, cut, classic, owner, stale, lease, tools, loop, cancels>>

LeavesQueue(o) ==
  /\ at[o] = "queued" /\ o \in hit
  /\ Moves(o, "done") /\ hit' = hit \ {o}
  /\ \E i \in DOMAIN waiters : waiters[i] = o /\ waiters' = RemoveAt(waiters, i)
  /\ UNCHANGED <<scope, method, lock, interrupted, told, classic, harness, mcp, loop, cancels>>

\* What a setting waits for was written, or an extension's handler returned or raised.
WorkEnds(o) ==
  /\ at[o] = "work" /\ method[o] \in {"command", "setting"} /\ o \notin hit
  /\ Answered(o)
  /\ UNCHANGED <<scope, method, classic, harness, mcp, loop, cancels>>

\* Mutant: a cancelled configuration leaves its servers connected.
Unwinds_KeepsLease(o) ==
  /\ at[o] \in {"work", "retire"} /\ o \in hit
  /\ Answered(o)
  /\ UNCHANGED <<scope, method, classic, harness, mcp, loop, cancels>>

\* A cancel is raised where the operation stands; a configuration not yet installed is rolled back.
Unwinds(o) ==
  /\ at[o] \in {"work", "retire"} /\ o \in hit
  /\ Answered(o)
  /\ leases' = IF at[o] = "work" THEN leases \ {o} ELSE leases
  /\ UNCHANGED <<scope, method, classic, harness, lease, tools, loop, cancels>>

\* configure(): connected in time, and installed on the live harness; the previous lease is told to stop.
Connects(o) ==
  /\ at[o] = "work" /\ method[o] = "configure" /\ o \notin hit
  /\ tools' = o /\ lease' = o /\ leases' = leases \ {lease}
  /\ IF lease = Nobody THEN Answered(o)
     ELSE Moves(o, "retire") /\ UNCHANGED <<lock, waiters, cut>>
  /\ UNCHANGED <<scope, method, classic, harness, loop, cancels>>

ConnectFails(o) ==
  /\ at[o] = "work" /\ method[o] = "configure" /\ o \notin hit
  /\ leases' = leases \ {o} /\ Answered(o)
  /\ UNCHANGED <<scope, method, classic, harness, lease, tools, loop, cancels>>

PreviousEnds(o) ==
  /\ at[o] = "retire" /\ o \notin hit /\ Answered(o)
  /\ UNCHANGED <<scope, method, classic, harness, mcp, loop, cancels>>

-----------------------------------------------------------------------------
\* The checks of transition().
MaySwap == ~Closing /\ InFlight = {}

\* A handler calls ctx.new_session(), fork(), switch_session() or reload(); a refusal is an error it sees.
Replaces(o) ==
  /\ at[o] = "work" /\ method[o] = "command" /\ o \notin hit /\ MaySwap
  /\ Moves(o, "swap") /\ stage' = [stage EXCEPT ![o] = "hooks"]
  /\ UNCHANGED <<scope, method, lock, waiters, cut, classic, owner, stale, mcp, loop, cancels>>

\* A replacement tears the old harness down, and its turn with it.
Tears(x) ==
  /\ stage[x] = "hooks"
  /\ stage' = [stage EXCEPT ![x] = "torn"]
  /\ owner' = Nobody /\ stale' = stale \cup (InFlight \ Swapping)
  /\ UNCHANGED <<scope, plane, cut, classic, mcp, loop, cancels>>

\* Mutant: a cancel met during a replacement is not raised when it is over.
Resumes_Forgets(o, raised) ==
  IF method[o] = "reload" THEN Answered(o)
  ELSE /\ \/ Answered(o)
          \/ Moves(o, "work") /\ UNCHANGED <<lock, waiters, hit, told>> /\ interrupted' = interrupted \ {o}

\* Mutant: the lock is held for the replacement only.
Resumes_Unlocks(o, raised) ==
  \/ Answered(o)
  \/ /\ method[o] = "command" /\ o \notin interrupted
     /\ Moves(o, "work") /\ lock' = Nobody /\ UNCHANGED <<waiters, cut>>

\* _finish_uncancelled() returns, raises the cancel it kept, or raises what the replacement raised, whatever
\* it kept: a handler ends, or goes on where nothing or something it catches was raised.
Resumes(o, raised) ==
  \/ Answered(o)
  \/ /\ method[o] = "command" /\ (o \in interrupted => raised /\ scope.catches)
     /\ Moves(o, "work") /\ interrupted' = interrupted \ {o}
     /\ UNCHANGED <<lock, waiters, hit, told>>

\* The caller of a replacement that is over, a mutation or a classic command, goes on.
Over(x, raised) ==
  /\ stage' = [stage EXCEPT ![x] = "off"]
  /\ IF x \in Ops THEN Resumes(x, raised) /\ UNCHANGED in
     ELSE in' = [in EXCEPT ![x] = "done"] /\ UNCHANGED <<at, lock, waiters, cut>>
  /\ UNCHANGED <<scope, method, kind, owner, stale, lease, leases, loop, cancels>>

\* A hook vetoes the replacement, or it raises before the teardown.
Declines(x) == stage[x] = "hooks" /\ UNCHANGED tools /\ \E raised \in BOOLEAN : Over(x, raised)

\* The new harness, or after a failed build the old session's again, is installed and rebound.
Installs(x) == stage[x] = "torn" /\ tools' = lease /\ \E raised \in BOOLEAN : Over(x, raised)

-----------------------------------------------------------------------------
\* classic_gate().
Admits(k) ==
  /\ Transitioning = {} /\ Swapping = {}
  /\ k \in CLASSIC_TRANSITIONS => lock = Nobody

\* A line with a classic command, up to the first await of its handler.
Command(c) ==
  /\ Reading /\ in[c] = "new"
  /\ \E k \in scope.kinds[c] :
       /\ kind' = [kind EXCEPT ![c] = k]
       /\ IF ~Admits(k) \/ (k \in {"prompt", "compact"} /\ owner # Nobody)
          THEN in' = [in EXCEPT ![c] = "done"] /\ UNCHANGED <<owner, stage>>
          ELSE /\ in' = [in EXCEPT ![c] = CASE k = "prompt" -> "start" [] k = "swap" -> "swap" [] OTHER -> "working"]
               /\ owner' = IF k = "compact" THEN c ELSE owner
               /\ stage' = [stage EXCEPT ![c] = IF k = "swap" THEN "hooks" ELSE @]
  /\ UNCHANGED <<scope, plane, cut, stale, mcp, loop, cancels>>

Finishes(c) == in' = [in EXCEPT ![c] = "done"] /\ UNCHANGED <<scope, plane, cut, kind, stale, stage, mcp, loop, cancels>>
Frees(c) == owner' = IF owner = c THEN Nobody ELSE owner

\* The prompt's own task begins: it claims the harness, unless another has or the harness is gone.
PromptClaims(c) ==
  /\ in[c] = "start"
  /\ IF owner = Nobody /\ c \notin stale
     THEN /\ in' = [in EXCEPT ![c] = "claimed"] /\ owner' = c
          /\ UNCHANGED <<scope, plane, cut, kind, stale, stage, mcp, loop, cancels>>
     ELSE Finishes(c) /\ UNCHANGED owner

\* It is accepted, and answered while its turn runs, or rejected.
PromptJudged(c) == in[c] = "claimed" /\ Finishes(c) /\ (UNCHANGED owner \/ Frees(c))

OtherEnds(c) == in[c] = "working" /\ kind[c] = "other" /\ Finishes(c) /\ UNCHANGED owner
CompactEnds(c) == in[c] = "working" /\ kind[c] = "compact" /\ Finishes(c) /\ Frees(c)

\* The turn of an accepted prompt ends.
TurnEnds(c) ==
  /\ owner = c /\ in[c] = "done" /\ owner' = Nobody
  /\ UNCHANGED <<scope, plane, cut, classic, stale, stage, mcp, loop, cancels>>

-----------------------------------------------------------------------------
\* task.cancel() on each of these: at once, or kept until a replacement is over.
Interrupt(ops) ==
  /\ hit' = hit \cup {o \in ops : at[o] # "swap"}
  /\ interrupted' = interrupted \cup {o \in ops : at[o] = "swap"}
  /\ told' = told \cup ops

MayCancel(o) == Pending(o) /\ (Active(o) => method[o] \in CANCELLABLE_METHODS)

\* commands/cancel, by id or of the one that runs.
Cancel(o) ==
  /\ Reading /\ cancels < scope.cancels /\ MayCancel(o)
  /\ Interrupt({o}) /\ cancels' = cancels + 1
  /\ UNCHANGED <<scope, plane, classic, harness, mcp, loop>>

BeginShutdown == Interrupt({o \in Ops : MayCancel(o)})

\* Mutant: a compaction is left to its summary.
StopsCompaction_Not == {}

StopsCompaction == {c \in Commands : owner = c /\ kind[c] = "compact"}

\* stdin closed, or a signal or a broken pipe asked for the end.
Shutdown ==
  /\ host = "serving" /\ host' = "closing" /\ eof' \in scope.ends
  /\ BeginShutdown /\ aborted' = StopsCompaction
  /\ gathered' = {o \in Ops : Pending(o)} \cup InFlight
  /\ UNCHANGED <<scope, plane, classic, harness, mcp, cancels>>

Done(x) == IF x \in Ops THEN at[x] = "done" ELSE in[x] = "done"

\* The requests of before are answered: no more lines, and close() ends the leases.
Gathered ==
  /\ host = "closing" /\ \A x \in gathered : Done(x)
  /\ host' = "finishing" /\ leases' = {} /\ lease' = Nobody
  /\ UNCHANGED <<scope, plane, cut, classic, harness, tools, eof, gathered, aborted, cancels>>

Dispose ==
  /\ host = "finishing" /\ host' = "gone" /\ owner' = Nobody
  /\ UNCHANGED <<scope, plane, cut, classic, stale, stage, mcp, eof, gathered, aborted, cancels>>

-----------------------------------------------------------------------------
OpStep(o) ==
  \/ Wake(o) \/ LeavesQueue(o) \/ Unwinds(o) \/ Connects(o) \/ ConnectFails(o) \/ PreviousEnds(o)
  \/ WorkEnds(o) /\ method[o] = "setting"

Handler(o) == Replaces(o) \/ (WorkEnds(o) /\ method[o] = "command")

Replacement(x) == Tears(x) \/ Declines(x) \/ Installs(x)

CommandStep(c) ==
  \/ PromptClaims(c) \/ PromptJudged(c) \/ OtherEnds(c)
  \/ CompactEnds(c) /\ c \in aborted \cup stale

Next ==
  /\ host # "gone"
  /\ \/ \E o \in Ops : Request(o) \/ OpStep(o) \/ Handler(o) \/ Cancel(o)
     \/ \E x \in Ops \cup Commands : Replacement(x)
     \/ \E c \in Commands : Command(c) \/ CommandStep(c) \/ CompactEnds(c) \/ TurnEnds(c)
     \/ Shutdown \/ Gathered \/ Dispose

Spec == Init /\ [][Next]_vars

\* The event loop runs what can go on; a setting's write, a connect (it has a deadline), the hooks and
\* the build of a replacement, a prompt's acceptance and any other classic command end.  A handler, a
\* turn and a summary need not.
Fairness ==
  /\ \A o \in Ops : WF_vars(OpStep(o) /\ host # "gone")
  /\ \A x \in Ops \cup Commands : WF_vars(Replacement(x) /\ host # "gone")
  /\ \A c \in Commands : WF_vars(CommandStep(c) /\ host # "gone")
  /\ WF_vars(Gathered \/ Dispose)

FairSpec == Spec /\ Fairness

-----------------------------------------------------------------------------
\* Control mutations and classic commands exclude each other (ADR-0275 section 3, #594, #663): one
\* mutation at a time, on a harness that is idle, beside no command that starts a turn or replaces the
\* session, and its replacement beside none at all; one replacement at a time; and when stdin was closed
\* the runtime is disposed with none half-way.
Apart ==
  /\ \A o \in Ops : Active(o) =>
       /\ \A p \in Ops : Active(p) => p = o
       /\ owner = Nobody /\ \A c \in InFlight : kind[c] \notin CLASSIC_TRANSITIONS
       /\ at[o] = "swap" => InFlight = {}
  /\ \A x, y \in Ops \cup Commands : stage[x] # "off" /\ stage[y] # "off" => x = y
  /\ host = "gone" /\ eof => \A x \in Ops \cup Commands : stage[x] = "off"

\* Outside a replacement the live harness has the tools of the installed lease, and no other lease is
\* connected but the one a running configuration may still roll back (configure, attach).
LeaseFollows ==
  host \in {"serving", "closing"} =>
    /\ (\A x \in Ops \cup Commands : stage[x] # "torn") => tools = lease
    /\ leases \ {o \in Ops : at[o] = "work"} = {lease} \ {Nobody}

\* An operation that was told it is cancelled gets no further: not to its body, to another replacement or
\* to an install; and once the client is gone no mutation starts (#594).
Begins(o) ==
  \/ ~Active(o) /\ at'[o] \in {"work", "swap", "retire"}
  \/ stage[o] = "off" /\ stage'[o] # "off"
  \/ lease # o /\ lease' = o
CancelHolds == [][\A o \in Ops : Begins(o) => o \notin told /\ ~Closing]_vars

\* Shutdown ends, whatever handler, turn or summary would not.
ShutdownEnds == host = "closing" ~> host = "gone"
=============================================================================
