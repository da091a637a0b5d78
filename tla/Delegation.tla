----------------------------- MODULE Delegation -----------------------------
(***************************************************************************)
(* Delegations to child processes (aelix_agents): the members of one       *)
(* agent() call (batch.py), `/agents run', their registry, admission and   *)
(* stop_all() (runtime.py), the print channel of each (print_channel.py)   *)
(* and its reaper (reaper.py), on POSIX.                                   *)
(*                                                                         *)
(* A member is the task that runs `_member' (or `spawn'), `_run' and       *)
(* `PrintChannel.run'; a pending CancelledError (hit) is what its next     *)
(* await raises.  A child process may close its pipes, exit, and start one *)
(* command in a session of its own (helper), which holds the child's pipes *)
(* ("loud") or not ("quiet").  What a group kill reaches besides, the      *)
(* prompt file, the budget of a prompt and an envelope's text are left out.*)
(***************************************************************************)
EXTENDS Naturals, FiniteSets

CONSTANTS Size,         \* most tasks of a batch
          Solos,        \* `/agents run' commands
          Concurrency,  \* MAX_CONCURRENCY
          MaxLive,      \* MAX_LIVE_CHILDREN
          Nobody,
          Scopes        \* bounds: for each history checked, what is asked, stopped, cancelled and fails

Batch == 1..Size
Members == Batch \cup Solos

ASSUME LimitsAssumption ==
  /\ Size \in Nat /\ Solos \subseteq Nat \ Batch /\ IsFiniteSet(Solos) /\ Nobody \notin Members
  /\ Concurrency \in Nat \ {0} /\ MaxLive \in Nat
  /\ Concurrency <= MaxLive      \* batch.py refuses to load otherwise
  /\ \A h \in Scopes : h.size \in 0..Size

VARIABLES
  scope,
  pc, hit, end,     \* where a member is, a cancel on its way to it, how it ended
  row, known,       \* `_children', and the rows that have their `proc'
  stopped, eager,   \* a row's flags; `eager' is eager_kill and escalate, which are set together
  child, helper,    \* the process and its command
  reaper, snap,     \* a row's reaper_task, and what its walk found
  late,             \* history: commands begun after the walk
  kept, settling,   \* records in the parent's session, and the shielded append of `_settling'
  free,             \* permits
  draining, closed, \* the door
  sweep,            \* stop_all()
  cancels, stops    \* bounded counters

run == <<pc, hit, end, free>>
registry == <<row, known, stopped, eager>>
process == <<child, helper, late>>
reaping == <<reaper, snap>>
receipt == <<kept, settling>>
door == <<draining, closed>>
bounds == <<cancels, stops>>
vars == <<scope, run, registry, process, reaping, receipt, door, sweep, bounds>>

InChannel == {"spawn", "abort", "stream", "ending", "reap", "failed", "drain"}
InRun == InChannel \cup {"open", "append", "settle"}
Idle == [at |-> "off", todo |-> {}, wave |-> {}, on |-> Nobody]

TypeOK ==
  /\ scope \in Scopes
  /\ pc \in [Members -> {"idle", "parked", "asked", "over"} \cup InRun]
  /\ hit \in [Members -> BOOLEAN]
  /\ end \in [Members -> {"none", "ok", "failed", "refused", "cancelled"}]
  /\ row \subseteq Members /\ known \subseteq Members
  /\ stopped \subseteq Members /\ eager \subseteq Members
  /\ child \in [Members -> {"none", "live", "mute", "exited", "killed"}]
  /\ helper \in [Members -> {"none", "quiet", "loud", "gone"}]
  /\ reaper \in [Members -> {"none", "due", "grace", "done"}]
  /\ snap \in [Members -> {"none", "helper", "empty"}] /\ late \subseteq Members
  /\ kept \in [Members -> SUBSET {"start", "settle"}]
  /\ settling \in [Members -> {"none", "running", "done"}]
  /\ free \in 0..Concurrency
  /\ free + Cardinality({m \in Batch : pc[m] \in InRun}) = Concurrency
  /\ draining \in BOOLEAN /\ closed \in BOOLEAN
  /\ sweep.at \in {"off", "loop", "abort", "join", "settles", "back", "cut"}
  /\ sweep.todo \subseteq Members /\ sweep.wave \subseteq Members /\ sweep.on \in Members \cup {Nobody}

Init ==
  /\ scope \in Scopes
  /\ pc = [m \in Members |-> "idle"] /\ hit = [m \in Members |-> FALSE] /\ end = [m \in Members |-> "none"]
  /\ row = {} /\ known = {} /\ stopped = {} /\ eager = {}
  /\ child = [m \in Members |-> "none"] /\ helper = [m \in Members |-> "none"]
  /\ reaper = [m \in Members |-> "none"] /\ snap = [m \in Members |-> "none"] /\ late = {}
  /\ kept = [m \in Members |-> {}] /\ settling = [m \in Members |-> "none"]
  /\ free = Concurrency
  /\ draining = FALSE /\ closed = FALSE
  /\ sweep = Idle
  /\ cancels = 0 /\ stops = 0

-----------------------------------------------------------------------------
Alive(m) == child[m] \in {"live", "mute"}
HelperAlive(m) == helper[m] \in {"quiet", "loud"}
Reaping(m) == reaper[m] \in {"due", "grace"}
Tasks == 1..scope.size
Goes(m, where) == pc' = [pc EXCEPT ![m] = where]

\* SIGKILL to the root and, where the walk named it, its command.
Kill(m, walked) ==
  /\ child' = [child EXCEPT ![m] = IF Alive(m) THEN "killed" ELSE @]
  /\ helper' = [helper EXCEPT ![m] = IF walked /\ HelperAlive(m) THEN "gone" ELSE @]
  /\ UNCHANGED late

Escalate(m) == eager' = eager \cup {m}

\* Mutant: only the root is killed.
EagerAbort_RootOnly(m) == Escalate(m) /\ Kill(m, FALSE)

\* Only a child that was not reaped is walked.
EagerAbort(m) == Escalate(m) /\ Kill(m, Alive(m))

\* A reaper for a row that has none running.
Reaper(m, found) ==
  IF Reaping(m) THEN UNCHANGED reaping
  ELSE /\ reaper' = [reaper EXCEPT ![m] = "due"]
       /\ snap' = [snap EXCEPT ![m] = found]

\* Mutant: a child without a process is left alone.
AbortChild_ProcOnly(m) ==
  /\ Escalate(m)
  /\ IF m \in known THEN stopped' = stopped \cup {m} /\ Reaper(m, "none") ELSE UNCHANGED <<stopped, reaping>>

\* abort_child() up to its await.
AbortChild(m) ==
  /\ stopped' = stopped \cup {m}
  /\ Escalate(m)
  /\ IF m \in known THEN Reaper(m, "none") ELSE UNCHANGED reaping

\* A chain's next step starts where the one before it was ok.
Follows(k, m, how) == scope.chain /\ {k, m} \subseteq Tasks /\ k = m + 1 /\ how = "ok"

\* Mutant: the permit is given back by a call that a cancel skips.
Leave_KeepsPermit(m, how) ==
  /\ pc' = [k \in Members |-> IF k = m THEN "over" ELSE IF Follows(k, m, how) THEN "parked" ELSE pc[k]]
  /\ end' = [end EXCEPT ![m] = how]
  /\ row' = row \ {m}
  /\ free' = IF m \in Batch /\ how # "cancelled" THEN free + 1 ELSE free

\* `_run' and the member's frames return or raise: the row and the permit go.
Leave(m, how) ==
  /\ pc' = [k \in Members |-> IF k = m THEN "over" ELSE IF Follows(k, m, how) THEN "parked" ELSE pc[k]]
  /\ end' = [end EXCEPT ![m] = how]
  /\ row' = row \ {m}
  /\ free' = IF m \in Batch THEN free + 1 ELSE free

\* The `finally' of `_run': no settle was appended, so one is, in a task of its own.
ToSettle(m, how) ==
  /\ Goes(m, "settle")
  /\ hit' = [hit EXCEPT ![m] = FALSE]
  /\ end' = [end EXCEPT ![m] = how]
  /\ settling' = [settling EXCEPT ![m] = "running"]
  /\ UNCHANGED free

-----------------------------------------------------------------------------
\* agent() is called: every task of a batch waits for a permit, of a chain the first.
Delegate ==
  /\ \A m \in Batch : pc[m] = "idle"
  /\ pc' = [m \in Members |-> IF m \in Tasks /\ (scope.chain => m = 1) THEN "parked" ELSE pc[m]]
  /\ UNCHANGED <<hit, end, free, registry, process, reaping, receipt, door, sweep, bounds>>

\* `/agents run' reopens the door, unless a stop_all() is at work, and asks for consent.
Ask(m) ==
  /\ m \in Solos \cap scope.solos /\ pc[m] = "idle"
  /\ Goes(m, "asked")
  /\ closed' = (closed /\ draining)
  /\ UNCHANGED <<hit, end, free, registry, process, reaping, receipt, draining, sweep, bounds>>

Decline(m) ==
  /\ pc[m] = "asked" /\ ~hit[m]
  /\ Goes(m, "over") /\ end' = [end EXCEPT ![m] = "refused"]
  /\ UNCHANGED <<hit, free, registry, process, reaping, receipt, door, sweep, bounds>>

\* Mutant: the door opens as soon as stop_all() returns.
DoorShut_Draining == draining
DoorShut == draining \/ closed

Refused == \/ DoorShut
           \/ Cardinality(row) >= MaxLive

\* A member has its permit, or the user's consent: the admission, with no await in it.
Admit(m) ==
  /\ \/ pc[m] = "parked" /\ free > 0
     \/ pc[m] = "asked"
  /\ ~hit[m]
  /\ IF Refused
     THEN /\ pc' = [pc EXCEPT ![m] = "over"] /\ end' = [end EXCEPT ![m] = "refused"]
          /\ UNCHANGED <<free, row>>
     ELSE /\ Goes(m, "open") /\ row' = row \cup {m}
          /\ free' = IF m \in Batch THEN free - 1 ELSE free
          /\ UNCHANGED end
  /\ UNCHANGED <<hit, known, stopped, eager, process, reaping, receipt, door, sweep, bounds>>

\* A cancel of a member that has no row yet.
WaitCut(m) ==
  /\ pc[m] \in {"parked", "asked"} /\ hit[m]
  /\ Goes(m, "over") /\ end' = [end EXCEPT ![m] = "cancelled"] /\ hit' = [hit EXCEPT ![m] = FALSE]
  /\ UNCHANGED <<free, registry, process, reaping, receipt, door, sweep, bounds>>

\* The start record is in; the channel writes the prompt file and starts the process, unless the row
\* was stopped meanwhile.
Launch(m) ==
  /\ pc[m] = "open" /\ ~hit[m]
  /\ kept' = [kept EXCEPT ![m] = @ \cup {"start"}]
  /\ \/ "prompt" \in scope.fails /\ ToSettle(m, "failed") /\ UNCHANGED child
     \/ /\ m \in stopped \/ "exec" \in scope.fails
        /\ Goes(m, "append") /\ UNCHANGED <<hit, end, free, settling, child>>
     \/ /\ m \notin stopped
        /\ Goes(m, "spawn") /\ child' = [child EXCEPT ![m] = "live"]
        /\ UNCHANGED <<hit, end, free, settling>>
  /\ UNCHANGED <<registry, helper, late, reaping, door, sweep, bounds>>

\* A cancel while the opening records are written: the one under way may be in.
OpenCut(m) ==
  /\ pc[m] = "open" /\ hit[m]
  /\ kept' \in {kept, [kept EXCEPT ![m] = @ \cup {"start"}]}
  /\ ToSettle(m, "cancelled")
  /\ UNCHANGED <<registry, process, reaping, door, sweep, bounds>>

\* asyncio hands the process over; a stop that came while it did is made up for.
Spawned(m) ==
  /\ pc[m] = "spawn" /\ ~hit[m]
  /\ known' = known \cup {m}
  /\ IF m \in stopped
     THEN Goes(m, "abort") /\ Escalate(m) /\ Reaper(m, "none")
     ELSE Goes(m, "stream") /\ UNCHANGED <<eager, reaping>>
  /\ UNCHANGED <<hit, end, free, row, stopped, process, receipt, door, sweep, bounds>>

\* asyncio closes the transport of a start that is cancelled, which kills the process.
SpawnCut(m) ==
  /\ pc[m] = "spawn" /\ hit[m]
  /\ Kill(m, FALSE)
  /\ ToSettle(m, "cancelled")
  /\ UNCHANGED <<registry, reaping, kept, door, sweep, bounds>>

Moves(m, from, to) ==
  /\ pc[m] = from /\ ~hit[m]
  /\ Goes(m, to)
  /\ UNCHANGED <<hit, end, free, registry, receipt, door, sweep, bounds>>

Aborted(m) == ~Reaping(m) /\ Moves(m, "abort", "stream") /\ UNCHANGED <<process, reaping>>

\* `_stream_and_reap': both pipes at their end, or the child gone with a pipe still held.
StreamEnds(m) ==
  /\ child[m] # "live" /\ helper[m] # "loud"
  /\ Moves(m, "stream", "ending") /\ UNCHANGED <<process, reaping>>
ChildEnds(m) == ~Alive(m) /\ Moves(m, "stream", "drain") /\ UNCHANGED <<process, reaping>>

StreamFails(m) ==
  /\ "pump" \in scope.fails
  /\ pc[m] = "stream" /\ ~hit[m] /\ Goes(m, "failed")
  /\ EagerAbort(m)
  /\ UNCHANGED <<hit, end, free, row, known, stopped, reaping, receipt, door, sweep, bounds>>

\* The child is gone, or the bounded wait for it is over; a child that lingers is reaped.
Exited(m) == ~Alive(m) /\ Moves(m, "ending", "append") /\ UNCHANGED <<process, reaping>>
Lingers(m) ==
  /\ Alive(m)
  /\ Moves(m, "ending", "reap") /\ UNCHANGED process
  /\ Reaper(m, IF HelperAlive(m) THEN "helper" ELSE "empty")
Reaped(m) == ~Reaping(m) /\ Moves(m, "reap", "append") /\ UNCHANGED <<process, reaping>>
Failed(m) == Moves(m, "failed", "append") /\ UNCHANGED <<process, reaping>>

\* Whoever still holds the pipes of a child that is gone is killed when the drain's bound is over.
Drained(m) ==
  /\ Moves(m, "drain", "append") /\ UNCHANGED <<child, late, reaping>>
  /\ helper' = [helper EXCEPT ![m] = IF @ = "loud" THEN "gone" ELSE @]

\* A cancel inside the channel; of abort_child()'s join and of a failed stream's it only ends the wait.
ChannelCut(m) ==
  /\ pc[m] \in InChannel \ {"spawn"} /\ hit[m]
  /\ IF pc[m] \in {"abort", "failed"} THEN UNCHANGED <<eager, process>> ELSE EagerAbort(m)
  /\ ToSettle(m, "cancelled")
  /\ UNCHANGED <<row, known, stopped, reaping, kept, door, sweep, bounds>>

\* The envelope's records are in.
Append(m) ==
  /\ pc[m] = "append" /\ ~hit[m]
  /\ kept' = [kept EXCEPT ![m] = @ \cup {"settle"}]
  /\ \E how \in {"failed"} \cup (IF m \in stopped \/ child[m] = "none" THEN {} ELSE {"ok"}) : Leave(m, how)
  /\ UNCHANGED <<hit, known, stopped, eager, process, reaping, settling, door, sweep, bounds>>

AppendCut(m) ==
  /\ pc[m] = "append" /\ hit[m]
  /\ kept' \in {kept, [kept EXCEPT ![m] = @ \cup {"settle"}]}
  /\ ToSettle(m, "cancelled")
  /\ UNCHANGED <<registry, process, reaping, door, sweep, bounds>>

\* The task of `_shielded_append', which also writes what of the opening is missing.
Settled(m) ==
  /\ settling[m] = "running"
  /\ settling' = [settling EXCEPT ![m] = "done"]
  /\ kept' = [kept EXCEPT ![m] = {"start", "settle"}]
  /\ UNCHANGED <<run, registry, process, reaping, door, sweep, bounds>>

SettleReturns(m) ==
  /\ pc[m] = "settle" /\ ~hit[m] /\ settling[m] = "done"
  /\ Leave(m, end[m])
  /\ UNCHANGED <<hit, known, stopped, eager, process, reaping, receipt, door, sweep, bounds>>

\* Mutant: the second cancel reaches the append itself.
SettleCut_Unshielded(m) ==
  /\ pc[m] = "settle" /\ hit[m] /\ hit' = [hit EXCEPT ![m] = FALSE]
  /\ settling' = [settling EXCEPT ![m] = "done"]
  /\ Leave(m, "cancelled")
  /\ UNCHANGED <<known, stopped, eager, process, reaping, kept, door, sweep, bounds>>

\* A second cancel ends the wait and not the append.
SettleCut(m) ==
  /\ pc[m] = "settle" /\ hit[m] /\ hit' = [hit EXCEPT ![m] = FALSE]
  /\ Leave(m, "cancelled")
  /\ UNCHANGED <<known, stopped, eager, process, reaping, receipt, door, sweep, bounds>>

Member(m) ==
  \/ Admit(m) \/ WaitCut(m) \/ Launch(m) \/ OpenCut(m) \/ Spawned(m) \/ SpawnCut(m)
  \/ Aborted(m) \/ StreamEnds(m) \/ ChildEnds(m) \/ Exited(m) \/ Reaped(m) \/ Failed(m) \/ Drained(m)
  \/ ChannelCut(m) \/ Append(m) \/ AppendCut(m) \/ Settled(m) \/ SettleReturns(m) \/ SettleCut(m)

-----------------------------------------------------------------------------
\* reap(): a walk it was not given is taken now; an eager one kills in the same breath.
ReaperStarts(m) ==
  /\ reaper[m] = "due"
  /\ LET found == IF snap[m] # "none" THEN snap[m] ELSE IF HelperAlive(m) THEN "helper" ELSE "empty" IN
     /\ snap' = IF Alive(m) THEN [snap EXCEPT ![m] = found] ELSE snap
     /\ IF Alive(m) /\ m \notin eager
        THEN reaper' = [reaper EXCEPT ![m] = "grace"] /\ UNCHANGED process
        ELSE /\ reaper' = [reaper EXCEPT ![m] = "done"]
             /\ Kill(m, Alive(m) /\ found = "helper")
  /\ UNCHANGED <<run, registry, receipt, door, sweep, bounds>>

\* The child is gone and nobody holds its pipes.
ReaperReleased(m) ==
  /\ reaper[m] = "grace" /\ ~Alive(m) /\ helper[m] # "loud"
  /\ reaper' = [reaper EXCEPT ![m] = "done"]
  /\ UNCHANGED <<run, registry, process, snap, receipt, door, sweep, bounds>>

ReaperKills(m) ==
  /\ reaper[m] = "grace"
  /\ reaper' = [reaper EXCEPT ![m] = "done"]
  /\ Kill(m, snap[m] = "helper")
  /\ UNCHANGED <<run, registry, snap, receipt, door, sweep, bounds>>

\* Mutant: the flag is read when a reaper is built, and a grace under way does not hear of it.
ReaperEscalates_Deaf(m) == m \in eager /\ ReaperReleased(m)
ReaperEscalates(m) == m \in eager /\ ReaperKills(m)
GraceOver(m) == m \notin eager /\ ReaperKills(m)

Reap(m) == ReaperStarts(m) \/ ReaperReleased(m) \/ ReaperEscalates(m)

-----------------------------------------------------------------------------
Child(m, to) == /\ child' = [child EXCEPT ![m] = to]
                /\ UNCHANGED <<run, registry, helper, late, reaping, receipt, door, sweep, bounds>>
ChildMutes(m) == m \in scope.mutes /\ m \in known /\ child[m] = "live" /\ Child(m, "mute")
ChildExits(m) == Alive(m) /\ Child(m, "exited")

Command(m, to) == /\ helper' = [helper EXCEPT ![m] = to]
                  /\ UNCHANGED <<run, registry, child, reaping, receipt, door, sweep, bounds>>
HelperStarts(m) ==
  /\ m \in scope.helpers /\ m \in known /\ Alive(m) /\ helper[m] = "none"
  /\ \E kind \in {"quiet", "loud"} : (kind = "loud" => child[m] = "live") /\ Command(m, kind)
  /\ late' = IF Reaping(m) /\ snap[m] # "none" THEN late \cup {m} ELSE late
HelperEnds(m) == HelperAlive(m) /\ Command(m, "gone") /\ UNCHANGED late

-----------------------------------------------------------------------------
\* stop(), for a row of the registry.
Stop(m) ==
  /\ stops < scope.stops /\ stops' = stops + 1
  /\ m \in row /\ AbortChild(m)
  /\ UNCHANGED <<run, row, known, process, receipt, door, sweep, cancels>>

\* `gather' raises with the first member that ends cancelled: who owns the call waits no more, and a
\* later cancel of it reaches nobody.
Gathered == \/ \A m \in Batch : pc[m] \in {"idle", "over"}
            \/ \E m \in Batch : pc[m] = "over" /\ end[m] = "cancelled"

CancelBatch ==
  /\ cancels < scope.cancels /\ cancels' = cancels + 1
  /\ ~Gathered
  /\ hit' = [m \in Members |-> hit[m] \/ (m \in Batch /\ pc[m] \notin {"idle", "over"})]
  /\ UNCHANGED <<pc, end, free, registry, process, reaping, receipt, door, sweep, stops>>

Interrupt(m) ==
  /\ cancels < scope.cancels /\ cancels' = cancels + 1
  /\ m \in Solos /\ pc[m] \notin {"idle", "over"}
  /\ hit' = [hit EXCEPT ![m] = TRUE]
  /\ UNCHANGED <<pc, end, free, registry, process, reaping, receipt, door, sweep, stops>>

\* The next prompt opens the door, unless a stop_all() is at work.
NewPrompt ==
  /\ scope.prompts /\ Gathered /\ closed
  /\ closed' = draining
  /\ UNCHANGED <<run, registry, process, reaping, receipt, draining, sweep, bounds>>

-----------------------------------------------------------------------------
\* stop_all(): the door first, then wave after wave of the registry.
SweepStarts ==
  /\ scope.sweeps /\ sweep.at = "off"
  /\ draining' = TRUE /\ closed' = TRUE
  /\ sweep' = [Idle EXCEPT !.at = "loop"]
  /\ UNCHANGED <<run, registry, process, reaping, receipt, bounds>>

SweepWave ==
  /\ sweep.at = "loop"
  /\ sweep' = IF row # {} THEN [at |-> "abort", todo |-> row, wave |-> row, on |-> Nobody]
              ELSE [Idle EXCEPT !.at = "settles", !.todo = {m \in Members : settling[m] = "running"}]
  /\ UNCHANGED <<run, registry, process, reaping, receipt, door, bounds>>

SweepAborts(m) ==
  /\ sweep.at = "abort" /\ sweep.on = Nobody /\ m \in sweep.todo
  /\ AbortChild(m)
  /\ sweep' = [sweep EXCEPT !.todo = @ \ {m}, !.on = IF m \in known THEN m ELSE Nobody]
  /\ UNCHANGED <<run, row, known, process, receipt, door, bounds>>

SweepAborted ==
  /\ sweep.at = "abort" /\ (sweep.on # Nobody => ~Reaping(sweep.on))
  /\ sweep.on # Nobody \/ sweep.todo = {}
  /\ sweep' = IF sweep.todo = {} THEN [sweep EXCEPT !.at = "join", !.todo = sweep.wave, !.on = Nobody]
              ELSE [sweep EXCEPT !.on = Nobody]
  /\ UNCHANGED <<run, registry, process, reaping, receipt, door, bounds>>

SweepJoins(m) ==
  /\ sweep.at = "join" /\ m \in sweep.todo /\ ~Reaping(m)
  /\ row' = row \ {m}
  /\ sweep' = IF sweep.todo = {m} THEN [Idle EXCEPT !.at = "loop"] ELSE [sweep EXCEPT !.todo = @ \ {m}]
  /\ UNCHANGED <<run, known, stopped, eager, process, reaping, receipt, door, bounds>>

\* The settles under way are joined, or the bound of that join is over.
SweepReturns ==
  /\ sweep.at = "settles"
  /\ draining' = FALSE
  /\ sweep' = [Idle EXCEPT !.at = "back"]
  /\ UNCHANGED <<run, registry, process, reaping, receipt, closed, bounds>>

\* Whoever awaits stop_all() is cancelled; the reapers go on.
SweepCut ==
  /\ scope.cuts /\ sweep.at \notin {"off", "back", "cut"}
  /\ draining' = FALSE
  /\ sweep' = [Idle EXCEPT !.at = "cut"]
  /\ UNCHANGED <<run, registry, process, reaping, receipt, closed, bounds>>

Sweep == SweepWave \/ SweepAborted \/ SweepReturns \/ \E m \in Members : SweepAborts(m) \/ SweepJoins(m)

Step ==
  \/ Delegate \/ CancelBatch \/ NewPrompt \/ SweepStarts \/ SweepCut \/ Sweep
  \/ \E m \in Members :
       \/ Member(m) \/ Ask(m) \/ Decline(m) \/ StreamFails(m) \/ Lingers(m)
       \/ Reap(m) \/ GraceOver(m) \/ ChildMutes(m) \/ ChildExits(m) \/ HelperStarts(m) \/ HelperEnds(m)
       \/ Stop(m) \/ Interrupt(m)

Next == Step /\ UNCHANGED scope

Spec == Init /\ [][Next]_vars
Progress == Sweep \/ \E m \in Members : Member(m) \/ Reap(m)

\* The event loop runs every task that can go on, and an append, a start of a process and the drain's
\* bound come to their end.  Nothing is assumed of a child, nor of the end of a grace.
FairSpec == Spec /\ WF_vars(Progress /\ UNCHANGED scope)

-----------------------------------------------------------------------------
\* When stop_all() is back no child runs that it did not stop, and none is started before somebody
\* reopens the door: not by a member its own aborts let go on (`_SESSION_DRAINING', ADR-0199).  What
\* may still run is a child whose start was under way, and its own run kills it.
StopAllHolds ==
  sweep.at = "back" /\ closed => \A m \in Members : Alive(m) => m \in stopped /\ (pc[m] = "spawn" \/ Reaping(m))

\* A live child has a run that waits for its end or a reaper at work, and the registry has its row
\* unless it was told to stop: whatever failed or was cancelled, stop() and stop_all() can reach it or
\* need not (P2 review HIGH #3, finding B1).  One that had to be killed did not leave its command
\* behind, unless that began after the reaper's walk, which is taken before its SIGTERM (#691).
Attended ==
  \A m \in Members :
    /\ Alive(m) => /\ pc[m] \in {"spawn", "stream", "ending"} \/ Reaping(m)
                   /\ m \in row \/ m \in stopped
    /\ child[m] = "killed" /\ HelperAlive(m) => m \in late

\* Every admitted spawn has its start and its settle in the parent's session when it is over and its
\* settle is done, a second cancel included (#199, ADR-0243).
ReceiptsClosed ==
  \A m \in Members :
    pc[m] = "over" /\ (kept[m] # {} \/ settling[m] # "none" \/ child[m] # "none") /\ settling[m] # "running"
      => kept[m] = {"start", "settle"}

\* stop_all() comes to its end and with it every member of the batch, the ones still waiting for a
\* permit included, unless it is cancelled or the door is opened again.
StopAllEnds ==
  sweep.at = "loop" ~> \/ sweep.at = "cut" \/ ~closed
                       \/ sweep.at = "back" /\ \A m \in Batch : pc[m] \in {"idle", "over"}

\* A cancel or a stop ends a child and its reaper without waiting for a grace to run out (#691).
Overdue == {m \in eager \cap known : Alive(m) \/ Reaping(m)}
KillIsPrompt == Overdue # {} ~> Overdue = {}
=============================================================================
