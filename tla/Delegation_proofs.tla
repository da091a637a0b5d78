-------------------------- MODULE Delegation_proofs --------------------------
(***************************************************************************)
(* For every size of a batch, every limit and every history: the permits   *)
(* are conserved, no child runs on unattended, nothing runs behind a shut  *)
(* door, and every receipt is closed.                                      *)
(***************************************************************************)
EXTENDS Delegation, FiniteSetTheorems, TLAPS

Waiting == {"idle", "parked", "asked"}
WithProc == {"abort", "stream", "ending", "reap", "failed", "drain"}
Full == {"start", "settle"}

-----------------------------------------------------------------------------
Types ==
  /\ scope \in Scopes
  /\ pc \in [Members -> {"idle", "parked", "asked", "over"} \cup InRun]
  /\ hit \in [Members -> BOOLEAN]
  /\ end \in [Members -> {"none", "ok", "failed", "refused", "cancelled"}]
  /\ row \subseteq Members /\ known \subseteq Members
  /\ stopped \subseteq Members /\ eager \subseteq Members
  /\ child \in [Members -> {"none", "live", "mute", "exited", "killed"}]
  /\ helper \in [Members -> {"none", "quiet", "loud", "gone"}]
  /\ reaper \in [Members -> {"none", "due", "grace", "done"}]
  /\ snap \in [Members -> {"none", "helper", "empty"}] /\ late \subseteq Members
  /\ kept \in [Members -> SUBSET {"start", "settle"}]
  /\ settling \in [Members -> {"none", "running", "done"}]
  /\ draining \in BOOLEAN /\ closed \in BOOLEAN
  /\ sweep \in [at : {"off", "loop", "abort", "join", "settles", "back", "cut"},
                todo : SUBSET Members, wave : SUBSET Members, on : Members \cup {Nobody}]

\* Who waits where; and of a chain nobody has begun before the one ahead is over.
Order ==
  /\ \A m \in Members : (pc[m] = "parked" => m \in Batch) /\ (pc[m] = "asked" => m \in Solos)
  /\ scope.chain => \A m \in Tasks : m + 1 \in Tasks /\ pc[m] # "over" => pc[m + 1] = "idle"

Admitted == {m \in Batch : pc[m] \in InRun}
Permits == free \in Nat /\ free + Cardinality(Admitted) = Concurrency

\* What there is of a child at each place of its member, and who can reach it; the last two are Attended's.
Reach(m) ==
  /\ pc[m] \in Waiting \cup {"open"} => child[m] = "none"
  /\ pc[m] \in Waiting \cup {"open", "spawn"} => m \notin known
  /\ pc[m] \in WithProc => m \in known
  /\ pc[m] \in InRun => m \in row \/ m \in stopped
  /\ m \in stopped /\ m \in known /\ Alive(m) => Reaping(m)
  /\ Alive(m) /\ pc[m] \notin {"spawn", "stream", "ending", "reap"} => m \in stopped
  /\ Alive(m) => pc[m] \in {"spawn", "stream", "ending"} \/ Reaping(m)
  /\ Alive(m) => m \in row \/ m \in stopped

\* What a reaper's walk found, and what it missed of the command; the last is Attended's.
Walks(m) ==
  /\ m \notin known => helper[m] = "none"
  /\ reaper[m] = "grace" => snap[m] # "none"
  /\ Reaping(m) /\ snap[m] = "empty" /\ HelperAlive(m) => m \in late
  /\ child[m] = "killed" /\ HelperAlive(m) => m \in late

Records(m) ==
  /\ pc[m] \in Waiting \cup {"open"} => kept[m] = {} /\ settling[m] = "none"
  /\ pc[m] \in InChannel \cup {"append"} => "start" \in kept[m] /\ settling[m] = "none"
  /\ pc[m] = "settle" => settling[m] # "none"
  /\ settling[m] = "done" => kept[m] = Full
  /\ pc[m] = "over" /\ settling[m] = "none" => kept[m] = Full \/ (kept[m] = {} /\ child[m] = "none")

Safe(m) == Reach(m) /\ Walks(m) /\ Records(m)

\* A wave is stopped before it is joined, and the door is shut all the while.
Waves ==
  /\ sweep.at \in {"loop", "abort", "join", "settles"} => draining /\ closed
  /\ sweep.at = "settles" \/ (sweep.at = "back" /\ closed) => row = {}
  /\ sweep.at = "abort" => sweep.wave \ sweep.todo \subseteq stopped
  /\ sweep.at = "join" => sweep.todo \subseteq stopped

IInv == Types /\ Order /\ Permits /\ Waves /\ \A m \in Members : Safe(m)

-----------------------------------------------------------------------------
LEMMA BatchFinite == IsFiniteSet(Batch) /\ Batch \subseteq Members /\ Batch \cap Solos = {}
BY LimitsAssumption, FS_Interval DEF Batch, Members

\* The tasks of a history are members of the batch.
LEMMA TasksInBatch ==
  ASSUME scope \in Scopes
  PROVE  Tasks \subseteq Batch /\ \A m \in Tasks : m \in Nat
BY LimitsAssumption DEF Tasks, Batch

LEMMA Initially == Init => IInv
<1> SUFFICES ASSUME Init PROVE IInv
  OBVIOUS
<1>1. Types
  BY DEF Init, Types, Idle
<1>2. Order
  BY TasksInBatch DEF Init, Order, Members
<1>3. Permits
  <2>1. Admitted = {}
    BY BatchFinite DEF Init, Admitted, InRun, InChannel
  <2> QED
    BY <2>1, FS_EmptySet, LimitsAssumption DEF Init, Permits
<1>4. \A m \in Members : Safe(m)
  BY DEF Init, Safe, Reach, Walks, Records, Alive, Reaping, HelperAlive, Waiting, WithProc, InRun, InChannel
<1>5. Waves
  BY DEF Init, Waves, Idle
<1> QED
  BY <1>1, <1>2, <1>3, <1>4, <1>5 DEF IInv

-----------------------------------------------------------------------------
\* A step of m leaves the others where they are; but its end lets the next one of its chain wait.
Moved(m) ==
  \A k \in Members \ {m} :
    \/ pc'[k] = pc[k]
    \/ pc[k] = "idle" /\ pc'[k] = "parked" /\ pc'[m] = "over" /\ scope.chain /\ {m, k} \subseteq Tasks /\ k = m + 1

LEMMA LeaveMoves ==
  ASSUME IInv, NEW m \in Members, NEW how, Leave(m, how), pc[m] # "over"
  PROVE  /\ pc' \in [Members -> {"idle", "parked", "asked", "over"} \cup InRun]
         /\ pc'[m] = "over"
         /\ Moved(m)
<1>1. m + 1 # m
  <2>1. m \in Int
    BY LimitsAssumption DEF Members, Batch
  <2> QED
    BY <2>1
<1>2. ASSUME NEW k \in Members, Follows(k, m, how)
      PROVE  pc[k] = "idle" /\ scope.chain /\ {m, k} \subseteq Tasks /\ k = m + 1
  <2>1. scope.chain /\ {m, k} \subseteq Tasks /\ k = m + 1
    BY <1>2 DEF Follows
  <2>2. pc[m + 1] = "idle"
    BY <2>1 DEF IInv, Order
  <2> QED
    BY <2>1, <2>2
<1> QED
  BY <1>1, <1>2 DEF Leave, IInv, Types, Moved


\* What a member does with its place, its end and its cancel.
LEMMA TypesKept ==
  ASSUME IInv, [Next]_vars
  PROVE  Types'
<1> USE DEF IInv, Types, InRun, InChannel
<1>a. ASSUME NEW m \in Members, NEW w, Kill(m, w)
      PROVE  /\ child' \in [Members -> {"none", "live", "mute", "exited", "killed"}]
             /\ helper' \in [Members -> {"none", "quiet", "loud", "gone"}] /\ late' = late
  BY <1>a DEF Kill
<1>b. ASSUME NEW m \in Members, NEW f \in {"none", "helper", "empty"}, Reaper(m, f)
      PROVE  reaper' \in [Members -> {"none", "due", "grace", "done"}] /\ snap' \in [Members -> {"none", "helper", "empty"}]
  BY <1>b DEF Reaper, reaping
<1>c. ASSUME NEW m \in Members, AbortChild(m)
      PROVE  /\ stopped' \subseteq Members /\ eager' \subseteq Members
             /\ reaper' \in [Members -> {"none", "due", "grace", "done"}] /\ snap' \in [Members -> {"none", "helper", "empty"}]
  BY <1>b, <1>c DEF AbortChild, Escalate, reaping
<1>d. ASSUME NEW m \in Members, NEW how \in {"failed", "cancelled"}, ToSettle(m, how)
      PROVE  /\ pc' \in [Members -> {"idle", "parked", "asked", "over"} \cup InRun] /\ hit' \in [Members -> BOOLEAN]
             /\ end' \in [Members -> {"none", "ok", "failed", "refused", "cancelled"}]
             /\ settling' \in [Members -> {"none", "running", "done"}]
  BY <1>d DEF ToSettle, Goes
<1>1. ASSUME NEW m \in Members, Member(m), scope' = scope PROVE Types'
  <2> USE DEF run, registry, process, reaping, receipt, door, bounds
  <2>1. CASE Admit(m)
    BY <1>1, <2>1 DEF Admit, Goes
  <2>2. CASE WaitCut(m)
    BY <1>1, <2>2 DEF WaitCut, Goes
  <2>a. CASE OpenCut(m) \/ AppendCut(m)
    <3>1. kept' \in [Members -> SUBSET {"start", "settle"}]
      BY <2>a DEF OpenCut, AppendCut
    <3> QED
      BY <1>1, <1>d, <2>a, <3>1 DEF OpenCut, AppendCut
  <2>3. CASE Launch(m)
    <3>1. kept' \in [Members -> SUBSET {"start", "settle"}]
      BY <2>3 DEF Launch
    <3>2. CASE ToSettle(m, "failed") /\ UNCHANGED child
      BY <1>1, <1>d, <2>3, <3>1, <3>2 DEF Launch
    <3>3. CASE Goes(m, "append") /\ UNCHANGED <<hit, end, free, settling, child>>
      BY <1>1, <2>3, <3>1, <3>3 DEF Launch, Goes
    <3>4. CASE Goes(m, "spawn") /\ child' = [child EXCEPT ![m] = "live"] /\ UNCHANGED <<hit, end, free, settling>>
      BY <1>1, <2>3, <3>1, <3>4 DEF Launch, Goes
    <3> QED
      BY <2>3, <3>2, <3>3, <3>4 DEF Launch
  <2>4. CASE Spawned(m)
    <3>1. /\ reaper' \in [Members -> {"none", "due", "grace", "done"}] /\ snap' \in [Members -> {"none", "helper", "empty"}]
          /\ eager' \subseteq Members
      BY <1>b, <2>4 DEF Spawned, Escalate
    <3>2. known' \subseteq Members /\ pc' \in [Members -> {"idle", "parked", "asked", "over"} \cup InRun]
      BY <2>4 DEF Spawned, Goes
    <3> QED
      BY <1>1, <2>4, <3>1, <3>2 DEF Spawned
  <2>5. CASE SpawnCut(m) \/ ChannelCut(m)
    <3>1. /\ eager' \subseteq Members /\ late' \subseteq Members
          /\ child' \in [Members -> {"none", "live", "mute", "exited", "killed"}]
          /\ helper' \in [Members -> {"none", "quiet", "loud", "gone"}]
      <4>1. CASE UNCHANGED <<eager, process>>
        BY <4>1
      <4>2. CASE EagerAbort(m)
        BY <1>a, <4>2 DEF EagerAbort, Escalate
      <4> QED
        BY <1>a, <2>5, <4>1, <4>2 DEF SpawnCut, ChannelCut
    <3>2. CASE SpawnCut(m)
      BY <1>1, <1>d, <3>1, <3>2 DEF SpawnCut
    <3>3. CASE ChannelCut(m)
      BY <1>1, <1>d, <3>1, <3>3 DEF ChannelCut
    <3> QED
      BY <2>5, <3>2, <3>3
  <2>6. CASE Aborted(m) \/ StreamEnds(m) \/ ChildEnds(m) \/ Exited(m) \/ Reaped(m) \/ Failed(m) \/ Drained(m)
    BY <1>1, <2>6 DEF Moves, Goes, Aborted, StreamEnds, ChildEnds, Exited, Reaped, Failed, Drained
  <2>7. CASE Settled(m)
    BY <1>1, <2>7 DEF Settled
  <2>8. CASE Append(m) \/ SettleReturns(m) \/ SettleCut(m)
    <3>1. PICK how \in {"none", "ok", "failed", "refused", "cancelled"} : Leave(m, how)
      BY <2>8 DEF Append, SettleReturns, SettleCut
    <3>2. pc' \in [Members -> {"idle", "parked", "asked", "over"} \cup InRun]
      BY <2>8, <3>1, LeaveMoves DEF Append, SettleReturns, SettleCut
    <3>3. end' \in [Members -> {"none", "ok", "failed", "refused", "cancelled"}] /\ row' \subseteq Members
      BY <3>1 DEF Leave
    <3>4. kept' \in [Members -> SUBSET {"start", "settle"}]
      BY <2>8 DEF Append, SettleReturns, SettleCut
    <3>5. hit' \in [Members -> BOOLEAN]
      BY <2>8 DEF Append, SettleReturns, SettleCut
    <3> QED
      BY <1>1, <2>8, <3>2, <3>3, <3>4, <3>5 DEF Append, SettleReturns, SettleCut
  <2> QED
    BY <1>1, <2>1, <2>2, <2>a, <2>3, <2>4, <2>5, <2>6, <2>7, <2>8 DEF Member
<1>2. ASSUME NEW m \in Members, scope' = scope,
             Ask(m) \/ Decline(m) \/ StreamFails(m) \/ Lingers(m) \/ Stop(m) \/ Interrupt(m)
      PROVE  Types'
  <2> USE DEF run, registry, process, reaping, receipt, door, bounds
  <2>1. CASE Decline(m) \/ Interrupt(m)
    <3>1. CASE Decline(m)
      BY <1>2, <3>1 DEF Decline, Goes
    <3>2. CASE Interrupt(m)
      <4>1. hit' \in [Members -> BOOLEAN]
        BY <3>2 DEF Interrupt
      <4> QED
        BY <1>2, <3>2, <4>1 DEF Interrupt
    <3> QED
      BY <2>1, <3>1, <3>2
  <2>5. CASE Ask(m)
    <3>1. closed' \in BOOLEAN
      BY <2>5 DEF Ask
    <3> QED
      BY <1>2, <2>5, <3>1 DEF Ask, Goes
  <2>2. CASE StreamFails(m)
    BY <1>2, <1>a, <2>2 DEF StreamFails, Goes, EagerAbort, Escalate
  <2>3. CASE Lingers(m)
    BY <1>2, <1>b, <2>3 DEF Lingers, Moves, Goes
  <2>4. CASE Stop(m)
    BY <1>2, <1>c, <2>4 DEF Stop
  <2> QED
    BY <1>2, <2>1, <2>2, <2>3, <2>4, <2>5
<1>3. ASSUME NEW m \in Members, scope' = scope,
             Reap(m) \/ GraceOver(m) \/ ChildMutes(m) \/ ChildExits(m) \/ HelperStarts(m) \/ HelperEnds(m)
      PROVE  Types'
  BY <1>3
  DEF run, registry, process, reaping, receipt, door, bounds, Kill, Reap, ReaperStarts, ReaperReleased, ReaperEscalates,
      ReaperKills, GraceOver, ChildMutes, ChildExits, Child, HelperStarts, HelperEnds, Command
<1>4. CASE scope' = scope /\ (Delegate \/ CancelBatch \/ NewPrompt)
  <2> USE DEF run, registry, process, reaping, receipt, door, bounds
  <2>1. CASE Delegate
    BY <1>4, <2>1 DEF Delegate
  <2>2. CASE CancelBatch
    BY <1>4, <2>2 DEF CancelBatch
  <2>3. CASE NewPrompt
    BY <1>4, <2>3 DEF NewPrompt
  <2> QED
    BY <1>4, <2>1, <2>2, <2>3
<1>5. CASE scope' = scope /\ (Sweep \/ SweepStarts \/ SweepCut)
  <2> USE DEF run, registry, process, reaping, receipt, door, bounds, Idle
  <2>1. CASE SweepStarts \/ SweepCut \/ SweepReturns
    <3>1. PICK to \in {"loop", "cut", "back"} : sweep' = [at |-> to, todo |-> {}, wave |-> {}, on |-> Nobody]
      BY <2>1 DEF SweepStarts, SweepCut, SweepReturns
    <3>2. draining' \in BOOLEAN /\ closed' \in BOOLEAN
      BY <2>1 DEF SweepStarts, SweepCut, SweepReturns
    <3>3. UNCHANGED <<run, registry, process, reaping, receipt, bounds>>
      BY <2>1 DEF SweepStarts, SweepCut, SweepReturns
    <3> QED
      BY <1>5, <3>1, <3>2, <3>3
  <2>3. CASE SweepWave
    BY <1>5, <2>3 DEF SweepWave
  <2>4. CASE SweepAborted
    BY <1>5, <2>4 DEF SweepAborted
  <2>2. ASSUME NEW m \in Members, SweepAborts(m) \/ SweepJoins(m) PROVE Types'
    <3>1. CASE SweepAborts(m)
      BY <1>5, <1>c, <3>1 DEF SweepAborts
    <3>2. CASE SweepJoins(m)
      BY <1>5, <3>2 DEF SweepJoins
    <3> QED
      BY <2>2, <3>1, <3>2
  <2> QED
    BY <1>5, <2>1, <2>2, <2>3, <2>4 DEF Sweep
<1>6. CASE UNCHANGED vars
  BY <1>6 DEF vars, run, registry, process, reaping, receipt, door, bounds
<1> QED
  BY <1>1, <1>2, <1>3, <1>4, <1>5, <1>6 DEF Next, Step
-----------------------------------------------------------------------------
\* The ways a member goes, and where it takes a permit and gives it back.
Waited(m) == IF pc[m] = "idle" THEN m \in Solos /\ pc'[m] = "asked" ELSE pc'[m] = "over"

Way(m) ==
  /\ Moved(m)
  /\ \/ UNCHANGED free /\ pc[m] \in Waiting /\ Waited(m)
     \/ UNCHANGED free /\ pc[m] \in InRun /\ pc'[m] \in InRun
     \/ /\ pc[m] \in {"parked", "asked"} /\ pc'[m] = "open" /\ (pc[m] = "parked" => free > 0)
        /\ free' = IF m \in Batch THEN free - 1 ELSE free
     \/ /\ pc[m] \in InRun /\ pc'[m] = "over"
        /\ free' = IF m \in Batch THEN free + 1 ELSE free

LEMMA Places ==
  ASSUME IInv, Next
  PROVE  UNCHANGED <<pc, free>> \/ Delegate \/ \E m \in Members : Way(m)
<1> USE DEF IInv, Types, InRun, InChannel, Waiting, Waited, Moved
<1>1. ASSUME NEW m \in Members, NEW q, Goes(m, q), q \in {"idle", "parked", "asked", "over"} \cup InRun PROVE Moved(m) /\ pc'[m] = q
  BY <1>1 DEF Goes
<1>2. ASSUME NEW m \in Members, NEW how, pc[m] \in InRun, Leave(m, how)
      PROVE Moved(m) /\ pc'[m] = "over" /\ free' = IF m \in Batch THEN free + 1 ELSE free
  <2>1. Moved(m) /\ pc'[m] = "over"
    BY <1>2, LeaveMoves
  <2> QED
    BY <1>2, <2>1 DEF Leave
<1>3. ASSUME NEW m \in Members, Member(m), ~UNCHANGED <<pc, free>> PROVE Way(m)
  <2> USE DEF Way
  <2>1. CASE Admit(m)
    BY <1>1, <2>1 DEF Admit, Goes
  <2>2. CASE WaitCut(m)
    BY <1>1, <2>2 DEF WaitCut
  <2>3. CASE Launch(m) \/ OpenCut(m) \/ Spawned(m) \/ SpawnCut(m) \/ ChannelCut(m) \/ AppendCut(m)
    BY <1>1, <2>3 DEF Launch, OpenCut, Spawned, SpawnCut, ChannelCut, AppendCut, ToSettle
  <2>4. CASE Aborted(m) \/ StreamEnds(m) \/ ChildEnds(m) \/ Exited(m) \/ Reaped(m) \/ Failed(m) \/ Drained(m)
    BY <1>1, <2>4 DEF Aborted, StreamEnds, ChildEnds, Exited, Reaped, Failed, Drained, Moves
  <2>5. CASE Append(m) \/ SettleReturns(m) \/ SettleCut(m)
    BY <1>2, <2>5 DEF Append, SettleReturns, SettleCut
  <2>6. CASE Settled(m)
    BY <1>3, <2>6 DEF Settled, run
  <2> QED
    BY <1>3, <2>1, <2>2, <2>3, <2>4, <2>5, <2>6 DEF Member
<1>4. ASSUME NEW m \in Members, Ask(m) \/ Decline(m) \/ StreamFails(m) \/ Lingers(m) PROVE Way(m)
  BY <1>1, <1>4 DEF Way, Ask, Decline, StreamFails, Lingers, Moves
<1>5. ASSUME NEW m \in Members,
             Reap(m) \/ GraceOver(m) \/ ChildMutes(m) \/ ChildExits(m) \/ HelperStarts(m) \/ HelperEnds(m) \/ Stop(m) \/ Interrupt(m)
      PROVE  UNCHANGED <<pc, free>>
  BY <1>5
  DEF run, Reap, ReaperStarts, ReaperReleased, ReaperEscalates, ReaperKills, GraceOver, ChildMutes, ChildExits, Child,
      HelperStarts, HelperEnds, Command, Stop, Interrupt
<1>6. CASE CancelBatch \/ NewPrompt \/ SweepStarts \/ SweepCut \/ Sweep
  BY <1>6 DEF run, CancelBatch, NewPrompt, SweepStarts, SweepCut, Sweep, SweepWave, SweepAborts, SweepAborted, SweepJoins, SweepReturns
<1> QED
  BY <1>3, <1>4, <1>5, <1>6 DEF Next, Step

LEMMA OrderKept ==
  ASSUME IInv, [Next]_vars
  PROVE  Order'
<1> USE DEF IInv, Types, Order, Waiting, InRun, InChannel
<1>1. scope' = scope /\ Tasks' = Tasks /\ Tasks \subseteq Batch /\ Batch \subseteq Members /\ Batch \cap Solos = {}
  BY TasksInBatch, BatchFinite DEF Next, vars, Tasks
<1>2. CASE UNCHANGED pc
  BY <1>1, <1>2
<1>3. CASE Delegate
  BY <1>1, <1>3, TypesKept DEF Delegate, Tasks
<1>4. ASSUME NEW m \in Members, Next, Moved(m),
             pc'[m] # pc[m] => pc[m] # "over" /\ pc'[m] \notin {"idle", "parked"} /\ (pc[m] = "idle" => m \in Solos)
                              /\ (pc'[m] = "asked" => m \in Solos)
      PROVE  Order'
  <2>1. \A k \in Members : (pc'[k] = "parked" => k \in Batch) /\ (pc'[k] = "asked" => k \in Solos)
    BY <1>1, <1>4 DEF Moved
  <2>2. ASSUME scope.chain, NEW k \in Tasks, k + 1 \in Tasks, pc'[k] # "over" PROVE pc'[k + 1] = "idle"
    <3>1. k \in Members /\ k + 1 \in Members /\ k \in Nat /\ k + 1 # k
      BY <1>1, <2>2, TasksInBatch
    <3>2. pc[k] # "over"
      BY <1>4, <2>2, <3>1 DEF Moved
    <3>3. pc[k + 1] = "idle"
      BY <2>2, <3>2
    <3>4. CASE k + 1 = m
      BY <1>1, <1>4, <2>2, <3>3, <3>4
    <3>5. CASE k + 1 # m
      <4>1. m \in Tasks /\ k + 1 = m + 1 => m = k
        BY <3>1, TasksInBatch
      <4> QED
        BY <1>4, <2>2, <3>1, <3>3, <3>5, <4>1 DEF Moved
    <3> QED
      BY <3>4, <3>5
  <2> QED
    BY <1>1, <2>1, <2>2
<1>5. ASSUME Next, ~UNCHANGED pc, ~Delegate PROVE Order'
  <2>1. PICK m \in Members :
          /\ Moved(m)
          /\ \/ pc[m] \in Waiting /\ Waited(m)
             \/ pc[m] \in InRun /\ pc'[m] \in InRun
             \/ pc[m] \in {"parked", "asked"} /\ pc'[m] = "open"
             \/ pc[m] \in InRun /\ pc'[m] = "over"
    BY <1>5, Places DEF Way
  <2> QED
    BY <1>4, <1>5, <2>1 DEF Waited
<1> QED
  BY <1>2, <1>3, <1>5 DEF vars, run

\* A permit is taken by a member of the batch that was not admitted, and given back by one that was.
LEMMA PermitsKept ==
  ASSUME IInv, [Next]_vars
  PROVE  Permits'
<1> USE DEF IInv, Types, Permits, Waiting, InRun, InChannel
<1>0. IsFiniteSet(Admitted) /\ Cardinality(Admitted) \in Nat /\ Concurrency \in Nat
  BY BatchFinite, FS_Subset, FS_CardinalityType, LimitsAssumption DEF Admitted
<1>1. Batch \subseteq Members /\ Batch \cap Solos = {}
  BY BatchFinite
<1>2. CASE UNCHANGED <<pc, free>>
  BY <1>2 DEF Admitted
<1>3. CASE Delegate
  <2>1. Admitted' = Admitted /\ free' = free
    BY <1>1, <1>3 DEF Delegate, Admitted
  <2> QED
    BY <2>1
<1>4. ASSUME NEW m \in Members, Way(m) PROVE Permits'
  <2>1. \A k \in Batch \ {m} : pc'[k] \in InRun <=> pc[k] \in InRun
    BY <1>1, <1>4 DEF Way, Moved
  <2>2. CASE UNCHANGED free /\ ((pc[m] \in Waiting /\ Waited(m)) \/ (pc[m] \in InRun /\ pc'[m] \in InRun))
    <3>1. Admitted' = Admitted
      BY <2>1, <2>2 DEF Waited, Admitted
    <3> QED
      BY <2>2, <3>1
  <2>3. CASE /\ pc[m] \in {"parked", "asked"} /\ pc'[m] = "open" /\ (pc[m] = "parked" => free > 0)
             /\ free' = IF m \in Batch THEN free - 1 ELSE free
    <3>1. CASE m \in Batch
      <4>1. Admitted' = Admitted \cup {m} /\ m \notin Admitted
        BY <2>1, <2>3, <3>1 DEF Admitted
      <4>2. free > 0
        BY <1>1, <2>3, <3>1 DEF Order
      <4>3. Cardinality(Admitted') = Cardinality(Admitted) + 1
        BY <1>0, <4>1, FS_AddElement
      <4> QED
        BY <1>0, <2>3, <3>1, <4>2, <4>3
    <3>2. CASE m \notin Batch
      <4>1. Admitted' = Admitted
        BY <2>1, <3>2 DEF Admitted
      <4> QED
        BY <2>3, <3>2, <4>1
    <3> QED
      BY <3>1, <3>2
  <2>4. CASE pc[m] \in InRun /\ pc'[m] = "over" /\ free' = IF m \in Batch THEN free + 1 ELSE free
    <3>1. CASE m \in Batch
      <4>1. Admitted' = Admitted \ {m} /\ m \in Admitted
        BY <2>1, <2>4, <3>1 DEF Admitted
      <4>2. Cardinality(Admitted') = Cardinality(Admitted) - 1
        BY <1>0, <4>1, FS_RemoveElement
      <4> QED
        BY <1>0, <2>4, <3>1, <4>2
    <3>2. CASE m \notin Batch
      <4>1. Admitted' = Admitted
        BY <2>1, <3>2 DEF Admitted
      <4> QED
        BY <2>4, <3>2, <4>1
    <3> QED
      BY <3>1, <3>2
  <2> QED
    BY <1>4, <2>2, <2>3, <2>4 DEF Way
<1> QED
  BY <1>2, <1>3, <1>4, Places DEF vars, run

-----------------------------------------------------------------------------
\* A member nothing happens to, but that the end of another may have let it wait, is as safe as before.
Same(k) ==
  /\ child'[k] = child[k] /\ helper'[k] = helper[k] /\ reaper'[k] = reaper[k] /\ snap'[k] = snap[k]
  /\ kept'[k] = kept[k] /\ settling'[k] = settling[k]
  /\ (k \in row' <=> k \in row) /\ (k \in known' <=> k \in known) /\ (k \in stopped' <=> k \in stopped)
  /\ (k \in late' <=> k \in late)

LEMMA SameIsSafe ==
  ASSUME IInv, NEW k \in Members, Same(k), pc'[k] = pc[k] \/ (pc[k] = "idle" /\ pc'[k] = "parked")
  PROVE  Safe(k)'
BY DEF IInv, Safe, Reach, Walks, Records, Same, Alive, Reaping, HelperAlive, Waiting, WithProc, InRun, InChannel

\* A step of one member.
Only(m) == Safe(m)' /\ Moved(m) /\ \A k \in Members \ {m} : Same(k)

LEMMA OnlyIsSafe ==
  ASSUME IInv, NEW m \in Members, Only(m)
  PROVE  \A k \in Members : Safe(k)'
BY SameIsSafe DEF Only, Moved

\* A process that is killed is not alive, and its command goes with it if the walk named it.
LEMMA Killed ==
  ASSUME Types, NEW m \in Members, NEW w, Kill(m, w)
  PROVE  /\ child'[m] = (IF Alive(m) THEN "killed" ELSE child[m]) /\ ~Alive(m)'
         /\ helper'[m] = (IF w /\ HelperAlive(m) THEN "gone" ELSE helper[m])
         /\ \A k \in Members \ {m} : child'[k] = child[k] /\ helper'[k] = helper[k]
         /\ late' = late
BY DEF Types, Kill, Alive, HelperAlive

LEMMA MemberIsSafe ==
  ASSUME IInv, NEW m \in Members, Member(m)
  PROVE  Only(m)
<1> USE DEF IInv, Types, Only, Same, Safe, Reach, Walks, Records, Alive, Reaping, HelperAlive, Waiting, WithProc, InRun, InChannel
<1> USE DEF run, registry, process, reaping, receipt
<1>1. CASE Admit(m)
  BY <1>1 DEF Admit, Goes, Moved
<1>2. CASE WaitCut(m)
  BY <1>2 DEF WaitCut, Goes, Moved
<1>3. CASE Launch(m)
  BY <1>3 DEF Launch, Goes, Moved, ToSettle
<1>4. CASE OpenCut(m) \/ AppendCut(m)
  BY <1>4 DEF OpenCut, AppendCut, Goes, Moved, ToSettle
<1>5. CASE Spawned(m)
  BY <1>5 DEF Spawned, Goes, Moved, Reaper, Escalate
<1>6. CASE SpawnCut(m)
  <2>1. /\ pc[m] = "spawn" /\ pc' = [pc EXCEPT ![m] = "settle"] /\ settling' = [settling EXCEPT ![m] = "running"]
        /\ UNCHANGED <<row, known, stopped, reaper, snap, kept>>
    BY <1>6 DEF SpawnCut, ToSettle, Goes
  <2>2. /\ ~Alive(m)' /\ helper'[m] = helper[m] /\ late' = late
        /\ \A k \in Members \ {m} : child'[k] = child[k] /\ helper'[k] = helper[k]
    BY <1>6, Killed DEF SpawnCut
  <2> QED
    BY <2>1, <2>2 DEF Moved
<1>7. CASE ChannelCut(m)
  BY <1>7, Killed DEF ChannelCut, Goes, Moved, ToSettle, EagerAbort, Escalate
<1>8. CASE Aborted(m) \/ Reaped(m) \/ Exited(m) \/ ChildEnds(m)
  BY <1>8 DEF Aborted, Reaped, Exited, ChildEnds, Moves, Goes, Moved
<1>9. CASE StreamEnds(m) \/ Failed(m)
  BY <1>9 DEF StreamEnds, Failed, Moves, Goes, Moved
<1>10. CASE Drained(m)
  BY <1>10 DEF Drained, Moves, Goes, Moved
<1>11. CASE Settled(m)
  BY <1>11 DEF Settled, Moved, Full
<1>12. CASE Append(m) \/ SettleReturns(m) \/ SettleCut(m)
  <2>1. PICK how : Leave(m, how)
    BY <1>12 DEF Append, SettleReturns, SettleCut
  <2>2. pc[m] # "over"
    BY <1>12 DEF Append, SettleReturns, SettleCut
  <2>3. Moved(m) /\ pc'[m] = "over"
    BY <2>1, <2>2, LeaveMoves
  <2>4. row' = row \ {m}
    BY <2>1 DEF Leave
  <2>5. UNCHANGED <<known, stopped, process, reaping, settling>>
    BY <1>12 DEF Append, SettleReturns, SettleCut
  <2>6. CASE Append(m)
    <3>1. kept' = [kept EXCEPT ![m] = @ \cup {"settle"}] /\ pc[m] = "append"
      BY <2>6 DEF Append
    <3>2. kept'[m] = Full
      BY <3>1 DEF Full
    <3> QED
      BY <2>3, <2>4, <2>5, <3>1, <3>2
  <2>7. CASE SettleReturns(m) \/ SettleCut(m)
    <3>1. UNCHANGED kept /\ pc[m] = "settle"
      BY <2>7 DEF SettleReturns, SettleCut
    <3> QED
      BY <2>3, <2>4, <2>5, <3>1
  <2> QED
    BY <1>12, <2>6, <2>7
<1> QED
  BY <1>1, <1>2, <1>3, <1>4, <1>5, <1>6, <1>7, <1>8, <1>9, <1>10, <1>11, <1>12 DEF Member

LEMMA OthersAreSafe ==
  ASSUME IInv, NEW m \in Members,
         \/ Ask(m) \/ Decline(m) \/ StreamFails(m) \/ Lingers(m) \/ Stop(m) \/ Interrupt(m)
         \/ Reap(m) \/ GraceOver(m) \/ ChildMutes(m) \/ ChildExits(m) \/ HelperStarts(m) \/ HelperEnds(m)
         \/ SweepAborts(m) \/ SweepJoins(m)
  PROVE  Only(m)
<1> USE DEF IInv, Types, Only, Same, Safe, Reach, Walks, Records, Alive, Reaping, HelperAlive, Waiting, WithProc, InRun, InChannel
<1> USE DEF run, registry, process, reaping, receipt
<1>1. CASE Ask(m) \/ Decline(m) \/ Interrupt(m)
  BY <1>1 DEF Ask, Decline, Interrupt, Goes, Moved
<1>2. CASE StreamFails(m)
  <2>1. /\ pc[m] = "stream" /\ pc' = [pc EXCEPT ![m] = "failed"]
        /\ UNCHANGED <<row, known, stopped, reaper, snap, kept, settling>>
    BY <1>2 DEF StreamFails, Goes
  <2>2. /\ ~Alive(m)' /\ late' = late /\ helper'[m] = (IF Alive(m) /\ HelperAlive(m) THEN "gone" ELSE helper[m])
        /\ child'[m] = (IF Alive(m) THEN "killed" ELSE child[m])
        /\ \A k \in Members \ {m} : child'[k] = child[k] /\ helper'[k] = helper[k]
    <3>1. Kill(m, Alive(m))
      BY <1>2 DEF StreamFails, EagerAbort
    <3> QED
      BY <3>1 DEF Kill
  <2> QED
    BY <2>1, <2>2 DEF Moved
<1>3. CASE Lingers(m)
  BY <1>3 DEF Lingers, Moves, Goes, Moved, Reaper
<1>4. CASE Stop(m) \/ SweepAborts(m)
  <2>1. AbortChild(m) /\ UNCHANGED <<pc, row, known, process, receipt>>
    BY <1>4 DEF Stop, SweepAborts
  <2>2. stopped' = stopped \cup {m} /\ IF m \in known THEN Reaper(m, "none") ELSE UNCHANGED reaping
    BY <2>1 DEF AbortChild
  <2> QED
    BY <2>1, <2>2 DEF Moved, Reaper
<1>6. CASE ReaperStarts(m)
  <2> DEFINE found == IF snap[m] # "none" THEN snap[m] ELSE IF HelperAlive(m) THEN "helper" ELSE "empty"
  <2>1. /\ reaper[m] = "due" /\ UNCHANGED <<run, registry, receipt>>
        /\ snap' = IF Alive(m) THEN [snap EXCEPT ![m] = found] ELSE snap
        /\ IF Alive(m) /\ m \notin eager
           THEN reaper' = [reaper EXCEPT ![m] = "grace"] /\ UNCHANGED process
           ELSE reaper' = [reaper EXCEPT ![m] = "done"] /\ Kill(m, Alive(m) /\ found = "helper")
    BY <1>6 DEF ReaperStarts
  <2>2. found \in {"helper", "empty"} /\ (found = "empty" /\ HelperAlive(m) => m \in late)
    BY <2>1
  <2>3. \A k \in Members \ {m} : snap'[k] = snap[k]
    BY <2>1
  <2>4. Alive(m) => snap'[m] = found
    BY <2>1
  <2> HIDE DEF found
  <2>5. CASE Alive(m) /\ m \notin eager
    BY <2>1, <2>2, <2>3, <2>4, <2>5 DEF Moved
  <2>6. CASE ~Alive(m)
    <3>1. UNCHANGED <<helper, late>> /\ child'[m] = child[m] /\ \A k \in Members \ {m} : child'[k] = child[k]
      BY <2>1, <2>6, Killed DEF Kill
    <3> QED
      BY <2>1, <2>3, <2>6, <3>1 DEF Moved
  <2>7. CASE Alive(m) /\ m \in eager
    <3>1. Kill(m, found = "helper") /\ reaper' = [reaper EXCEPT ![m] = "done"]
      BY <2>1, <2>7
    <3>2. /\ ~Alive(m)' /\ late' = late /\ child'[m] = "killed"
          /\ helper'[m] = (IF found = "helper" /\ HelperAlive(m) THEN "gone" ELSE helper[m])
          /\ \A k \in Members \ {m} : child'[k] = child[k] /\ helper'[k] = helper[k]
      BY <2>7, <3>1, Killed
    <3> QED
      BY <2>1, <2>2, <2>3, <2>7, <3>1, <3>2 DEF Moved
  <2> QED
    BY <2>5, <2>6, <2>7
<1>7. CASE ReaperReleased(m)
  BY <1>7 DEF ReaperReleased, Moved
<1>8. ASSUME ReaperKills(m) PROVE Only(m)
  <2>1. Kill(m, snap[m] = "helper") /\ reaper[m] = "grace" /\ reaper' = [reaper EXCEPT ![m] = "done"]
        /\ UNCHANGED <<run, registry, snap, receipt>>
    BY <1>8 DEF ReaperKills
  <2>2. /\ ~Alive(m)' /\ late' = late /\ child'[m] = (IF Alive(m) THEN "killed" ELSE child[m])
        /\ helper'[m] = (IF snap[m] = "helper" /\ HelperAlive(m) THEN "gone" ELSE helper[m])
        /\ \A k \in Members \ {m} : child'[k] = child[k] /\ helper'[k] = helper[k]
    BY <2>1, Killed
  <2>3. HelperAlive(m) /\ snap[m] # "helper" => m \in late
    BY <2>1
  <2> QED
    BY <2>1, <2>2, <2>3 DEF Moved
<1>9. CASE Reap(m) \/ GraceOver(m)
  BY <1>6, <1>7, <1>8, <1>9 DEF Reap, ReaperEscalates, GraceOver
<1>10. CASE ChildMutes(m) \/ ChildExits(m)
  BY <1>10 DEF ChildMutes, ChildExits, Child, Moved
<1>11. CASE HelperStarts(m)
  BY <1>11 DEF HelperStarts, Command, Moved
<1>12. CASE HelperEnds(m)
  BY <1>12 DEF HelperEnds, Command, Moved
<1>13. CASE SweepJoins(m)
  BY <1>13 DEF SweepJoins, Waves, Moved
<1> QED
  BY <1>1, <1>2, <1>3, <1>4, <1>9, <1>10, <1>11, <1>12, <1>13

LEMMA AllSafe ==
  ASSUME IInv, [Next]_vars
  PROVE  \A m \in Members : Safe(m)'
<1>1. ASSUME UNCHANGED <<row, known, stopped, process, reaping, receipt>>,
             \A m \in Members : pc'[m] = pc[m] \/ (pc[m] = "idle" /\ pc'[m] = "parked")
      PROVE  \A m \in Members : Safe(m)'
  BY <1>1, SameIsSafe DEF Same, process, reaping, receipt
<1>2. CASE UNCHANGED vars
  BY <1>1, <1>2 DEF vars, run, registry
<1>3. CASE Delegate
  <2>1. UNCHANGED <<row, known, stopped, process, reaping, receipt>>
    BY <1>3 DEF Delegate, registry
  <2>2. Tasks \subseteq Batch
    BY TasksInBatch DEF IInv, Types
  <2>3. ASSUME NEW m \in Members PROVE pc'[m] = pc[m] \/ (pc[m] = "idle" /\ pc'[m] = "parked")
    BY <1>3, <2>2 DEF Delegate
  <2> QED
    BY <1>1, <2>1, <2>3
<1>4. CASE CancelBatch \/ NewPrompt \/ SweepStarts \/ SweepCut \/ SweepWave \/ SweepAborted \/ SweepReturns
  BY <1>1, <1>4
  DEF run, registry, CancelBatch, NewPrompt, SweepStarts, SweepCut, SweepWave, SweepAborted, SweepReturns
<1>5. ASSUME NEW m \in Members, Only(m) PROVE \A k \in Members : Safe(k)'
  BY <1>5, OnlyIsSafe
<1> QED
  BY <1>2, <1>3, <1>4, <1>5, MemberIsSafe, OthersAreSafe DEF Next, Step, Sweep

\* While the door is shut nobody is admitted, and who is told to stop stays told.
LEMMA DoorAndRows ==
  ASSUME IInv, Next
  PROVE  /\ stopped \subseteq stopped'
         /\ DoorShut => row' \subseteq row
         /\ draining /\ closed /\ draining' => closed'
         /\ sweep' = sweep => draining' = draining /\ (closed' => closed)
<1> USE DEF IInv, Types
<1>1. ASSUME NEW m \in Members, Member(m) PROVE stopped' = stopped /\ (DoorShut => row' \subseteq row) /\ UNCHANGED <<draining, closed>>
  BY <1>1
  DEF run, registry, door, Member, Admit, Refused, WaitCut, Launch, OpenCut, Spawned, SpawnCut, Moves, Aborted, StreamEnds, ChildEnds,
      Exited, Reaped, Failed, Drained, ChannelCut, Append, AppendCut, Settled, SettleReturns, SettleCut, Leave
<1>2. ASSUME NEW m \in Members,
             \/ Ask(m) \/ Decline(m) \/ StreamFails(m) \/ Lingers(m) \/ Stop(m) \/ Interrupt(m)
             \/ Reap(m) \/ GraceOver(m) \/ ChildMutes(m) \/ ChildExits(m) \/ HelperStarts(m) \/ HelperEnds(m)
      PROVE  /\ stopped \subseteq stopped' /\ row' = row /\ draining' = draining
             /\ (draining /\ closed => closed') /\ (closed' => closed)
  BY <1>2
  DEF registry, door, Ask, Decline, StreamFails, Lingers, Moves, Stop, AbortChild, Interrupt, Reap, ReaperStarts, ReaperReleased,
      ReaperEscalates, ReaperKills, GraceOver, ChildMutes, ChildExits, Child, HelperStarts, HelperEnds, Command
<1>3. CASE Delegate \/ CancelBatch \/ NewPrompt
  BY <1>3 DEF registry, door, Delegate, CancelBatch, NewPrompt
<1>4. CASE SweepStarts \/ SweepCut \/ SweepReturns
  BY <1>4 DEF registry, SweepStarts, SweepCut, SweepReturns, Idle
<1>5. CASE SweepWave \/ SweepAborted
  BY <1>5 DEF registry, door, SweepWave, SweepAborted
<1>6. ASSUME NEW m \in Members, SweepAborts(m) \/ SweepJoins(m)
      PROVE  stopped \subseteq stopped' /\ row' \subseteq row /\ UNCHANGED door
  BY <1>6 DEF SweepAborts, SweepJoins, AbortChild
<1> QED
  BY <1>1, <1>2, <1>3, <1>4, <1>5, <1>6 DEF Next, Step, Sweep, door

LEMMA WavesKept ==
  ASSUME IInv, [Next]_vars
  PROVE  Waves'
<1> USE DEF IInv, Types, Waves
<1>1. CASE sweep' = sweep /\ Next
  BY <1>1, DoorAndRows DEF DoorShut
<1>2. CASE UNCHANGED vars
  BY <1>2 DEF vars, registry, door
<1>3. CASE SweepStarts \/ SweepCut \/ SweepReturns
  BY <1>3 DEF SweepStarts, SweepCut, SweepReturns, Idle, registry
<1>4. CASE SweepWave
  BY <1>4 DEF SweepWave, Idle, registry, door
<1>5. CASE SweepAborted
  BY <1>5 DEF SweepAborted, registry, door
<1>6. ASSUME NEW m \in Members, SweepAborts(m) PROVE Waves'
  <2>1. stopped' = stopped \cup {m} /\ UNCHANGED <<row, door>>
    BY <1>6 DEF SweepAborts, AbortChild
  <2> QED
    BY <1>6, <2>1 DEF SweepAborts, door
<1>7. ASSUME NEW m \in Members, SweepJoins(m) PROVE Waves'
  BY <1>7 DEF SweepJoins, Idle, door
<1>8. ASSUME NEW m \in Members,
             \/ Member(m) \/ Ask(m) \/ Decline(m) \/ StreamFails(m) \/ Lingers(m) \/ Stop(m) \/ Interrupt(m)
             \/ Reap(m) \/ GraceOver(m) \/ ChildMutes(m) \/ ChildExits(m) \/ HelperStarts(m) \/ HelperEnds(m)
      PROVE  sweep' = sweep
  BY <1>8
  DEF Member, Admit, WaitCut, Launch, OpenCut, Spawned, SpawnCut, Moves, Aborted, StreamEnds, ChildEnds, Exited, Reaped, Failed, Drained,
      ChannelCut, Append, AppendCut, Settled, SettleReturns, SettleCut, Ask, Decline, StreamFails, Lingers, Stop, Interrupt, Reap,
      ReaperStarts, ReaperReleased, ReaperEscalates, ReaperKills, GraceOver, ChildMutes, ChildExits, Child, HelperStarts, HelperEnds, Command
<1>9. CASE Next /\ (Delegate \/ CancelBatch \/ NewPrompt)
  BY <1>1, <1>9 DEF Delegate, CancelBatch, NewPrompt
<1> QED
  BY <1>1, <1>2, <1>3, <1>4, <1>5, <1>6, <1>7, <1>8, <1>9 DEF Next, Step, Sweep

-----------------------------------------------------------------------------
LEMMA Preserved == IInv /\ [Next]_vars => IInv'
BY TypesKept, OrderKept, PermitsKept, WavesKept, AllSafe DEF IInv

LEMMA Always == Spec => []IInv
BY Initially, Preserved, PTL DEF Spec

\* A permit is always either free or with a member that was admitted and is not over: no cancel, no
\* refusal and no failed start loses one or gives one back twice (`_CONCURRENCY' of batch.py).
THEOREM PermitsConserved == Spec => []TypeOK
<1>1. IInv => TypeOK
  <2>1. ASSUME IInv PROVE free \in 0..Concurrency
    BY <2>1, BatchFinite, FS_Subset, FS_CardinalityType, LimitsAssumption DEF IInv, Permits, Admitted
  <2> QED
    BY <2>1 DEF IInv, Types, TypeOK, Permits, Admitted
<1> QED
  BY <1>1, Always, PTL

\* When stop_all() is back every child that still runs was told to stop, and either a reaper is at it
\* or its own start will kill it, until somebody reopens the door.
THEOREM SweepsHold == Spec => []StopAllHolds
<1>1. IInv => StopAllHolds
  BY DEF IInv, Types, Safe, Reach, Waves, StopAllHolds, Waiting, WithProc, InRun, InChannel
<1> QED
  BY <1>1, Always, PTL

\* A live child has a run that waits for it or a reaper at work, and a row unless it was told to stop;
\* a killed one left no command behind that its reaper's walk could have named.
THEOREM NoChildForgotten == Spec => []Attended
<1>1. IInv => Attended
  BY DEF IInv, Safe, Reach, Walks, Attended
<1> QED
  BY <1>1, Always, PTL

\* A member that is over left both of its records or, never admitted, none, whatever was cancelled and
\* whatever failed on the way.
THEOREM EveryReceiptCloses == Spec => []ReceiptsClosed
<1>1. IInv => ReceiptsClosed
  BY DEF IInv, Types, Safe, Records, ReceiptsClosed, Full
<1> QED
  BY <1>1, Always, PTL
=============================================================================
