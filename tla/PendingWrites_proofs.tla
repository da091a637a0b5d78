------------------------ MODULE PendingWrites_proofs ------------------------
(***************************************************************************)
(* For every set of callers and every bound: PendingWrites keeps its types,*)
(* one drain appends at a time, one claim owns the harness, no write is    *)
(* lost or recorded twice, the records reach the session in the order the  *)
(* harness decided to make them unless a claim overtook a waiter, and      *)
(* dispose() waits for all that is queued or detached.                     *)
(*                                                                         *)
(* IInv gives the types and the owners.  Placed says where each write is.  *)
(* The order needs more: Waiting and Last say who may still get the drain  *)
(* lock once the harness is claimed, Single that only a flush holds more   *)
(* than one write, and Ordered relates the session, the appends in         *)
(* progress and the queue.  OInv is their conjunction.  Closing says why   *)
(* no turn is left when dispose() drains.                                  *)
(***************************************************************************)
EXTENDS PendingWrites, SequenceTheorems, FiniteSetTheorems, TLAPS

\* What each kind of caller can be doing.
RolePC ==
  /\ \A t \in Prompts : pc[t] \in {"start", "entry", "body", "nested", "release", "done"}
  /\ \A t \in Setters : pc[t] \in {"start", "hook", "direct", "setdrain", "done"}
  /\ \A t \in Recorders : pc[t] \in {"start", "hook", "direct", "done"}
  /\ \A t \in Compactors : pc[t] \in {"start", "entry", "body", "done"}
  /\ \A t \in Disposers : pc[t] \in {"start", "waitidle", "closing", "done"}

Quiet == {"start", "hook", "waitidle", "nested", "done"}
Holdless(t, p) == p \in Quiet \/ (p = "body" /\ t \in Compactors)

\* A caller that is in no append, no drain and no turn holds nothing; a compaction appends without
\* the queue, nested under a prompt's claim or not.
Empty == \A t \in Tasks : Holdless(t, pc[t]) => batch[t] = <<>>

IInv == TypeOK /\ RolePC /\ Empty /\ OneDrainAppends /\ OneClaim

-----------------------------------------------------------------------------
\* Taking one element out of a sequence leaves a sequence of the same elements.
LEMMA MinusType ==
  ASSUME NEW S, NEW s \in Seq(S), NEW i \in DOMAIN s
  PROVE  Minus(s, i) \in Seq(S)
<1>1. Len(s) \in Nat /\ DOMAIN s = 1..Len(s) /\ \A k \in 1..Len(s) : s[k] \in S
  BY ElementOfSeq, LenProperties
<1>2. Len(s) - 1 \in Nat
  BY <1>1
<1>3. \A j \in 1..(Len(s) - 1) : (IF j < i THEN s[j] ELSE s[j + 1]) \in S
  BY <1>1
<1> QED
  BY <1>2, <1>3, IsASeq DEF Minus

LEMMA WithoutType ==
  ASSUME NEW S, NEW s \in Seq(S), NEW t
  PROVE  WithoutTask(s, t) \in Seq(S) /\ WithoutAppend(s, t) \in Seq(S)
<1>1. WithoutTask(s, t) \in Seq(S)
  <2>1. CASE \E i \in DOMAIN s : s[i] = t
    <3>1. (CHOOSE i \in DOMAIN s : s[i] = t) \in DOMAIN s
      BY <2>1
    <3> QED
      BY <2>1, <3>1, MinusType DEF WithoutTask
  <2> QED
    BY <2>1 DEF WithoutTask
<1>2. WithoutAppend(s, t) \in Seq(S)
  <2>1. CASE \E i \in DOMAIN s : s[i].task = t
    <3>1. (CHOOSE i \in DOMAIN s : s[i].task = t) \in DOMAIN s
      BY <2>1
    <3> QED
      BY <2>1, <3>1, MinusType DEF WithoutAppend
  <2> QED
    BY <2>1 DEF WithoutAppend
<1> QED
  BY <1>1, <1>2

\* The shape of what a task holds: a flush's writes, or the record of an idle_write().
Held(t, b) == b \in Seq(Writes) \/ (b = <<Record>> /\ t \in Recorders)

LEMMA HeldHead ==
  ASSUME TypeOK, NEW t \in Tasks, batch[t] # <<>>
  PROVE  /\ Held(t, batch[t])
         /\ Tail(batch[t]) \in Seq(Writes)
         /\ Head(batch[t]) \in Writes \cup {Record}
         /\ t \notin Recorders => Head(batch[t]) \in Writes
<1>1. Held(t, batch[t])
  BY DEF TypeOK, Held
<1>2. CASE batch[t] \in Seq(Writes)
  BY <1>1, <1>2, HeadTailProperties
<1>3. CASE batch[t] = <<Record>> /\ t \in Recorders
  <2>1. Head(batch[t]) = Record /\ Tail(batch[t]) = <<>>
    BY <1>3
  <2> QED
    BY <1>1, <1>3, <2>1, EmptySeq
<1> QED
  BY <1>1, <1>2, <1>3 DEF Held

\* Giving task t a well-shaped batch keeps `batch' well typed.
LEMMA BatchExcept ==
  ASSUME TypeOK, NEW t \in Tasks, NEW b, Held(t, b), batch' = [batch EXCEPT ![t] = b]
  PROVE  /\ batch' \in [Tasks -> Seq(Writes) \cup {<<Record>>}]
         /\ \A u \in Tasks : batch'[u] = <<Record>> => u \in Recorders
<1>0. batch \in [Tasks -> Seq(Writes) \cup {<<Record>>}]
      /\ \A u \in Tasks : batch[u] = <<Record>> => u \in Recorders
  BY DEF TypeOK
<1>1. batch' \in [Tasks -> Seq(Writes) \cup {<<Record>>}]
  BY <1>0 DEF Held
<1>2. <<Record>> \notin Seq(Writes)
  <2>1. SUFFICES ASSUME <<Record>> \in Seq(Writes) PROVE FALSE
    OBVIOUS
  <2>2. Head(<<Record>>) \in Writes
    BY <2>1, HeadTailProperties
  <2> QED
    BY <2>2, RolesAssumption DEF Record, Writes
<1>3. ASSUME NEW u \in Tasks, batch'[u] = <<Record>> PROVE u \in Recorders
  BY <1>0, <1>2, <1>3 DEF Held
<1> QED
  BY <1>1, <1>3

-----------------------------------------------------------------------------
\* The types of what a drain, a flush or a cancel changes, primed.
Phases == {"idle", "turn", "compaction"}
PCs == {"start", "hook", "direct", "waitidle", "body", "nested", "done"} \cup Draining
Append1 == [task : Tasks, write : Writes \cup {Record}]

QueueTypes ==
  /\ phase \in Phases
  /\ queue \in Seq(Writes)
  /\ lock \in Tasks \cup {Nobody}
  /\ waiters \in Seq(Tasks)
  /\ pc \in [Tasks -> PCs]
  /\ batch \in [Tasks -> Seq(Writes) \cup {<<Record>>}]
  /\ \A t \in Tasks : batch[t] = <<Record>> => t \in Recorders
  /\ store \in Seq(Append1)

LEMMA SplitType == TypeOK <=> /\ QueueTypes
                              /\ disposed \in BOOLEAN /\ log \in Seq(Writes)
                              /\ issued \in 0..MaxWrites /\ dropped \subseteq Writes
                              /\ ran \subseteq Tasks /\ overtaken \in BOOLEAN
  BY DEF TypeOK, QueueTypes, Phases, PCs, Append1

LEMMA AfterType ==
  ASSUME NEW d \in Draining PROVE After(d) \in PCs
  BY DEF After, Draining, PCs

LEMMA DetachType ==
  ASSUME TypeOK, NEW t \in Tasks, NEW q \in Seq(Writes), q # <<>>, NEW s \in Seq(Append1),
         Detach(t, q, s)
  PROVE  /\ batch' \in [Tasks -> Seq(Writes) \cup {<<Record>>}]
         /\ \A u \in Tasks : batch'[u] = <<Record>> => u \in Recorders
         /\ store' \in Seq(Append1)
         /\ queue' \in Seq(Writes)
<1>1. Head(q) \in Writes
  BY HeadTailProperties
<1>2. [task |-> t, write |-> Head(q)] \in Append1
  BY <1>1 DEF Append1
<1>3. store' \in Seq(Append1)
  BY <1>2, AppendProperties DEF Detach
<1>4. queue' \in Seq(Writes)
  BY EmptySeq DEF Detach
<1> QED
  BY <1>3, <1>4, BatchExcept DEF Detach, Held

LEMMA EmptyBatch ==
  ASSUME TypeOK, NEW t \in Tasks, batch' = [batch EXCEPT ![t] = <<>>]
  PROVE  /\ batch' \in [Tasks -> Seq(Writes) \cup {<<Record>>}]
         /\ \A u \in Tasks : batch'[u] = <<Record>> => u \in Recorders
  BY EmptySeq, BatchExcept DEF Held

LEMMA DrainType ==
  ASSUME TypeOK, NEW t \in Tasks, NEW d \in Draining, NEW q \in Seq(Writes), NEW ph \in Phases,
         Drain(t, d, q, ph)
  PROVE  QueueTypes'
<1>0. QueueTypes
  BY SplitType
<1>1. CASE /\ NothingToDrain(q)
           /\ pc' = [pc EXCEPT ![t] = After(d)]
           /\ phase' = IF d = "release" THEN "idle" ELSE ph
           /\ queue' = q
           /\ UNCHANGED <<lock, waiters, batch, store>>
  BY <1>0, <1>1, AfterType DEF QueueTypes, Phases
<1>2. CASE /\ ~NothingToDrain(q) /\ ~Locked /\ waiters = <<>>
           /\ pc' = [pc EXCEPT ![t] = d]
           /\ phase' = ph
           /\ lock' = t
           /\ Detach(t, q, store)
           /\ UNCHANGED waiters
  <2>1. q # <<>>
    BY <1>2 DEF NothingToDrain
  <2>2. store \in Seq(Append1)
    BY <1>0 DEF QueueTypes
  <2> QED
    BY <1>0, <1>2, <2>1, <2>2, DetachType DEF QueueTypes, PCs
<1>3. CASE /\ ~NothingToDrain(q) /\ (Locked \/ waiters # <<>>)
           /\ pc' = [pc EXCEPT ![t] = d]
           /\ phase' = ph
           /\ queue' = q
           /\ waiters' = Append(waiters, t)
           /\ UNCHANGED <<lock, batch, store>>
  <2>1. waiters' \in Seq(Tasks)
    BY <1>0, <1>3, AppendProperties DEF QueueTypes
  <2> QED
    BY <1>0, <1>3, <2>1 DEF QueueTypes, PCs
<1> QED
  BY <1>1, <1>2, <1>3 DEF Drain

LEMMA DrainLoopType ==
  ASSUME TypeOK, NEW t \in Tasks, NEW s \in Seq(Append1), pc[t] \in Draining,
         DrainLoop(t, s), waiters' \in Seq(Tasks)
  PROVE  QueueTypes'
<1>0. QueueTypes
  BY SplitType
<1>1. CASE queue # <<>>
  <2>1. Detach(t, queue, s) /\ lock' = t /\ UNCHANGED <<pc, phase>>
    BY <1>1 DEF DrainLoop
  <2>2. queue \in Seq(Writes)
    BY <1>0 DEF QueueTypes
  <2> QED
    BY <1>0, <1>1, <2>1, <2>2, DetachType DEF QueueTypes
<1>2. CASE queue = <<>>
  <2>1. /\ lock' = Nobody
        /\ pc' = [pc EXCEPT ![t] = After(pc[t])]
        /\ Leaves(pc[t])
        /\ batch' = [batch EXCEPT ![t] = <<>>]
        /\ store' = s
        /\ UNCHANGED queue
    BY <1>2 DEF DrainLoop
  <2>2. phase' \in Phases
    BY <1>0, <2>1 DEF Leaves, QueueTypes, Phases
  <2>3. pc' \in [Tasks -> PCs]
    BY <1>0, <2>1, AfterType DEF QueueTypes
  <2> QED
    BY <1>0, <2>1, <2>2, <2>3, EmptyBatch DEF QueueTypes
<1> QED
  BY <1>1, <1>2

LEMMA AppendDirectlyType ==
  ASSUME TypeOK, NEW t \in Tasks, NEW w, Held(t, <<w>>), w \in Writes \cup {Record},
         AppendDirectly(t, w)
  PROVE  /\ batch' \in [Tasks -> Seq(Writes) \cup {<<Record>>}]
         /\ \A u \in Tasks : batch'[u] = <<Record>> => u \in Recorders
         /\ store' \in Seq(Append1)
         /\ pc' \in [Tasks -> PCs]
<1>0. QueueTypes
  BY SplitType
<1>1. [task |-> t, write |-> w] \in Append1
  BY DEF Append1
<1>2. store' \in Seq(Append1)
  BY <1>0, <1>1, AppendProperties DEF AppendDirectly, QueueTypes
<1> QED
  BY <1>0, <1>2, BatchExcept DEF AppendDirectly, QueueTypes, PCs

LEMMA ResumeType ==
  ASSUME TypeOK, NEW t \in Tasks, Flushing(t), Resume(t), waiters' = waiters
  PROVE  QueueTypes'
<1>0. QueueTypes
  BY SplitType
<1> DEFINE rest == Tail(batch[t])
           others == WithoutAppend(store, t)
<1>1. others \in Seq(Append1)
  BY <1>0, WithoutType DEF QueueTypes
<1>2. rest \in Seq(Writes)
  BY HeldHead DEF Flushing
<1>3. waiters' \in Seq(Tasks)
  BY <1>0 DEF QueueTypes
<1>4. CASE /\ rest # <<>>
           /\ batch' = [batch EXCEPT ![t] = rest]
           /\ store' = Append(others, [task |-> t, write |-> Head(rest)])
           /\ UNCHANGED <<phase, pc, queue, lock>>
  <2>1. [task |-> t, write |-> Head(rest)] \in Append1
    BY <1>2, <1>4, HeadTailProperties DEF Append1
  <2>2. store' \in Seq(Append1)
    BY <1>1, <1>4, <2>1, AppendProperties
  <2>3. /\ batch' \in [Tasks -> Seq(Writes) \cup {<<Record>>}]
        /\ \A u \in Tasks : batch'[u] = <<Record>> => u \in Recorders
    BY <1>2, <1>4, BatchExcept DEF Held
  <2> QED
    BY <1>0, <1>3, <1>4, <2>2, <2>3 DEF QueueTypes
<1>5. CASE rest = <<>> /\ pc[t] \in Draining /\ DrainLoop(t, others)
  BY <1>1, <1>3, <1>5, DrainLoopType
<1>6. CASE /\ rest = <<>> /\ pc[t] \in {"body", "direct"}
           /\ batch' = [batch EXCEPT ![t] = <<>>]
           /\ store' = others
           /\ pc' = [pc EXCEPT ![t] = IF @ = "direct" THEN "done" ELSE @]
           /\ lock' = IF lock = t THEN Nobody ELSE lock
           /\ UNCHANGED <<phase, queue>>
  <2>1. pc' \in [Tasks -> PCs]
    BY <1>0, <1>6 DEF QueueTypes, PCs
  <2> QED
    BY <1>0, <1>1, <1>3, <1>6, <2>1, EmptyBatch DEF QueueTypes
<1> QED
  BY <1>4, <1>5, <1>6 DEF Resume

LEMMA RequeueType ==
  ASSUME TypeOK, NEW t \in Tasks, Flushing(t)
  PROVE  Requeue(Tail(batch[t]), queue) \in Seq(Writes)
<1>1. queue \in Seq(Writes) /\ Tail(batch[t]) \in Seq(Writes)
  BY HeldHead DEF TypeOK, Flushing
<1> QED
  BY <1>1, ConcatProperties DEF Requeue

LEMMA CutHeadType ==
  ASSUME TypeOK, NEW t \in Tasks, CutHead(t)
  PROVE  log' \in Seq(Writes) /\ dropped' \subseteq Writes
<1>1. log \in Seq(Writes) /\ dropped \subseteq Writes
  BY DEF TypeOK
<1>2. Flushing(t) => Head(batch[t]) \in Writes \cup {Record}
  BY HeldHead DEF Flushing
<1>3. CASE UNCHANGED <<log, dropped>>
  BY <1>1, <1>3
<1>4. CASE /\ Flushing(t) /\ Head(batch[t]) # Record
           /\ dropped' = dropped \cup {Head(batch[t])} /\ UNCHANGED log
  BY <1>1, <1>2, <1>4
<1>5. CASE /\ Head(batch[t]) # Record /\ Appending(t)
           /\ log' = Append(log, Head(batch[t])) /\ UNCHANGED dropped
  BY <1>1, <1>2, <1>5, AppendProperties DEF Appending
<1> QED
  BY <1>3, <1>4, <1>5 DEF CutHead

LEMMA CutFlushType ==
  ASSUME TypeOK, NEW t \in Tasks, Flushing(t), CutFlush(t)
  PROVE  /\ batch' \in [Tasks -> Seq(Writes) \cup {<<Record>>}]
         /\ \A u \in Tasks : batch'[u] = <<Record>> => u \in Recorders
         /\ store' \in Seq(Append1) /\ queue' \in Seq(Writes)
         /\ log' \in Seq(Writes) /\ dropped' \subseteq Writes
<1>1. store' \in Seq(Append1)
  BY SplitType, WithoutType DEF CutFlush, QueueTypes
<1>2. queue' \in Seq(Writes)
  BY RequeueType DEF CutFlush
<1> QED
  BY <1>1, <1>2, CutHeadType, EmptyBatch DEF CutFlush
-----------------------------------------------------------------------------
\* A write the harness decides to record is one of the bounded set, and extends the queue.
LEMMA IssueType ==
  ASSUME TypeOK, issued < MaxWrites
  PROVE  /\ issued + 1 \in Writes /\ issued + 1 \in 0..MaxWrites
         /\ Append(queue, issued + 1) \in Seq(Writes)
<1>1. issued + 1 \in Writes /\ issued + 1 \in 0..MaxWrites
  BY RolesAssumption DEF TypeOK, Writes
<1> QED
  BY <1>1, AppendProperties DEF TypeOK

\* Every action keeps the types.  The two unnamed conjuncts of QueueTypes that an action leaves
\* alone follow from QueueTypes itself.
LEMMA TypeStep ==
  ASSUME TypeOK, NEW t \in Tasks, Step(t) \/ Cancel(t) \/ AppendMessage
  PROVE  /\ QueueTypes'
         /\ disposed' \in BOOLEAN /\ log' \in Seq(Writes)
         /\ issued' \in 0..MaxWrites /\ dropped' \subseteq Writes /\ overtaken' \in BOOLEAN
<1>0. /\ QueueTypes
      /\ disposed \in BOOLEAN /\ log \in Seq(Writes)
      /\ issued \in 0..MaxWrites /\ dropped \subseteq Writes /\ overtaken \in BOOLEAN
  BY SplitType
<1> USE DEF QueueTypes
<1>d. {"entry", "release", "setdrain", "closing"} \subseteq Draining
  BY DEF Draining
<1>1. CASE Wake(t)
  <2>1. waiters' \in Seq(Tasks)
    BY <1>0, <1>1, HeadTailProperties DEF Wake, HandedOver
  <2>2. CASE pc[t] \in Draining /\ DrainLoop(t, store)
    BY <1>0, <1>1, <2>1, <2>2, DrainLoopType DEF Wake
  <2>3. CASE t \in Recorders /\ lock' = t /\ AppendDirectly(t, Record) /\ UNCHANGED <<phase, queue>>
    BY <1>0, <1>1, <2>1, <2>3, AppendDirectlyType DEF Wake, Held
  <2>4. CASE pc' = [pc EXCEPT ![t] = "done"] /\ UNCHANGED <<phase, queue, lock, batch, store>>
    BY <1>0, <1>1, <2>1, <2>4 DEF Wake, PCs
  <2> QED
    BY <1>1, <2>2, <2>3, <2>4 DEF Wake
<1>2. CASE Land(t)
  <2>1. Head(batch[t]) \in Writes \cup {Record}
    BY <1>2, HeldHead DEF Land, Appending, Flushing
  <2>2. log' \in Seq(Writes)
    BY <1>0, <1>2, <2>1, AppendProperties DEF Land
  <2> QED
    BY <1>0, <1>2, <2>2, ResumeType DEF Land, Appending
<1>3. CASE Refuse(t)
  <2>1. Head(batch[t]) \in Writes \cup {Record}
    BY <1>3, HeldHead DEF Refuse, Appending, Flushing
  <2> QED
    BY <1>0, <1>3, <2>1, ResumeType DEF Refuse, Appending
<1>4. CASE Prompt(t)
  BY <1>0, <1>d, <1>4, DrainType DEF Prompt, Overtakes, Phases
<1>5. CASE TurnFlush(t)
  BY <1>0, <1>5, DetachType DEF TurnFlush
<1>6. CASE PromptCloses(t)
  BY <1>0, <1>d, <1>6, DrainType DEF PromptCloses, Phases
<1>7. CASE SetCalled(t)
  BY <1>0, <1>7, IssueType DEF SetCalled, PCs
<1>8. CASE SetEnds(t)
  BY <1>0, <1>8 DEF SetEnds, PCs
<1>9. CASE SetRecords(t)
  <2>1. issued + 1 \in Writes /\ issued' \in 0..MaxWrites /\ Append(queue, issued + 1) \in Seq(Writes)
    BY <1>9, IssueType DEF SetRecords
  <2>2. Held(t, <<issued + 1>>)
    BY <2>1, AppendProperties, EmptySeq, IsASeq DEF Held
  <2>3. CASE AppendDirectly(t, issued + 1) /\ UNCHANGED <<phase, queue, lock, waiters>>
    BY <1>0, <1>9, <2>1, <2>2, <2>3, AppendDirectlyType DEF SetRecords
  <2>4. CASE phase = "idle" /\ Drain(t, "setdrain", Append(queue, issued + 1), phase)
    BY <1>0, <1>d, <1>9, <2>1, <2>4, DrainType DEF SetRecords
  <2>5. CASE /\ queue' = Append(queue, issued + 1)
             /\ pc' = [pc EXCEPT ![t] = "done"]
             /\ UNCHANGED <<phase, lock, waiters, batch, store>>
    BY <1>0, <1>9, <2>1, <2>5 DEF SetRecords, PCs
  <2> QED
    BY <1>9, <2>3, <2>4, <2>5 DEF SetRecords
<1>10. CASE IdleWrite(t)
  <2>1. CASE lock' = t /\ AppendDirectly(t, Record) /\ UNCHANGED waiters
    BY <1>0, <1>10, <2>1, AppendDirectlyType DEF IdleWrite, Held
  <2>2. CASE /\ waiters' = Append(waiters, t)
             /\ pc' = [pc EXCEPT ![t] = "hook"]
             /\ UNCHANGED <<lock, batch, store>>
    BY <1>0, <1>10, <2>2, AppendProperties DEF IdleWrite, PCs
  <2> QED
    BY <1>10, <2>1, <2>2 DEF IdleWrite
<1>11. CASE Compact(t)
  BY <1>0, <1>d, <1>11, DrainType DEF Compact, Overtakes, Phases
<1>12. CASE CompactEnds(t)
  BY <1>0, <1>12 DEF CompactEnds, PCs, Phases
<1>13. CASE Dispose(t)
  <2>1. CASE Drain(t, "closing", queue, phase)
    BY <1>0, <1>d, <1>13, <2>1, DrainType DEF Dispose
  <2>2. CASE pc' = [pc EXCEPT ![t] = "waitidle"] /\ UNCHANGED <<phase, queue, lock, waiters, batch, store>>
    BY <1>0, <1>13, <2>2 DEF Dispose, PCs
  <2> QED
    BY <1>13, <2>1, <2>2 DEF Dispose
<1>14. CASE DisposeIdle(t)
  BY <1>0, <1>d, <1>14, DrainType DEF DisposeIdle
<1>15. CASE CancelTurn(t)
  BY <1>0, <1>15, CutFlushType DEF CancelTurn
<1>16. CASE CancelEntry(t)
  <2> DEFINE left == WithoutTask(waiters, t)
             q == IF Flushing(t) THEN Requeue(Tail(batch[t]), queue) ELSE queue
             s == WithoutAppend(store, t)
  <2>1. left \in Seq(Tasks) /\ s \in Seq(Append1) /\ q \in Seq(Writes)
    BY <1>0, WithoutType, RequeueType
  <2>3. log' \in Seq(Writes) /\ dropped' \subseteq Writes
    BY <1>16, CutHeadType DEF CancelEntry
  <2>4. CASE /\ pc' = [pc EXCEPT ![t] = "done"] /\ phase' = "idle"
             /\ lock' = Nobody /\ waiters' = left
             /\ batch' = [batch EXCEPT ![t] = <<>>] /\ store' = s /\ queue' = q
    BY <1>0, <1>16, <2>1, <2>3, <2>4, EmptyBatch DEF CancelEntry, PCs, Phases
  <2>5. CASE /\ q # <<>>
             /\ pc' = [pc EXCEPT ![t] = "release"] /\ UNCHANGED phase
             /\ lock' = t /\ waiters' = left
             /\ Detach(t, q, s)
    BY <1>0, <1>16, <2>1, <2>3, <2>5, DetachType DEF CancelEntry, PCs, Draining
  <2>6. CASE /\ pc' = [pc EXCEPT ![t] = "release"] /\ UNCHANGED phase
             /\ lock' \in {Nobody, lock}
             /\ waiters' = Append(left, t)
             /\ batch' = [batch EXCEPT ![t] = <<>>] /\ store' = s /\ queue' = q
    BY <1>0, <1>16, <2>1, <2>3, <2>6, EmptyBatch, AppendProperties DEF CancelEntry, PCs, Draining
  <2> QED
    BY <1>16, <2>4, <2>5, <2>6 DEF CancelEntry
<1>17. CASE CancelCaller(t)
  <2>1. /\ batch' \in [Tasks -> Seq(Writes) \cup {<<Record>>}]
        /\ \A u \in Tasks : batch'[u] = <<Record>> => u \in Recorders
        /\ store' \in Seq(Append1) /\ queue' \in Seq(Writes)
        /\ log' \in Seq(Writes) /\ dropped' \subseteq Writes
    BY <1>0, <1>17, CutFlushType DEF CancelCaller, Cut
  <2>2. waiters' \in Seq(Tasks)
    BY <1>0, <1>17, WithoutType DEF CancelCaller
  <2> QED
    BY <1>0, <1>17, <2>1, <2>2 DEF CancelCaller, PCs, Phases, Unlocked
<1>18. CASE AppendMessage
  BY <1>0, <1>18, IssueType DEF AppendMessage
<1>19. CASE PromptCompacts(t) \/ PromptCompacted(t)
  BY <1>0, <1>19 DEF PromptCompacts, PromptCompacted, HandedBack, PCs, Phases
<1> QED
  BY <1>1, <1>2, <1>3, <1>4, <1>5, <1>6, <1>7, <1>8, <1>9, <1>10, <1>11, <1>12, <1>13, <1>14,
     <1>15, <1>16, <1>17, <1>18, <1>19 DEF Step, Cancel

-----------------------------------------------------------------------------
\* One step of a caller, as the other invariants see it: nobody else moves, and t keeps its part.
RoleAt(t, p) ==
  /\ t \in Prompts => p \in {"start", "entry", "body", "nested", "release", "done"}
  /\ t \in Setters => p \in {"start", "hook", "direct", "setdrain", "done"}
  /\ t \in Recorders => p \in {"start", "hook", "direct", "done"}
  /\ t \in Compactors => p \in {"start", "entry", "body", "done"}
  /\ t \in Disposers => p \in {"start", "waitidle", "closing", "done"}

Claiming(t, p) == \/ t \in Prompts /\ p \in {"entry", "body", "nested", "release"}
                  \/ t \in Compactors /\ p \in {"entry", "body"}

\* The part of a prompt's claim that no nested compaction takes.
InTurn(t, p) == t \in Prompts /\ p \in {"entry", "body", "release"}

\* A claim and its kind stay, a claim begins or changes its kind, or a claim ends.
ClaimStep(t) ==
  \/ /\ Claiming(t, pc[t]) <=> Claiming(t, pc'[t])
     /\ InTurn(t, pc[t]) <=> InTurn(t, pc'[t])
     /\ phase' = phase
  \/ /\ Claiming(t, pc'[t])
     /\ Claiming(t, pc[t]) \/ phase = "idle"
     /\ phase' = IF InTurn(t, pc'[t]) THEN "turn" ELSE "compaction"
  \/ Claiming(t, pc[t]) /\ ~Claiming(t, pc'[t]) /\ phase' = "idle"

Moves(t) ==
  /\ \A u \in Tasks : u # t => pc'[u] = pc[u] /\ batch'[u] = batch[u]
  /\ RoleAt(t, pc'[t])
  /\ Holdless(t, pc'[t]) => batch'[t] = <<>>
  /\ pc'[t] \in Draining /\ batch'[t] # <<>> => lock' = t
  /\ lock' = lock \/ lock \in {t, Nobody}
  /\ ClaimStep(t)

\* Each caller is where its kind can be.
LEMMA Roles == ASSUME IInv, NEW t \in Tasks PROVE RoleAt(t, pc[t])
  BY DEF IInv, RolePC, RoleAt

\* A step of that shape keeps the other invariants.
LEMMA MovesKeep ==
  ASSUME IInv, NEW t \in Tasks, Moves(t)
  PROVE  RolePC' /\ Empty' /\ OneDrainAppends' /\ OneClaim'
<1>0. /\ RolePC /\ Empty /\ OneDrainAppends /\ OneClaim
      /\ \A u \in Tasks : u # t => pc'[u] = pc[u] /\ batch'[u] = batch[u]
  BY DEF IInv, Moves
<1>1. RolePC'
  BY <1>0 DEF Moves, RolePC, RoleAt, Tasks
<1>2. Empty'
  BY <1>0 DEF Moves, Empty, Holdless, Quiet
<1>3. OneDrainAppends'
  BY <1>0, RolesAssumption DEF Moves, OneDrainAppends, Flushing
<1>4. OneClaim'
  <2>1. \A u \in Tasks : u # t => /\ Claiming(u, pc'[u]) <=> Claiming(u, pc[u])
                                  /\ InTurn(u, pc'[u]) <=> InTurn(u, pc[u])
    BY <1>0
  <2>2. /\ Claimants = {u \in Tasks : Claiming(u, pc[u])}
        /\ Claimants' = {u \in Tasks : Claiming(u, pc'[u])}
    BY DEF Claimants, Claiming, Tasks
  <2>3. /\ (\E u \in Claimants \cap Prompts : pc[u] # "nested") <=> \E u \in Tasks : InTurn(u, pc[u])
        /\ (\E u \in Claimants \cap Prompts : pc[u] # "nested")'
             <=> \E u \in Tasks : InTurn(u, pc'[u])
        /\ \A u \in Tasks : /\ InTurn(u, pc[u]) => Claiming(u, pc[u])
                            /\ InTurn(u, pc'[u]) => Claiming(u, pc'[u])
    BY RolesAssumption DEF Claimants, Claiming, InTurn, Tasks
  <2>4. CASE /\ Claiming(t, pc[t]) <=> Claiming(t, pc'[t])
             /\ InTurn(t, pc[t]) <=> InTurn(t, pc'[t])
             /\ phase' = phase
    <3>1. Claimants' = Claimants
      BY <2>1, <2>2, <2>4
    <3>2. (\E u \in Tasks : InTurn(u, pc'[u])) <=> \E u \in Tasks : InTurn(u, pc[u])
      BY <2>1, <2>4
    <3> QED
      BY <1>0, <2>3, <2>4, <3>1, <3>2 DEF OneClaim
  <2>5. CASE /\ Claiming(t, pc'[t])
             /\ Claiming(t, pc[t]) \/ phase = "idle"
             /\ phase' = IF InTurn(t, pc'[t]) THEN "turn" ELSE "compaction"
    <3>1. Claimants \subseteq {t}
      BY <1>0, <2>2, <2>5 DEF OneClaim
    <3>2. Claimants' = {t}
      BY <2>1, <2>2, <2>5, <3>1
    <3>3. (\E u \in Tasks : InTurn(u, pc'[u])) <=> InTurn(t, pc'[t])
      BY <2>2, <2>3, <3>2
    <3> QED
      BY <2>3, <2>5, <3>2, <3>3 DEF OneClaim
  <2>6. CASE Claiming(t, pc[t]) /\ ~Claiming(t, pc'[t]) /\ phase' = "idle"
    <3>1. Claimants' = {}
      BY <1>0, <2>1, <2>2, <2>6 DEF OneClaim
    <3> QED
      BY <2>6, <3>1 DEF OneClaim
  <2> QED
    BY <2>4, <2>5, <2>6 DEF Moves, ClaimStep
<1> QED
  BY <1>1, <1>2, <1>3, <1>4

-----------------------------------------------------------------------------
\* Entering a drain is such a step when its caller holds nothing and the phase it names fits.
LEMMA DrainMoves ==
  ASSUME IInv, NEW t \in Tasks, NEW d \in Draining, NEW q, NEW ph, Drain(t, d, q, ph),
         batch[t] = <<>>, RoleAt(t, d), RoleAt(t, After(d)),
         \/ ph = phase /\ ~Claiming(t, pc[t]) /\ ~Claiming(t, d)
         \/ d = "entry" /\ phase = "idle" /\ ph = IF t \in Prompts THEN "turn" ELSE "compaction"
         \/ d = "release" /\ Claiming(t, pc[t]) /\ ph = "turn",
         d = "entry" => t \in Prompts \cup Compactors,
         d = "release" => t \in Prompts,
         d \in {"setdrain", "closing"} => t \in Setters \cup Disposers
  PROVE  Moves(t)
<1>0. /\ pc \in [Tasks -> PCs]
      /\ batch \in [Tasks -> Seq(Writes) \cup {<<Record>>}]
      /\ RoleAt(t, pc[t])
  BY SplitType, Roles DEF IInv, QueueTypes
<1>1. CASE /\ NothingToDrain(q)
           /\ pc' = [pc EXCEPT ![t] = After(d)]
           /\ phase' = IF d = "release" THEN "idle" ELSE ph
           /\ queue' = q
           /\ UNCHANGED <<lock, waiters, batch, store>>
  <2>1. ClaimStep(t)
    <3>1. CASE d = "entry"
      BY <1>0, <1>1, <3>1, RolesAssumption DEF ClaimStep, Claiming, InTurn, After
    <3>2. CASE d = "release"
      BY <1>0, <1>1, <3>2, RolesAssumption DEF ClaimStep, Claiming, InTurn, After
    <3>3. CASE d \in {"setdrain", "closing"}
      BY <1>0, <1>1, <3>3, RolesAssumption DEF ClaimStep, Claiming, InTurn, After, RoleAt
    <3> QED
      BY <3>1, <3>2, <3>3 DEF Draining
  <2> QED
    BY <1>0, <1>1, <2>1 DEF Moves, After, Draining
<1>2. CASE /\ pc' = [pc EXCEPT ![t] = d] /\ phase' = ph
           /\ ~Locked /\ lock' = t /\ Detach(t, q, store)
  <2>1. ClaimStep(t)
    BY <1>0, <1>2 DEF ClaimStep, Claiming, InTurn
  <2> QED
    BY <1>0, <1>2, <2>1 DEF Moves, Detach, Locked, Holdless, Quiet, Draining
<1>3. CASE pc' = [pc EXCEPT ![t] = d] /\ phase' = ph /\ UNCHANGED <<lock, batch>>
  <2>1. ClaimStep(t)
    BY <1>0, <1>3 DEF ClaimStep, Claiming, InTurn
  <2> QED
    BY <1>0, <1>3, <2>1 DEF Moves, Holdless, Quiet, Draining
<1> QED
  BY <1>1, <1>2, <1>3 DEF Drain

\* So is each turn of the drain's loop.
LEMMA DrainLoopMoves ==
  ASSUME IInv, NEW t \in Tasks, NEW s, pc[t] \in Draining, lock \in {t, Nobody}, DrainLoop(t, s)
  PROVE  Moves(t)
<1>0. /\ pc \in [Tasks -> PCs]
      /\ batch \in [Tasks -> Seq(Writes) \cup {<<Record>>}]
      /\ RoleAt(t, pc[t])
  BY SplitType, Roles DEF IInv, QueueTypes
<1>1. CASE queue # <<>>
  BY <1>0, <1>1 DEF DrainLoop, Detach, Moves, ClaimStep, Claiming, InTurn, Draining, Holdless, Quiet
<1>2. CASE queue = <<>>
  <2>1. /\ lock' = Nobody
        /\ pc' = [pc EXCEPT ![t] = After(pc[t])]
        /\ phase' = IF pc[t] = "release" THEN "idle" ELSE phase
        /\ batch' = [batch EXCEPT ![t] = <<>>]
    BY <1>2 DEF DrainLoop, Leaves
  <2>2. ClaimStep(t)
    BY <1>0, <2>1, RolesAssumption DEF ClaimStep, Claiming, InTurn, After, RoleAt, Draining, Tasks
  <2>3. RoleAt(t, After(pc[t]))
    BY <1>0, RolesAssumption DEF After, RoleAt, Draining, Tasks
  <2> QED
    BY <1>0, <2>1, <2>2, <2>3 DEF Moves, Draining, After
<1> QED
  BY <1>1, <1>2

LEMMA ResumeMoves ==
  ASSUME IInv, NEW t \in Tasks, Flushing(t), Resume(t)
  PROVE  Moves(t)
<1>0. /\ pc \in [Tasks -> PCs]
      /\ batch \in [Tasks -> Seq(Writes) \cup {<<Record>>}]
      /\ RoleAt(t, pc[t])
      /\ ~Holdless(t, pc[t])
      /\ pc[t] \in Draining => lock = t
  BY SplitType, Roles DEF IInv, QueueTypes, Empty, Holdless, Quiet, Flushing, OneDrainAppends
<1>1. CASE /\ batch' = [batch EXCEPT ![t] = Tail(batch[t])]
           /\ UNCHANGED <<phase, pc, queue, lock>>
  BY <1>0, <1>1 DEF Moves, ClaimStep, InTurn
<1>2. CASE pc[t] \in Draining /\ DrainLoop(t, WithoutAppend(store, t))
  BY <1>0, <1>2, DrainLoopMoves
<1>3. CASE /\ pc[t] \in {"body", "direct"}
           /\ batch' = [batch EXCEPT ![t] = <<>>]
           /\ pc' = [pc EXCEPT ![t] = IF @ = "direct" THEN "done" ELSE @]
           /\ lock' = IF lock = t THEN Nobody ELSE lock
           /\ UNCHANGED <<phase, queue>>
  BY <1>0, <1>3, RolesAssumption DEF Moves, ClaimStep, Claiming, InTurn, RoleAt, Draining, Tasks
<1> QED
  BY <1>1, <1>2, <1>3 DEF Resume

LEMMA AppendDirectlyMoves ==
  ASSUME IInv, NEW t \in Setters \cup Recorders, NEW w, AppendDirectly(t, w), phase' = phase,
         lock' = lock \/ (lock = Nobody /\ lock' = t)
  PROVE  Moves(t)
<1>1. pc \in [Tasks -> PCs] /\ batch \in [Tasks -> Seq(Writes) \cup {<<Record>>}] /\ t \in Tasks
  BY SplitType DEF IInv, QueueTypes, Tasks
<1> QED
  BY <1>1, RolesAssumption
     DEF AppendDirectly, Moves, RoleAt, Holdless, Quiet, Draining, ClaimStep, Claiming, InTurn

\* Every action of a caller is such a step.
LEMMA EveryStepMoves ==
  ASSUME IInv, NEW t \in Tasks, Step(t) \/ Cancel(t)
  PROVE  Moves(t)
<1>0. /\ pc \in [Tasks -> PCs]
      /\ batch \in [Tasks -> Seq(Writes) \cup {<<Record>>}]
      /\ RoleAt(t, pc[t])
      /\ Holdless(t, pc[t]) => batch[t] = <<>>
      /\ pc[t] \in Draining /\ batch[t] # <<>> => lock = t
      /\ Claiming(t, pc[t]) => phase # "idle"
  BY SplitType, Roles DEF IInv, QueueTypes, Empty, Holdless, Quiet, OneDrainAppends, Flushing, OneClaim,
                          Claimants, Claiming
<1>r. /\ t \in Prompts => t \notin Setters \cup Recorders \cup Compactors \cup Disposers
      /\ t \in Compactors => t \notin Setters \cup Recorders \cup Disposers
      /\ t \in Setters => t \notin Recorders \cup Disposers
      /\ t \in Recorders => t \notin Disposers
  BY RolesAssumption
<1>1. CASE Wake(t)
  <2>1. lock = Nobody
    BY <1>1 DEF Wake, HandedOver
  <2>2. CASE pc[t] \in Draining /\ DrainLoop(t, store)
    BY <2>1, <2>2, DrainLoopMoves
  <2>3. CASE t \in Recorders /\ lock' = t /\ AppendDirectly(t, Record) /\ UNCHANGED <<phase, queue>>
    BY <2>1, <2>3, AppendDirectlyMoves
  <2>4. CASE /\ t \in Recorders /\ pc[t] = "hook"
             /\ pc' = [pc EXCEPT ![t] = "done"] /\ UNCHANGED <<phase, queue, lock, batch, store>>
    BY <1>0, <1>r, <2>4 DEF Moves, RoleAt, Holdless, Quiet, Draining, ClaimStep, Claiming, InTurn
  <2> QED
    BY <1>1, <2>2, <2>3, <2>4 DEF Wake
<1>2. CASE Land(t) \/ Refuse(t)
  BY <1>2, ResumeMoves DEF Land, Refuse, Appending
<1>3. CASE Prompt(t)
  <2>1. /\ RoleAt(t, "entry") /\ RoleAt(t, After("entry"))
        /\ ~Claiming(t, pc[t]) /\ batch[t] = <<>> /\ "entry" \in Draining
    BY <1>0, <1>r, <1>3 DEF Prompt, RoleAt, After, Claiming, Holdless, Quiet, Draining
  <2> QED
    BY <1>3, <2>1, DrainMoves DEF Prompt
<1>4. CASE TurnFlush(t)
  BY <1>0, <1>r, <1>4 DEF TurnFlush, Detach, Moves, RoleAt, Holdless, Quiet, Draining, ClaimStep, InTurn
<1>5. CASE PromptCloses(t)
  <2>1. /\ RoleAt(t, "release") /\ RoleAt(t, After("release"))
        /\ Claiming(t, pc[t]) /\ batch[t] = <<>> /\ t \in Prompts
        /\ "release" \in Draining
    BY <1>0, <1>r, <1>5 DEF PromptCloses, RoleAt, After, Claiming, Draining, Flushing
  <2> QED
    BY <1>5, <2>1, DrainMoves DEF PromptCloses
<1>6. CASE SetCalled(t)
  BY <1>0, <1>r, <1>6 DEF SetCalled, Moves, RoleAt, Holdless, Quiet, Draining, ClaimStep, Claiming, InTurn
<1>7. CASE SetEnds(t)
  BY <1>0, <1>r, <1>7 DEF SetEnds, Moves, RoleAt, Holdless, Quiet, Draining, ClaimStep, Claiming, InTurn
<1>8. CASE SetRecords(t)
  <2>1. CASE AppendDirectly(t, issued + 1) /\ UNCHANGED <<phase, queue, lock, waiters>>
    BY <1>8, <2>1, AppendDirectlyMoves DEF SetRecords
  <2>2. CASE Drain(t, "setdrain", Append(queue, issued + 1), phase)
    <3>1. /\ RoleAt(t, "setdrain") /\ RoleAt(t, After("setdrain"))
          /\ ~Claiming(t, pc[t]) /\ ~Claiming(t, "setdrain") /\ batch[t] = <<>>
          /\ "setdrain" \in Draining /\ t \in Setters
      BY <1>0, <1>r, <1>8 DEF SetRecords, RoleAt, After, Claiming, Draining, Holdless, Quiet
    <3> QED
      BY <2>2, <3>1, DrainMoves
  <2>3. CASE pc' = [pc EXCEPT ![t] = "done"] /\ UNCHANGED <<phase, lock, waiters, batch, store>>
    BY <1>0, <1>r, <1>8, <2>3 DEF SetRecords, Moves, RoleAt, Holdless, Quiet, Draining, ClaimStep, Claiming, InTurn
  <2> QED
    BY <1>8, <2>1, <2>2, <2>3 DEF SetRecords
<1>9. CASE IdleWrite(t)
  <2>1. CASE ~Locked /\ lock' = t /\ AppendDirectly(t, Record)
    BY <1>9, <2>1, AppendDirectlyMoves DEF IdleWrite, Locked
  <2>2. CASE pc' = [pc EXCEPT ![t] = "hook"] /\ UNCHANGED <<lock, batch, store>>
    BY <1>0, <1>r, <1>9, <2>2 DEF IdleWrite, Moves, RoleAt, Holdless, Quiet, Draining, ClaimStep, Claiming, InTurn
  <2> QED
    BY <1>9, <2>1, <2>2 DEF IdleWrite
<1>10. CASE Compact(t)
  <2>1. /\ RoleAt(t, "entry") /\ RoleAt(t, After("entry"))
        /\ ~Claiming(t, pc[t]) /\ batch[t] = <<>> /\ "entry" \in Draining /\ t \notin Prompts
    BY <1>0, <1>r, <1>10 DEF Compact, RoleAt, After, Claiming, Holdless, Quiet, Draining
  <2> QED
    BY <1>10, <2>1, DrainMoves DEF Compact
<1>11. CASE CompactEnds(t)
  <2>1. batch[t] = <<>>
    BY <1>0, <1>11 DEF CompactEnds, Holdless
  <2> QED
    BY <1>0, <1>r, <1>11, <2>1 DEF CompactEnds, Moves, RoleAt, Holdless, Quiet, Draining, ClaimStep, Claiming, InTurn
<1>12. CASE Dispose(t) \/ DisposeIdle(t)
  <2>1. /\ RoleAt(t, "closing") /\ RoleAt(t, After("closing"))
        /\ ~Claiming(t, pc[t]) /\ ~Claiming(t, "closing") /\ batch[t] = <<>>
        /\ "closing" \in Draining /\ t \in Disposers
    BY <1>0, <1>r, <1>12 DEF Dispose, DisposeIdle, RoleAt, After, Claiming, Holdless, Quiet, Draining
  <2>2. CASE Drain(t, "closing", queue, phase)
    BY <2>1, <2>2, DrainMoves
  <2>3. CASE pc' = [pc EXCEPT ![t] = "waitidle"] /\ UNCHANGED <<phase, lock, batch>>
    BY <1>0, <1>r, <2>1, <2>3 DEF Moves, RoleAt, Holdless, Quiet, Draining, ClaimStep, Claiming, InTurn
  <2> QED
    BY <1>12, <2>2, <2>3 DEF Dispose, DisposeIdle
<1>13. CASE CancelTurn(t)
  BY <1>0, <1>r, <1>13
     DEF CancelTurn, CutFlush, Moves, RoleAt, Holdless, Quiet, Draining, ClaimStep, InTurn
<1>14. CASE CancelEntry(t)
  <2> DEFINE left == WithoutTask(waiters, t)
             q == IF Flushing(t) THEN Requeue(Tail(batch[t]), queue) ELSE queue
             s == WithoutAppend(store, t)
  <2>0. t \in Prompts /\ pc[t] = "entry" /\ Claiming(t, "entry") /\ Claiming(t, "release")
    BY <1>14 DEF CancelEntry, Claiming
  <2>1. CASE /\ pc' = [pc EXCEPT ![t] = "done"] /\ phase' = "idle"
             /\ lock \in {t, Nobody} /\ batch' = [batch EXCEPT ![t] = <<>>]
    BY <1>0, <1>r, <2>0, <2>1
       DEF Moves, RoleAt, Holdless, Quiet, Draining, ClaimStep, Claiming, InTurn
  <2>2. CASE /\ pc' = [pc EXCEPT ![t] = "release"] /\ UNCHANGED phase
             /\ lock \in {t, Nobody} /\ lock' = t /\ Detach(t, q, s)
    BY <1>0, <1>r, <2>0, <2>2
       DEF Detach, Moves, RoleAt, Holdless, Quiet, Draining, ClaimStep, InTurn
  <2>3. CASE /\ pc' = [pc EXCEPT ![t] = "release"] /\ UNCHANGED phase
             /\ lock' = IF lock \in {t, Nobody} THEN Nobody ELSE lock
             /\ batch' = [batch EXCEPT ![t] = <<>>]
    BY <1>0, <1>r, <2>0, <2>3 DEF Moves, RoleAt, Holdless, Quiet, Draining, ClaimStep, InTurn
  <2> QED
    BY <1>14, <2>1, <2>2, <2>3 DEF CancelEntry
<1>15. CASE CancelCaller(t)
  <2>1. /\ \/ batch' = [batch EXCEPT ![t] = <<>>]
           \/ batch[t] = <<>> /\ batch' = batch
        /\ lock' = IF lock = t THEN Nobody ELSE lock
        /\ pc' = [pc EXCEPT ![t] = "done"]
        /\ phase' = IF t \in Prompts \cup Compactors THEN "idle" ELSE phase
    BY <1>15 DEF CancelCaller, Cut, CutFlush, Flushing, Unlocked
  <2>2. t \in Prompts \cup Compactors => Claiming(t, pc[t])
    BY <1>0, <1>r, <1>15 DEF CancelCaller, Claiming, RoleAt
  <2> QED
    BY <1>0, <1>r, <2>1, <2>2
       DEF Moves, RoleAt, Holdless, Quiet, Draining, ClaimStep, Claiming, InTurn
<1>16. CASE PromptCompacts(t)
  BY <1>0, <1>r, <1>16
     DEF PromptCompacts, Flushing, Moves, RoleAt, Draining, ClaimStep, Claiming, InTurn
<1>17. CASE PromptCompacted(t)
  BY <1>0, <1>r, <1>17
     DEF PromptCompacted, HandedBack, Moves, RoleAt, Holdless, Quiet, Draining, ClaimStep, Claiming,
         InTurn
<1> QED
  BY <1>1, <1>2, <1>3, <1>4, <1>5, <1>6, <1>7, <1>8, <1>9, <1>10, <1>11, <1>12, <1>13, <1>14,
     <1>15, <1>16, <1>17 DEF Step, Cancel

-----------------------------------------------------------------------------
\* IInv holds at the start, and every step keeps it.
LEMMA Initially == Init => IInv
<1> SUFFICES ASSUME Init PROVE IInv
  OBVIOUS
<1>1. TypeOK
  <2>1. <<>> # <<Record>> /\ 0 \in 0..MaxWrites
    BY RolesAssumption
  <2>2. <<>> \in Seq(Writes) /\ <<>> \in Seq(Tasks) /\ <<>> \in Seq(Append1)
    BY EmptySeq
  <2>3. QueueTypes
    BY <2>1, <2>2 DEF Init, QueueTypes, Phases, PCs
  <2> QED
    BY <2>1, <2>2, <2>3, SplitType DEF Init
<1>2. RolePC /\ Empty /\ OneDrainAppends /\ OneClaim
  BY DEF Init, RolePC, Empty, OneDrainAppends, Flushing, OneClaim, Claimants, Tasks
<1> QED
  BY <1>1, <1>2 DEF IInv

LEMMA Preserved == IInv /\ [Next]_vars => IInv'
<1> SUFFICES ASSUME IInv, [Next]_vars PROVE IInv'
  OBVIOUS
<1>1. ASSUME NEW t \in Tasks, (Step(t) \/ Cancel(t)) /\ OneStepEach(t) PROVE IInv'
  <2>1. ran' \subseteq Tasks
    BY <1>1 DEF OneStepEach, IInv, TypeOK
  <2>2. TypeOK'
    BY <1>1, <2>1, TypeStep DEF IInv, TypeOK, QueueTypes, Phases, PCs, Append1
  <2> QED
    BY <1>1, <2>2, EveryStepMoves, MovesKeep DEF IInv
<1>2. CASE AppendMessage /\ UNCHANGED ran
  <2>1. UNCHANGED <<phase, lock, pc, batch>>
    BY <1>2 DEF AppendMessage
  <2>2. /\ phase' \in Phases /\ queue' \in Seq(Writes) /\ issued' \in 0..MaxWrites
    BY <1>2, IssueType, SplitType DEF IInv, AppendMessage, QueueTypes
  <2>3. TypeOK'
    BY <1>2, <2>2 DEF IInv, TypeOK, AppendMessage, Phases
  <2>4. RolePC' /\ Empty' /\ OneDrainAppends' /\ OneClaim'
    BY <2>1 DEF IInv, RolePC, Empty, OneDrainAppends, Flushing, OneClaim, Claimants
  <2> QED
    BY <2>3, <2>4 DEF IInv
<1>3. CASE UNCHANGED vars
  BY <1>3 DEF vars, IInv, TypeOK, RolePC, Empty, OneDrainAppends, Flushing, OneClaim, Claimants
<1> QED
  BY <1>1, <1>2, <1>3 DEF Next

\* Every reachable state is well typed: queue, batches, storage and log hold writes of the harness.
THEOREM TypeCorrect == Spec => []TypeOK
<1>1. IInv => TypeOK
  BY DEF IInv
<1> QED
  BY <1>1, Initially, Preserved, PTL DEF Spec

\* Whatever callers there are and wherever they are cancelled: detached writes are appended by the
\* drain lock's holder alone (_drain_pending_session_writes), one claim owns the harness, and
\* `_phase' is idle exactly when nobody does, and "turn" exactly while the owner is a prompt outside
\* a compaction nested under its claim (prompt, compact and navigate_tree).
THEOREM OwnersExclude == Spec => []OneOwner
<1>1. IInv => OneOwner
  BY DEF IInv, OneOwner
<1> QED
  BY <1>1, Initially, Preserved, PTL DEF Spec

-----------------------------------------------------------------------------
\* The elements of a sequence; of a batch, the writes.
Elems(s) == {s[i] : i \in DOMAIN s}
Own(b) == Elems(b) \ {Record}
Apart(s) == \A i, j \in DOMAIN s : s[i] = s[j] => i = j
Sorted(s) == \A i, j \in DOMAIN s : i < j => s[i] < s[j]
Before(A, B) == \A a \in A, b \in B : a < b

\* What is in a sequence that got longer or lost its head, and that it stays free of repetitions
\* and in order.
LEMMA AppendElems ==
  ASSUME NEW s \in Seq(Nat), NEW x \in Nat
  PROVE  /\ Append(s, x) \in Seq(Nat) /\ Elems(Append(s, x)) = Elems(s) \cup {x}
         /\ Apart(s) /\ x \notin Elems(s) => Apart(Append(s, x))
         /\ Sorted(s) /\ Before(Elems(s), {x}) => Sorted(Append(s, x))
<1> DEFINE r == Append(s, x)
<1>1. /\ r \in Seq(Nat) /\ Len(s) \in Nat /\ DOMAIN s = 1..Len(s) /\ DOMAIN r = 1..(Len(s) + 1)
      /\ r[Len(s) + 1] = x /\ \A i \in 1..Len(s) : r[i] = s[i]
  BY AppendProperties, LenProperties
<1> HIDE DEF r
<1>2. Elems(r) = Elems(s) \cup {x}
  <2>1. ASSUME NEW e \in Elems(r) PROVE e \in Elems(s) \cup {x}
    BY <1>1, <2>1 DEF Elems
  <2>2. ASSUME NEW i \in DOMAIN s PROVE s[i] \in Elems(r)
    BY <1>1, <2>2 DEF Elems
  <2>3. x \in Elems(r)
    BY <1>1 DEF Elems
  <2> QED
    BY <2>1, <2>2, <2>3 DEF Elems
<1>3. ASSUME Apart(s), x \notin Elems(s) PROVE Apart(r)
  BY SMTT(60), <1>1, <1>3 DEF Apart, Elems
<1>4. ASSUME Sorted(s), Before(Elems(s), {x}) PROVE Sorted(r)
  <2>1. \A i \in DOMAIN s : s[i] < x
    BY <1>4 DEF Elems, Before
  <2>2. ASSUME NEW i \in DOMAIN r, NEW j \in DOMAIN r, i < j PROVE r[i] < r[j]
    <3>1. i \in DOMAIN s /\ r[i] = s[i]
      BY <1>1, <2>2
    <3>2. CASE j = Len(s) + 1
      BY <1>1, <2>1, <3>1, <3>2
    <3>3. CASE j \in DOMAIN s
      BY <1>1, <1>4, <2>2, <3>1, <3>3 DEF Sorted
    <3> QED
      BY <1>1, <3>2, <3>3
  <2> QED
    BY <2>2 DEF Sorted
<1> QED
  BY <1>1, <1>2, <1>3, <1>4 DEF r

\* The same without its head.
LEMMA TailElems ==
  ASSUME NEW s \in Seq(Nat), s # <<>>
  PROVE  /\ Head(s) \in Nat /\ Tail(s) \in Seq(Nat) /\ Elems(s) = {Head(s)} \cup Elems(Tail(s))
         /\ Apart(s) => Apart(Tail(s)) /\ Head(s) \notin Elems(Tail(s))
         /\ Sorted(s) => Sorted(Tail(s)) /\ Before({Head(s)}, Elems(Tail(s)))
         /\ Tail(s) # <<>> <=> Len(s) > 1
<1> DEFINE r == Tail(s)
           h == Head(s)
<1>1. /\ h \in Nat /\ r \in Seq(Nat) /\ Len(s) \in Nat /\ Len(s) > 0 /\ DOMAIN s = 1..Len(s) /\ DOMAIN r = 1..(Len(s) - 1)
      /\ h = s[1] /\ \A i \in 1..(Len(s) - 1) : r[i] = s[i + 1]
  BY HeadTailProperties, LenProperties, EmptySeq
<1>2. Tail(s) # <<>> <=> Len(s) > 1
  <2>1. Len(Tail(s)) = Len(s) - 1 /\ Tail(s) \in Seq(Nat)
    BY HeadTailProperties
  <2>2. Tail(s) # <<>> => Len(Tail(s)) \in Nat \ {0}
    BY <2>1, EmptySeq
  <2>3. Tail(s) = <<>> => Len(Tail(s)) = 0
    BY EmptySeq
  <2> QED
    BY <1>1, <2>1, <2>2, <2>3
<1> HIDE DEF r, h
<1>3. Elems(s) = {h} \cup Elems(r)
  <2>1. ASSUME NEW i \in DOMAIN s PROVE s[i] \in {h} \cup Elems(r)
    <3>1. CASE i = 1
      BY <1>1, <3>1
    <3>2. CASE i # 1
      <4>1. i - 1 \in DOMAIN r /\ r[i - 1] = s[i]
        BY <1>1, <3>2
      <4> QED
        BY <4>1 DEF Elems
    <3> QED
      BY <3>1, <3>2
  <2>2. ASSUME NEW i \in DOMAIN r PROVE r[i] \in Elems(s)
    <3>1. i + 1 \in DOMAIN s /\ r[i] = s[i + 1]
      BY SMTT(60), <1>1, <2>2
    <3> QED
      BY <3>1 DEF Elems
  <2>3. h \in Elems(s)
    BY <1>1 DEF Elems
  <2> QED
    BY <2>1, <2>2, <2>3 DEF Elems
<1>4. ASSUME Apart(s) PROVE Apart(r) /\ h \notin Elems(r)
  <2>1. \A i \in DOMAIN r : i + 1 \in DOMAIN s /\ r[i] = s[i + 1] /\ i \in Nat
    BY SMTT(60), <1>1
  <2>2. Apart(r)
    BY <1>1, <1>4, <2>1 DEF Apart
  <2>3. ASSUME h \in Elems(r) PROVE FALSE
    <3>1. PICK i \in DOMAIN r : h = r[i]
      BY <2>3 DEF Elems
    <3>2. s[1] = s[i + 1] /\ 1 \in DOMAIN s /\ i + 1 # 1
      BY <1>1, <2>1, <3>1
    <3> QED
      BY <1>4, <2>1, <3>2 DEF Apart
  <2> QED
    BY <2>2, <2>3
<1>5. ASSUME Sorted(s) PROVE Sorted(r) /\ Before({h}, Elems(r))
  <2>1. \A i \in DOMAIN r : i + 1 \in DOMAIN s /\ r[i] = s[i + 1] /\ i \in Nat /\ 1 < i + 1
    BY SMTT(60), <1>1
  <2>2. Sorted(r)
    BY <1>1, <1>5, <2>1 DEF Sorted
  <2>3. ASSUME NEW i \in DOMAIN r PROVE h < r[i]
    <3>1. 1 \in DOMAIN s /\ i + 1 \in DOMAIN s /\ 1 < i + 1 /\ r[i] = s[i + 1] /\ h = s[1]
      BY <1>1, <2>1
    <3> QED
      BY <1>5, <3>1 DEF Sorted
  <2>4. Before({h}, Elems(r))
    BY <2>3 DEF Before, Elems
  <2> QED
    BY <2>2, <2>4
<1> QED
  BY <1>1, <1>2, <1>3, <1>4, <1>5 DEF r, h

\* One sequence behind another.
LEMMA JoinElems ==
  ASSUME NEW s \in Seq(Nat), NEW r \in Seq(Nat)
  PROVE  /\ s \o r \in Seq(Nat) /\ Elems(s \o r) = Elems(s) \cup Elems(r)
         /\ Apart(s) /\ Apart(r) /\ Elems(s) \cap Elems(r) = {} => Apart(s \o r)
         /\ Sorted(s) /\ Sorted(r) /\ Before(Elems(s), Elems(r)) => Sorted(s \o r)
<1> DEFINE z == s \o r
<1>1. /\ z \in Seq(Nat) /\ Len(s) \in Nat /\ Len(r) \in Nat /\ DOMAIN s = 1..Len(s) /\ DOMAIN r = 1..Len(r)
      /\ DOMAIN z = 1..(Len(s) + Len(r))
      /\ \A i \in 1..(Len(s) + Len(r)) : z[i] = IF i <= Len(s) THEN s[i] ELSE r[i - Len(s)]
  BY ConcatProperties, LenProperties
<1> HIDE DEF z
<1>2. ASSUME NEW i \in DOMAIN z
      PROVE  \/ i \in DOMAIN s /\ z[i] = s[i]
             \/ i > Len(s) /\ i - Len(s) \in DOMAIN r /\ z[i] = r[i - Len(s)]
  <2>1. CASE i <= Len(s)
    BY <1>1, <2>1
  <2>2. CASE i > Len(s)
    BY <1>1, <2>2
  <2> QED
    BY <1>1, <2>1, <2>2
<1>3. Elems(z) = Elems(s) \cup Elems(r)
  <2>1. \A i \in DOMAIN s : i \in DOMAIN z /\ z[i] = s[i]
    BY <1>1
  <2>2. ASSUME NEW i \in DOMAIN r PROVE i + Len(s) \in DOMAIN z /\ z[i + Len(s)] = r[i]
    <3>1. i + Len(s) \in DOMAIN z /\ i \in Nat /\ ~(i + Len(s) <= Len(s))
      BY <1>1
    <3>2. i + Len(s) - Len(s) = i
      BY <1>1, <3>1
    <3> QED
      BY <1>1, <3>1, <3>2
  <2>3. Elems(z) \subseteq Elems(s) \cup Elems(r)
    BY <1>2 DEF Elems
  <2>4. Elems(s) \subseteq Elems(z)
    BY <2>1 DEF Elems
  <2>5. Elems(r) \subseteq Elems(z)
    BY <2>2 DEF Elems
  <2> QED
    BY <2>3, <2>4, <2>5
<1>4. ASSUME Apart(s), Apart(r), Elems(s) \cap Elems(r) = {} PROVE Apart(z)
  <2>1. \A i \in DOMAIN s, j \in DOMAIN r : s[i] # r[j]
    BY <1>4 DEF Elems
  <2>2. ASSUME NEW i \in DOMAIN z, NEW j \in DOMAIN z, z[i] = z[j] PROVE i = j
    <3>1. CASE i \in DOMAIN s /\ z[i] = s[i]
      <4>1. j \in DOMAIN s /\ z[j] = s[j]
        BY <1>2, <2>1, <2>2, <3>1
      <4> QED
        BY <1>4, <2>2, <3>1, <4>1 DEF Apart
    <3>2. CASE i > Len(s) /\ i - Len(s) \in DOMAIN r /\ z[i] = r[i - Len(s)]
      <4>1. j > Len(s) /\ j - Len(s) \in DOMAIN r /\ z[j] = r[j - Len(s)]
        BY <1>2, <2>1, <2>2, <3>2
      <4>2. i - Len(s) = j - Len(s)
        BY <1>4, <2>2, <3>2, <4>1 DEF Apart
      <4> QED
        BY <1>1, <4>2
    <3> QED
      BY <1>2, <3>1, <3>2
  <2> QED
    BY <2>2 DEF Apart
<1>5. ASSUME Sorted(s), Sorted(r), Before(Elems(s), Elems(r)) PROVE Sorted(z)
  <2>1. \A i \in DOMAIN s, j \in DOMAIN r : s[i] < r[j]
    BY <1>5 DEF Elems, Before
  <2>2. ASSUME NEW i \in DOMAIN z, NEW j \in DOMAIN z, i < j PROVE z[i] < z[j]
    <3>1. CASE i \in DOMAIN s /\ z[i] = s[i]
      <4>1. (j \in DOMAIN s /\ z[j] = s[j]) \/ (j - Len(s) \in DOMAIN r /\ z[j] = r[j - Len(s)])
        BY <1>2
      <4> QED
        BY <1>5, <2>1, <2>2, <3>1, <4>1 DEF Sorted
    <3>2. CASE i > Len(s) /\ i - Len(s) \in DOMAIN r /\ z[i] = r[i - Len(s)]
      <4>1. j > Len(s) /\ ~(j \in DOMAIN s)
        BY <1>1, <2>2, <3>2
      <4>2. j - Len(s) \in DOMAIN r /\ z[j] = r[j - Len(s)]
        BY <1>2, <4>1
      <4>3. i - Len(s) < j - Len(s)
        BY <1>1, <2>2
      <4> QED
        BY <1>5, <3>2, <4>2, <4>3 DEF Sorted
    <3> QED
      BY <1>2, <3>1, <3>2
  <2> QED
    BY <2>2 DEF Sorted
<1> QED
  BY <1>1, <1>3, <1>4, <1>5 DEF z

\* The empty sequence and those of one element.
LEMMA ShortElems ==
  ASSUME NEW x \in Nat
  PROVE  /\ <<>> \in Seq(Nat) /\ Elems(<<>>) = {} /\ Apart(<<>>) /\ Sorted(<<>>) /\ Len(<<>>) = 0
         /\ <<x>> \in Seq(Nat) /\ Elems(<<x>>) = {x} /\ Apart(<<x>>) /\ Sorted(<<x>>) /\ Len(<<x>>) = 1
<1>1. DOMAIN <<>> = {} /\ DOMAIN <<x>> = {1} /\ <<x>>[1] = x
  OBVIOUS
<1>2. Elems(<<>>) = {} /\ Elems(<<x>>) = {x}
  BY <1>1 DEF Elems
<1> QED
  BY <1>1, <1>2, EmptySeq DEF Apart, Sorted

\* Each write is in one place: on the queue, in one batch, on the session or dropped; and none
\* but those issued.
PlacedIn(q, b, l, d, n) ==
  /\ q \in Seq(Writes) /\ l \in Seq(Writes) /\ d \subseteq Writes /\ n \in 0..MaxWrites
  /\ b \in [Tasks -> Seq(Writes) \cup {<<Record>>}]
  /\ Apart(q) /\ Apart(l) /\ \A t \in Tasks : Apart(b[t])
  /\ \A t, u \in Tasks : t # u => Own(b[t]) \cap Own(b[u]) = {}
  /\ \A t \in Tasks : Own(b[t]) \cap (Elems(q) \cup Elems(l) \cup d) = {}
  /\ Elems(q) \cap Elems(l) = {} /\ Elems(q) \cap d = {} /\ Elems(l) \cap d = {}
  /\ \A w \in Writes : w <= n <=> w \in Elems(q) \cup Elems(l) \cup d \/ \E t \in Tasks : w \in Own(b[t])
Placed == PlacedIn(queue, batch, log, dropped, issued)

\* Writes are numbers, and the record of an idle_write() is none of them.
LEMMA WritesAreNat ==
  /\ Writes \subseteq Nat \ {Record} /\ Record \in Nat
  /\ \A s \in Seq(Writes) : s \in Seq(Nat) /\ Elems(s) \subseteq Writes
<1>1. Writes \subseteq Nat \ {Record} /\ Record \in Nat
  BY RolesAssumption DEF Writes, Record
<1>2. ASSUME NEW s \in Seq(Writes) PROVE s \in Seq(Nat) /\ Elems(s) \subseteq Writes
  <2>1. s \in Seq(Nat)
    BY <1>1, SeqMonotonic
  <2>2. \A i \in DOMAIN s : s[i] \in Writes
    BY ElementOfSeq, LenProperties
  <2> QED
    BY <2>1, <2>2 DEF Elems
<1> QED
  BY <1>1, <1>2

\* What a batch is, and what is left of it without its head.
LEMMA BatchIs ==
  ASSUME NEW b \in Seq(Writes) \cup {<<Record>>}
  PROVE  /\ b \in Seq(Nat) /\ Own(b) \subseteq Writes /\ (b \in Seq(Writes) => Own(b) = Elems(b))
         /\ b # <<>> => /\ Tail(b) \in Seq(Writes) /\ Own(Tail(b)) = Elems(Tail(b))
                        /\ Own(b) = ({Head(b)} \ {Record}) \cup Elems(Tail(b))
                        /\ Head(b) \in Writes \cup {Record} /\ (Head(b) = Record => Tail(b) = <<>>)
                        /\ (Tail(b) # <<>> <=> Len(b) > 1)
<1>1. CASE b \in Seq(Writes)
  <2>1. b \in Seq(Nat) /\ Elems(b) \subseteq Writes /\ Record \notin Writes
    BY <1>1, WritesAreNat
  <2>2. Own(b) = Elems(b)
    BY <2>1 DEF Own
  <2>3. ASSUME b # <<>>
        PROVE  /\ Tail(b) \in Seq(Writes) /\ Own(Tail(b)) = Elems(Tail(b))
               /\ Own(b) = ({Head(b)} \ {Record}) \cup Elems(Tail(b))
               /\ Head(b) \in Writes /\ (Tail(b) # <<>> <=> Len(b) > 1)
    <3>1. Tail(b) \in Seq(Writes) /\ Head(b) \in Writes
      BY <1>1, <2>3, HeadTailProperties
    <3>2. Elems(b) = {Head(b)} \cup Elems(Tail(b)) /\ (Tail(b) # <<>> <=> Len(b) > 1)
      BY <2>1, <2>3, TailElems
    <3>3. Own(Tail(b)) = Elems(Tail(b))
      BY <3>1, WritesAreNat DEF Own
    <3>4. Head(b) # Record
      BY <2>1, <3>1
    <3> QED
      BY <2>2, <3>1, <3>2, <3>3, <3>4
  <2>4. b # <<>> => Head(b) # Record
    BY <2>1, <2>3
  <2> QED
    BY <1>1, <2>1, <2>2, <2>3, <2>4
<1>2. CASE b = <<Record>>
  <2>1. b \in Seq(Nat) /\ Elems(b) = {Record} /\ Len(b) = 1
    BY <1>2, WritesAreNat, ShortElems
  <2>2. Own(b) = {} /\ Head(b) = Record /\ Tail(b) = <<>>
    BY <1>2, <2>1 DEF Own
  <2>3. Elems(<<>>) = {} /\ Own(<<>>) = {} /\ <<>> \in Seq(Writes)
    BY WritesAreNat, ShortElems, EmptySeq DEF Own
  <2>4. b \notin Seq(Writes)
    <3>1. b \in Seq(Writes) => Elems(b) \subseteq Writes
      BY WritesAreNat
    <3> QED
      BY <2>1, <3>1, WritesAreNat
  <2>5. /\ Tail(b) \in Seq(Writes) /\ Own(Tail(b)) = Elems(Tail(b))
        /\ Own(b) = ({Head(b)} \ {Record}) \cup Elems(Tail(b)) /\ Tail(b) = <<>>
    BY <2>2, <2>3
  <2>6. ~(Len(b) > 1)
    BY <2>1
  <2> HIDE <1>2
  <2> QED
    BY <2>1, <2>2, <2>4, <2>5, <2>6
<1> QED
  BY <1>1, <1>2

\* The head of a batch reaches the session, or is dropped; the record of an idle_write() is no
\* write.
LEMMA HeadLeaves ==
  ASSUME NEW q, NEW b, NEW l, NEW d, NEW n, PlacedIn(q, b, l, d, n), NEW t \in Tasks, b[t] # <<>>
  PROVE  LET c == [b EXCEPT ![t] = Tail(b[t])]
             w == Head(b[t])
         IN /\ w # Record => PlacedIn(q, c, Append(l, w), d, n) /\ PlacedIn(q, c, l, d \cup {w}, n)
            /\ w = Record => PlacedIn(q, c, l, d, n)
<1> DEFINE c == [b EXCEPT ![t] = Tail(b[t])]
           w == Head(b[t])
<1>1. /\ q \in Seq(Writes) /\ l \in Seq(Writes) /\ d \subseteq Writes /\ n \in 0..MaxWrites
      /\ b \in [Tasks -> Seq(Writes) \cup {<<Record>>}]
      /\ Apart(q) /\ Apart(l) /\ \A u \in Tasks : Apart(b[u])
      /\ \A u, v \in Tasks : u # v => Own(b[u]) \cap Own(b[v]) = {}
      /\ \A u \in Tasks : Own(b[u]) \cap (Elems(q) \cup Elems(l) \cup d) = {}
      /\ Elems(q) \cap Elems(l) = {} /\ Elems(q) \cap d = {} /\ Elems(l) \cap d = {}
  BY DEF PlacedIn
<1>i. \A x \in Writes : x <= n <=> x \in Elems(q) \cup Elems(l) \cup d \/ \E u \in Tasks : x \in Own(b[u])
  BY DEF PlacedIn
<1>2. /\ b[t] \in Seq(Nat) /\ Tail(b[t]) \in Seq(Writes) /\ Own(Tail(b[t])) = Elems(Tail(b[t]))
      /\ Own(b[t]) = ({w} \ {Record}) \cup Elems(Tail(b[t])) /\ w \in Writes \cup {Record}
  <2>1. b[t] \in Seq(Writes) \cup {<<Record>>}
    BY <1>1
  <2> QED
    BY <2>1, BatchIs
<1>3. Apart(Tail(b[t])) /\ w \notin Elems(Tail(b[t]))
  BY <1>1, <1>2, TailElems
<1>4. /\ c \in [Tasks -> Seq(Writes) \cup {<<Record>>}] /\ c[t] = Tail(b[t])
      /\ \A u \in Tasks : u # t => c[u] = b[u]
  BY <1>1, <1>2
<1> HIDE DEF c, w
<1>5. /\ \A u \in Tasks : Apart(c[u])
      /\ \A u, v \in Tasks : u # v => Own(c[u]) \cap Own(c[v]) = {}
      /\ \A u \in Tasks : Own(c[u]) \subseteq Own(b[u]) /\ (w # Record => w \notin Own(c[u]))
  <2>1. Own(c[t]) \subseteq Own(b[t]) /\ (w # Record => w \in Own(b[t]) /\ w \notin Own(c[t]))
    BY <1>2, <1>3, <1>4
  <2>2. \A u \in Tasks : Own(c[u]) \subseteq Own(b[u]) /\ (w # Record => w \notin Own(c[u]))
    BY <1>1, <1>4, <2>1
  <2>3. \A u \in Tasks : Apart(c[u])
    BY <1>1, <1>3, <1>4
  <2> QED
    BY <1>1, <2>2, <2>3
<1>6. \A x \in Writes : (\E u \in Tasks : x \in Own(b[u])) <=> (\E u \in Tasks : x \in Own(c[u])) \/ (x = w /\ w # Record)
  <2>1. \A x \in Writes : x \in Own(b[t]) <=> x \in Own(c[t]) \/ (x = w /\ w # Record)
    BY <1>2, <1>4
  <2> QED
    BY <1>4, <2>1
<1>7. ASSUME w # Record PROVE PlacedIn(q, c, Append(l, w), d, n)
  <2>1. w \in Writes /\ w \in Own(b[t]) /\ w \in Nat /\ l \in Seq(Nat)
    BY <1>1, <1>2, <1>7, WritesAreNat
  <2>2. w \notin Elems(q) \cup Elems(l) \cup d
    BY <1>1, <2>1
  <2>3. Append(l, w) \in Seq(Writes) /\ Elems(Append(l, w)) = Elems(l) \cup {w} /\ Apart(Append(l, w))
    BY <1>1, <2>1, <2>2, AppendElems, AppendProperties
  <2>4. \A x \in Writes : x <= n <=> x \in Elems(q) \cup Elems(Append(l, w)) \cup d \/ \E u \in Tasks : x \in Own(c[u])
    BY <1>i, <1>6, <1>7, <2>1, <2>3
  <2>5. \A u \in Tasks : Own(c[u]) \cap (Elems(q) \cup Elems(Append(l, w)) \cup d) = {}
    BY <1>1, <1>5, <1>7, <2>3
  <2> QED
    BY <1>1, <1>4, <1>5, <2>2, <2>3, <2>4, <2>5 DEF PlacedIn
<1>8. ASSUME w # Record PROVE PlacedIn(q, c, l, d \cup {w}, n)
  <2>1. w \in Writes /\ w \in Own(b[t])
    BY <1>2, <1>8
  <2>2. w \notin Elems(q) \cup Elems(l) \cup d
    BY <1>1, <2>1
  <2>4. \A x \in Writes : x <= n <=> x \in Elems(q) \cup Elems(l) \cup (d \cup {w}) \/ \E u \in Tasks : x \in Own(c[u])
    BY <1>i, <1>6, <1>8, <2>1
  <2>5. \A u \in Tasks : Own(c[u]) \cap (Elems(q) \cup Elems(l) \cup (d \cup {w})) = {}
    BY <1>1, <1>5, <1>8
  <2> QED
    BY <1>1, <1>4, <1>5, <2>1, <2>2, <2>4, <2>5 DEF PlacedIn
<1>9. ASSUME w = Record PROVE PlacedIn(q, c, l, d, n)
  <2>4. \A x \in Writes : x <= n <=> x \in Elems(q) \cup Elems(l) \cup d \/ \E u \in Tasks : x \in Own(c[u])
    BY <1>i, <1>6, <1>9
  <2>5. \A u \in Tasks : Own(c[u]) \cap (Elems(q) \cup Elems(l) \cup d) = {}
    BY <1>1, <1>5
  <2> QED
    BY <1>1, <1>4, <1>5, <2>4, <2>5 DEF PlacedIn
<1> QED
  BY <1>7, <1>8, <1>9 DEF c, w

\* The rest of a cut flush goes back on the queue.
LEMMA RestReturns ==
  ASSUME NEW q, NEW b, NEW l, NEW d, NEW n, PlacedIn(q, b, l, d, n), NEW t \in Tasks, b[t] \in Seq(Writes)
  PROVE  PlacedIn(b[t] \o q, [b EXCEPT ![t] = <<>>], l, d, n)
<1> DEFINE c == [b EXCEPT ![t] = <<>>]
<1>1. /\ q \in Seq(Writes) /\ l \in Seq(Writes) /\ d \subseteq Writes /\ n \in 0..MaxWrites
      /\ b \in [Tasks -> Seq(Writes) \cup {<<Record>>}]
      /\ Apart(q) /\ Apart(l) /\ \A u \in Tasks : Apart(b[u])
      /\ \A u, v \in Tasks : u # v => Own(b[u]) \cap Own(b[v]) = {}
      /\ \A u \in Tasks : Own(b[u]) \cap (Elems(q) \cup Elems(l) \cup d) = {}
      /\ Elems(q) \cap Elems(l) = {} /\ Elems(q) \cap d = {} /\ Elems(l) \cap d = {}
  BY DEF PlacedIn
<1>i. \A x \in Writes : x <= n <=> x \in Elems(q) \cup Elems(l) \cup d \/ \E u \in Tasks : x \in Own(b[u])
  BY DEF PlacedIn
<1>e. <<>> \in Seq(Writes) /\ Elems(<<>>) = {} /\ Own(<<>>) = {} /\ Apart(<<>>)
  BY WritesAreNat, ShortElems, EmptySeq DEF Own
<1>c. c \in [Tasks -> Seq(Writes) \cup {<<Record>>}] /\ c[t] = <<>> /\ \A u \in Tasks : u # t => c[u] = b[u]
  BY <1>1, <1>e
<1>2. /\ b[t] \in Seq(Nat) /\ Own(b[t]) = Elems(b[t]) /\ q \in Seq(Nat)
  BY <1>1, BatchIs, WritesAreNat
<1>3. /\ b[t] \o q \in Seq(Writes) /\ Elems(b[t] \o q) = Elems(b[t]) \cup Elems(q) /\ Apart(b[t] \o q)
  <2>1. Elems(b[t]) \cap Elems(q) = {} /\ Apart(b[t])
    BY <1>1, <1>2
  <2> QED
    BY <1>1, <1>2, <2>1, JoinElems, ConcatProperties
<1> HIDE DEF c
<1>4. /\ \A u \in Tasks : Apart(c[u]) /\ Own(c[u]) \cap (Elems(b[t] \o q) \cup Elems(l) \cup d) = {}
      /\ \A u, v \in Tasks : u # v => Own(c[u]) \cap Own(c[v]) = {}
  BY <1>1, <1>2, <1>3, <1>c, <1>e
<1>5. Elems(b[t] \o q) \cap Elems(l) = {} /\ Elems(b[t] \o q) \cap d = {}
  BY <1>1, <1>2, <1>3
<1>6. \A x \in Writes : x <= n <=> x \in Elems(b[t] \o q) \cup Elems(l) \cup d \/ \E u \in Tasks : x \in Own(c[u])
  <2>1. \A x \in Writes : (\E u \in Tasks : x \in Own(b[u])) <=> x \in Elems(b[t]) \/ \E u \in Tasks : x \in Own(c[u])
    BY <1>2, <1>c, <1>e
  <2> QED
    BY <1>i, <1>3, <2>1
<1>7. PlacedIn(b[t] \o q, c, l, d, n)
  BY <1>1, <1>c, <1>3, <1>4, <1>5, <1>6 DEF PlacedIn
<1> QED
  BY <1>7 DEF c

\* A flush detaches the queue.
LEMMA Detaches ==
  ASSUME NEW q, NEW b, NEW l, NEW d, NEW n, PlacedIn(q, b, l, d, n), NEW t \in Tasks, b[t] = <<>>
  PROVE  PlacedIn(<<>>, [b EXCEPT ![t] = q], l, d, n)
<1> DEFINE c == [b EXCEPT ![t] = q]
<1>1. /\ q \in Seq(Writes) /\ l \in Seq(Writes) /\ d \subseteq Writes /\ n \in 0..MaxWrites
      /\ b \in [Tasks -> Seq(Writes) \cup {<<Record>>}]
      /\ Apart(q) /\ Apart(l) /\ \A u \in Tasks : Apart(b[u])
      /\ \A u, v \in Tasks : u # v => Own(b[u]) \cap Own(b[v]) = {}
      /\ \A u \in Tasks : Own(b[u]) \cap (Elems(q) \cup Elems(l) \cup d) = {}
      /\ Elems(q) \cap Elems(l) = {} /\ Elems(q) \cap d = {} /\ Elems(l) \cap d = {}
  BY DEF PlacedIn
<1>i. \A x \in Writes : x <= n <=> x \in Elems(q) \cup Elems(l) \cup d \/ \E u \in Tasks : x \in Own(b[u])
  BY DEF PlacedIn
<1>e. <<>> \in Seq(Writes) /\ Elems(<<>>) = {} /\ Own(<<>>) = {} /\ Apart(<<>>)
  BY WritesAreNat, ShortElems, EmptySeq DEF Own
<1>c. c \in [Tasks -> Seq(Writes) \cup {<<Record>>}] /\ c[t] = q /\ \A u \in Tasks : u # t => c[u] = b[u]
  BY <1>1
<1>2. Own(q) = Elems(q) /\ Own(b[t]) = {}
  BY <1>1, <1>e, BatchIs
<1> HIDE DEF c
<1>3. /\ \A u \in Tasks : Apart(c[u]) /\ Own(c[u]) \cap (Elems(<<>>) \cup Elems(l) \cup d) = {}
      /\ \A u, v \in Tasks : u # v => Own(c[u]) \cap Own(c[v]) = {}
  <2>1. \A u \in Tasks : Apart(c[u]) /\ Own(c[u]) \cap (Elems(<<>>) \cup Elems(l) \cup d) = {}
    BY <1>1, <1>2, <1>c, <1>e
  <2>2. \A u \in Tasks : u # t => Own(c[u]) \cap Own(c[t]) = {}
    BY <1>1, <1>2, <1>c
  <2> QED
    BY <1>1, <1>c, <2>1, <2>2
<1>6. \A x \in Writes : x <= n <=> x \in Elems(<<>>) \cup Elems(l) \cup d \/ \E u \in Tasks : x \in Own(c[u])
  <2>1. \A x \in Writes : (\E u \in Tasks : x \in Own(c[u])) <=> x \in Elems(q) \/ \E u \in Tasks : x \in Own(b[u])
    BY <1>2, <1>c
  <2> QED
    BY <1>i, <1>e, <2>1
<1>7. PlacedIn(<<>>, c, l, d, n)
  BY <1>1, <1>c, <1>e, <1>3, <1>6 DEF PlacedIn
<1> QED
  BY <1>7 DEF c

\* A write is queued.
LEMMA Queued ==
  ASSUME NEW q, NEW b, NEW l, NEW d, NEW n, PlacedIn(q, b, l, d, n), n < MaxWrites
  PROVE  PlacedIn(Append(q, n + 1), b, l, d, n + 1)
<1>1. /\ q \in Seq(Writes) /\ l \in Seq(Writes) /\ d \subseteq Writes /\ n \in 0..MaxWrites
      /\ b \in [Tasks -> Seq(Writes) \cup {<<Record>>}]
      /\ Apart(q) /\ Apart(l) /\ \A u \in Tasks : Apart(b[u])
      /\ \A u, v \in Tasks : u # v => Own(b[u]) \cap Own(b[v]) = {}
      /\ \A u \in Tasks : Own(b[u]) \cap (Elems(q) \cup Elems(l) \cup d) = {}
      /\ Elems(q) \cap Elems(l) = {} /\ Elems(q) \cap d = {} /\ Elems(l) \cap d = {}
  BY DEF PlacedIn
<1>i. \A x \in Writes : x <= n <=> x \in Elems(q) \cup Elems(l) \cup d \/ \E u \in Tasks : x \in Own(b[u])
  BY DEF PlacedIn
<1>e. <<>> \in Seq(Writes) /\ Elems(<<>>) = {} /\ Own(<<>>) = {} /\ Apart(<<>>)
  BY WritesAreNat, ShortElems, EmptySeq DEF Own
<1>f. /\ n + 1 \in Writes /\ n + 1 \in Nat /\ n + 1 \in 0..MaxWrites /\ n \in Nat /\ n + 1 # Record
      /\ n + 1 \notin Elems(q) \cup Elems(l) \cup d /\ \A u \in Tasks : n + 1 \notin Own(b[u])
  <2>1. n + 1 \in Writes /\ n + 1 \in Nat /\ n + 1 \in 0..MaxWrites /\ n \in Nat /\ n + 1 # Record /\ ~(n + 1 <= n)
    BY <1>1, RolesAssumption DEF Writes, Record
  <2> QED
    BY <1>i, <2>1
<1>m. \A x \in Writes : x <= n + 1 <=> x <= n \/ x = n + 1
  BY <1>f, RolesAssumption DEF Writes
<1>2. q \in Seq(Nat)
  BY <1>1, WritesAreNat
<1>3. Append(q, n + 1) \in Seq(Writes) /\ Elems(Append(q, n + 1)) = Elems(q) \cup {n + 1} /\ Apart(Append(q, n + 1))
  BY <1>1, <1>2, <1>f, AppendElems, AppendProperties
<1>4. \A u \in Tasks : Own(b[u]) \cap (Elems(Append(q, n + 1)) \cup Elems(l) \cup d) = {}
  BY <1>1, <1>3, <1>f
<1>5. Elems(Append(q, n + 1)) \cap Elems(l) = {} /\ Elems(Append(q, n + 1)) \cap d = {}
  BY <1>1, <1>3, <1>f
<1>6. \A x \in Writes : x <= n + 1 <=> x \in Elems(Append(q, n + 1)) \cup Elems(l) \cup d \/ \E u \in Tasks : x \in Own(b[u])
  BY <1>i, <1>3, <1>m
<1> QED
  BY <1>1, <1>f, <1>3, <1>4, <1>5, <1>6 DEF PlacedIn

\* A setter's write is appended at once by its caller.
LEMMA Appended ==
  ASSUME NEW q, NEW b, NEW l, NEW d, NEW n, PlacedIn(q, b, l, d, n), NEW t \in Tasks, b[t] = <<>>, n < MaxWrites
  PROVE  PlacedIn(q, [b EXCEPT ![t] = <<n + 1>>], l, d, n + 1)
<1> DEFINE c == [b EXCEPT ![t] = <<n + 1>>]
<1>1. /\ q \in Seq(Writes) /\ l \in Seq(Writes) /\ d \subseteq Writes /\ n \in 0..MaxWrites
      /\ b \in [Tasks -> Seq(Writes) \cup {<<Record>>}]
      /\ Apart(q) /\ Apart(l) /\ \A u \in Tasks : Apart(b[u])
      /\ \A u, v \in Tasks : u # v => Own(b[u]) \cap Own(b[v]) = {}
      /\ \A u \in Tasks : Own(b[u]) \cap (Elems(q) \cup Elems(l) \cup d) = {}
      /\ Elems(q) \cap Elems(l) = {} /\ Elems(q) \cap d = {} /\ Elems(l) \cap d = {}
  BY DEF PlacedIn
<1>i. \A x \in Writes : x <= n <=> x \in Elems(q) \cup Elems(l) \cup d \/ \E u \in Tasks : x \in Own(b[u])
  BY DEF PlacedIn
<1>e. <<>> \in Seq(Writes) /\ Elems(<<>>) = {} /\ Own(<<>>) = {} /\ Apart(<<>>)
  BY WritesAreNat, ShortElems, EmptySeq DEF Own
<1>f. /\ n + 1 \in Writes /\ n + 1 \in Nat /\ n + 1 \in 0..MaxWrites /\ n \in Nat /\ n + 1 # Record
      /\ n + 1 \notin Elems(q) \cup Elems(l) \cup d /\ \A u \in Tasks : n + 1 \notin Own(b[u])
  <2>1. n + 1 \in Writes /\ n + 1 \in Nat /\ n + 1 \in 0..MaxWrites /\ n \in Nat /\ n + 1 # Record /\ ~(n + 1 <= n)
    BY <1>1, RolesAssumption DEF Writes, Record
  <2> QED
    BY <1>i, <2>1
<1>m. \A x \in Writes : x <= n + 1 <=> x <= n \/ x = n + 1
  BY <1>f, RolesAssumption DEF Writes
<1>s. n + 1 \in Nat /\ Own(<<n + 1>>) = {n + 1} /\ Apart(<<n + 1>>) /\ <<n + 1>> \in Seq(Writes) \cup {<<Record>>}
  <2>1. n + 1 \in Nat
    BY <1>f, WritesAreNat
  <2>2. <<n + 1>> \in Seq(Writes) \cup {<<Record>>}
    BY <1>f
  <2> QED
    BY <2>1, <2>2, <1>f, ShortElems DEF Own
<1>c. c \in [Tasks -> Seq(Writes) \cup {<<Record>>}] /\ c[t] = <<n + 1>> /\ \A u \in Tasks : u # t => c[u] = b[u]
  BY <1>1, <1>s
<1>2. Own(b[t]) = {}
  BY <1>e
<1> HIDE DEF c
<1>3. \A u \in Tasks : Apart(c[u]) /\ Own(c[u]) \cap (Elems(q) \cup Elems(l) \cup d) = {}
  BY <1>1, <1>s, <1>c, <1>f
<1>4. \A u, v \in Tasks : u # v => Own(c[u]) \cap Own(c[v]) = {}
  BY <1>1, <1>s, <1>c, <1>f
<1>6. \A x \in Writes : x <= n + 1 <=> x \in Elems(q) \cup Elems(l) \cup d \/ \E u \in Tasks : x \in Own(c[u])
  <2>1. \A x \in Writes : (\E u \in Tasks : x \in Own(c[u])) <=> x \in {n + 1} \/ \E u \in Tasks : x \in Own(b[u])
    BY <1>s, <1>c, <1>2
  <2> QED
    BY <1>i, <2>1, <1>m
<1>7. PlacedIn(q, c, l, d, n + 1)
  BY <1>1, <1>c, <1>3, <1>4, <1>6, <1>f DEF PlacedIn
<1> QED
  BY <1>7 DEF c

\* So is the record of an idle_write(), which is no write.
LEMMA Recorded ==
  ASSUME NEW q, NEW b, NEW l, NEW d, NEW n, PlacedIn(q, b, l, d, n), NEW t \in Tasks, b[t] = <<>>
  PROVE  PlacedIn(q, [b EXCEPT ![t] = <<Record>>], l, d, n)
<1> DEFINE c == [b EXCEPT ![t] = <<Record>>]
<1>1. /\ q \in Seq(Writes) /\ l \in Seq(Writes) /\ d \subseteq Writes /\ n \in 0..MaxWrites
      /\ b \in [Tasks -> Seq(Writes) \cup {<<Record>>}]
      /\ Apart(q) /\ Apart(l) /\ \A u \in Tasks : Apart(b[u])
      /\ \A u, v \in Tasks : u # v => Own(b[u]) \cap Own(b[v]) = {}
      /\ \A u \in Tasks : Own(b[u]) \cap (Elems(q) \cup Elems(l) \cup d) = {}
      /\ Elems(q) \cap Elems(l) = {} /\ Elems(q) \cap d = {} /\ Elems(l) \cap d = {}
  BY DEF PlacedIn
<1>i. \A x \in Writes : x <= n <=> x \in Elems(q) \cup Elems(l) \cup d \/ \E u \in Tasks : x \in Own(b[u])
  BY DEF PlacedIn
<1>e. <<>> \in Seq(Writes) /\ Elems(<<>>) = {} /\ Own(<<>>) = {} /\ Apart(<<>>)
  BY WritesAreNat, ShortElems, EmptySeq DEF Own
<1>s. Record \in Nat /\ Own(<<Record>>) = {} /\ Apart(<<Record>>) /\ <<Record>> \in Seq(Writes) \cup {<<Record>>}
  <2>1. Record \in Nat
    BY WritesAreNat
  <2>2. <<Record>> \in Seq(Writes) \cup {<<Record>>}
    OBVIOUS
  <2> QED
    BY <2>1, <2>2, ShortElems DEF Own
<1>c. c \in [Tasks -> Seq(Writes) \cup {<<Record>>}] /\ c[t] = <<Record>> /\ \A u \in Tasks : u # t => c[u] = b[u]
  BY <1>1, <1>s
<1>2. Own(b[t]) = {}
  BY <1>e
<1> HIDE DEF c
<1>3. \A u \in Tasks : Apart(c[u]) /\ Own(c[u]) \cap (Elems(q) \cup Elems(l) \cup d) = {}
  BY <1>1, <1>s, <1>c
<1>4. \A u, v \in Tasks : u # v => Own(c[u]) \cap Own(c[v]) = {}
  BY <1>1, <1>s, <1>c
<1>6. \A x \in Writes : x <= n <=> x \in Elems(q) \cup Elems(l) \cup d \/ \E u \in Tasks : x \in Own(c[u])
  <2>1. \A x \in Writes : (\E u \in Tasks : x \in Own(c[u])) <=> x \in {} \/ \E u \in Tasks : x \in Own(b[u])
    BY <1>s, <1>c, <1>2
  <2> QED
    BY <1>i, <2>1
<1>7. PlacedIn(q, c, l, d, n)
  BY <1>1, <1>c, <1>3, <1>4, <1>6 DEF PlacedIn
<1> QED
  BY <1>7 DEF c

-----------------------------------------------------------------------------
\* What a drain, its loop, the end of an append and a cut do to the places.
LEMMA DrainPlaces ==
  ASSUME NEW t \in Tasks, NEW d, NEW q, NEW ph, NEW n, Drain(t, d, q, ph), batch[t] = <<>>,
         PlacedIn(q, batch, log, dropped, n)
  PROVE  PlacedIn(queue', batch', log, dropped, n)
<1>1. CASE queue' = q /\ batch' = batch
  BY <1>1
<1>2. CASE Detach(t, q, store)
  BY <1>2, Detaches DEF Detach
<1> QED
  BY <1>1, <1>2 DEF Drain

\* The loop of a drain that holds the lock.
LEMMA LoopPlaces ==
  ASSUME NEW t \in Tasks, NEW s, NEW l, NEW d, DrainLoop(t, s), TypeOK,
         PlacedIn(queue, [batch EXCEPT ![t] = <<>>], l, d, issued)
  PROVE  PlacedIn(queue', batch', l, d, issued)
<1> DEFINE c == [batch EXCEPT ![t] = <<>>]
<1>0. batch \in [Tasks -> Seq(Writes) \cup {<<Record>>}]
  BY DEF TypeOK
<1>1. CASE queue # <<>>
  <2>1. batch' = [batch EXCEPT ![t] = queue] /\ queue' = <<>>
    BY <1>1 DEF DrainLoop, Detach
  <2>2. batch' = [c EXCEPT ![t] = queue] /\ c[t] = <<>>
    BY <1>0, <2>1
  <2>3. PlacedIn(queue, c, l, d, issued)
    OBVIOUS
  <2> HIDE DEF c
  <2>4. PlacedIn(<<>>, [c EXCEPT ![t] = queue], l, d, issued)
    BY <2>2, <2>3, Detaches
  <2> QED
    BY <2>1, <2>2, <2>4
<1>2. CASE queue = <<>>
  BY <1>2 DEF DrainLoop
<1> QED
  BY <1>1, <1>2

\* What follows the end of an append.
LEMMA ResumePlaces ==
  ASSUME NEW t \in Tasks, NEW l, NEW d, Resume(t), TypeOK,
         PlacedIn(queue, [batch EXCEPT ![t] = Tail(batch[t])], l, d, issued)
  PROVE  PlacedIn(queue', batch', l, d, issued)
<1>1. CASE batch' = [batch EXCEPT ![t] = Tail(batch[t])] /\ queue' = queue
  BY <1>1
<1>2. CASE Tail(batch[t]) = <<>> /\ DrainLoop(t, WithoutAppend(store, t))
  BY <1>2, LoopPlaces
<1>3. CASE Tail(batch[t]) = <<>> /\ batch' = [batch EXCEPT ![t] = <<>>] /\ queue' = queue
  BY <1>3
<1> QED
  BY <1>1, <1>2, <1>3 DEF Resume

\* The append a cancel cuts is on the session, or dropped; its caller's rest is still detached.
LEMMA CutHeadPlaces ==
  ASSUME NEW t \in Tasks, CutHead(t), TypeOK, Placed, Flushing(t)
  PROVE  PlacedIn(queue, [batch EXCEPT ![t] = Tail(batch[t])], log', dropped', issued)
<1>1. LET c == [batch EXCEPT ![t] = Tail(batch[t])]
          w == Head(batch[t])
      IN /\ w # Record => /\ PlacedIn(queue, c, Append(log, w), dropped, issued)
                          /\ PlacedIn(queue, c, log, dropped \cup {w}, issued)
         /\ w = Record => PlacedIn(queue, c, log, dropped, issued)
  BY HeadLeaves DEF Placed, Flushing
<1> QED
  BY <1>1 DEF CutHead

\* So the rest of what a cut flush held is back on the queue.
LEMMA CutPlaces ==
  ASSUME NEW t \in Tasks, CutHead(t), TypeOK, Placed, Flushing(t)
  PROVE  PlacedIn(Requeue(Tail(batch[t]), queue), [batch EXCEPT ![t] = <<>>], log', dropped', issued)
<1> DEFINE c == [batch EXCEPT ![t] = Tail(batch[t])]
<1>0. batch \in [Tasks -> Seq(Writes) \cup {<<Record>>}]
  BY DEF TypeOK
<1>1. PlacedIn(queue, c, log', dropped', issued)
  BY CutHeadPlaces
<1>2. c[t] = Tail(batch[t]) /\ c[t] \in Seq(Writes) /\ [c EXCEPT ![t] = <<>>] = [batch EXCEPT ![t] = <<>>]
  BY <1>0, HeldHead DEF Flushing
<1> HIDE DEF c
<1>3. PlacedIn(c[t] \o queue, [c EXCEPT ![t] = <<>>], log', dropped', issued)
  BY <1>1, <1>2, RestReturns
<1> QED
  BY <1>2, <1>3 DEF Requeue

\* Every action keeps each write in one place.
LEMMA PlacedStep ==
  ASSUME IInv, Placed, NEW t \in Tasks, Step(t) \/ Cancel(t)
  PROVE  Placed'
<1>0. /\ TypeOK /\ PlacedIn(queue, batch, log, dropped, issued)
      /\ RoleAt(t, pc[t])
      /\ Holdless(t, pc[t]) => batch[t] = <<>>
      /\ pc[t] \in Draining /\ batch[t] # <<>> => lock = t
  BY Roles DEF IInv, Placed, Empty, Holdless, Quiet, OneDrainAppends, Flushing
<1>b. batch \in [Tasks -> Seq(Writes) \cup {<<Record>>}]
  BY <1>0 DEF TypeOK
<1>e. batch[t] = <<>> => [batch EXCEPT ![t] = <<>>] = batch
  BY <1>b
<1> SUFFICES PlacedIn(queue', batch', log', dropped', issued')
  BY DEF Placed
<1>1. CASE Wake(t)
  <2>1. batch[t] = <<>> /\ UNCHANGED <<log, issued, dropped>>
    BY <1>0, <1>1, RolesAssumption DEF Wake, HandedOver, Holdless, Quiet
  <2>2. CASE DrainLoop(t, store)
    BY <1>0, <1>e, <2>1, <2>2, LoopPlaces
  <2>3. CASE AppendDirectly(t, Record) /\ UNCHANGED queue
    BY <1>0, <2>1, <2>3, Recorded DEF AppendDirectly
  <2>4. CASE UNCHANGED <<queue, batch>>
    BY <1>0, <2>1, <2>4
  <2> QED
    BY <1>1, <2>2, <2>3, <2>4 DEF Wake
<1>2. CASE Land(t)
  <2>1. PlacedIn(queue, [batch EXCEPT ![t] = Tail(batch[t])], log', dropped', issued')
    BY <1>0, <1>2, HeadLeaves DEF Land, Appending, Flushing
  <2> QED
    BY <1>0, <1>2, <2>1, ResumePlaces DEF Land
<1>3. CASE Refuse(t)
  <2>1. PlacedIn(queue, [batch EXCEPT ![t] = Tail(batch[t])], log', dropped', issued')
    <3> DEFINE w == Head(batch[t])
    <3>1. w = Record => dropped' = dropped
      BY <1>3 DEF Refuse
    <3>2. w # Record => dropped' = dropped \cup {w}
      BY <1>3 DEF Refuse
    <3>3. log' = log /\ issued' = issued /\ batch[t] # <<>>
      BY <1>3 DEF Refuse, Appending, Flushing
    <3> DEFINE c == [batch EXCEPT ![t] = Tail(batch[t])]
    <3>4. /\ w # Record => PlacedIn(queue, c, log, dropped \cup {w}, issued)
          /\ w = Record => PlacedIn(queue, c, log, dropped, issued)
      BY <1>0, <3>3, HeadLeaves
    <3> HIDE DEF c, w
    <3> QED
      BY <3>1, <3>2, <3>3, <3>4 DEF c
  <2> QED
    BY <1>0, <1>3, <2>1, ResumePlaces DEF Refuse
<1>4. CASE Prompt(t) \/ Compact(t) \/ PromptCloses(t) \/ DisposeIdle(t)
  <2>1. batch[t] = <<>> /\ UNCHANGED <<log, issued, dropped>>
    BY <1>0, <1>4 DEF Prompt, Compact, PromptCloses, DisposeIdle, Holdless, Quiet, Flushing
  <2>2. \E d, ph : Drain(t, d, queue, ph)
    BY <1>4 DEF Prompt, Compact, PromptCloses, DisposeIdle
  <2> QED
    BY <1>0, <2>1, <2>2, DrainPlaces
<1>5. CASE TurnFlush(t)
  BY <1>0, <1>5, Detaches DEF TurnFlush, Detach, Flushing
<1>6. CASE SetCalled(t)
  BY <1>0, <1>6, Queued DEF SetCalled
<1>7. CASE SetEnds(t) \/ CompactEnds(t) \/ PromptCompacts(t) \/ PromptCompacted(t)
  BY <1>0, <1>7 DEF SetEnds, CompactEnds, PromptCompacts, PromptCompacted
<1>8. CASE SetRecords(t)
  <2>1. batch[t] = <<>> /\ issued < MaxWrites /\ UNCHANGED <<log, dropped>> /\ issued' = issued + 1
    BY <1>0, <1>8 DEF SetRecords, Holdless, Quiet
  <2>2. PlacedIn(Append(queue, issued + 1), batch, log, dropped, issued + 1)
    BY <1>0, <2>1, Queued
  <2>3. CASE AppendDirectly(t, issued + 1) /\ UNCHANGED queue
    BY <1>0, <2>1, <2>3, Appended DEF AppendDirectly
  <2>4. CASE Drain(t, "setdrain", Append(queue, issued + 1), phase)
    BY <2>1, <2>2, <2>4, DrainPlaces
  <2>5. CASE queue' = Append(queue, issued + 1) /\ UNCHANGED batch
    BY <2>1, <2>2, <2>5
  <2> QED
    BY <1>8, <2>3, <2>4, <2>5 DEF SetRecords
<1>9. CASE IdleWrite(t)
  <2>1. batch[t] = <<>> /\ UNCHANGED <<queue, log, issued, dropped>>
    BY <1>0, <1>9 DEF IdleWrite, Holdless, Quiet
  <2>2. CASE AppendDirectly(t, Record)
    BY <1>0, <2>1, <2>2, Recorded DEF AppendDirectly
  <2>3. CASE UNCHANGED batch
    BY <1>0, <2>1, <2>3
  <2> QED
    BY <1>9, <2>2, <2>3 DEF IdleWrite
<1>10. CASE Dispose(t)
  <2>1. batch[t] = <<>> /\ UNCHANGED <<log, issued, dropped>>
    BY <1>0, <1>10 DEF Dispose, Holdless, Quiet
  <2> QED
    BY <1>0, <1>10, <2>1, DrainPlaces DEF Dispose
<1>11. CASE CancelTurn(t)
  BY <1>0, <1>11, CutPlaces DEF CancelTurn, CutFlush, Placed
<1>12. CASE CancelEntry(t)
  <2> DEFINE q == IF Flushing(t) THEN Requeue(Tail(batch[t]), queue) ELSE queue
             c == [batch EXCEPT ![t] = <<>>]
  <2>0. issued' = issued /\ CutHead(t)
    BY <1>12 DEF CancelEntry
  <2>1. PlacedIn(q, c, log', dropped', issued)
    <3>1. CASE Flushing(t)
      BY <1>0, <2>0, <3>1, CutPlaces DEF Placed
    <3>2. CASE ~Flushing(t)
      BY <1>0, <1>e, <2>0, <3>2 DEF CutHead, Flushing, Appending
    <3> QED
      BY <3>1, <3>2
  <2>2. CASE batch' = c /\ queue' = q
    BY <2>0, <2>1, <2>2
  <2>3. CASE Detach(t, q, WithoutAppend(store, t))
    <3>1. batch' = [c EXCEPT ![t] = q] /\ queue' = <<>> /\ c[t] = <<>>
      BY <1>b, <2>3 DEF Detach
    <3> HIDE DEF c, q
    <3> QED
      BY <2>0, <2>1, <3>1, Detaches
  <2> QED
    BY <1>12, <2>2, <2>3 DEF CancelEntry
<1>13. CASE CancelCaller(t)
  <2>1. CASE Flushing(t) /\ CutFlush(t)
    BY <1>0, <1>13, <2>1, CutPlaces DEF CancelCaller, CutFlush, Placed
  <2>2. CASE UNCHANGED <<batch, queue, log, dropped>>
    BY <1>0, <1>13, <2>2 DEF CancelCaller
  <2> QED
    BY <1>13, <2>1, <2>2 DEF CancelCaller, Cut
<1> QED
  BY <1>1, <1>2, <1>3, <1>4, <1>5, <1>6, <1>7, <1>8, <1>9, <1>10, <1>11, <1>12, <1>13 DEF Step, Cancel

\* The places of a write are one.
LEMMA OnePlace ==
  ASSUME Placed, NEW w \in Writes, w <= issued
  PROVE  Cardinality(Places(w)) = 1
<1> DEFINE inQ == {<<"queue", i>> : i \in {i \in DOMAIN queue : queue[i] = w}}
           inB(t) == {<<t, i>> : i \in {i \in DOMAIN batch[t] : batch[t][i] = w}}
           inL == {<<"log", i>> : i \in {i \in DOMAIN log : log[i] = w}}
           inD == {<<"dropped", 0>> : x \in dropped \cap {w}}
<1>0. \A x : x \in Places(w) <=> x \in inQ \/ (\E t \in Tasks : x \in inB(t)) \/ x \in inL \/ x \in inD
  <2>1. Places(w) = inQ \cup (UNION {inB(t) : t \in Tasks}) \cup inL \cup inD
    BY DEF Places
  <2> HIDE DEF inQ, inB, inL, inD
  <2> QED
    BY <2>1
<1>n. w # Record
  BY WritesAreNat
<1>q. (w \notin Elems(queue) => inQ = {}) /\ (w \in Elems(queue) /\ Apart(queue) => \E x : inQ = {x})
  <2>1. ASSUME w \notin Elems(queue) PROVE inQ = {}
    BY <2>1 DEF Elems
  <2>2. ASSUME w \in Elems(queue), Apart(queue) PROVE \E x : inQ = {x}
    <3>1. PICK i \in DOMAIN queue : queue[i] = w
      BY <2>2 DEF Elems
    <3>2. inQ = {<<"queue", i>>}
      BY <2>2, <3>1 DEF Apart
    <3> QED
      BY <3>2
  <2> QED
    BY <2>1, <2>2
<1>l. (w \notin Elems(log) => inL = {}) /\ (w \in Elems(log) /\ Apart(log) => \E x : inL = {x})
  <2>1. ASSUME w \notin Elems(log) PROVE inL = {}
    BY <2>1 DEF Elems
  <2>2. ASSUME w \in Elems(log), Apart(log) PROVE \E x : inL = {x}
    <3>1. PICK i \in DOMAIN log : log[i] = w
      BY <2>2 DEF Elems
    <3>2. inL = {<<"log", i>>}
      BY <2>2, <3>1 DEF Apart
    <3> QED
      BY <3>2
  <2> QED
    BY <2>1, <2>2
<1>d. (w \notin dropped => inD = {}) /\ (w \in dropped => inD = {<<"dropped", 0>>})
  OBVIOUS
<1>b. ASSUME NEW t \in Tasks
      PROVE  /\ w \notin Own(batch[t]) => inB(t) = {}
             /\ w \in Own(batch[t]) /\ Apart(batch[t]) => \E x : inB(t) = {x}
  <2>1. ASSUME w \notin Own(batch[t]) PROVE inB(t) = {}
    BY <1>n, <2>1 DEF Elems, Own
  <2>2. ASSUME w \in Own(batch[t]), Apart(batch[t]) PROVE \E x : inB(t) = {x}
    <3>1. PICK i \in DOMAIN batch[t] : batch[t][i] = w
      BY <2>2 DEF Elems, Own
    <3>2. inB(t) = {<<t, i>>}
      BY <2>2, <3>1 DEF Apart
    <3> QED
      BY <3>2
  <2> QED
    BY <2>1, <2>2
<1>1. /\ Apart(queue) /\ Apart(log) /\ \A t \in Tasks : Apart(batch[t])
      /\ \A t, u \in Tasks : t # u => Own(batch[t]) \cap Own(batch[u]) = {}
      /\ \A t \in Tasks : Own(batch[t]) \cap (Elems(queue) \cup Elems(log) \cup dropped) = {}
      /\ Elems(queue) \cap Elems(log) = {} /\ Elems(queue) \cap dropped = {} /\ Elems(log) \cap dropped = {}
      /\ w \in Elems(queue) \cup Elems(log) \cup dropped \/ \E t \in Tasks : w \in Own(batch[t])
  BY DEF Placed, PlacedIn
<1> HIDE DEF inQ, inB, inL, inD
<1>2. \E x : Places(w) = {x}
  <2>1. CASE w \in Elems(queue)
    <3>1. inL = {} /\ inD = {} /\ \A t \in Tasks : inB(t) = {}
      BY <1>1, <1>l, <1>d, <1>b, <2>1
    <3>2. \A x : x \in Places(w) <=> x \in inQ
      BY <1>0, <3>1
    <3>s. Places(w) = inQ
      BY <3>2
    <3> QED
      BY <1>1, <1>q, <2>1, <3>s
  <2>2. CASE w \in Elems(log)
    <3>1. inQ = {} /\ inD = {} /\ \A t \in Tasks : inB(t) = {}
      BY <1>1, <1>q, <1>d, <1>b, <2>2
    <3>2. \A x : x \in Places(w) <=> x \in inL
      BY <1>0, <3>1
    <3>s. Places(w) = inL
      BY <3>2
    <3> QED
      BY <1>1, <1>l, <2>2, <3>s
  <2>3. CASE w \in dropped
    <3>1. inQ = {} /\ inL = {} /\ \A t \in Tasks : inB(t) = {}
      BY <1>1, <1>q, <1>l, <1>b, <2>3
    <3>2. \A x : x \in Places(w) <=> x \in inD
      BY <1>0, <3>1
    <3>s. Places(w) = inD
      BY <3>2
    <3> QED
      BY <1>1, <1>d, <2>3, <3>s
  <2>4. ASSUME NEW t \in Tasks, w \in Own(batch[t]) PROVE \E x : Places(w) = {x}
    <3>1. inQ = {} /\ inL = {} /\ inD = {}
      BY <1>1, <1>q, <1>l, <1>d, <2>4
    <3>3. \A u \in Tasks : u # t => inB(u) = {}
      BY <1>1, <1>b, <2>4
    <3>2. \A x : x \in Places(w) <=> x \in inB(t)
      BY <1>0, <3>1, <3>3
    <3>s. Places(w) = inB(t)
      BY <3>2
    <3> QED
      BY <1>1, <1>b, <2>4, <3>s
  <2> QED
    BY <1>1, <2>1, <2>2, <2>3, <2>4
<1> QED
  BY <1>2, FS_Singleton

\* At the start there is no write.
LEMMA InitPlaced == Init => Placed
<1> SUFFICES ASSUME Init PROVE Placed
  OBVIOUS
<1>1. /\ queue = <<>> /\ log = <<>> /\ dropped = {} /\ issued = 0 /\ batch = [t \in Tasks |-> <<>>]
  BY DEF Init
<1>2. /\ <<>> \in Seq(Writes) /\ Elems(<<>>) = {} /\ Apart(<<>>) /\ Own(<<>>) = {}
  BY WritesAreNat, ShortElems, EmptySeq DEF Own
<1>3. \A w \in Writes : ~(w <= 0)
  BY RolesAssumption DEF Writes
<1>4. 0 \in 0..MaxWrites
  BY RolesAssumption
<1> QED
  BY <1>1, <1>2, <1>3, <1>4 DEF Placed, PlacedIn

\* Any step of the system keeps each write in one place.
LEMMA PlacedKept == IInv /\ Placed /\ [Next]_vars => Placed'
<1> SUFFICES ASSUME IInv, Placed, [Next]_vars PROVE Placed'
  OBVIOUS
<1>1. CASE \E t \in Tasks : Step(t) \/ Cancel(t)
  BY <1>1, PlacedStep
<1>2. CASE AppendMessage
  <2>1. PlacedIn(queue, batch, log, dropped, issued) /\ issued < MaxWrites
    BY <1>2 DEF Placed, AppendMessage
  <2>2. PlacedIn(Append(queue, issued + 1), batch, log, dropped, issued + 1)
    BY <2>1, Queued
  <2> QED
    BY <1>2, <2>2 DEF Placed, AppendMessage
<1>3. CASE UNCHANGED vars
  BY <1>3 DEF vars, Placed
<1> QED
  BY <1>1, <1>2, <1>3 DEF Next

\* No write is lost or recorded twice, whatever is detached, refused or cut, and for any callers
\* (flush_pending_session_writes): each write is in one place.
THEOREM NoWriteLostHolds == Spec => []NoWriteLost
<1>1. IInv /\ Placed => NoWriteLost
  <2> SUFFICES ASSUME IInv, Placed, NEW w \in 1..issued PROVE Cardinality(Places(w)) = 1
    BY DEF NoWriteLost
  <2>1. w \in Writes /\ w <= issued
    BY RolesAssumption DEF IInv, TypeOK, Writes
  <2> QED
    BY <2>1, OnePlace
<1> QED
  BY <1>1, Initially, Preserved, InitPlaced, PlacedKept, PTL DEF Spec

-----------------------------------------------------------------------------
\* Who is in a line and who is last there; which appends are in progress, and which one is ahead.
AtEnd(s, t) == \A i \in DOMAIN s : s[i] = t => i = Len(s)
In(s, t) == \E i \in DOMAIN s : s[i].task = t
Ahead(s, t, u) == \E i, j \in DOMAIN s : i < j /\ s[i].task = t /\ s[j].task = u
Once(s) == \A i, j \in DOMAIN s : s[i].task = s[j].task => i = j

\* What the sequence without its k-th element has, place by place.
Up(k, j) == IF j < k THEN j ELSE j + 1
Down(k, i) == IF i < k THEN i ELSE i - 1

\* So Minus is s without that place, in the same order.
LEMMA MinusIs ==
  ASSUME NEW S, NEW s \in Seq(S), NEW k \in DOMAIN s
  PROVE  /\ Len(s) \in Nat \ {0} /\ DOMAIN s = 1..Len(s) /\ k \in Nat
         /\ Minus(s, k) \in Seq(S) /\ Len(Minus(s, k)) = Len(s) - 1 /\ DOMAIN Minus(s, k) = 1..(Len(s) - 1)
         /\ \A j \in DOMAIN Minus(s, k) :
              Up(k, j) \in DOMAIN s /\ Up(k, j) # k /\ Minus(s, k)[j] = s[Up(k, j)]
         /\ \A i \in DOMAIN s : i # k => Down(k, i) \in DOMAIN Minus(s, k) /\ Minus(s, k)[Down(k, i)] = s[i]
<1> DEFINE m == Minus(s, k)
<1>1. Len(s) \in Nat /\ DOMAIN s = 1..Len(s) /\ k \in 1..Len(s)
  BY LenProperties
<1>2. m \in Seq(S)
  BY MinusType
<1>3. DOMAIN m = 1..(Len(s) - 1) /\ \A j \in 1..(Len(s) - 1) : m[j] = IF j < k THEN s[j] ELSE s[j + 1]
  BY DEF Minus
<1> HIDE DEF m
<1>4. Len(m) = Len(s) - 1
  <2>1. Len(m) \in Nat /\ DOMAIN m = 1..Len(m)
    BY <1>2, LenProperties
  <2>2. \A i \in Nat \ {0} : i <= Len(m) <=> i <= Len(s) - 1
    <3>1. \A i \in Nat \ {0} : (i <= Len(m) <=> i \in DOMAIN m) /\ (i <= Len(s) - 1 <=> i \in DOMAIN m)
      BY <1>1, <1>3, <2>1
    <3> QED
      BY <3>1
  <2>3. Len(m) <= Len(s) - 1
    BY <1>1, <2>1, <2>2
  <2>4. Len(s) - 1 <= Len(m)
    BY <1>1, <2>1, <2>2
  <2>5. \A x, y \in Int : x <= y /\ y <= x => x = y
    OBVIOUS
  <2>6. Len(m) \in Int /\ Len(s) - 1 \in Int
    BY <1>1, <2>1
  <2> QED
    BY <2>3, <2>4, <2>5, <2>6
<1>5. \A j \in DOMAIN m : Up(k, j) \in DOMAIN s /\ Up(k, j) # k /\ m[j] = s[Up(k, j)]
  BY <1>1, <1>3 DEF Up
<1>6. ASSUME NEW i \in DOMAIN s, i # k PROVE Down(k, i) \in DOMAIN m /\ m[Down(k, i)] = s[i]
  <2>1. CASE i < k
    BY <1>1, <1>3, <2>1 DEF Down
  <2>2. CASE i > k
    <3>1. i - 1 \in 1..(Len(s) - 1) /\ ~(i - 1 < k) /\ i - 1 + 1 = i
      BY <1>1, <2>2
    <3> QED
      BY <1>1, <1>3, <2>2, <3>1 DEF Down
  <2> QED
    BY <1>1, <1>6, <2>1, <2>2
<1> QED
  BY <1>1, <1>2, <1>3, <1>4, <1>5, <1>6 DEF m

\* The waiters without a task that waits no longer, with a new one at the end, and without the
\* oldest.
LEMMA WithoutWaiter ==
  ASSUME NEW s \in Seq(Tasks), Apart(s), NEW t
  PROVE  /\ Apart(WithoutTask(s, t)) /\ Elems(WithoutTask(s, t)) = Elems(s) \ {t}
         /\ \A u : AtEnd(s, u) => AtEnd(WithoutTask(s, t), u)
         /\ s = <<>> => WithoutTask(s, t) = <<>>
         /\ WithoutTask(s, t) \in Seq(Tasks)
<1> DEFINE m == WithoutTask(s, t)
<1>0. m \in Seq(Tasks)
  BY WithoutType
<1>1. CASE t \in Elems(s)
  <2> DEFINE k == CHOOSE i \in DOMAIN s : s[i] = t
  <2>1. k \in DOMAIN s /\ s[k] = t
    BY <1>1 DEF Elems
  <2>2. m = Minus(s, k)
    BY <1>1 DEF WithoutTask, Elems
  <2> HIDE DEF k, m
  <2>3. /\ Len(s) \in Nat \ {0} /\ DOMAIN s = 1..Len(s) /\ k \in Nat /\ Len(m) = Len(s) - 1 /\ DOMAIN m = 1..(Len(s) - 1)
        /\ \A j \in DOMAIN m : Up(k, j) \in DOMAIN s /\ Up(k, j) # k /\ m[j] = s[Up(k, j)]
        /\ \A i \in DOMAIN s : i # k => Down(k, i) \in DOMAIN m /\ m[Down(k, i)] = s[i]
    BY <2>1, <2>2, MinusIs
  <2>4. Apart(m)
    <3>1. ASSUME NEW i \in DOMAIN m, NEW j \in DOMAIN m, m[i] = m[j] PROVE i = j
      <4>1. Up(k, i) = Up(k, j) /\ i \in Nat /\ j \in Nat
        BY <2>3, <3>1 DEF Apart
      <4> QED
        BY <2>3, <4>1 DEF Up
    <3> QED
      BY <3>1 DEF Apart
  <2>5. Elems(m) = Elems(s) \ {t}
    <3>1. ASSUME NEW j \in DOMAIN m PROVE m[j] \in Elems(s) \ {t}
      BY <2>1, <2>3 DEF Apart, Elems
    <3>2. ASSUME NEW i \in DOMAIN s, s[i] # t PROVE s[i] \in Elems(m)
      <4>1. Down(k, i) \in DOMAIN m /\ m[Down(k, i)] = s[i]
        BY <2>1, <2>3, <3>2
      <4> QED
        BY <4>1 DEF Elems
    <3> QED
      BY <3>1, <3>2 DEF Elems
  <2>6. ASSUME NEW u, AtEnd(s, u) PROVE AtEnd(m, u)
    <3>1. ASSUME NEW j \in DOMAIN m, m[j] = u PROVE j = Len(m)
      <4>1. Up(k, j) = Len(s) /\ j \in Nat /\ Up(k, j) # k
        BY <2>3, <2>6, <3>1 DEF AtEnd
      <4>2. k <= Len(s) /\ j <= Len(s) - 1
        BY <2>1, <2>3, <3>1
      <4> QED
        BY <2>3, <4>1, <4>2 DEF Up
    <3> QED
      BY <3>1 DEF AtEnd
  <2>7. s # <<>>
    BY <2>1
  <2> QED
    BY <1>0, <2>4, <2>5, <2>6, <2>7 DEF m
<1>2. CASE t \notin Elems(s)
  <2>1. m = s
    BY <1>2 DEF WithoutTask, Elems
  <2> QED
    BY <1>0, <1>2, <2>1
<1> QED
  BY <1>1, <1>2

\* A task that queues up is the last.
LEMMA NewWaiter ==
  ASSUME NEW s \in Seq(Tasks), Apart(s), NEW t \in Tasks, t \notin Elems(s)
  PROVE  /\ Apart(Append(s, t)) /\ Elems(Append(s, t)) = Elems(s) \cup {t} /\ AtEnd(Append(s, t), t)
<1> DEFINE r == Append(s, t)
<1>1. /\ Len(s) \in Nat /\ DOMAIN s = 1..Len(s) /\ DOMAIN r = 1..(Len(s) + 1) /\ Len(r) = Len(s) + 1
      /\ r[Len(s) + 1] = t /\ \A i \in 1..Len(s) : r[i] = s[i]
  BY AppendProperties, LenProperties
<1> HIDE DEF r
<1>2. \A i \in DOMAIN s : s[i] # t
  BY DEF Elems
<1>3. Apart(r) /\ AtEnd(r, t)
  BY <1>1, <1>2 DEF Apart, AtEnd
<1>4. Elems(r) = Elems(s) \cup {t}
  <2>1. ASSUME NEW e \in Elems(r) PROVE e \in Elems(s) \cup {t}
    BY <1>1, <2>1 DEF Elems
  <2>2. ASSUME NEW i \in DOMAIN s PROVE s[i] \in Elems(r)
    BY <1>1, <2>2 DEF Elems
  <2>3. t \in Elems(r)
    BY <1>1 DEF Elems
  <2> QED
    BY <2>1, <2>2, <2>3 DEF Elems
<1> QED
  BY <1>3, <1>4 DEF r

\* The oldest leaves; the last stays the last.
LEMMA OldestWakes ==
  ASSUME NEW s \in Seq(Tasks), Apart(s), s # <<>>
  PROVE  /\ Apart(Tail(s)) /\ Elems(Tail(s)) = Elems(s) \ {Head(s)} /\ Head(s) \in Elems(s)
         /\ \A u : AtEnd(s, u) => AtEnd(Tail(s), u)
         /\ AtEnd(s, Head(s)) => Tail(s) = <<>>
<1> DEFINE r == Tail(s)
           h == Head(s)
<1>1. /\ Len(s) \in Nat /\ Len(s) > 0 /\ DOMAIN s = 1..Len(s) /\ DOMAIN r = 1..(Len(s) - 1) /\ Len(r) = Len(s) - 1
      /\ r \in Seq(Tasks) /\ h = s[1] /\ \A i \in 1..(Len(s) - 1) : r[i] = s[i + 1]
  BY HeadTailProperties, LenProperties, EmptySeq
<1>2. AtEnd(s, h) => r = <<>>
  <2>1. AtEnd(s, h) => Len(r) = 0
    BY <1>1 DEF AtEnd
  <2> QED
    BY <1>1, <2>1, EmptySeq
<1> HIDE DEF r, h
<1>3. \A i \in DOMAIN r : i + 1 \in DOMAIN s /\ r[i] = s[i + 1] /\ i \in Nat
  BY <1>1
<1>4. Apart(r)
  BY <1>1, <1>3 DEF Apart
<1>5. Elems(r) = Elems(s) \ {h} /\ h \in Elems(s)
  <2>1. ASSUME NEW i \in DOMAIN r PROVE r[i] \in Elems(s) \ {h}
    <3>1. i + 1 \in DOMAIN s /\ 1 \in DOMAIN s /\ i + 1 # 1 /\ r[i] = s[i + 1]
      BY <1>1, <1>3
    <3> QED
      BY <1>1, <3>1 DEF Elems, Apart
  <2>2. ASSUME NEW i \in DOMAIN s, s[i] # h PROVE s[i] \in Elems(r)
    <3>1. i - 1 \in DOMAIN r /\ r[i - 1] = s[i]
      BY <1>1, <2>2
    <3> QED
      BY <3>1 DEF Elems
  <2>3. h \in Elems(s)
    BY <1>1 DEF Elems
  <2> QED
    BY <2>1, <2>2, <2>3 DEF Elems
<1>6. ASSUME NEW u, AtEnd(s, u) PROVE AtEnd(r, u)
  BY <1>1, <1>3, <1>6 DEF AtEnd
<1> QED
  BY <1>2, <1>4, <1>5, <1>6 DEF r, h

\* The appends in progress, without that of t, with a new one of t, and the first.
LEMMA AppendOver ==
  ASSUME NEW s \in Seq(Append1), Once(s), NEW t
  PROVE  LET m == WithoutAppend(s, t)
         IN /\ m \in Seq(Append1) /\ Once(m) /\ \A u : In(m, u) <=> In(s, u) /\ u # t
            /\ \A u, v : Ahead(m, u, v) => Ahead(s, u, v) /\ u # t /\ v # t
<1> DEFINE m == WithoutAppend(s, t)
<1>0. m \in Seq(Append1)
  BY WithoutType
<1>1. CASE In(s, t)
  <2> DEFINE k == CHOOSE i \in DOMAIN s : s[i].task = t
  <2>1. k \in DOMAIN s /\ s[k].task = t
    BY <1>1 DEF In
  <2>2. m = Minus(s, k)
    BY <1>1 DEF WithoutAppend, In
  <2> HIDE DEF k, m
  <2>3. /\ Len(s) \in Nat \ {0} /\ DOMAIN s = 1..Len(s) /\ k \in Nat /\ Len(m) = Len(s) - 1 /\ DOMAIN m = 1..(Len(s) - 1)
        /\ \A j \in DOMAIN m : Up(k, j) \in DOMAIN s /\ Up(k, j) # k /\ m[j] = s[Up(k, j)]
        /\ \A i \in DOMAIN s : i # k => Down(k, i) \in DOMAIN m /\ m[Down(k, i)] = s[i]
    BY <2>1, <2>2, MinusIs
  <2>4. ASSUME NEW j \in DOMAIN m
        PROVE  j \in Nat /\ Up(k, j) \in DOMAIN s /\ m[j] = s[Up(k, j)] /\ s[Up(k, j)].task # t
    BY <2>1, <2>3 DEF Once
  <2>5. \A i, j \in DOMAIN m : (i < j => Up(k, i) < Up(k, j)) /\ (Up(k, i) = Up(k, j) => i = j)
    BY <2>3, <2>4 DEF Up
  <2>6. Once(m)
    BY <2>4, <2>5 DEF Once
  <2>7. ASSUME NEW u PROVE In(m, u) <=> In(s, u) /\ u # t
    <3>1. ASSUME In(m, u) PROVE In(s, u) /\ u # t
      BY <2>4, <3>1 DEF In
    <3>2. ASSUME In(s, u), u # t PROVE In(m, u)
      <4>1. PICK i \in DOMAIN s : s[i].task = u
        BY <3>2 DEF In
      <4>2. Down(k, i) \in DOMAIN m /\ m[Down(k, i)] = s[i]
        BY <2>1, <2>3, <3>2, <4>1
      <4> QED
        BY <4>1, <4>2 DEF In
    <3> QED
      BY <3>1, <3>2
  <2>8. ASSUME NEW u, NEW v, Ahead(m, u, v) PROVE Ahead(s, u, v) /\ u # t /\ v # t
    <3>1. PICK i \in DOMAIN m, j \in DOMAIN m : i < j /\ m[i].task = u /\ m[j].task = v
      BY <2>8 DEF Ahead
    <3> QED
      BY <2>4, <2>5, <3>1 DEF Ahead
  <2> QED
    BY <1>0, <2>6, <2>7, <2>8 DEF m
<1>2. CASE ~In(s, t)
  <2>1. m = s
    BY <1>2 DEF WithoutAppend, In
  <2>2. \A u, v : Ahead(s, u, v) => In(s, u) /\ In(s, v)
    BY DEF Ahead, In
  <2> QED
    BY <1>0, <1>2, <2>1, <2>2
<1> QED
  BY <1>1, <1>2

\* An append begins behind the others.
LEMMA AppendBegins ==
  ASSUME NEW s \in Seq(Append1), Once(s), NEW t \in Tasks, ~In(s, t), NEW w \in Writes \cup {Record}
  PROVE  LET m == Append(s, [task |-> t, write |-> w])
         IN /\ Once(m) /\ m \in Seq(Append1) /\ \A u : In(m, u) <=> In(s, u) \/ u = t
            /\ \A u, v : Ahead(m, u, v) => Ahead(s, u, v) \/ (In(s, u) /\ u # t /\ v = t)
<1> DEFINE e == [task |-> t, write |-> w]
           m == Append(s, e)
<1>0. e \in Append1 /\ e.task = t
  BY DEF Append1
<1> HIDE DEF e
<1>1. /\ Len(s) \in Nat /\ DOMAIN s = 1..Len(s) /\ DOMAIN m = 1..(Len(s) + 1) /\ m \in Seq(Append1)
      /\ m[Len(s) + 1] = e /\ \A i \in 1..Len(s) : m[i] = s[i]
  BY <1>0, AppendProperties, LenProperties
<1> HIDE DEF m
<1>2. \A i \in DOMAIN s : s[i].task # t
  BY DEF In
<1>3. \A i \in DOMAIN m : (i \in DOMAIN s /\ m[i] = s[i] /\ i < Len(s) + 1) \/ (i = Len(s) + 1 /\ m[i].task = t)
  BY <1>0, <1>1
<1>4. Once(m)
  BY <1>2, <1>3 DEF Once
<1>5. ASSUME NEW u PROVE In(m, u) <=> In(s, u) \/ u = t
  <2>1. ASSUME In(m, u) PROVE In(s, u) \/ u = t
    BY <1>3, <2>1 DEF In
  <2>2. ASSUME In(s, u) PROVE In(m, u)
    BY <1>1, <2>2 DEF In
  <2>3. In(m, t)
    BY <1>0, <1>1 DEF In
  <2> QED
    BY <2>1, <2>2, <2>3
<1>6. ASSUME NEW u, NEW v, Ahead(m, u, v) PROVE Ahead(s, u, v) \/ (In(s, u) /\ u # t /\ v = t)
  <2>1. PICK i \in DOMAIN m, j \in DOMAIN m : i < j /\ m[i].task = u /\ m[j].task = v
    BY <1>6 DEF Ahead
  <2>2. i \in DOMAIN s /\ s[i].task = u
    BY <1>1, <1>3, <2>1
  <2>3. CASE j \in DOMAIN s /\ m[j] = s[j]
    BY <2>1, <2>2, <2>3 DEF Ahead
  <2>4. CASE m[j].task = t
    BY <1>2, <2>1, <2>2, <2>4 DEF In
  <2> QED
    BY <1>3, <2>3, <2>4
<1> QED
  BY <1>1, <1>4, <1>5, <1>6 DEF m, e

\* The first append is ahead of all others.
LEMMA FirstIsAhead ==
  ASSUME NEW s \in Seq(Append1), s # <<>>, NEW u, In(s, u), u # Head(s).task
  PROVE  Ahead(s, Head(s).task, u)
<1>1. Len(s) \in Nat /\ Len(s) > 0 /\ DOMAIN s = 1..Len(s) /\ Head(s) = s[1]
  BY HeadTailProperties, LenProperties, EmptySeq
<1>2. PICK i \in DOMAIN s : s[i].task = u
  BY DEF In
<1>3. 1 < i /\ 1 \in DOMAIN s
  BY <1>1, <1>2
<1> QED
  BY <1>1, <1>2, <1>3 DEF Ahead

\* Of two appends one is ahead.
LEMMA OneIsAhead ==
  ASSUME NEW s \in Seq(Append1), NEW t, NEW u, In(s, t), In(s, u), t # u
  PROVE  Ahead(s, t, u) \/ Ahead(s, u, t)
<1>1. Len(s) \in Nat /\ DOMAIN s = 1..Len(s)
  BY LenProperties
<1>2. PICK i \in DOMAIN s, j \in DOMAIN s : s[i].task = t /\ s[j].task = u
  BY DEF In
<1>3. i < j \/ j < i
  BY <1>1, <1>2
<1> QED
  BY <1>2, <1>3 DEF Ahead

-----------------------------------------------------------------------------
\* Who waits for the drain lock: the drains that do not hold it, and an idle_write() that has
\* not begun.
Waiting ==
  /\ Apart(waiters)
  /\ \A t \in Elems(waiters) : t # lock /\ (pc[t] \in Draining \/ (pc[t] = "hook" /\ t \in Recorders))
  /\ \A t \in Tasks : pc[t] \in Draining /\ t # lock => t \in Elems(waiters)
  /\ \A t \in Tasks : lock = t => pc[t] \in Draining \/ (pc[t] = "direct" /\ t \in Recorders)

\* Nobody waits behind a claimant, and while it runs nobody drains -- unless a claim overtook a
\* waiter.
Last == ~overtaken =>
  \A t \in Claimants : /\ pc[t] \in {"body", "nested"} => lock = Nobody /\ waiters = <<>>
                       /\ lock = t => waiters = <<>>
                       /\ AtEnd(waiters, t)

\* A direct append is one record.
Single == \A t \in Tasks : pc[t] = "direct" => Len(batch[t]) <= 1

\* One step of a caller, as these see it.
Handles(t) ==
  /\ \A u \in Tasks : u # t => pc'[u] = pc[u]
  /\ Apart(waiters') /\ \A u : u # t => (u \in Elems(waiters') <=> u \in Elems(waiters))
  /\ lock' \in {lock, t, Nobody} /\ (lock' # lock => lock \in {t, Nobody})
  /\ t \in Elems(waiters') => lock' # t /\ (pc'[t] \in Draining \/ (pc'[t] = "hook" /\ t \in Recorders))
  /\ pc'[t] \in Draining /\ t # lock' => t \in Elems(waiters')
  /\ lock' = t => pc'[t] \in Draining \/ (pc'[t] = "direct" /\ t \in Recorders)
  /\ overtaken => overtaken'
  /\ \A u \in Claimants : u # t => /\ AtEnd(waiters, u) => AtEnd(waiters', u)
                                   /\ waiters = <<>> => waiters' = <<>>
                                   /\ waiters = <<>> /\ lock = Nobody => lock' = Nobody
  /\ ~overtaken' /\ Claiming(t, pc'[t]) =>
       /\ pc'[t] \in {"body", "nested"} => lock' = Nobody /\ waiters' = <<>>
       /\ lock' = t => waiters' = <<>>
       /\ AtEnd(waiters', t)

\* The claimants, by where each task stands.
LEMMA ClaimantsAre ==
  /\ Claimants = {u \in Tasks : Claiming(u, pc[u])}
  /\ Claimants' = {u \in Tasks : Claiming(u, pc'[u])}
BY DEF Claimants, Claiming, Tasks

\* A step of that shape keeps who waits, and for what.
LEMMA HandlesKeep ==
  ASSUME IInv, Waiting, Last, NEW t \in Tasks, Handles(t)
  PROVE  Waiting' /\ Last'
<1>w. Nobody \notin Tasks /\ Elems(waiters) \subseteq Tasks /\ lock \in Tasks \cup {Nobody}
  <2>1. waiters \in Seq(Tasks) /\ lock \in Tasks \cup {Nobody}
    BY DEF IInv, TypeOK
  <2>2. \A i \in DOMAIN waiters : waiters[i] \in Tasks
    BY <2>1, ElementOfSeq, LenProperties
  <2> QED
    BY <2>1, <2>2, RolesAssumption DEF Elems
<1>1. \A u \in Tasks : u # t => pc'[u] = pc[u] /\ (lock' = u <=> lock = u)
  BY <1>w DEF Handles
<1>2. Waiting'
  <2>1. ASSUME NEW u \in Elems(waiters')
        PROVE  u # lock' /\ (pc'[u] \in Draining \/ (pc'[u] = "hook" /\ u \in Recorders))
    <3>1. CASE u = t
      BY <2>1, <3>1 DEF Handles
    <3>2. CASE u # t
      <4>1. u \in Elems(waiters) /\ u \in Tasks
        BY <1>w, <2>1, <3>2 DEF Handles
      <4> QED
        BY <1>1, <3>2, <4>1 DEF Waiting
    <3> QED
      BY <3>1, <3>2
  <2>2. ASSUME NEW u \in Tasks, pc'[u] \in Draining, u # lock' PROVE u \in Elems(waiters')
    BY <1>1, <2>2 DEF Handles, Waiting
  <2>3. ASSUME NEW u \in Tasks, lock' = u
        PROVE  pc'[u] \in Draining \/ (pc'[u] = "direct" /\ u \in Recorders)
    BY <1>1, <2>3 DEF Handles, Waiting
  <2> QED
    BY <2>1, <2>2, <2>3 DEF Handles, Waiting
<1>3. Last'
  <2>1. SUFFICES ASSUME ~overtaken', NEW u \in Claimants'
                 PROVE  /\ pc'[u] \in {"body", "nested"} => lock' = Nobody /\ waiters' = <<>>
                        /\ lock' = u => waiters' = <<>>
                        /\ AtEnd(waiters', u)
    BY DEF Last
  <2>2. u \in Tasks /\ Claiming(u, pc'[u])
    BY ClaimantsAre
  <2>3. CASE u = t
    BY <2>1, <2>2, <2>3 DEF Handles
  <2>4. CASE u # t
    <3>1. u \in Claimants /\ pc'[u] = pc[u] /\ ~overtaken /\ (lock' = u <=> lock = u)
      BY <1>1, <2>1, <2>2, <2>4, ClaimantsAre DEF Handles
    <3>2. /\ pc[u] \in {"body", "nested"} => lock = Nobody /\ waiters = <<>>
          /\ lock = u => waiters = <<>>
          /\ AtEnd(waiters, u)
      BY <3>1 DEF Last
    <3>3. /\ AtEnd(waiters, u) => AtEnd(waiters', u)
          /\ waiters = <<>> => waiters' = <<>>
          /\ waiters = <<>> /\ lock = Nobody => lock' = Nobody
      BY <2>4, <3>1 DEF Handles
    <3> QED
      BY <3>1, <3>2, <3>3
  <2> QED
    BY <2>3, <2>4
<1> QED
  BY <1>2, <1>3

\* Entering a drain is such a step where nobody else owns the harness.
LEMMA DrainHandles ==
  ASSUME IInv, Waiting, NEW t \in Tasks, NEW d \in Draining, NEW q, NEW ph, Drain(t, d, q, ph),
         t \notin Elems(waiters), lock # t, \A u \in Claimants : u = t,
         d = "entry" => overtaken' = (overtaken \/ HandedOver), d # "entry" => overtaken' = overtaken
  PROVE  Handles(t)
<1>0. /\ pc \in [Tasks -> PCs] /\ waiters \in Seq(Tasks) /\ Apart(waiters) /\ lock \in Tasks \cup {Nobody}
      /\ t # Nobody
  BY RolesAssumption DEF IInv, TypeOK, Waiting, PCs
<1>a. ~(t \in Elems(waiters)) => AtEnd(waiters, t)
  BY DEF Elems, AtEnd
<1>p. pc' = [pc EXCEPT ![t] = After(d)] \/ pc' = [pc EXCEPT ![t] = d]
  BY DEF Drain
<1>q. \A u \in Tasks : u # t => pc'[u] = pc[u]
  BY <1>0, <1>p
<1>o. overtaken => overtaken'
  <2>1. CASE d = "entry"
    BY <2>1
  <2>2. CASE d # "entry"
    BY <2>2
  <2> QED
    BY <2>1, <2>2
<1>1. CASE /\ NothingToDrain(q) /\ pc' = [pc EXCEPT ![t] = After(d)] /\ UNCHANGED <<lock, waiters, batch, store>>
  <2>1. lock = Nobody /\ pc'[t] = After(d) /\ After(d) \notin Draining \cup {"hook"} /\ (After(d) = "body" <=> d = "entry")
        /\ (After(d) # "body" => After(d) = "done")
    BY <1>0, <1>1 DEF NothingToDrain, Locked, After, Draining
  <2>2. ~overtaken' /\ Claiming(t, pc'[t]) => waiters = <<>>
    BY <2>1 DEF Claiming, HandedOver
  <2> QED
    BY <1>0, <1>1, <1>a, <1>o, <1>q, <2>1, <2>2 DEF Handles
<1>2. CASE /\ ~Locked /\ waiters = <<>> /\ pc' = [pc EXCEPT ![t] = d] /\ lock' = t /\ UNCHANGED waiters
  <2>1. pc'[t] = d /\ d \notin {"body", "nested"} /\ d \in Draining
    BY <1>0, <1>2 DEF Draining
  <2> QED
    BY <1>0, <1>2, <1>a, <1>o, <1>q, <2>1 DEF Handles, Locked
<1>3. CASE /\ pc' = [pc EXCEPT ![t] = d] /\ waiters' = Append(waiters, t) /\ UNCHANGED <<lock, batch, store>>
  <2>1. pc'[t] = d /\ d \notin {"body", "nested"} /\ d \in Draining
    BY <1>0, <1>3 DEF Draining
  <2>2. Apart(waiters') /\ Elems(waiters') = Elems(waiters) \cup {t} /\ AtEnd(waiters', t)
    BY <1>0, <1>3, NewWaiter
  <2> QED
    BY <1>0, <1>3, <1>o, <1>q, <2>1, <2>2 DEF Handles
<1> QED
  BY <1>1, <1>2, <1>3 DEF Drain

\* The drain's loop is, for the holder of the lock and for the waiter it is handed to.
LEMMA LoopHandles ==
  ASSUME IInv, Waiting, Last, NEW t \in Tasks, NEW s, pc[t] \in Draining, DrainLoop(t, s), overtaken' = overtaken,
         \/ lock = t /\ waiters' = waiters
         \/ HandedOver /\ Head(waiters) = t /\ waiters' = Tail(waiters)
  PROVE  Handles(t)
<1>0. /\ pc \in [Tasks -> PCs] /\ waiters \in Seq(Tasks) /\ Apart(waiters) /\ lock \in {t, Nobody}
      /\ t # Nobody
  BY RolesAssumption DEF IInv, TypeOK, Waiting, PCs, HandedOver
<1>1. /\ Apart(waiters') /\ t \notin Elems(waiters')
      /\ \A u : u # t => (u \in Elems(waiters') <=> u \in Elems(waiters))
      /\ \A u : AtEnd(waiters, u) => AtEnd(waiters', u)
      /\ ~(waiters = <<>> /\ lock = Nobody)
      /\ waiters = <<>> => waiters' = <<>>
      /\ ~overtaken /\ t \in Claimants => waiters' = <<>>
  <2>1. CASE lock = t /\ waiters' = waiters
    <3>1. t \notin Elems(waiters)
      BY <2>1 DEF Waiting
    <3> QED
      BY <1>0, <2>1, <3>1 DEF Last
  <2>2. CASE HandedOver /\ Head(waiters) = t /\ waiters' = Tail(waiters)
    <3>1. waiters # <<>>
      BY <2>2 DEF HandedOver
    <3>2. /\ Apart(waiters') /\ Elems(waiters') = Elems(waiters) \ {t} /\ t \in Elems(waiters)
          /\ \A u : AtEnd(waiters, u) => AtEnd(waiters', u)
          /\ AtEnd(waiters, t) => waiters' = <<>>
      BY <1>0, <2>2, <3>1, OldestWakes
    <3> QED
      BY <3>1, <3>2 DEF Last
  <2> QED
    BY <2>1, <2>2
<1>2. AtEnd(waiters', t)
  BY <1>1 DEF AtEnd, Elems
<1>3. CASE pc' = pc /\ lock' = t
  <2>1. Claiming(t, pc'[t]) => t \in Claimants
    BY <1>3, ClaimantsAre
  <2>2. pc'[t] \notin {"body", "nested"}
    BY <1>3 DEF Draining
  <2> QED
    BY <1>0, <1>1, <1>2, <1>3, <2>1, <2>2 DEF Handles
<1>4. CASE lock' = Nobody /\ pc' = [pc EXCEPT ![t] = After(pc[t])]
  <2>1. /\ pc'[t] = After(pc[t]) /\ \A u \in Tasks : u # t => pc'[u] = pc[u]
        /\ After(pc[t]) \notin Draining
    BY <1>0, <1>4 DEF After, Draining
  <2>2. Claiming(t, pc'[t]) => t \in Claimants
    <3>1. Claiming(t, After(pc[t])) => pc[t] = "entry" /\ t \in Prompts \cup Compactors
      BY DEF Claiming, After
    <3> QED
      BY <2>1, <3>1, ClaimantsAre DEF Claiming
  <2> QED
    BY <1>0, <1>1, <1>2, <1>4, <2>1, <2>2 DEF Handles
<1> QED
  BY <1>3, <1>4 DEF DrainLoop

\* A step that leaves the lock and its waiters alone, outside every drain and every claim.
LEMMA AsideHandles ==
  ASSUME IInv, Waiting, Last, NEW t \in Tasks, UNCHANGED <<lock, waiters>>, overtaken' = overtaken,
         \A u \in Tasks : u # t => pc'[u] = pc[u],
         t \notin Elems(waiters), lock # t, pc'[t] \notin Draining,
         Claiming(t, pc'[t]) =>
           Claiming(t, pc[t]) /\ (pc[t] = pc'[t] \/ pc[t] \in {"body", "nested"})
  PROVE  Handles(t)
<1>0. Apart(waiters)
  BY DEF Waiting
<1>a. AtEnd(waiters, t)
  BY DEF Elems, AtEnd
<1>1. ~overtaken' /\ Claiming(t, pc'[t]) => (pc'[t] \in {"body", "nested"} => lock' = Nobody /\ waiters' = <<>>)
  BY ClaimantsAre DEF Last
<1> QED
  BY <1>0, <1>a, <1>1 DEF Handles

\* Every action of a caller is such a step.
LEMMA EveryStepHandles ==
  ASSUME IInv, Waiting, Last, Single, NEW t \in Tasks, Step(t) \/ Cancel(t)
  PROVE  Handles(t)
<1>0. /\ pc \in [Tasks -> PCs] /\ waiters \in Seq(Tasks) /\ Apart(waiters)
      /\ lock \in Tasks \cup {Nobody} /\ t # Nobody
      /\ RoleAt(t, pc[t])
      /\ Holdless(t, pc[t]) => batch[t] = <<>>
      /\ pc[t] \in Draining /\ batch[t] # <<>> => lock = t
      /\ t \in Elems(waiters) => t # lock /\ (pc[t] \in Draining \/ (pc[t] = "hook" /\ t \in Recorders))
      /\ lock = t => pc[t] \in Draining \/ (pc[t] = "direct" /\ t \in Recorders)
  BY Roles, RolesAssumption
     DEF IInv, TypeOK, PCs, Waiting, Empty, Holdless, Quiet, OneDrainAppends, Flushing
<1>r. /\ t \in Prompts => t \notin Setters \cup Recorders \cup Compactors \cup Disposers
      /\ t \in Compactors => t \notin Setters \cup Recorders \cup Disposers
      /\ t \in Setters => t \notin Recorders \cup Disposers
      /\ t \in Recorders => t \notin Disposers
  BY RolesAssumption
<1>c. /\ phase = "idle" <=> Claimants = {}
      /\ \A u, v \in Claimants : u = v
      /\ t \in Claimants <=> Claiming(t, pc[t])
  BY ClaimantsAre DEF IInv, OneClaim
<1>d. {"entry", "release", "setdrain", "closing"} = Draining
  BY DEF Draining
<1>e. t \notin Elems(waiters) => AtEnd(waiters, t)
  BY DEF Elems, AtEnd
<1>1. CASE Wake(t)
  <2>1. CASE pc[t] \in Draining /\ DrainLoop(t, store)
    BY <1>1, <2>1, LoopHandles DEF Wake
  <2>2. CASE /\ t \in Recorders
             /\ \/ lock' = t /\ pc' = [pc EXCEPT ![t] = "direct"]
                \/ lock' = lock /\ pc' = [pc EXCEPT ![t] = "done"]
    <3>1. /\ waiters # <<>> /\ lock = Nobody /\ Head(waiters) = t /\ waiters' = Tail(waiters)
          /\ overtaken' = overtaken
      BY <1>1 DEF Wake, HandedOver
    <3>2. /\ Apart(waiters') /\ Elems(waiters') = Elems(waiters) \ {t}
          /\ \A u : AtEnd(waiters, u) => AtEnd(waiters', u)
      BY <1>0, <3>1, OldestWakes
    <3>3. /\ pc'[t] \in {"direct", "done"} /\ \A u \in Tasks : u # t => pc'[u] = pc[u]
          /\ lock' = t => pc'[t] = "direct"
      BY <1>0, <2>2, <3>1
    <3>4. ~Claiming(t, pc'[t]) /\ pc'[t] \notin Draining
      BY <3>3 DEF Claiming, Draining
    <3> QED
      BY <1>0, <2>2, <3>1, <3>2, <3>3, <3>4 DEF Handles
  <2> QED
    BY <1>1, <2>1, <2>2 DEF Wake, AppendDirectly
<1>2. CASE Land(t) \/ Refuse(t)
  <2>1. Resume(t) /\ waiters' = waiters /\ overtaken' = overtaken /\ batch[t] # <<>>
    BY <1>2 DEF Land, Refuse, Appending, Flushing
  <2>2. CASE UNCHANGED <<pc, lock>>
    <3>1. Claiming(t, pc'[t]) => t \in Claimants
      BY <1>c, <2>2
    <3> QED
      BY <1>0, <2>1, <2>2, <3>1 DEF Handles, Waiting, Last
  <2>3. CASE pc[t] \in Draining /\ DrainLoop(t, WithoutAppend(store, t))
    BY <1>0, <2>1, <2>3, LoopHandles
  <2>4. CASE /\ pc[t] \in {"body", "direct"}
             /\ pc' = [pc EXCEPT ![t] = IF @ = "direct" THEN "done" ELSE @]
             /\ lock' = IF lock = t THEN Nobody ELSE lock
    <3>1. /\ \A u \in Tasks : u # t => pc'[u] = pc[u]
          /\ pc[t] = "body" => pc' = pc /\ lock' = lock
          /\ pc[t] = "direct" => pc'[t] = "done"
      BY <1>0, <1>d, <2>4
    <3>2. CASE pc[t] = "body"
      <4>1. Claiming(t, pc'[t]) => t \in Claimants
        BY <1>c, <3>1, <3>2
      <4> QED
        BY <1>0, <2>1, <3>1, <3>2, <4>1 DEF Handles, Waiting, Last
    <3>3. CASE pc[t] = "direct"
      <4>1. ~Claiming(t, pc'[t]) /\ pc'[t] \notin Draining /\ t \notin Elems(waiters)
        BY <1>0, <1>d, <3>1, <3>3 DEF Claiming
      <4> QED
        BY <1>0, <2>1, <2>4, <3>1, <4>1 DEF Handles
    <3> QED
      BY <2>4, <3>2, <3>3
  <2> QED
    BY <2>1, <2>2, <2>3, <2>4 DEF Resume
<1>3. CASE Prompt(t) \/ Compact(t)
  <2>1. t \notin Elems(waiters) /\ lock # t /\ Claimants = {} /\ "entry" \in Draining
    BY <1>0, <1>c, <1>d, <1>3 DEF Prompt, Compact
  <2> QED
    BY <1>3, <2>1, DrainHandles DEF Prompt, Compact, Overtakes
<1>4. CASE TurnFlush(t)
  <2>1. t \notin Elems(waiters) /\ lock # t /\ pc[t] \notin Draining /\ Claiming(t, pc[t])
    BY <1>0, <1>d, <1>4 DEF TurnFlush, Claiming
  <2> QED
    BY <1>4, <2>1, AsideHandles DEF TurnFlush
<1>5. CASE PromptCloses(t)
  <2>1. t \notin Elems(waiters) /\ lock # t /\ (\A u \in Claimants : u = t) /\ "release" \in Draining
    BY <1>0, <1>c, <1>d, <1>5 DEF PromptCloses, Claiming
  <2> QED
    BY <1>5, <2>1, DrainHandles DEF PromptCloses
<1>6. CASE SetCalled(t) \/ SetEnds(t)
  <2>1. /\ t \in Setters /\ pc[t] \in {"start", "hook"} /\ UNCHANGED <<lock, waiters, overtaken>>
        /\ pc' = [pc EXCEPT ![t] = "hook"] \/ pc' = [pc EXCEPT ![t] = "done"]
    BY <1>6 DEF SetCalled, SetEnds
  <2>2. /\ t \notin Elems(waiters) /\ lock # t /\ pc'[t] \notin Draining /\ ~Claiming(t, pc'[t])
        /\ \A u \in Tasks : u # t => pc'[u] = pc[u]
    BY <1>0, <1>r, <1>d, <2>1 DEF Claiming
  <2> QED
    BY <2>1, <2>2, AsideHandles
<1>7. CASE SetRecords(t)
  <2>0. t \notin Elems(waiters) /\ lock # t /\ overtaken' = overtaken
    BY <1>0, <1>r, <1>d, <1>7 DEF SetRecords
  <2>1. CASE /\ UNCHANGED <<lock, waiters>>
             /\ pc' = [pc EXCEPT ![t] = "direct"] \/ pc' = [pc EXCEPT ![t] = "done"]
    <3>1. /\ pc'[t] \notin Draining /\ ~Claiming(t, pc'[t])
          /\ \A u \in Tasks : u # t => pc'[u] = pc[u]
      BY <1>0, <1>d, <2>1 DEF Claiming
    <3> QED
      BY <2>0, <2>1, <3>1, AsideHandles
  <2>2. CASE phase = "idle" /\ Drain(t, "setdrain", Append(queue, issued + 1), phase)
    BY <1>c, <1>d, <2>0, <2>2, DrainHandles
  <2> QED
    BY <1>7, <2>1, <2>2 DEF SetRecords, AppendDirectly
<1>8. CASE IdleWrite(t)
  <2>0. /\ t \in Recorders /\ t \notin Elems(waiters) /\ lock # t /\ overtaken' = overtaken /\ Claimants = {}
        /\ ~Locked => lock = Nobody
    BY <1>0, <1>c, <1>d, <1>8 DEF IdleWrite, Locked
  <2>1. CASE /\ ~Locked /\ waiters = <<>> /\ lock' = t /\ pc' = [pc EXCEPT ![t] = "direct"] /\ UNCHANGED waiters
    BY <1>0, <2>0, <2>1 DEF Handles, Claiming, Draining
  <2>2. CASE waiters' = Append(waiters, t) /\ pc' = [pc EXCEPT ![t] = "hook"] /\ UNCHANGED lock
    <3>1. Apart(waiters') /\ Elems(waiters') = Elems(waiters) \cup {t}
      BY <1>0, <2>0, <2>2, NewWaiter
    <3> QED
      BY <1>0, <2>0, <2>2, <3>1 DEF Handles, Claiming, Draining
  <2> QED
    BY <1>8, <2>1, <2>2 DEF IdleWrite, AppendDirectly
<1>9. CASE CompactEnds(t)
  <2>1. /\ t \notin Elems(waiters) /\ lock # t /\ pc'[t] \notin Draining /\ ~Claiming(t, pc'[t])
        /\ \A u \in Tasks : u # t => pc'[u] = pc[u]
    BY <1>0, <1>r, <1>d, <1>9 DEF CompactEnds, Claiming
  <2> QED
    BY <1>9, <2>1, AsideHandles DEF CompactEnds
<1>10. CASE Dispose(t) \/ DisposeIdle(t)
  <2>0. t \in Disposers /\ t \notin Elems(waiters) /\ lock # t /\ overtaken' = overtaken
    BY <1>0, <1>d, <1>10 DEF Dispose, DisposeIdle
  <2>1. CASE pc' = [pc EXCEPT ![t] = "waitidle"] /\ UNCHANGED <<lock, waiters>>
    <3>1. /\ pc'[t] \notin Draining /\ ~Claiming(t, pc'[t])
          /\ \A u \in Tasks : u # t => pc'[u] = pc[u]
      BY <1>0, <1>d, <2>1 DEF Claiming
    <3> QED
      BY <2>0, <2>1, <3>1, AsideHandles
  <2>2. CASE phase = "idle" /\ Drain(t, "closing", queue, phase)
    BY <1>c, <1>d, <2>0, <2>2, DrainHandles
  <2> QED
    BY <1>10, <2>1, <2>2 DEF Dispose, DisposeIdle
<1>11. CASE CancelTurn(t)
  <2>1. t \notin Elems(waiters) /\ lock # t /\ pc[t] \notin Draining /\ Claiming(t, pc[t])
    BY <1>0, <1>d, <1>11 DEF CancelTurn, Claiming
  <2> QED
    BY <1>11, <2>1, AsideHandles DEF CancelTurn
<1>12. CASE CancelEntry(t)
  <2> DEFINE left == WithoutTask(waiters, t)
  <2>0. /\ Claiming(t, "release") /\ (\A u \in Claimants : u = t) /\ overtaken' = overtaken
    BY <1>c, <1>12 DEF CancelEntry, Claiming
  <2>1. left \in Seq(Tasks) /\ Apart(left) /\ Elems(left) = Elems(waiters) \ {t}
    BY <1>0, WithoutWaiter
  <2>2. CASE /\ lock \in {t, Nobody} /\ lock' = Nobody /\ waiters' = left /\ pc' = [pc EXCEPT ![t] = "done"]
    BY <1>0, <1>d, <2>0, <2>1, <2>2 DEF Handles, Claiming
  <2>3. CASE /\ lock \in {t, Nobody} /\ lock' = t /\ waiters' = left /\ left = <<>> /\ pc' = [pc EXCEPT ![t] = "release"]
    <3>1. pc'[t] = "release" /\ (\A u \in Tasks : u # t => pc'[u] = pc[u]) /\ AtEnd(waiters', t)
      BY <1>0, <2>3 DEF AtEnd
    <3> QED
      BY <1>0, <1>d, <2>0, <2>1, <2>3, <3>1 DEF Handles
  <2>4. CASE /\ lock' = IF lock \in {t, Nobody} THEN Nobody ELSE lock
             /\ waiters' = Append(left, t) /\ pc' = [pc EXCEPT ![t] = "release"]
    <3>1. pc'[t] = "release" /\ (\A u \in Tasks : u # t => pc'[u] = pc[u]) /\ lock' # t
      BY <1>0, <2>4
    <3>2. Apart(waiters') /\ Elems(waiters') = Elems(left) \cup {t} /\ AtEnd(waiters', t)
      BY <2>1, <2>4, NewWaiter
    <3> QED
      BY <1>0, <1>d, <2>0, <2>1, <2>4, <3>1, <3>2 DEF Handles
  <2> QED
    BY <1>12, <2>2, <2>3, <2>4 DEF CancelEntry
<1>13. CASE CancelCaller(t)
  <2>0. /\ overtaken' = overtaken /\ waiters' = WithoutTask(waiters, t)
        /\ lock' = (IF lock = t THEN Nobody ELSE lock)
        /\ pc' = [pc EXCEPT ![t] = "done"]
    BY <1>13 DEF CancelCaller, Unlocked
  <2>1. /\ Apart(waiters') /\ Elems(waiters') = Elems(waiters) \ {t}
        /\ \A u : AtEnd(waiters, u) => AtEnd(waiters', u)
        /\ waiters = <<>> => waiters' = <<>>
    BY <1>0, <2>0, WithoutWaiter
  <2>2. pc'[t] = "done" /\ (\A u \in Tasks : u # t => pc'[u] = pc[u]) /\ ~Claiming(t, pc'[t])
    BY <1>0, <2>0 DEF Claiming
  <2> QED
    BY <1>0, <1>d, <2>0, <2>1, <2>2 DEF Handles
<1>14. CASE PromptCompacts(t) \/ PromptCompacted(t)
  <2>1. /\ t \notin Elems(waiters) /\ lock # t /\ pc'[t] \notin Draining
        /\ Claiming(t, pc[t]) /\ pc[t] \in {"body", "nested"}
        /\ \A u \in Tasks : u # t => pc'[u] = pc[u]
    BY <1>0, <1>r, <1>d, <1>14 DEF PromptCompacts, PromptCompacted, Claiming
  <2> QED
    BY <1>14, <2>1, AsideHandles DEF PromptCompacts, PromptCompacted
<1> QED
  BY <1>1, <1>2, <1>3, <1>4, <1>5, <1>6, <1>7, <1>8, <1>9, <1>10, <1>11, <1>12, <1>13, <1>14
     DEF Step, Cancel

-----------------------------------------------------------------------------
\* The order of the records, where they are: the session's before what is being appended, in the
\* order of the appends, before the queue; and nothing is appended behind a flush of several.
OrderedIn(q, b, s, l) ==
  /\ s \in Seq(Append1) /\ Once(s)
  /\ \A t \in Tasks : b[t] # <<>> <=> In(s, t)
  /\ Sorted(q) /\ Sorted(l) /\ \A t \in Tasks : Sorted(b[t])
  /\ Before(Elems(l), Elems(q))
  /\ \A t \in Tasks : Before(Elems(l), Own(b[t])) /\ Before(Own(b[t]), Elems(q))
  /\ \A t, u \in Tasks : Ahead(s, t, u) =>
       Before(Own(b[t]), Own(b[u])) /\ (Len(b[t]) > 1 => Own(b[u]) = {})
Ordered == ~overtaken => OrderedIn(queue, batch, store, log)

\* No batch but that of t is a flush of several.
Alone(b, t) == \A u \in Tasks : u # t => Len(b[u]) <= 1

\* A cut append, or the last of a flush: what is left of the batch is ahead of the queue.
LEMMA CutOrder ==
  ASSUME NEW q, NEW b, NEW s, NEW l, NEW d, NEW n, PlacedIn(q, b, l, d, n), OrderedIn(q, b, s, l),
         NEW t \in Tasks, b[t] # <<>>
  PROVE  LET w == Head(b[t])
             z == Tail(b[t]) \o q
             c == [b EXCEPT ![t] = <<>>]
             m == WithoutAppend(s, t)
         IN /\ OrderedIn(z, c, m, l)
            /\ Head(s).task = t /\ w # Record => OrderedIn(z, c, m, Append(l, w))
<1> DEFINE w == Head(b[t])
           z == Tail(b[t]) \o q
           c == [b EXCEPT ![t] = <<>>]
           m == WithoutAppend(s, t)
<1>1. /\ q \in Seq(Nat) /\ l \in Seq(Nat) /\ Elems(q) \subseteq Writes /\ Elems(l) \subseteq Writes
      /\ b \in [Tasks -> Seq(Writes) \cup {<<Record>>}]
  BY WritesAreNat DEF PlacedIn
<1>2. /\ s \in Seq(Append1) /\ Once(s)
      /\ \A u \in Tasks : b[u] # <<>> <=> In(s, u)
      /\ Sorted(q) /\ Sorted(l) /\ \A u \in Tasks : Sorted(b[u])
      /\ Before(Elems(l), Elems(q))
      /\ \A u \in Tasks : Before(Elems(l), Own(b[u])) /\ Before(Own(b[u]), Elems(q))
  BY DEF OrderedIn
<1>a. \A u, v \in Tasks : Ahead(s, u, v) =>
        Before(Own(b[u]), Own(b[v])) /\ (Len(b[u]) > 1 => Own(b[v]) = {})
  BY DEF OrderedIn
<1>3. /\ b[t] \in Seq(Nat) /\ Tail(b[t]) \in Seq(Nat) /\ w \in Writes \cup {Record}
      /\ Own(b[t]) = ({w} \ {Record}) \cup Elems(Tail(b[t]))
      /\ Tail(b[t]) # <<>> => Len(b[t]) > 1
      /\ Sorted(Tail(b[t])) /\ Before({w}, Elems(Tail(b[t])))
      /\ (w = Record => Tail(b[t]) = <<>>)
  <2>1. b[t] \in Seq(Writes) \cup {<<Record>>}
    BY <1>1
  <2>2. /\ b[t] \in Seq(Nat) /\ Tail(b[t]) \in Seq(Writes) /\ w \in Writes \cup {Record}
        /\ Own(b[t]) = ({w} \ {Record}) \cup Elems(Tail(b[t]))
        /\ Tail(b[t]) # <<>> => Len(b[t]) > 1
        /\ (w = Record => Tail(b[t]) = <<>>)
    BY <2>1, BatchIs
  <2>3. Tail(b[t]) \in Seq(Nat)
    BY <2>2, WritesAreNat
  <2>4. Sorted(Tail(b[t])) /\ Before({w}, Elems(Tail(b[t])))
    BY <1>2, <2>2, TailElems
  <2> QED
    BY <2>2, <2>3, <2>4
<1>e. Elems(<<>>) = {} /\ Own(<<>>) = {} /\ Sorted(<<>>) /\ Len(<<>>) = 0
  BY WritesAreNat, ShortElems DEF Own
<1>c. c[t] = <<>> /\ \A u \in Tasks : u # t => c[u] = b[u]
  BY <1>1
<1>m. /\ m \in Seq(Append1) /\ Once(m) /\ \A u : In(m, u) <=> In(s, u) /\ u # t
      /\ \A u, v : Ahead(m, u, v) => Ahead(s, u, v) /\ u # t /\ v # t
  BY <1>2, AppendOver
<1> HIDE DEF w, c, m
<1>z. /\ z \in Seq(Nat) /\ Elems(z) = Elems(Tail(b[t])) \cup Elems(q) /\ Sorted(z)
  <2>1. Before(Elems(Tail(b[t])), Elems(q))
    BY <1>2, <1>3 DEF Before
  <2> QED
    BY <1>1, <1>2, <1>3, <2>1, JoinElems
<1>o. ASSUME NEW u \in Tasks PROVE Before(Own(c[u]), Elems(z)) /\ Sorted(c[u])
  <2>1. CASE u = t
    BY <1>c, <1>e, <2>1 DEF Before
  <2>2. CASE u # t /\ b[u] = <<>>
    BY <1>c, <1>e, <2>2 DEF Before
  <2>3. CASE u # t /\ b[u] # <<>> /\ Tail(b[t]) = <<>>
    <3>1. Elems(z) = Elems(q)
      BY <1>e, <1>z, <2>3
    <3> QED
      BY <1>2, <1>c, <2>3, <3>1
  <2>4. CASE u # t /\ b[u] # <<>> /\ Tail(b[t]) # <<>>
    <3>1. Ahead(s, t, u) \/ Ahead(s, u, t)
      BY <1>2, <2>4, OneIsAhead
    <3>2. CASE Ahead(s, t, u)
      <4>1. Own(b[u]) = {}
        BY <1>3, <1>a, <2>4, <3>2
      <4> QED
        BY <1>2, <1>c, <2>4, <4>1 DEF Before
    <3>3. CASE Ahead(s, u, t)
      <4>1. Before(Own(b[u]), Own(b[t])) /\ Before(Own(b[u]), Elems(q))
        BY <1>2, <1>a, <3>3
      <4> QED
        BY <1>2, <1>3, <1>c, <1>z, <2>4, <4>1 DEF Before
    <3> QED
      BY <3>1, <3>2, <3>3
  <2> QED
    BY <2>1, <2>2, <2>3, <2>4
<1>h. ASSUME NEW u \in Tasks, NEW v \in Tasks, Ahead(m, u, v)
      PROVE  Before(Own(c[u]), Own(c[v])) /\ (Len(c[u]) > 1 => Own(c[v]) = {})
  BY <1>a, <1>c, <1>m, <1>h
<1>i. ASSUME NEW u \in Tasks PROVE c[u] # <<>> <=> In(m, u)
  BY <1>2, <1>c, <1>m
<1>l. /\ Before(Elems(l), Elems(z))
      /\ \A u \in Tasks : Before(Elems(l), Own(c[u]))
  <2>1. Before(Elems(l), Elems(z))
    BY <1>2, <1>3, <1>z DEF Before
  <2>2. ASSUME NEW u \in Tasks PROVE Before(Elems(l), Own(c[u]))
    <3>1. CASE u = t
      BY <1>c, <1>e, <3>1 DEF Before
    <3>2. CASE u # t
      BY <1>2, <1>c, <3>2
    <3> QED
      BY <3>1, <3>2
  <2> QED
    BY <2>1, <2>2
<1> HIDE DEF z
<1>4. OrderedIn(z, c, m, l)
  BY <1>2, <1>m, <1>z, <1>o, <1>h, <1>i, <1>l DEF OrderedIn
<1>5. ASSUME Head(s).task = t, w # Record PROVE OrderedIn(z, c, m, Append(l, w))
  <2>1. w \in Nat /\ w \in Own(b[t])
    BY <1>3, <1>5, WritesAreNat
  <2>2. Elems(Append(l, w)) = Elems(l) \cup {w} /\ Sorted(Append(l, w))
    <3>1. Before(Elems(l), {w})
      BY <1>2, <2>1 DEF Before
    <3> QED
      BY <1>1, <1>2, <2>1, <3>1, AppendElems
  <2>3. Before({w}, Elems(z))
    BY <1>2, <1>3, <1>z, <2>1 DEF Before
  <2>4. ASSUME NEW u \in Tasks PROVE Before({w}, Own(c[u]))
    <3>1. CASE u = t \/ b[u] = <<>>
      BY <1>c, <1>e, <3>1 DEF Before
    <3>2. CASE u # t /\ b[u] # <<>>
      <4>0. In(s, u) /\ s # <<>>
        BY <1>2, <3>2 DEF In
      <4>1. Ahead(s, t, u)
        BY <1>2, <1>5, <3>2, <4>0, FirstIsAhead
      <4>2. Before(Own(b[t]), Own(b[u]))
        BY <1>a, <4>1
      <4> QED
        BY <1>c, <2>1, <3>2, <4>2 DEF Before
    <3> QED
      BY <3>1, <3>2
  <2>5. Before(Elems(Append(l, w)), Elems(z)) /\ \A u \in Tasks : Before(Elems(Append(l, w)), Own(c[u]))
    BY <1>l, <2>2, <2>3, <2>4 DEF Before
  <2> QED
    BY <1>2, <1>m, <1>z, <1>o, <1>h, <1>i, <2>2, <2>5 DEF OrderedIn
<1> QED
  BY <1>4, <1>5 DEF w, z, c, m

\* The next append of a flush follows, behind those of others.
LEMMA NextOrder ==
  ASSUME NEW q, NEW b, NEW s, NEW l, NEW d, NEW n, PlacedIn(q, b, l, d, n), OrderedIn(q, b, s, l),
         NEW t \in Tasks, b[t] # <<>>, Tail(b[t]) # <<>>, Head(s).task = t
  PROVE  LET w == Head(b[t])
             c == [b EXCEPT ![t] = Tail(b[t])]
             m == Append(WithoutAppend(s, t), [task |-> t, write |-> Head(Tail(b[t]))])
         IN OrderedIn(q, c, m, l) /\ OrderedIn(q, c, m, Append(l, w))
<1> DEFINE w == Head(b[t])
           r == Tail(b[t])
           c == [b EXCEPT ![t] = r]
           m == WithoutAppend(s, t)
           x == Append(m, [task |-> t, write |-> Head(r)])
<1>1. /\ q \in Seq(Nat) /\ l \in Seq(Nat)
      /\ b \in [Tasks -> Seq(Writes) \cup {<<Record>>}]
  BY WritesAreNat DEF PlacedIn
<1>2. /\ s \in Seq(Append1) /\ Once(s)
      /\ \A u \in Tasks : b[u] # <<>> <=> In(s, u)
      /\ Sorted(q) /\ Sorted(l) /\ \A u \in Tasks : Sorted(b[u])
      /\ Before(Elems(l), Elems(q))
      /\ \A u \in Tasks : Before(Elems(l), Own(b[u])) /\ Before(Own(b[u]), Elems(q))
  BY DEF OrderedIn
<1>a. \A u, v \in Tasks : Ahead(s, u, v) =>
        Before(Own(b[u]), Own(b[v])) /\ (Len(b[u]) > 1 => Own(b[v]) = {})
  BY DEF OrderedIn
<1>3. /\ b[t] \in Seq(Nat) /\ r \in Seq(Writes) /\ Own(r) = Elems(r) /\ w \in Writes /\ Head(r) \in Writes /\ w \in Nat
      /\ Own(b[t]) = {w} \cup Elems(r) /\ Len(b[t]) > 1
      /\ Sorted(r) /\ Before({w}, Elems(r))
  <2>1. b[t] \in Seq(Writes) \cup {<<Record>>}
    BY <1>1
  <2>2. /\ b[t] \in Seq(Nat) /\ Tail(b[t]) \in Seq(Writes) /\ Own(Tail(b[t])) = Elems(Tail(b[t]))
        /\ Own(b[t]) = ({w} \ {Record}) \cup Elems(Tail(b[t]))
        /\ Len(b[t]) > 1 /\ w \in Writes
    BY <2>1, BatchIs
  <2>3. Sorted(Tail(b[t])) /\ Before({w}, Elems(Tail(b[t])))
    BY <1>2, <2>2, TailElems
  <2>4. w # Record /\ w \in Nat
    BY <2>2, WritesAreNat
  <2>5. Head(r) \in Writes
    BY <2>2, HeadTailProperties
  <2> QED
    BY <2>2, <2>3, <2>4, <2>5
<1>c. c[t] = r /\ \A u \in Tasks : u # t => c[u] = b[u]
  BY <1>1
<1>m. /\ m \in Seq(Append1) /\ Once(m) /\ \A u : In(m, u) <=> In(s, u) /\ u # t
      /\ \A u, v : Ahead(m, u, v) => Ahead(s, u, v) /\ u # t /\ v # t
  BY <1>2, AppendOver
<1> HIDE DEF m
<1>x. /\ x \in Seq(Append1) /\ Once(x) /\ \A u : In(x, u) <=> In(s, u) \/ u = t
      /\ \A u, v : Ahead(x, u, v) => (Ahead(s, u, v) /\ u # t /\ v # t) \/ (In(s, u) /\ u # t /\ v = t)
  <2>0. ~In(m, t) /\ Head(r) \in Writes \cup {Record}
    BY <1>3, <1>m
  <2>1. /\ Once(x) /\ x \in Seq(Append1) /\ \A u : In(x, u) <=> In(m, u) \/ u = t
        /\ \A u, v : Ahead(x, u, v) => Ahead(m, u, v) \/ (In(m, u) /\ u # t /\ v = t)
    BY <1>m, <2>0, AppendBegins
  <2> QED
    BY <1>m, <2>1
<1> HIDE DEF x, w, r, c
<1>f. ASSUME NEW u \in Tasks, u # t, b[u] # <<>> PROVE Own(b[u]) = {}
  <2>1. In(s, u) /\ s # <<>>
    BY <1>2, <1>f DEF In
  <2>2. Ahead(s, t, u)
    BY <1>2, <1>f, <2>1, FirstIsAhead
  <2> QED
    BY <1>3, <1>a, <2>2
<1>e. Own(<<>>) = {}
  BY WritesAreNat, ShortElems DEF Own
<1>g. \A u \in Tasks : u # t => Own(c[u]) = {}
  BY <1>c, <1>e, <1>f
<1>h. ASSUME NEW u \in Tasks, NEW v \in Tasks, Ahead(x, u, v)
      PROVE  Before(Own(c[u]), Own(c[v])) /\ (Len(c[u]) > 1 => Own(c[v]) = {})
  <2>1. CASE Ahead(s, u, v) /\ u # t /\ v # t
    BY <1>a, <1>c, <2>1
  <2>2. CASE In(s, u) /\ u # t /\ v = t
    <3>1. b[u] # <<>> /\ Own(c[u]) = {}
      BY <1>2, <1>g, <2>2
    <3>2. Len(c[u]) <= 1
      <4>1. Len(b[u]) > 1 => Own(b[u]) # {}
        <5>1. b[u] \in Seq(Writes) \cup {<<Record>>}
          BY <1>1
        <5>2. /\ Own(b[u]) = ({Head(b[u])} \ {Record}) \cup Elems(Tail(b[u])) /\ Tail(b[u]) \in Seq(Writes)
              /\ Head(b[u]) \in Writes \cup {Record} /\ (Head(b[u]) = Record => Tail(b[u]) = <<>>)
              /\ (Tail(b[u]) # <<>> <=> Len(b[u]) > 1)
          BY <3>1, <5>1, BatchIs
        <5> QED
          BY <5>2
      <4>2. Len(b[u]) \in Nat
        <5>1. b[u] \in Seq(Writes) \cup {<<Record>>}
          BY <1>1
        <5>2. b[u] \in Seq(Nat)
          BY <5>1, BatchIs
        <5> QED
          BY <5>2, LenProperties
      <4> QED
        BY <1>c, <2>2, <3>1, <4>1, <4>2
    <3>3. ~(Len(c[u]) > 1)
      <4>1. Len(c[u]) \in Nat
        <5>1. b[u] \in Seq(Writes) \cup {<<Record>>}
          BY <1>1
        <5>2. b[u] \in Seq(Nat)
          BY <5>1, BatchIs
        <5> QED
          BY <1>c, <2>2, <5>2, LenProperties
      <4> QED
        BY <3>2, <4>1
    <3> QED
      BY <3>1, <3>3 DEF Before
  <2> QED
    BY <1>x, <1>h, <2>1, <2>2
<1>i. ASSUME NEW u \in Tasks PROVE c[u] # <<>> <=> In(x, u)
  <2>1. r # <<>>
    BY DEF r
  <2> QED
    BY <1>2, <1>c, <1>x, <2>1
<1>o. ASSUME NEW u \in Tasks PROVE Before(Own(c[u]), Elems(q)) /\ Sorted(c[u])
  <2>1. CASE u = t
    BY <1>2, <1>3, <1>c, <2>1 DEF Before
  <2>2. CASE u # t
    BY <1>2, <1>c, <2>2
  <2> QED
    BY <2>1, <2>2
<1>l. ASSUME NEW u \in Tasks PROVE Before(Elems(l), Own(c[u])) /\ Before({w}, Own(c[u]))
  <2>1. CASE u = t
    BY <1>2, <1>3, <1>c, <2>1 DEF Before
  <2>2. CASE u # t
    BY <1>2, <1>c, <1>g, <2>2 DEF Before
  <2> QED
    BY <2>1, <2>2
<1>4. OrderedIn(q, c, x, l)
  BY <1>2, <1>x, <1>o, <1>h, <1>i, <1>l DEF OrderedIn
<1>5. OrderedIn(q, c, x, Append(l, w))
  <2>1. w \in Own(b[t])
    BY <1>3
  <2>2. Elems(Append(l, w)) = Elems(l) \cup {w} /\ Sorted(Append(l, w))
    <3>1. Before(Elems(l), {w})
      BY <1>2, <2>1 DEF Before
    <3> QED
      BY <1>1, <1>2, <1>3, <3>1, AppendElems
  <2>5. Before(Elems(Append(l, w)), Elems(q)) /\ \A u \in Tasks : Before(Elems(Append(l, w)), Own(c[u]))
    BY <1>2, <1>l, <2>1, <2>2 DEF Before
  <2> QED
    BY <1>2, <1>x, <1>o, <1>h, <1>i, <2>2, <2>5 DEF OrderedIn
<1> QED
  BY <1>4, <1>5 DEF w, r, c, m, x

\* A flush detaches the queue where no other is under way.
LEMMA DetachOrder ==
  ASSUME NEW q, NEW b, NEW s, NEW l, NEW d, NEW n, PlacedIn(q, b, l, d, n), OrderedIn(q, b, s, l),
         NEW t \in Tasks, b[t] = <<>>, q # <<>>, Alone(b, t)
  PROVE  OrderedIn(<<>>, [b EXCEPT ![t] = q], Append(s, [task |-> t, write |-> Head(q)]), l)
<1> DEFINE c == [b EXCEPT ![t] = q]
           x == Append(s, [task |-> t, write |-> Head(q)])
<1>1. /\ q \in Seq(Writes) /\ q \in Seq(Nat) /\ l \in Seq(Nat) /\ Head(q) \in Writes
      /\ b \in [Tasks -> Seq(Writes) \cup {<<Record>>}] /\ Own(q) = Elems(q)
  <2>1. /\ q \in Seq(Writes) /\ b \in [Tasks -> Seq(Writes) \cup {<<Record>>}]
        /\ q \in Seq(Nat) /\ l \in Seq(Nat)
    BY WritesAreNat DEF PlacedIn
  <2> QED
    BY <2>1, BatchIs, HeadTailProperties
<1>2. /\ s \in Seq(Append1) /\ Once(s)
      /\ \A u \in Tasks : b[u] # <<>> <=> In(s, u)
      /\ Sorted(q) /\ Sorted(l) /\ \A u \in Tasks : Sorted(b[u])
      /\ Before(Elems(l), Elems(q))
      /\ \A u \in Tasks : Before(Elems(l), Own(b[u])) /\ Before(Own(b[u]), Elems(q))
  BY DEF OrderedIn
<1>a. \A u, v \in Tasks : Ahead(s, u, v) =>
        Before(Own(b[u]), Own(b[v])) /\ (Len(b[u]) > 1 => Own(b[v]) = {})
  BY DEF OrderedIn
<1>e. Elems(<<>>) = {} /\ Own(<<>>) = {} /\ Sorted(<<>>)
  BY WritesAreNat, ShortElems DEF Own
<1>c. c[t] = q /\ \A u \in Tasks : u # t => c[u] = b[u]
  BY <1>1
<1>x. /\ x \in Seq(Append1) /\ Once(x) /\ \A u : In(x, u) <=> In(s, u) \/ u = t
      /\ \A u, v : Ahead(x, u, v) => Ahead(s, u, v) \/ (In(s, u) /\ u # t /\ v = t)
      /\ ~In(s, t)
  <2>1. ~In(s, t)
    BY <1>2
  <2> QED
    BY <1>1, <1>2, <2>1, AppendBegins
<1> HIDE DEF x, c
<1>n. \A u, v : Ahead(s, u, v) => In(s, u) /\ In(s, v)
  BY DEF Ahead, In
<1>s. ASSUME NEW u \in Tasks, u # t PROVE ~(Len(c[u]) > 1)
  <2>1. b[u] \in Seq(Writes) \cup {<<Record>>}
    BY <1>1
  <2>2. Len(b[u]) \in Nat
    BY <2>1, BatchIs, LenProperties
  <2> QED
    BY <1>c, <1>s, <2>2 DEF Alone
<1>h. ASSUME NEW u \in Tasks, NEW v \in Tasks, Ahead(x, u, v)
      PROVE  Before(Own(c[u]), Own(c[v])) /\ (Len(c[u]) > 1 => Own(c[v]) = {})
  <2>1. CASE Ahead(s, u, v)
    <3>1. u # t /\ v # t
      BY <1>n, <1>x, <2>1
    <3> QED
      BY <1>a, <1>c, <2>1, <3>1
  <2>2. CASE In(s, u) /\ u # t /\ v = t
    BY <1>1, <1>2, <1>c, <1>s, <2>2
  <2> QED
    BY <1>x, <1>h, <2>1, <2>2
<1>i. ASSUME NEW u \in Tasks PROVE c[u] # <<>> <=> In(x, u)
  BY <1>2, <1>c, <1>x
<1>o. ASSUME NEW u \in Tasks
      PROVE  Before(Own(c[u]), Elems(<<>>)) /\ Sorted(c[u]) /\ Before(Elems(l), Own(c[u]))
  <2>1. Before(Own(c[u]), Elems(<<>>))
    BY <1>e DEF Before
  <2>2. CASE u = t
    BY <1>1, <1>2, <1>c, <2>1, <2>2
  <2>3. CASE u # t
    BY <1>2, <1>c, <2>1, <2>3
  <2> QED
    BY <2>2, <2>3
<1>l. Before(Elems(l), Elems(<<>>))
  BY <1>e DEF Before
<1>4. OrderedIn(<<>>, c, x, l)
  BY <1>2, <1>e, <1>x, <1>o, <1>h, <1>i, <1>l DEF OrderedIn
<1> QED
  BY <1>4 DEF c, x

\* A write is queued behind all others.
LEMMA QueuedOrder ==
  ASSUME NEW q, NEW b, NEW s, NEW l, NEW d, NEW n, PlacedIn(q, b, l, d, n), OrderedIn(q, b, s, l),
         n < MaxWrites
  PROVE  OrderedIn(Append(q, n + 1), b, s, l)
<1>1. /\ q \in Seq(Nat) /\ Elems(q) \subseteq Writes /\ Elems(l) \subseteq Writes /\ n \in Nat /\ n + 1 \in Nat
      /\ Writes \subseteq Nat /\ b \in [Tasks -> Seq(Writes) \cup {<<Record>>}]
  BY WritesAreNat DEF PlacedIn
<1>2. \A u \in Tasks : Own(b[u]) \subseteq Writes
  <2>1. \A u \in Tasks : b[u] \in Seq(Writes) \cup {<<Record>>}
    BY <1>1
  <2> QED
    BY <2>1, BatchIs
<1>3. \A w \in Writes : w \in Elems(q) \cup Elems(l) \/ (\E u \in Tasks : w \in Own(b[u])) => w <= n
  BY DEF PlacedIn
<1>4. \A w \in Writes : w <= n => w < n + 1
  BY <1>1
<1>5. /\ Before(Elems(q), {n + 1}) /\ Before(Elems(l), {n + 1})
      /\ \A u \in Tasks : Before(Own(b[u]), {n + 1})
  BY <1>1, <1>2, <1>3, <1>4 DEF Before
<1>6. Elems(Append(q, n + 1)) = Elems(q) \cup {n + 1} /\ (Sorted(q) => Sorted(Append(q, n + 1)))
  BY <1>1, <1>5, AppendElems
<1>7. Sorted(Append(q, n + 1)) /\ Before(Elems(l), Elems(Append(q, n + 1)))
  BY <1>5, <1>6 DEF OrderedIn, Before
<1>8. \A u \in Tasks : Before(Own(b[u]), Elems(Append(q, n + 1)))
  BY <1>5, <1>6 DEF OrderedIn, Before
<1> QED
  BY <1>7, <1>8 DEF OrderedIn

\* One record is appended at once: a setter's, with nothing older and no flush under way; or
\* that of an idle_write().
LEMMA DirectOrder ==
  ASSUME NEW q, NEW b, NEW s, NEW l, NEW d, NEW n, PlacedIn(q, b, l, d, n), OrderedIn(q, b, s, l),
         NEW t \in Tasks, b[t] = <<>>, NEW w \in Writes \cup {Record},
         w # Record => w = n + 1 /\ n < MaxWrites /\ q = <<>> /\ Alone(b, t)
  PROVE  OrderedIn(q, [b EXCEPT ![t] = <<w>>], Append(s, [task |-> t, write |-> w]), l)
<1> DEFINE c == [b EXCEPT ![t] = <<w>>]
           x == Append(s, [task |-> t, write |-> w])
<1>1. /\ q \in Seq(Nat) /\ Elems(q) \subseteq Writes /\ Elems(l) \subseteq Writes /\ n \in Nat
      /\ Writes \subseteq Nat \ {Record} /\ Record \in Nat /\ w \in Nat
      /\ b \in [Tasks -> Seq(Writes) \cup {<<Record>>}]
  BY WritesAreNat DEF PlacedIn
<1>2. /\ s \in Seq(Append1) /\ Once(s)
      /\ \A u \in Tasks : b[u] # <<>> <=> In(s, u)
      /\ Sorted(q) /\ Sorted(l) /\ \A u \in Tasks : Sorted(b[u])
      /\ Before(Elems(l), Elems(q))
      /\ \A u \in Tasks : Before(Elems(l), Own(b[u])) /\ Before(Own(b[u]), Elems(q))
  BY DEF OrderedIn
<1>a. \A u, v \in Tasks : Ahead(s, u, v) =>
        Before(Own(b[u]), Own(b[v])) /\ (Len(b[u]) > 1 => Own(b[v]) = {})
  BY DEF OrderedIn
<1>e. /\ Elems(<<>>) = {} /\ Own(<<w>>) = {w} \ {Record} /\ Sorted(<<w>>) /\ Len(<<w>>) = 1 /\ <<w>> # <<>>
  BY <1>1, ShortElems DEF Own
<1>3. \A u \in Tasks : Own(b[u]) \subseteq Writes
  <2>1. \A u \in Tasks : b[u] \in Seq(Writes) \cup {<<Record>>}
    BY <1>1
  <2> QED
    BY <2>1, BatchIs
<1>4. \A v \in Writes : v \in Elems(q) \cup Elems(l) \/ (\E u \in Tasks : v \in Own(b[u])) => v <= n
  BY DEF PlacedIn
<1>5. \A v \in Writes : v <= n => v < n + 1
  BY <1>1
<1>6. w # Record => Before(Elems(l), {w}) /\ \A u \in Tasks : Before(Own(b[u]), {w})
  BY <1>1, <1>3, <1>4, <1>5 DEF Before
<1>c. c[t] = <<w>> /\ \A u \in Tasks : u # t => c[u] = b[u]
  BY <1>1
<1>x. /\ x \in Seq(Append1) /\ Once(x) /\ \A u : In(x, u) <=> In(s, u) \/ u = t
      /\ \A u, v : Ahead(x, u, v) => Ahead(s, u, v) \/ (In(s, u) /\ u # t /\ v = t)
      /\ ~In(s, t)
  <2>1. ~In(s, t)
    BY <1>2
  <2> QED
    BY <1>1, <1>2, <2>1, AppendBegins
<1> HIDE DEF x, c
<1>n. \A u, v : Ahead(s, u, v) => In(s, u) /\ In(s, v)
  BY DEF Ahead, In
<1>s. ASSUME NEW u \in Tasks, u # t, w # Record PROVE ~(Len(c[u]) > 1)
  <2>1. b[u] \in Seq(Writes) \cup {<<Record>>}
    BY <1>1
  <2>2. Len(b[u]) \in Nat
    BY <2>1, BatchIs, LenProperties
  <2> QED
    BY <1>c, <1>s, <2>2 DEF Alone
<1>h. ASSUME NEW u \in Tasks, NEW v \in Tasks, Ahead(x, u, v)
      PROVE  Before(Own(c[u]), Own(c[v])) /\ (Len(c[u]) > 1 => Own(c[v]) = {})
  <2>1. CASE Ahead(s, u, v)
    <3>1. u # t /\ v # t
      BY <1>n, <1>x, <2>1
    <3> QED
      BY <1>a, <1>c, <2>1, <3>1
  <2>2. CASE In(s, u) /\ u # t /\ v = t /\ w # Record
    <3>1. Own(c[v]) = {w}
      BY <1>c, <1>e, <2>2
    <3> QED
      BY <1>6, <1>c, <1>s, <2>2, <3>1
  <2>3. CASE In(s, u) /\ u # t /\ v = t /\ w = Record
    <3>1. Own(c[v]) = {}
      BY <1>c, <1>e, <2>3
    <3> QED
      BY <3>1 DEF Before
  <2> QED
    BY <1>x, <1>h, <2>1, <2>2, <2>3
<1>i. ASSUME NEW u \in Tasks PROVE c[u] # <<>> <=> In(x, u)
  BY <1>2, <1>c, <1>e, <1>x
<1>o. ASSUME NEW u \in Tasks
      PROVE  Before(Own(c[u]), Elems(q)) /\ Sorted(c[u]) /\ Before(Elems(l), Own(c[u]))
  <2>2. CASE u = t
    <3>1. Own(c[u]) = {w} \ {Record} /\ Sorted(c[u])
      BY <1>c, <1>e, <2>2
    <3>2. CASE w = Record
      BY <3>1, <3>2 DEF Before
    <3>3. CASE w # Record
      <4>1. Elems(q) = {} /\ Own(c[u]) = {w}
        BY <1>e, <3>1, <3>3
      <4> QED
        BY <1>6, <3>1, <3>3, <4>1 DEF Before
    <3> QED
      BY <3>2, <3>3
  <2>3. CASE u # t
    BY <1>2, <1>c, <2>3
  <2> QED
    BY <2>2, <2>3
<1>7. OrderedIn(q, c, x, l)
  BY <1>2, <1>x, <1>o, <1>h, <1>i DEF OrderedIn
<1> QED
  BY <1>7 DEF c, x

-----------------------------------------------------------------------------
\* Where the lock is t's or free, and no other is in the body of a prompt, nobody else is in a
\* flush of several.
LEMMA AloneThere ==
  ASSUME IInv, Single, NEW t \in Tasks, lock \in {t, Nobody}, \A u \in Claimants : u # t => pc[u] # "body"
  PROVE  Alone(batch, t)
<1> SUFFICES ASSUME NEW u \in Tasks, u # t PROVE Len(batch[u]) <= 1
  BY DEF Alone
<1>0. /\ pc[u] \in PCs /\ RoleAt(u, pc[u]) /\ u # Nobody
      /\ Holdless(u, pc[u]) => batch[u] = <<>>
      /\ pc[u] \in Draining /\ batch[u] # <<>> => lock = u
      /\ pc[u] = "direct" => Len(batch[u]) <= 1
  BY Roles, RolesAssumption
     DEF IInv, TypeOK, PCs, Empty, Holdless, Quiet, OneDrainAppends, Flushing, Single
<1>1. batch[u] = <<>> => Len(batch[u]) <= 1
  BY ShortElems, WritesAreNat
<1>2. CASE pc[u] \in Draining
  BY <1>0, <1>1, <1>2
<1>3. CASE pc[u] = "body"
  <2>1. u \in Compactors
    BY <1>0, <1>3, ClaimantsAre DEF Claiming, RoleAt, Tasks
  <2> QED
    BY <1>0, <1>1, <1>3, <2>1 DEF Holdless
<1>4. CASE pc[u] = "direct"
  BY <1>0, <1>4
<1>5. CASE pc[u] \in Quiet
  BY <1>0, <1>1, <1>5 DEF Holdless
<1> QED
  BY <1>0, <1>2, <1>3, <1>4, <1>5 DEF PCs, Quiet

\* What a drain, its loop, the end of an append and a cut do to the order.
LEMMA DrainOrder ==
  ASSUME NEW t \in Tasks, NEW d, NEW q, NEW ph, NEW n, Drain(t, d, q, ph), batch[t] = <<>>,
         PlacedIn(q, batch, log, dropped, n), OrderedIn(q, batch, store, log), ~Locked => Alone(batch, t)
  PROVE  OrderedIn(queue', batch', store', log)
<1>1. CASE queue' = q /\ UNCHANGED <<batch, store>>
  BY <1>1
<1>2. CASE ~NothingToDrain(q) /\ ~Locked /\ Detach(t, q, store)
  <2>1. q # <<>>
    BY <1>2 DEF NothingToDrain
  <2> QED
    BY <1>2, <2>1, DetachOrder DEF Detach
<1> QED
  BY <1>1, <1>2 DEF Drain

\* The loop of a drain with the appends of others in s.
LEMMA LoopOrder ==
  ASSUME NEW t \in Tasks, NEW s, NEW l, NEW d, DrainLoop(t, s), TypeOK, Alone(batch, t),
         PlacedIn(queue, [batch EXCEPT ![t] = <<>>], l, d, issued),
         OrderedIn(queue, [batch EXCEPT ![t] = <<>>], s, l)
  PROVE  OrderedIn(queue', batch', store', l)
<1> DEFINE c == [batch EXCEPT ![t] = <<>>]
<1>0. batch \in [Tasks -> Seq(Writes) \cup {<<Record>>}]
  BY DEF TypeOK
<1>1. CASE queue # <<>>
  <2>1. batch' = [batch EXCEPT ![t] = queue] /\ queue' = <<>> /\ store' = Append(s, [task |-> t, write |-> Head(queue)])
    BY <1>1 DEF DrainLoop, Detach
  <2>2. batch' = [c EXCEPT ![t] = queue] /\ c[t] = <<>> /\ Alone(c, t)
    BY <1>0, <2>1 DEF Alone
  <2>3. PlacedIn(queue, c, l, d, issued) /\ OrderedIn(queue, c, s, l)
    OBVIOUS
  <2> HIDE DEF c
  <2>4. OrderedIn(<<>>, [c EXCEPT ![t] = queue], Append(s, [task |-> t, write |-> Head(queue)]), l)
    BY <1>1, <2>2, <2>3, DetachOrder
  <2> QED
    BY <2>1, <2>2, <2>4
<1>2. CASE queue = <<>>
  BY <1>2 DEF DrainLoop
<1> QED
  BY <1>1, <1>2

\* What follows the end of an append that landed, or was refused.
LEMMA ResumeOrder ==
  ASSUME IInv, Placed, OrderedIn(queue, batch, store, log), NEW t \in Tasks, NEW l, NEW d, Resume(t), Appending(t),
         pc[t] \in Draining => Alone(batch, t),
         l = log \/ (Head(batch[t]) # Record /\ l = Append(log, Head(batch[t]))),
         PlacedIn(queue, [batch EXCEPT ![t] = Tail(batch[t])], l, d, issued)
  PROVE  OrderedIn(queue', batch', store', l)
<1> DEFINE w == Head(batch[t])
           r == Tail(batch[t])
           m == WithoutAppend(store, t)
<1>0. /\ TypeOK /\ PlacedIn(queue, batch, log, dropped, issued)
      /\ batch[t] # <<>> /\ Head(store).task = t /\ queue \in Seq(Writes)
  BY DEF IInv, Placed, Appending, Flushing, TypeOK
<1>1. CASE /\ r # <<>> /\ batch' = [batch EXCEPT ![t] = r]
           /\ store' = Append(m, [task |-> t, write |-> Head(r)]) /\ UNCHANGED queue
  <2> DEFINE c == [batch EXCEPT ![t] = r]
             x == Append(m, [task |-> t, write |-> Head(r)])
  <2>1. OrderedIn(queue, c, x, log) /\ OrderedIn(queue, c, x, Append(log, w))
    BY <1>0, <1>1, NextOrder
  <2>2. l = log \/ l = Append(log, w)
    OBVIOUS
  <2>3. queue' = queue /\ batch' = c /\ store' = x
    BY <1>1
  <2> HIDE DEF c, x, w
  <2> QED
    BY <2>1, <2>2, <2>3
<1>2. CASE r = <<>>
  <2> DEFINE c == [batch EXCEPT ![t] = <<>>]
  <2>1. OrderedIn(r \o queue, c, m, log) /\ (w # Record => OrderedIn(r \o queue, c, m, Append(log, w)))
    BY <1>0, CutOrder
  <2>2. r \o queue = queue
    BY <1>0, <1>2, ConcatEmptySeq
  <2>3. OrderedIn(queue, c, m, l)
    BY <2>1, <2>2
  <2>4. PlacedIn(queue, c, l, d, issued)
    BY <1>2
  <2>5. CASE pc[t] \in Draining /\ DrainLoop(t, m)
    BY <1>0, <2>3, <2>4, <2>5, LoopOrder
  <2>6. CASE batch' = c /\ store' = m /\ UNCHANGED queue
    BY <2>3, <2>6
  <2> QED
    BY <1>2, <2>5, <2>6 DEF Resume
<1> QED
  BY <1>1, <1>2 DEF Resume

\* A cut.
LEMMA CutHeadOrder ==
  ASSUME Placed, OrderedIn(queue, batch, store, log), NEW t \in Tasks, CutHead(t), Flushing(t)
  PROVE  OrderedIn(Requeue(Tail(batch[t]), queue), [batch EXCEPT ![t] = <<>>], WithoutAppend(store, t), log')
<1> DEFINE w == Head(batch[t])
           z == Tail(batch[t]) \o queue
           c == [batch EXCEPT ![t] = <<>>]
           m == WithoutAppend(store, t)
<1>1. OrderedIn(z, c, m, log) /\ (Head(store).task = t /\ w # Record => OrderedIn(z, c, m, Append(log, w)))
  BY CutOrder DEF Placed, Flushing
<1>2. log' = log \/ (Head(store).task = t /\ w # Record /\ log' = Append(log, w))
  BY DEF CutHead, Appending
<1> QED
  BY <1>1, <1>2 DEF Requeue

\* Every action keeps the order where no claim overtakes a waiter.
LEMMA OrderedStep ==
  ASSUME IInv, Placed, Waiting, Last, Single, ~overtaken, OrderedIn(queue, batch, store, log),
         NEW t \in Tasks, Step(t) \/ Cancel(t)
  PROVE  OrderedIn(queue', batch', store', log')
<1>0. /\ TypeOK /\ PlacedIn(queue, batch, log, dropped, issued)
      /\ RoleAt(t, pc[t])
      /\ Holdless(t, pc[t]) => batch[t] = <<>>
      /\ pc[t] \in Draining /\ batch[t] # <<>> => lock = t
  BY Roles DEF IInv, Placed, Empty, Holdless, Quiet, OneDrainAppends, Flushing
<1>b. batch \in [Tasks -> Seq(Writes) \cup {<<Record>>}] /\ lock \in Tasks \cup {Nobody} /\ t # Nobody
  BY <1>0, RolesAssumption DEF TypeOK
<1>e. batch[t] = <<>> => [batch EXCEPT ![t] = <<>>] = batch /\ WithoutAppend(store, t) = store
  BY <1>b DEF WithoutAppend, OrderedIn, In
<1>c. /\ phase = "idle" <=> Claimants = {}
      /\ phase # "turn" => \A u \in Claimants \cap Prompts : pc[u] = "nested"
      /\ \A u, v \in Claimants : u = v
      /\ t \in Claimants <=> Claiming(t, pc[t])
      /\ \A u \in Claimants : pc[u] = "body" => lock = Nobody /\ waiters = <<>>
  BY ClaimantsAre DEF IInv, OneClaim, Last
<1>1. CASE Wake(t)
  <2>1. /\ batch[t] = <<>> /\ UNCHANGED <<log, issued, dropped>> /\ lock = Nobody /\ waiters # <<>>
    BY <1>0, <1>b, <1>1 DEF Wake, HandedOver, Holdless, Quiet
  <2>2. CASE DrainLoop(t, store)
    <3>1. Alone(batch, t)
      BY <1>c, <2>1, AloneThere
    <3> QED
      BY <1>0, <1>e, <2>1, <2>2, <3>1, LoopOrder
  <2>3. CASE AppendDirectly(t, Record) /\ UNCHANGED queue
    BY <1>0, <2>1, <2>3, DirectOrder DEF AppendDirectly
  <2>4. CASE UNCHANGED <<queue, batch, store>>
    BY <1>0, <2>1, <2>4
  <2> QED
    BY <1>1, <2>2, <2>3, <2>4 DEF Wake
<1>2. CASE Land(t) \/ Refuse(t)
  <2>0. Resume(t) /\ Appending(t) /\ issued' = issued /\ batch[t] # <<>>
    BY <1>2 DEF Land, Refuse, Appending, Flushing
  <2>1. pc[t] \in Draining => Alone(batch, t)
    <3>1. ASSUME pc[t] \in Draining PROVE lock = t /\ t # Nobody
      BY <1>0, <1>b, <2>0, <3>1
    <3> QED
      BY <1>c, <3>1, AloneThere
  <2>2. log' = log \/ (Head(batch[t]) # Record /\ log' = Append(log, Head(batch[t])))
    BY <1>2 DEF Land, Refuse
  <2>3. PlacedIn(queue, [batch EXCEPT ![t] = Tail(batch[t])], log', dropped', issued)
    <3> DEFINE w == Head(batch[t])
               c == [batch EXCEPT ![t] = Tail(batch[t])]
    <3>1. /\ w # Record => /\ PlacedIn(queue, c, Append(log, w), dropped, issued)
                           /\ PlacedIn(queue, c, log, dropped \cup {w}, issued)
          /\ w = Record => PlacedIn(queue, c, log, dropped, issued)
      BY <1>0, <2>0, HeadLeaves
    <3> HIDE DEF c
    <3>2. CASE Land(t)
      BY <3>1, <3>2 DEF Land, c
    <3>3. CASE Refuse(t)
      <4>1. w = Record => dropped' = dropped
        BY <3>3 DEF Refuse
      <4>2. w # Record => dropped' = dropped \cup {w}
        BY <3>3 DEF Refuse
      <4>3. log' = log
        BY <3>3 DEF Refuse
      <4> HIDE DEF w
      <4> QED
        BY <3>1, <4>1, <4>2, <4>3 DEF c
    <3> QED
      BY <1>2, <3>2, <3>3
  <2> QED
    BY <2>0, <2>1, <2>2, <2>3, ResumeOrder
<1>4. CASE Prompt(t) \/ Compact(t) \/ PromptCloses(t) \/ DisposeIdle(t)
  <2>1. batch[t] = <<>> /\ UNCHANGED <<log, issued, dropped>>
    BY <1>0, <1>4 DEF Prompt, Compact, PromptCloses, DisposeIdle, Holdless, Quiet, Flushing
  <2>2. \E d, ph : Drain(t, d, queue, ph)
    BY <1>4 DEF Prompt, Compact, PromptCloses, DisposeIdle
  <2>3. \A u \in Claimants : u = t
    BY <1>c, <1>4 DEF Prompt, Compact, PromptCloses, DisposeIdle, Claiming
  <2>4. ~Locked => Alone(batch, t)
    BY <2>3, AloneThere DEF Locked
  <2> QED
    BY <1>0, <2>1, <2>2, <2>4, DrainOrder
<1>5. CASE TurnFlush(t)
  <2>1. /\ t \in Claimants /\ lock = Nobody /\ \A u \in Claimants : u = t
    BY <1>c, <1>5 DEF TurnFlush, Claiming
  <2>2. Alone(batch, t)
    BY <2>1, AloneThere
  <2> QED
    BY <1>0, <1>5, <2>2, DetachOrder DEF TurnFlush, Detach, Flushing
<1>6. CASE SetCalled(t)
  <2>1. CASE issued < MaxWrites /\ queue' = Append(queue, issued + 1)
    BY <1>0, <1>6, <2>1, QueuedOrder DEF SetCalled
  <2>2. CASE UNCHANGED <<issued, queue>>
    BY <1>6, <2>2 DEF SetCalled
  <2> QED
    BY <1>6, <2>1, <2>2 DEF SetCalled
<1>7. CASE SetEnds(t) \/ CompactEnds(t) \/ PromptCompacts(t) \/ PromptCompacted(t)
  BY <1>7 DEF SetEnds, CompactEnds, PromptCompacts, PromptCompacted
<1>8. CASE SetRecords(t)
  <2>1. batch[t] = <<>> /\ issued < MaxWrites /\ UNCHANGED <<log, dropped>> /\ issued' = issued + 1
    BY <1>0, <1>8 DEF SetRecords, Holdless, Quiet
  <2>2. PlacedIn(Append(queue, issued + 1), batch, log, dropped, issued + 1)
    BY <1>0, <2>1, Queued
  <2>o. OrderedIn(Append(queue, issued + 1), batch, store, log)
    BY <1>0, <2>1, QueuedOrder
  <2>3. CASE NothingOlder /\ AppendDirectly(t, issued + 1) /\ UNCHANGED queue
    <3>1. lock = Nobody /\ queue = <<>>
      BY <2>3 DEF NothingOlder, Locked
    <3>2. \A u \in Claimants : pc[u] # "body" \/ u \notin Prompts
      BY <1>c, <1>8 DEF SetRecords
    <3>3. Alone(batch, t)
      <4>1. ASSUME NEW u \in Tasks, u # t, pc[u] = "body" PROVE Len(batch[u]) <= 1
        <5>1. u \in Compactors
          BY <3>2, <4>1, Roles, ClaimantsAre DEF Claiming, RoleAt, Tasks
        <5>2. batch[u] = <<>>
          BY <4>1, <5>1 DEF IInv, Empty, Holdless
        <5> QED
          BY <5>2, ShortElems, WritesAreNat
      <4>2. ASSUME NEW u \in Tasks, u # t, pc[u] # "body" PROVE Len(batch[u]) <= 1
        <5>1. /\ pc[u] \in PCs /\ u # Nobody
              /\ Holdless(u, pc[u]) => batch[u] = <<>>
              /\ pc[u] \in Draining => batch[u] = <<>>
              /\ pc[u] = "direct" => Len(batch[u]) <= 1
          BY <3>1, RolesAssumption
             DEF IInv, TypeOK, PCs, Empty, Holdless, Quiet, OneDrainAppends, Flushing, Single
        <5>2. batch[u] = <<>> => Len(batch[u]) <= 1
          BY ShortElems, WritesAreNat
        <5> QED
          BY <4>2, <5>1, <5>2 DEF PCs, Holdless, Quiet
      <4> QED
        BY <4>1, <4>2 DEF Alone
    <3>4. issued + 1 \in Writes \cup {Record}
      BY <2>1, IssueType DEF IInv
    <3> QED
      BY <1>0, <2>1, <2>3, <3>1, <3>3, <3>4, DirectOrder DEF AppendDirectly
  <2>4. CASE phase = "idle" /\ Drain(t, "setdrain", Append(queue, issued + 1), phase)
    <3>1. ~Locked => Alone(batch, t)
      BY <1>c, <2>4, AloneThere DEF Locked
    <3> QED
      BY <2>1, <2>2, <2>o, <2>4, <3>1, DrainOrder
  <2>5. CASE queue' = Append(queue, issued + 1) /\ UNCHANGED <<batch, store>>
    BY <2>1, <2>o, <2>5
  <2> QED
    BY <1>8, <2>3, <2>4, <2>5 DEF SetRecords
<1>9. CASE IdleWrite(t)
  <2>1. batch[t] = <<>> /\ UNCHANGED <<queue, log, issued, dropped>>
    BY <1>0, <1>9 DEF IdleWrite, Holdless, Quiet
  <2>2. CASE AppendDirectly(t, Record)
    BY <1>0, <2>1, <2>2, DirectOrder DEF AppendDirectly
  <2>3. CASE UNCHANGED <<batch, store>>
    BY <1>0, <2>1, <2>3
  <2> QED
    BY <1>9, <2>2, <2>3 DEF IdleWrite
<1>10. CASE Dispose(t)
  <2>1. batch[t] = <<>> /\ UNCHANGED <<log, issued, dropped>>
    BY <1>0, <1>10 DEF Dispose, Holdless, Quiet
  <2>2. CASE phase = "idle" /\ Drain(t, "closing", queue, phase)
    <3>1. ~Locked => Alone(batch, t)
      BY <1>c, <2>2, AloneThere DEF Locked
    <3> QED
      BY <1>0, <2>1, <2>2, <3>1, DrainOrder
  <2>3. CASE UNCHANGED <<queue, batch, store>>
    BY <2>1, <2>3
  <2> QED
    BY <1>10, <2>2, <2>3 DEF Dispose
<1>11. CASE CancelTurn(t)
  BY <1>0, <1>11, CutHeadOrder DEF CancelTurn, CutFlush
<1>12. CASE CancelEntry(t)
  <2> DEFINE q == IF Flushing(t) THEN Requeue(Tail(batch[t]), queue) ELSE queue
             c == [batch EXCEPT ![t] = <<>>]
             m == WithoutAppend(store, t)
  <2>0. issued' = issued /\ CutHead(t) /\ \A u \in Claimants : u = t
    BY <1>c, <1>12 DEF CancelEntry, Claiming
  <2>1. PlacedIn(q, c, log', dropped', issued) /\ OrderedIn(q, c, m, log')
    <3>1. CASE Flushing(t)
      BY <1>0, <2>0, <3>1, CutPlaces, CutHeadOrder
    <3>2. CASE ~Flushing(t)
      BY <1>0, <1>e, <2>0, <3>2 DEF CutHead, Flushing, Appending
    <3> QED
      BY <3>1, <3>2
  <2>2. CASE batch' = c /\ queue' = q /\ store' = m
    BY <2>0, <2>1, <2>2
  <2>3. CASE lock \in {t, Nobody} /\ q # <<>> /\ Detach(t, q, m)
    <3>1. /\ batch' = [c EXCEPT ![t] = q] /\ queue' = <<>> /\ c[t] = <<>>
          /\ store' = Append(m, [task |-> t, write |-> Head(q)])
      BY <1>b, <2>3 DEF Detach
    <3>2. Alone(batch, t)
      BY <2>0, <2>3, AloneThere
    <3>3. Alone(c, t)
      BY <1>b, <3>2 DEF Alone
    <3> HIDE DEF c, q, m
    <3> QED
      BY <2>1, <2>3, <3>1, <3>3, DetachOrder
  <2> QED
    BY <1>12, <2>2, <2>3 DEF CancelEntry
<1>13. CASE CancelCaller(t)
  <2>1. CASE Flushing(t) /\ CutFlush(t)
    BY <1>0, <2>1, CutHeadOrder DEF CutFlush
  <2>2. CASE UNCHANGED <<batch, store, queue, log, dropped>>
    BY <2>2
  <2> QED
    BY <1>13, <2>1, <2>2 DEF CancelCaller, Cut
<1> QED
  BY <1>1, <1>2, <1>4, <1>5, <1>6, <1>7, <1>8, <1>9, <1>10, <1>11, <1>12, <1>13 DEF Step, Cancel

\* A direct append stays one record.
LEMMA SingleStep ==
  ASSUME IInv, Single, NEW t \in Tasks, Step(t) \/ Cancel(t)
  PROVE  Single'
<1>0. /\ pc \in [Tasks -> PCs] /\ batch \in [Tasks -> Seq(Writes) \cup {<<Record>>}]
      /\ \A u \in Tasks : u # t => pc'[u] = pc[u] /\ batch'[u] = batch[u]
      /\ RoleAt(t, pc[t])
  BY EveryStepMoves, Roles DEF IInv, TypeOK, PCs, Moves
<1> SUFFICES ASSUME pc'[t] = "direct" PROVE Len(batch'[t]) <= 1
  BY <1>0 DEF Single
<1>1. ASSUME NEW w \in Nat, AppendDirectly(t, w) PROVE Len(batch'[t]) <= 1
  <2>1. batch'[t] = <<w>>
    BY <1>0, <1>1 DEF AppendDirectly
  <2> QED
    BY <2>1, ShortElems
<1>n. issued + 1 \in Nat /\ Record \in Nat
  BY WritesAreNat DEF IInv, TypeOK
<1>d. ASSUME NEW d \in Draining, NEW q, NEW ph, Drain(t, d, q, ph) PROVE FALSE
  BY <1>0, <1>d DEF Drain, After, Draining
<1>l. ASSUME NEW s, pc[t] \in Draining, DrainLoop(t, s) PROVE FALSE
  BY <1>0, <1>l DEF DrainLoop, After, Draining
<1>e. {"entry", "release", "setdrain", "closing"} = Draining
  BY DEF Draining
<1>2. CASE Wake(t)
  <2>1. CASE AppendDirectly(t, Record)
    BY <1>1, <1>n, <2>1
  <2>2. CASE pc' = [pc EXCEPT ![t] = "done"]
    BY <1>0, <2>2
  <2> QED
    BY <1>2, <1>l, <2>1, <2>2 DEF Wake
<1>3. CASE Land(t) \/ Refuse(t)
  <2>1. Resume(t) /\ batch[t] # <<>>
    BY <1>3 DEF Land, Refuse, Appending, Flushing
  <2>2. CASE Tail(batch[t]) # <<>> /\ UNCHANGED pc
    <3>1. Len(batch[t]) <= 1
      BY <2>2 DEF Single
    <3>2. batch[t] \in Seq(Writes) \cup {<<Record>>}
      BY <1>0
    <3>3. Len(batch[t]) > 1 /\ Len(batch[t]) \in Nat
      BY <2>1, <2>2, <3>2, BatchIs, LenProperties
    <3> QED
      BY <3>1, <3>3
  <2>3. CASE pc' = [pc EXCEPT ![t] = IF @ = "direct" THEN "done" ELSE @]
    BY <1>0, <2>3
  <2> QED
    BY <1>l, <2>1, <2>2, <2>3 DEF Resume
<1>4. CASE Prompt(t) \/ PromptCloses(t) \/ Compact(t) \/ DisposeIdle(t)
  BY <1>d, <1>e, <1>4 DEF Prompt, PromptCloses, Compact, DisposeIdle
<1>5. CASE SetCalled(t) \/ SetEnds(t) \/ CompactEnds(t) \/ PromptCompacts(t) \/ PromptCompacted(t)
  BY <1>0, <1>5 DEF SetCalled, SetEnds, CompactEnds, PromptCompacts, PromptCompacted
<1>6. CASE SetRecords(t)
  <2>1. CASE pc' = [pc EXCEPT ![t] = "done"]
    BY <1>0, <2>1
  <2> QED
    BY <1>1, <1>d, <1>e, <1>n, <1>6, <2>1 DEF SetRecords
<1>7. CASE IdleWrite(t)
  <2>1. CASE pc' = [pc EXCEPT ![t] = "hook"]
    BY <1>0, <2>1
  <2> QED
    BY <1>1, <1>n, <1>7, <2>1 DEF IdleWrite
<1>8. CASE Dispose(t)
  <2>1. CASE pc' = [pc EXCEPT ![t] = "waitidle"]
    BY <1>0, <2>1
  <2> QED
    BY <1>d, <1>e, <1>8, <2>1 DEF Dispose
<1>9. CASE TurnFlush(t) \/ CancelTurn(t)
  BY <1>9 DEF TurnFlush, CancelTurn
<1>10. CASE CancelEntry(t)
  BY <1>0, <1>10 DEF CancelEntry
<1>11. CASE CancelCaller(t)
  BY <1>0, <1>11 DEF CancelCaller
<1> QED
  BY <1>2, <1>3, <1>4, <1>5, <1>6, <1>7, <1>8, <1>9, <1>10, <1>11 DEF Step, Cancel

-----------------------------------------------------------------------------
\* The order is inductive with the places, the waiters and who holds what.
OInv == IInv /\ Placed /\ Waiting /\ Last /\ Single /\ Ordered

\* At the start nobody waits and nothing is recorded.
LEMMA InitOrdered == Init => OInv
<1> SUFFICES ASSUME Init PROVE OInv
  OBVIOUS
<1>1. /\ queue = <<>> /\ log = <<>> /\ waiters = <<>> /\ store = <<>> /\ lock = Nobody
      /\ batch = [t \in Tasks |-> <<>>] /\ pc = [t \in Tasks |-> "start"]
  BY DEF Init
<1>2. /\ <<>> \in Seq(Append1) /\ Elems(<<>>) = {} /\ Apart(<<>>) /\ Own(<<>>) = {} /\ Sorted(<<>>) /\ Len(<<>>) = 0
  BY WritesAreNat, ShortElems, EmptySeq DEF Own
<1>3. Waiting
  BY <1>1, <1>2, RolesAssumption DEF Waiting, Draining
<1>4. Last /\ Single
  BY <1>1, ClaimantsAre DEF Last, Single, Claiming
<1>5. Ordered
  <2>1. /\ Once(<<>>) /\ \A t : ~In(<<>>, t) /\ \A u : ~Ahead(<<>>, t, u)
    BY DEF Once, In, Ahead
  <2> QED
    BY <1>1, <1>2, <2>1 DEF Ordered, OrderedIn, Before
<1> QED
  BY <1>3, <1>4, <1>5, Initially, InitPlaced DEF OInv

\* Every step keeps it.
LEMMA OrderKept == OInv /\ [Next]_vars => OInv'
<1> SUFFICES ASSUME OInv, [Next]_vars PROVE OInv'
  OBVIOUS
<1>0. IInv' /\ Placed'
  BY Preserved, PlacedKept DEF OInv
<1>1. ASSUME NEW t \in Tasks, Step(t) \/ Cancel(t) PROVE OInv'
  <2>1. Handles(t)
    BY <1>1, EveryStepHandles DEF OInv
  <2>2. Waiting' /\ Last'
    BY <2>1, HandlesKeep DEF OInv
  <2>3. Single'
    BY <1>1, SingleStep DEF OInv
  <2>4. Ordered'
    <3>1. SUFFICES ASSUME ~overtaken' PROVE OrderedIn(queue', batch', store', log')
      BY DEF Ordered
    <3>2. ~overtaken
      BY <2>1, <3>1 DEF Handles
    <3> QED
      BY <1>1, <3>2, OrderedStep DEF OInv, Ordered
  <2> QED
    BY <1>0, <2>2, <2>3, <2>4 DEF OInv
<1>2. CASE AppendMessage
  <2>1. /\ UNCHANGED <<lock, waiters, pc, batch, store, log, overtaken>>
        /\ issued < MaxWrites /\ queue' = Append(queue, issued + 1)
    BY <1>2 DEF AppendMessage
  <2>2. Waiting' /\ Last' /\ Single'
    BY <2>1 DEF OInv, Waiting, Last, Single, Claimants
  <2>3. Ordered'
    <3>1. SUFFICES ASSUME ~overtaken PROVE OrderedIn(queue', batch, store, log)
      BY <2>1 DEF Ordered
    <3>2. PlacedIn(queue, batch, log, dropped, issued) /\ OrderedIn(queue, batch, store, log)
      BY <3>1 DEF OInv, Placed, Ordered
    <3> QED
      BY <2>1, <3>2, QueuedOrder
  <2> QED
    BY <1>0, <2>2, <2>3 DEF OInv
<1>3. CASE UNCHANGED vars
  BY <1>0, <1>3 DEF vars, OInv, Waiting, Last, Single, Claimants, Ordered
<1> QED
  BY <1>1, <1>2, <1>3 DEF Next

\* Records reach the session in the order the harness decided to make them, for any callers and
\* wherever they are cancelled, unless a claim was made while the drain lock was between two
\* holders (_drain_pending_session_writes, the idle setters, the flush).
THEOREM LogInCallOrderHolds == Spec => []LogInCallOrder
<1>1. OInv => LogInCallOrder
  BY DEF OInv, Ordered, OrderedIn, Sorted, LogInCallOrder, InOrder
<1> QED
  BY <1>1, InitOrdered, OrderKept, PTL DEF Spec
-----------------------------------------------------------------------------
\* Once dispose() waits, `_disposed' refuses every new prompt; and it enters its drain only after
\* the last prompt has released the harness, so that no turn is left to hold a flush.
Closing ==
  \A d \in Disposers :
    /\ pc[d] \in {"waitidle", "closing"} => disposed
    /\ pc[d] = "closing" => \A p \in Prompts : ~Claiming(p, pc[p])

\* `_disposed' stays, a prompt claims a harness that is not disposed of, and dispose() goes to its
\* drain from an idle one.
LEMMA ClosingStep ==
  ASSUME IInv, Closing, NEW t \in Tasks, Step(t) \/ Cancel(t)
  PROVE  /\ disposed => disposed'
         /\ t \in Prompts /\ disposed /\ ~Claiming(t, pc[t]) => ~Claiming(t, pc'[t])
         /\ t \in Disposers /\ pc'[t] \in {"waitidle", "closing"} => disposed'
         /\ t \in Disposers /\ pc'[t] = "closing" => pc[t] = "closing" \/ phase = "idle"
<1>0. /\ pc \in [Tasks -> PCs]
      /\ RoleAt(t, pc[t]) /\ RoleAt(t, pc'[t])
  BY SplitType, Roles, EveryStepMoves DEF IInv, QueueTypes, Moves
<1>r. /\ t \in Prompts => t \notin Setters \cup Recorders \cup Compactors \cup Disposers
      /\ t \in Compactors => t \notin Setters \cup Recorders \cup Disposers
      /\ t \in Setters => t \notin Recorders \cup Disposers
      /\ t \in Recorders => t \notin Disposers
  BY RolesAssumption
<1>1. disposed => disposed'
  BY DEF Step, Cancel, Wake, Land, Refuse, Prompt, TurnFlush, PromptCompacts, PromptCompacted,
         PromptCloses, SetCalled, SetEnds, SetRecords, IdleWrite, Compact, CompactEnds, Dispose,
         DisposeIdle, CancelTurn, CancelEntry, CancelCaller
<1>2. CASE t \in Prompts
  <2>1. ASSUME disposed, ~Claiming(t, pc[t]) PROVE pc'[t] = pc[t]
    <3>1. pc[t] \in {"start", "done"}
      BY <1>0, <1>2, <2>1 DEF RoleAt, Claiming
    <3> QED
      BY <1>r, <1>2, <2>1, <3>1
         DEF Step, Cancel, Wake, Land, Refuse, Resume, Draining, Prompt, TurnFlush, PromptCompacts,
             PromptCompacted, PromptCloses, SetCalled, SetEnds, SetRecords, IdleWrite, Compact,
             CompactEnds, Dispose, DisposeIdle, CancelTurn, CancelEntry, CancelCaller
  <2> QED
    BY <1>r, <1>1, <1>2, <2>1
<1>3. CASE t \in Disposers
  <2>1. /\ t \notin Prompts \cup Setters \cup Recorders \cup Compactors
        /\ pc[t] \in {"start", "waitidle", "closing", "done"}
    BY <1>0, <1>r, <1>3 DEF RoleAt
  <2>2. CASE Dispose(t) \/ DisposeIdle(t)
    BY <1>0, <1>1, <1>3, <2>1, <2>2 DEF Dispose, DisposeIdle, Closing
  <2>3. CASE Wake(t) \/ Land(t) \/ Refuse(t)
    <3>1. pc' = pc \/ pc' = [pc EXCEPT ![t] = After(pc[t])]
      BY <2>1, <2>3 DEF Wake, Land, Refuse, Resume, DrainLoop, Detach
    <3> QED
      BY <1>0, <1>1, <1>3, <2>1, <3>1 DEF After, Closing
  <2>4. CASE CancelCaller(t)
    BY <1>0, <1>3, <2>1, <2>4 DEF CancelCaller
  <2> QED
    BY <2>1, <2>2, <2>3, <2>4
       DEF Step, Cancel, Prompt, TurnFlush, PromptCompacts, PromptCompacted, PromptCloses, SetCalled,
           SetEnds, SetRecords, IdleWrite, Compact, CompactEnds, CancelTurn, CancelEntry
<1>4. CASE t \notin Prompts \cup Disposers
  BY <1>1, <1>4
<1> QED
  BY <1>2, <1>3, <1>4

LEMMA ClosingKept == IInv /\ Closing /\ [Next]_vars => Closing'
<1> SUFFICES ASSUME IInv, Closing, [Next]_vars PROVE Closing'
  OBVIOUS
<1>1. ASSUME NEW t \in Tasks, Step(t) \/ Cancel(t) PROVE Closing'
  <2>1. \A u \in Tasks : u # t => pc'[u] = pc[u]
    BY <1>1, EveryStepMoves DEF Moves
  <2>2. phase = "idle" => \A p \in Prompts : ~Claiming(p, pc[p])
    BY DEF IInv, OneClaim, Claimants, Claiming
  <2>3. Disposers \subseteq Tasks /\ Prompts \subseteq Tasks
    BY DEF Tasks
  <2>4. ASSUME NEW d \in Disposers, pc'[d] \in {"waitidle", "closing"} PROVE disposed'
    BY <1>1, <2>1, <2>3, <2>4, ClosingStep DEF Closing
  <2>5. ASSUME NEW d \in Disposers, pc'[d] = "closing", NEW p \in Prompts
        PROVE  ~Claiming(p, pc'[p])
    <3>1. CASE t = d
      <4>1. p # d
        BY RolesAssumption
      <4>2. ~Claiming(p, pc[p])
        BY <1>1, <2>2, <2>5, <3>1, ClosingStep DEF Closing
      <4> QED
        BY <2>1, <2>3, <3>1, <4>1, <4>2
    <3>2. CASE t # d
      <4>1. pc[d] = "closing" /\ disposed /\ ~Claiming(p, pc[p])
        BY <2>1, <2>3, <2>5, <3>2 DEF Closing
      <4> QED
        BY <1>1, <2>1, <2>3, <4>1, ClosingStep
    <3> QED
      BY <3>1, <3>2
  <2> QED
    BY <2>4, <2>5 DEF Closing
<1>2. CASE AppendMessage \/ UNCHANGED vars
  BY <1>2 DEF AppendMessage, vars, Closing, Claiming
<1> QED
  BY <1>1, <1>2 DEF Next

\* dispose() is over through its own drain, which found nothing queued and the drain lock free or its own.
LEMMA DisposeEnds ==
  ASSUME IInv, Closing, NEW d \in Disposers, Step(d) \/ Cancel(d),
         pc[d] # "done", pc'[d] = "done", ~CancelCaller(d)
  PROVE  /\ queue' = <<>> /\ batch'[d] = <<>>
         /\ lock \in {d, Nobody}
         /\ \A p \in Prompts : ~Claiming(p, pc[p])
<1>0. /\ d \in Tasks /\ pc \in [Tasks -> PCs]
      /\ batch \in [Tasks -> Seq(Writes) \cup {<<Record>>}]
      /\ RoleAt(d, pc[d])
      /\ Holdless(d, pc[d]) => batch[d] = <<>>
      /\ pc[d] \in Draining /\ batch[d] # <<>> => lock = d
  BY SplitType, Roles DEF IInv, QueueTypes, Empty, OneDrainAppends, Flushing, Tasks
<1>1. /\ d \notin Prompts \cup Setters \cup Recorders \cup Compactors
      /\ pc[d] \in {"start", "waitidle", "closing"}
  BY <1>0, RolesAssumption DEF RoleAt
<1>2. phase = "idle" => \A p \in Prompts : ~Claiming(p, pc[p])
  BY DEF IInv, OneClaim, Claimants, Claiming
<1>3. CASE Dispose(d) \/ DisposeIdle(d)
  <2>1. batch[d] = <<>>
    BY <1>0, <1>3 DEF Dispose, DisposeIdle, Holdless, Quiet
  <2>2. phase = "idle" /\ Drain(d, "closing", queue, phase)
    BY <1>0, <1>3 DEF Dispose, DisposeIdle
  <2>3. NothingToDrain(queue) /\ queue' = queue /\ batch' = batch
    BY <1>0, <2>2 DEF Drain
  <2> QED
    BY <1>2, <2>1, <2>2, <2>3 DEF NothingToDrain, Locked
<1>4. CASE Wake(d) \/ Land(d) \/ Refuse(d)
  <2>1. lock \in {d, Nobody} /\ pc[d] = "closing" /\ \E s : DrainLoop(d, s)
    <3>1. CASE Wake(d)
      <4>1. pc[d] \in Draining /\ DrainLoop(d, store)
        BY <1>1, <3>1 DEF Wake
      <4> QED
        BY <1>1, <3>1, <4>1 DEF Wake, HandedOver, Draining
    <3>2. CASE Land(d) \/ Refuse(d)
      <4>1. Flushing(d) /\ Resume(d)
        BY <3>2 DEF Land, Refuse, Appending
      <4>2. pc[d] = "closing"
        BY <1>0, <1>1, <4>1 DEF Flushing, Holdless, Quiet
      <4>3. DrainLoop(d, WithoutAppend(store, d))
        BY <1>0, <4>1, <4>2 DEF Resume
      <4> QED
        BY <1>0, <4>1, <4>2, <4>3 DEF Flushing, Draining
    <3> QED
      BY <1>4, <3>1, <3>2
  <2>2. queue = <<>> /\ queue' = queue /\ batch' = [batch EXCEPT ![d] = <<>>]
    BY <1>0, <2>1 DEF DrainLoop, Detach
  <2> QED
    BY <1>0, <2>1, <2>2 DEF Closing
<1> QED
  BY <1>1, <1>3, <1>4
     DEF Step, Cancel, Prompt, TurnFlush, PromptCompacts, PromptCompacted, PromptCloses, SetCalled,
         SetEnds, SetRecords, IdleWrite, Compact, CompactEnds, CancelTurn, CancelEntry

\* Nobody else then holds detached writes but a direct append: a drain that holds some has the lock,
\* and no turn is left.
LEMMA DisposeAlone ==
  ASSUME IInv, Closing, [Next]_vars, NEW d \in Disposers,
         pc[d] # "done", pc'[d] = "done", ~CancelCaller(d)
  PROVE  queue' = <<>> /\ \A t \in Tasks : pc'[t] # "direct" => batch'[t] = <<>>
<1>0. d \in Tasks
  BY DEF Tasks
<1>1. PICK u \in Tasks : Step(u) \/ Cancel(u)
  BY DEF Next, AppendMessage, vars
<1>2. \A t \in Tasks : t # u => pc'[t] = pc[t] /\ batch'[t] = batch[t]
  BY <1>1, EveryStepMoves DEF Moves
<1>3. u = d
  BY <1>0, <1>2
<1>4. /\ queue' = <<>> /\ batch'[d] = <<>> /\ lock \in {d, Nobody}
      /\ \A p \in Prompts : ~Claiming(p, pc[p])
  BY <1>1, <1>3, DisposeEnds
<1>5. ASSUME NEW t \in Tasks, t # d, pc[t] # "direct" PROVE batch[t] = <<>>
  <2>1. CASE Holdless(t, pc[t])
    BY <2>1 DEF IInv, Empty
  <2>2. CASE pc[t] \in Draining
    BY <1>4, <1>5, <2>2, RolesAssumption DEF IInv, OneDrainAppends, Flushing
  <2>3. pc[t] = "body" => t \in Compactors
    BY <1>4, Roles, RolesAssumption DEF RoleAt, Claiming, Tasks
  <2>4. pc[t] \in PCs
    BY SplitType DEF IInv, QueueTypes
  <2> QED
    BY <1>5, <2>1, <2>2, <2>3, <2>4 DEF PCs, Holdless, Quiet
<1> QED
  BY <1>2, <1>3, <1>4, <1>5

\* For any callers and wherever they are cancelled: a dispose() that is not cancelled itself returns
\* only when nothing is queued and no drain and no turn holds detached writes (dispose,
\* _drain_pending_session_writes).
THEOREM DisposeWaitsHolds == Spec => DisposeWaits
<1>1. Init => Closing
  BY DEF Init, Closing, Tasks
<1>2. IInv /\ Closing /\ [Next]_vars =>
        [\A d \in Disposers :
           pc[d] # "done" /\ pc'[d] = "done" /\ ~CancelCaller(d) =>
             queue' = <<>> /\ \A t \in Tasks : pc'[t] # "direct" => batch'[t] = <<>>]_vars
  BY DisposeAlone
<1> QED
  BY <1>1, <1>2, Initially, Preserved, ClosingKept, PTL DEF Spec, DisposeWaits
=============================================================================
