--------------------------- MODULE ToolBatch_proofs ---------------------------
(***************************************************************************)
(* For every number of calls, every kind of batch and every number of      *)
(* cancels: results reach the context in the model's order and none is     *)
(* lost, what a tool said passes its hook, and a known cancel stops.       *)
(***************************************************************************)
EXTENDS ToolBatch, WellFoundedInduction, TLAPS

\* Where a batch of either kind can be, and what it can know there.
Places ==
  /\ pc \in {"instant", "wait", "grace", "answer"} => Parallel
  /\ pc = "call" => ~Parallel
  /\ abandoned # {} => Parallel /\ pc \in {"answer", "commit", "over"}
  /\ cancelled => Parallel /\ pc \in {"commit", "over"}
  /\ pc = "over" <=> outcome # "none"
  /\ seen => Turn \in reached \/ cancelled \/ pc = "over"

\* Where the calls of a parallel batch are in each phase: after it only abandoned ones run.
Phases == Parallel =>
  /\ pc \in {"prepare", "instant"} => \A c \in Calls :
       st[c] \in IF c > at THEN {"new"} ELSE IF c < at THEN {"ready", "done"}
                 ELSE IF pc = "prepare" THEN {"new"} ELSE {"done"}
  /\ pc \in {"wait", "grace", "answer"} => \A c \in Calls : st[c] \notin {"new", "ready"}
  /\ pc \in {"answer", "commit", "over"} => \A c \in Calls :
       st[c] # "queued" /\ (st[c] \in Running => c \in abandoned)

\* The calls of a sequential batch, one after the other.
InTurn == ~Parallel =>
  /\ \A c \in Calls : c < at => st[c] = "done"
  /\ \A c \in Calls : c > at => st[c] = "new"
  /\ pc = "prepare" => st[at] = "new"
  /\ pc = "call" => st[at] \in {"execute", "hook", "ending", "done", "failed"}
  /\ pc = "commit" => st[at] = "done"
  /\ pc = "over" => st[at] \notin Running

\* What a call's end event and its output are worth where the call is.
Sent ==
  /\ \A c \in Calls : ends[c] <= 1
  /\ \A c \in Calls \ abandoned :
       /\ st[c] \in {"new", "ready", "queued", "execute", "hook"} => ends[c] = 0 /\ endedWith[c] = "none"
       /\ st[c] \in {"ending", "done"} => ends[c] = 1 /\ out[c] \in {"shown", "cut"}
       /\ Parallel /\ st[c] = "ending" => endedWith[c] # "none"
  /\ \A c \in abandoned : pc = "answer" /\ c > at /\ endedWith[c] = "none" => ends[c] = 0

\* Results: of the calls gathered so far, of every call that began, and of the ones before `at'.
Gathered ==
  /\ \A c \in Calls \ abandoned : result[c] # "none" => ends[c] = 1 /\ result[c] # "raw"
  /\ Parallel /\ pc = "answer" => \A c \in Calls :
       c <= at /\ Begun(c) /\ st[c] # "failed" => result[c] # "none"
  /\ Parallel /\ pc \in {"commit", "over"} /\ outcome # "broken" => \A c \in Calls :
       Begun(c) /\ st[c] # "failed" => result[c] # "none"
  /\ pc = "commit" => result[at] # "none"

Committed ==
  /\ \A i, j \in DOMAIN log : i < j => log[i] < log[j]
  /\ \A i \in DOMAIN log : log[i] \in Calls /\ result[log[i]] # "none" /\ (pc # "over" => log[i] < at)
  /\ pc \in {"instant", "wait", "grace", "answer"} \/ (Parallel /\ pc = "prepare") => log = <<>>
  /\ pc # "over" => \A c \in Calls :
       c < at /\ (IF Parallel THEN pc = "commit" /\ result[c] # "none" ELSE TRUE) => c \in ToSet(log) \cup lost
  /\ outcome \in {"returned", "cancelled", "failed"} => \A c \in Calls :
       (IF Parallel THEN result[c] # "none" ELSE Begun(c) /\ st[c] # "failed") => c \in ToSet(log) \cup lost

IInv == TypeOK /\ Places /\ Phases /\ InTurn /\ Sent /\ Gathered /\ Committed

-----------------------------------------------------------------------------
\* A set of calls that is not empty has a lowest one.
LEMMA LowestOf ==
  ASSUME NEW S \in SUBSET Nat, S # {}
  PROVE  Lowest(S) \in S /\ \A d \in S : Lowest(S) <= d
<1>1. IsWellFoundedOn(OpToRel(<, Nat), Nat)
  BY NatLessThanWellFounded
<1>2. PICK m \in S : \A d \in S : ~(<<d, m>> \in OpToRel(<, Nat))
  BY <1>1, WFMin
<1>3. ASSUME NEW d \in S PROVE m <= d
  <2>1. d \in Nat /\ m \in Nat
    OBVIOUS
  <2>2. ~(d < m)
    BY <1>2, <2>1 DEF OpToRel
  <2> QED
    BY <2>1, <2>2
<1> QED
  BY <1>2, <1>3 DEF Lowest

\* After the gathering or a commit: the next result, or the batch is over.
LEMMA CommitMeans ==
  ASSUME NEW k \in Nat, NEW res, NEW C \in BOOLEAN, NEW R, CommitFrom(k, res, C, R)
  PROVE  \/ /\ \A c \in Calls : c >= k => res[c] = "none"
            /\ pc' = "over" /\ at' = at /\ outcome' \in {"returned", "cancelled", "failed"}
            /\ outcome' = "returned" => ~C /\ ~Known(Turn, R)
         \/ /\ pc' = "commit" /\ at' \in Calls /\ at' >= k /\ res[at'] # "none"
            /\ \A c \in Calls : k <= c /\ c < at' => res[c] = "none"
            /\ outcome' = outcome
<1> DEFINE rest == From(k, {c \in Calls : res[c] # "none"})
<1>1. rest \in SUBSET Nat /\ \A c \in rest : c \in Calls /\ c >= k /\ res[c] # "none"
  BY BatchAssumption DEF From, Calls
<1>2. CASE rest = {}
  <2>1. Close(C, R)
    BY <1>2 DEF CommitFrom
  <2>2. \A c \in Calls : c >= k => res[c] = "none"
    BY <1>2 DEF From
  <2>3. /\ pc' = "over" /\ at' = at /\ outcome' \in {"returned", "cancelled", "failed"}
        /\ outcome' = "returned" => ~C /\ ~Known(Turn, R)
    BY <2>1 DEF Close, Ends
  <2> QED
    BY <2>2, <2>3
<1>3. CASE rest # {}
  <2>1. pc' = "commit" /\ at' = Lowest(rest) /\ outcome' = outcome
    BY <1>3 DEF CommitFrom
  <2>2. at' \in rest /\ \A d \in rest : at' <= d
    <3> HIDE DEF rest
    <3> QED
      BY <1>1, <1>3, <2>1, LowestOf
  <2>3. ASSUME NEW c \in Calls, k <= c, c < at' PROVE res[c] = "none"
    <3>1. c \in Nat /\ at' \in Nat
      BY <1>1, <2>2 DEF Calls
    <3>2. c \notin rest
      BY <2>2, <2>3, <3>1
    <3> QED
      BY <2>3, <3>1, <3>2 DEF From
  <2> QED
    BY <1>1, <2>1, <2>2, <2>3
<1> QED
  BY <1>2, <1>3

LEMMA CommitGoes ==
  ASSUME NEW k \in Nat, NEW res, NEW C \in BOOLEAN, NEW R, CommitFrom(k, res, C, R)
  PROVE  \/ pc' = "over" /\ at' = at /\ outcome' \in {"returned", "cancelled", "failed"}
         \/ pc' = "commit" /\ at' \in Calls /\ outcome' = outcome
BY CommitMeans

\* A pass over the calls from k on stops at the first abandoned one that has to be answered for.
LEMMA GatherMeans ==
  ASSUME NEW k \in Nat \ {0}, NEW gone \in SUBSET Calls, NEW R, Gather(k, gone, result, R)
  PROVE  \E stop \in Nat :
           /\ result' = [c \in Calls |-> IF c < k \/ c > stop THEN result[c]
                                         ELSE IF c = stop THEN "cut"
                                         ELSE IF c \in gone THEN endedWith[c]
                                         ELSE IF st[c] = "done" THEN out[c] ELSE "none"]
           /\ \A c \in gone : k <= c /\ c < stop => endedWith[c] # "none"
           /\ \/ stop = N + 1 /\ ends' = ends /\ CommitFrom(1, result', FALSE, R)
              \/ /\ stop \in gone /\ stop >= k /\ endedWith[stop] = "none"
                 /\ pc' = "answer" /\ at' = stop /\ outcome' = outcome
                 /\ ends' = [ends EXCEPT ![stop] = @ + 1]
<1> DEFINE silent == From(k, {c \in gone : endedWith[c] = "none"})
<1>1. silent \in SUBSET Nat /\ \A c \in silent : c \in gone /\ c >= k /\ endedWith[c] = "none"
  <2>1. \A c \in silent : c \in gone /\ c >= k /\ endedWith[c] = "none"
    BY DEF From
  <2>2. \A c \in gone : c \in Nat
    BY BatchAssumption DEF Calls
  <2> QED
    BY <2>1, <2>2
<1>2. \A c \in gone : c >= k /\ endedWith[c] = "none" => c \in silent
  BY DEF From
<1>3. CASE silent = {}
  <2>1. /\ result' = [c \in Calls |-> IF c < k \/ c > N + 1 THEN result[c]
                                      ELSE IF c = N + 1 THEN "cut"
                                      ELSE IF c \in gone THEN endedWith[c]
                                      ELSE IF st[c] = "done" THEN out[c] ELSE "none"]
        /\ ends' = ends /\ CommitFrom(1, result', FALSE, R)
    BY <1>3 DEF Gather
  <2>2. \A c \in gone : k <= c /\ c < N + 1 => endedWith[c] # "none"
    <3>1. \A c \in gone : c \in Nat
      BY DEF Calls
    <3> QED
      BY <1>2, <1>3, <3>1
  <2>3. N + 1 \in Nat
    BY BatchAssumption
  <2> QED
    BY <2>1, <2>2, <2>3
<1>4. CASE silent # {}
  <2> DEFINE stop == Lowest(silent)
  <2>1. stop \in silent /\ \A d \in silent : stop <= d
    <3> HIDE DEF silent
    <3> QED
      BY <1>1, <1>4, LowestOf
  <2>2. /\ result' = [c \in Calls |-> IF c < k \/ c > stop THEN result[c]
                                      ELSE IF c = stop THEN "cut"
                                      ELSE IF c \in gone THEN endedWith[c]
                                      ELSE IF st[c] = "done" THEN out[c] ELSE "none"]
        /\ pc' = "answer" /\ at' = stop /\ outcome' = outcome
        /\ ends' = [ends EXCEPT ![stop] = @ + 1]
    BY <1>4 DEF Gather
  <2>3. stop \in Nat /\ stop \in gone /\ stop >= k /\ endedWith[stop] = "none"
    <3> HIDE DEF silent, stop
    <3> QED
      BY <1>1, <2>1
  <2>4. \A c \in gone : k <= c /\ c < stop => endedWith[c] # "none"
    <3>1. \A c \in gone : c \in Nat
      BY DEF Calls
    <3> HIDE DEF silent, stop
    <3> QED
      BY <1>2, <2>1, <2>3, <3>1
  <2> HIDE DEF silent, stop
  <2> QED
    BY <2>2, <2>3, <2>4
<1> QED
  BY <1>3, <1>4

LEMMA GatherGoes ==
  ASSUME NEW k \in Nat \ {0}, NEW gone \in SUBSET Calls, NEW R, Gather(k, gone, result, R)
  PROVE  \/ pc' = "over" /\ at' = at /\ outcome' \in {"returned", "cancelled", "failed"}
         \/ pc' = "commit" /\ at' \in Calls /\ outcome' = outcome
         \/ pc' = "answer" /\ at' \in gone /\ outcome' = outcome
<1>1. PICK stop \in Nat :
        \/ CommitFrom(1, result', FALSE, R)
        \/ stop \in gone /\ pc' = "answer" /\ at' = stop /\ outcome' = outcome
  BY GatherMeans
<1> QED
  BY <1>1, CommitGoes

-----------------------------------------------------------------------------
\* What a step of one call, on its own task or on the turn's, may change.
CallMove(c) ==
  /\ st[c] \in Running
  /\ pc' = pc /\ at' = at /\ UNCHANGED <<given, wait, cancels, outcome>>
  /\ \A d \in Calls \ {c} :
       st'[d] = st[d] /\ out'[d] = out[d] /\ endedWith'[d] = endedWith[d] /\ ends'[d] = ends[d]
  /\ \/ st'[c] = st[c] /\ out' = out /\ endedWith' = endedWith /\ ends' = ends
     \/ /\ \/ st[c] = "queued" /\ st'[c] \in {"never", "execute"}
           \/ st[c] \in {"hook", "ending"} /\ st'[c] = "failed"
           \/ st[c] = "ending" /\ st'[c] = "done"
        /\ out' = out /\ endedWith' = endedWith /\ ends' = ends
     \/ /\ st[c] = "execute" /\ c \notin abandoned /\ st'[c] = "hook"
        /\ endedWith' = endedWith /\ ends' = ends
     \/ /\ st[c] \in {"execute", "hook"} /\ c \in abandoned /\ st'[c] = "done"
        /\ endedWith'[c] # "none" /\ ends' = ends
     \/ /\ st[c] = "hook" /\ c \notin abandoned /\ st'[c] = "ending"
        /\ out'[c] \in {"shown", "cut"} /\ endedWith'[c] # "none" /\ ends'[c] = ends[c] + 1

\* The types of what such a step changes.
CallTypes ==
  /\ st' \in [Calls -> {"new", "ready", "done", "never", "failed"} \cup Running]
  /\ out' \in [Calls -> Held] /\ endedWith' \in [Calls -> Held]
  /\ ends' \in [Calls -> Nat]
  /\ hits' \subseteq {Turn} \cup Calls /\ reached' \subseteq {Turn} \cup Calls
  /\ seen' \in BOOLEAN

LEMMA EndEventMoves ==
  ASSUME TypeOK, NEW c \in Calls, NEW k \in {"shown", "cut"}, EndEvent(c, k), st[c] = "hook"
  PROVE  /\ st' \in [Calls -> {"new", "ready", "done", "never", "failed"} \cup Running]
         /\ out' \in [Calls -> Held] /\ endedWith' \in [Calls -> Held] /\ ends' \in [Calls -> Nat]
         /\ \A d \in Calls \ {c} :
              st'[d] = st[d] /\ out'[d] = out[d] /\ endedWith'[d] = endedWith[d] /\ ends'[d] = ends[d]
         /\ endedWith'[c] # "none" /\ out'[c] \in {"shown", "cut"}
         /\ \/ c \in abandoned /\ st'[c] = "done" /\ ends' = ends
            \/ c \notin abandoned /\ st'[c] = "ending" /\ ends'[c] = ends[c] + 1
<1> USE DEF TypeOK, Running, Held
<1>1. /\ out' = [out EXCEPT ![c] = k] /\ endedWith' = [endedWith EXCEPT ![c] = k]
      /\ \/ c \in abandoned /\ st' = [st EXCEPT ![c] = "done"] /\ ends' = ends
         \/ c \notin abandoned /\ st' = [st EXCEPT ![c] = "ending"] /\ ends' = [ends EXCEPT ![c] = @ + 1]
  BY DEF EndEvent
<1>2. out' \in [Calls -> Held] /\ endedWith' \in [Calls -> Held]
  BY <1>1
<1>3. st' \in [Calls -> {"new", "ready", "done", "never", "failed"} \cup Running]
  BY <1>1
<1>4. ends' \in [Calls -> Nat]
  <2>1. \A n \in Nat : n + 1 \in Nat
    OBVIOUS
  <2> QED
    BY <1>1, <2>1
<1> QED
  BY <1>1, <1>2, <1>3, <1>4

LEMMA CallMoves ==
  ASSUME TypeOK, NEW c \in Calls, Progress(c) \/ Tool(c)
  PROVE  CallMove(c) /\ CallTypes
<1> USE DEF TypeOK, given, wait
<1>0. Task(c) \in {Turn} \cup Calls
  BY DEF Task
<1>1. CASE FirstStep(c)
  BY <1>1 DEF FirstStep, CallMove, CallTypes, Running
<1>2. CASE ToolReturns(c)
  BY <1>2 DEF ToolReturns, Settles, CallMove, CallTypes, Running, Held
<1>3. CASE ToolCut(c)
  <2>1. CASE UNCHANGED <<own, reached, seen>>
    BY <1>3, <2>1 DEF ToolCut, own, CallMove, CallTypes, Running
  <2>2. ASSUME NEW k \in {"raw", "cut"}, Settles(c, k), Noted(Task(c)) PROVE CallMove(c) /\ CallTypes
    <3>1. seen' \in BOOLEAN /\ reached' \subseteq {Turn} \cup Calls /\ hits' \subseteq {Turn} \cup Calls
      BY <1>0, <1>3, <2>2 DEF ToolCut, Noted
    <3> QED
      BY <1>3, <2>2, <3>1 DEF ToolCut, Settles, CallMove, CallTypes, Running, Held
  <2> QED
    BY <1>3, <2>1, <2>2 DEF ToolCut
<1>4. ASSUME NEW k \in {"shown", "cut"}, EndEvent(c, k), st[c] = "hook", UNCHANGED <<pc, at, given, wait, cancels, outcome>>,
             hits' = hits \ {Task(c)}, UNCHANGED <<reached, seen>> \/ Noted(Task(c))
      PROVE  CallMove(c) /\ CallTypes
  <2>1. seen' \in BOOLEAN /\ reached' \subseteq {Turn} \cup Calls /\ hits' \subseteq {Turn} \cup Calls
    BY <1>0, <1>4 DEF Noted
  <2>2. CallTypes
    BY <1>4, <2>1, EndEventMoves DEF CallTypes
  <2>3. CallMove(c)
    BY <1>4, EndEventMoves DEF CallMove, Running
  <2> QED
    BY <2>2, <2>3
<1>5. CASE HookReturns(c)
  BY <1>4, <1>5 DEF HookReturns
<1>6. CASE HookCut(c)
  <2>1. CASE UNCHANGED own
    <3>1. seen' \in BOOLEAN /\ reached' \subseteq {Turn} \cup Calls /\ hits' \subseteq {Turn} \cup Calls
      BY <1>0, <1>6 DEF HookCut, Noted
    <3> QED
      BY <1>6, <2>1, <3>1 DEF HookCut, own, CallMove, CallTypes, Running
  <2> QED
    BY <1>4, <1>6, <2>1 DEF HookCut, Withheld
<1>7. CASE HookRaises(c)
  <2>1. CASE EndEvent(c, Withheld)
    BY <1>4, <1>7, <2>1 DEF HookRaises, Withheld
  <2>2. CASE st' = [st EXCEPT ![c] = "failed"] /\ UNCHANGED <<out, endedWith, ends>>
    BY <1>7, <2>2 DEF HookRaises, CallMove, CallTypes, Running
  <2> QED
    BY <1>7, <2>1, <2>2 DEF HookRaises
<1>8. CASE CallEnds(c)
  <2>1. seen' \in BOOLEAN /\ reached' \subseteq {Turn} \cup Calls /\ hits' \subseteq {Turn} \cup Calls
    BY <1>0, <1>8 DEF CallEnds, Noted
  <2> QED
    BY <1>8, <2>1 DEF CallEnds, CallMove, CallTypes, Running
<1>9. CASE EndRaises(c)
  BY <1>9 DEF EndRaises, CallMove, CallTypes, Running
<1> QED
  BY <1>1, <1>2, <1>3, <1>5, <1>6, <1>7, <1>8, <1>9 DEF Progress, Tool

-----------------------------------------------------------------------------
LEMMA Initially == Init => IInv
<1> SUFFICES ASSUME Init PROVE IInv
  OBVIOUS
<1>1. TypeOK
  <2>1. kind \in Kinds /\ kind.cancels \in Nat /\ 0 \in 0..kind.cancels
    BY BatchAssumption DEF Init
  <2>2. at \in Calls /\ log \in Seq(Calls) /\ ends \in [Calls -> Nat]
    BY BatchAssumption DEF Init, Calls
  <2>3. /\ st \in [Calls -> {"new", "ready", "done", "never", "failed"} \cup Running]
        /\ out \in [Calls -> Held] /\ endedWith \in [Calls -> Held] /\ result \in [Calls -> Held]
    BY DEF Init, Held
  <2> QED
    BY <2>1, <2>2, <2>3 DEF Init, TypeOK, MaxCancels
<1>2. Places /\ Phases /\ InTurn /\ Sent /\ Gathered
  BY BatchAssumption
     DEF Init, Places, Phases, InTurn, Sent, Gathered, Calls, Begun, Running
<1>3. Committed
  <2>1. log = <<>> /\ DOMAIN log = {} /\ outcome = "none" /\ at = 1 /\ pc = "prepare"
    BY DEF Init
  <2>2. \A c \in Calls : ~(c < at)
    BY <2>1, BatchAssumption DEF Calls
  <2> QED
    BY <2>1, <2>2 DEF Committed
<1> QED
  BY <1>1, <1>2, <1>3 DEF IInv

-----------------------------------------------------------------------------
\* What the batch's own passes over the calls leave is of its type.
LEMMA CommitTypes ==
  ASSUME TypeOK, NEW k \in Nat, NEW res, NEW C \in BOOLEAN, NEW R, CommitFrom(k, res, C, R)
  PROVE  /\ pc' \in {"commit", "over"} /\ at' \in Calls
         /\ outcome' \in {"none", "returned", "cancelled", "failed", "broken"}
BY CommitGoes DEF TypeOK

LEMMA EarlyTypes ==
  ASSUME TypeOK, NEW D, CancelledEarly(D)
  PROVE  /\ pc' \in {"commit", "over"} /\ at' \in Calls
         /\ outcome' \in {"none", "returned", "cancelled", "failed", "broken"}
         /\ result' \in [Calls -> Held] /\ cancelled' = TRUE
<1>1. CommitFrom(1, result', TRUE, reached) /\ cancelled' = TRUE /\ result' \in [Calls -> Held]
  BY DEF CancelledEarly, Held
<1> QED
  BY <1>1, CommitTypes

LEMMA GatherTypes ==
  ASSUME TypeOK, NEW k \in Nat \ {0}, NEW gone \in SUBSET Calls, NEW R, Gather(k, gone, result, R)
  PROVE  /\ pc' \in {"answer", "commit", "over"} /\ at' \in Calls
         /\ outcome' \in {"none", "returned", "cancelled", "failed", "broken"}
         /\ result' \in [Calls -> Held] /\ ends' \in [Calls -> Nat]
<1>1. PICK stop \in Nat :
           /\ result' = [c \in Calls |-> IF c < k \/ c > stop THEN result[c]
                                         ELSE IF c = stop THEN "cut"
                                         ELSE IF c \in gone THEN endedWith[c]
                                         ELSE IF st[c] = "done" THEN out[c] ELSE "none"]
           /\ \/ stop = N + 1 /\ ends' = ends /\ CommitFrom(1, result', FALSE, R)
              \/ /\ stop \in gone
                 /\ pc' = "answer" /\ at' = stop /\ outcome' = outcome
                 /\ ends' = [ends EXCEPT ![stop] = @ + 1]
  BY GatherMeans
<1>2. result' \in [Calls -> Held]
  BY <1>1 DEF TypeOK, Held
<1>3. CASE stop = N + 1 /\ ends' = ends /\ CommitFrom(1, result', FALSE, R)
  BY <1>2, <1>3, CommitTypes DEF TypeOK
<1>4. CASE /\ stop \in gone
           /\ pc' = "answer" /\ at' = stop /\ outcome' = outcome
           /\ ends' = [ends EXCEPT ![stop] = @ + 1]
  <2>1. \A n \in Nat : n + 1 \in Nat
    OBVIOUS
  <2> QED
    BY <1>2, <1>4, <2>1 DEF TypeOK
<1> QED
  BY <1>1, <1>3, <1>4

LEMMA NextCallTypes ==
  ASSUME TypeOK, NEW k \in Nat \ {0}, NEW S, S \in [Calls -> {"new", "ready", "done", "never", "failed"} \cup Running],
         NextCall(k, S)
  PROVE  /\ pc' \in {"prepare", "wait", "commit", "over"} /\ at' \in Calls
         /\ outcome' \in {"none", "returned", "cancelled", "failed", "broken"}
         /\ result' \in [Calls -> Held] /\ cancelled' \in BOOLEAN
         /\ st' \in [Calls -> {"new", "ready", "done", "never", "failed"} \cup Running]
         /\ base' \in 0..MaxCancels
<1>1. CASE More(k)
  <2>1. st' = S /\ base' = base
    BY <1>1 DEF NextCall
  <2>2. CASE CancelledEarly({c \in Calls : S[c] = "done"})
    BY <2>1, <2>2, EarlyTypes DEF TypeOK
  <2>3. CASE pc' = "prepare" /\ at' = k /\ UNCHANGED <<result, cancelled, outcome>>
    BY <1>1, <2>1, <2>3, BatchAssumption DEF TypeOK, More, Calls
  <2> QED
    BY <1>1, <2>2, <2>3 DEF NextCall
<1>2. CASE ~More(k)
  BY <1>2 DEF NextCall, TypeOK, Running
<1> QED
  BY <1>1, <1>2

LEMMA AfterCommitTypes ==
  ASSUME TypeOK, NEW R, AfterCommit(R)
  PROVE  /\ pc' \in {"prepare", "commit", "over"} /\ at' \in Calls
         /\ outcome' \in {"none", "returned", "cancelled", "failed", "broken"}
<1>0. at \in Nat /\ at + 1 \in Nat
  BY BatchAssumption DEF TypeOK, Calls
<1>1. CASE CommitFrom(at + 1, result, cancelled, R)
  BY <1>0, <1>1, CommitTypes DEF TypeOK
<1>2. CASE Ends("cancelled") \/ Ends("returned")
  BY <1>2 DEF Ends, TypeOK
<1>3. CASE at # N /\ pc' = "prepare" /\ at' = at + 1 /\ UNCHANGED outcome
  BY <1>3, BatchAssumption DEF TypeOK, Calls
<1> QED
  BY <1>1, <1>2, <1>3 DEF AfterCommit

LEMMA TypesKept ==
  ASSUME TypeOK, [Next]_vars
  PROVE  TypeOK'
<1> USE DEF TypeOK, own, given, wait, Parallel, MaxCancels
<1>0. at \in Nat /\ at + 1 \in Nat \ {0}
  BY BatchAssumption DEF Calls
<1>1. CASE Instant /\ kind' = kind
  <2>1. \A n \in Nat : n + 1 \in Nat
    OBVIOUS
  <2> QED
    BY <1>1, <2>1 DEF Instant, Running, Held
<1>2. CASE Ready /\ kind' = kind
  <2>1. [st EXCEPT ![at] = "ready"] \in [Calls -> {"new", "ready", "done", "never", "failed"} \cup Running]
    OBVIOUS
  <2>2. CASE NextCall(at + 1, [st EXCEPT ![at] = "ready"])
    BY <1>0, <1>2, <2>1, <2>2, NextCallTypes DEF Ready
  <2>3. CASE Ends("cancelled") /\ UNCHANGED st /\ UNCHANGED <<result, cancelled, base>>
    BY <1>2, <2>3 DEF Ready, Ends
  <2>4. CASE /\ pc' = "call" /\ st' = [st EXCEPT ![at] = "execute"] /\ UNCHANGED <<at, outcome>>
             /\ UNCHANGED <<result, cancelled, base>>
    BY <1>2, <2>4 DEF Ready, Running
  <2> QED
    BY <1>2, <2>2, <2>3, <2>4 DEF Ready
<1>3. CASE InstantEnds /\ kind' = kind
  BY <1>0, <1>3, NextCallTypes DEF InstantEnds
<1>4. CASE PrepareCut /\ kind' = kind
  <2>1. CASE CancelledEarly(Instants)
    BY <1>4, <2>1, EarlyTypes DEF PrepareCut
  <2>2. CASE Ends("cancelled") /\ UNCHANGED <<result, cancelled>>
    BY <1>4, <2>2 DEF PrepareCut, Ends
  <2> QED
    BY <1>4, <2>1, <2>2 DEF PrepareCut
<1>5. CASE PrepareBreaks /\ kind' = kind
  BY <1>5 DEF PrepareBreaks, Ends
<1>6. CASE (CallCommits \/ CallFails) /\ kind' = kind
  BY <1>6 DEF CallCommits, CallFails, Ends
<1>7. CASE (WaitEnds \/ GraceEnds) /\ kind' = kind
  <2>1. Stragglers \in SUBSET Calls
    BY DEF Stragglers
  <2>2. abandoned' = Stragglers /\ Gather(1, Stragglers, result, reached)
    BY <1>7 DEF WaitEnds, GraceEnds, Collect
  <2>3. /\ pc' \in {"answer", "commit", "over"} /\ at' \in Calls
        /\ outcome' \in {"none", "returned", "cancelled", "failed", "broken"}
        /\ result' \in [Calls -> Held] /\ ends' \in [Calls -> Nat]
    <3>1. TypeOK /\ 1 \in Nat \ {0} /\ Gather(1, Stragglers, result, reached)
      BY <2>2
    <3> HIDE DEF TypeOK
    <3> QED
      BY <2>1, <3>1, GatherTypes
  <2> QED
    BY <1>7, <2>1, <2>2, <2>3 DEF WaitEnds, GraceEnds
<1>8. CASE (WaitFails \/ WaitCut) /\ kind' = kind
  BY <1>8 DEF WaitFails, WaitCut, CancelCalls
<1>9. CASE Answered /\ kind' = kind
  BY <1>0, <1>9, GatherTypes DEF Answered
<1>10. CASE (Commit \/ CommitCut \/ CommitRaises) /\ kind' = kind
  <2>1. log' \in {log, Append(log, at)} /\ lost' \in {lost, lost \cup {at}}
    BY <1>10 DEF Commit, CommitCut, CommitRaises
  <2>2. log' \in Seq(Calls) /\ lost' \subseteq Calls
    <3>1. at \in Calls /\ log \in Seq(Calls) /\ lost \subseteq Calls
      OBVIOUS
    <3>2. Append(log, at) \in Seq(Calls)
      BY <3>1
    <3> QED
      BY <2>1, <3>1, <3>2
  <2>3. reached' \subseteq {Turn} \cup Calls /\ seen' \in BOOLEAN
    BY <1>10 DEF Commit, CommitCut, CommitRaises, Noted
  <2>4. CASE AfterCommit(reached) \/ AfterCommit(reached')
    BY <1>10, <2>2, <2>3, <2>4, AfterCommitTypes DEF Commit, CommitCut, CommitRaises
  <2>5. CASE Ends("broken") \/ UNCHANGED <<pc, at, outcome>>
    BY <1>10, <2>2, <2>3, <2>5 DEF Commit, CommitCut, CommitRaises, Ends
  <2> QED
    BY <1>10, <2>4, <2>5 DEF Commit, CommitCut, CommitRaises
<1>11. CASE Cancel /\ kind' = kind
  <2>1. cancels' \in 0..MaxCancels
    BY <1>11, BatchAssumption DEF Cancel
  <2> QED
    BY <1>11, <2>1 DEF Cancel
<1>12. ASSUME NEW c \in Calls, Progress(c) \/ Tool(c), kind' = kind PROVE TypeOK'
  BY <1>12, CallMoves DEF CallMove, CallTypes
<1>13. CASE UNCHANGED vars
  BY <1>13 DEF vars
<1> QED
  BY <1>1, <1>2, <1>3, <1>4, <1>5, <1>6, <1>7, <1>8, <1>9, <1>10, <1>11, <1>12, <1>13 DEF Next, Batch

-----------------------------------------------------------------------------
\* A cancel of phase 1 commits what has a result; the next call's announcement is that, the next
\* call, or the start of the tasks.
LEMMA EarlyMeans ==
  ASSUME NEW D, CancelledEarly(D)
  PROVE  /\ result' = [c \in Calls |-> IF c \in D THEN "shown" ELSE "none"] /\ cancelled' = TRUE
         /\ \/ /\ \A c \in Calls : c \notin D
               /\ pc' = "over" /\ at' = at /\ outcome' \in {"cancelled", "failed"}
            \/ /\ pc' = "commit" /\ at' \in D /\ outcome' = outcome
               /\ \A c \in D \cap Calls : ~(c < at')
<1>1. /\ result' = [c \in Calls |-> IF c \in D THEN "shown" ELSE "none"] /\ cancelled' = TRUE
      /\ CommitFrom(1, result', TRUE, reached)
  BY DEF CancelledEarly
<1>2. \A c \in Calls : c \in Nat /\ c >= 1
  BY BatchAssumption DEF Calls
<1>3. \/ /\ \A c \in Calls : c >= 1 => result'[c] = "none"
         /\ pc' = "over" /\ at' = at /\ outcome' \in {"returned", "cancelled", "failed"}
         /\ outcome' # "returned"
      \/ /\ pc' = "commit" /\ at' \in Calls /\ at' >= 1 /\ result'[at'] # "none"
         /\ \A c \in Calls : 1 <= c /\ c < at' => result'[c] = "none"
         /\ outcome' = outcome
  BY <1>1, CommitMeans
<1> QED
  BY <1>1, <1>2, <1>3

LEMMA NextCallMeans ==
  ASSUME NEW k \in Nat, NEW S, NextCall(k, S)
  PROVE  \/ /\ Parallel /\ st' = S /\ base' = base
            /\ CancelledEarly({c \in Calls : S[c] = "done"})
         \/ /\ k <= N /\ st' = S /\ base' = base /\ pc' = "prepare" /\ at' = k
            /\ UNCHANGED <<result, cancelled, outcome>>
            /\ Parallel => ~Known(Turn, reached)
         \/ /\ k > N /\ st' = [c \in Calls |-> IF S[c] = "ready" THEN "queued" ELSE S[c]]
            /\ pc' = "wait" /\ at' = at /\ UNCHANGED <<result, cancelled, outcome>>
BY BatchAssumption DEF NextCall, More

\* Where the turn's own steps go, and what they know of a cancel.
LEMMA PlacesKept ==
  ASSUME IInv, [Next]_vars
  PROVE  Places'
<1> USE DEF IInv, TypeOK, Places, own, given, wait, Parallel
<1>0. at \in Nat /\ at + 1 \in Nat
  BY BatchAssumption DEF Calls
<1>1. CASE Instant /\ kind' = kind
  BY <1>1 DEF Instant
<1>2. CASE (Ready \/ InstantEnds) /\ kind' = kind
  <2>1. UNCHANGED <<abandoned, reached, seen>> /\ pc \in {"prepare", "instant"} /\ outcome = "none"
    BY <1>2 DEF Ready, InstantEnds
  <2>2. ASSUME NEW S, NextCall(at + 1, S), Parallel PROVE Places'
    <3>1. CASE CancelledEarly({c \in Calls : S[c] = "done"})
      BY <1>2, <2>1, <2>2, <3>1, EarlyMeans
    <3>2. CASE pc' \in {"prepare", "wait"} /\ UNCHANGED <<cancelled, outcome>>
      BY <1>2, <2>1, <2>2, <3>2
    <3> QED
      BY <1>0, <2>2, <3>1, <3>2, NextCallMeans
  <2>3. CASE ~Parallel
    BY <1>2, <2>1, <2>3 DEF Ready, InstantEnds, Ends
  <2> QED
    BY <1>2, <2>2, <2>3 DEF Ready, InstantEnds
<1>3. CASE PrepareCut /\ kind' = kind
  <2>1. CASE CancelledEarly(Instants)
    BY <1>3, <2>1, EarlyMeans DEF PrepareCut
  <2>2. CASE Ends("cancelled") /\ UNCHANGED <<result, cancelled>>
    BY <1>3, <2>2 DEF PrepareCut, Ends
  <2> QED
    BY <1>3, <2>1, <2>2 DEF PrepareCut
<1>4. CASE (PrepareBreaks \/ CallCommits \/ CallFails) /\ kind' = kind
  BY <1>4 DEF PrepareBreaks, CallCommits, CallFails, Ends
<1>5. ASSUME NEW k \in Nat \ {0}, NEW gone \in SUBSET Calls, Gather(k, gone, result, reached),
             pc \in {"wait", "grace", "answer"}, UNCHANGED <<kind, reached, cancelled, seen>>
      PROVE  Places'
  <2>1. \/ pc' = "over" /\ outcome' \in {"returned", "cancelled", "failed"}
        \/ pc' \in {"commit", "answer"} /\ outcome' = outcome
    BY <1>5, GatherGoes
  <2> QED
    BY <1>5, <2>1
<1>6. CASE (WaitEnds \/ GraceEnds) /\ kind' = kind
  <2>1. Stragglers \in SUBSET Calls /\ 1 \in Nat \ {0}
    BY DEF Stragglers
  <2> QED
    BY <1>5, <1>6, <2>1 DEF WaitEnds, GraceEnds, Collect
<1>7. CASE Answered /\ kind' = kind
  <2>1. at + 1 \in Nat \ {0}
    BY <1>0
  <2> QED
    BY <1>5, <1>7, <2>1 DEF Answered
<1>8. CASE WaitFails /\ kind' = kind
  BY <1>8 DEF WaitFails, CancelCalls
<1>9. CASE WaitCut /\ kind' = kind
  <2>1. Turn \in reached'
    BY <1>9 DEF WaitCut, CancelCalls
  <2> QED
    BY <1>9, <2>1 DEF WaitCut
<1>10. ASSUME NEW R, AfterCommit(R), pc = "commit", UNCHANGED <<kind, abandoned, cancelled>>,
              seen' => Turn \in reached' \/ cancelled'
       PROVE  Places'
  <2>1. CASE Parallel /\ CommitFrom(at + 1, result, cancelled, R)
    <3>1. (pc' = "over" /\ outcome' # "none") \/ (pc' = "commit" /\ outcome' = outcome)
      BY <1>0, <2>1, CommitGoes
    <3> QED
      BY <1>10, <2>1, <3>1
  <2>2. CASE ~Parallel /\ (Ends("cancelled") \/ Ends("returned"))
    BY <1>10, <2>2 DEF Ends
  <2>3. CASE ~Parallel /\ pc' = "prepare" /\ UNCHANGED outcome
    BY <1>10, <2>3
  <2> QED
    BY <1>10, <2>1, <2>2, <2>3 DEF AfterCommit
<1>11. CASE (Commit \/ CommitCut \/ CommitRaises) /\ kind' = kind
  <2>1. /\ UNCHANGED <<abandoned, cancelled>> /\ pc = "commit"
        /\ seen' => Turn \in reached' \/ cancelled'
    BY <1>11 DEF Commit, CommitCut, CommitRaises, Noted
  <2>2. CASE AfterCommit(reached) \/ AfterCommit(reached')
    BY <1>10, <1>11, <2>1, <2>2
  <2>3. CASE Ends("broken") \/ UNCHANGED <<pc, outcome>>
    BY <1>11, <2>1, <2>3 DEF Ends
  <2> QED
    BY <1>11, <2>2, <2>3 DEF Commit, CommitCut, CommitRaises
<1>12. CASE Cancel /\ kind' = kind
  BY <1>12 DEF Cancel
<1>13. ASSUME NEW c \in Calls, Progress(c) \/ Tool(c), kind' = kind PROVE Places'
  <2>1. UNCHANGED <<pc, at, abandoned, cancelled, outcome>>
    BY <1>13, CallMoves DEF CallMove
  <2>2. seen' => Turn \in reached' \/ cancelled \/ pc = "over"
    BY <1>13 DEF Progress, Tool, FirstStep, ToolReturns, ToolCut, HookReturns, HookCut, HookRaises,
                 CallEnds, EndRaises, Noted
  <2> QED
    BY <1>13, <2>1, <2>2
<1>14. CASE UNCHANGED vars
  BY <1>14 DEF vars
<1> QED
  BY <1>1, <1>2, <1>3, <1>4, <1>6, <1>7, <1>8, <1>9, <1>11, <1>12, <1>13, <1>14 DEF Next, Batch

LEMMA PhasesKept ==
  ASSUME IInv, [Next]_vars
  PROVE  Phases'
<1> USE DEF IInv, TypeOK, Places, Phases, own, given, wait, Parallel
<1>0. at \in Nat /\ at + 1 \in Nat /\ \A c \in Calls : c \in Nat
  BY BatchAssumption DEF Calls
<1>1. CASE Instant /\ kind' = kind
  BY <1>0, <1>1 DEF Instant
<1>2. CASE (Ready \/ InstantEnds) /\ kind' = kind
  <2>1. UNCHANGED <<abandoned, reached, seen>> /\ pc \in {"prepare", "instant"}
    BY <1>2 DEF Ready, InstantEnds
  <2>2. ASSUME NEW S \in [Calls -> {"new", "ready", "done"}], NextCall(at + 1, S), Parallel,
               \A c \in Calls : c > at => S[c] = "new", \A c \in Calls : c <= at => S[c] \in {"ready", "done"}
        PROVE  Phases'
    <3>1. CASE st' = S /\ CancelledEarly({c \in Calls : S[c] = "done"})
      <4>1. \A c \in Calls : st'[c] \notin Running /\ st'[c] # "queued"
        BY <2>2, <3>1 DEF Running
      <4>2. pc' \in {"commit", "over"}
        BY <3>1, EarlyMeans
      <4> QED
        BY <4>1, <4>2
    <3>2. CASE st' = S /\ pc' = "prepare" /\ at' = at + 1
      <4>1. ASSUME NEW c \in Calls
            PROVE  st'[c] \in IF c > at' THEN {"new"} ELSE IF c < at' THEN {"ready", "done"} ELSE {"new"}
        BY <1>0, <2>2, <3>2
      <4> QED
        BY <3>2, <4>1
    <3>3. CASE /\ at + 1 > N /\ st' = [c \in Calls |-> IF S[c] = "ready" THEN "queued" ELSE S[c]]
               /\ pc' = "wait"
      <4>1. \A c \in Calls : c <= at
        BY <1>0, <3>3, BatchAssumption DEF Calls
      <4>2. \A c \in Calls : st'[c] \in {"queued", "done"}
        BY <2>2, <3>3, <4>1
      <4> QED
        BY <3>3, <4>2
    <3> QED
      BY <1>0, <2>2, <3>1, <3>2, <3>3, NextCallMeans
  <2>3. CASE Parallel /\ Ready
    <3> DEFINE S == [st EXCEPT ![at] = "ready"]
    <3>1. NextCall(at + 1, S)
      BY <2>3 DEF Ready
    <3>2. /\ \A c \in Calls : S[c] \in IF c > at THEN {"new"} ELSE {"ready", "done"}
          /\ S \in [Calls -> {"new", "ready", "done"}]
      BY <1>0, <2>1, <2>3 DEF Ready
    <3>3. \A c \in Calls : (c > at \/ c <= at) /\ ~(c > at /\ c <= at)
      BY <1>0
    <3> HIDE DEF S
    <3> QED
      BY <2>2, <2>3, <3>1, <3>2, <3>3
  <2>4. CASE Parallel /\ InstantEnds
    <3>1. NextCall(at + 1, st)
      BY <2>4 DEF InstantEnds
    <3>2. /\ \A c \in Calls : st[c] \in IF c > at THEN {"new"} ELSE {"ready", "done"}
          /\ st \in [Calls -> {"new", "ready", "done"}]
      BY <1>0, <2>1, <2>4 DEF InstantEnds
    <3>3. \A c \in Calls : (c > at \/ c <= at) /\ ~(c > at /\ c <= at)
      BY <1>0
    <3> QED
      BY <2>2, <2>4, <3>1, <3>2, <3>3
  <2>5. CASE ~Parallel
    BY <1>2, <2>5
  <2> QED
    BY <1>2, <2>3, <2>4, <2>5
<1>3. CASE PrepareCut /\ kind' = kind
  <2>1. CASE Parallel
    <3>1. pc' \in {"commit", "over"} /\ st' = st
      BY <1>3, <2>1, EarlyMeans DEF PrepareCut
    <3>2. \A c \in Calls : st[c] \in {"new", "ready", "done"}
      BY <1>0, <1>3, <2>1 DEF PrepareCut
    <3> QED
      BY <3>1, <3>2 DEF Running
  <2>2. CASE ~Parallel
    BY <1>3, <2>2
  <2> QED
    BY <2>1, <2>2
<1>4. CASE PrepareBreaks /\ kind' = kind
  <2>1. CASE Parallel
    <3>1. \A c \in Calls : st[c] \in {"new", "ready", "done"}
      BY <1>0, <1>4, <2>1 DEF PrepareBreaks
    <3> QED
      BY <1>4, <3>1 DEF PrepareBreaks, Ends, Running
  <2>2. CASE ~Parallel
    BY <1>4, <2>2
  <2> QED
    BY <2>1, <2>2
<1>5. CASE (CallCommits \/ CallFails) /\ kind' = kind
  BY <1>5 DEF CallCommits, CallFails
<1>6. ASSUME NEW k \in Nat \ {0}, NEW gone \in SUBSET Calls, Gather(k, gone, result, reached), abandoned' = gone,
             UNCHANGED <<kind, st>>,
             \A c \in Calls : st[c] \notin {"new", "ready", "queued"} /\ (st[c] \in Running => c \in gone)
      PROVE  Phases'
  <2>1. pc' \in {"answer", "commit", "over"}
    BY <1>6, GatherGoes
  <2> QED
    BY <1>6, <2>1
<1>7. CASE (WaitEnds \/ GraceEnds) /\ kind' = kind
  <2>1. Stragglers \in SUBSET Calls /\ 1 \in Nat \ {0} /\ \A c \in Calls : st[c] \in Running => c \in Stragglers
    BY DEF Stragglers
  <2>2. abandoned' = Stragglers /\ Gather(1, Stragglers, result, reached) /\ UNCHANGED <<kind, st>>
    BY <1>7 DEF WaitEnds, GraceEnds, Collect
  <2>3. \A c \in Calls : st[c] \notin {"new", "ready", "queued"}
    BY <1>7 DEF WaitEnds, GraceEnds, Running
  <2> QED
    BY <1>6, <2>1, <2>2, <2>3
<1>8. CASE Answered /\ kind' = kind
  <2>1. at + 1 \in Nat \ {0}
    BY <1>0
  <2>2. abandoned' = abandoned /\ Gather(at + 1, abandoned, result, reached) /\ UNCHANGED <<kind, st>>
    BY <1>8 DEF Answered
  <2>3. \A c \in Calls : st[c] \notin {"new", "ready", "queued"} /\ (st[c] \in Running => c \in abandoned)
    BY <1>8 DEF Answered
  <2> QED
    BY <1>6, <2>1, <2>2, <2>3
<1>9. CASE (WaitFails \/ WaitCut) /\ kind' = kind
  BY <1>9 DEF WaitFails, WaitCut
<1>10. CASE (Commit \/ CommitCut \/ CommitRaises) /\ kind' = kind
  <2>1. pc = "commit" /\ UNCHANGED <<st, abandoned>>
    BY <1>10 DEF Commit, CommitCut, CommitRaises
  <2>2. CASE Parallel
    <3>1. ASSUME NEW R, AfterCommit(R) PROVE pc' \in {"commit", "over"}
      BY <1>0, <2>2, <3>1, CommitGoes DEF AfterCommit
    <3>2. pc' \in {"commit", "over"}
      BY <1>10, <3>1 DEF Commit, CommitCut, CommitRaises, Ends
    <3> QED
      BY <1>10, <2>1, <3>2
  <2>3. CASE ~Parallel
    BY <1>10, <2>3
  <2> QED
    BY <2>2, <2>3
<1>11. CASE Cancel /\ kind' = kind
  BY <1>11 DEF Cancel
<1>12. ASSUME NEW c \in Calls, Progress(c) \/ Tool(c), kind' = kind PROVE Phases'
  <2>1. CallMove(c) /\ c \in Calls
    BY <1>12, CallMoves
  <2>2. CASE Parallel
    <3>1. pc \notin {"prepare", "instant"}
      <4>1. SUFFICES ASSUME pc \in {"prepare", "instant"} PROVE FALSE
        OBVIOUS
      <4>2. st[c] \in {"new", "ready", "done"}
        BY <1>0, <2>1, <2>2, <4>1
      <4> QED
        BY <2>1, <4>2 DEF CallMove, Running
    <3>2. \A d \in Calls : st'[d] = st[d] \/ d = c
      BY <2>1 DEF CallMove
    <3>3. /\ st'[c] \notin {"new", "ready"}
          /\ st[c] # "queued" => st'[c] # "queued"
      BY <2>1 DEF CallMove, Running
    <3>4. st[c] \in Running /\ pc' = pc /\ abandoned' = abandoned
      BY <2>1 DEF CallMove
    <3> QED
      BY <1>12, <2>1, <2>2, <3>1, <3>2, <3>3, <3>4
  <2>3. CASE ~Parallel
    BY <1>12, <2>3
  <2> QED
    BY <2>2, <2>3
<1>13. CASE UNCHANGED vars
  BY <1>13 DEF vars
<1> QED
  BY <1>1, <1>2, <1>3, <1>4, <1>5, <1>7, <1>8, <1>9, <1>10, <1>11, <1>12, <1>13 DEF Next, Batch

LEMMA InTurnKept ==
  ASSUME IInv, [Next]_vars
  PROVE  InTurn'
<1> USE DEF IInv, TypeOK, Places, InTurn, own, given, wait, Parallel
<1>0. at \in Nat /\ at + 1 \in Nat /\ \A c \in Calls : c \in Nat
  BY BatchAssumption DEF Calls
<1>k. kind' = kind
  BY DEF Next, vars
<1> SUFFICES ASSUME ~Parallel PROVE InTurn'
  BY <1>k
<1>1. CASE Instant
  BY <1>0, <1>1 DEF Instant, Running
<1>2. CASE Ready
  <2>1. \/ Ends("cancelled") /\ UNCHANGED st
        \/ pc' = "call" /\ st' = [st EXCEPT ![at] = "execute"] /\ UNCHANGED at
    BY <1>2 DEF Ready
  <2> QED
    BY <1>0, <1>2, <2>1 DEF Ready, Ends, Running
<1>3. CASE InstantEnds
  BY <1>3 DEF InstantEnds
<1>4. CASE PrepareCut
  BY <1>4 DEF PrepareCut, Ends, Running
<1>5. CASE PrepareBreaks
  BY <1>5 DEF PrepareBreaks, Ends, Running
<1>6. CASE CallCommits \/ CallFails
  BY <1>6 DEF CallCommits, CallFails, Ends, Running
<1>7. CASE WaitEnds \/ WaitFails \/ WaitCut \/ GraceEnds \/ Answered
  BY <1>7 DEF WaitEnds, WaitFails, WaitCut, GraceEnds, Answered
<1>8. CASE Commit \/ CommitCut \/ CommitRaises
  <2>1. pc = "commit" /\ UNCHANGED st
    BY <1>8 DEF Commit, CommitCut, CommitRaises
  <2>2. ASSUME NEW R, AfterCommit(R)
        PROVE  \/ pc' = "over" /\ at' = at
               \/ pc' = "prepare" /\ at' = at + 1 /\ at' \in Calls
    <3>1. at + 1 \in Calls \/ at = N
      BY BatchAssumption DEF Calls
    <3> QED
      BY <2>2, <3>1 DEF AfterCommit, Ends
  <2>3. \/ pc' \in {"commit", "over"} /\ at' = at
        \/ pc' = "prepare" /\ at' = at + 1 /\ at' \in Calls
    BY <1>8, <2>1, <2>2 DEF Commit, CommitCut, CommitRaises, Ends
  <2>4. \A c \in Calls : (c < at + 1 => c < at \/ c = at) /\ (c > at + 1 => c > at)
    BY <1>0
  <2>5. st[at] = "done" /\ at + 1 > at
    BY <1>0, <2>1
  <2> QED
    BY <1>k, <2>1, <2>3, <2>4, <2>5 DEF Running
<1>9. CASE Cancel
  BY <1>9 DEF Cancel
<1>10. ASSUME NEW c \in Calls, Progress(c) \/ Tool(c) PROVE InTurn'
  <2>1. CallMove(c)
    BY <1>10, CallMoves
  <2>2. abandoned = {} /\ pc' = pc /\ at' = at /\ st[c] \in Running
    BY <2>1 DEF CallMove
  <2>3. c = at
    BY <1>0, <2>2 DEF Running
  <2>4. pc = "call"
    BY <2>2, <2>3 DEF Running
  <2>5. \A d \in Calls \ {c} : st'[d] = st[d]
    BY <2>1 DEF CallMove
  <2>6. st'[at] \in {"execute", "hook", "ending", "done", "failed"}
    BY <2>1, <2>2, <2>3, <2>4 DEF CallMove
  <2> QED
    BY <1>0, <1>k, <2>2, <2>3, <2>4, <2>5, <2>6
<1>11. CASE UNCHANGED vars
  BY <1>11 DEF vars
<1> QED
  BY <1>1, <1>2, <1>3, <1>4, <1>5, <1>6, <1>7, <1>8, <1>9, <1>10, <1>11 DEF Next, Batch

-----------------------------------------------------------------------------
\* The gathering leaves an abandoned call that it has not answered for without an end event.
LEMMA GatherSends ==
  ASSUME TypeOK, Sent, Phases, Parallel, kind' = kind, NEW k \in Nat \ {0}, NEW gone \in SUBSET Calls, NEW R,
         Gather(k, gone, result, R), abandoned' = gone, UNCHANGED <<st, out, endedWith>>,
         abandoned \subseteq gone,
         \A c \in gone : c >= k /\ endedWith[c] = "none" => ends[c] = 0
  PROVE  Sent'
<1>0. \A c \in Calls : c \in Nat
  BY BatchAssumption DEF Calls
<1>1. PICK stop \in Nat :
        \/ ends' = ends /\ CommitFrom(1, result', FALSE, R)
        \/ /\ stop \in gone /\ stop >= k /\ endedWith[stop] = "none"
           /\ pc' = "answer" /\ at' = stop /\ ends' = [ends EXCEPT ![stop] = @ + 1]
  BY GatherMeans
<1> USE DEF TypeOK, Sent
<1>2. CASE ends' = ends /\ CommitFrom(1, result', FALSE, R)
  <2>1. pc' # "answer"
    BY <1>2, CommitGoes
  <2> QED
    BY <1>2, <2>1 DEF Parallel
<1>3. CASE /\ stop \in gone /\ stop >= k /\ endedWith[stop] = "none"
           /\ pc' = "answer" /\ at' = stop /\ ends' = [ends EXCEPT ![stop] = @ + 1]
  <2>1. ends[stop] = 0 /\ ends'[stop] = 1
    BY <1>3
  <2>2. \A c \in Calls \ {stop} : ends'[c] = ends[c]
    BY <1>3
  <2>3. ASSUME NEW c \in Calls PROVE ends'[c] <= 1
    <3>1. CASE c = stop
      BY <2>1, <3>1
    <3>2. CASE c # stop
      BY <2>2, <3>2
    <3> QED
      BY <3>1, <3>2
  <2>4. \A c \in Calls \ gone : ends'[c] = ends[c] /\ c \notin abandoned
    BY <1>3, <2>2
  <2>5. ASSUME NEW c \in gone, c > stop, endedWith[c] = "none" PROVE ends'[c] = 0
    <3>1. c >= k /\ c # stop
      BY <1>0, <1>3, <2>5
    <3> QED
      BY <2>2, <2>5, <3>1
  <2> QED
    BY <1>3, <2>3, <2>4, <2>5 DEF Parallel
<1> QED
  BY <1>1, <1>2, <1>3

LEMMA SentKept ==
  ASSUME IInv, [Next]_vars
  PROVE  Sent'
<1> USE DEF IInv, TypeOK, Places, own, given, wait, Parallel
<1>0. at \in Nat /\ at + 1 \in Nat /\ \A c \in Calls : c \in Nat
  BY BatchAssumption DEF Calls
<1>k. kind' = kind
  BY DEF Next, vars
\* Where only the place in the batch moves, nothing that a call sent is touched.
<1>s. ASSUME UNCHANGED <<out, endedWith, ends, abandoned>>, pc' # "answer",
             \A c \in Calls : \/ st'[c] = st[c]
                              \/ st[c] \in {"new", "ready"} /\ st'[c] \in {"ready", "queued", "execute"}
      PROVE  Sent'
  BY <1>k, <1>s DEF Sent
<1>1. CASE Instant
  <2>1. at \notin abandoned /\ st[at] = "new" /\ ends[at] = 0 /\ pc' # "answer"
    BY <1>0, <1>1 DEF Instant, Sent, Phases, InTurn
  <2>2. /\ \A c \in Calls \ {at} : st'[c] = st[c] /\ out'[c] = out[c] /\ ends'[c] = ends[c]
        /\ st'[at] = (IF Parallel THEN "done" ELSE "ending") /\ out'[at] = "shown" /\ ends'[at] = 1
        /\ UNCHANGED <<endedWith, abandoned>>
    BY <1>1, <2>1 DEF Instant
  <2> QED
    BY <1>k, <2>1, <2>2 DEF Sent
<1>2. ASSUME NEW S \in [Calls -> {"new", "ready", "done", "never", "failed"} \cup Running], NextCall(at + 1, S),
             UNCHANGED <<out, endedWith, ends, abandoned>>,
             \A c \in Calls : S[c] = st[c] \/ (st[c] = "new" /\ S[c] = "ready")
      PROVE  Sent'
  <2>1. pc' # "answer"
    <3>1. CASE CancelledEarly({c \in Calls : S[c] = "done"})
      BY <3>1, EarlyMeans
    <3> QED
      BY <1>0, <1>2, <3>1, NextCallMeans
  <2>2. ASSUME NEW c \in Calls
        PROVE  \/ st'[c] = st[c]
               \/ st[c] \in {"new", "ready"} /\ st'[c] \in {"ready", "queued", "execute"}
    <3>1. st'[c] = S[c] \/ (S[c] = "ready" /\ st'[c] = "queued")
      BY ZenonT(60), <1>0, <1>2, NextCallMeans
    <3> QED
      BY <1>2, <3>1
  <2> QED
    BY <1>2, <1>s, <2>1, <2>2
<1>3. CASE Ready
  <2>1. UNCHANGED <<out, endedWith, ends, abandoned>> /\ st[at] = "new"
    BY <1>0, <1>3 DEF Ready, Phases, InTurn
  <2>2. CASE NextCall(at + 1, [st EXCEPT ![at] = "ready"])
    <3> DEFINE S == [st EXCEPT ![at] = "ready"]
    <3>1. /\ S \in [Calls -> {"new", "ready", "done", "never", "failed"} \cup Running]
          /\ \A c \in Calls : S[c] = st[c] \/ (st[c] = "new" /\ S[c] = "ready")
      BY <2>1
    <3> HIDE DEF S
    <3> QED
      BY <1>2, <2>1, <2>2, <3>1 DEF S
  <2>3. CASE Ends("cancelled") /\ UNCHANGED st
    BY <1>s, <2>1, <2>3 DEF Ends
  <2>4. CASE pc' = "call" /\ st' = [st EXCEPT ![at] = "execute"]
    BY <1>s, <2>1, <2>4
  <2> QED
    BY <1>3, <2>2, <2>3, <2>4 DEF Ready
<1>4. CASE InstantEnds
  BY <1>2, <1>4 DEF InstantEnds
<1>5. CASE PrepareCut
  <2>1. pc' # "answer"
    BY <1>5, EarlyMeans DEF PrepareCut, Ends
  <2> QED
    BY <1>5, <1>s, <2>1 DEF PrepareCut
<1>6. CASE PrepareBreaks \/ CallCommits \/ CallFails
  BY <1>6, <1>s DEF PrepareBreaks, CallCommits, CallFails, Ends
<1>7. CASE WaitEnds \/ GraceEnds
  <2>1. /\ Stragglers \in SUBSET Calls /\ 1 \in Nat \ {0} /\ abandoned = {}
        /\ \A c \in Stragglers : endedWith[c] = "none" => ends[c] = 0
    BY <1>7 DEF Stragglers, WaitEnds, GraceEnds, Sent, Running
  <2>2. /\ abandoned' = Stragglers /\ Gather(1, Stragglers, result, reached)
        /\ UNCHANGED <<kind, st, out, endedWith>> /\ Parallel
    BY <1>k, <1>7 DEF WaitEnds, GraceEnds, Collect
  <2> QED
    BY <2>1, <2>2, GatherSends
<1>8. CASE Answered
  <2>1. at + 1 \in Nat \ {0} /\ \A c \in abandoned : c >= at + 1 => c > at
    BY <1>0
  <2>2. \A c \in abandoned : c >= at + 1 /\ endedWith[c] = "none" => ends[c] = 0
    BY <1>8, <2>1 DEF Answered, Sent
  <2>3. /\ abandoned' = abandoned /\ Gather(at + 1, abandoned, result, reached)
        /\ UNCHANGED <<kind, st, out, endedWith>> /\ Parallel
    BY <1>k, <1>8 DEF Answered
  <2> QED
    BY <2>1, <2>2, <2>3, GatherSends
<1>9. CASE WaitFails \/ WaitCut
  BY <1>9, <1>s DEF WaitFails, WaitCut
<1>10. CASE Commit \/ CommitCut \/ CommitRaises
  <2>1. pc = "commit" /\ UNCHANGED <<st, out, endedWith, ends, abandoned>>
    BY <1>10 DEF Commit, CommitCut, CommitRaises
  <2>2. ASSUME NEW R, AfterCommit(R) PROVE pc' # "answer"
    BY <1>0, <2>2, CommitGoes DEF AfterCommit, Ends
  <2>3. pc' # "answer"
    BY <1>10, <2>2 DEF Commit, CommitCut, CommitRaises, Ends
  <2> QED
    BY <1>s, <2>1, <2>3
<1>11. CASE Cancel
  BY <1>k, <1>11 DEF Cancel, Sent
<1>12. ASSUME NEW c \in Calls, Progress(c) \/ Tool(c) PROVE Sent'
  <2>1. CallMove(c) /\ ends' \in [Calls -> Nat]
    BY <1>12, CallMoves DEF CallTypes
  <2>2. /\ pc' = pc /\ at' = at /\ abandoned' = abandoned
        /\ \A d \in Calls \ {c} :
             st'[d] = st[d] /\ out'[d] = out[d] /\ endedWith'[d] = endedWith[d] /\ ends'[d] = ends[d]
    BY <2>1 DEF CallMove
  <2>3. CASE c \in abandoned
    <3>1. ends'[c] = ends[c] /\ (endedWith'[c] = endedWith[c] \/ endedWith'[c] # "none")
      BY <2>1, <2>3 DEF CallMove
    <3>2. \A d \in Calls : ends'[d] <= 1
      BY <2>2, <3>1 DEF Sent
    <3>3. \A d \in Calls \ abandoned' : d \in Calls \ {c}
      BY <2>2, <2>3
    <3>4. \A d \in Calls \ abandoned' :
            /\ st'[d] \in {"new", "ready", "queued", "execute", "hook"} => ends'[d] = 0 /\ endedWith'[d] = "none"
            /\ st'[d] \in {"ending", "done"} => ends'[d] = 1 /\ out'[d] \in {"shown", "cut"}
            /\ Parallel' /\ st'[d] = "ending" => endedWith'[d] # "none"
      BY <1>k, <2>2, <3>3 DEF Sent
    <3>5. \A d \in abandoned' : pc' = "answer" /\ d > at' /\ endedWith'[d] = "none" => ends'[d] = 0
      BY <2>2, <3>1 DEF Sent
    <3> QED
      BY <3>2, <3>4, <3>5 DEF Sent
  <2>4. CASE c \notin abandoned
    <3>1. /\ ends'[c] <= 1
          /\ st'[c] \in {"new", "ready", "queued", "execute", "hook"} => ends'[c] = 0 /\ endedWith'[c] = "none"
          /\ st'[c] \in {"ending", "done"} => ends'[c] = 1 /\ out'[c] \in {"shown", "cut"}
          /\ Parallel /\ st'[c] = "ending" => endedWith'[c] # "none"
      <4>1. /\ ends[c] <= 1 /\ ends[c] \in Nat
            /\ st[c] \in {"new", "ready", "queued", "execute", "hook"} => ends[c] = 0 /\ endedWith[c] = "none"
            /\ st[c] \in {"ending", "done"} => ends[c] = 1 /\ out[c] \in {"shown", "cut"}
            /\ Parallel /\ st[c] = "ending" => endedWith[c] # "none"
        BY <2>4 DEF Sent
      <4> QED
        BY <2>1, <2>4, <4>1 DEF CallMove, Running
    <3>2. ASSUME NEW d \in Calls \ {c}
          PROVE  /\ ends'[d] <= 1
                 /\ d \in abandoned' /\ pc' = "answer" /\ d > at' /\ endedWith'[d] = "none" => ends'[d] = 0
                 /\ d \notin abandoned' =>
                      /\ st'[d] \in {"new", "ready", "queued", "execute", "hook"} => ends'[d] = 0 /\ endedWith'[d] = "none"
                      /\ st'[d] \in {"ending", "done"} => ends'[d] = 1 /\ out'[d] \in {"shown", "cut"}
                      /\ Parallel /\ st'[d] = "ending" => endedWith'[d] # "none"
      BY <2>2 DEF Sent
    <3>3. abandoned' \subseteq Calls \ {c}
      BY <2>2, <2>4
    <3> QED
      BY <1>k, <3>1, <3>2, <3>3 DEF Sent
  <2> QED
    BY <2>3, <2>4
<1>13. CASE UNCHANGED vars
  BY <1>k, <1>13 DEF vars, Sent
<1> QED
  BY <1>1, <1>3, <1>4, <1>5, <1>6, <1>7, <1>8, <1>9, <1>10, <1>11, <1>12, <1>13 DEF Next, Batch

-----------------------------------------------------------------------------
\* A gathering gives every call that began its result, up to the one it stops to answer for.
LEMMA GatherGathers ==
  ASSUME TypeOK, Sent, Gathered, Parallel, kind' = kind, outcome = "none", NEW k \in Nat \ {0},
         NEW gone \in SUBSET Calls, NEW R, Gather(k, gone, result, R), abandoned' = gone, UNCHANGED <<st, out, endedWith>>,
         abandoned \subseteq gone,
         \A c \in Calls : st[c] \notin {"new", "ready", "queued"} /\ (st[c] \in Running => c \in gone),
         \A c \in Calls : c < k /\ Begun(c) /\ st[c] # "failed" => result[c] # "none"
  PROVE  Gathered'
<1>0. (\A c \in Calls : c \in Nat /\ c <= N) /\ N \in Nat /\ k \in Nat
  BY BatchAssumption DEF Calls
<1>1. PICK stop \in Nat :
        /\ result' = [c \in Calls |-> IF c < k \/ c > stop THEN result[c]
                                      ELSE IF c = stop THEN "cut"
                                      ELSE IF c \in gone THEN endedWith[c]
                                      ELSE IF st[c] = "done" THEN out[c] ELSE "none"]
        /\ \A c \in gone : k <= c /\ c < stop => endedWith[c] # "none"
        /\ \/ stop = N + 1 /\ ends' = ends /\ CommitFrom(1, result', FALSE, R)
           \/ /\ stop \in gone /\ stop >= k /\ endedWith[stop] = "none"
              /\ pc' = "answer" /\ at' = stop /\ outcome' = outcome
              /\ ends' = [ends EXCEPT ![stop] = @ + 1]
  BY GatherMeans
<1> USE DEF TypeOK
<1>2. ASSUME NEW c \in Calls \ gone PROVE c # stop /\ ends'[c] = ends[c]
  <2>1. CASE stop = N + 1 /\ ends' = ends
    BY <1>0, <2>1
  <2>2. CASE stop \in gone /\ ends' = [ends EXCEPT ![stop] = @ + 1]
    BY <2>2
  <2> QED
    BY <1>1, <2>1, <2>2
<1>3. ASSUME NEW c \in Calls \ gone, result'[c] # "none" PROVE ends'[c] = 1 /\ result'[c] # "raw"
  <2>1. result'[c] = result[c] \/ (st[c] = "done" /\ result'[c] = out[c])
    BY <1>1, <1>2, <1>3
  <2>2. c \notin abandoned
    OBVIOUS
  <2> QED
    BY <1>2, <1>3, <2>1, <2>2 DEF Sent, Gathered
<1>4. ASSUME NEW c \in Calls, c <= stop, Begun(c), st[c] # "failed" PROVE result'[c] # "none"
  <2>1. CASE c < k
    BY <1>1, <1>4, <2>1
  <2>2. CASE c = stop /\ ~(c < k)
    BY <1>0, <1>1, <2>2
  <2>3. CASE c \in gone /\ ~(c < k) /\ c # stop
    <3>1. k <= c /\ c < stop
      BY <1>0, <1>4, <2>3
    <3> QED
      BY <1>0, <1>1, <2>3, <3>1
  <2>4. CASE c \notin gone /\ ~(c < k) /\ c # stop
    <3>1. k <= c /\ c < stop /\ ~(c > stop)
      BY <1>0, <1>4, <2>4
    <3>2. st[c] = "done" /\ c \notin abandoned
      BY <1>4, <2>4 DEF Begun, Running
    <3>3. result'[c] = out[c]
      BY <1>1, <2>4, <3>1, <3>2
    <3> QED
      BY <3>2, <3>3 DEF Sent
  <2> QED
    BY <2>1, <2>2, <2>3, <2>4
<1>5. CASE stop = N + 1 /\ ends' = ends /\ CommitFrom(1, result', FALSE, R)
  <2>1. \A c \in Calls : c <= stop
    BY <1>0, <1>5
  <2>2. pc' = "over" \/ (pc' = "commit" /\ result'[at'] # "none")
    BY <1>5, CommitMeans
  <2> QED
    BY <1>3, <1>4, <2>1, <2>2 DEF Gathered, Begun, Parallel
<1>6. CASE pc' = "answer" /\ at' = stop
  BY <1>3, <1>4, <1>6 DEF Gathered, Begun, Parallel
<1> QED
  BY <1>1, <1>5, <1>6

LEMMA GatheredKept ==
  ASSUME IInv, [Next]_vars
  PROVE  Gathered'
<1> USE DEF IInv, TypeOK, Places, own, given, wait, Parallel
<1>0. at \in Nat /\ at + 1 \in Nat /\ \A c \in Calls : c \in Nat
  BY BatchAssumption DEF Calls
<1>k. kind' = kind
  BY DEF Next, vars
\* Where the batch has no results yet, or only its place moves.
<1>s. ASSUME UNCHANGED <<result, ends, abandoned>>, pc' \notin {"answer", "commit"}, pc' = "over" => pc = "over" \/ ~Parallel \/ outcome' = "broken",
             pc = "over" => UNCHANGED <<st, outcome>>
      PROVE  Gathered'
  BY <1>k, <1>s DEF Gathered, Begun
<1>1. CASE Instant
  <2>1. at \notin abandoned /\ ends[at] = 0 /\ result' = result /\ UNCHANGED abandoned
    BY <1>0, <1>1 DEF Instant, Sent, Phases, InTurn
  <2>2. \A c \in Calls \ {at} : ends'[c] = ends[c]
    BY <1>1 DEF Instant
  <2>3. result[at] = "none"
    BY <2>1 DEF Gathered
  <2>4. pc' \in {"instant", "call"}
    BY <1>1 DEF Instant
  <2> QED
    BY <1>k, <2>1, <2>2, <2>3, <2>4 DEF Gathered
<1>2. ASSUME NEW D \in SUBSET Calls, CancelledEarly(D), Parallel, UNCHANGED <<ends, abandoned>>,
             abandoned = {}, \A c \in Calls : st'[c] \in {"new", "ready", "done"},
             \A c \in Calls : c \in D <=> st'[c] = "done", \A c \in D : ends[c] = 1
      PROVE  Gathered'
  <2>1. /\ result' = [c \in Calls |-> IF c \in D THEN "shown" ELSE "none"]
        /\ pc' = "over" \/ (pc' = "commit" /\ at' \in D)
    BY <1>2, EarlyMeans
  <2> QED
    BY <1>k, <1>2, <2>1 DEF Gathered, Begun
<1>3. ASSUME NEW S \in [Calls -> {"new", "ready", "done"}], NextCall(at + 1, S), Parallel,
             UNCHANGED <<ends, abandoned>>, abandoned = {}, \A c \in Calls : S[c] = "done" => ends[c] = 1,
             pc \in {"prepare", "instant"}
      PROVE  Gathered'
  <2>1. CASE st' = S /\ CancelledEarly({c \in Calls : S[c] = "done"})
    BY <1>2, <1>3, <2>1
  <2>2. CASE pc' \in {"prepare", "wait"} /\ UNCHANGED result
    BY <1>s, <1>3, <2>2
  <2> QED
    BY <1>0, <1>3, <2>1, <2>2, NextCallMeans
<1>4. CASE Ready
  <2>1. CASE Parallel
    <3> DEFINE S == [st EXCEPT ![at] = "ready"]
    <3>1. NextCall(at + 1, S) /\ UNCHANGED <<ends, abandoned>> /\ abandoned = {}
      BY <1>4, <2>1 DEF Ready
    <3>2. \A c \in Calls : st[c] \in {"new", "ready", "done"}
      BY <1>0, <1>4, <2>1 DEF Ready, Phases
    <3>3. S \in [Calls -> {"new", "ready", "done"}]
      BY <3>2
    <3>4. \A c \in Calls : S[c] = "done" => ends[c] = 1
      BY <3>1 DEF Sent
    <3> HIDE DEF S
    <3> QED
      BY <1>3, <1>4, <2>1, <3>1, <3>3, <3>4 DEF Ready
  <2>2. CASE ~Parallel
    BY <1>k, <1>s, <1>4, <2>2 DEF Ready, Ends
  <2> QED
    BY <2>1, <2>2
<1>5. CASE InstantEnds
  <2>1. NextCall(at + 1, st) /\ UNCHANGED <<ends, abandoned>> /\ abandoned = {} /\ Parallel
    BY <1>5 DEF InstantEnds
  <2>2. st \in [Calls -> {"new", "ready", "done"}]
    BY <1>0, <1>5, <2>1 DEF InstantEnds, Phases
  <2> QED
    BY <1>3, <1>5, <2>1, <2>2 DEF InstantEnds, Sent
<1>6. CASE PrepareCut
  <2>1. CASE Parallel
    <3>1. \A c \in Calls : st[c] \in {"new", "ready", "done"}
      BY <1>0, <1>6, <2>1 DEF PrepareCut, Phases
    <3>2. CancelledEarly(Instants) /\ UNCHANGED <<st, ends, abandoned>> /\ abandoned = {}
      BY <1>6, <2>1 DEF PrepareCut
    <3>3. Instants \in SUBSET Calls /\ \A c \in Calls : c \in Instants <=> st[c] = "done"
      BY DEF Instants
    <3>4. \A c \in Instants : ends[c] = 1
      BY <3>2, <3>3 DEF Sent
    <3> QED
      BY <1>2, <2>1, <3>1, <3>2, <3>3, <3>4
  <2>2. CASE ~Parallel
    BY <1>k, <1>s, <1>6, <2>2 DEF PrepareCut, Ends
  <2> QED
    BY <2>1, <2>2
<1>7. CASE PrepareBreaks \/ CallFails
  BY <1>k, <1>s, <1>7 DEF PrepareBreaks, CallFails, Ends
<1>8. CASE CallCommits
  <2>1. at \notin abandoned /\ st[at] = "done" /\ ends[at] = 1 /\ out[at] \in {"shown", "cut"} /\ ~Parallel
    BY <1>8 DEF CallCommits, Sent
  <2>2. result'[at] = out[at] /\ \A c \in Calls \ {at} : result'[c] = result[c]
    BY <1>8 DEF CallCommits
  <2> QED
    BY <1>k, <1>8, <2>1, <2>2 DEF CallCommits, Gathered
<1>9. CASE WaitEnds \/ GraceEnds
  <2>1. Stragglers \in SUBSET Calls /\ 1 \in Nat \ {0} /\ \A c \in Calls : st[c] \in Running => c \in Stragglers
    BY DEF Stragglers
  <2>2. /\ abandoned' = Stragglers /\ Gather(1, Stragglers, result, reached)
        /\ UNCHANGED <<kind, st, out, endedWith>> /\ abandoned = {} /\ Parallel /\ outcome = "none"
    BY <1>k, <1>9 DEF WaitEnds, GraceEnds, Collect
  <2>3. \A c \in Calls : st[c] \notin {"new", "ready", "queued"}
    BY <1>9 DEF WaitEnds, GraceEnds, Running, Phases
  <2>4. \A c \in Calls : ~(c < 1)
    BY <1>0, BatchAssumption DEF Calls
  <2> QED
    BY <2>1, <2>2, <2>3, <2>4, GatherGathers
<1>10. CASE Answered
  <2>1. at + 1 \in Nat \ {0} /\ \A c \in Calls : c < at + 1 => c <= at
    BY <1>0
  <2>2. /\ abandoned' = abandoned /\ Gather(at + 1, abandoned, result, reached) /\ abandoned \in SUBSET Calls
        /\ UNCHANGED <<kind, st, out, endedWith>> /\ Parallel /\ outcome = "none"
    BY <1>k, <1>10 DEF Answered
  <2>3. \A c \in Calls : st[c] \notin {"new", "ready", "queued"} /\ (st[c] \in Running => c \in abandoned)
    BY <1>10 DEF Answered, Phases
  <2>4. \A c \in Calls : c < at + 1 /\ Begun(c) /\ st[c] # "failed" => result[c] # "none"
    BY <1>10, <2>1, <2>2 DEF Answered, Gathered
  <2> QED
    BY <2>1, <2>2, <2>3, <2>4, GatherGathers
<1>11. CASE WaitFails \/ WaitCut
  BY <1>k, <1>s, <1>11 DEF WaitFails, WaitCut
<1>12. CASE Commit \/ CommitCut \/ CommitRaises
  <2>1. pc = "commit" /\ UNCHANGED <<st, result, ends, abandoned>> /\ outcome = "none"
    BY <1>12 DEF Commit, CommitCut, CommitRaises
  <2>2. ASSUME NEW R, AfterCommit(R)
        PROVE  \/ Parallel /\ pc' = "over"
               \/ Parallel /\ pc' = "commit" /\ result[at'] # "none"
               \/ ~Parallel /\ pc' \in {"prepare", "over"}
    <3>1. CASE Parallel
      <4>1. CommitFrom(at + 1, result, cancelled, R) /\ cancelled \in BOOLEAN
        BY <2>2, <3>1 DEF AfterCommit
      <4> QED
        BY <1>0, <3>1, <4>1, CommitMeans
    <3>2. CASE ~Parallel
      BY <2>2, <3>2 DEF AfterCommit, Ends
    <3> QED
      BY <3>1, <3>2
  <2>3. \/ pc' = "over"
        \/ pc' = "commit" /\ result[at'] # "none"
        \/ ~Parallel /\ pc' = "prepare"
    BY <1>12, <2>1, <2>2 DEF Commit, CommitCut, CommitRaises, Ends, Gathered
  <2> QED
    BY <1>k, <2>1, <2>3 DEF Gathered, Begun
<1>13. CASE Cancel
  BY <1>k, <1>13 DEF Cancel, Gathered, Begun
<1>14. ASSUME NEW c \in Calls, Progress(c) \/ Tool(c) PROVE Gathered'
  <2>1. CallMove(c)
    BY <1>14, CallMoves
  <2>2. /\ pc' = pc /\ at' = at /\ abandoned' = abandoned /\ result' = result /\ outcome' = outcome
        /\ \A d \in Calls \ {c} : st'[d] = st[d] /\ ends'[d] = ends[d]
    BY <2>1 DEF CallMove
  <2>3. c \notin abandoned /\ result[c] # "none" => ends'[c] = 1
    BY <2>1 DEF CallMove, Sent, Gathered
  <2>4. /\ Parallel /\ pc \in {"answer", "commit", "over"} => st[c] # "queued"
        /\ st[c] \in Running
    BY <2>1 DEF Phases, CallMove
  <2>5. Parallel /\ pc \in {"answer", "commit", "over"} => Begun(c) /\ st[c] # "failed"
    BY <2>4 DEF Begun, Running
  <2> QED
    BY <1>k, <2>2, <2>3, <2>5 DEF Gathered, Begun
<1>15. CASE UNCHANGED vars
  BY <1>k, <1>15 DEF vars, Gathered, Begun
<1> QED
  BY <1>1, <1>4, <1>5, <1>6, <1>7, <1>8, <1>9, <1>10, <1>11, <1>12, <1>13, <1>14, <1>15 DEF Next, Batch

-----------------------------------------------------------------------------
\* What committing the next result, or losing it, leaves of the log.
LEMMA LogGrows ==
  ASSUME TypeOK, Committed, pc # "over", NEW l \in {log, Append(log, at)}
  PROVE  /\ \A i, j \in DOMAIN l : i < j => l[i] < l[j]
         /\ \A i \in DOMAIN l : l[i] \in Calls /\ l[i] <= at /\ (result[l[i]] # "none" \/ l[i] = at)
         /\ ToSet(log) \subseteq ToSet(l)
<1>0. at \in Nat /\ at \in Calls /\ \A c \in Calls : c \in Nat
  BY BatchAssumption DEF TypeOK, Calls
<1>1. /\ \A i \in DOMAIN log : log[i] \in Calls /\ result[log[i]] # "none" /\ log[i] < at
      /\ \A i, j \in DOMAIN log : i < j => log[i] < log[j]
  BY DEF Committed
<1>2. CASE l = log
  <2>1. \A i \in DOMAIN log : log[i] <= at
    <3>1. \A c \in Calls : c < at => c <= at
      BY <1>0
    <3> QED
      BY <1>1, <3>1
  <2> QED
    BY <1>1, <1>2, <2>1
<1>3. CASE l = Append(log, at)
  <2>1. log \in Seq(Calls)
    BY DEF TypeOK
  <2>2. Len(log) \in Nat /\ Len(l) = Len(log) + 1 /\ DOMAIN l = 1..(Len(log) + 1) /\ DOMAIN log = 1..Len(log)
    BY <1>0, <1>3, <2>1
  <2>3. l[Len(log) + 1] = at /\ \A i \in 1..Len(log) : l[i] = log[i]
    BY <1>0, <1>3, <2>1
  <2>4. \A i \in DOMAIN l : i \in DOMAIN log \/ i = Len(log) + 1
    BY <2>2
  <2>5. ASSUME NEW i \in DOMAIN l, NEW j \in DOMAIN l, i < j PROVE l[i] < l[j]
    <3>1. i \in DOMAIN log
      BY <2>2, <2>5
    <3>2. CASE j \in DOMAIN log
      BY <1>1, <2>2, <2>3, <2>5, <3>1, <3>2
    <3>3. CASE j = Len(log) + 1
      BY <1>1, <2>2, <2>3, <3>1, <3>3
    <3> QED
      BY <2>4, <3>2, <3>3
  <2>6. ASSUME NEW i \in DOMAIN l PROVE l[i] \in Calls /\ l[i] <= at /\ (result[l[i]] # "none" \/ l[i] = at)
    <3>1. CASE i \in DOMAIN log
      <4>1. l[i] = log[i] /\ log[i] \in Calls /\ result[log[i]] # "none" /\ log[i] < at
        BY <1>1, <2>2, <2>3, <3>1
      <4>2. \A c \in Calls : c < at => c <= at
        BY <1>0
      <4> QED
        BY <4>1, <4>2
    <3>2. CASE i = Len(log) + 1
      BY <1>0, <2>3, <3>2
    <3> QED
      BY <2>4, <3>1, <3>2
  <2>7. ToSet(log) \subseteq ToSet(l)
    BY <2>2, <2>3 DEF ToSet
  <2> QED
    BY <2>5, <2>6, <2>7
<1> QED
  BY <1>2, <1>3

\* A commit step that goes on or ends the batch keeps the order and leaves no result behind.
LEMMA CommitStep ==
  ASSUME TypeOK, Places, InTurn, Gathered, Committed, pc = "commit", kind' = kind, UNCHANGED <<st, result>>,
         NEW R, AfterCommit(R), log' \in {log, Append(log, at)}, lost \subseteq lost', at \in ToSet(log') \cup lost'
  PROVE  Committed'
<1>0. at \in Nat /\ at + 1 \in Nat /\ \A c \in Calls : c \in Nat /\ c <= N
  BY BatchAssumption DEF TypeOK, Calls
<1>1. /\ \A i, j \in DOMAIN log' : i < j => log'[i] < log'[j]
      /\ \A i \in DOMAIN log' : log'[i] \in Calls /\ log'[i] <= at /\ result[log'[i]] # "none"
      /\ ToSet(log) \subseteq ToSet(log')
  BY LogGrows DEF Gathered
<1>2. \A c \in Calls : c <= at /\ (Parallel => result[c] # "none") => c \in ToSet(log') \cup lost'
  <2>1. \A c \in Calls : c <= at => c < at \/ c = at
    BY <1>0
  <2>2. \A c \in Calls : c < at /\ (Parallel => result[c] # "none") => c \in ToSet(log) \cup lost
    BY DEF Committed
  <2> QED
    BY <1>1, <2>1, <2>2
<1>3. \A c \in Calls : c <= at \/ c >= at + 1
  BY <1>0
<1>4. \A i \in DOMAIN log' : \A k \in Nat : k > at => log'[i] < k
  BY <1>0, <1>1
<1>5. CASE Parallel
  <2>1. CommitFrom(at + 1, result, cancelled, R) /\ cancelled \in BOOLEAN
    BY <1>5 DEF AfterCommit, TypeOK
  <2>2. \/ /\ \A c \in Calls : c >= at + 1 => result[c] = "none"
           /\ pc' = "over"
        \/ /\ pc' = "commit" /\ at' \in Calls /\ at' >= at + 1
           /\ \A c \in Calls : at + 1 <= c /\ c < at' => result[c] = "none"
           /\ outcome' = outcome
    BY <1>0, <2>1, CommitMeans
  <2>3. CASE pc' = "over" /\ \A c \in Calls : c >= at + 1 => result[c] = "none"
    <3>1. \A c \in Calls : result[c] # "none" => c \in ToSet(log') \cup lost'
      BY <1>2, <1>3, <2>3
    <3> QED
      BY <1>1, <1>5, <2>3, <3>1 DEF Committed, Parallel
  <2>4. CASE /\ pc' = "commit" /\ at' \in Calls /\ at' >= at + 1
             /\ \A c \in Calls : at + 1 <= c /\ c < at' => result[c] = "none"
             /\ outcome' = outcome
    <3>1. \A i \in DOMAIN log' : log'[i] < at'
      BY <1>0, <1>4, <2>4
    <3>2. \A c \in Calls : c < at' /\ result[c] # "none" => c \in ToSet(log') \cup lost'
      BY <1>0, <1>2, <1>3, <2>4
    <3>3. outcome' = "none"
      BY <2>4 DEF Places
    <3> QED
      BY <1>1, <1>5, <2>4, <3>1, <3>2, <3>3 DEF Committed, Parallel
  <2> QED
    BY <2>2, <2>3, <2>4
<1>6. CASE ~Parallel
  <2>1. \/ pc' = "over"
        \/ pc' = "prepare" /\ at' = at + 1 /\ outcome' = outcome
    BY <1>6 DEF AfterCommit, Ends
  <2>2. CASE pc' = "over"
    <3>1. \A c \in Calls : Begun(c) => c <= at
      BY <1>0, <1>6 DEF InTurn, Begun
    <3> QED
      BY <1>1, <1>2, <1>6, <2>2, <3>1 DEF Committed, Parallel, Begun
  <2>3. CASE pc' = "prepare" /\ at' = at + 1 /\ outcome' = outcome
    <3>1. \A i \in DOMAIN log' : log'[i] < at'
      BY <1>0, <1>4, <2>3
    <3>2. \A c \in Calls : c < at' => c \in ToSet(log') \cup lost'
      BY <1>0, <1>2, <1>6, <2>3
    <3>3. outcome' = "none"
      BY <2>3 DEF Places
    <3> QED
      BY <1>1, <1>6, <2>3, <3>1, <3>2, <3>3 DEF Committed, Parallel
  <2> QED
    BY <2>1, <2>2, <2>3
<1> QED
  BY <1>5, <1>6

\* The first commit of a parallel batch, or its end without one.
LEMMA FirstCommit ==
  ASSUME Parallel, kind' = kind, log = <<>>, log' = log, pc' \in {"answer", "prepare", "wait", "over", "commit"},
         outcome = "none", pc' \in {"answer", "prepare", "wait", "commit"} => outcome' = outcome,
         pc' = "over" => \A c \in Calls : result'[c] = "none",
         pc' = "commit" => \A c \in Calls : c < at' => result'[c] = "none"
  PROVE  Committed'
<1>1. DOMAIN log' = {}
  OBVIOUS
<1> QED
  BY <1>1 DEF Committed, Parallel

LEMMA CommittedKept ==
  ASSUME IInv, [Next]_vars
  PROVE  Committed'
<1> USE DEF IInv, own, given, wait
<1>0. at \in Nat /\ at + 1 \in Nat /\ at \in Calls /\ \A c \in Calls : c \in Nat /\ c >= 1
  BY BatchAssumption DEF TypeOK, Calls
<1>k. kind' = kind
  BY DEF Next, vars
\* Steps that neither commit nor end the batch.
<1>s. ASSUME UNCHANGED <<at, log, lost, outcome, result>>, pc # "over", pc' # "over",
             pc' = pc \/ (~Parallel /\ pc' = "call") \/ (Parallel /\ pc' = "instant" /\ pc = "prepare")
                      \/ (Parallel /\ pc' = "grace" /\ pc = "wait")
      PROVE  Committed'
  <2>1. outcome = "none"
    BY <1>s DEF Places
  <2> QED
    BY <1>k, <1>s, <2>1 DEF Committed, Parallel
<1>1. CASE Instant
  BY <1>k, <1>s, <1>1 DEF Instant
<1>e. ASSUME NEW D \in SUBSET Calls, CancelledEarly(D), Parallel, UNCHANGED <<log, lost>>, log = <<>>, outcome = "none"
      PROVE  Committed'
  <2>1. /\ result' = [c \in Calls |-> IF c \in D THEN "shown" ELSE "none"]
        /\ \/ /\ \A c \in Calls : c \notin D
              /\ pc' = "over"
           \/ /\ pc' = "commit" /\ at' \in D /\ outcome' = outcome
              /\ \A c \in D \cap Calls : ~(c < at')
    BY <1>e, EarlyMeans
  <2> QED
    BY <1>k, <1>e, <2>1, FirstCommit
<1>2. ASSUME NEW S, NextCall(at + 1, S), Parallel, UNCHANGED <<log, lost>>, pc \in {"prepare", "instant"}
      PROVE  Committed'
  <2>1. log = <<>> /\ outcome = "none"
    BY <1>2 DEF Committed, Places
  <2>2. CASE CancelledEarly({c \in Calls : S[c] = "done"})
    BY <1>e, <1>2, <2>1, <2>2
  <2>3. CASE pc' \in {"prepare", "wait"} /\ outcome' = outcome
    BY <1>k, <1>2, <2>1, <2>3, FirstCommit
  <2> QED
    BY <1>0, <1>2, <2>2, <2>3, NextCallMeans
<1>3. ASSUME ~Parallel, pc \in {"prepare", "call"}, pc' = "over", UNCHANGED <<at, st, log, lost, result>>,
             st[at] \in {"new", "failed"}
      PROVE  Committed'
  <2>1. \A c \in Calls : Begun(c) /\ st[c] # "failed" => c < at
    BY <1>0, <1>3 DEF InTurn, Begun
  <2>2. \A c \in Calls : c < at => c \in ToSet(log) \cup lost
    BY <1>3 DEF Committed
  <2> QED
    BY <1>k, <1>3, <2>1, <2>2 DEF Committed, Begun, Parallel
<1>4. CASE Ready
  <2>1. CASE Parallel
    BY <1>2, <1>4, <2>1 DEF Ready
  <2>2. CASE ~Parallel
    <3>1. st[at] = "new"
      BY <1>4, <2>2 DEF Ready, InTurn
    <3> QED
      BY <1>3, <1>4, <1>s, <2>2, <3>1 DEF Ready, Ends
  <2> QED
    BY <2>1, <2>2
<1>5. CASE InstantEnds
  <2>1. Parallel
    BY <1>5 DEF InstantEnds, Places
  <2> QED
    BY <1>2, <1>5, <2>1 DEF InstantEnds
<1>6. CASE PrepareCut
  <2>1. CASE Parallel
    <3>1. log = <<>> /\ outcome = "none" /\ Instants \in SUBSET Calls
      BY <1>6, <2>1 DEF PrepareCut, Committed, Places, Instants
    <3> QED
      BY <1>e, <1>6, <2>1, <3>1 DEF PrepareCut
  <2>2. CASE ~Parallel
    <3>1. st[at] = "new" /\ pc = "prepare"
      BY <1>6, <2>2 DEF PrepareCut, InTurn, Places
    <3> QED
      BY <1>3, <1>6, <2>2, <3>1 DEF PrepareCut, Ends
  <2> QED
    BY <2>1, <2>2
<1>7. CASE PrepareBreaks
  BY <1>k, <1>7 DEF PrepareBreaks, Ends, Committed
<1>8. CASE CallFails
  <2>1. ~Parallel
    BY <1>8 DEF CallFails, Places
  <2> QED
    BY <1>3, <1>8, <2>1 DEF CallFails, Ends
<1>9. CASE CallCommits
  <2>1. ~Parallel /\ outcome = "none"
    BY <1>9 DEF CallCommits, Places
  <2>2. \A c \in Calls : c < at => result'[c] = result[c]
    BY <1>0, <1>9 DEF CallCommits, TypeOK
  <2>3. /\ \A i \in DOMAIN log : log[i] \in Calls /\ result[log[i]] # "none" /\ log[i] < at
        /\ \A c \in Calls : c < at => c \in ToSet(log) \cup lost
    BY <1>9, <2>1 DEF Committed, CallCommits
  <2> QED
    BY <1>k, <1>9, <2>1, <2>2, <2>3 DEF CallCommits, Committed, Parallel
<1>10. ASSUME NEW k \in Nat \ {0}, NEW gone \in SUBSET Calls, Gather(k, gone, result, reached), UNCHANGED <<log, lost>>,
              pc \in {"wait", "grace", "answer"}
       PROVE  Committed'
  <2>1. \E stop \in Nat :
          \/ CommitFrom(1, result', FALSE, reached)
          \/ pc' = "answer" /\ at' = stop /\ outcome' = outcome
    <3> HIDE DEF IInv
    <3> QED
      BY ZenonT(60), <1>10, GatherMeans
  <2>2. Parallel /\ log = <<>> /\ outcome = "none"
    BY <1>10 DEF Places, Committed
  <2>3. CASE CommitFrom(1, result', FALSE, reached)
    <3>1. \/ pc' = "over" /\ \A c \in Calls : c >= 1 => result'[c] = "none"
          \/ /\ pc' = "commit" /\ outcome' = outcome
             /\ \A c \in Calls : 1 <= c /\ c < at' => result'[c] = "none"
      BY <2>3, CommitMeans
    <3> QED
      BY <1>0, <1>k, <1>10, <2>2, <3>1, FirstCommit
  <2>4. CASE pc' = "answer" /\ outcome' = outcome
    BY <1>k, <1>10, <2>2, <2>4, FirstCommit
  <2> QED
    BY <2>1, <2>3, <2>4
<1>11. CASE WaitEnds \/ GraceEnds
  <2>1. Stragglers \in SUBSET Calls /\ 1 \in Nat \ {0}
    BY DEF Stragglers
  <2> QED
    BY <1>10, <1>11, <2>1 DEF WaitEnds, GraceEnds, Collect
<1>12. CASE Answered
  <2>1. at + 1 \in Nat \ {0} /\ abandoned \in SUBSET Calls
    BY <1>0 DEF TypeOK
  <2> QED
    BY <1>10, <1>12, <2>1 DEF Answered
<1>13. CASE WaitFails \/ WaitCut
  <2>1. Parallel
    BY <1>13 DEF WaitFails, WaitCut, Places
  <2> QED
    BY <1>s, <1>13, <2>1 DEF WaitFails, WaitCut
<1>14. CASE Commit \/ CommitCut \/ CommitRaises
  <2>1. pc = "commit" /\ UNCHANGED <<st, result>>
    BY <1>14 DEF Commit, CommitCut, CommitRaises
  <2>2. CASE Commit
    <3>1. at \in ToSet(Append(log, at))
      <4>1. log \in Seq(Calls) /\ Len(log) \in Nat
        BY DEF TypeOK
      <4>2. Len(log) + 1 \in DOMAIN Append(log, at) /\ Append(log, at)[Len(log) + 1] = at
        BY <1>0, <4>1
      <4> QED
        BY <4>2 DEF ToSet
    <3> QED
      BY <1>k, <2>1, <2>2, <3>1, CommitStep DEF Commit
  <2>3. ASSUME NEW R, AfterCommit(R), lost' = lost \cup {at}, log' \in {log, Append(log, at)} PROVE Committed'
    BY <1>k, <2>1, <2>3, CommitStep
  <2>4. CASE Ends("broken") /\ UNCHANGED <<log, lost>>
    BY <1>k, <2>1, <2>4 DEF Ends, Committed
  <2>5. CASE UNCHANGED <<pc, at, log, lost, outcome>>
    BY <1>s, <2>1, <2>5
  <2> QED
    BY <1>14, <2>2, <2>3, <2>4, <2>5 DEF CommitCut, CommitRaises
<1>15. CASE Cancel
  BY <1>s, <1>15 DEF Cancel
<1>16. ASSUME NEW c \in Calls, Progress(c) \/ Tool(c) PROVE Committed'
  <2>1. CallMove(c)
    BY <1>16, CallMoves
  <2>2. pc' = pc /\ UNCHANGED <<at, log, lost, outcome, result>>
    BY <2>1 DEF CallMove
  <2>3. CASE pc # "over"
    BY <1>s, <2>2, <2>3
  <2>4. CASE pc = "over" /\ Parallel
    BY <1>k, <2>2, <2>4 DEF Committed, Parallel
  <2>5. CASE pc = "over" /\ ~Parallel
    <3>1. \A d \in Calls : d < at \/ d = at \/ d > at
      BY <1>0
    <3>2. \A d \in Calls : st[d] \notin Running
      BY <2>5, <3>1 DEF InTurn, Running
    <3> QED
      BY <2>1, <3>2 DEF CallMove
  <2> QED
    BY <2>3, <2>4, <2>5
<1>17. CASE UNCHANGED vars
  BY <1>17 DEF vars, Committed, Begun, Parallel
<1> QED
  BY <1>1, <1>4, <1>5, <1>6, <1>7, <1>8, <1>9, <1>11, <1>12, <1>13, <1>14, <1>15, <1>16, <1>17 DEF Next, Batch

-----------------------------------------------------------------------------
LEMMA Inductive == Spec => []IInv
<1>1. Init => IInv
  BY Initially
<1>2. IInv /\ [Next]_vars => IInv'
  BY TypesKept, PlacesKept, PhasesKept, InTurnKept, SentKept, GatheredKept, CommittedKept DEF IInv
<1> QED
  BY <1>1, <1>2, PTL DEF Spec

\* The type invariant of a batch (loop.py).
THEOREM TypesHold == Spec => []TypeOK
<1>1. IInv => TypeOK
  BY DEF IInv
<1> QED
  BY <1>1, Inductive, PTL

\* Results reach the context in the model's order, each once, and when the batch is over every call that
\* began has one there unless its own commit or its own hook cost it (`_execute_tool_calls' and its two
\* paths): for every number of calls, cancels and raising hooks.
THEOREM ResultsInOrder == Spec => []ResultsInPlace
<1>1. IInv => ResultsInPlace
  <2> SUFFICES ASSUME IInv PROVE ResultsInPlace
    OBVIOUS
  <2>1. outcome \in {"returned", "cancelled", "failed"} => pc = "over" /\ outcome # "broken"
    BY DEF IInv, Places
  <2>2. outcome \in {"returned", "cancelled", "failed"} =>
          \A c \in Calls : Begun(c) /\ st[c] # "failed" => c \in ToSet(log) \cup lost
    BY <2>1 DEF IInv, Gathered, Committed
  <2> QED
    BY <2>2 DEF IInv, Committed, ResultsInPlace
<1> QED
  BY <1>1, Inductive, PTL

\* No call ends twice, a committed result had its end event, and output that after_tool_call has not seen
\* does not reach the context, except an abandoned call's (`_execute_and_finalize').
THEOREM OutputIsShown == Spec => []OnlyShownOutput
<1>1. IInv => OnlyShownOutput
  <2> SUFFICES ASSUME IInv PROVE OnlyShownOutput
    OBVIOUS
  <2>1. \A c \in ToSet(log) : c \in Calls /\ result[c] # "none"
    BY DEF IInv, Committed, ToSet
  <2> QED
    BY <2>1 DEF IInv, Sent, Gathered, OnlyShownOutput
<1> QED
  BY <1>1, Inductive, PTL

-----------------------------------------------------------------------------
\* Only a batch that knows of no cancel returns.
LEMMA ReturnsUncancelled ==
  ASSUME IInv, [Next]_vars, outcome' = "returned", outcome # "returned"
  PROVE  ~(HostTells /\ cancels > 0) /\ ~seen'
<1> USE DEF IInv, TypeOK, Places, own, given, wait, Parallel
<1>0. at \in Nat /\ at + 1 \in Nat
  BY BatchAssumption DEF Calls
<1>1. ASSUME NEW C \in BOOLEAN, NEW R, ~C, ~Known(Turn, R), seen' => Turn \in R \/ C
      PROVE  ~(HostTells /\ cancels > 0) /\ ~seen'
  BY <1>1 DEF Known
<1>2. ASSUME NEW k \in Nat, NEW res, NEW C \in BOOLEAN, NEW R, CommitFrom(k, res, C, R)
      PROVE  ~C /\ ~Known(Turn, R)
  BY <1>2, CommitMeans
<1>3. ASSUME NEW D, CancelledEarly(D) PROVE FALSE
  BY <1>3, EarlyMeans
<1>4. ASSUME NEW k \in Nat, NEW S, NextCall(k, S) PROVE FALSE
  BY <1>3, <1>4, NextCallMeans
<1>5. ASSUME NEW k \in Nat \ {0}, NEW gone \in SUBSET Calls, Gather(k, gone, result, reached),
             pc \in {"wait", "grace", "answer"}, seen' = seen
      PROVE  ~(HostTells /\ cancels > 0) /\ ~seen'
  <2>1. CommitFrom(1, result', FALSE, reached)
    BY <1>5, GatherMeans
  <2>2. ~Known(Turn, reached) /\ (seen => Turn \in reached)
    BY <1>2, <1>5, <2>1
  <2> QED
    BY <1>5, <2>2 DEF Known
<1>6. ASSUME NEW R, AfterCommit(R), pc = "commit", seen' => Turn \in R \/ cancelled
      PROVE  ~(HostTells /\ cancels > 0) /\ ~seen'
  <2>1. CASE Parallel
    <3>1. CommitFrom(at + 1, result, cancelled, R) /\ cancelled \in BOOLEAN
      BY <1>6, <2>1 DEF AfterCommit
    <3> QED
      BY <1>0, <1>1, <1>2, <1>6, <3>1
  <2>2. CASE ~Parallel
    <3>1. ~Known(Turn, R) /\ ~cancelled
      BY <1>6, <2>2 DEF AfterCommit, Ends
    <3> QED
      BY <1>6, <3>1 DEF Known
  <2> QED
    BY <2>1, <2>2
<1>7. CASE Instant \/ PrepareBreaks \/ CallCommits \/ CallFails \/ WaitFails \/ WaitCut \/ Cancel
  BY <1>7 DEF Instant, PrepareBreaks, CallCommits, CallFails, WaitFails, WaitCut, Cancel, Ends
<1>8. CASE Ready \/ InstantEnds \/ PrepareCut
  BY <1>0, <1>3, <1>4, <1>8 DEF Ready, InstantEnds, PrepareCut, Ends
<1>9. CASE WaitEnds \/ GraceEnds
  <2>1. Stragglers \in SUBSET Calls /\ 1 \in Nat \ {0}
    BY DEF Stragglers
  <2> QED
    BY <1>5, <1>9, <2>1 DEF WaitEnds, GraceEnds, Collect
<1>10. CASE Answered
  <2>1. at + 1 \in Nat \ {0} /\ abandoned \in SUBSET Calls
    BY <1>0
  <2> QED
    BY <1>5, <1>10, <2>1 DEF Answered
<1>11. CASE Commit \/ CommitRaises
  <2>1. AfterCommit(reached)
    BY <1>11 DEF Commit, CommitRaises, Ends
  <2> QED
    BY <1>6, <1>11, <2>1 DEF Commit, CommitRaises
<1>12. CASE CommitCut
  BY <1>6, <1>12 DEF CommitCut, Noted
<1>13. ASSUME NEW c \in Calls, Progress(c) \/ Tool(c) PROVE FALSE
  BY <1>13, CallMoves DEF CallMove
<1>14. CASE UNCHANGED vars
  BY <1>14 DEF vars
<1> QED
  BY <1>7, <1>8, <1>9, <1>10, <1>11, <1>12, <1>13, <1>14 DEF Next, Batch

\* A call begins only where no cancel is known to the host.
LEMMA BeginsUncancelled ==
  ASSUME IInv, [Next]_vars, HostTells, cancels > 0, NEW c \in Calls, st'[c] = "execute"
  PROVE  st[c] = "execute"
<1> USE DEF IInv, TypeOK, Places, own, given, wait, Parallel
<1>0. at \in Nat /\ at + 1 \in Nat /\ \A t, R : Known(t, R)
  BY BatchAssumption DEF Calls, Known
<1>1. ASSUME NEW S, NextCall(at + 1, S) PROVE st'[c] = S[c]
  <2>1. st'[c] = S[c] \/ st'[c] = "queued"
    BY <1>0, <1>1, NextCallMeans
  <2> QED
    BY <2>1
<1>2. CASE Instant
  BY <1>2 DEF Instant
<1>3. CASE Ready
  <2>1. CASE Parallel
    <3> DEFINE S == [st EXCEPT ![at] = "ready"]
    <3>1. st'[c] = S[c]
      BY <1>1, <1>3, <2>1 DEF Ready
    <3> QED
      BY <3>1
  <2>2. CASE ~Parallel
    BY <1>0, <1>3, <2>2 DEF Ready
  <2> QED
    BY <2>1, <2>2
<1>4. CASE InstantEnds
  BY <1>1, <1>4 DEF InstantEnds
<1>5. CASE \/ PrepareCut \/ PrepareBreaks \/ CallCommits \/ CallFails \/ WaitEnds \/ WaitFails \/ WaitCut
           \/ GraceEnds \/ Answered \/ Commit \/ CommitCut \/ CommitRaises \/ Cancel
  BY <1>5 DEF PrepareCut, PrepareBreaks, CallCommits, CallFails, WaitEnds, WaitFails, WaitCut, GraceEnds, Answered,
              Commit, CommitCut, CommitRaises, Cancel
<1>6. ASSUME NEW d \in Calls, FirstStep(d) PROVE st[c] = "execute"
  BY <1>0, <1>6 DEF FirstStep
<1>7. ASSUME NEW d \in Calls, Progress(d) \/ Tool(d), ~FirstStep(d) PROVE st[c] = "execute"
  <2>1. CallMove(d) /\ st[d] # "queued"
    BY <1>7, CallMoves
       DEF Progress, Tool, ToolReturns, ToolCut, HookReturns, HookCut, HookRaises, CallEnds, EndRaises
  <2> QED
    BY <2>1 DEF CallMove
<1>8. CASE UNCHANGED vars
  BY <1>8 DEF vars
<1> QED
  BY <1>2, <1>3, <1>4, <1>5, <1>6, <1>7, <1>8 DEF Next, Batch

\* Once the host knows of a cancel no further call begins, and neither such a batch nor one whose own
\* code met the cancel returns as if none had come (#698, `_cancel_pending').
THEOREM CancelEndsTheBatch == Spec => CancelStops
<1> DEFINE A == /\ HostTells /\ cancels > 0 => \A c \in Calls : st[c] # "execute" => st'[c] # "execute"
                /\ (HostTells /\ cancels > 0) \/ seen' => (outcome' = "returned" => outcome = "returned")
<1>1. IInv /\ [Next]_vars => [A]_vars
  BY ReturnsUncancelled, BeginsUncancelled
<1> QED
  BY <1>1, Inductive, PTL DEF Spec, CancelStops

=============================================================================
