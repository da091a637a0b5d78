--------------------------- MODULE RpcControl_proofs ---------------------------
(***************************************************************************)
(* For every set of requests, every number of cancels and every way to     *)
(* end: mutations and classic commands stay apart, the leases follow the   *)
(* live harness, and a cancelled operation gets no further.                *)
(***************************************************************************)
EXTENDS RpcControl, SequenceTheorems, TLAPS

\* A request is in a replacement exactly while it runs one, and a command is where its kind can be.
Stages ==
  /\ \A o \in Ops : stage[o] # "off" <=> at[o] = "swap"
  /\ \A c \in Commands :
       /\ stage[c] # "off" <=> in[c] = "swap"
       /\ in[c] = "swap" => kind[c] = "swap"
       /\ in[c] \in {"start", "claimed"} => kind[c] = "prompt"
       /\ in[c] = "working" => kind[c] \in {"compact", "other"}

\* What runs beside a mutation, beside its replacement, and beside another command's.
Excludes ==
  /\ \A o \in Ops : Active(o) => owner = Nobody /\ \A c \in InFlight : kind[c] = "other"
  /\ \A o \in Ops : at[o] = "swap" => InFlight = {}
  /\ \A c, d \in Swapping : c = d

\* Nothing that begins when stdin is closed escapes the gather.
Ends ==
  /\ host # "serving" /\ eof => \A x \in Ops \cup Commands : stage[x] # "off" => x \in gathered
  /\ host \in {"finishing", "gone"} /\ eof => \A x \in Ops \cup Commands : stage[x] = "off"

\* Who may have a lease, and who has the installed one.
Leased ==
  /\ \A o \in leases : method[o] = "configure"
  /\ \A o \in Ops : lease = o => at[o] \in {"retire", "done"}
  /\ host \in {"serving", "closing"} =>
       /\ (\A x \in Ops \cup Commands : stage[x] # "torn") => tools = lease
       /\ \A o \in Ops : at[o] = "work" /\ method[o] = "configure" => o \in leases
       /\ \A o \in leases : at[o] = "work" \/ lease = o
       /\ lease # Nobody => lease \in leases

IInv == TypeOK /\ Stages /\ Excludes /\ Ends /\ Leased

\* Where a cancel that was answered is until it is raised; a configuration that shutdown met has one.
Cancelled ==
  /\ \A o \in told :
       /\ at[o] # "new"
       /\ at[o] \in {"queued", "work", "retire"} => o \in hit
       /\ at[o] = "swap" => o \in interrupted
  /\ Closing => \A o \in Ops : at[o] = "work" /\ method[o] = "configure" => o \in told

NoCatch == \A s \in Scopes : ~s.catches

-----------------------------------------------------------------------------
LEMMA Initially == Init => IInv /\ Cancelled
<1> SUFFICES ASSUME Init PROVE IInv /\ Cancelled
  OBVIOUS
<1>1. <<>> \in Seq(Ops) /\ 0 \in Nat
  OBVIOUS
<1>2. TypeOK
  BY <1>1, RequestsAssumption DEF Init, TypeOK
<1>3. Stages /\ Excludes /\ Ends /\ Leased /\ Cancelled
  BY RequestsAssumption
     DEF Init, Stages, Excludes, Ends, Leased, Cancelled, Active, InFlight, Swapping, Closing
<1> QED
  BY <1>2, <1>3 DEF IInv

-----------------------------------------------------------------------------
\* What taking the first waiter or a cancelled one leaves are waiters.
LEMMA QueueTypes ==
  ASSUME waiters \in Seq(Ops)
  PROVE  /\ \A o \in Ops : Append(waiters, o) \in Seq(Ops)
         /\ waiters # <<>> => Tail(waiters) \in Seq(Ops)
         /\ \A i \in DOMAIN waiters : RemoveAt(waiters, i) \in Seq(Ops)
<1>1. ASSUME NEW i \in DOMAIN waiters PROVE RemoveAt(waiters, i) \in Seq(Ops)
  <2>1. SubSeq(waiters, 1, i - 1) \in Seq(Ops) /\ SubSeq(waiters, i + 1, Len(waiters)) \in Seq(Ops)
    BY <1>1
  <2> QED
    BY <2>1 DEF RemoveAt
<1> QED
  BY <1>1

LEMMA BodyTypes ==
  ASSUME TypeOK, NEW o \in Ops, NEW m, Body(o, m), lock = Nobody
  PROVE  /\ at' \in [Ops -> {"new", "queued", "work", "swap", "retire", "done"}]
         /\ lock' \in Ops \cup {Nobody} /\ leases' \subseteq Ops
         /\ stage' \in [Ops \cup Commands -> {"off", "hooks", "torn"}]
         /\ \A p \in Ops : at'[p] \in {"work", "swap", "retire"} <=> lock' = p
<1>1. CASE Moves(o, "done") /\ UNCHANGED <<lock, stage, leases>>
  BY <1>1, RequestsAssumption DEF TypeOK, Moves
<1>2. CASE /\ lock' = o /\ Moves(o, IF m = "reload" THEN "swap" ELSE "work")
           /\ stage' = [stage EXCEPT ![o] = IF m = "reload" THEN "hooks" ELSE @]
           /\ leases' = leases \cup (IF m = "configure" THEN {o} ELSE {})
  <2>1. \A p \in Ops : at[p] \notin {"work", "swap", "retire"}
    BY RequestsAssumption DEF TypeOK
  <2> QED
    BY <1>2, <2>1 DEF TypeOK, Moves
<1> QED
  BY <1>1, <1>2 DEF Body

LEMMA TypesKept ==
  ASSUME IInv, [Next]_vars
  PROVE  TypeOK'
<1> USE DEF IInv, TypeOK, plane, cut, classic, harness, mcp, loop
<1>1. ASSUME NEW o \in Ops, Request(o) PROVE TypeOK'
  <2>1. PICK m \in scope.methods[o] :
          /\ method' = [method EXCEPT ![o] = m]
          /\ \/ Closing /\ Moves(o, "done") /\ UNCHANGED <<lock, waiters, stage, leases>>
             \/ lock = Nobody /\ Body(o, m) /\ UNCHANGED waiters
             \/ /\ Moves(o, "queued") /\ waiters' = Append(waiters, o)
                /\ UNCHANGED <<lock, stage, leases>>
    BY <1>1 DEF Request
  <2>2. m \in Methods /\ method' \in [Ops -> Methods \cup {"none"}]
    BY <2>1, RequestsAssumption
  <2>3. waiters' \in Seq(Ops)
    BY <2>1, QueueTypes
  <2>4. at[o] = "new" /\ lock # o
    BY <1>1 DEF Request
  <2>5. CASE lock = Nobody /\ Body(o, m)
    BY <1>1, <2>2, <2>3, <2>5, BodyTypes DEF Request
  <2>6. CASE (Moves(o, "done") \/ Moves(o, "queued")) /\ UNCHANGED <<lock, stage, leases>>
    BY <1>1, <2>2, <2>3, <2>4, <2>6 DEF Request, Moves
  <2> QED
    BY <2>1, <2>5, <2>6
<1>2. ASSUME NEW o \in Ops, Wake(o) PROVE TypeOK'
  <2>1. waiters' \in Seq(Ops) /\ lock = Nobody
    BY <1>2, QueueTypes DEF Wake
  <2>2. CASE Body(o, method[o])
    BY <1>2, <2>1, <2>2, BodyTypes DEF Wake
  <2>3. CASE Moves(o, "done") /\ UNCHANGED <<lock, stage, leases>>
    BY <1>2, <2>1, <2>3, RequestsAssumption DEF Wake, Moves
  <2> QED
    BY <1>2, <2>2, <2>3 DEF Wake
<1>3. ASSUME NEW o \in Ops, LeavesQueue(o) PROVE TypeOK'
  BY <1>3, QueueTypes, RequestsAssumption DEF LeavesQueue, Moves
<1>4. ASSUME NEW o \in Ops, WorkEnds(o) \/ Unwinds(o) \/ ConnectFails(o) \/ PreviousEnds(o) PROVE TypeOK'
  BY <1>4, RequestsAssumption DEF WorkEnds, Unwinds, ConnectFails, PreviousEnds, Answered, Moves
<1>5. ASSUME NEW o \in Ops, Connects(o) PROVE TypeOK'
  BY <1>5, RequestsAssumption DEF Connects, Answered, Moves
<1>6. ASSUME NEW o \in Ops, Replaces(o) PROVE TypeOK'
  BY <1>6, RequestsAssumption DEF Replaces, Moves
<1>7. ASSUME NEW o \in Ops, Cancel(o) PROVE TypeOK'
  BY <1>7 DEF Cancel, Interrupt
<1>8. ASSUME NEW x \in Ops \cup Commands, Tears(x) PROVE TypeOK'
  BY <1>8 DEF Tears, InFlight
<1>9. ASSUME NEW x \in Ops \cup Commands, Declines(x) \/ Installs(x) PROVE TypeOK'
  <2>1. tools' \in Ops \cup {Nobody}
    BY <1>9 DEF Declines, Installs
  <2>2. PICK raised \in BOOLEAN : Over(x, raised)
    BY <1>9 DEF Declines, Installs
  <2>3. stage[x] # "off"
    BY <1>9 DEF Declines, Installs
  <2> QED
    BY <2>1, <2>2, <2>3, RequestsAssumption DEF Over, Resumes, Answered, Moves, Stages
<1>10. ASSUME NEW c \in Commands, Command(c) PROVE TypeOK'
  BY <1>10, RequestsAssumption DEF Command, Kinds
<1>11. ASSUME NEW c \in Commands,
              PromptClaims(c) \/ PromptJudged(c) \/ OtherEnds(c) \/ CompactEnds(c) \/ TurnEnds(c)
       PROVE TypeOK'
  BY <1>11 DEF PromptClaims, PromptJudged, OtherEnds, CompactEnds, TurnEnds, Finishes, Frees
<1>12. CASE Shutdown
  BY <1>12, RequestsAssumption DEF Shutdown, BeginShutdown, Interrupt, StopsCompaction, InFlight
<1>13. CASE Gathered \/ Dispose
  BY <1>13 DEF Gathered, Dispose
<1>14. CASE UNCHANGED vars
  BY <1>14 DEF vars
<1> QED
  BY <1>1, <1>2, <1>3, <1>4, <1>5, <1>6, <1>7, <1>8, <1>9, <1>10, <1>11, <1>12, <1>13, <1>14
     DEF Next, OpStep, Handler, Replacement, CommandStep

-----------------------------------------------------------------------------
LEMMA StagesKept ==
  ASSUME IInv, [Next]_vars
  PROVE  Stages'
<1> USE RequestsAssumption DEF IInv, TypeOK, Stages, plane, cut, classic, harness, mcp, loop
<1>1. ASSUME NEW o \in Ops, NEW m, Body(o, m), at[o] \in {"new", "queued"}, UNCHANGED classic PROVE Stages'
  BY <1>1 DEF Body, Moves
<1>2. ASSUME NEW o \in Ops, Request(o) \/ Wake(o) PROVE Stages'
  <2>1. at[o] \in {"new", "queued"} /\ UNCHANGED classic
    BY <1>2 DEF Request, Wake
  <2>2. CASE \E m : Body(o, m)
    BY <1>1, <2>1, <2>2
  <2>3. CASE UNCHANGED stage /\ (Moves(o, "done") \/ Moves(o, "queued"))
    BY <2>1, <2>3 DEF Moves
  <2> QED
    BY <1>2, <2>2, <2>3 DEF Request, Wake
<1>3. ASSUME NEW o \in Ops, LeavesQueue(o) \/ WorkEnds(o) \/ Unwinds(o) \/ Connects(o) \/ ConnectFails(o)
                               \/ PreviousEnds(o)
      PROVE  Stages'
  BY <1>3 DEF LeavesQueue, WorkEnds, Unwinds, Connects, ConnectFails, PreviousEnds, Answered, Moves
<1>4. ASSUME NEW o \in Ops, Replaces(o) PROVE Stages'
  BY <1>4 DEF Replaces, Moves
<1>5. ASSUME NEW x \in Ops \cup Commands, Tears(x) PROVE Stages'
  BY <1>5 DEF Tears
<1>6. ASSUME NEW x \in Ops \cup Commands, Declines(x) \/ Installs(x) PROVE Stages'
  <2>1. PICK raised \in BOOLEAN : Over(x, raised)
    BY <1>6 DEF Declines, Installs
  <2> QED
    BY <2>1 DEF Over, Resumes, Answered, Moves
<1>7. ASSUME NEW c \in Commands, Command(c) PROVE Stages'
  BY <1>7 DEF Command, Kinds
<1>8. ASSUME NEW c \in Commands,
             PromptClaims(c) \/ PromptJudged(c) \/ OtherEnds(c) \/ CompactEnds(c) \/ TurnEnds(c)
      PROVE  Stages'
  BY <1>8 DEF PromptClaims, PromptJudged, OtherEnds, CompactEnds, TurnEnds, Finishes
<1>9. ASSUME UNCHANGED <<at, in, kind, stage>> PROVE Stages'
  BY <1>9
<1> QED
  BY <1>2, <1>3, <1>4, <1>5, <1>6, <1>7, <1>8, <1>9
     DEF Next, OpStep, Handler, Replacement, CommandStep, Cancel, Shutdown, Gathered, Dispose, vars

-----------------------------------------------------------------------------
LEMMA ExcludesKept ==
  ASSUME IInv, [Next]_vars
  PROVE  Excludes'
<1> USE RequestsAssumption DEF IInv, TypeOK, Excludes, InFlight, Swapping, Active, plane, cut, classic, harness, mcp, loop
<1>1. ASSUME NEW o \in Ops, NEW m, Body(o, m), lock = Nobody, UNCHANGED <<classic, owner>> PROVE Excludes'
  BY <1>1 DEF Body, Moves, Quiescent
<1>2. ASSUME NEW o \in Ops, Request(o) \/ Wake(o) PROVE Excludes'
  <2>1. UNCHANGED <<classic, owner>>
    BY <1>2 DEF Request, Wake
  <2>2. CASE lock = Nobody /\ \E m : Body(o, m)
    BY <1>1, <2>1, <2>2
  <2>3. CASE UNCHANGED stage /\ (Moves(o, "done") \/ Moves(o, "queued"))
    <3>1. /\ \A p \in Ops : at'[p] \in {"work", "swap", "retire"} => at'[p] = at[p]
          /\ owner' = owner /\ in' = in /\ kind' = kind
      BY <2>1, <2>3 DEF Moves
    <3> QED
      BY <3>1
  <2> QED
    BY <1>2, <2>2, <2>3 DEF Request, Wake
<1>3. ASSUME NEW o \in Ops, LeavesQueue(o) \/ WorkEnds(o) \/ Unwinds(o) \/ Connects(o) \/ ConnectFails(o)
                               \/ PreviousEnds(o)
      PROVE  Excludes'
  BY <1>3 DEF LeavesQueue, WorkEnds, Unwinds, Connects, ConnectFails, PreviousEnds, Answered, Moves
<1>4. ASSUME NEW o \in Ops, Replaces(o) PROVE Excludes'
  BY <1>4 DEF Replaces, Moves, MaySwap
<1>5. ASSUME NEW x \in Ops \cup Commands, Tears(x) PROVE Excludes'
  BY <1>5 DEF Tears
<1>6. ASSUME NEW x \in Ops \cup Commands, Declines(x) \/ Installs(x) PROVE Excludes'
  <2>1. PICK raised \in BOOLEAN : Over(x, raised)
    BY <1>6 DEF Declines, Installs
  <2>2. stage[x] # "off"
    BY <1>6 DEF Declines, Installs
  <2> QED
    BY <2>1, <2>2 DEF Over, Resumes, Answered, Moves, Stages
<1>7. ASSUME NEW c \in Commands, Command(c) PROVE Excludes'
  BY <1>7 DEF Command, Kinds, Admits, Transitioning, CLASSIC_TRANSITIONS
<1>8. ASSUME NEW c \in Commands,
             PromptClaims(c) \/ PromptJudged(c) \/ OtherEnds(c) \/ CompactEnds(c) \/ TurnEnds(c)
      PROVE  Excludes'
  BY <1>8 DEF PromptClaims, PromptJudged, OtherEnds, CompactEnds, TurnEnds, Finishes, Frees, Stages
<1>9. ASSUME UNCHANGED <<at, in, kind>>, owner' \in {owner, Nobody} PROVE Excludes'
  BY <1>9
<1> QED
  BY <1>2, <1>3, <1>4, <1>5, <1>6, <1>7, <1>8, <1>9
     DEF Next, OpStep, Handler, Replacement, CommandStep, Cancel, Shutdown, Gathered, Dispose, vars

-----------------------------------------------------------------------------
LEMMA EndsKept ==
  ASSUME IInv, [Next]_vars
  PROVE  Ends'
<1> USE RequestsAssumption DEF IInv, TypeOK, Ends, Stages, plane, cut, classic, harness, mcp, loop
<1>1. ASSUME NEW o \in Ops, Request(o) \/ Wake(o) PROVE Ends'
  BY <1>1 DEF Request, Wake, Body, Reading, Closing
<1>2. ASSUME NEW o \in Ops, Replaces(o) PROVE Ends'
  BY <1>2 DEF Replaces, MaySwap, Closing
<1>3. ASSUME NEW x \in Ops \cup Commands, Tears(x) \/ Declines(x) \/ Installs(x) PROVE Ends'
  BY <1>3 DEF Tears, Declines, Installs, Over
<1>4. ASSUME NEW c \in Commands, Command(c) PROVE Ends'
  BY <1>4 DEF Command, Reading
<1>5. CASE Shutdown
  <2>1. ASSUME NEW x \in Ops \cup Commands, stage[x] # "off" PROVE x \in gathered'
    BY <1>5, <2>1 DEF Shutdown, Pending, Active, InFlight
  <2> QED
    BY <1>5, <2>1 DEF Shutdown
<1>6. CASE Gathered
  BY <1>6 DEF Gathered, Done
<1>7. CASE Dispose
  BY <1>7 DEF Dispose
<1>8. ASSUME UNCHANGED <<stage, host, eof, gathered>> PROVE Ends'
  BY <1>8
<1>9. ASSUME NEW o \in Ops,
             LeavesQueue(o) \/ WorkEnds(o) \/ Unwinds(o) \/ Connects(o) \/ ConnectFails(o) \/ PreviousEnds(o)
               \/ Cancel(o)
      PROVE  Ends'
  BY <1>9 DEF LeavesQueue, WorkEnds, Unwinds, Connects, ConnectFails, PreviousEnds, Cancel
<1>10. ASSUME NEW c \in Commands,
             PromptClaims(c) \/ PromptJudged(c) \/ OtherEnds(c) \/ CompactEnds(c) \/ TurnEnds(c)
      PROVE  Ends'
  BY <1>10 DEF PromptClaims, PromptJudged, OtherEnds, CompactEnds, TurnEnds, Finishes
<1> QED
  BY <1>1, <1>2, <1>3, <1>4, <1>5, <1>6, <1>7, <1>8, <1>9, <1>10
     DEF Next, OpStep, Handler, Replacement, CommandStep, vars

-----------------------------------------------------------------------------
LEMMA LeasedKept ==
  ASSUME IInv, [Next]_vars
  PROVE  Leased'
<1> USE RequestsAssumption DEF IInv, TypeOK, Leased, Stages, plane, cut, classic, harness, mcp, loop
<1>2. ASSUME NEW o \in Ops, Request(o) PROVE Leased'
  <2>1. o \notin leases /\ lease # o /\ at[o] = "new" /\ host \in {"serving", "closing"}
    BY <1>2 DEF Request, Reading
  <2>2. PICK m \in scope.methods[o] :
          /\ method' = [method EXCEPT ![o] = m]
          /\ \/ Body(o, m)
             \/ (Moves(o, "done") \/ Moves(o, "queued")) /\ UNCHANGED <<stage, leases>>
    BY <1>2 DEF Request
  <2>3. UNCHANGED <<lease, tools, host>>
    BY <1>2 DEF Request
  <2>4. CASE Body(o, m)
    <3>1. CASE Moves(o, "done") /\ UNCHANGED <<stage, leases>>
      BY <2>1, <2>2, <2>3, <3>1 DEF Moves
    <3>2. CASE /\ Moves(o, IF m = "reload" THEN "swap" ELSE "work")
               /\ stage' = [stage EXCEPT ![o] = IF m = "reload" THEN "hooks" ELSE @]
               /\ leases' = leases \cup (IF m = "configure" THEN {o} ELSE {})
      <4>1. (\A y \in Ops \cup Commands : stage'[y] # "torn") => tools' = lease'
        BY <2>1, <2>3, <3>2
      <4> QED
        BY <2>1, <2>2, <2>3, <3>2, <4>1 DEF Moves
    <3> QED
      BY <2>4, <3>1, <3>2 DEF Body
  <2>5. CASE (Moves(o, "done") \/ Moves(o, "queued")) /\ UNCHANGED <<stage, leases>>
    BY <2>1, <2>2, <2>3, <2>5 DEF Moves
  <2> QED
    BY <2>2, <2>4, <2>5
<1>3. ASSUME NEW o \in Ops, Wake(o) PROVE Leased'
  BY <1>3 DEF Wake, Body, Moves
<1>4. ASSUME NEW o \in Ops, LeavesQueue(o) \/ WorkEnds(o) \/ Unwinds(o) \/ PreviousEnds(o) PROVE Leased'
  BY <1>4 DEF LeavesQueue, WorkEnds, Unwinds, PreviousEnds, Answered, Moves
<1>5. ASSUME NEW o \in Ops, Connects(o) PROVE Leased'
  BY <1>5 DEF Connects, Answered, Moves
<1>6. ASSUME NEW o \in Ops, ConnectFails(o) PROVE Leased'
  BY <1>6 DEF ConnectFails, Answered, Moves
<1>7. ASSUME NEW o \in Ops, Replaces(o) PROVE Leased'
  BY <1>7 DEF Replaces, Moves
<1>8. ASSUME NEW x \in Ops \cup Commands, Tears(x) PROVE Leased'
  BY <1>8 DEF Tears
<1>9. ASSUME NEW x \in Ops \cup Commands, Declines(x) \/ Installs(x) PROVE Leased'
  <2>1. PICK raised \in BOOLEAN : Over(x, raised)
    BY <1>9 DEF Declines, Installs
  <2>2. stage[x] # "off" /\ (tools' = lease \/ (tools' = tools /\ stage[x] = "hooks"))
    BY <1>9 DEF Declines, Installs
  <2>3. \A o \in Ops : at'[o] = at[o] \/ (at[o] = "swap" /\ (at'[o] = "work" => method[o] = "command"))
    BY <2>1, <2>2 DEF Over, Resumes, Answered, Moves
  <2>4. /\ UNCHANGED <<method, lease, leases, host>>
    BY <2>1 DEF Over
  <2>5. /\ host \in {"serving", "closing"}
        /\ \A y \in Ops \cup Commands : stage'[y] # "torn"
        => tools' = lease
    <3>1. CASE tools' = lease
      BY <3>1
    <3>2. CASE tools' = tools /\ stage[x] = "hooks" /\ host \in {"serving", "closing"}
      BY <2>1, <3>2 DEF Over
    <3> QED
      BY <2>2, <3>1, <3>2
  <2> QED
    BY <2>3, <2>4, <2>5
<1>10. ASSUME NEW c \in Commands, Command(c) PROVE Leased'
  <2>1. UNCHANGED <<at, method, lease, leases, tools, host>>
    BY <1>10 DEF Command
  <2>2. (\A y \in Ops \cup Commands : stage'[y] # "torn") => \A y \in Ops \cup Commands : stage[y] # "torn"
    BY <1>10 DEF Command
  <2> QED
    BY <2>1, <2>2
<1>11. CASE Shutdown \/ Gathered \/ Dispose
  BY <1>11 DEF Shutdown, Gathered, Dispose
<1>12. ASSUME UNCHANGED <<at, method, stage, lease, leases, tools, host>> PROVE Leased'
  BY <1>12
<1>13. ASSUME NEW c \in Commands,
             PromptClaims(c) \/ PromptJudged(c) \/ OtherEnds(c) \/ CompactEnds(c) \/ TurnEnds(c)
      PROVE  Leased'
  BY <1>12, <1>13 DEF PromptClaims, PromptJudged, OtherEnds, CompactEnds, TurnEnds, Finishes
<1> QED
  BY <1>2, <1>3, <1>4, <1>5, <1>6, <1>7, <1>8, <1>9, <1>10, <1>11, <1>12, <1>13
     DEF Next, OpStep, Handler, Replacement, CommandStep, Cancel, vars

-----------------------------------------------------------------------------
LEMMA Preserved == IInv /\ [Next]_vars => IInv'
BY TypesKept, StagesKept, ExcludesKept, EndsKept, LeasedKept DEF IInv

LEMMA Invariant == Spec => []IInv
<1>1. Init => IInv
  BY Initially
<1> QED
  BY <1>1, Preserved, PTL DEF Spec

\* Every reachable state is well typed, and the one operation that is active is the lock's holder (handle()).
THEOREM TypeCorrect == Spec => []TypeOK
<1>1. IInv => TypeOK
  BY DEF IInv
<1> QED
  BY <1>1, Invariant, PTL

\* Whatever requests, cancels and ends interleave, mutations, classic commands and replacements exclude
\* each other as handle(), transition() and classic_gate() are there to have it.
THEOREM AllApart == Spec => []Apart
<1>1. IInv => Apart
  <2> SUFFICES ASSUME IInv PROVE Apart
    OBVIOUS
  <2> USE RequestsAssumption DEF IInv, TypeOK
  <2>1. ASSUME NEW o \in Ops, Active(o)
        PROVE  /\ \A p \in Ops : Active(p) => p = o
               /\ owner = Nobody /\ \A c \in InFlight : kind[c] \notin CLASSIC_TRANSITIONS
               /\ at[o] = "swap" => InFlight = {}
    BY <2>1 DEF Active, Excludes, CLASSIC_TRANSITIONS
  <2>2. ASSUME NEW x \in Ops \cup Commands, NEW y \in Ops \cup Commands, stage[x] # "off", stage[y] # "off"
        PROVE  x = y
    <3>1. CASE x \in Ops /\ y \in Ops
      BY <2>2, <3>1 DEF Stages
    <3>2. CASE x \in Commands /\ y \in Commands
      BY <2>2, <3>2 DEF Stages, Excludes, Swapping
    <3>3. ASSUME NEW o \in Ops, NEW c \in Commands, stage[o] # "off", stage[c] # "off" PROVE FALSE
      BY <3>3 DEF Stages, Excludes, InFlight
    <3> QED
      BY <2>2, <3>1, <3>2, <3>3
  <2>3. host = "gone" /\ eof => \A x \in Ops \cup Commands : stage[x] = "off"
    BY DEF Ends
  <2> QED
    BY <2>1, <2>2, <2>3 DEF Apart
<1> QED
  BY <1>1, Invariant, PTL

\* Through configurations that fail, time out or are cancelled, and through replacements (configure(),
\* attach()), the harness has the tools of the one lease that is installed and connected.
THEOREM LeaseFollowed == Spec => []LeaseFollows
<1>1. IInv => LeaseFollows
  <2> SUFFICES ASSUME IInv, host \in {"serving", "closing"}
               PROVE  /\ (\A x \in Ops \cup Commands : stage[x] # "torn") => tools = lease
                      /\ leases \ {o \in Ops : at[o] = "work"} = {lease} \ {Nobody}
    BY DEF LeaseFollows
  <2> USE RequestsAssumption DEF IInv, TypeOK, Leased
  <2>1. ASSUME NEW o \in leases, at[o] # "work" PROVE o = lease /\ o # Nobody
    BY <2>1
  <2>2. lease # Nobody => lease \in leases /\ at[lease] # "work"
    OBVIOUS
  <2> QED
    BY <2>1, <2>2
<1> QED
  BY <1>1, Invariant, PTL

-----------------------------------------------------------------------------
LEMMA CancelledKept ==
  ASSUME IInv, Cancelled, NoCatch, [Next]_vars
  PROVE  Cancelled' /\ (\A o \in Ops : Begins(o) => o \notin told /\ ~Closing)
<1> DEFINE Holds == Cancelled' /\ (\A o \in Ops : Begins(o) => o \notin told /\ ~Closing)
<1> USE RequestsAssumption DEF IInv, TypeOK, Cancelled, Begins, Active, Closing, plane, cut, classic, harness, mcp, loop
<1>1. ASSUME NEW o \in Ops, Request(o) PROVE Holds
  BY <1>1 DEF Request, Body, Moves
<1>2. ASSUME NEW o \in Ops, Wake(o) PROVE Holds
  BY <1>2 DEF Wake, Body, Moves
<1>3. ASSUME NEW o \in Ops, LeavesQueue(o) \/ WorkEnds(o) \/ Unwinds(o) \/ ConnectFails(o) \/ PreviousEnds(o)
      PROVE  Holds
  BY <1>3 DEF LeavesQueue, WorkEnds, Unwinds, ConnectFails, PreviousEnds, Answered, Moves
<1>4. ASSUME NEW o \in Ops, Connects(o) PROVE Holds
  BY <1>4 DEF Connects, Answered, Moves
<1>5. ASSUME NEW o \in Ops, Replaces(o) PROVE Holds
  BY <1>5 DEF Replaces, Moves, MaySwap
<1>6. ASSUME NEW x \in Ops \cup Commands, Tears(x) PROVE Holds
  BY <1>6 DEF Tears
<1>7. ASSUME NEW x \in Ops \cup Commands, Declines(x) \/ Installs(x) PROVE Holds
  <2>1. PICK raised \in BOOLEAN : Over(x, raised)
    BY <1>7 DEF Declines, Installs
  <2>2. stage[x] # "off" /\ ~scope.catches
    BY <1>7 DEF Declines, Installs, NoCatch
  <2> QED
    BY <2>1, <2>2 DEF Over, Resumes, Answered, Moves, Stages
<1>8. ASSUME NEW c \in Commands, Command(c) PROVE Holds
  BY <1>8 DEF Command
<1>9. ASSUME NEW c \in Commands,
             PromptClaims(c) \/ PromptJudged(c) \/ OtherEnds(c) \/ CompactEnds(c) \/ TurnEnds(c)
      PROVE  Holds
  BY <1>9 DEF PromptClaims, PromptJudged, OtherEnds, CompactEnds, TurnEnds, Finishes
<1>10. ASSUME NEW o \in Ops, Cancel(o) PROVE Holds
  BY <1>10 DEF Cancel, Interrupt, MayCancel, Pending
<1>11. CASE Shutdown
  BY <1>11 DEF Shutdown, BeginShutdown, Interrupt, MayCancel, Pending, CANCELLABLE_METHODS
<1>12. CASE Gathered \/ Dispose
  BY <1>12 DEF Gathered, Dispose
<1>13. CASE UNCHANGED vars
  BY <1>13 DEF vars
<1> QED
  BY <1>1, <1>2, <1>3, <1>4, <1>5, <1>6, <1>7, <1>8, <1>9, <1>10, <1>11, <1>12, <1>13
     DEF Next, OpStep, Handler, Replacement, CommandStep

\* Where no handler catches what a replacement raised, an operation that was told it is cancelled begins
\* nothing more (cancel(), _finish_uncancelled()), and nothing begins after shutdown (begin_shutdown()).
THEOREM CancelsHold ==
  ASSUME NoCatch
  PROVE  Spec => CancelHolds
<1>1. Init => IInv /\ Cancelled
  BY Initially
<1>2. IInv /\ Cancelled /\ [Next]_vars => (IInv /\ Cancelled)'
  BY Preserved, CancelledKept, NoCatch
<1>3. IInv /\ Cancelled /\ [Next]_vars => [\A o \in Ops : Begins(o) => o \notin told /\ ~Closing]_vars
  BY CancelledKept, NoCatch
<1> QED
  BY <1>1, <1>2, <1>3, PTL DEF Spec, CancelHolds
=============================================================================
