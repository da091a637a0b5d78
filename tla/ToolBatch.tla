----------------------------- MODULE ToolBatch -----------------------------
(***************************************************************************)
(* One batch of tool calls of an assistant message (loop.py): the          *)
(* sequential path, the parallel one with its three phases, and what the   *)
(* cancels of the turn's task meet in them.                                *)
(*                                                                         *)
(* Calls are numbered in source order; the turn's own task is Turn.  In a  *)
(* parallel batch each call runs on a task of its own.  A cancel is        *)
(* thrown into the await the task is suspended in; a tool, a hook or a     *)
(* listener may swallow it.  One action runs to the next suspension.       *)
(* What a result holds: "raw" output, output the after_tool_call hook has  *)
(* seen ("shown"), or the loop's own words ("cut").                        *)
(***************************************************************************)
EXTENDS Naturals, Sequences, FiniteSets, SequencesExt

CONSTANTS N,          \* calls of the message
          Kinds       \* the batches checked, see `kind'

ASSUME BatchAssumption ==
  /\ N \in Nat \ {0}
  /\ Kinds \subseteq [parallel : BOOLEAN, told : BOOLEAN, fails : BOOLEAN, cancels : Nat]

Calls == 1..N
Turn == 0

VARIABLES
  kind,      \* what the batch is: parallel or not, its host, its hooks, a bound on cancels
  pc,        \* where the batch is: "prepare", "instant", "call", "wait", "grace", "answer", "commit", "over"
  at,        \* the call it is at
  st,        \* where each call is
  out,       \* the result each call has so far
  endedWith, \* `ended_with': the result a call's end event went out with
  abandoned, \* calls a second cancel stopped the batch waiting for
  result,    \* the results the batch commits
  log,       \* the calls whose result reached the context, in that order
  lost,      \* calls whose result a cancel or a sink's failure cost at its commit
  ends,      \* tool_execution_end events sent per call
  hits,      \* tasks with a cancel not delivered yet
  reached,   \* `_CANCEL_REACHED'
  cancels,   \* cancels of the turn's task so far
  base,      \* its count when phase 2 began
  cancelled, \* a cancel ended phase 1
  stopping,  \* the wait has cancelled the calls
  failure,   \* a call's failure waits to be raised
  outcome,   \* how the batch ended
  seen       \* history: the loop itself caught a cancel of the turn's task

own == <<st, out, endedWith, ends>>
given == <<abandoned, result, log, lost>>
wait == <<base, cancelled, stopping, failure>>
vars == <<kind, pc, at, own, given, hits, reached, cancels, wait, outcome, seen>>

Parallel == kind.parallel  \* the batch takes the parallel path
HostTells == kind.told     \* the host passes `cancel_requested'
CanFail == kind.fails      \* hooks and sinks may raise
MaxCancels == kind.cancels \* bound: cancels of the turn's task
Task(c) == IF Parallel THEN c ELSE Turn

Running == {"queued", "execute", "hook", "ending"}
Held == {"none", "raw", "shown", "cut"}

TypeOK ==
  /\ kind \in Kinds
  /\ pc \in {"prepare", "instant", "call", "wait", "grace", "answer", "commit", "over"}
  /\ at \in Calls
  /\ st \in [Calls -> {"new", "ready", "done", "never", "failed"} \cup Running]
  /\ out \in [Calls -> Held] /\ endedWith \in [Calls -> Held] /\ result \in [Calls -> Held]
  /\ abandoned \subseteq Calls /\ lost \subseteq Calls
  /\ log \in Seq(Calls)
  /\ ends \in [Calls -> Nat]
  /\ hits \subseteq {Turn} \cup Calls /\ reached \subseteq {Turn} \cup Calls
  /\ cancels \in 0..MaxCancels /\ base \in 0..MaxCancels
  /\ cancelled \in BOOLEAN /\ stopping \in BOOLEAN /\ failure \in BOOLEAN
  /\ outcome \in {"none", "returned", "cancelled", "failed", "broken"}
  /\ seen \in BOOLEAN

Init ==
  /\ kind \in Kinds
  /\ pc = "prepare" /\ at = 1
  /\ st = [c \in Calls |-> "new"]
  /\ out = [c \in Calls |-> "none"] /\ endedWith = out /\ result = out
  /\ abandoned = {} /\ lost = {} /\ log = <<>>
  /\ ends = [c \in Calls |-> 0]
  /\ hits = {} /\ reached = {} /\ cancels = 0 /\ base = 0
  /\ cancelled = FALSE /\ stopping = FALSE /\ failure = FALSE
  /\ outcome = "none" /\ seen = FALSE

-----------------------------------------------------------------------------
\* `_cancel_pending' for task t, with what has been noted in R.
Known(t, R) == t \in R \/ (HostTells /\ cancels > 0)
Hit(t) == t \in hits
Begun(c) == st[c] \in {"execute", "hook", "ending", "done", "failed"}
\* The lowest call from k on in S, or none.
From(k, S) == {c \in S : c >= k}
Lowest(S) == CHOOSE c \in S : \A d \in S : c <= d

Ends(how) == /\ pc' = "over" /\ outcome' = how
             /\ UNCHANGED at

\* The batch has committed: a cancel anybody knows of goes on, then a failure.
Close(C, R) == Ends(CASE C \/ Known(Turn, R) -> "cancelled"
                      [] ~C /\ ~Known(Turn, R) /\ failure -> "failed"
                      [] OTHER -> "returned")

\* The next result to commit, in source order, of those in res.
CommitFrom(k, res, C, R) ==
  LET rest == From(k, {c \in Calls : res[c] # "none"}) IN
  IF rest = {} THEN Close(C, R)
  ELSE pc' = "commit" /\ at' = Lowest(rest) /\ UNCHANGED outcome

\* The calls from k on whose tasks ended or which ended with something: their results as they are
\* now; the first abandoned one with none is answered for, its end event first.
Gather(k, gone, res, R) ==
  LET silent == From(k, {c \in gone : endedWith[c] = "none"})
      stop == IF silent = {} THEN N + 1 ELSE Lowest(silent)
      got == [c \in Calls |-> IF c < k \/ c > stop THEN res[c]
                              ELSE IF c = stop THEN "cut"
                              ELSE IF c \in gone THEN endedWith[c]
                              ELSE IF st[c] = "done" THEN out[c] ELSE "none"]
  IN /\ result' = got
     /\ IF silent = {} THEN CommitFrom(1, got, FALSE, R) /\ UNCHANGED ends
        ELSE /\ pc' = "answer" /\ at' = stop
             /\ ends' = [ends EXCEPT ![stop] = @ + 1]
             /\ UNCHANGED outcome

\* Mutant: nobody answers for the calls that still run.
Stragglers_None == {}
Stragglers == {c \in Calls : st[c] \in Running}

\* The wait is over: whatever still runs is abandoned, all in one pass.
Collect(R) == /\ abandoned' = Stragglers
              /\ Gather(1, Stragglers, result, R)

\* A cancel in phase 1: no call has a task, and what has a result commits.
CancelledEarly(done) == LET got == [c \in Calls |-> IF c \in done THEN "shown" ELSE "none"] IN
  /\ result' = got
  /\ cancelled' = TRUE
  /\ CommitFrom(1, got, TRUE, reached)

Instants == {c \in Calls : st[c] = "done"}

-----------------------------------------------------------------------------
\* Mutant: one call too many.
More_TooMany(k) == k <= N + 1
More(k) == k <= N

\* The next call is announced, or the last one was: a parallel batch starts its tasks.  S is the
\* calls' states so far.
NextCall(k, S) ==
  IF More(k)
  THEN /\ IF Parallel /\ Known(Turn, reached)
            THEN CancelledEarly({c \in Calls : S[c] = "done"})
            ELSE /\ pc' = "prepare" /\ at' = k
                 /\ UNCHANGED <<result, cancelled, outcome>>
       /\ st' = S /\ UNCHANGED base
  ELSE /\ st' = [c \in Calls |-> IF S[c] = "ready" THEN "queued" ELSE S[c]]
       /\ base' = cancels
       /\ pc' = "wait" /\ UNCHANGED <<at, result, cancelled, outcome>>

\* The start event, the arguments and the before_tool_call hook passed, a cancel in them swallowed
\* or none: the call has a result at once (unknown tool, bad arguments, blocked) ...
Instant ==
  /\ pc = "prepare"
  /\ hits' = hits \ {Turn}
  /\ out' = [out EXCEPT ![at] = "shown"]
  /\ ends' = [ends EXCEPT ![at] = @ + 1]
  /\ st' = [st EXCEPT ![at] = IF Parallel THEN "done" ELSE "ending"]
  /\ pc' = IF Parallel THEN "instant" ELSE "call"
  /\ UNCHANGED <<at, endedWith, given, reached, cancels, wait, outcome, seen>>

\* ... or is ready to run.
Ready ==
  /\ pc = "prepare"
  /\ hits' = hits \ {Turn}
  /\ IF Parallel THEN NextCall(at + 1, [st EXCEPT ![at] = "ready"])
     ELSE /\ IF Known(Turn, reached) THEN Ends("cancelled") /\ UNCHANGED st
             ELSE pc' = "call" /\ st' = [st EXCEPT ![at] = "execute"] /\ UNCHANGED <<at, outcome>>
          /\ UNCHANGED <<result, cancelled, base>>
  /\ UNCHANGED <<out, endedWith, ends, abandoned, log, lost, reached, cancels, stopping, failure, seen>>

\* The end event of a parallel batch's immediate result is out.
InstantEnds ==
  /\ pc = "instant"
  /\ hits' = hits \ {Turn}
  /\ NextCall(at + 1, st)
  /\ UNCHANGED <<out, endedWith, ends, abandoned, log, lost, reached, cancels, stopping, failure, seen>>

\* A cancel goes through either of them.
PrepareCut ==
  /\ pc \in {"prepare", "instant"} /\ Hit(Turn)
  /\ hits' = hits \ {Turn}
  /\ IF Parallel THEN CancelledEarly(Instants)
     ELSE Ends("cancelled") /\ UNCHANGED <<result, cancelled>>
  /\ UNCHANGED <<own, abandoned, log, lost, reached, cancels, base, stopping, failure>>
  /\ seen' = TRUE

\* A hook or a sink raises in either of them: out of the batch.
PrepareBreaks ==
  /\ CanFail /\ pc \in {"prepare", "instant"}
  /\ hits' = hits \ {Turn}
  /\ Ends("broken")
  /\ UNCHANGED <<own, given, reached, cancels, wait, seen>>

-----------------------------------------------------------------------------
\* `_note_cancel_caught': the loop caught a cancel of task t and goes on.
Noted(t) == /\ reached' = reached \cup {t}
            /\ seen' = (seen \/ t = Turn)

\* The steps of one call, on its own task or on the turn's.
\* Mutant: only a cancel of its own task is read.
FirstStep_Unchecked(c) ==
  /\ st[c] = "queued"
  /\ st' = [st EXCEPT ![c] = IF Hit(c) THEN "never" ELSE "execute"]
  /\ hits' = hits \ {c}
  /\ UNCHANGED <<pc, at, out, endedWith, ends, given, reached, cancels, wait, outcome, seen>>

\* `_run': a cancel that came ahead of it means the call never begins.
FirstStep(c) ==
  /\ st[c] = "queued"
  /\ st' = [st EXCEPT ![c] = IF Hit(c) \/ cancels > base \/ Known(c, reached) THEN "never" ELSE "execute"]
  /\ hits' = hits \ {c}
  /\ UNCHANGED <<pc, at, out, endedWith, ends, given, reached, cancels, wait, outcome, seen>>

\* The tool is done with k: an abandoned call's hook does not run.
Settles(c, k) ==
  /\ out' = [out EXCEPT ![c] = k]
  /\ IF c \in abandoned
     THEN endedWith' = [endedWith EXCEPT ![c] = k] /\ st' = [st EXCEPT ![c] = "done"]
     ELSE st' = [st EXCEPT ![c] = "hook"] /\ UNCHANGED endedWith
  /\ UNCHANGED ends

\* It returns, or raises, having met no cancel or swallowed it.
ToolReturns(c) ==
  /\ st[c] = "execute"
  /\ Settles(c, "raw")
  /\ hits' = hits \ {Task(c)}
  /\ UNCHANGED <<pc, at, given, reached, cancels, wait, outcome, seen>>

\* A cancel cuts it, with what it says in ToolCancelled or nothing; or it goes on as if none had come.
ToolCut(c) ==
  /\ st[c] = "execute" /\ Hit(Task(c))
  /\ hits' = hits \ {Task(c)}
  /\ \/ /\ \E k \in {"raw", "cut"} : Settles(c, k)
        /\ Noted(Task(c))
     \/ UNCHANGED <<own, reached, seen>>
  /\ UNCHANGED <<pc, at, given, cancels, wait, outcome>>

\* The result k of c goes out in its end event, unless the batch has answered for it.
EndEvent(c, k) ==
  /\ out' = [out EXCEPT ![c] = k] /\ endedWith' = [endedWith EXCEPT ![c] = k]
  /\ IF c \in abandoned THEN st' = [st EXCEPT ![c] = "done"] /\ UNCHANGED ends
     ELSE /\ ends' = [ends EXCEPT ![c] = @ + 1]
          /\ st' = [st EXCEPT ![c] = "ending"]

\* The updates are drained and after_tool_call has seen the result, a cancel swallowed or none.
HookReturns(c) ==
  /\ st[c] = "hook"
  /\ EndEvent(c, "shown")
  /\ hits' = hits \ {Task(c)}
  /\ UNCHANGED <<pc, at, given, reached, cancels, wait, outcome, seen>>

\* Mutant: a hook the cancel met lets the output through.
Withheld_Raw == "raw"
Withheld == "cut"

\* A cancel: in the updates it costs nothing, in the hook it withholds the output.
HookCut(c) ==
  /\ st[c] = "hook" /\ Hit(Task(c))
  /\ hits' = hits \ {Task(c)}
  /\ Noted(Task(c))
  /\ \/ EndEvent(c, Withheld)
     \/ UNCHANGED own
  /\ UNCHANGED <<pc, at, given, cancels, wait, outcome>>

\* It raises: with a cancel known the output is withheld, else the call has failed.
HookRaises(c) ==
  /\ CanFail /\ st[c] = "hook"
  /\ hits' = hits \ {Task(c)}
  /\ IF Known(Task(c), reached) THEN EndEvent(c, Withheld)
     ELSE st' = [st EXCEPT ![c] = "failed"] /\ UNCHANGED <<out, endedWith, ends>>
  /\ UNCHANGED <<pc, at, given, reached, cancels, wait, outcome, seen>>

\* The end event is out; a cancel in it is remembered and costs nothing.
CallEnds(c) ==
  /\ st[c] = "ending"
  /\ st' = [st EXCEPT ![c] = "done"]
  /\ hits' = hits \ {Task(c)}
  /\ \/ Hit(Task(c)) /\ Noted(Task(c))
     \/ UNCHANGED <<reached, seen>>
  /\ UNCHANGED <<pc, at, out, endedWith, ends, given, cancels, wait, outcome>>

EndRaises(c) ==
  /\ CanFail /\ st[c] = "ending" /\ ~Known(Task(c), reached)
  /\ hits' = hits \ {Task(c)}
  /\ st' = [st EXCEPT ![c] = "failed"]
  /\ UNCHANGED <<pc, at, out, endedWith, ends, given, reached, cancels, wait, outcome, seen>>

-----------------------------------------------------------------------------

\* A sequential batch commits a call's result as it ends, or raises its failure.
CallCommits ==
  /\ pc = "call" /\ st[at] = "done"
  /\ result' = [result EXCEPT ![at] = out[at]]
  /\ pc' = "commit"
  /\ UNCHANGED <<at, own, abandoned, log, lost, hits, reached, cancels, wait, outcome, seen>>

CallFails ==
  /\ pc = "call" /\ st[at] = "failed"
  /\ Ends("failed")
  /\ UNCHANGED <<own, given, hits, reached, cancels, wait, seen>>

-----------------------------------------------------------------------------
\* Phase 2's wait.  Every call has ended ...
WaitEnds ==
  /\ pc = "wait" /\ ~Hit(Turn)
  /\ \A c \in Calls : st[c] \notin Running /\ (st[c] = "failed" => failure)
  /\ Collect(reached)
  /\ UNCHANGED <<st, out, endedWith, log, lost, hits, reached, cancels, wait, seen>>

CancelCalls == LET running == {c \in Calls : st[c] \in Running} IN
               /\ hits' = (hits \ {Turn}) \cup running
               /\ reached' = reached \cup running \cup IF Hit(Turn) THEN {Turn} ELSE {}

\* ... or one has failed, and the others are cancelled ...
WaitFails ==
  /\ pc = "wait" /\ ~Hit(Turn) /\ ~failure
  /\ \E c \in Calls : st[c] = "failed"
  /\ failure' = TRUE /\ stopping' = TRUE
  /\ IF stopping THEN UNCHANGED <<hits, reached>> ELSE CancelCalls
  /\ UNCHANGED <<pc, at, own, given, cancels, base, cancelled, outcome, seen>>

\* Mutant: two cancels in one turn of the event loop count as one.
SecondCancel_Stopping == stopping
SecondCancel == stopping \/ cancels > base + 1

\* ... or a cancel lands in it: the calls are cancelled, and a second one ends the wait.
WaitCut ==
  /\ pc = "wait" /\ Hit(Turn)
  /\ CancelCalls
  /\ stopping' = TRUE
  /\ pc' = IF SecondCancel THEN "grace" ELSE "wait"
  /\ UNCHANGED <<at, own, given, cancels, base, cancelled, failure, outcome>>
  /\ seen' = TRUE

\* The stragglers' grace is over, or a cancel ends it; every task has had its first step by then.
GraceEnds ==
  /\ pc = "grace"
  /\ \A c \in Calls : st[c] # "queued"
  /\ hits' = hits \ {Turn}
  /\ Collect(reached)
  /\ UNCHANGED <<st, out, endedWith, log, lost, reached, cancels, wait, seen>>

\* The end event of an abandoned call is out.
Answered ==
  /\ pc = "answer"
  /\ hits' = hits \ {Turn}
  /\ Gather(at + 1, abandoned, result, reached)
  /\ UNCHANGED <<st, out, endedWith, abandoned, log, lost, reached, cancels, wait, seen>>

-----------------------------------------------------------------------------
\* A commit is over: the next one, or in a sequential batch the next call unless a cancel is known.
AfterCommit(R) ==
  IF Parallel THEN CommitFrom(at + 1, result, cancelled, R)
  ELSE IF Known(Turn, R) THEN Ends("cancelled")
  ELSE IF at = N THEN Ends("returned")
  ELSE pc' = "prepare" /\ at' = at + 1 /\ UNCHANGED outcome

Commit ==
  /\ pc = "commit"
  /\ hits' = hits \ {Turn}
  /\ log' = Append(log, at)
  /\ AfterCommit(reached)
  /\ UNCHANGED <<own, abandoned, result, lost, reached, cancels, wait, seen>>

\* A cancel in message_start costs nothing; in message_end it skips the result, which may be in.
CommitCut ==
  /\ pc = "commit" /\ Hit(Turn)
  /\ hits' = hits \ {Turn}
  /\ Noted(Turn)
  /\ \/ UNCHANGED <<pc, at, log, lost, outcome>>
     \/ /\ lost' = lost \cup {at}
        /\ log' \in {log, Append(log, at)}
        /\ AfterCommit(reached')
  /\ UNCHANGED <<own, abandoned, result, cancels, wait>>

\* The sink raises: a cancel or a failure on its way up keeps its place, else it ends the batch.
CommitRaises ==
  /\ CanFail /\ pc = "commit"
  /\ hits' = hits \ {Turn}
  /\ IF Known(Turn, reached) \/ failure
     THEN lost' = lost \cup {at} /\ AfterCommit(reached)
     ELSE Ends("broken") /\ UNCHANGED lost
  /\ UNCHANGED <<own, abandoned, result, log, reached, cancels, wait, seen>>

-----------------------------------------------------------------------------
\* abort() or whoever awaits prompt() cancels the turn's task.
Cancel ==
  /\ pc # "over" /\ cancels < MaxCancels
  /\ cancels' = cancels + 1
  /\ hits' = hits \cup {Turn}
  /\ UNCHANGED <<pc, at, own, given, reached, wait, outcome, seen>>

Batch ==
  \/ Instant \/ Ready \/ InstantEnds \/ PrepareCut \/ PrepareBreaks \/ CallCommits \/ CallFails
  \/ WaitEnds \/ WaitFails \/ WaitCut \/ GraceEnds \/ Answered
  \/ Commit \/ CommitCut \/ CommitRaises

\* What the event loop, the hooks and the sinks end; a tool may run for ever.
Progress(c) == FirstStep(c) \/ HookReturns(c) \/ HookCut(c) \/ HookRaises(c) \/ CallEnds(c) \/ EndRaises(c)
Tool(c) == ToolReturns(c) \/ ToolCut(c)

Next == /\ Batch \/ Cancel \/ \E c \in Calls : Progress(c) \/ Tool(c)
        /\ UNCHANGED kind

Spec == Init /\ [][Next]_vars

FairSpec == Spec /\ WF_vars(Batch /\ UNCHANGED kind) /\ \A c \in Calls : WF_vars(Progress(c) /\ UNCHANGED kind)

-----------------------------------------------------------------------------
\* Results reach the context in the model's order, each once, whatever order the calls end in; and when
\* the batch is over a call that began has one, unless a cancel or a sink's failure met its very commit
\* or its own hook failed: no other cancel, no failing sibling and no tool that will not stop costs it
\* (#672, #673, ADR-0290).
ResultsInPlace ==
  /\ \A i, j \in DOMAIN log : i < j => log[i] < log[j]
  /\ outcome \in {"returned", "cancelled", "failed"} =>
       \A c \in Calls : Begun(c) /\ st[c] # "failed" => c \in ToSet(log) \cup lost

\* A call has one tool_execution_end at most; a result that commits had it before, and what a tool said
\* reaches the context only through its after_tool_call hook, whatever cancel or failure met the hook -
\* but for a call the batch stopped waiting for, which HookSawResult is about.
OnlyShownOutput ==
  /\ \A c \in Calls : ends[c] <= 1
  /\ \A c \in ToSet(log) \ abandoned : ends[c] = 1
  /\ \A c \in Calls \ abandoned : result[c] # "raw"

\* The same of every call, a straggler included: `_execute_and_finalize' and ADR-0290.
HookSawResult == \A c \in Calls : result[c] # "raw"

\* Once the host knows of a cancel no further call begins, and the batch does not return as if none
\* had come, even where a hook, a listener or a tool swallowed it (#698).  Without such a host the same
\* is true of a return after a cancel that reached the loop's own code on the turn's task.
CancelStops ==
  [][/\ HostTells /\ cancels > 0 => \A c \in Calls : st[c] # "execute" => st'[c] # "execute"
     /\ (HostTells /\ cancels > 0) \/ seen' => (outcome' = "returned" => outcome = "returned")]_vars

\* A tool that ignores cancellation holds a parallel batch for one cancel and not for two.
SecondCancelEnds == (pc = "wait" /\ cancels >= base + 2) ~> pc = "over"
=============================================================================
