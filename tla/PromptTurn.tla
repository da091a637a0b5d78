----------------------------- MODULE PromptTurn -----------------------------
(***************************************************************************)
(* One AgentHarness and the prompt() calls it takes (harness/core.py):     *)
(* the inputs a turn carries, from the queues through the loop's           *)
(* message_end commits to the live context and the session, and back: the  *)
(* retry and overflow tails, abort(), abort_retry(), a cancel of prompt()  *)
(* itself, and the withdrawal an Esc asks for.                             *)
(*                                                                         *)
(* An input is one message of a user; what the model says is one of        *)
(* Answers.  `live' is `_state.messages', `path' the session's branch.  A  *)
(* session append is awaited and a cancel that meets it means it is not    *)
(* made.  One action runs from one suspension point to the next.           *)
(***************************************************************************)
EXTENDS Naturals, Sequences, FiniteSets, SequencesExt

CONSTANTS Texts,       \* inputs of prompt()
          Steers,      \* inputs of steer()
          FollowUps,   \* inputs of follow_up()
          Nexts,       \* inputs of next_turn()
          None,        \* no input, no answer
          Scopes       \* bounds: for each history checked, which inputs are sent, and how much happens

Inputs == Texts \cup Steers \cup FollowUps \cup Nexts

\* A committed message of the model or a tool; "stale" is an overflow from before a compaction.
Answers == {"ok", "tools", "result"}
Failures == {"retryable", "overflow", "fatal", "stale", "aborted"}
Assistant == (Answers \cup Failures) \ {"result"}

ASSUME InputsAssumption ==
  /\ Texts \cap (Steers \cup FollowUps \cup Nexts) = {}
  /\ Steers \cap (FollowUps \cup Nexts) = {} /\ FollowUps \cap Nexts = {}
  /\ Inputs \cap (Answers \cup Failures \cup {None}) = {}
  /\ Scopes \subseteq [sent : SUBSET Inputs, retries : Nat, tools : Nat, aborts : Nat, cuts : Nat,
                        refuses : BOOLEAN]

VARIABLES
  scope,       \* the bounds this history has, one of Scopes
  pc,          \* where prompt() stands; "idle" when no call holds the harness
  cut,         \* a cancel not delivered yet: of the turn's task ("turn") or of prompt() ("prompt")
  live, path,  \* the live context and the session's branch
  nextQ, steerQ, followQ,
  fate,        \* what became of an input outside the queues, the turn and the context
  current,     \* the input of the running prompt()
  drained,     \* the next-turn messages it took
  todo,        \* what the loop commits before its next request
  open,        \* `uncommitted_inputs' of the running `_run'
  storing,     \* the last commit has not reached the session yet
  rerun,       \* this `_run' is a retry's or an overflow recovery's
  before,      \* `aborted_before'
  tracker,     \* `_unanswered': the inputs committed since the last answer, and `safe_leaf'
  abortReq, withdrawReq, retryStop,
  attempt,     \* `_retry_attempt'
  recovered,   \* `_overflow_recovery_attempted'
  failed,      \* the answer overflow recovery dropped, while its compaction runs
  withdrawnQ,  \* `_withdrawn_queued'
  tools, aborts, cuts,  \* bounds used so far
  stopped,     \* history: the abort this prompt answers to, and where it met it
  escaped,     \* history: the inputs an Esc is to take back
  astray       \* history: inputs whose session write, or whose withdrawal from it, did not happen

context == <<live, path, astray>>
queues == <<nextQ, steerQ, followQ>>
run == <<todo, open, storing, rerun, before>>
flags == <<abortReq, withdrawReq, retryStop, stopped, escaped>>
tail == <<attempt, recovered, failed>>
bounds == <<tools, aborts, cuts>>
vars == <<scope, pc, cut, context, queues, fate, current, drained, run, tracker, flags, tail,
          withdrawnQ, bounds>>

MaxRetries == scope.retries   \* settings.json retry.maxRetries
MaxTools == scope.tools       \* answers with tool calls a prompt may get
MaxAborts == scope.aborts     \* abort(), ctx.abort() and abort_retry() calls
MaxCuts == scope.cuts         \* cancels of prompt() itself
Refuses == scope.refuses      \* whether the session may refuse a write

NoTracker == [on |-> FALSE, committed |-> <<>>, safe |-> 0]

\* Where the loop's task runs, and what abort() therefore cancels.
Looping == {"prompts", "feeding", "request", "answered", "tools", "turnend", "ended"}
Outside == {"asked", "setup", "build", "closeout", "closing", "tail", "retrystart", "backoff",
            "overflowread", "compacting", "rebuilding", "thresholding", "rethreshold", "withdraw",
            "thresholdread", "raising", "release", "draining"}

TypeOK ==
  /\ scope \in Scopes
  /\ pc \in {"idle"} \cup Looping \cup Outside
  /\ cut \in {"none", "turn", "prompt"}
  /\ live \in Seq(Inputs \cup Answers \cup Failures)
  /\ path \in Seq(Inputs \cup Answers \cup Failures)
  /\ nextQ \in Seq(Inputs) /\ steerQ \in Seq(Steers) /\ followQ \in Seq(FollowUps)
  /\ fate \in [Inputs -> {"fresh", "held", "given", "cleared", "missed", "refused"}]
  /\ current \in Texts \cup {None}
  /\ drained \in Seq(Inputs) /\ todo \in Seq(Inputs) /\ open \in Seq(Inputs)
  /\ storing \in BOOLEAN /\ rerun \in BOOLEAN /\ before \in BOOLEAN
  /\ tracker \in [on : BOOLEAN, committed : Seq(Inputs), safe : Nat]
  /\ abortReq \in BOOLEAN /\ withdrawReq \in BOOLEAN /\ retryStop \in BOOLEAN
  /\ attempt \in 0..MaxRetries
  /\ recovered \in BOOLEAN
  /\ failed \in {None, "overflow"}
  /\ withdrawnQ \in Seq(Inputs)
  /\ stopped \in {"no", "entry", "yes", "late", "retry"}
  /\ escaped \subseteq Inputs
  /\ astray \subseteq Inputs

Init ==
  /\ scope \in Scopes
  /\ pc = "idle" /\ cut = "none"
  /\ live = <<>> /\ path = <<>> /\ astray = {}
  /\ nextQ = <<>> /\ steerQ = <<>> /\ followQ = <<>>
  /\ fate = [m \in Inputs |-> "fresh"]
  /\ current = None /\ drained = <<>>
  /\ todo = <<>> /\ open = <<>> /\ storing = FALSE /\ rerun = FALSE /\ before = FALSE
  /\ tracker = NoTracker
  /\ abortReq = FALSE /\ withdrawReq = FALSE /\ retryStop = FALSE
  /\ stopped = "no" /\ escaped = {}
  /\ attempt = 0 /\ recovered = FALSE /\ failed = None
  /\ withdrawnQ = <<>>
  /\ tools = 0 /\ aborts = 0 /\ cuts = 0

-----------------------------------------------------------------------------
\* s without the members of S; a function of the prefixes, which a proof can go up along.
Without(s, S) ==
  LET rest[i \in 0..Len(s)] == IF i = 0 THEN <<>>
                               ELSE IF s[i] \in S THEN rest[i - 1] ELSE Append(rest[i - 1], s[i])
  IN rest[Len(s)]
Within(s, S) == Without(s, ToSet(s) \ S)
FirstOf(s) == SubSeq(s, 1, IF s = <<>> THEN 0 ELSE 1)
RestOf(s) == SubSeq(s, 2, Len(s))
LastAssistant(s) == LET said == SelectSeq(s, LAMBDA e : e \in Assistant)
                    IN IF said = <<>> THEN None ELSE Last(said)
FirstAt(s, m) == SelectInSeq(s, LAMBDA e : e = m)
\* s without the assistant message it ends in.
Popped(s) == IF s # <<>> /\ Last(s) \in Assistant THEN Front(s) ELSE s
\* A compaction's boundary: what overflowed before it is stale.
Aged(s) == [i \in DOMAIN s |-> IF s[i] = "overflow" THEN "stale" ELSE s[i]]
Becomes(S, what) == [m \in Inputs |-> IF m \in S THEN what ELSE fate[m]]
Committed(k) == [tracker EXCEPT !.committed = IF k \in Answers THEN <<>>
                                              ELSE IF k \in Inputs /\ tracker.on THEN Append(@, k)
                                              ELSE @]
\* `safe_leaf' follows an answer that reached the session.
Safe(t, p) == [t EXCEPT !.safe = IF t.on THEN Len(p) ELSE @]

-----------------------------------------------------------------------------
\* steer(), follow_up() and next_turn(): queued whatever the phase.
Steer(m) ==
  /\ m \in Steers /\ fate[m] = "fresh"
  /\ steerQ' = Append(steerQ, m) /\ fate' = Becomes({m}, "held")
  /\ UNCHANGED <<pc, cut, context, nextQ, followQ, current, drained, run, tracker, flags, tail,
                 withdrawnQ, bounds>>

FollowUp(m) ==
  /\ m \in FollowUps /\ fate[m] = "fresh"
  /\ followQ' = Append(followQ, m) /\ fate' = Becomes({m}, "held")
  /\ UNCHANGED <<pc, cut, context, nextQ, steerQ, current, drained, run, tracker, flags, tail,
                 withdrawnQ, bounds>>

NextTurn(m) ==
  /\ m \in Nexts /\ fate[m] = "fresh"
  /\ nextQ' = Append(nextQ, m) /\ fate' = Becomes({m}, "held")
  /\ UNCHANGED <<pc, cut, context, steerQ, followQ, current, drained, run, tracker, flags, tail,
                 withdrawnQ, bounds>>

\* prompt() claims the idle harness; what aborted before is none of its own.
Prompt(m) ==
  /\ pc = "idle" /\ m \in Texts /\ fate[m] = "fresh"
  /\ pc' = "asked" /\ current' = m /\ fate' = Becomes({m}, "held")
  /\ abortReq' = FALSE /\ withdrawReq' = FALSE /\ stopped' = "no" /\ escaped' = {}
  /\ recovered' = FALSE
  /\ UNCHANGED <<cut, context, queues, drained, run, tracker, retryStop, attempt, failed,
                 withdrawnQ, bounds>>

\* The `input' hook handled or refused the text, the prompt check did, or a cancel met them.
TurnAway ==
  /\ pc = "asked"
  /\ fate' = Becomes({current}, "refused")
  /\ pc' = "release" /\ cut' = "none"
  /\ UNCHANGED <<context, queues, current, drained, run, tracker, flags, tail, withdrawnQ, bounds>>

Accept ==
  /\ pc = "asked" /\ cut = "none"
  /\ drained' = nextQ /\ nextQ' = <<>>
  /\ pc' = "setup"
  /\ UNCHANGED <<cut, context, steerQ, followQ, fate, current, run, tracker, flags, tail,
                 withdrawnQ, bounds>>


\* Inputs a turn hands back go ahead of what was queued meanwhile.
Restored(s) == s \o nextQ

\* queue_update, before_agent_start or the read of the leaf raised, or was cancelled.
SetupFails ==
  /\ pc = "setup"
  /\ nextQ' = Restored(drained) /\ drained' = <<>>
  /\ fate' = Becomes({current}, "refused")
  /\ pc' = "release" /\ cut' = "none"
  /\ UNCHANGED <<context, steerQ, followQ, current, run, tracker, flags, tail, withdrawnQ, bounds>>

\* Mutant: the run clears an Esc made since the claim.
FirstRun_ForgetsEsc ==
  /\ pc = "setup" /\ cut = "none"
  /\ tracker' = [on |-> TRUE, committed |-> <<>>, safe |-> Len(path)]
  /\ todo' = drained \o <<current>> /\ open' = drained \o <<current>>
  /\ rerun' = FALSE
  /\ withdrawReq' = FALSE
  /\ pc' = "build"
  /\ UNCHANGED <<cut, context, queues, fate, current, drained, storing, before, abortReq, retryStop,
                 stopped, escaped, tail, withdrawnQ, bounds>>

\* `_run' with the prompt's inputs: an abort made since the claim stays.
FirstRun ==
  /\ pc = "setup" /\ cut = "none"
  /\ tracker' = [on |-> TRUE, committed |-> <<>>, safe |-> Len(path)]
  /\ todo' = drained \o <<current>> /\ open' = drained \o <<current>>
  /\ rerun' = FALSE
  /\ withdrawReq' = (withdrawReq /\ abortReq)
  /\ pc' = "build"
  /\ UNCHANGED <<cut, context, queues, fate, current, drained, storing, before, abortReq, retryStop,
                 stopped, escaped, tail, withdrawnQ, bounds>>

\* `_run' again, for a retry or an overflow recovery.
Rerun ==
  /\ pc' = "build"
  /\ rerun' = TRUE
  /\ abortReq' = FALSE /\ withdrawReq' = FALSE
  /\ UNCHANGED <<todo, open, storing, before, retryStop, stopped, escaped>>

BuildFails ==
  /\ pc = "build"
  /\ nextQ' = Restored(open)
  /\ open' = <<>> /\ todo' = <<>>
  /\ attempt' = 0
  /\ pc' = "release" /\ cut' = "none"
  /\ UNCHANGED <<context, steerQ, followQ, fate, current, drained, storing, rerun, before, tracker,
                 flags, recovered, failed, withdrawnQ, bounds>>

\* Mutant: the loop starts as if no abort had come since the claim.
StartLoop_IgnoresAbort ==
  /\ pc = "build" /\ cut = "none"
  /\ before' = FALSE
  /\ pc' = "prompts"
  /\ UNCHANGED <<cut, context, queues, fate, current, drained, todo, open, storing, rerun, tracker,
                 flags, tail, withdrawnQ, bounds>>

StartLoop ==
  /\ pc = "build" /\ cut = "none"
  /\ before' = (~rerun /\ abortReq)
  /\ pc' = "prompts"
  /\ UNCHANGED <<cut, context, queues, fate, current, drained, todo, open, storing, rerun, tracker,
                 flags, tail, withdrawnQ, bounds>>

-----------------------------------------------------------------------------
\* message_end of an input: live state, the uncommitted list and the tracker, before any await.
CommitInput ==
  /\ pc \in {"prompts", "feeding"} /\ cut = "none" /\ ~storing /\ todo # <<>>
  /\ live' = Append(live, Head(todo))
  /\ open' = RemoveFirst(open, Head(todo))
  /\ tracker' = Committed(Head(todo))
  /\ storing' = TRUE
  /\ UNCHANGED <<pc, cut, path, astray, queues, fate, current, drained, todo, rerun, before, flags,
                 tail, withdrawnQ, bounds>>

\* Its session append, refused or made; an abort from before the loop ends the run once the last
\* of its inputs is in.
StoreInput ==
  /\ pc \in {"prompts", "feeding"} /\ cut = "none" /\ storing
  /\ \/ path' = Append(path, Head(todo)) /\ UNCHANGED astray
     \/ Refuses /\ astray' = astray \cup {Head(todo)} /\ UNCHANGED path
  /\ storing' = FALSE /\ todo' = Tail(todo)
  /\ cut' = IF before /\ open = <<>> THEN "turn" ELSE "none"
  /\ UNCHANGED <<pc, live, queues, fate, current, drained, open, rerun, before, tracker, flags, tail,
                 withdrawnQ, bounds>>

\* The loop takes a steering line, before its first request and after every turn.
TakeSteer == /\ todo' = FirstOf(steerQ)
             /\ steerQ' = RestOf(steerQ)

FirstSteer ==
  /\ pc = "prompts" /\ cut = "none" /\ ~storing /\ todo = <<>>
  /\ TakeSteer
  /\ pc' = "feeding"
  /\ UNCHANGED <<cut, context, nextQ, followQ, fate, current, drained, open, storing, rerun, before,
                 tracker, flags, tail, withdrawnQ, bounds>>

Request ==
  /\ pc = "feeding" /\ cut = "none" /\ ~storing /\ todo = <<>>
  /\ pc' = "request"
  /\ UNCHANGED <<cut, context, queues, fate, current, drained, run, tracker, flags, tail, withdrawnQ,
                 bounds>>

\* The model answers, asks for tools, or fails.
Answer(k) ==
  /\ pc = "request" /\ cut = "none"
  /\ k = "tools" => tools < MaxTools
  /\ tools' = IF k = "tools" THEN tools + 1 ELSE tools
  /\ live' = Append(live, k)
  /\ tracker' = Committed(k)
  /\ storing' = TRUE
  /\ pc' = "answered"
  /\ UNCHANGED <<cut, path, astray, queues, fate, current, drained, todo, open, rerun, before, flags,
                 tail, withdrawnQ, aborts, cuts>>

\* Its session append, refused or made; a recovered answer closes the retry sequence.
StoreAnswer ==
  LET k == Last(live) IN
  /\ pc = "answered" /\ cut = "none"
  /\ \/ /\ path' = Append(path, k)
        /\ tracker' = IF k \in Answers THEN Safe(tracker, path') ELSE tracker
     \/ Refuses /\ UNCHANGED <<path, tracker>>
  /\ storing' = FALSE
  /\ attempt' = IF k \in Answers THEN 0 ELSE attempt
  /\ pc' = CASE k = "tools" -> "tools" [] k = "ok" -> "turnend" [] OTHER -> "ended"
  /\ UNCHANGED <<cut, live, astray, queues, fate, current, drained, todo, open, rerun, before, flags,
                 recovered, failed, withdrawnQ, bounds>>

\* The provider raised: `_run' commits a failed answer for it, and prompt() raises.
ProviderRaises ==
  /\ pc = "request" /\ cut = "none"
  /\ live' = Append(live, "fatal") /\ path' = Append(path, "fatal")
  /\ pc' = "raising"
  /\ UNCHANGED <<cut, astray, queues, fate, current, drained, run, tracker, flags, tail, withdrawnQ,
                 bounds>>

ToolsEnd ==
  /\ pc = "tools" /\ cut = "none"
  /\ live' = Append(live, "result") /\ path' = Append(path, "result")
  /\ tracker' = Safe(Committed("result"), path')
  /\ pc' = "turnend"
  /\ UNCHANGED <<cut, astray, queues, fate, current, drained, run, flags, tail, withdrawnQ, bounds>>

\* After a turn: a steering line, the next request of a tool turn, a follow-up, or the end.
TurnEnds ==
  /\ pc = "turnend" /\ cut = "none"
  /\ \/ /\ steerQ # <<>> \/ Last(live) = "result"
        /\ TakeSteer
        /\ pc' = "feeding"
        /\ UNCHANGED followQ
     \/ /\ steerQ = <<>>      \* after a tool turn, a batch whose tools asked to terminate
        /\ todo' = FirstOf(followQ)
        /\ followQ' = RestOf(followQ)
        /\ pc' = IF followQ = <<>> THEN "ended" ELSE "feeding"
        /\ UNCHANGED steerQ
  /\ UNCHANGED <<cut, context, nextQ, fate, current, drained, open, storing, rerun, before, tracker,
                 flags, tail, withdrawnQ, bounds>>

RunReturns ==
  /\ pc = "ended" /\ cut = "none"
  /\ pc' = "tail"
  /\ UNCHANGED <<cut, context, queues, fate, current, drained, run, tracker, flags, tail, withdrawnQ,
                 bounds>>

-----------------------------------------------------------------------------
\* A cancel unwinds the loop.  A batch of tools commits its results on the way out, unless a second
\* cancel loses them; a line taken off a queue and not committed is nowhere.  With an abort asked
\* for it is the turn's close-out that follows, else the cancel leaves prompt().
Unwind ==
  LET lost == ToSet(IF storing THEN RestOf(todo) ELSE todo) \ ToSet(open) IN
  /\ pc \in Looping /\ cut # "none"
  /\ \/ /\ pc = "tools"
        /\ live' = Append(live, "result") /\ path' = Append(path, "result")
        /\ tracker' = Safe(Committed("result"), path')
     \/ UNCHANGED <<live, path, tracker>>
  /\ astray' = astray \cup IF storing THEN ToSet(FirstOf(todo)) ELSE {}
  /\ fate' = Becomes(lost, "missed")
  /\ todo' = <<>> /\ storing' = FALSE /\ cut' = "none"
  /\ \/ /\ abortReq
        /\ pc' = "closeout"
        /\ UNCHANGED <<nextQ, open, attempt>>
     \/ /\ ~abortReq
        /\ nextQ' = Restored(open) /\ open' = <<>>
        /\ attempt' = 0
        /\ pc' = "release"
  /\ UNCHANGED <<steerQ, followQ, current, drained, rerun, before, flags, recovered, failed,
                 withdrawnQ, bounds>>

-----------------------------------------------------------------------------
\* `_withdraw_unanswered_inputs': what the model never answered leaves the context.
Unanswered == tracker.on /\ (tracker.committed # <<>> \/ current \in ToSet(open))
\* Mutant: the prompt is requeued as well as given back.
Requeued_All == tracker.committed \o Without(open, {current})
Requeued == Within(tracker.committed, ToSet(drained)) \o Without(open, {current})
GivenBack == ((ToSet(tracker.committed) \ ToSet(drained)) \cup (ToSet(open) \cap {current}))
\* From the first input on, no input of the tracker's and no failed answer.
Left(s, first) == SubSeq(s, 1, first - 1)
                  \o Without(SubSeq(s, first, Len(s)), ToSet(tracker.committed) \cup Failures)
LiveLeft == IF tracker.committed = <<>> THEN live
            ELSE Left(live, FirstAt(live, Head(tracker.committed)))

\* Session.withdraw_tail: done, refused, or refused halfway, the leaf moved and nothing after it.
Retract(s, lost) ==
  \/ s = (IF tracker.committed = <<>> THEN path ELSE Left(path, tracker.safe + 1)) /\ lost = {}
  \/ Refuses /\ s = path /\ lost = ToSet(tracker.committed)
  \/ /\ Refuses /\ tracker.committed # <<>>
     /\ s = SubSeq(path, 1, tracker.safe)
     /\ lost = (Inputs \cap ToSet(Left(path, tracker.safe + 1))) \ ToSet(s)

\* The event takes the queued lines with it.
EmitWithdrawn(S) == /\ fate' = Becomes(S \cup ToSet(withdrawnQ), "given")
                    /\ withdrawnQ' = <<>>

Withdraw ==
  \/ /\ ~Unanswered
     /\ EmitWithdrawn({})
     /\ UNCHANGED <<context, nextQ, open, tracker>>
  \/ /\ Unanswered
     /\ tracker' = NoTracker /\ open' = <<>>
     /\ nextQ' = Restored(Requeued)
     /\ live' = LiveLeft
     /\ \E lost \in SUBSET Inputs : Retract(path', lost) /\ astray' = astray \cup lost
     /\ EmitWithdrawn(GivenBack)

\* A cancel of prompt() in the withdrawal's own awaits: its session write, or the queue_update after it.
WithdrawCut ==
  /\ Unanswered
  /\ tracker' = NoTracker /\ open' = <<>>
  /\ nextQ' = Restored(Requeued)
  /\ live' = LiveLeft
  /\ \/ tracker.committed # <<>> /\ path' = path /\ astray' = astray \cup ToSet(tracker.committed)
     \/ Requeued # <<>> /\ Retract(path', {}) /\ UNCHANGED astray
  /\ fate' = Becomes(GivenBack, "missed")
  /\ UNCHANGED withdrawnQ

Keep == UNCHANGED <<context, nextQ, open, tracker, fate, withdrawnQ>>

\* The aborted turn's close-out: the withdrawal an Esc asked for, then the marker and the turn's end,
\* and what is still uncommitted goes back on its queue.
Closeout ==
  /\ pc = "closeout"
  /\ IF withdrawReq THEN Withdraw ELSE Keep
  /\ pc' = "closing"
  /\ UNCHANGED <<cut, steerQ, followQ, current, drained, todo, storing, rerun, before, flags, tail,
                 bounds>>

CloseoutCut ==
  /\ pc = "closeout" /\ cut = "prompt" /\ withdrawReq
  /\ WithdrawCut
  /\ attempt' = 0
  /\ pc' = "release" /\ cut' = "none"
  /\ UNCHANGED <<steerQ, followQ, current, drained, todo, storing, rerun, before, flags, recovered,
                 failed, bounds>>

CloseoutEnds ==
  /\ pc = "closing"
  /\ live' = Append(live, "aborted")
  /\ nextQ' = Restored(open) /\ open' = <<>>
  /\ \/ cut = "none" /\ pc' = "tail" /\ UNCHANGED attempt
     \/ cut = "prompt" /\ pc' = "release" /\ attempt' = 0
  /\ cut' = "none"
  /\ UNCHANGED <<path, astray, steerQ, followQ, fate, current, drained, todo, storing, rerun, before,
                 tracker, flags, recovered, failed, withdrawnQ, bounds>>

-----------------------------------------------------------------------------
\* The tail, between runs.  A retryable failure is retried, an overflow compacted and re-run once.
ToThreshold == IF withdrawReq THEN "withdraw" ELSE "thresholdread"
\* Where the tail goes from the answer k.
Onward(k) == IF k \in {"overflow", "stale"} THEN "overflowread" ELSE ToThreshold

\* Mutant: the retries have no limit.
RetryStarts_Unbounded ==
  /\ pc = "tail" /\ cut = "none"
  /\ LastAssistant(live) = "retryable" /\ ~abortReq
  /\ attempt' = attempt + 1 /\ retryStop' = FALSE
  /\ pc' = "retrystart"
  /\ UNCHANGED <<cut, context, queues, fate, current, drained, run, tracker, abortReq, withdrawReq,
                 stopped, escaped, recovered, failed, withdrawnQ, bounds>>

RetryStarts ==
  /\ pc = "tail" /\ cut = "none"
  /\ LastAssistant(live) = "retryable" /\ ~abortReq /\ attempt < MaxRetries
  /\ attempt' = attempt + 1 /\ retryStop' = FALSE
  /\ pc' = "retrystart"
  /\ UNCHANGED <<cut, context, queues, fate, current, drained, run, tracker, abortReq, withdrawReq,
                 stopped, escaped, recovered, failed, withdrawnQ, bounds>>

RunsOver ==
  /\ pc = "tail" /\ cut = "none"
  /\ LastAssistant(live) = "retryable" => abortReq \/ attempt = MaxRetries
  /\ attempt' = 0
  /\ pc' = Onward(LastAssistant(live))
  /\ UNCHANGED <<cut, context, queues, fate, current, drained, run, tracker, flags, recovered, failed,
                 withdrawnQ, bounds>>

\* auto_retry_start is out: the failed answer leaves the live context and the countdown runs.
Countdown ==
  /\ pc = "retrystart" /\ cut = "none"
  /\ live' = Popped(live)
  /\ pc' = "backoff"
  /\ UNCHANGED <<cut, path, astray, queues, fate, current, drained, run, tracker, flags, tail,
                 withdrawnQ, bounds>>


RetryRuns ==
  /\ pc = "backoff" /\ cut = "none" /\ ~retryStop /\ ~abortReq
  /\ Rerun
  /\ UNCHANGED <<cut, context, queues, fate, current, drained, tracker, tail, withdrawnQ, bounds>>

\* Mutant: only abort_retry() ends a countdown.
RetryStops_EventOnly ==
  /\ pc = "backoff" /\ cut = "none" /\ retryStop
  /\ attempt' = 0
  /\ pc' = Onward(LastAssistant(live))
  /\ UNCHANGED <<cut, context, queues, fate, current, drained, run, tracker, flags, recovered, failed,
                 withdrawnQ, bounds>>

RetryStops ==
  /\ pc = "backoff" /\ cut = "none" /\ (retryStop \/ abortReq)
  /\ attempt' = 0
  /\ pc' = Onward(LastAssistant(live))
  /\ UNCHANGED <<cut, context, queues, fate, current, drained, run, tracker, flags, recovered, failed,
                 withdrawnQ, bounds>>

\* The branch is read: an overflow from before the last compaction, an abort and a second overflow
\* recover nothing; else the failed answer leaves the live context and the compaction starts.
NoRecovery ==
  /\ pc = "overflowread" /\ cut = "none"
  /\ LastAssistant(live) = "stale" \/ abortReq \/ recovered
  /\ pc' = ToThreshold
  /\ UNCHANGED <<cut, context, queues, fate, current, drained, run, tracker, flags, tail, withdrawnQ,
                 bounds>>

Recover ==
  /\ pc = "overflowread" /\ cut = "none"
  /\ LastAssistant(live) = "overflow" /\ ~abortReq /\ ~recovered
  /\ recovered' = TRUE
  /\ live' = Popped(live)
  /\ failed' = IF live' = live THEN None ELSE "overflow"
  /\ pc' = "compacting"
  /\ UNCHANGED <<cut, path, astray, queues, fate, current, drained, run, tracker, flags, attempt,
                 withdrawnQ, bounds>>

\* `_restore_failed_answer': back, as k, unless the context has it.
PutBack(s, k) == IF failed = None \/ (s # <<>> /\ Last(s) \in {"overflow", "stale"}) THEN s
                 ELSE Append(s, k)

\* Nothing to compact, a hook or the summary failed, an abort stopped it.
CompactFails ==
  /\ pc = "compacting" /\ cut = "none"
  /\ live' = PutBack(live, "overflow") /\ failed' = None
  /\ pc' = ToThreshold
  /\ UNCHANGED <<cut, path, astray, queues, fate, current, drained, run, tracker, flags, attempt,
                 recovered, withdrawnQ, bounds>>

\* The entry is written and the live context rebuilt from the branch: what it may hold cannot be
\* withdrawn any more.
Compacted == /\ path' = Aged(path) /\ live' = Aged(path)
             /\ tracker' = NoTracker

CompactWrites ==
  /\ pc = "compacting" /\ cut = "none" /\ ~abortReq
  /\ Compacted
  /\ pc' = "rebuilding"
  /\ UNCHANGED <<cut, astray, queues, fate, current, drained, run, flags, tail, withdrawnQ, bounds>>

\* The compaction's own hook and end are out: the run starts again without the overflow ...
RecoveryRuns ==
  /\ pc = "rebuilding" /\ cut = "none" /\ ~abortReq
  /\ live' = IF live # <<>> /\ Last(live) = "stale" THEN Front(live) ELSE live
  /\ failed' = None
  /\ Rerun
  /\ UNCHANGED <<cut, path, astray, queues, fate, current, drained, tracker, attempt, recovered,
                 withdrawnQ, bounds>>

\* ... or the hook raised or an abort came, and the failed answer is back.
RecoveryStops ==
  /\ pc = "rebuilding" /\ cut = "none"
  /\ live' = PutBack(live, "stale") /\ failed' = None
  /\ pc' = ToThreshold
  /\ UNCHANGED <<cut, path, astray, queues, fate, current, drained, run, tracker, flags, attempt,
                 recovered, withdrawnQ, bounds>>

\* An abort made between runs withdraws here, before the threshold compaction may summarise it.  A
\* cancel that meets no await of its that suspends goes on to the next one.
TailWithdraws ==
  /\ pc = "withdraw"
  /\ Withdraw
  /\ pc' = "thresholdread"
  /\ UNCHANGED <<cut, steerQ, followQ, current, drained, todo, storing, rerun, before, flags, tail,
                 bounds>>

NoThreshold ==
  /\ pc = "thresholdread" /\ cut = "none"
  /\ pc' = "release"
  /\ UNCHANGED <<cut, context, queues, fate, current, drained, run, tracker, flags, tail, withdrawnQ,
                 bounds>>

Threshold ==
  /\ pc = "thresholdread" /\ cut = "none"
  /\ ~abortReq /\ LastAssistant(live) \notin {"overflow", "stale"}
  /\ pc' = "thresholding"
  /\ UNCHANGED <<cut, context, queues, fate, current, drained, run, tracker, flags, tail, withdrawnQ,
                 bounds>>

ThresholdEnds ==
  /\ pc = "thresholding" /\ cut = "none"
  /\ \/ ~abortReq /\ Compacted
     \/ UNCHANGED <<live, path, tracker>>
  /\ pc' = "release"
  /\ UNCHANGED <<cut, astray, queues, fate, current, drained, run, flags, tail, withdrawnQ, bounds>>

Raise ==
  /\ pc = "raising" /\ cut = "none"
  /\ attempt' = 0
  /\ pc' = "release"
  /\ UNCHANGED <<cut, context, queues, fate, current, drained, run, tracker, flags, recovered, failed,
                 withdrawnQ, bounds>>

-----------------------------------------------------------------------------
\* The one release: the withdrawal a raise or a late abort left, the drain of pending writes, idle,
\* and the lines no event has taken.  A cancel skips what is left of it but the release.
Release ==
  /\ pc = "release"
  /\ \/ /\ IF withdrawReq THEN Withdraw ELSE Keep
        /\ pc' = "draining"
        /\ UNCHANGED cut
     \/ /\ withdrawReq /\ cut = "prompt"
        /\ WithdrawCut
        /\ pc' = "draining"
        /\ UNCHANGED cut
  /\ UNCHANGED <<steerQ, followQ, current, drained, todo, storing, rerun, before, flags, tail, bounds>>

Idle ==
  /\ pc = "draining"
  /\ \/ cut = "none" /\ EmitWithdrawn({})
     \/ cut = "prompt" /\ UNCHANGED <<fate, withdrawnQ>>
  /\ pc' = "idle" /\ cut' = "none"
  /\ current' = None /\ drained' = <<>> /\ tracker' = NoTracker
  /\ rerun' = FALSE /\ before' = FALSE /\ todo' = <<>> /\ tools' = 0
  /\ UNCHANGED <<context, queues, open, storing, flags, tail, aborts, cuts>>

\* A cancel of prompt() between runs goes to the release; it ends the retry sequence and puts back
\* what overflow recovery dropped.
CutTail ==
  /\ pc \in {"tail", "retrystart", "backoff", "overflowread", "compacting", "rebuilding",
             "thresholdread", "thresholding", "raising"}
  /\ cut = "prompt"
  /\ live' = PutBack(live, IF pc = "rebuilding" THEN "stale" ELSE "overflow") /\ failed' = None
  /\ attempt' = 0
  /\ pc' = "release" /\ cut' = "none"
  /\ UNCHANGED <<path, astray, queues, fate, current, drained, run, tracker, flags, recovered,
                 withdrawnQ, bounds>>

CutWithdraw ==
  /\ pc = "withdraw" /\ cut = "prompt"
  /\ WithdrawCut
  /\ pc' = "release" /\ cut' = "none"
  /\ UNCHANGED <<steerQ, followQ, current, drained, todo, storing, rerun, before, flags, tail, bounds>>

-----------------------------------------------------------------------------
\* What an Esc now is to take back.
AtStake == IF pc \in {"asked", "setup"} THEN {current}
           ELSE IF tracker.on THEN ToSet(tracker.committed) \cup ToSet(open) ELSE {}

\* abort(withdraw_unanswered=w): the queues are cleared, the loop's task cancelled.
Abort(w) ==
  LET lines == steerQ \o followQ IN
  /\ aborts < MaxAborts /\ aborts' = aborts + 1
  /\ abortReq' = TRUE /\ withdrawReq' = w /\ retryStop' = TRUE
  /\ steerQ' = <<>> /\ followQ' = <<>>
  /\ cut' = IF pc \in Looping /\ cut = "none" THEN "turn" ELSE cut
  /\ IF w THEN IF pc = "idle"
               THEN fate' = Becomes(ToSet(lines \o withdrawnQ), "given") /\ withdrawnQ' = <<>>
               ELSE withdrawnQ' = withdrawnQ \o lines /\ UNCHANGED fate
     ELSE fate' = Becomes(ToSet(lines), "cleared") /\ UNCHANGED withdrawnQ
  /\ stopped' = IF pc = "idle" \/ stopped # "no" THEN stopped
                ELSE IF pc \in {"asked", "setup"} \/ (pc = "build" /\ ~rerun) THEN "entry"
                ELSE IF pc = "build" THEN "late" ELSE "yes"
  /\ escaped' = IF ~w THEN {}
                ELSE IF stopped' = "late" \/ pc = "draining" \/ cut = "prompt" THEN escaped
                ELSE escaped \cup AtStake
  /\ UNCHANGED <<pc, context, nextQ, current, drained, run, tracker, tail, tools, cuts>>

\* An extension's ctx.abort(): the flag, and a countdown woken.
CtxAbort ==
  /\ aborts < MaxAborts /\ aborts' = aborts + 1
  /\ pc # "idle"
  /\ abortReq' = TRUE
  /\ retryStop' = (retryStop \/ pc = "backoff")
  /\ UNCHANGED <<pc, cut, context, queues, fate, current, drained, run, tracker, withdrawReq, stopped,
                 escaped, tail, withdrawnQ, tools, cuts>>

\* abort_retry(withdraw_unanswered=w); the terminal's Esc in the countdown has w.
AbortRetry(w) ==
  /\ aborts < MaxAborts /\ aborts' = aborts + 1
  /\ withdrawReq' = (withdrawReq \/ w) /\ retryStop' = TRUE
  /\ stopped' = IF pc \in {"retrystart", "backoff"} /\ stopped = "no" THEN "retry" ELSE stopped
  /\ escaped' = IF w /\ pc \in {"retrystart", "backoff"} /\ cut = "none"
                THEN escaped \cup AtStake ELSE escaped
  /\ UNCHANGED <<pc, cut, context, queues, fate, current, drained, run, tracker, abortReq, tail,
                 withdrawnQ, tools, cuts>>

\* Whoever awaits prompt() is cancelled.
CancelPrompt ==
  /\ cuts < MaxCuts /\ cuts' = cuts + 1
  /\ pc # "idle"
  /\ cut' = "prompt" /\ escaped' = {}
  /\ UNCHANGED <<pc, context, queues, fate, current, drained, run, tracker, abortReq, withdrawReq,
                 retryStop, stopped, tail, withdrawnQ, tools, aborts>>

-----------------------------------------------------------------------------
Turn ==
  \/ TurnAway \/ Accept \/ SetupFails \/ FirstRun \/ BuildFails \/ StartLoop
  \/ CommitInput \/ StoreInput \/ FirstSteer \/ Request
  \/ \E k \in {"ok", "tools", "retryable", "overflow", "fatal"} : Answer(k)
  \/ StoreAnswer \/ ProviderRaises \/ ToolsEnd \/ TurnEnds \/ RunReturns
  \/ Unwind \/ Closeout \/ CloseoutCut \/ CloseoutEnds

TailStep ==
  \/ RetryStarts \/ RunsOver \/ Countdown \/ RetryRuns \/ RetryStops
  \/ NoRecovery \/ Recover \/ CompactFails \/ CompactWrites \/ RecoveryRuns \/ RecoveryStops
  \/ TailWithdraws \/ NoThreshold \/ Threshold \/ ThresholdEnds
  \/ Raise \/ Release \/ Idle \/ CutTail \/ CutWithdraw

Callers ==
  \/ \E m \in scope.sent : Steer(m) \/ FollowUp(m) \/ NextTurn(m) \/ Prompt(m)
  \/ \E w \in BOOLEAN : Abort(w) \/ AbortRetry(w)
  \/ CtxAbort \/ CancelPrompt

Next == (Turn \/ TailStep \/ Callers) /\ UNCHANGED scope

Spec == Init /\ [][Next]_vars

\* The event loop runs what is ready, and what prompt() waits for (a hook, the model, a tool, a
\* timer, a write) answers or fails.
FairSpec == Spec /\ WF_vars((Turn \/ TailStep) /\ UNCHANGED scope)

-----------------------------------------------------------------------------
\* Where an input is: "held" says only that no fate has taken it.
Times(m, s) == Cardinality({i \in DOMAIN s : s[i] = m})
InTurn(m) == \/ m \in ToSet(open)
             \/ m \in ToSet(IF storing THEN RestOf(todo) ELSE todo)
             \/ pc \in {"asked", "setup"} /\ m \in ToSet(drained) \cup {current}
Homes(m) == Times(m, nextQ \o steerQ \o followQ \o withdrawnQ \o live)
            + Cardinality({h \in {"turn"} : InTurn(m)})
            + Cardinality({h \in {"fate"} : fate[m] # "held"})
InputsOf(s) == Without(s, Answers \cup Failures \cup astray)

\* No input is lost or sent twice: whatever fails, is retried, compacted, aborted, withdrawn or
\* cancelled, an input the session did not refuse is in exactly one place - a queue, the running turn,
\* the context, an event, or a refusal its caller saw (#320, #321, #654: prompt(), `_run', abort()) -
\* and nowhere at all only a line taken off the steering or follow-up queue and not committed yet
\* (ADR-0286 limit 3), as long as nobody cancels prompt() itself.
OneHome == /\ \A m \in Inputs \ astray : Homes(m) = 1
           /\ cuts = 0 => \A m \in Texts \cup Nexts : fate[m] # "missed"

\* Once prompt() is over the model's next context, read from the session's branch, holds the same
\* inputs in the same order as the live state (emit's message_end, the withdrawal, compact()).
LiveMatchesSession == pc = "idle" => InputsOf(live) = InputsOf(path)

\* An abort() sends nothing more for its prompt, from the claim on: not the first request of a turn it
\* met in its hooks, no later request, no retry and no overflow re-run (#334, #684) - unless it came
\* while such a re-run read its context (ADR-0286 limit 2).
AbortSendsNothing == [][pc # "request" /\ pc' = "request" => stopped \notin {"entry", "yes"}]_vars

\* Taken back: on no path to the model, and not lost either.
TakenBack(m) == /\ m \notin ToSet(live) \cup ToSet(path)
                /\ fate[m] \in {"given", "refused"} \/ m \in ToSet(nextQ)

\* abort(withdraw_unanswered=True) takes what the model has not answered out of the context and the
\* session before prompt() returns: given back, or back on its queue (ADR-0286).
EscGivesBack ==
  pc = "idle" /\ stopped # "retry" => \A m \in escaped \ astray : TakenBack(m)

\* What a prompt leaves: a context that agrees with its session, and an Esc honoured in both.
PromptLeaves == LiveMatchesSession /\ EscGivesBack

\* And so does abort_retry(withdraw_unanswered=True), the terminal's Esc in the retry countdown.
CountdownEscGivesBack ==
  pc = "idle" => \A m \in escaped \ astray : TakenBack(m)

\* Every prompt ends and gives the harness back: retries and recoveries run out.
ComesIdle == pc # "idle" ~> pc = "idle"
=============================================================================
