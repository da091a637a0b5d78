---------------------------- MODULE SessionSwap ----------------------------
(***************************************************************************)
(* One AgentSessionRuntime (runtime/agent_session_runtime.py) replacing    *)
(* its harness: new_session(), switch_session(), fork(),                   *)
(* import_from_jsonl(), reload() and dispose(), with the writer locks of   *)
(* the session files (session/session_lock.py), the lines queued on the    *)
(* harness being replaced, and the turn that may run on it.                *)
(*                                                                         *)
(* A transition is a task; it stops between two steps only where the code  *)
(* awaits something that suspends (a hook, a question, the factory, a      *)
(* subscriber, the end of a turn).  The file system and the lock block,    *)
(* so this process does nothing else there: those steps are apart only     *)
(* because other terminals may act between them (Blocking).                *)
(*                                                                         *)
(* A file is the sequence of what was written to it, <<>> when there is no *)
(* file.  What a harness knows of its session is what it loaded plus what  *)
(* it wrote.                                                               *)
(***************************************************************************)
EXTENDS Naturals, Sequences, FiniteSets

CONSTANTS Tasks,   \* callers of the transitions
          Lines,   \* what the user or an extension sends
          Old,     \* session files there at the start
          Home,    \* the one this process starts on
          New,     \* names for the files a transition makes
          None,
          Scopes   \* bounds: for each history checked, what is asked, what fails, where a cancel lands

Files == Old \cup New
Swaps == {"new", "fork", "resume", "import"}
Kinds == Swaps \cup {"reload"}
Harnesses == 0..(2 * Cardinality(Tasks))   \* a transition installs at most two: its own, or a restored one

ASSUME NamesAssumption ==
  /\ Home \in Old /\ IsFiniteSet(Tasks) /\ Old \cap New = {} /\ None \notin Files \cup Lines \cup Tasks \cup {"us", "other"}
  /\ Cardinality(New) >= Cardinality(Tasks)

VARIABLES
  scope,
  owner,      \* who holds a file's sidecar: "us", "other" or None
  text,       \* what is in a file
  pc, job,    \* where a transition is, and its locals
  lifecycle,  \* the task in `_transition'
  inst, surf, \* `_harness', and the harness the surfaces hold
  built,      \* harnesses built so far
  harness,
  adopted,    \* the file of `_writer_lock'
  stopped,    \* `_stopped' is set
  unbound,    \* history: a rebind raised, and the surfaces hold what an earlier transition tore down
  quit,       \* dispose()
  accepted,   \* lines answered with success
  said, returned, cleared, \* what became of them: committed, given back, dropped by a plain abort
  named, everLive, everOther \* history: files made here; those a harness of ours ran on; those another had

files == <<owner, text, everOther>>
fates == <<accepted, said, returned, cleared>>
runtime == <<inst, surf, built, adopted, stopped, unbound, everLive>>
vars == <<scope, files, pc, job, lifecycle, runtime, harness, quit, fates, named>>

Asked == {"settle", "hook", "ask", "give1", "shut", "dispose", "give2", "build", "restore", "resettle", "after"}
Blocking == {"begin", "open", "copy", "copied", "newlock", "fail", "drop"}
Ended == {"idle", "done"}

NoJob == [kind |-> None, parent |-> None, target |-> None, lock |-> None, contended |-> FALSE,
          made |-> None, knows |-> <<>>, ro |-> FALSE, old |-> 0]
\* Mutant of Blank: a new harness comes without a phase.
BlankNoPhase == [file |-> None, knows |-> <<>>, ro |-> FALSE, disposed |-> FALSE, held |-> FALSE,
                 turn |-> None, late |-> FALSE, run |-> {}, queue |-> {}, next |-> {}]

Blank == [file |-> None, knows |-> <<>>, ro |-> FALSE, disposed |-> FALSE, held |-> FALSE,
          turn |-> "idle", late |-> FALSE, run |-> {}, queue |-> {}, next |-> {}]

TypeOK ==
  /\ scope \in Scopes
  /\ owner \in [Files -> {"us", "other", None}]
  /\ text \in [Files -> Seq(Lines \cup {"first", "level", "copied", "other"})]
  /\ pc \in [Tasks -> {"wait"} \cup Asked \cup Blocking \cup Ended]
  /\ \A t \in Tasks :
       /\ job[t].kind \in Kinds \cup {None} /\ job[t].parent \in Tasks \cup {None}
       /\ {job[t].target, job[t].lock, job[t].made} \subseteq Files \cup {None}
       /\ job[t].old \in Harnesses
  /\ lifecycle \in Tasks \cup {None}
  /\ {inst, surf, built} \subseteq Harnesses
  /\ \A h \in Harnesses :
       /\ harness[h].file \in Files \cup {None}
       /\ harness[h].turn \in {"idle", "run", "esc", "cut"}
       /\ harness[h].run \cup harness[h].queue \cup harness[h].next \subseteq Lines
  /\ adopted \in Files \cup {None}
  /\ stopped \in BOOLEAN /\ unbound \in BOOLEAN
  /\ quit \in {"no", "shut", "dispose", "gone"}
  /\ accepted \cup said \cup returned \cup cleared \subseteq Lines
  /\ named \cup everLive \cup everOther \subseteq Files

\* The CLI takes the start-up session's lock before there is a runtime.
Init ==
  /\ scope \in Scopes
  /\ owner = [f \in Files |-> IF f = Home THEN "us" ELSE None]
  /\ harness = [h \in Harnesses |-> IF h = 0 THEN [Blank EXCEPT !.file = Home, !.knows = <<"first">>] ELSE Blank]
  /\ adopted = Home /\ everLive = {Home}
  /\ text = [f \in Files |-> IF f \in Old THEN <<"first">> ELSE <<>>]
  /\ pc = [t \in Tasks |-> "idle"] /\ job = [t \in Tasks |-> NoJob]
  /\ lifecycle = None
  /\ inst = 0 /\ surf = 0 /\ built = 0
  /\ stopped = FALSE /\ unbound = FALSE /\ quit = "no"
  /\ accepted = {} /\ said = {} /\ returned = {} /\ cleared = {}
  /\ named = {} /\ everOther = {}

-----------------------------------------------------------------------------
Goes(t, where) == pc' = [pc EXCEPT ![t] = where]
May(t, where) == pc[t] \in where

\* The loop runs nothing else while a task blocks on the file system or a lock.
Suspended == \A t \in Tasks : pc[t] \notin Blocking

\* `_acquire_writer_lock': our own file is ours already; another lock object of this process on the
\* same sidecar contends like another terminal's.
Held(f) == adopted # f /\ owner[f] # None
Unusable(f) == adopted # f /\ f \in scope.unusable
Taken(f) == [owner EXCEPT ![f] = "us"]

Waiting(h) == harness[h].queue \cup harness[h].next
Emptied(h) == [harness EXCEPT ![h].queue = {}, ![h].next = {}]

\* dispose() marks the harness; a turn that runs is aborted with the default, which clears the
\* steer and follow-up queues and keeps the input.
Disposed(h) == IF harness[h].turn = "idle"
               THEN [harness EXCEPT ![h].disposed = TRUE]
               ELSE [harness EXCEPT ![h].disposed = TRUE, ![h].turn = "cut", ![h].queue = {}]
AbortClears(h) == IF harness[h].turn = "idle" THEN {} ELSE harness[h].queue

\* AgentHarness.stop on every harness a failed transition leaves behind.
Stops(S) == /\ stopped' = TRUE
            /\ harness' = [h \in Harnesses |-> IF h \in S
                             THEN [harness[h] EXCEPT !.disposed = TRUE, !.held = TRUE] ELSE harness[h]]

\* take_queued_messages() and adopt_queued_messages().
Carried(from, new) == [new EXCEPT !.queue = harness[from].queue, !.next = harness[from].next]

\* Mutant of Nested: one asked for from inside waits like any other.
NestedWaits(parent) == FALSE

\* A marker of the transition the caller runs inside, if it is the running one.
Nested(parent) == parent # None /\ lifecycle = parent

-----------------------------------------------------------------------------
\* A caller asks for a transition, perhaps a handler of the hook of a running one, which waits for it.
Request(t, k, parent) ==
  /\ pc[t] = "idle" /\ quit = "no" /\ k \in scope.kinds
  /\ parent # None => pc[parent] = "hook"
  /\ Goes(t, IF Nested(parent) THEN "done" ELSE "wait")
  /\ job' = [job EXCEPT ![t].kind = k, ![t].parent = parent]
  /\ UNCHANGED <<scope, files, lifecycle, runtime, harness, quit, fates, named>>

Start(t) ==
  /\ pc[t] = "wait" /\ lifecycle = None
  /\ lifecycle' = t /\ Goes(t, "settle")
  /\ UNCHANGED <<scope, files, job, runtime, harness, quit, fates, named>>

\* Mutant of Settled: a swap does not wait for the turn an Esc is ending.
SettledAtOnce(t) == job[t].kind = "reload" => harness[inst].turn = "idle"

\* `_settle_withdraw' before a swap, wait_for_idle() before a reload.
Settled(t) == harness[inst].turn \in IF job[t].kind = "reload" THEN {"idle"} ELSE {"idle", "run", "cut"}

Settle(t) ==
  /\ pc[t] = "settle" /\ Settled(t) /\ job[t].kind \in {"new", "fork", "import"}
  /\ Goes(t, "hook")
  /\ UNCHANGED <<scope, files, job, lifecycle, runtime, harness, quit, fates, named>>

SettleReload(t) ==
  /\ pc[t] = "settle" /\ Settled(t) /\ job[t].kind = "reload"
  /\ Goes(t, "shut") /\ job' = [job EXCEPT ![t].old = inst]
  /\ UNCHANGED <<scope, files, lifecycle, runtime, harness, quit, fates, named>>

\* Mutant of TakeTarget: the target is read first, and its lock taken then.
ReadTarget(t, f) ==
  /\ pc[t] = "settle" /\ Settled(t) /\ job[t].kind = "resume"
  /\ text[f] # <<>> /\ f # harness[inst].file
  /\ job' = [job EXCEPT ![t].target = f, ![t].knows = text[f]] /\ Goes(t, "newlock")
  /\ UNCHANGED <<scope, files, lifecycle, runtime, harness, quit, fates, named>>

\* switch_session() takes the target's lock before it reads the target.
TakeTarget(t, f) ==
  /\ pc[t] = "settle" /\ Settled(t) /\ job[t].kind = "resume"
  /\ text[f] # <<>> /\ (scope.own \/ f # harness[inst].file)
  /\ \/ /\ Unusable(f) /\ Goes(t, "fail") /\ UNCHANGED <<owner, job>>
     \/ /\ ~Unusable(f) /\ Held(f) /\ Goes(t, "open")
        /\ job' = [job EXCEPT ![t].target = f, ![t].contended = TRUE] /\ UNCHANGED owner
     \/ /\ ~Unusable(f) /\ ~Held(f) /\ Goes(t, "open")
        /\ job' = [job EXCEPT ![t].target = f, ![t].lock = f] /\ owner' = Taken(f)
  /\ UNCHANGED <<scope, text, everOther, lifecycle, runtime, harness, quit, fates, named>>

\* repo.open and the check of its working directory, before the hook may cancel the switch.
OpenTarget(t) ==
  /\ pc[t] = "open" /\ job[t].kind = "resume"
  /\ Goes(t, "hook") /\ job' = [job EXCEPT ![t].knows = text[job[t].target]]
  /\ UNCHANGED <<scope, files, lifecycle, runtime, harness, quit, fates, named>>

-----------------------------------------------------------------------------
HookReturns(t) == pc[t] = "hook" /\ \A u \in Tasks : job[u].parent = t => pc[u] \in Ended

HookCancels(t) ==
  /\ HookReturns(t) /\ Goes(t, "drop")
  /\ UNCHANGED <<scope, files, job, lifecycle, runtime, harness, quit, fates, named>>

FreshName == CHOOSE n \in New : n \notin named

\* repo.create and repo.fork publish the new file before its lock can be taken.
Publish(t, content) ==
  LET f == FreshName IN
    /\ text' = [text EXCEPT ![f] = content] /\ named' = named \cup {f}
    /\ job' = [job EXCEPT ![t].target = f, ![t].contended = FALSE, ![t].knows = content]
    /\ Goes(t, "newlock")

Create(t) ==
  /\ HookReturns(t) /\ job[t].kind \in {"new", "fork"}
  /\ Publish(t, IF job[t].kind = "new" THEN <<"first">> ELSE text[harness[inst].file])
  /\ UNCHANGED <<scope, owner, everOther, lifecycle, runtime, harness, quit, fates>>

\* Mutant of LockNew: a new file another terminal has is taken for one there is nothing to lock for.
LockNewFailsOpen(t) ==
  LET f == job[t].target IN
    /\ pc[t] = "newlock"
    /\ job' = [job EXCEPT ![t].made = f, ![t].lock = IF Held(f) THEN None ELSE f]
    /\ owner' = IF Unusable(f) \/ Held(f) THEN owner ELSE Taken(f)
    /\ Goes(t, IF Unusable(f) THEN "fail" ELSE "begin")
    /\ UNCHANGED <<scope, text, everOther, lifecycle, runtime, harness, quit, fates, named>>

\* `_writer_lock_for_new_file'
LockNew(t) ==
  LET f == job[t].target IN
    /\ pc[t] = "newlock"
    /\ \/ /\ Unusable(f) /\ Goes(t, "fail") /\ job' = [job EXCEPT ![t].made = f] /\ UNCHANGED owner
       \/ /\ ~Unusable(f) /\ Held(f) /\ Goes(t, "fail") /\ UNCHANGED <<owner, job>>
       \/ /\ ~Unusable(f) /\ ~Held(f) /\ Goes(t, "begin")
          /\ job' = [job EXCEPT ![t].made = f, ![t].lock = f] /\ owner' = Taken(f)
    /\ UNCHANGED <<scope, text, everOther, lifecycle, runtime, harness, quit, fates, named>>

SwitchUncontended(t) ==
  /\ HookReturns(t) /\ job[t].kind = "resume"
  /\ Goes(t, IF job[t].contended THEN "ask" ELSE "begin")
  /\ UNCHANGED <<scope, files, job, lifecycle, runtime, harness, quit, fates, named>>

\* The answers to "open in another terminal": read only, without a lock; a fork; or leave it.
AnswerReadOnly(t) ==
  /\ pc[t] = "ask" /\ Goes(t, "begin") /\ job' = [job EXCEPT ![t].ro = TRUE]
  /\ UNCHANGED <<scope, files, lifecycle, runtime, harness, quit, fates, named>>

AnswerFork(t) ==
  /\ pc[t] = "ask" /\ Publish(t, text[job[t].target])
  /\ UNCHANGED <<scope, owner, everOther, lifecycle, runtime, harness, quit, fates>>

AnswerCancel(t) ==
  /\ pc[t] = "ask" /\ Goes(t, "drop")
  /\ UNCHANGED <<scope, files, job, lifecycle, runtime, harness, quit, fates, named>>

\* import_from_jsonl() owns the destination before it copies over it; an owned one is left alone.
TakeDestination(t, f) ==
  /\ HookReturns(t) /\ job[t].kind = "import" /\ f \in Old \cup {FreshName} /\ (scope.own \/ f # harness[inst].file)
  /\ IF Unusable(f) \/ Held(f)
     THEN Goes(t, "fail") /\ UNCHANGED <<owner, job>>
     ELSE Goes(t, "copy") /\ owner' = Taken(f) /\ job' = [job EXCEPT ![t].target = f, ![t].lock = f]
  /\ UNCHANGED <<scope, text, everOther, lifecycle, runtime, harness, quit, fates, named>>

Copy(t) ==
  LET f == job[t].target IN
    /\ pc[t] = "copy" /\ Goes(t, "copied")
    /\ text' = [text EXCEPT ![f] = <<"copied">>] /\ named' = IF text[f] = <<>> THEN named \cup {f} ELSE named
    /\ job' = [job EXCEPT ![t].made = IF text[f] = <<>> THEN f ELSE None]
    /\ UNCHANGED <<scope, owner, everOther, lifecycle, runtime, harness, quit, fates>>

OpenCopy(t) ==
  /\ pc[t] = "copied" /\ Goes(t, "begin")
  /\ job' = [job EXCEPT ![t].knows = text[job[t].target]]
  /\ UNCHANGED <<scope, files, lifecycle, runtime, harness, quit, fates, named>>

-----------------------------------------------------------------------------
\* `_finish_session_replacement': what is queued goes back first, while the surfaces still listen.
GiveBackFirst(t) ==
  /\ pc[t] = "begin"
  /\ returned' = returned \cup Waiting(inst) /\ harness' = Emptied(inst)
  /\ Goes(t, IF Waiting(inst) = {} THEN "shut" ELSE "give1")
  /\ job' = [job EXCEPT ![t].old = inst]
  /\ UNCHANGED <<scope, files, lifecycle, runtime, quit, accepted, said, cleared, named>>

FirstGiven(t) ==
  /\ pc[t] = "give1" /\ Goes(t, "shut")
  /\ UNCHANGED <<scope, files, job, lifecycle, runtime, harness, quit, fates, named>>

\* `_teardown_current': the session_shutdown handlers have run; dispose() begins.
Teardown(t) ==
  /\ pc[t] = "shut" /\ Goes(t, "dispose")
  /\ harness' = Disposed(inst) /\ cleared' = cleared \cup AbortClears(inst)
  /\ UNCHANGED <<scope, files, job, lifecycle, runtime, quit, accepted, said, returned, named>>

\* Mutant of TornDown: what the teardown queued is not given back.
TornDownForgets(t) ==
  /\ pc[t] = "dispose" /\ harness[inst].turn = "idle" /\ Goes(t, "build")
  /\ UNCHANGED <<scope, files, job, lifecycle, runtime, harness, quit, fates, named>>

\* It has waited for the turn; a swap gives back what the teardown queued, a reload keeps it.
TornDown(t) ==
  /\ pc[t] = "dispose" /\ harness[inst].turn = "idle"
  /\ IF job[t].kind = "reload"
     THEN Goes(t, "build") /\ UNCHANGED <<returned, harness>>
     ELSE /\ Goes(t, IF Waiting(inst) = {} THEN "build" ELSE "give2")
          /\ returned' = returned \cup Waiting(inst) /\ harness' = Emptied(inst)
  /\ UNCHANGED <<scope, files, job, lifecycle, runtime, quit, accepted, said, cleared, named>>

SecondGiven(t) ==
  /\ pc[t] = "give2" /\ Goes(t, "build")
  /\ UNCHANGED <<scope, files, job, lifecycle, runtime, harness, quit, fates, named>>

\* `_apply' and `_install_writer_lock': the new harness goes live and the previous lock is let go.
Install(t) ==
  LET new == [Blank EXCEPT !.file = job[t].target, !.knows = job[t].knows, !.ro = job[t].ro]
      gone == IF adopted # job[t].lock THEN {adopted} ELSE {}
  IN /\ pc[t] = "build" /\ job[t].kind \in Swaps /\ Goes(t, "after")
     /\ built' = built + 1 /\ inst' = built + 1 /\ stopped' = FALSE
     /\ harness' = [harness EXCEPT ![built + 1] = new]
     /\ adopted' = job[t].lock /\ owner' = [f \in Files |-> IF f \in gone THEN None ELSE owner[f]]
     /\ everLive' = everLive \cup {job[t].target}
     /\ UNCHANGED <<scope, text, everOther, job, lifecycle, surf, unbound, quit, fates, named>>

\* A harness on the session there was, which takes over the lines: a reload's, or a restored one.
Rebuild(t, next) ==
  LET old == job[t].old
      new == [Blank EXCEPT !.file = harness[old].file, !.knows = harness[old].knows, !.ro = harness[old].ro]
  IN /\ Goes(t, next)
     /\ built' = built + 1 /\ inst' = built + 1 /\ stopped' = FALSE
     /\ harness' = [harness EXCEPT ![built + 1] = Carried(old, new), ![old].queue = {}, ![old].next = {}]
     /\ UNCHANGED <<scope, files, job, lifecycle, surf, unbound, adopted, everLive, quit, fates, named>>

Reload(t) == pc[t] = "build" /\ job[t].kind = "reload" /\ Rebuild(t, "after")

\* The settings or the factory raise: `_restore_after'.
BuildFails(t) ==
  /\ pc[t] = "build" /\ "build" \in scope.fails /\ Goes(t, "restore")
  /\ UNCHANGED <<scope, files, job, lifecycle, runtime, harness, quit, fates, named>>

Restore(t) == pc[t] = "restore" /\ Rebuild(t, "resettle")

\* The restored harness is settled and bound; the transition still raises, "kept".
Kept(t) ==
  /\ pc[t] = "resettle" /\ surf' = inst /\ unbound' = FALSE /\ Goes(t, "fail")
  /\ UNCHANGED <<scope, files, job, lifecycle, inst, built, adopted, stopped, everLive, harness, quit, fates, named>>

\* setup, the record of the thinking level in a session that may be written to, the rebind.
Rebind(t) ==
  /\ pc[t] = "after" /\ surf' = inst /\ unbound' = FALSE /\ Goes(t, "done")
  /\ lifecycle' = None /\ job' = [job EXCEPT ![t] = [NoJob EXCEPT !.kind = job[t].kind]]
  /\ \E level \in IF job[t].kind = "reload" \/ harness[inst].ro THEN {<<>>} ELSE {<<>>, <<"level">>} :
       LET f == harness[inst].file IN
         /\ text' = [text EXCEPT ![f] = @ \o level]
         /\ harness' = [harness EXCEPT ![inst].knows = @ \o level]
  /\ UNCHANGED <<scope, owner, everOther, inst, built, adopted, stopped, everLive, quit, fates, named>>

-----------------------------------------------------------------------------
\* Where an Exception may come from; the teardown logs its own, and a failed build is put back.
Raises(t) ==
  /\ pc[t] \in scope.fails \cap {"open", "hook", "ask", "copy", "copied", "after"}
  /\ Goes(t, "fail") /\ unbound' = (unbound \/ pc[t] = "after")
  /\ UNCHANGED <<scope, files, job, lifecycle, inst, surf, built, adopted, stopped, everLive, harness, quit,
                 fates, named>>

RestoreFails(t) ==
  /\ pc[t] \in scope.fails \cap {"restore", "resettle"} /\ Goes(t, "fail")
  /\ Stops({inst, job[t].old})
  /\ UNCHANGED <<scope, files, job, lifecycle, inst, surf, unbound, built, adopted, everLive, quit, fates, named>>

\* A cancel of the caller.  Once the teardown takes the harness apart, it stops the runtime.
CancelWaiting(t) ==
  /\ pc[t] = "wait" /\ "wait" \in scope.cancels /\ Goes(t, "done")
  /\ UNCHANGED <<scope, files, job, lifecycle, runtime, harness, quit, fates, named>>

Cancel(t) ==
  /\ pc[t] \in scope.cancels \cap {"settle", "hook", "ask", "give1", "shut", "give2", "after"}
  /\ Goes(t, "fail") /\ unbound' = (unbound \/ pc[t] = "after")
  /\ UNCHANGED <<scope, files, job, lifecycle, inst, surf, built, adopted, stopped, everLive, harness, quit,
                 fates, named>>

CancelStops(t) ==
  /\ pc[t] \in scope.cancels \cap {"dispose", "build", "restore", "resettle"} /\ Goes(t, "fail")
  /\ Stops({inst} \cup IF pc[t] \in {"restore", "resettle"} THEN {job[t].old} ELSE {})
  /\ UNCHANGED <<scope, files, job, lifecycle, inst, surf, unbound, built, adopted, everLive, quit, fates, named>>

\* `_discard_unadopted_file': the file a failed swap made goes, unless this process runs on it.
Discard(t) ==
  /\ pc[t] = "fail" /\ Goes(t, "drop")
  /\ text' = [f \in Files |-> IF f = job[t].made /\ harness[inst].file # f THEN <<>> ELSE text[f]]
  /\ UNCHANGED <<scope, owner, everOther, job, lifecycle, runtime, harness, quit, fates, named>>

\* `_release_unadopted', and the end of the transition.
Drop(t) ==
  /\ pc[t] = "drop" /\ Goes(t, "done") /\ lifecycle' = None
  /\ owner' = [f \in Files |-> IF f = job[t].lock /\ f # adopted THEN None ELSE owner[f]]
  /\ job' = [job EXCEPT ![t] = [NoJob EXCEPT !.kind = job[t].kind]]
  /\ UNCHANGED <<scope, text, everOther, runtime, harness, quit, fates, named>>

-----------------------------------------------------------------------------
\* runtime.dispose(): the surfaces end or drain the transitions first.
Quit ==
  /\ quit = "no" /\ scope.quits /\ \A t \in Tasks : pc[t] \in Ended
  /\ quit' = "shut"
  /\ UNCHANGED <<scope, files, pc, job, lifecycle, runtime, harness, fates, named>>

QuitDispose ==
  /\ quit = "shut" /\ quit' = "dispose"
  /\ harness' = Disposed(inst) /\ cleared' = cleared \cup AbortClears(inst)
  /\ UNCHANGED <<scope, files, pc, job, lifecycle, runtime, accepted, said, returned, named>>

\* The lock goes last: a shutdown handler may still write.
QuitReleases ==
  /\ quit = "dispose" /\ harness[inst].turn = "idle" /\ quit' = "gone"
  /\ adopted' = None /\ owner' = [f \in Files |-> IF f = adopted THEN None ELSE owner[f]]
  /\ UNCHANGED <<scope, text, everOther, pc, job, lifecycle, inst, surf, unbound, built, stopped, everLive, harness,
                 fates, named>>

-----------------------------------------------------------------------------
\* A surface or an extension of the installed harness sends a line: prompt(), or steer() and follow_up().
Prompt(h, l) ==
  /\ Suspended /\ l \in scope.lines \ accepted
  /\ ~harness[h].held /\ ~harness[h].disposed /\ harness[h].turn = "idle"
  /\ harness' = [harness EXCEPT ![h].turn = "run", ![h].late = FALSE,
                                ![h].run = {l} \cup harness[h].next, ![h].next = {}]
  /\ accepted' = accepted \cup {l}
  /\ UNCHANGED <<scope, files, pc, job, lifecycle, runtime, quit, said, returned, cleared, named>>

Steer(h, l) ==
  /\ Suspended /\ l \in scope.lines \ accepted /\ ~harness[h].disposed
  /\ harness' = [harness EXCEPT ![h].queue = @ \cup {l}]
  /\ accepted' = accepted \cup {l}
  /\ UNCHANGED <<scope, files, pc, job, lifecycle, runtime, quit, said, returned, cleared, named>>

\* The turn commits an input, which a session that may be written to records.
Commit(h, l) ==
  LET f == harness[h].file
      line == IF harness[h].ro THEN <<>> ELSE <<l>>
  IN /\ Suspended /\ harness[h].turn = "run" /\ l \in harness[h].run \cup harness[h].queue
     /\ harness' = [harness EXCEPT ![h].run = @ \ {l}, ![h].queue = @ \ {l}, ![h].knows = @ \o line]
     /\ text' = [text EXCEPT ![f] = @ \o line]
     /\ said' = said \cup {l}
     /\ UNCHANGED <<scope, owner, everOther, pc, job, lifecycle, runtime, quit, accepted, returned, cleared,
                    named>>

\* A turn that ended well, or in an error, which leaves what is queued for the next one; one an Esc
\* ended gives its input back; one a plain abort ended puts back what it had not committed.
TurnEnds(h) ==
  /\ Suspended /\ harness[h].turn # "idle" /\ (harness[h].turn = "run" => harness[h].run = {})
  /\ harness' = [harness EXCEPT ![h].turn = "idle", ![h].late = FALSE, ![h].run = {},
                                ![h].next = IF harness[h].turn = "cut" THEN @ \cup harness[h].run ELSE @]
  /\ returned' = IF harness[h].turn = "esc" THEN returned \cup harness[h].run ELSE returned
  /\ UNCHANGED <<scope, files, pc, job, lifecycle, runtime, quit, accepted, said, cleared, named>>

\* abort(withdraw_unanswered=True): the queue comes back, the input when the turn ends.
Esc ==
  /\ Suspended /\ scope.escapes /\ harness[surf].turn = "run"
  /\ harness' = [harness EXCEPT ![surf].turn = "esc", ![surf].queue = {},
                                ![surf].late = lifecycle # None /\ pc[lifecycle] # "settle"]
  /\ returned' = returned \cup harness[surf].queue
  /\ UNCHANGED <<scope, files, pc, job, lifecycle, runtime, quit, accepted, said, cleared, named>>

\* Another terminal; it does not come to a new file and leave it within the wait of one acquire().
OtherTakes(f) ==
  /\ owner[f] = None /\ text[f] # <<>> /\ f \in scope.others
  /\ owner' = [owner EXCEPT ![f] = "other"] /\ everOther' = everOther \cup {f}
  /\ UNCHANGED <<scope, text, pc, job, lifecycle, runtime, harness, quit, fates, named>>

OtherWrites(f) ==
  /\ owner[f] = "other" /\ \A i \in DOMAIN text[f] : text[f][i] # "other"
  /\ text' = [text EXCEPT ![f] = Append(@, "other")]
  /\ UNCHANGED <<scope, owner, everOther, pc, job, lifecycle, runtime, harness, quit, fates, named>>

OtherLeaves(f) ==
  /\ owner[f] = "other" /\ \A t \in Tasks : ~(pc[t] = "newlock" /\ job[t].target = f /\ f \in New)
  /\ owner' = [owner EXCEPT ![f] = None]
  /\ UNCHANGED <<scope, text, everOther, pc, job, lifecycle, runtime, harness, quit, fates, named>>

-----------------------------------------------------------------------------
Swap(t) ==
  \/ Start(t) \/ Settle(t) \/ SettleReload(t) \/ \E f \in Files : TakeTarget(t, f) \/ TakeDestination(t, f)
  \/ OpenTarget(t) \/ HookCancels(t) \/ Create(t) \/ LockNew(t) \/ SwitchUncontended(t)
  \/ AnswerReadOnly(t) \/ AnswerFork(t) \/ AnswerCancel(t) \/ Copy(t) \/ OpenCopy(t)
  \/ GiveBackFirst(t) \/ FirstGiven(t) \/ Teardown(t) \/ TornDown(t) \/ SecondGiven(t)
  \/ Install(t) \/ Reload(t) \/ BuildFails(t) \/ Restore(t) \/ Kept(t) \/ Rebind(t)
  \/ Raises(t) \/ RestoreFails(t) \/ Discard(t) \/ Drop(t)

Interrupt(t) == CancelWaiting(t) \/ Cancel(t) \/ CancelStops(t)
Send == \E h \in {inst, surf}, l \in Lines : Prompt(h, l) \/ Steer(h, l)
Turn(h) == TurnEnds(h) \/ \E l \in Lines : Commit(h, l)
Other == \E f \in Files : OtherTakes(f) \/ OtherWrites(f) \/ OtherLeaves(f)
Next ==
  \/ \E t \in Tasks, k \in Kinds, p \in Tasks \cup {None} : Request(t, k, p)
  \/ \E t \in Tasks : Swap(t) \/ Interrupt(t)
  \/ Quit \/ QuitDispose \/ QuitReleases
  \/ Send \/ Esc \/ \E h \in Harnesses : Turn(h)
  \/ Other

Spec == Init /\ [][Next]_vars

\* The loop runs every task it can, a turn comes to its end and a question is answered.
Fairness == /\ \A t \in Tasks : WF_vars(Swap(t))
            /\ \A h \in Harnesses : WF_vars(Turn(h))
FairSpec == Spec /\ Fairness

-----------------------------------------------------------------------------
AtRest == lifecycle = None /\ quit \in {"no", "gone"}
Mine == {f \in Files : owner[f] = "us"}

\* This process appends to, replaces and removes only a session file whose lock it holds, whatever
\* stage a transition is at; a file it has just published, and one whose sidecar nobody can use, aside.
OnlyOwnerWrites ==
  [][\A f \in Files :
       /\ text'[f] # text[f] /\ f \notin named' \ named
       /\ text'[f] # <<>> => text'[f][Len(text'[f])] # "other"
       => owner[f] = "us" \/ f \in scope.unusable]_vars

\* Between transitions this process holds the lock of the session it runs on and no other: none is
\* lost by a swap that failed, was cancelled or found the file owned, and none is kept by one that
\* went through; a session it may only read, and one it quit, it does not hold.  A running harness
\* that may write knows all of its file, so nothing another terminal wrote before the lock was taken
\* is left off the branch by the next append.
LockFollowsSession ==
  /\ AtRest => Mine = IF quit = "gone" \/ harness[inst].ro THEN {} ELSE {harness[inst].file}
  /\ \A h \in 0..built : ~harness[h].disposed /\ ~harness[h].ro => harness[h].knows = text[harness[h].file]

\* A swap that does not go through leaves no session file of its own behind, unless another terminal
\* had it first.
FailedLeavesNoFile ==
  lifecycle = None => \A f \in named : text[f] # <<>> => f \in everLive \cup everOther

\* A line answered with success has exactly one fate, and between transitions it is never left on a
\* harness that was replaced.
LinesHome ==
  LET held == [h \in Harnesses |-> harness[h].run \cup Waiting(h)]
      ended == <<said, returned, cleared>>
  IN /\ \A i, j \in 1..3 : i # j => ended[i] \cap ended[j] = {}
     /\ \A h \in Harnesses : held[h] \cap (said \cup returned \cup cleared) = {}
     /\ lifecycle = None => accepted = said \cup returned \cup cleared \cup held[inst]

\* No harness is left running beside the installed one; between transitions a torn-down one that is
\* still installed is one that was stopped, and a stopped runtime holds every harness it left.
StoppedHolds ==
  /\ \A g, h \in 0..built : ~harness[g].disposed /\ ~harness[h].disposed => g = h
  /\ AtRest /\ quit = "no" =>
       /\ harness[inst].disposed => stopped
       /\ stopped => \A h \in {inst, surf} : harness[h].disposed /\ (harness[h].held \/ (h # inst /\ unbound))

\* What a transition leaves, however it ends: its lock, its files and one harness or a stopped runtime.
LeavesClean == LockFollowsSession /\ FailedLeavesNoFile /\ StoppedHolds

\* The teardown never overrules an Esc made before its transition had waited for it.
EscHonoured ==
  [][\A h \in Harnesses :
       harness[h].turn = "esc" /\ harness'[h].turn = "cut" /\ quit' = quit => harness[h].late]_vars

\* Every transition asked for ends, whatever the hooks ask for and the steps raise.
TransitionsEnd == \A t \in Tasks : (pc[t] = "wait") ~> (pc[t] = "done")

\* A cancel between the teardown and the install stops the runtime (docs/decisions/0289, D4).
InterruptStops == AtRest /\ quit = "no" /\ harness[inst].disposed => stopped /\ harness[inst].held
=============================================================================
