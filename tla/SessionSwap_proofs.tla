------------------------- MODULE SessionSwap_proofs -------------------------
(***************************************************************************)
(* For every set of transitions, files and lines, and every history of     *)
(* hooks, failures, cancels and other terminals: types, one home for every *)
(* accepted line, what a transition leaves, who writes a session file, and *)
(* an Esc the teardown does not overrule.                                  *)
(*                                                                         *)
(* First the parts of the invariant.  Then, for each, the lemma that a     *)
(* step keeps it, with one step of its proof per action of Next: Typed and *)
(* Counts (enough harnesses and file names), Alone and Locals (the one     *)
(* running transition), Left, Torn, Halted, Lined and Warned (harnesses    *)
(* and lines), Locked, Filed and Known (locks and files).  IInv is their   *)
(* conjunction.  The lemmas XDoes say what the action X does to the locals *)
(* of the running transition, the lemmas XMoves what it does to harnesses. *)
(***************************************************************************)
EXTENDS SessionSwap, FiniteSetTheorems, SequenceTheorems, TLAPS

Texts == Seq(Lines \cup {"first", "level", "copied", "other"})
Jobs == [kind : Kinds \cup {None}, parent : Tasks \cup {None}, target : Files \cup {None},
         lock : Files \cup {None}, contended : BOOLEAN, made : Files \cup {None}, knows : Texts,
         ro : BOOLEAN, old : Harnesses]
Sessions == [file : Files \cup {None}, knows : Texts, ro : BOOLEAN, disposed : BOOLEAN, held : BOOLEAN,
             turn : {"idle", "run", "esc", "cut"}, late : BOOLEAN, run : SUBSET Lines,
             queue : SUBSET Lines, next : SUBSET Lines]

Typed ==
  /\ TypeOK
  /\ job \in [Tasks -> Jobs] /\ harness \in [Harnesses -> Sessions]
  /\ surf <= inst /\ inst = built

\* A transition that has made its file, and one that may have built its harness.
Making == {"newlock", "copied", "begin", "give1", "shut", "dispose", "give2", "build", "restore",
           "resettle", "after", "fail", "drop", "done"}
Spent == {"resettle", "after", "fail", "drop", "done"}
Makers == {t \in Tasks : pc[t] \in Making}
Spenders == {t \in Tasks : pc[t] \in Spent}
Counts ==
  /\ named \subseteq New /\ IsFiniteSet(named)
  /\ Cardinality(named) <= Cardinality(Makers) /\ built <= Cardinality(Spenders)

\* One transition at a time, and none once the runtime quits.
Alone ==
  /\ \A t \in Tasks : pc[t] \in {"idle", "wait", "done"} <=> t # lifecycle
  /\ \A t \in Tasks : t # lifecycle => job[t] = [NoJob EXCEPT !.kind = job[t].kind, !.parent = job[t].parent]
  /\ \A t \in Tasks : pc[t] = "wait" => job[t].kind \in Kinds
  /\ quit # "no" => \A t \in Tasks : pc[t] \in Ended

Running(S) == lifecycle # None /\ pc[lifecycle] \in S
Mid == job[lifecycle]

\* The locals of the running transition.
Choosing == {"settle", "open", "hook", "ask", "newlock", "copy"}
Closing == {"give1", "shut", "dispose", "give2", "build", "restore"}
Placed == {"begin", "resettle", "after"} \cup Closing
Locals ==
  /\ Running({"settle"}) => Mid.kind \in Kinds /\ Mid.lock = None /\ ~Mid.contended
  /\ Running({"open", "ask"}) => Mid.kind = "resume"
  /\ Running({"hook"}) => Mid.kind \in Swaps /\ (Mid.kind # "resume" => Mid.lock = None)
  /\ Running({"open", "hook"}) /\ Mid.kind = "resume" => Mid.lock = IF Mid.contended THEN None ELSE Mid.target
  /\ Running({"ask", "newlock"}) => Mid.lock = None
  /\ Running({"newlock"}) => Mid.kind \in Swaps /\ Mid.target \in named /\ Mid.target # harness[inst].file
  /\ Running({"copy", "copied"}) => Mid.kind = "import" /\ Mid.lock = Mid.target
  /\ Running(Choosing \cup {"copied"}) => ~Mid.ro
  /\ Running(Choosing) => Mid.made = None
  /\ Running({"begin"}) => Mid.kind \in Swaps
  /\ Running(Placed) => IF Mid.kind \in Swaps THEN Mid.lock = IF Mid.ro THEN None ELSE Mid.target
                        ELSE Mid.kind = "reload" /\ Mid.lock = None /\ Mid.made = None
  /\ Running(Closing) => Mid.old = inst
  /\ Running({"resettle"}) => Mid.old < inst
  /\ Running({"after"}) /\ Mid.kind \in Swaps => harness[inst].file = Mid.target /\ harness[inst].ro = Mid.ro
  /\ Running({"copy"}) => Mid.target \in Files
  /\ Running({"open", "hook", "ask"}) /\ Mid.kind = "resume" => Mid.target \in Old \cup named
  /\ Running({"copied"} \cup Placed) /\ Mid.kind \in Swaps => Mid.target \in Old \cup named
  /\ lifecycle # None /\ Mid.made # None =>
       Mid.made \in New /\ Mid.made = Mid.target /\ (Mid.lock = Mid.made \/ Mid.made \in scope.unusable)

\* What the running transition has: the lock it took, the file it is to lock, the one that is to be removed if it fails.
MidLock == IF lifecycle = None THEN None ELSE Mid.lock
MidNew == IF Running({"newlock"}) THEN Mid.target ELSE None
MidMade == IF lifecycle = None \/ Running({"drop"}) THEN None ELSE Mid.made

\* Whose lock is held: the session's, and what the running transition has taken.
Locked ==
  /\ \A f \in Files : owner[f] = "us" <=> f \in {adopted, MidLock}
  /\ adopted = IF quit = "gone" \/ harness[inst].ro THEN None ELSE harness[inst].file
  /\ harness[inst].file \in Files

\* What a harness and the running transition know of a file that is held.
Owning == {"open", "hook", "copy", "copied", "begin", "give1", "shut", "dispose", "give2", "build"}
Read == {"hook", "begin", "give1", "shut", "dispose", "give2", "build"}
Known == ~scope.own =>
  /\ quit # "gone" /\ ~harness[inst].ro => harness[inst].knows = text[harness[inst].file]
  /\ Running(Owning) => Mid.lock # harness[inst].file
  /\ Running(Read) /\ Mid.lock # None => Mid.knows = text[Mid.lock]
  /\ Running({"newlock"}) /\ owner[Mid.target] = None => Mid.knows = text[Mid.target]

\* Which files there are, and why.
Filed ==
  /\ \A f \in Old : text[f] # <<>>
  /\ \A f \in New \ named : text[f] = <<>>
  /\ harness[inst].file \in everLive /\ everLive \cup everOther \subseteq Old \cup named
  /\ \A f \in Files : owner[f] = "other" => f \in everOther
  /\ \A f \in named : text[f] # <<>> => f \in everLive \cup everOther \cup {MidNew, MidMade}

\* The harnesses before the installed one are done with; those after it are not built.
Left ==
  /\ \A h \in Harnesses : h < inst => /\ harness[h].disposed /\ harness[h].turn = "idle"
                                      /\ harness[h].run = {} /\ Waiting(h) = {}
  /\ \A h \in Harnesses : h > inst => harness[h] = Blank
  /\ harness[inst].turn = "idle" => harness[inst].run = {}

\* The installed one, once the running transition or the quit has torn it down.
Torn ==
  /\ Running({"dispose", "give2", "build", "restore"}) \/ quit \in {"dispose", "gone"} => harness[inst].disposed
  /\ Running({"give2", "build", "restore"}) \/ quit = "gone" => harness[inst].turn = "idle"
  /\ Running({"give2", "build"}) /\ Mid.kind \in Swaps => Waiting(inst) = {}

\* What a stopped runtime holds, and the harness its surfaces still have.
Halted ==
  /\ stopped => harness[inst].disposed /\ harness[inst].held
  /\ surf # inst => \/ unbound \/ harness[surf].held \/ Running({"after"})
                    \/ Running({"resettle"}) /\ surf = Mid.old
  /\ "give2" \notin scope.cancels /\ quit = "no" /\ harness[inst].disposed =>
       stopped \/ Running({"dispose", "give2", "build", "restore"})

\* Where the lines are that were answered with success.
Fates == said \cup returned \cup cleared
Lined ==
  /\ harness[inst].run \cap Waiting(inst) = {} /\ harness[inst].queue \cap harness[inst].next = {}
  /\ said \cap returned = {} /\ said \cap cleared = {} /\ returned \cap cleared = {}
  /\ (harness[inst].run \cup Waiting(inst)) \cap Fates = {}
  /\ accepted = Fates \cup harness[inst].run \cup Waiting(inst)

\* An Esc the running transition has not waited for came after it had.
Warned == lifecycle # None /\ pc[lifecycle] \notin {"settle", "fail", "drop"} /\ harness[inst].turn = "esc" =>
            harness[inst].late

-----------------------------------------------------------------------------

\* A step leaves every transition at a known place, and the lifecycle lock with one of them or nobody.
LEMMA PlacesKept ==
  ASSUME Typed, Next
  PROVE  pc' \in [Tasks -> {"wait"} \cup Asked \cup Blocking \cup Ended] /\ lifecycle' \in Tasks \cup {None}
<1> DEFINE Goal == pc' \in [Tasks -> {"wait"} \cup Asked \cup Blocking \cup Ended] /\ lifecycle' \in Tasks \cup {None}
<1>a. /\ pc \in [Tasks -> {"wait"} \cup Asked \cup Blocking \cup Ended] /\ lifecycle \in Tasks \cup {None}
      /\ job \in [Tasks -> Jobs]
  BY DEF Typed, TypeOK
<1>1. ASSUME NEW t \in Tasks, NEW k \in Kinds, NEW p \in Tasks \cup {None}, Request(t, k, p) PROVE Goal
  BY <1>a, <1>1 DEF Request, Goes, Nested, files, fates, runtime, Asked, Blocking, Ended
<1>2. ASSUME NEW t \in Tasks, Start(t) PROVE Goal
  BY <1>a, <1>2 DEF Start, Goes, files, fates, runtime, Asked, Blocking, Ended
<1>3. ASSUME NEW t \in Tasks, Settle(t) PROVE Goal
  BY <1>a, <1>3 DEF Settle, Goes, Settled, files, fates, runtime, Asked, Blocking, Ended
<1>4. ASSUME NEW t \in Tasks, SettleReload(t) PROVE Goal
  BY <1>a, <1>4 DEF SettleReload, Goes, Settled, files, fates, runtime, Asked, Blocking, Ended
<1>5. ASSUME NEW t \in Tasks, NEW f \in Files, TakeTarget(t, f) PROVE Goal
  BY <1>a, <1>5 DEF TakeTarget, Goes, Settled, Unusable, Held, Taken, files, fates, runtime, Asked, Blocking, Ended
<1>6. ASSUME NEW t \in Tasks, NEW f \in Files, TakeDestination(t, f) PROVE Goal
  BY <1>a, <1>6 DEF TakeDestination, Goes, HookReturns, Unusable, Held, Taken, files, fates, runtime, Asked,
     Blocking, Ended
<1>7. ASSUME NEW t \in Tasks, OpenTarget(t) PROVE Goal
  BY <1>a, <1>7 DEF OpenTarget, Goes, files, fates, runtime, Asked, Blocking, Ended
<1>8. ASSUME NEW t \in Tasks, HookCancels(t) PROVE Goal
  BY <1>a, <1>8 DEF HookCancels, Goes, HookReturns, files, fates, runtime, Asked, Blocking, Ended
<1>9. ASSUME NEW t \in Tasks, Create(t) PROVE Goal
  BY <1>a, <1>9 DEF Create, Goes, HookReturns, Publish, files, fates, runtime, Asked, Blocking, Ended
<1>10. ASSUME NEW t \in Tasks, LockNew(t) PROVE Goal
  BY <1>a, <1>10 DEF LockNew, Goes, Unusable, Held, Taken, files, fates, runtime, Asked, Blocking, Ended
<1>11. ASSUME NEW t \in Tasks, SwitchUncontended(t) PROVE Goal
  BY <1>a, <1>11 DEF SwitchUncontended, Goes, HookReturns, files, fates, runtime, Asked, Blocking, Ended
<1>12. ASSUME NEW t \in Tasks, AnswerReadOnly(t) PROVE Goal
  BY <1>a, <1>12 DEF AnswerReadOnly, Goes, files, fates, runtime, Asked, Blocking, Ended
<1>13. ASSUME NEW t \in Tasks, AnswerFork(t) PROVE Goal
  BY <1>a, <1>13 DEF AnswerFork, Goes, Publish, files, fates, runtime, Asked, Blocking, Ended
<1>14. ASSUME NEW t \in Tasks, AnswerCancel(t) PROVE Goal
  BY <1>a, <1>14 DEF AnswerCancel, Goes, files, fates, runtime, Asked, Blocking, Ended
<1>15. ASSUME NEW t \in Tasks, Copy(t) PROVE Goal
  BY <1>a, <1>15 DEF Copy, Goes, files, fates, runtime, Asked, Blocking, Ended
<1>16. ASSUME NEW t \in Tasks, OpenCopy(t) PROVE Goal
  BY <1>a, <1>16 DEF OpenCopy, Goes, files, fates, runtime, Asked, Blocking, Ended
<1>17. ASSUME NEW t \in Tasks, GiveBackFirst(t) PROVE Goal
  BY <1>a, <1>17 DEF GiveBackFirst, Goes, Emptied, Waiting, files, fates, runtime, Asked, Blocking, Ended
<1>18. ASSUME NEW t \in Tasks, FirstGiven(t) PROVE Goal
  BY <1>a, <1>18 DEF FirstGiven, Goes, files, fates, runtime, Asked, Blocking, Ended
<1>19. ASSUME NEW t \in Tasks, Teardown(t) PROVE Goal
  BY <1>a, <1>19 DEF Teardown, Goes, Disposed, AbortClears, files, fates, runtime, Asked, Blocking, Ended
<1>20. ASSUME NEW t \in Tasks, TornDown(t) PROVE Goal
  BY <1>a, <1>20 DEF TornDown, Goes, Emptied, Waiting, files, fates, runtime, Asked, Blocking, Ended
<1>21. ASSUME NEW t \in Tasks, SecondGiven(t) PROVE Goal
  BY <1>a, <1>21 DEF SecondGiven, Goes, files, fates, runtime, Asked, Blocking, Ended
<1>22. ASSUME NEW t \in Tasks, Install(t) PROVE Goal
  BY <1>a, <1>22 DEF Install, Goes, Blank, files, fates, runtime, Asked, Blocking, Ended
<1>23. ASSUME NEW t \in Tasks, Reload(t) PROVE Goal
  BY <1>a, <1>23 DEF Reload, Goes, Rebuild, Carried, Blank, files, fates, runtime, Asked, Blocking, Ended
<1>24. ASSUME NEW t \in Tasks, BuildFails(t) PROVE Goal
  BY <1>a, <1>24 DEF BuildFails, Goes, files, fates, runtime, Asked, Blocking, Ended
<1>25. ASSUME NEW t \in Tasks, Restore(t) PROVE Goal
  BY <1>a, <1>25 DEF Restore, Goes, Rebuild, Carried, Blank, files, fates, runtime, Asked, Blocking, Ended
<1>26. ASSUME NEW t \in Tasks, Kept(t) PROVE Goal
  BY <1>a, <1>26 DEF Kept, Goes, files, fates, runtime, Asked, Blocking, Ended
<1>27. ASSUME NEW t \in Tasks, Rebind(t) PROVE Goal
  BY <1>a, <1>27 DEF Rebind, Goes, NoJob, files, fates, runtime, Asked, Blocking, Ended
<1>28. ASSUME NEW t \in Tasks, Raises(t) PROVE Goal
  BY <1>a, <1>28 DEF Raises, Goes, files, fates, runtime, Asked, Blocking, Ended
<1>29. ASSUME NEW t \in Tasks, RestoreFails(t) PROVE Goal
  BY ZenonT(60), <1>a, <1>29 DEF RestoreFails, Goes, Stops, files, fates, runtime, Asked, Blocking, Ended
<1>30. ASSUME NEW t \in Tasks, Discard(t) PROVE Goal
  BY <1>a, <1>30 DEF Discard, Goes, files, fates, runtime, Asked, Blocking, Ended
<1>31. ASSUME NEW t \in Tasks, Drop(t) PROVE Goal
  BY <1>a, <1>31 DEF Drop, Goes, NoJob, files, fates, runtime, Asked, Blocking, Ended
<1>32. ASSUME NEW t \in Tasks, CancelWaiting(t) PROVE Goal
  BY <1>a, <1>32 DEF CancelWaiting, Goes, files, fates, runtime, Asked, Blocking, Ended
<1>33. ASSUME NEW t \in Tasks, Cancel(t) PROVE Goal
  BY <1>a, <1>33 DEF Cancel, Goes, files, fates, runtime, Asked, Blocking, Ended
<1>34. ASSUME NEW t \in Tasks, CancelStops(t) PROVE Goal
  BY ZenonT(60), <1>a, <1>34 DEF CancelStops, Goes, Stops, files, fates, runtime, Asked, Blocking, Ended
<1>35. ASSUME Quit PROVE Goal
  BY <1>a, <1>35 DEF Quit, files, fates, runtime, Asked, Blocking, Ended
<1>36. ASSUME QuitDispose PROVE Goal
  BY <1>a, <1>36 DEF QuitDispose, Disposed, AbortClears, files, fates, runtime, Asked, Blocking, Ended
<1>37. ASSUME QuitReleases PROVE Goal
  BY <1>a, <1>37 DEF QuitReleases, files, fates, runtime, Asked, Blocking, Ended
<1>38. ASSUME NEW h \in {inst, surf}, NEW l \in Lines, Prompt(h, l) PROVE Goal
  BY <1>a, <1>38 DEF Prompt, Suspended, files, fates, runtime, Asked, Blocking, Ended
<1>39. ASSUME NEW h \in {inst, surf}, NEW l \in Lines, Steer(h, l) PROVE Goal
  BY <1>a, <1>39 DEF Steer, Suspended, files, fates, runtime, Asked, Blocking, Ended
<1>40. ASSUME Esc PROVE Goal
  BY <1>a, <1>40 DEF Esc, Suspended, files, fates, runtime, Asked, Blocking, Ended
<1>41. ASSUME NEW h \in Harnesses, TurnEnds(h) PROVE Goal
  BY <1>a, <1>41 DEF TurnEnds, Suspended, files, fates, runtime, Asked, Blocking, Ended
<1>42. ASSUME NEW h \in Harnesses, NEW l \in Lines, Commit(h, l) PROVE Goal
  BY <1>a, <1>42 DEF Commit, Suspended, files, fates, runtime, Asked, Blocking, Ended
<1>43. ASSUME NEW f \in Files, OtherTakes(f) PROVE Goal
  BY <1>a, <1>43 DEF OtherTakes, files, fates, runtime, Asked, Blocking, Ended
<1>44. ASSUME NEW f \in Files, OtherWrites(f) PROVE Goal
  BY <1>a, <1>44 DEF OtherWrites, files, fates, runtime, Asked, Blocking, Ended
<1>45. ASSUME NEW f \in Files, OtherLeaves(f) PROVE Goal
  BY <1>a, <1>45 DEF OtherLeaves, files, fates, runtime, Asked, Blocking, Ended
<1> QED
  BY <1>1, <1>2, <1>3, <1>4, <1>5, <1>6, <1>7, <1>8, <1>9, <1>10, <1>11, <1>12, <1>13, <1>14, <1>15, <1>16,
     <1>17, <1>18, <1>19, <1>20, <1>21, <1>22, <1>23, <1>24, <1>25, <1>26, <1>27, <1>28, <1>29, <1>30, <1>31,
     <1>32, <1>33, <1>34, <1>35, <1>36, <1>37, <1>38, <1>39, <1>40, <1>41, <1>42, <1>43, <1>44, <1>45 DEF Next,
     Swap, Interrupt, Send, Turn, Other

\* The running transition.
LEMMA RunningIs ==
  ASSUME Alone, NEW t \in Tasks, pc[t] \notin {"idle", "wait", "done"}
  PROVE  lifecycle = t /\ lifecycle # None /\ Mid = job[t] /\ \A S : Running(S) <=> pc[t] \in S
<1>1. lifecycle = t
  BY ZenonT(60) DEF Alone
<1>2. lifecycle # None
  BY <1>1, NamesAssumption
<1> QED
  BY <1>1, <1>2 DEF Mid, Running

\* A transition that has made no file has a name left, and one that has built no harness has room.
LEMMA Room ==
  ASSUME Typed, Counts, NEW t \in Tasks
  PROVE  /\ pc[t] \notin Making => FreshName \in New \ named
         /\ pc[t] \notin Spent => built + 1 \in Harnesses
<1>1. IsFiniteSet(Tasks) /\ Cardinality(New) >= Cardinality(Tasks)
  BY NamesAssumption
<1>2. \A S \in SUBSET (Tasks \ {t}) : IsFiniteSet(S) /\ Cardinality(S) \in Nat /\ Cardinality(S) < Cardinality(Tasks)
  <2>1. IsFiniteSet(Tasks \ {t}) /\ Cardinality(Tasks \ {t}) = Cardinality(Tasks) - 1 /\ Cardinality(Tasks) \in Nat
    BY <1>1, FS_RemoveElement, FS_CardinalityType
  <2>2. \A S \in SUBSET (Tasks \ {t}) : IsFiniteSet(S) /\ Cardinality(S) <= Cardinality(Tasks \ {t}) /\ Cardinality(S) \in Nat
    BY <2>1, FS_Subset, FS_CardinalityType
  <2> QED
    BY <2>1, <2>2
<1>3. ASSUME pc[t] \notin Making PROVE FreshName \in New \ named
  <2>1. Cardinality(named) < Cardinality(Tasks)
    <3>1. Makers \in SUBSET (Tasks \ {t}) /\ Cardinality(named) \in Nat
      BY <1>3, FS_CardinalityType DEF Makers, Counts
    <3>2. Cardinality(Makers) \in Nat /\ Cardinality(Makers) < Cardinality(Tasks) /\ Cardinality(Tasks) \in Nat
      BY <1>1, <1>2, <3>1, FS_CardinalityType
    <3> QED
      BY <3>1, <3>2 DEF Counts
  <2>2. ~(New \subseteq named)
    <3> SUFFICES ASSUME New \subseteq named
                 PROVE  FALSE
      OBVIOUS
    <3>1. Cardinality(New) <= Cardinality(named) /\ Cardinality(New) \in Nat /\ Cardinality(named) \in Nat
          /\ Cardinality(Tasks) \in Nat
      BY <1>1, FS_Subset, FS_CardinalityType DEF Counts
    <3> QED
      BY <1>1, <2>1, <3>1
  <2>3. \E n \in New : n \notin named
    BY <2>2
  <2> QED
    BY <2>3 DEF FreshName
<1>4. ASSUME pc[t] \notin Spent PROVE built + 1 \in Harnesses
  <2>1. Spenders \in SUBSET (Tasks \ {t}) /\ built \in Nat
    BY <1>4 DEF Spenders, Typed, TypeOK, Harnesses
  <2>2. Cardinality(Spenders) \in Nat /\ Cardinality(Spenders) < Cardinality(Tasks) /\ Cardinality(Tasks) \in Nat
    BY <1>1, <1>2, <2>1, FS_CardinalityType
  <2> QED
    BY <2>1, <2>2 DEF Counts, Harnesses
<1> QED
  BY <1>3, <1>4

\* A step lets no transition forget that it made a file or built a harness, and makes one of each at most.
Onward ==
  /\ \A t \in Tasks : (pc[t] \in Making => pc'[t] \in Making) /\ (pc[t] \in Spent => pc'[t] \in Spent)
  /\ named' = named \/ \E f \in New, t \in Tasks : named' = named \cup {f} /\ pc[t] \notin Making /\ pc'[t] \in Making
  /\ built' = built \/ (built' = built + 1 /\ \E t \in Tasks : pc[t] \notin Spent /\ pc'[t] \in Spent)

\* Onward holds of every step: each action, and where it takes its transition.
LEMMA OnwardIs ==
  ASSUME Typed, Alone, Locals, Filed, Counts, Next
  PROVE  Onward
<1>a. pc \in [Tasks -> {"wait"} \cup Asked \cup Blocking \cup Ended]
  BY DEF Typed, TypeOK
<1>1. ASSUME NEW t \in Tasks, NEW k \in Kinds, NEW p \in Tasks \cup {None}, Request(t, k, p) PROVE Onward
  BY <1>a, <1>1 DEF Request, Goes, Nested, files, fates, runtime, Onward, Making, Spent
<1>2. ASSUME NEW t \in Tasks, Start(t) PROVE Onward
  BY <1>a, <1>2 DEF Start, Goes, files, fates, runtime, Onward, Making, Spent
<1>3. ASSUME NEW t \in Tasks, Settle(t) PROVE Onward
  BY <1>a, <1>3 DEF Settle, Goes, Settled, files, fates, runtime, Onward, Making, Spent
<1>4. ASSUME NEW t \in Tasks, SettleReload(t) PROVE Onward
  BY <1>a, <1>4 DEF SettleReload, Goes, Settled, files, fates, runtime, Onward, Making, Spent
<1>5. ASSUME NEW t \in Tasks, NEW f \in Files, TakeTarget(t, f) PROVE Onward
  BY <1>a, <1>5 DEF TakeTarget, Goes, Settled, Unusable, Held, Taken, files, fates, runtime, Onward, Making, Spent
<1>6. ASSUME NEW t \in Tasks, NEW f \in Files, TakeDestination(t, f) PROVE Onward
  BY <1>a, <1>6 DEF TakeDestination, Goes, HookReturns, Unusable, Held, Taken, files, fates, runtime, Onward,
     Making, Spent
<1>7. ASSUME NEW t \in Tasks, OpenTarget(t) PROVE Onward
  BY <1>a, <1>7 DEF OpenTarget, Goes, files, fates, runtime, Onward, Making, Spent
<1>8. ASSUME NEW t \in Tasks, HookCancels(t) PROVE Onward
  BY <1>a, <1>8 DEF HookCancels, Goes, HookReturns, files, fates, runtime, Onward, Making, Spent
<1>9. ASSUME NEW t \in Tasks, Create(t) PROVE Onward
  <2>1. FreshName \in New
    BY <1>9, Room DEF Create, HookReturns, Making
  <2> QED
    BY <1>a, <1>9, <2>1 DEF Create, Publish, Goes, HookReturns, files, fates, runtime, Onward, Making, Spent
<1>10. ASSUME NEW t \in Tasks, LockNew(t) PROVE Onward
  BY <1>a, <1>10 DEF LockNew, Goes, Unusable, Held, Taken, files, fates, runtime, Onward, Making, Spent
<1>11. ASSUME NEW t \in Tasks, SwitchUncontended(t) PROVE Onward
  BY <1>a, <1>11 DEF SwitchUncontended, Goes, HookReturns, files, fates, runtime, Onward, Making, Spent
<1>12. ASSUME NEW t \in Tasks, AnswerReadOnly(t) PROVE Onward
  BY <1>a, <1>12 DEF AnswerReadOnly, Goes, files, fates, runtime, Onward, Making, Spent
<1>13. ASSUME NEW t \in Tasks, AnswerFork(t) PROVE Onward
  <2>1. FreshName \in New
    BY <1>13, Room DEF AnswerFork, Making
  <2> QED
    BY <1>a, <1>13, <2>1 DEF AnswerFork, Publish, Goes, HookReturns, files, fates, runtime, Onward, Making, Spent
<1>14. ASSUME NEW t \in Tasks, AnswerCancel(t) PROVE Onward
  BY <1>a, <1>14 DEF AnswerCancel, Goes, files, fates, runtime, Onward, Making, Spent
<1>15. ASSUME NEW t \in Tasks, Copy(t) PROVE Onward
  <2>1. t = lifecycle /\ job[t].target \in Files
    BY <1>a, <1>15, RunningIs DEF Copy, Locals
  <2>2. text[job[t].target] = <<>> => job[t].target \in New
    BY <2>1 DEF Filed, Files
  <2> QED
    BY <1>a, <1>15, <2>2 DEF Copy, Goes, files, fates, runtime, Onward, Making, Spent
<1>16. ASSUME NEW t \in Tasks, OpenCopy(t) PROVE Onward
  BY <1>a, <1>16 DEF OpenCopy, Goes, files, fates, runtime, Onward, Making, Spent
<1>17. ASSUME NEW t \in Tasks, GiveBackFirst(t) PROVE Onward
  BY <1>a, <1>17 DEF GiveBackFirst, Goes, Emptied, Waiting, files, fates, runtime, Onward, Making, Spent
<1>18. ASSUME NEW t \in Tasks, FirstGiven(t) PROVE Onward
  BY <1>a, <1>18 DEF FirstGiven, Goes, files, fates, runtime, Onward, Making, Spent
<1>19. ASSUME NEW t \in Tasks, Teardown(t) PROVE Onward
  BY <1>a, <1>19 DEF Teardown, Goes, Disposed, AbortClears, files, fates, runtime, Onward, Making, Spent
<1>20. ASSUME NEW t \in Tasks, TornDown(t) PROVE Onward
  BY <1>a, <1>20 DEF TornDown, Goes, Emptied, Waiting, files, fates, runtime, Onward, Making, Spent
<1>21. ASSUME NEW t \in Tasks, SecondGiven(t) PROVE Onward
  BY <1>a, <1>21 DEF SecondGiven, Goes, files, fates, runtime, Onward, Making, Spent
<1>22. ASSUME NEW t \in Tasks, Install(t) PROVE Onward
  BY <1>a, <1>22 DEF Install, Goes, Blank, files, fates, runtime, Onward, Making, Spent
<1>23. ASSUME NEW t \in Tasks, Reload(t) PROVE Onward
  BY <1>a, <1>23 DEF Reload, Goes, Rebuild, Carried, Blank, files, fates, runtime, Onward, Making, Spent
<1>24. ASSUME NEW t \in Tasks, BuildFails(t) PROVE Onward
  BY <1>a, <1>24 DEF BuildFails, Goes, files, fates, runtime, Onward, Making, Spent
<1>25. ASSUME NEW t \in Tasks, Restore(t) PROVE Onward
  BY <1>a, <1>25 DEF Restore, Goes, Rebuild, Carried, Blank, files, fates, runtime, Onward, Making, Spent
<1>26. ASSUME NEW t \in Tasks, Kept(t) PROVE Onward
  BY <1>a, <1>26 DEF Kept, Goes, files, fates, runtime, Onward, Making, Spent
<1>27. ASSUME NEW t \in Tasks, Rebind(t) PROVE Onward
  BY <1>a, <1>27 DEF Rebind, Goes, NoJob, files, fates, runtime, Onward, Making, Spent
<1>28. ASSUME NEW t \in Tasks, Raises(t) PROVE Onward
  BY <1>a, <1>28 DEF Raises, Goes, files, fates, runtime, Onward, Making, Spent
<1>29. ASSUME NEW t \in Tasks, RestoreFails(t) PROVE Onward
  BY ZenonT(60), <1>a, <1>29 DEF RestoreFails, Goes, Stops, files, fates, runtime, Onward, Making, Spent
<1>30. ASSUME NEW t \in Tasks, Discard(t) PROVE Onward
  BY <1>a, <1>30 DEF Discard, Goes, files, fates, runtime, Onward, Making, Spent
<1>31. ASSUME NEW t \in Tasks, Drop(t) PROVE Onward
  BY <1>a, <1>31 DEF Drop, Goes, NoJob, files, fates, runtime, Onward, Making, Spent
<1>32. ASSUME NEW t \in Tasks, CancelWaiting(t) PROVE Onward
  BY <1>a, <1>32 DEF CancelWaiting, Goes, files, fates, runtime, Onward, Making, Spent
<1>33. ASSUME NEW t \in Tasks, Cancel(t) PROVE Onward
  BY <1>a, <1>33 DEF Cancel, Goes, files, fates, runtime, Onward, Making, Spent
<1>34. ASSUME NEW t \in Tasks, CancelStops(t) PROVE Onward
  BY ZenonT(60), <1>a, <1>34 DEF CancelStops, Goes, Stops, files, fates, runtime, Onward, Making, Spent
<1>35. ASSUME Quit PROVE Onward
  BY <1>a, <1>35 DEF Quit, files, fates, runtime, Onward, Making, Spent
<1>36. ASSUME QuitDispose PROVE Onward
  BY <1>a, <1>36 DEF QuitDispose, Disposed, AbortClears, files, fates, runtime, Onward, Making, Spent
<1>37. ASSUME QuitReleases PROVE Onward
  BY <1>a, <1>37 DEF QuitReleases, files, fates, runtime, Onward, Making, Spent
<1>38. ASSUME NEW h \in {inst, surf}, NEW l \in Lines, Prompt(h, l) PROVE Onward
  BY <1>a, <1>38 DEF Prompt, Suspended, files, fates, runtime, Onward, Making, Spent
<1>39. ASSUME NEW h \in {inst, surf}, NEW l \in Lines, Steer(h, l) PROVE Onward
  BY <1>a, <1>39 DEF Steer, Suspended, files, fates, runtime, Onward, Making, Spent
<1>40. ASSUME Esc PROVE Onward
  BY <1>a, <1>40 DEF Esc, Suspended, files, fates, runtime, Onward, Making, Spent
<1>41. ASSUME NEW h \in Harnesses, TurnEnds(h) PROVE Onward
  BY <1>a, <1>41 DEF TurnEnds, Suspended, files, fates, runtime, Onward, Making, Spent
<1>42. ASSUME NEW h \in Harnesses, NEW l \in Lines, Commit(h, l) PROVE Onward
  BY <1>a, <1>42 DEF Commit, Suspended, files, fates, runtime, Onward, Making, Spent
<1>43. ASSUME NEW f \in Files, OtherTakes(f) PROVE Onward
  BY <1>a, <1>43 DEF OtherTakes, files, fates, runtime, Onward, Making, Spent
<1>44. ASSUME NEW f \in Files, OtherWrites(f) PROVE Onward
  BY <1>a, <1>44 DEF OtherWrites, files, fates, runtime, Onward, Making, Spent
<1>45. ASSUME NEW f \in Files, OtherLeaves(f) PROVE Onward
  BY <1>a, <1>45 DEF OtherLeaves, files, fates, runtime, Onward, Making, Spent
<1> QED
  BY <1>1, <1>2, <1>3, <1>4, <1>5, <1>6, <1>7, <1>8, <1>9, <1>10, <1>11, <1>12, <1>13, <1>14, <1>15, <1>16,
     <1>17, <1>18, <1>19, <1>20, <1>21, <1>22, <1>23, <1>24, <1>25, <1>26, <1>27, <1>28, <1>29, <1>30, <1>31,
     <1>32, <1>33, <1>34, <1>35, <1>36, <1>37, <1>38, <1>39, <1>40, <1>41, <1>42, <1>43, <1>44, <1>45 DEF Next,
     Swap, Interrupt, Send, Turn, Other

\* Counts
LEMMA CountsKept ==
  ASSUME Typed, Alone, Locals, Filed, Counts, Next
  PROVE  Counts'
<1>1. Onward
  BY OnwardIs
<1>2. IsFiniteSet(Tasks) /\ Makers' \subseteq Tasks /\ Spenders' \subseteq Tasks /\ built \in Nat
  BY NamesAssumption DEF Makers, Spenders, Typed, TypeOK, Harnesses
<1>3. IsFiniteSet(Makers') /\ IsFiniteSet(Spenders') /\ IsFiniteSet(named)
  BY <1>2, FS_Subset DEF Counts
<1>4. \A S \in {Makers, Spenders} : \A T \in {Makers', Spenders'} : S \subseteq T =>
        /\ Cardinality(S) \in Nat /\ Cardinality(T) \in Nat /\ Cardinality(S) <= Cardinality(T)
        /\ \A t \in T \ S : Cardinality(S) + 1 <= Cardinality(T)
  <2> SUFFICES ASSUME NEW S \in {Makers, Spenders}, NEW T \in {Makers', Spenders'}, S \subseteq T
               PROVE  /\ Cardinality(S) \in Nat /\ Cardinality(T) \in Nat /\ Cardinality(S) <= Cardinality(T)
                      /\ \A t \in T \ S : Cardinality(S) + 1 <= Cardinality(T)
    OBVIOUS
  <2>1. IsFiniteSet(T)
    BY <1>3
  <2>2. IsFiniteSet(S) /\ Cardinality(S) <= Cardinality(T) /\ Cardinality(S) \in Nat /\ Cardinality(T) \in Nat
    BY <2>1, FS_Subset, FS_CardinalityType
  <2>3. ASSUME NEW t \in T \ S PROVE Cardinality(S) + 1 <= Cardinality(T)
    <3>1. Cardinality(S \cup {t}) = Cardinality(S) + 1
      BY <2>2, FS_AddElement
    <3>2. Cardinality(S \cup {t}) <= Cardinality(T)
      BY <2>1, FS_Subset
    <3> QED
      BY <3>1, <3>2
  <2> QED
    BY <2>2, <2>3
<1>m. Makers \subseteq Makers' /\ Spenders \subseteq Spenders'
  BY <1>1 DEF Onward, Makers, Spenders
<1>5. built' <= Cardinality(Spenders')
  <2>1. /\ Cardinality(Spenders) \in Nat /\ Cardinality(Spenders') \in Nat
        /\ Cardinality(Spenders) <= Cardinality(Spenders') /\ built <= Cardinality(Spenders)
    BY <1>4, <1>m DEF Counts
  <2>2. ASSUME NEW t \in Tasks, pc[t] \notin Spent, pc'[t] \in Spent PROVE Cardinality(Spenders) + 1 <= Cardinality(Spenders')
    <3>1. t \in Spenders' \ Spenders
      BY <2>2 DEF Spenders
    <3> QED
      BY <1>4, <1>m, <3>1
  <2> QED
    BY <1>1, <1>2, <2>1, <2>2 DEF Onward
<1>6. CASE named' = named
  <2>1. Cardinality(named) \in Nat
    BY <1>3, FS_CardinalityType
  <2> QED
    BY <1>4, <1>5, <1>6, <1>m, <2>1 DEF Counts
<1>7. ASSUME NEW f \in New, NEW t \in Tasks, named' = named \cup {f}, t \in Makers' \ Makers
      PROVE  Counts'
  <2>1. IsFiniteSet(named') /\ Cardinality(named') <= Cardinality(named) + 1 /\ Cardinality(named) \in Nat /\ Cardinality(named') \in Nat
    <3>1. IsFiniteSet(named \cup {f}) /\ Cardinality(named \cup {f}) = IF f \in named THEN Cardinality(named) ELSE Cardinality(named) + 1
      BY <1>3, FS_AddElement
    <3>2. Cardinality(named) \in Nat /\ Cardinality(named \cup {f}) \in Nat
      BY <1>3, <3>1, FS_CardinalityType
    <3> QED
      BY <1>7, <3>1, <3>2
  <2> QED
    BY <1>4, <1>5, <1>7, <1>m, <2>1 DEF Counts
<1> QED
  BY <1>1, <1>6, <1>7 DEF Onward, Makers

-----------------------------------------------------------------------------
\* What a step makes of the installed harness, when it touches no other and not what it runs on.
Moved(turn, run, queue, next) ==
  /\ inst' = inst /\ harness'[inst].file = harness[inst].file /\ harness'[inst].ro = harness[inst].ro
  /\ \A h \in Harnesses : h # inst => harness'[h] = harness[h]
  /\ harness'[inst].turn = turn /\ harness'[inst].run = run
  /\ harness'[inst].queue = queue /\ harness'[inst].next = next
Same(h) == harness'[h].disposed = harness[h].disposed /\ harness'[h].held = harness[h].held
Knows == harness'[inst].knows = harness[inst].knows


\* A harness whose queues are emptied, one that is torn down, and what a line, a turn and a rebind do to the installed one.
LEMMA EmptiedMoves ==
  ASSUME Typed, harness' = Emptied(inst), inst' = inst
  PROVE  Moved(harness[inst].turn, harness[inst].run, {}, {}) /\ Same(inst) /\ Knows
         /\ harness'[inst].late = harness[inst].late
<1>a. harness \in [Harnesses -> Sessions] /\ inst \in Harnesses /\ surf \in Harnesses /\ built = inst /\ surf <= inst
      /\ inst \in Nat /\ surf \in Nat /\ \A h \in Harnesses : h \in Nat
  BY DEF Typed, TypeOK, Harnesses
<1>8. harness' = [harness EXCEPT ![inst] = [harness[inst] EXCEPT !.queue = {}, !.next = {}]]
  BY <1>a DEF Emptied
<1> QED
  BY <1>a, <1>8 DEF Moved, Same, Knows, Sessions, Waiting

LEMMA DisposedMoves ==
  ASSUME Typed, harness' = Disposed(inst), inst' = inst
  PROVE  /\ IF harness[inst].turn = "idle" THEN Moved(harness[inst].turn, harness[inst].run, harness[inst].queue, harness[inst].next)
            ELSE Moved("cut", harness[inst].run, {}, harness[inst].next)
         /\ harness'[inst].disposed /\ harness'[inst].held = harness[inst].held /\ Knows
         /\ harness'[inst].late = harness[inst].late
<1>a. harness \in [Harnesses -> Sessions] /\ inst \in Harnesses /\ surf \in Harnesses /\ built = inst /\ surf <= inst
      /\ inst \in Nat /\ surf \in Nat /\ \A h \in Harnesses : h \in Nat
  BY DEF Typed, TypeOK, Harnesses
<1>1. CASE harness[inst].turn = "idle"
  <2>1. harness' = [harness EXCEPT ![inst] = [harness[inst] EXCEPT !.disposed = TRUE]]
    BY <1>a, <1>1 DEF Disposed
  <2> QED
    BY <1>a, <1>1, <2>1 DEF Moved, Same, Knows, Sessions
<1>2. CASE harness[inst].turn # "idle"
  <2>1. harness' = [harness EXCEPT ![inst] = [harness[inst] EXCEPT !.disposed = TRUE, !.turn = "cut", !.queue = {}]]
    BY <1>a, <1>2 DEF Disposed
  <2> QED
    BY <1>a, <1>2, <2>1 DEF Moved, Same, Knows, Sessions
<1> QED
  BY <1>1, <1>2

LEMMA RebindMoves ==
  ASSUME Typed, NEW t \in Tasks, Rebind(t)
  PROVE  /\ Moved(harness[inst].turn, harness[inst].run, harness[inst].queue, harness[inst].next) /\ Same(inst)
         /\ harness'[inst].late = harness[inst].late
         /\ \E level \in IF job[t].kind = "reload" \/ harness[inst].ro THEN {<<>>} ELSE {<<>>, <<"level">>} :
              /\ harness'[inst].knows = harness[inst].knows \o level
              /\ text' = [text EXCEPT ![harness[inst].file] = text[harness[inst].file] \o level]
<1>a. harness \in [Harnesses -> Sessions] /\ inst \in Harnesses /\ surf \in Harnesses /\ built = inst /\ surf <= inst
      /\ inst \in Nat /\ surf \in Nat /\ \A h \in Harnesses : h \in Nat
  BY DEF Typed, TypeOK, Harnesses
<1>1. PICK level \in IF job[t].kind = "reload" \/ harness[inst].ro THEN {<<>>} ELSE {<<>>, <<"level">>} :
        /\ harness' = [harness EXCEPT ![inst].knows = harness[inst].knows \o level]
        /\ text' = [text EXCEPT ![harness[inst].file] = text[harness[inst].file] \o level]
  BY DEF Rebind
<1>2. inst' = inst
  BY DEF Rebind
<1>3. Moved(harness[inst].turn, harness[inst].run, harness[inst].queue, harness[inst].next) /\ Same(inst) /\ harness'[inst].late = harness[inst].late
      /\ harness'[inst].knows = harness[inst].knows \o level
  BY <1>a, <1>1, <1>2 DEF Moved, Same, Sessions
<1> QED
  BY <1>1, <1>3

LEMMA PromptMoves ==
  ASSUME Typed, Left, NEW h \in {inst, surf}, NEW l \in Lines, Prompt(h, l)
  PROVE  /\ Moved("run", {l} \cup harness[inst].next, harness[inst].queue, {}) /\ Same(inst) /\ Knows
         /\ ~harness[inst].disposed /\ harness[inst].turn = "idle" /\ l \notin accepted
<1>a. harness \in [Harnesses -> Sessions] /\ inst \in Harnesses /\ surf \in Harnesses /\ built = inst /\ surf <= inst
      /\ inst \in Nat /\ surf \in Nat /\ \A n \in Harnesses : n \in Nat
  BY DEF Typed, TypeOK, Harnesses
<1>1. h = inst
  BY <1>a DEF Prompt, Left
<1>8. harness' = [harness EXCEPT ![inst] = [harness[inst] EXCEPT !.turn = "run", !.late = FALSE, !.run = {l} \cup harness[inst].next, !.next = {}]]
  BY <1>a, <1>1 DEF Prompt
<1> QED
  BY <1>a, <1>1, <1>8 DEF Moved, Same, Knows, Sessions, Prompt, runtime

LEMMA SteerMoves ==
  ASSUME Typed, Left, NEW h \in {inst, surf}, NEW l \in Lines, Steer(h, l)
  PROVE  /\ Moved(harness[inst].turn, harness[inst].run, harness[inst].queue \cup {l}, harness[inst].next) /\ Same(inst) /\ Knows
         /\ harness'[inst].late = harness[inst].late /\ ~harness[inst].disposed /\ l \notin accepted
<1>a. harness \in [Harnesses -> Sessions] /\ inst \in Harnesses /\ surf \in Harnesses /\ built = inst /\ surf <= inst
      /\ inst \in Nat /\ surf \in Nat /\ \A n \in Harnesses : n \in Nat
  BY DEF Typed, TypeOK, Harnesses
<1>1. h = inst
  BY <1>a DEF Steer, Left
<1>8. harness' = [harness EXCEPT ![inst] = [harness[inst] EXCEPT !.queue = harness[inst].queue \cup {l}]]
  BY <1>a, <1>1 DEF Steer
<1> QED
  BY <1>a, <1>1, <1>8 DEF Moved, Same, Knows, Sessions, Steer, runtime

LEMMA EscMoves ==
  ASSUME Typed, Left, Esc
  PROVE  /\ Moved("esc", harness[inst].run, {}, harness[inst].next) /\ Same(inst) /\ Knows
         /\ harness[inst].turn = "run" /\ returned' = returned \cup harness[inst].queue
         /\ harness'[inst].late = (lifecycle # None /\ pc[lifecycle] # "settle")
<1>a. harness \in [Harnesses -> Sessions] /\ inst \in Harnesses /\ surf \in Harnesses /\ built = inst /\ surf <= inst
      /\ inst \in Nat /\ surf \in Nat /\ \A n \in Harnesses : n \in Nat
  BY DEF Typed, TypeOK, Harnesses
<1>1. surf = inst
  BY <1>a DEF Esc, Left
<1>8. harness' = [harness EXCEPT ![inst] = [harness[inst] EXCEPT !.turn = "esc", !.queue = {}, !.late = (lifecycle # None /\ pc[lifecycle] # "settle")]]
  BY <1>a, <1>1 DEF Esc
<1> QED
  BY <1>a, <1>1, <1>8 DEF Moved, Same, Knows, Sessions, Esc, runtime

LEMMA TurnMoves ==
  ASSUME Typed, Left, NEW h \in Harnesses, TurnEnds(h)
  PROVE  /\ Moved("idle", {}, harness[inst].queue,
                  IF harness[inst].turn = "cut" THEN harness[inst].next \cup harness[inst].run ELSE harness[inst].next)
         /\ Same(inst) /\ Knows /\ harness[inst].turn # "idle" /\ (harness[inst].turn = "run" => harness[inst].run = {})
         /\ returned' = IF harness[inst].turn = "esc" THEN returned \cup harness[inst].run ELSE returned
<1>a. harness \in [Harnesses -> Sessions] /\ inst \in Harnesses /\ surf \in Harnesses /\ built = inst /\ surf <= inst
      /\ inst \in Nat /\ surf \in Nat /\ \A n \in Harnesses : n \in Nat
  BY DEF Typed, TypeOK, Harnesses
<1> DEFINE back == IF harness[inst].turn = "cut" THEN harness[inst].next \cup harness[inst].run ELSE harness[inst].next
<1>1. h = inst
  BY <1>a DEF TurnEnds, Left, Blank
<1>2. harness' = [harness EXCEPT ![inst] = [harness[inst] EXCEPT !.turn = "idle", !.late = FALSE, !.run = {}, !.next = back]]
  BY <1>a, <1>1 DEF TurnEnds
<1>3. /\ harness[inst].turn # "idle" /\ (harness[inst].turn = "run" => harness[inst].run = {}) /\ inst' = inst
      /\ returned' = IF harness[inst].turn = "esc" THEN returned \cup harness[inst].run ELSE returned
  BY <1>1 DEF TurnEnds, runtime
<1> HIDE DEF back
<1>4. Moved("idle", {}, harness[inst].queue, back) /\ Same(inst) /\ Knows
  BY <1>a, <1>2, <1>3 DEF Moved, Same, Knows, Sessions
<1> QED
  BY <1>3, <1>4 DEF back

LEMMA CommitMoves ==
  ASSUME Typed, Left, NEW h \in Harnesses, NEW l \in Lines, Commit(h, l)
  PROVE  /\ h = inst
         /\ Moved("run", harness[inst].run \ {l}, harness[inst].queue \ {l}, harness[inst].next) /\ Same(inst)
         /\ harness'[inst].late = harness[inst].late /\ harness[inst].turn = "run"
         /\ l \in harness[inst].run \cup harness[inst].queue
         /\ \E line \in IF harness[inst].ro THEN {<<>>} ELSE {<<l>>} :
              /\ harness'[inst].knows = harness[inst].knows \o line
              /\ text' = [text EXCEPT ![harness[inst].file] = text[harness[inst].file] \o line]
<1>a. harness \in [Harnesses -> Sessions] /\ inst \in Harnesses /\ surf \in Harnesses /\ built = inst /\ surf <= inst
      /\ inst \in Nat /\ surf \in Nat /\ \A n \in Harnesses : n \in Nat
  BY DEF Typed, TypeOK, Harnesses
<1> DEFINE line == IF harness[inst].ro THEN <<>> ELSE <<l>>
<1>1. h = inst
  BY <1>a DEF Commit, Left, Blank
<1>2. harness' = [harness EXCEPT ![inst] = [harness[inst] EXCEPT !.run = harness[inst].run \ {l}, !.queue = harness[inst].queue \ {l},
                                                            !.knows = harness[inst].knows \o line]]
  BY <1>a, <1>1 DEF Commit
<1>3. /\ text' = [text EXCEPT ![harness[inst].file] = text[harness[inst].file] \o line] /\ inst' = inst
      /\ harness[inst].turn = "run" /\ l \in harness[inst].run \cup harness[inst].queue
  BY <1>1 DEF Commit, runtime
<1>4. line \in IF harness[inst].ro THEN {<<>>} ELSE {<<l>>}
  OBVIOUS
<1> HIDE DEF line
<1>5. Moved("run", harness[inst].run \ {l}, harness[inst].queue \ {l}, harness[inst].next) /\ Same(inst)
      /\ harness'[inst].late = harness[inst].late /\ harness'[inst].knows = harness[inst].knows \o line
  BY <1>a, <1>2, <1>3 DEF Moved, Same, Sessions
<1> QED
  BY <1>1, <1>3, <1>4, <1>5

\* An install puts a new harness after the installed one, a rebuild one of the same session with its queues.
LEMMA InstallMoves ==
  ASSUME Typed, Counts, NEW t \in Tasks, Install(t)
  PROVE  /\ inst + 1 \in Harnesses /\ inst' = inst + 1
         /\ \A h \in Harnesses : h # inst + 1 => harness'[h] = harness[h]
         /\ harness'[inst + 1] = [Blank EXCEPT !.file = job[t].target, !.knows = job[t].knows, !.ro = job[t].ro]
<1>a. harness \in [Harnesses -> Sessions] /\ inst \in Harnesses /\ surf \in Harnesses /\ built = inst /\ surf <= inst
      /\ inst \in Nat /\ surf \in Nat /\ \A h \in Harnesses : h \in Nat
  BY DEF Typed, TypeOK, Harnesses
<1>1. built + 1 \in Harnesses
  BY Room DEF Install, Spent
<1> QED
  BY <1>a, <1>1 DEF Install

LEMMA RebuildMoves ==
  ASSUME Typed, Counts, Alone, Locals, NEW t \in Tasks, NEW next, Rebuild(t, next), pc[t] \in {"build", "restore"}
  PROVE  /\ inst + 1 \in Harnesses /\ inst' = inst + 1 /\ job[t].old = inst
         /\ \A h \in Harnesses : h \notin {inst, inst + 1} => harness'[h] = harness[h]
         /\ harness'[inst] = [harness[inst] EXCEPT !.queue = {}, !.next = {}]
         /\ harness'[inst + 1] = [Blank EXCEPT !.file = harness[inst].file, !.knows = harness[inst].knows,
                                              !.ro = harness[inst].ro, !.queue = harness[inst].queue,
                                              !.next = harness[inst].next]
<1>a. harness \in [Harnesses -> Sessions] /\ inst \in Harnesses /\ surf \in Harnesses /\ built = inst /\ surf <= inst
      /\ inst \in Nat /\ surf \in Nat /\ \A h \in Harnesses : h \in Nat
  BY DEF Typed, TypeOK, Harnesses
<1>1. built + 1 \in Harnesses
  BY Room DEF Spent
<1>2. job[t].old = inst
  BY RunningIs DEF Locals, Closing
<1> DEFINE new == [Blank EXCEPT !.file = harness[inst].file, !.knows = harness[inst].knows, !.ro = harness[inst].ro]
           r == Carried(inst, new)
<1>3. harness' = [harness EXCEPT ![inst + 1] = r, ![inst].queue = {}, ![inst].next = {}]
  BY <1>a, <1>2 DEF Rebuild
<1>4. r = [Blank EXCEPT !.file = harness[inst].file, !.knows = harness[inst].knows, !.ro = harness[inst].ro,
                        !.queue = harness[inst].queue, !.next = harness[inst].next]
  BY DEF Carried, Blank
<1> HIDE DEF r
<1>5. inst + 1 # inst
  BY <1>a
<1>6. harness' = [harness EXCEPT ![inst + 1] = r, ![inst] = [harness[inst] EXCEPT !.queue = {}, !.next = {}]]
  BY <1>a, <1>1, <1>3, <1>5
<1>7. inst' = inst + 1
  BY <1>a DEF Rebuild
<1> QED
  BY <1>a, <1>1, <1>2, <1>4, <1>5, <1>6, <1>7

\* A runtime that stops holds its harness.
LEMMA StopMoves ==
  ASSUME Typed, NEW S, Stops(S)
  PROVE  \A h \in Harnesses :
           /\ harness'[h].file = harness[h].file /\ harness'[h].ro = harness[h].ro /\ harness'[h].knows = harness[h].knows
           /\ harness'[h].turn = harness[h].turn /\ harness'[h].run = harness[h].run /\ harness'[h].late = harness[h].late
           /\ harness'[h].queue = harness[h].queue /\ harness'[h].next = harness[h].next
           /\ harness'[h].disposed = (h \in S \/ harness[h].disposed) /\ harness'[h].held = (h \in S \/ harness[h].held)
           /\ h \notin S => harness'[h] = harness[h]
<1>a. harness \in [Harnesses -> Sessions] /\ inst \in Harnesses /\ surf \in Harnesses /\ built = inst /\ surf <= inst
      /\ inst \in Nat /\ surf \in Nat /\ \A h \in Harnesses : h \in Nat
  BY DEF Typed, TypeOK, Harnesses
<1> QED
  BY ZenonT(60), <1>a DEF Stops, Sessions

\* The locals keep their types ...
LEMMA JobsKept ==
  ASSUME Typed, Alone, Locals, Locked, Counts, Next
  PROVE  job' \in [Tasks -> Jobs]
<1>a. /\ pc \in [Tasks -> {"wait"} \cup Asked \cup Blocking \cup Ended] /\ job \in [Tasks -> Jobs]
      /\ text \in [Files -> Texts] /\ harness \in [Harnesses -> Sessions]
      /\ inst \in Harnesses /\ surf \in Harnesses
  BY DEF Typed, TypeOK, Texts
<1>b. <<>> \in Texts /\ <<"level">> \in Texts /\ <<"first">> \in Texts /\ <<"copied">> \in Texts
      /\ \A l \in Lines : <<l>> \in Texts
  BY DEF Texts
<1>c. \A q, r \in Texts : q \o r \in Texts
  BY ConcatProperties DEF Texts
<1>1. ASSUME NEW t \in Tasks, NEW k \in Kinds, NEW p \in Tasks \cup {None}, Request(t, k, p) PROVE job' \in [Tasks -> Jobs]
  <2> DEFINE r == [job[t] EXCEPT !.kind = k, !.parent = p]
  <2>8. job' = [job EXCEPT ![t] = r]
    BY <1>a, <1>1 DEF Request
  <2>9. r \in Jobs
    BY <1>a DEF Jobs
  <2> HIDE DEF r
  <2> QED
    BY <1>a, <2>8, <2>9
<1>2. ASSUME NEW t \in Tasks, Start(t) PROVE job' \in [Tasks -> Jobs]
  BY <1>a, <1>2 DEF Start, Goes, files, fates, runtime, Jobs, NoJob, Swaps, Kinds
<1>3. ASSUME NEW t \in Tasks, Settle(t) PROVE job' \in [Tasks -> Jobs]
  BY <1>a, <1>3 DEF Settle, Goes, Settled, files, fates, runtime, Jobs, NoJob, Swaps, Kinds
<1>4. ASSUME NEW t \in Tasks, SettleReload(t) PROVE job' \in [Tasks -> Jobs]
  BY <1>a, <1>4 DEF SettleReload, Goes, Settled, files, fates, runtime, Jobs, NoJob, Swaps, Kinds
<1>5. ASSUME NEW t \in Tasks, NEW f \in Files, TakeTarget(t, f) PROVE job' \in [Tasks -> Jobs]
  BY <1>a, <1>5 DEF TakeTarget, Goes, Settled, Unusable, Held, Taken, files, fates, runtime, Jobs, NoJob, Swaps,
     Kinds
<1>6. ASSUME NEW t \in Tasks, NEW f \in Files, TakeDestination(t, f) PROVE job' \in [Tasks -> Jobs]
  BY <1>a, <1>6 DEF TakeDestination, Goes, HookReturns, Unusable, Held, Taken, files, fates, runtime, Jobs,
     NoJob, Swaps, Kinds
<1>7. ASSUME NEW t \in Tasks, OpenTarget(t) PROVE job' \in [Tasks -> Jobs]
  <2> DEFINE r == [job[t] EXCEPT !.knows = text[job[t].target]]
  <2>1. text[job[t].target] \in Texts
    BY <1>a, <1>7, RunningIs, NamesAssumption DEF OpenTarget, Locals, Counts, Files, Swaps
  <2>8. job' = [job EXCEPT ![t] = r]
    BY <1>a, <1>7 DEF OpenTarget
  <2>9. r \in Jobs
    BY <1>a, <2>1 DEF Jobs
  <2> HIDE DEF r
  <2> QED
    BY <1>a, <2>8, <2>9
<1>8. ASSUME NEW t \in Tasks, HookCancels(t) PROVE job' \in [Tasks -> Jobs]
  BY <1>a, <1>8 DEF HookCancels, Goes, HookReturns, files, fates, runtime, Jobs, NoJob, Swaps, Kinds
<1>9. ASSUME NEW t \in Tasks, Create(t) PROVE job' \in [Tasks -> Jobs]
  <2> DEFINE content == IF job[t].kind = "new" THEN <<"first">> ELSE text[harness[inst].file]
  <2> DEFINE r == [job[t] EXCEPT !.target = FreshName, !.contended = FALSE, !.knows = content]
  <2>1. FreshName \in Files
    BY <1>9, Room DEF Create, HookReturns, Making, Files
  <2>2. content \in Texts
    BY <1>a, <1>b, <1>9, RunningIs DEF Create, HookReturns, Locals, Locked, Files, Counts
  <2>3. Publish(t, content)
    BY <1>9 DEF Create
  <2> HIDE DEF content
  <2>8. job' = [job EXCEPT ![t] = r]
    BY <1>a, <2>3 DEF Publish
  <2>9. r \in Jobs
    BY <1>a, <2>1, <2>2 DEF Jobs
  <2> HIDE DEF r
  <2> QED
    BY <1>a, <2>8, <2>9
<1>10. ASSUME NEW t \in Tasks, LockNew(t) PROVE job' \in [Tasks -> Jobs]
  BY <1>a, <1>10 DEF LockNew, Goes, Unusable, Held, Taken, files, fates, runtime, Jobs, NoJob, Swaps, Kinds
<1>11. ASSUME NEW t \in Tasks, SwitchUncontended(t) PROVE job' \in [Tasks -> Jobs]
  BY <1>a, <1>11 DEF SwitchUncontended, Goes, HookReturns, files, fates, runtime, Jobs, NoJob, Swaps, Kinds
<1>12. ASSUME NEW t \in Tasks, AnswerReadOnly(t) PROVE job' \in [Tasks -> Jobs]
  BY ZenonT(60), <1>a, <1>12 DEF AnswerReadOnly, Goes, files, fates, runtime, Jobs, NoJob, Swaps, Kinds
<1>13. ASSUME NEW t \in Tasks, AnswerFork(t) PROVE job' \in [Tasks -> Jobs]
  <2> DEFINE content == text[job[t].target]
  <2> DEFINE r == [job[t] EXCEPT !.target = FreshName, !.contended = FALSE, !.knows = content]
  <2>1. FreshName \in Files
    BY <1>13, Room DEF AnswerFork, HookReturns, Making, Files
  <2>2. content \in Texts
    BY <1>a, <1>b, <1>13, RunningIs DEF AnswerFork, HookReturns, Locals, Locked, Files, Counts
  <2>3. Publish(t, content)
    BY <1>13 DEF AnswerFork
  <2> HIDE DEF content
  <2>8. job' = [job EXCEPT ![t] = r]
    BY <1>a, <2>3 DEF Publish
  <2>9. r \in Jobs
    BY <1>a, <2>1, <2>2 DEF Jobs
  <2> HIDE DEF r
  <2> QED
    BY <1>a, <2>8, <2>9
<1>14. ASSUME NEW t \in Tasks, AnswerCancel(t) PROVE job' \in [Tasks -> Jobs]
  BY <1>a, <1>14 DEF AnswerCancel, Goes, files, fates, runtime, Jobs, NoJob, Swaps, Kinds
<1>15. ASSUME NEW t \in Tasks, Copy(t) PROVE job' \in [Tasks -> Jobs]
  BY <1>a, <1>15 DEF Copy, Goes, files, fates, runtime, Jobs, NoJob, Swaps, Kinds
<1>16. ASSUME NEW t \in Tasks, OpenCopy(t) PROVE job' \in [Tasks -> Jobs]
  <2> DEFINE r == [job[t] EXCEPT !.knows = text[job[t].target]]
  <2>1. text[job[t].target] \in Texts
    BY <1>a, <1>16, RunningIs, NamesAssumption DEF OpenCopy, Locals, Counts, Files, Swaps
  <2>8. job' = [job EXCEPT ![t] = r]
    BY <1>a, <1>16 DEF OpenCopy
  <2>9. r \in Jobs
    BY <1>a, <2>1 DEF Jobs
  <2> HIDE DEF r
  <2> QED
    BY <1>a, <2>8, <2>9
<1>17. ASSUME NEW t \in Tasks, GiveBackFirst(t) PROVE job' \in [Tasks -> Jobs]
  BY <1>a, <1>17 DEF GiveBackFirst, Goes, Emptied, Waiting, files, fates, runtime, Jobs, NoJob, Swaps, Kinds
<1>18. ASSUME NEW t \in Tasks, FirstGiven(t) PROVE job' \in [Tasks -> Jobs]
  BY <1>a, <1>18 DEF FirstGiven, Goes, files, fates, runtime, Jobs, NoJob, Swaps, Kinds
<1>19. ASSUME NEW t \in Tasks, Teardown(t) PROVE job' \in [Tasks -> Jobs]
  BY <1>a, <1>19 DEF Teardown, Goes, Disposed, AbortClears, files, fates, runtime, Jobs, NoJob, Swaps, Kinds
<1>20. ASSUME NEW t \in Tasks, TornDown(t) PROVE job' \in [Tasks -> Jobs]
  BY <1>a, <1>20 DEF TornDown, Goes, Emptied, Waiting, files, fates, runtime, Jobs, NoJob, Swaps, Kinds
<1>21. ASSUME NEW t \in Tasks, SecondGiven(t) PROVE job' \in [Tasks -> Jobs]
  BY <1>a, <1>21 DEF SecondGiven, Goes, files, fates, runtime, Jobs, NoJob, Swaps, Kinds
<1>22. ASSUME NEW t \in Tasks, Install(t) PROVE job' \in [Tasks -> Jobs]
  BY <1>a, <1>22 DEF Install, Goes, Blank, files, fates, runtime, Jobs, NoJob, Swaps, Kinds
<1>23. ASSUME NEW t \in Tasks, Reload(t) PROVE job' \in [Tasks -> Jobs]
  BY <1>a, <1>23 DEF Reload, Goes, Rebuild, Carried, Blank, files, fates, runtime, Jobs, NoJob, Swaps, Kinds
<1>24. ASSUME NEW t \in Tasks, BuildFails(t) PROVE job' \in [Tasks -> Jobs]
  BY <1>a, <1>24 DEF BuildFails, Goes, files, fates, runtime, Jobs, NoJob, Swaps, Kinds
<1>25. ASSUME NEW t \in Tasks, Restore(t) PROVE job' \in [Tasks -> Jobs]
  BY <1>a, <1>25 DEF Restore, Goes, Rebuild, Carried, Blank, files, fates, runtime, Jobs, NoJob, Swaps, Kinds
<1>26. ASSUME NEW t \in Tasks, Kept(t) PROVE job' \in [Tasks -> Jobs]
  BY <1>a, <1>26 DEF Kept, Goes, files, fates, runtime, Jobs, NoJob, Swaps, Kinds
<1>27. ASSUME NEW t \in Tasks, Rebind(t) PROVE job' \in [Tasks -> Jobs]
  <2> DEFINE r == [NoJob EXCEPT !.kind = job[t].kind]
  <2>1. job' = [job EXCEPT ![t] = r]
    BY <1>27 DEF Rebind
  <2>2. r \in Jobs
    <3>1. job[t].kind \in Kinds \cup {None} /\ 0 \in Harnesses
      BY <1>a, NamesAssumption, FS_CardinalityType DEF Jobs, Harnesses
    <3> QED
      BY <1>b, <3>1 DEF Jobs, NoJob
  <2> HIDE DEF r
  <2> QED
    BY <1>a, <2>1, <2>2
<1>28. ASSUME NEW t \in Tasks, Raises(t) PROVE job' \in [Tasks -> Jobs]
  BY <1>a, <1>28 DEF Raises, Goes, files, fates, runtime, Jobs, NoJob, Swaps, Kinds
<1>29. ASSUME NEW t \in Tasks, RestoreFails(t) PROVE job' \in [Tasks -> Jobs]
  BY ZenonT(60), <1>a, <1>29 DEF RestoreFails, Goes, Stops, files, fates, runtime, Jobs, NoJob, Swaps, Kinds
<1>30. ASSUME NEW t \in Tasks, Discard(t) PROVE job' \in [Tasks -> Jobs]
  BY <1>a, <1>30 DEF Discard, Goes, files, fates, runtime, Jobs, NoJob, Swaps, Kinds
<1>31. ASSUME NEW t \in Tasks, Drop(t) PROVE job' \in [Tasks -> Jobs]
  <2> DEFINE r == [NoJob EXCEPT !.kind = job[t].kind]
  <2>1. job' = [job EXCEPT ![t] = r]
    BY <1>31 DEF Drop
  <2>2. r \in Jobs
    <3>1. job[t].kind \in Kinds \cup {None} /\ 0 \in Harnesses
      BY <1>a, NamesAssumption, FS_CardinalityType DEF Jobs, Harnesses
    <3> QED
      BY <1>b, <3>1 DEF Jobs, NoJob
  <2> HIDE DEF r
  <2> QED
    BY <1>a, <2>1, <2>2
<1>32. ASSUME NEW t \in Tasks, CancelWaiting(t) PROVE job' \in [Tasks -> Jobs]
  BY <1>a, <1>32 DEF CancelWaiting, Goes, files, fates, runtime, Jobs, NoJob, Swaps, Kinds
<1>33. ASSUME NEW t \in Tasks, Cancel(t) PROVE job' \in [Tasks -> Jobs]
  BY <1>a, <1>33 DEF Cancel, Goes, files, fates, runtime, Jobs, NoJob, Swaps, Kinds
<1>34. ASSUME NEW t \in Tasks, CancelStops(t) PROVE job' \in [Tasks -> Jobs]
  BY ZenonT(60), <1>a, <1>34 DEF CancelStops, Goes, Stops, files, fates, runtime, Jobs, NoJob, Swaps, Kinds
<1>35. ASSUME Quit PROVE job' \in [Tasks -> Jobs]
  BY <1>a, <1>35 DEF Quit, files, fates, runtime, Jobs, NoJob, Swaps, Kinds
<1>36. ASSUME QuitDispose PROVE job' \in [Tasks -> Jobs]
  BY <1>a, <1>36 DEF QuitDispose, Disposed, AbortClears, files, fates, runtime, Jobs, NoJob, Swaps, Kinds
<1>37. ASSUME QuitReleases PROVE job' \in [Tasks -> Jobs]
  BY <1>a, <1>37 DEF QuitReleases, files, fates, runtime, Jobs, NoJob, Swaps, Kinds
<1>38. ASSUME NEW h \in {inst, surf}, NEW l \in Lines, Prompt(h, l) PROVE job' \in [Tasks -> Jobs]
  BY <1>a, <1>38 DEF Prompt, Suspended, files, fates, runtime, Jobs, NoJob, Swaps, Kinds
<1>39. ASSUME NEW h \in {inst, surf}, NEW l \in Lines, Steer(h, l) PROVE job' \in [Tasks -> Jobs]
  BY <1>a, <1>39 DEF Steer, Suspended, files, fates, runtime, Jobs, NoJob, Swaps, Kinds
<1>40. ASSUME Esc PROVE job' \in [Tasks -> Jobs]
  BY <1>a, <1>40 DEF Esc, Suspended, files, fates, runtime, Jobs, NoJob, Swaps, Kinds
<1>41. ASSUME NEW h \in Harnesses, TurnEnds(h) PROVE job' \in [Tasks -> Jobs]
  BY <1>a, <1>41 DEF TurnEnds, Suspended, files, fates, runtime, Jobs, NoJob, Swaps, Kinds
<1>42. ASSUME NEW h \in Harnesses, NEW l \in Lines, Commit(h, l) PROVE job' \in [Tasks -> Jobs]
  BY <1>a, <1>42 DEF Commit, Suspended, files, fates, runtime, Jobs, NoJob, Swaps, Kinds
<1>43. ASSUME NEW f \in Files, OtherTakes(f) PROVE job' \in [Tasks -> Jobs]
  BY <1>a, <1>43 DEF OtherTakes, files, fates, runtime, Jobs, NoJob, Swaps, Kinds
<1>44. ASSUME NEW f \in Files, OtherWrites(f) PROVE job' \in [Tasks -> Jobs]
  BY <1>a, <1>44 DEF OtherWrites, files, fates, runtime, Jobs, NoJob, Swaps, Kinds
<1>45. ASSUME NEW f \in Files, OtherLeaves(f) PROVE job' \in [Tasks -> Jobs]
  BY <1>a, <1>45 DEF OtherLeaves, files, fates, runtime, Jobs, NoJob, Swaps, Kinds
<1> QED
  BY <1>1, <1>2, <1>3, <1>4, <1>5, <1>6, <1>7, <1>8, <1>9, <1>10, <1>11, <1>12, <1>13, <1>14, <1>15, <1>16,
     <1>17, <1>18, <1>19, <1>20, <1>21, <1>22, <1>23, <1>24, <1>25, <1>26, <1>27, <1>28, <1>29, <1>30, <1>31,
     <1>32, <1>33, <1>34, <1>35, <1>36, <1>37, <1>38, <1>39, <1>40, <1>41, <1>42, <1>43, <1>44, <1>45 DEF Next,
     Swap, Interrupt, Send, Turn, Other

\* ... the harnesses too ...
LEMMA SessionsKept ==
  ASSUME Typed, Alone, Locals, Locked, Counts, Next
  PROVE  harness' \in [Harnesses -> Sessions]
<1> DEFINE Goal == harness' \in [Harnesses -> Sessions]
<1>a. /\ pc \in [Tasks -> {"wait"} \cup Asked \cup Blocking \cup Ended] /\ job \in [Tasks -> Jobs]
      /\ text \in [Files -> Texts] /\ harness \in [Harnesses -> Sessions]
      /\ inst \in Harnesses /\ surf \in Harnesses
  BY DEF Typed, TypeOK, Texts
<1>b. <<>> \in Texts /\ <<"level">> \in Texts /\ <<"first">> \in Texts /\ <<"copied">> \in Texts
      /\ \A l \in Lines : <<l>> \in Texts
  BY DEF Texts
<1>c. \A q, r \in Texts : q \o r \in Texts
  BY ConcatProperties DEF Texts
<1>1. ASSUME NEW t \in Tasks, NEW k \in Kinds, NEW p \in Tasks \cup {None}, Request(t, k, p) PROVE Goal
  BY <1>a, <1>1 DEF Request, Goes, Nested, files, fates, runtime, Sessions
<1>2. ASSUME NEW t \in Tasks, Start(t) PROVE Goal
  BY <1>a, <1>2 DEF Start, Goes, files, fates, runtime, Sessions
<1>3. ASSUME NEW t \in Tasks, Settle(t) PROVE Goal
  BY <1>a, <1>3 DEF Settle, Goes, Settled, files, fates, runtime, Sessions
<1>4. ASSUME NEW t \in Tasks, SettleReload(t) PROVE Goal
  BY <1>a, <1>4 DEF SettleReload, Goes, Settled, files, fates, runtime, Sessions
<1>5. ASSUME NEW t \in Tasks, NEW f \in Files, TakeTarget(t, f) PROVE Goal
  BY <1>a, <1>5 DEF TakeTarget, Goes, Settled, Unusable, Held, Taken, files, fates, runtime, Sessions
<1>6. ASSUME NEW t \in Tasks, NEW f \in Files, TakeDestination(t, f) PROVE Goal
  BY <1>a, <1>6 DEF TakeDestination, Goes, HookReturns, Unusable, Held, Taken, files, fates, runtime, Sessions
<1>7. ASSUME NEW t \in Tasks, OpenTarget(t) PROVE Goal
  BY <1>a, <1>7 DEF OpenTarget, Goes, files, fates, runtime, Sessions
<1>8. ASSUME NEW t \in Tasks, HookCancels(t) PROVE Goal
  BY <1>a, <1>8 DEF HookCancels, Goes, HookReturns, files, fates, runtime, Sessions
<1>9. ASSUME NEW t \in Tasks, Create(t) PROVE Goal
  BY <1>a, <1>9 DEF Create, Goes, HookReturns, Publish, files, fates, runtime, Sessions
<1>10. ASSUME NEW t \in Tasks, LockNew(t) PROVE Goal
  BY <1>a, <1>10 DEF LockNew, Goes, Unusable, Held, Taken, files, fates, runtime, Sessions
<1>11. ASSUME NEW t \in Tasks, SwitchUncontended(t) PROVE Goal
  BY <1>a, <1>11 DEF SwitchUncontended, Goes, HookReturns, files, fates, runtime, Sessions
<1>12. ASSUME NEW t \in Tasks, AnswerReadOnly(t) PROVE Goal
  BY <1>a, <1>12 DEF AnswerReadOnly, Goes, files, fates, runtime, Sessions
<1>13. ASSUME NEW t \in Tasks, AnswerFork(t) PROVE Goal
  BY <1>a, <1>13 DEF AnswerFork, Goes, Publish, files, fates, runtime, Sessions
<1>14. ASSUME NEW t \in Tasks, AnswerCancel(t) PROVE Goal
  BY <1>a, <1>14 DEF AnswerCancel, Goes, files, fates, runtime, Sessions
<1>15. ASSUME NEW t \in Tasks, Copy(t) PROVE Goal
  BY <1>a, <1>15 DEF Copy, Goes, files, fates, runtime, Sessions
<1>16. ASSUME NEW t \in Tasks, OpenCopy(t) PROVE Goal
  BY <1>a, <1>16 DEF OpenCopy, Goes, files, fates, runtime, Sessions
<1>17. ASSUME NEW t \in Tasks, GiveBackFirst(t) PROVE Goal
  <2> DEFINE r == [harness[inst] EXCEPT !.queue = {}, !.next = {}]
  <2>1. harness' = [harness EXCEPT ![inst] = r]
    BY <1>a, <1>17 DEF GiveBackFirst, Emptied
  <2>2. r \in Sessions
    BY <1>a DEF Sessions
  <2> HIDE DEF r
  <2> QED
    BY <1>a, <2>1, <2>2
<1>18. ASSUME NEW t \in Tasks, FirstGiven(t) PROVE Goal
  BY <1>a, <1>18 DEF FirstGiven, Goes, files, fates, runtime, Sessions
<1>19. ASSUME NEW t \in Tasks, Teardown(t) PROVE Goal
  <2>1. [harness[inst] EXCEPT !.disposed = TRUE] \in Sessions
    BY <1>a DEF Sessions
  <2>2. [harness[inst] EXCEPT !.disposed = TRUE, !.turn = "cut", !.queue = {}] \in Sessions
    BY <1>a DEF Sessions
  <2>3. harness' = Disposed(inst)
    BY <1>19 DEF Teardown
  <2>4. \/ harness' = [harness EXCEPT ![inst] = [harness[inst] EXCEPT !.disposed = TRUE]]
        \/ harness' = [harness EXCEPT ![inst] = [harness[inst] EXCEPT !.disposed = TRUE, !.turn = "cut", !.queue = {}]]
    BY <1>a, <2>3 DEF Disposed
  <2> QED
    BY <1>a, <2>1, <2>2, <2>4
<1>20. ASSUME NEW t \in Tasks, TornDown(t) PROVE Goal
  BY <1>a, <1>20 DEF TornDown, Goes, Emptied, Waiting, files, fates, runtime, Sessions
<1>21. ASSUME NEW t \in Tasks, SecondGiven(t) PROVE Goal
  BY <1>a, <1>21 DEF SecondGiven, Goes, files, fates, runtime, Sessions
<1>22. ASSUME NEW t \in Tasks, Install(t) PROVE Goal
  <2> DEFINE r == [Blank EXCEPT !.file = job[t].target, !.knows = job[t].knows, !.ro = job[t].ro]
  <2>1. harness' = [harness EXCEPT ![built + 1] = r]
    BY <1>22 DEF Install
  <2>2. job[t].target \in Files \cup {None} /\ job[t].knows \in Texts /\ job[t].ro \in BOOLEAN
    BY <1>a DEF Jobs
  <2>3. r \in Sessions
    BY <1>b, <2>2 DEF Sessions, Blank
  <2> HIDE DEF r
  <2> QED
    BY <1>a, <2>1, <2>3
<1>23. ASSUME NEW t \in Tasks, Reload(t) PROVE Goal
  <2> DEFINE old == job[t].old
             e == [harness[old] EXCEPT !.queue = {}, !.next = {}]
             r == Carried(old, [Blank EXCEPT !.file = harness[old].file, !.knows = harness[old].knows, !.ro = harness[old].ro])
  <2>1. old \in Harnesses
    BY <1>a DEF Jobs
  <2>2. built + 1 \in Harnesses
    BY <1>23, Room DEF Reload, Spent
  <2>3. harness[old] \in Sessions
    BY <1>a, <2>1
  <2>4. r \in Sessions
    BY <1>b, <2>3 DEF Sessions, Carried, Blank
  <2>5. e \in Sessions
    BY <2>3 DEF Sessions
  <2>6. harness' = [harness EXCEPT ![built + 1] = r, ![old].queue = {}, ![old].next = {}]
    BY <1>23 DEF Reload, Rebuild
  <2>7. old # built + 1 => harness' = [harness EXCEPT ![built + 1] = r, ![old] = e]
    BY <1>a, <2>1, <2>2, <2>6
  <2>8. old = built + 1 => harness' = [harness EXCEPT ![built + 1] = [r EXCEPT !.queue = {}, !.next = {}]]
    BY <1>a, <2>1, <2>2, <2>6
  <2>9. [r EXCEPT !.queue = {}, !.next = {}] \in Sessions
    BY <2>4 DEF Sessions
  <2> HIDE DEF old, e, r
  <2> QED
    BY <1>a, <2>4, <2>5, <2>7, <2>8, <2>9
<1>24. ASSUME NEW t \in Tasks, BuildFails(t) PROVE Goal
  BY <1>a, <1>24 DEF BuildFails, Goes, files, fates, runtime, Sessions
<1>25. ASSUME NEW t \in Tasks, Restore(t) PROVE Goal
  <2> DEFINE old == job[t].old
             e == [harness[old] EXCEPT !.queue = {}, !.next = {}]
             r == Carried(old, [Blank EXCEPT !.file = harness[old].file, !.knows = harness[old].knows, !.ro = harness[old].ro])
  <2>1. old \in Harnesses
    BY <1>a DEF Jobs
  <2>2. built + 1 \in Harnesses
    BY <1>25, Room DEF Restore, Spent
  <2>3. harness[old] \in Sessions
    BY <1>a, <2>1
  <2>4. r \in Sessions
    BY <1>b, <2>3 DEF Sessions, Carried, Blank
  <2>5. e \in Sessions
    BY <2>3 DEF Sessions
  <2>6. harness' = [harness EXCEPT ![built + 1] = r, ![old].queue = {}, ![old].next = {}]
    BY <1>25 DEF Restore, Rebuild
  <2>7. old # built + 1 => harness' = [harness EXCEPT ![built + 1] = r, ![old] = e]
    BY <1>a, <2>1, <2>2, <2>6
  <2>8. old = built + 1 => harness' = [harness EXCEPT ![built + 1] = [r EXCEPT !.queue = {}, !.next = {}]]
    BY <1>a, <2>1, <2>2, <2>6
  <2>9. [r EXCEPT !.queue = {}, !.next = {}] \in Sessions
    BY <2>4 DEF Sessions
  <2> HIDE DEF old, e, r
  <2> QED
    BY <1>a, <2>4, <2>5, <2>7, <2>8, <2>9
<1>26. ASSUME NEW t \in Tasks, Kept(t) PROVE Goal
  BY <1>a, <1>26 DEF Kept, Goes, files, fates, runtime, Sessions
<1>27. ASSUME NEW t \in Tasks, Rebind(t) PROVE Goal
  <2>1. PICK level \in {<<>>, <<"level">>} : harness' = [harness EXCEPT ![inst].knows = harness[inst].knows \o level]
    BY <1>b, <1>27 DEF Rebind
  <2>2. harness[inst].knows \o level \in Texts
    BY <1>a, <1>b, <1>c, <2>1 DEF Sessions
  <2> DEFINE r == [harness[inst] EXCEPT !.knows = harness[inst].knows \o level]
  <2>3. harness' = [harness EXCEPT ![inst] = r]
    BY <1>a, <2>1
  <2>4. r \in Sessions
    BY <1>a, <2>2 DEF Sessions
  <2> HIDE DEF r
  <2> QED
    BY <1>a, <2>3, <2>4
<1>28. ASSUME NEW t \in Tasks, Raises(t) PROVE Goal
  BY <1>a, <1>28 DEF Raises, Goes, files, fates, runtime, Sessions
<1>29. ASSUME NEW t \in Tasks, RestoreFails(t) PROVE Goal
  <2>1. \A h \in Harnesses : [harness[h] EXCEPT !.disposed = TRUE, !.held = TRUE] \in Sessions
    BY <1>a DEF Sessions
  <2>2. \E S : harness' = [h \in Harnesses |-> IF h \in S THEN [harness[h] EXCEPT !.disposed = TRUE, !.held = TRUE]
                                              ELSE harness[h]]
    BY ZenonT(60), <1>29 DEF RestoreFails, Stops
  <2> QED
    BY ZenonT(60), <1>a, <2>1, <2>2
<1>30. ASSUME NEW t \in Tasks, Discard(t) PROVE Goal
  BY <1>a, <1>30 DEF Discard, Goes, files, fates, runtime, Sessions
<1>31. ASSUME NEW t \in Tasks, Drop(t) PROVE Goal
  BY <1>a, <1>31 DEF Drop, Goes, NoJob, files, fates, runtime, Sessions
<1>32. ASSUME NEW t \in Tasks, CancelWaiting(t) PROVE Goal
  BY <1>a, <1>32 DEF CancelWaiting, Goes, files, fates, runtime, Sessions
<1>33. ASSUME NEW t \in Tasks, Cancel(t) PROVE Goal
  BY <1>a, <1>33 DEF Cancel, Goes, files, fates, runtime, Sessions
<1>34. ASSUME NEW t \in Tasks, CancelStops(t) PROVE Goal
  <2>1. \A h \in Harnesses : [harness[h] EXCEPT !.disposed = TRUE, !.held = TRUE] \in Sessions
    BY <1>a DEF Sessions
  <2>2. \E S : harness' = [h \in Harnesses |-> IF h \in S THEN [harness[h] EXCEPT !.disposed = TRUE, !.held = TRUE]
                                              ELSE harness[h]]
    BY ZenonT(60), <1>34 DEF CancelStops, Stops
  <2> QED
    BY ZenonT(60), <1>a, <2>1, <2>2
<1>35. ASSUME Quit PROVE Goal
  BY <1>a, <1>35 DEF Quit, files, fates, runtime, Sessions
<1>36. ASSUME QuitDispose PROVE Goal
  <2>1. [harness[inst] EXCEPT !.disposed = TRUE] \in Sessions
    BY <1>a DEF Sessions
  <2>2. [harness[inst] EXCEPT !.disposed = TRUE, !.turn = "cut", !.queue = {}] \in Sessions
    BY <1>a DEF Sessions
  <2>3. harness' = Disposed(inst)
    BY <1>36 DEF QuitDispose
  <2>4. \/ harness' = [harness EXCEPT ![inst] = [harness[inst] EXCEPT !.disposed = TRUE]]
        \/ harness' = [harness EXCEPT ![inst] = [harness[inst] EXCEPT !.disposed = TRUE, !.turn = "cut", !.queue = {}]]
    BY <1>a, <2>3 DEF Disposed
  <2> QED
    BY <1>a, <2>1, <2>2, <2>4
<1>37. ASSUME QuitReleases PROVE Goal
  BY <1>a, <1>37 DEF QuitReleases, files, fates, runtime, Sessions
<1>38. ASSUME NEW h \in {inst, surf}, NEW l \in Lines, Prompt(h, l) PROVE Goal
  <2> DEFINE r == [harness[h] EXCEPT !.turn = "run", !.late = FALSE, !.run = {l} \cup harness[h].next, !.next = {}]
  <2>1. harness' = [harness EXCEPT ![h] = r]
    BY <1>a, <1>38 DEF Prompt
  <2>2. r \in Sessions
    BY ZenonT(60), <1>a DEF Sessions
  <2> HIDE DEF r
  <2> QED
    BY <1>a, <2>1, <2>2
<1>39. ASSUME NEW h \in {inst, surf}, NEW l \in Lines, Steer(h, l) PROVE Goal
  BY <1>a, <1>39 DEF Steer, Suspended, files, fates, runtime, Sessions
<1>40. ASSUME Esc PROVE Goal
  <2> DEFINE late == lifecycle # None /\ pc[lifecycle] # "settle"
             r == [harness[surf] EXCEPT !.turn = "esc", !.queue = {}, !.late = late]
  <2>1. harness' = [harness EXCEPT ![surf] = r]
    BY <1>a, <1>40 DEF Esc
  <2>2. late \in BOOLEAN
    OBVIOUS
  <2> HIDE DEF late
  <2>3. r \in Sessions
    BY <1>a, <2>2 DEF Sessions
  <2> HIDE DEF r
  <2> QED
    BY <1>a, <2>1, <2>3
<1>41. ASSUME NEW h \in Harnesses, TurnEnds(h) PROVE Goal
  <2> DEFINE back == IF harness[h].turn = "cut" THEN harness[h].next \cup harness[h].run ELSE harness[h].next
             r == [harness[h] EXCEPT !.turn = "idle", !.late = FALSE, !.run = {}, !.next = back]
  <2>1. harness' = [harness EXCEPT ![h] = r]
    BY <1>a, <1>41 DEF TurnEnds
  <2>2. back \in SUBSET Lines
    BY <1>a DEF Sessions
  <2> HIDE DEF back
  <2>3. r \in Sessions
    BY <1>a, <2>2 DEF Sessions
  <2> HIDE DEF r
  <2> QED
    BY <1>a, <2>1, <2>3
<1>42. ASSUME NEW h \in Harnesses, NEW l \in Lines, Commit(h, l) PROVE Goal
  <2> DEFINE line == IF harness[h].ro THEN <<>> ELSE <<l>>
             r == [harness[h] EXCEPT !.run = harness[h].run \ {l}, !.queue = harness[h].queue \ {l},
                                     !.knows = harness[h].knows \o line]
  <2>1. harness' = [harness EXCEPT ![h] = r]
    BY <1>a, <1>42 DEF Commit
  <2>2. line \in Texts /\ harness[h].knows \in Texts
    BY <1>a, <1>b DEF Sessions
  <2>3. harness[h].knows \o line \in Texts
    BY <1>c, <2>2
  <2> HIDE DEF line
  <2>4. r \in Sessions
    BY <1>a, <2>3 DEF Sessions
  <2> HIDE DEF r
  <2> QED
    BY <1>a, <2>1, <2>4
<1>43. ASSUME NEW f \in Files, OtherTakes(f) PROVE Goal
  BY <1>a, <1>43 DEF OtherTakes, files, fates, runtime, Sessions
<1>44. ASSUME NEW f \in Files, OtherWrites(f) PROVE Goal
  BY <1>a, <1>44 DEF OtherWrites, files, fates, runtime, Sessions
<1>45. ASSUME NEW f \in Files, OtherLeaves(f) PROVE Goal
  BY <1>a, <1>45 DEF OtherLeaves, files, fates, runtime, Sessions
<1> QED
  BY <1>1, <1>2, <1>3, <1>4, <1>5, <1>6, <1>7, <1>8, <1>9, <1>10, <1>11, <1>12, <1>13, <1>14, <1>15, <1>16,
     <1>17, <1>18, <1>19, <1>20, <1>21, <1>22, <1>23, <1>24, <1>25, <1>26, <1>27, <1>28, <1>29, <1>30, <1>31,
     <1>32, <1>33, <1>34, <1>35, <1>36, <1>37, <1>38, <1>39, <1>40, <1>41, <1>42, <1>43, <1>44, <1>45 DEF Next,
     Swap, Interrupt, Send, Turn, Other

\* ... the history is chosen once ...
LEMMA ScopeStays ==
  ASSUME Next
  PROVE  scope' = scope
<1>1. ASSUME NEW t \in Tasks, NEW k \in Kinds, NEW p \in Tasks \cup {None}, Request(t, k, p) PROVE scope' = scope
  BY <1>1 DEF Request, Goes, Nested, files, fates, runtime, Rebuild
<1>2. ASSUME NEW t \in Tasks, Start(t) PROVE scope' = scope
  BY <1>2 DEF Start, Goes, files, fates, runtime, Rebuild
<1>3. ASSUME NEW t \in Tasks, Settle(t) PROVE scope' = scope
  BY <1>3 DEF Settle, Goes, Settled, files, fates, runtime, Rebuild
<1>4. ASSUME NEW t \in Tasks, SettleReload(t) PROVE scope' = scope
  BY <1>4 DEF SettleReload, Goes, Settled, files, fates, runtime, Rebuild
<1>5. ASSUME NEW t \in Tasks, NEW f \in Files, TakeTarget(t, f) PROVE scope' = scope
  BY <1>5 DEF TakeTarget, Goes, Settled, Unusable, Held, Taken, files, fates, runtime, Rebuild
<1>6. ASSUME NEW t \in Tasks, NEW f \in Files, TakeDestination(t, f) PROVE scope' = scope
  BY <1>6 DEF TakeDestination, Goes, HookReturns, Unusable, Held, Taken, files, fates, runtime, Rebuild
<1>7. ASSUME NEW t \in Tasks, OpenTarget(t) PROVE scope' = scope
  BY <1>7 DEF OpenTarget, Goes, files, fates, runtime, Rebuild
<1>8. ASSUME NEW t \in Tasks, HookCancels(t) PROVE scope' = scope
  BY <1>8 DEF HookCancels, Goes, HookReturns, files, fates, runtime, Rebuild
<1>9. ASSUME NEW t \in Tasks, Create(t) PROVE scope' = scope
  BY <1>9 DEF Create, Goes, HookReturns, Publish, files, fates, runtime, Rebuild
<1>10. ASSUME NEW t \in Tasks, LockNew(t) PROVE scope' = scope
  BY <1>10 DEF LockNew, Goes, Unusable, Held, Taken, files, fates, runtime, Rebuild
<1>11. ASSUME NEW t \in Tasks, SwitchUncontended(t) PROVE scope' = scope
  BY <1>11 DEF SwitchUncontended, Goes, HookReturns, files, fates, runtime, Rebuild
<1>12. ASSUME NEW t \in Tasks, AnswerReadOnly(t) PROVE scope' = scope
  BY <1>12 DEF AnswerReadOnly, Goes, files, fates, runtime, Rebuild
<1>13. ASSUME NEW t \in Tasks, AnswerFork(t) PROVE scope' = scope
  BY <1>13 DEF AnswerFork, Goes, Publish, files, fates, runtime, Rebuild
<1>14. ASSUME NEW t \in Tasks, AnswerCancel(t) PROVE scope' = scope
  BY <1>14 DEF AnswerCancel, Goes, files, fates, runtime, Rebuild
<1>15. ASSUME NEW t \in Tasks, Copy(t) PROVE scope' = scope
  BY <1>15 DEF Copy, Goes, files, fates, runtime, Rebuild
<1>16. ASSUME NEW t \in Tasks, OpenCopy(t) PROVE scope' = scope
  BY <1>16 DEF OpenCopy, Goes, files, fates, runtime, Rebuild
<1>17. ASSUME NEW t \in Tasks, GiveBackFirst(t) PROVE scope' = scope
  BY <1>17 DEF GiveBackFirst, Goes, Emptied, Waiting, files, fates, runtime, Rebuild
<1>18. ASSUME NEW t \in Tasks, FirstGiven(t) PROVE scope' = scope
  BY <1>18 DEF FirstGiven, Goes, files, fates, runtime, Rebuild
<1>19. ASSUME NEW t \in Tasks, Teardown(t) PROVE scope' = scope
  BY <1>19 DEF Teardown, Goes, Disposed, AbortClears, files, fates, runtime, Rebuild
<1>20. ASSUME NEW t \in Tasks, TornDown(t) PROVE scope' = scope
  BY <1>20 DEF TornDown, Goes, Emptied, Waiting, files, fates, runtime, Rebuild
<1>21. ASSUME NEW t \in Tasks, SecondGiven(t) PROVE scope' = scope
  BY <1>21 DEF SecondGiven, Goes, files, fates, runtime, Rebuild
<1>22. ASSUME NEW t \in Tasks, Install(t) PROVE scope' = scope
  BY <1>22 DEF Install, Goes, Blank, files, fates, runtime, Rebuild
<1>23. ASSUME NEW t \in Tasks, Reload(t) PROVE scope' = scope
  BY <1>23 DEF Reload, Goes, Rebuild, Carried, Blank, files, fates, runtime, Rebuild
<1>24. ASSUME NEW t \in Tasks, BuildFails(t) PROVE scope' = scope
  BY <1>24 DEF BuildFails, Goes, files, fates, runtime, Rebuild
<1>25. ASSUME NEW t \in Tasks, Restore(t) PROVE scope' = scope
  BY <1>25 DEF Restore, Goes, Rebuild, Carried, Blank, files, fates, runtime, Rebuild
<1>26. ASSUME NEW t \in Tasks, Kept(t) PROVE scope' = scope
  BY <1>26 DEF Kept, Goes, files, fates, runtime, Rebuild
<1>27. ASSUME NEW t \in Tasks, Rebind(t) PROVE scope' = scope
  BY <1>27 DEF Rebind, Goes, NoJob, files, fates, runtime, Rebuild
<1>28. ASSUME NEW t \in Tasks, Raises(t) PROVE scope' = scope
  BY <1>28 DEF Raises, Goes, files, fates, runtime, Rebuild
<1>29. ASSUME NEW t \in Tasks, RestoreFails(t) PROVE scope' = scope
  BY ZenonT(60), <1>29 DEF RestoreFails, Goes, Stops, files, fates, runtime, Rebuild
<1>30. ASSUME NEW t \in Tasks, Discard(t) PROVE scope' = scope
  BY <1>30 DEF Discard, Goes, files, fates, runtime, Rebuild
<1>31. ASSUME NEW t \in Tasks, Drop(t) PROVE scope' = scope
  BY <1>31 DEF Drop, Goes, NoJob, files, fates, runtime, Rebuild
<1>32. ASSUME NEW t \in Tasks, CancelWaiting(t) PROVE scope' = scope
  BY <1>32 DEF CancelWaiting, Goes, files, fates, runtime, Rebuild
<1>33. ASSUME NEW t \in Tasks, Cancel(t) PROVE scope' = scope
  BY <1>33 DEF Cancel, Goes, files, fates, runtime, Rebuild
<1>34. ASSUME NEW t \in Tasks, CancelStops(t) PROVE scope' = scope
  BY ZenonT(60), <1>34 DEF CancelStops, Goes, Stops, files, fates, runtime, Rebuild
<1>35. ASSUME Quit PROVE scope' = scope
  BY <1>35 DEF Quit, files, fates, runtime, Rebuild
<1>36. ASSUME QuitDispose PROVE scope' = scope
  BY <1>36 DEF QuitDispose, Disposed, AbortClears, files, fates, runtime, Rebuild
<1>37. ASSUME QuitReleases PROVE scope' = scope
  BY <1>37 DEF QuitReleases, files, fates, runtime, Rebuild
<1>38. ASSUME NEW h \in {inst, surf}, NEW l \in Lines, Prompt(h, l) PROVE scope' = scope
  BY <1>38 DEF Prompt, Suspended, files, fates, runtime, Rebuild
<1>39. ASSUME NEW h \in {inst, surf}, NEW l \in Lines, Steer(h, l) PROVE scope' = scope
  BY <1>39 DEF Steer, Suspended, files, fates, runtime, Rebuild
<1>40. ASSUME Esc PROVE scope' = scope
  BY <1>40 DEF Esc, Suspended, files, fates, runtime, Rebuild
<1>41. ASSUME NEW h \in Harnesses, TurnEnds(h) PROVE scope' = scope
  BY <1>41 DEF TurnEnds, Suspended, files, fates, runtime, Rebuild
<1>42. ASSUME NEW h \in Harnesses, NEW l \in Lines, Commit(h, l) PROVE scope' = scope
  BY <1>42 DEF Commit, Suspended, files, fates, runtime, Rebuild
<1>43. ASSUME NEW f \in Files, OtherTakes(f) PROVE scope' = scope
  BY <1>43 DEF OtherTakes, files, fates, runtime, Rebuild
<1>44. ASSUME NEW f \in Files, OtherWrites(f) PROVE scope' = scope
  BY <1>44 DEF OtherWrites, files, fates, runtime, Rebuild
<1>45. ASSUME NEW f \in Files, OtherLeaves(f) PROVE scope' = scope
  BY <1>45 DEF OtherLeaves, files, fates, runtime, Rebuild
<1> QED
  BY <1>1, <1>2, <1>3, <1>4, <1>5, <1>6, <1>7, <1>8, <1>9, <1>10, <1>11, <1>12, <1>13, <1>14, <1>15, <1>16,
     <1>17, <1>18, <1>19, <1>20, <1>21, <1>22, <1>23, <1>24, <1>25, <1>26, <1>27, <1>28, <1>29, <1>30, <1>31,
     <1>32, <1>33, <1>34, <1>35, <1>36, <1>37, <1>38, <1>39, <1>40, <1>41, <1>42, <1>43, <1>44, <1>45 DEF Next,
     Swap, Interrupt, Send, Turn, Other

\* ... and so do the owners of the locks,
LEMMA OwnersKept ==
  ASSUME Typed, Alone, Locals, Locked, Filed, Counts, Next
  PROVE  owner' \in [Files -> {"us", "other", None}]
<1> DEFINE Goal == owner' \in [Files -> {"us", "other", None}]
<1>a. /\ pc \in [Tasks -> {"wait"} \cup Asked \cup Blocking \cup Ended] /\ job \in [Tasks -> Jobs]
      /\ text \in [Files -> Texts] /\ harness \in [Harnesses -> Sessions] /\ owner \in [Files -> {"us", "other", None}]
      /\ inst \in Harnesses /\ surf \in Harnesses /\ built \in Harnesses /\ surf \in Nat /\ inst = built /\ surf <= inst
      /\ lifecycle \in Tasks \cup {None} /\ adopted \in Files \cup {None}
  BY DEF Typed, TypeOK, Texts, Harnesses
<1>b. /\ \A h \in Harnesses : harness[h].run \in SUBSET Lines /\ harness[h].queue \in SUBSET Lines /\ harness[h].next \in SUBSET Lines
      /\ \A t \in Tasks : job[t].target \in Files \cup {None} /\ job[t].lock \in Files \cup {None} /\ job[t].made \in Files \cup {None}
  BY <1>a DEF Sessions, Jobs
<1>n. \A t \in Tasks : (pc[t] \notin Making => FreshName \in New \ named) /\ (pc[t] \notin Spent => built + 1 \in Harnesses)
  BY Room
<1>o. /\ stopped \in BOOLEAN /\ unbound \in BOOLEAN /\ quit \in {"no", "shut", "dispose", "gone"}
      /\ accepted \cup said \cup returned \cup cleared \in SUBSET Lines
      /\ named \cup everLive \cup everOther \in SUBSET Files
  BY DEF Typed, TypeOK
<1>1. ASSUME NEW t \in Tasks, NEW k \in Kinds, NEW p \in Tasks \cup {None}, Request(t, k, p) PROVE Goal
  BY <1>a, <1>b, <1>n, <1>o, <1>1 DEF Request, Goes, Nested, files, fates, runtime
<1>2. ASSUME NEW t \in Tasks, Start(t) PROVE Goal
  BY <1>a, <1>b, <1>n, <1>o, <1>2 DEF Start, Goes, files, fates, runtime
<1>3. ASSUME NEW t \in Tasks, Settle(t) PROVE Goal
  BY <1>a, <1>b, <1>n, <1>o, <1>3 DEF Settle, Goes, Settled, files, fates, runtime
<1>4. ASSUME NEW t \in Tasks, SettleReload(t) PROVE Goal
  BY <1>a, <1>b, <1>n, <1>o, <1>4 DEF SettleReload, Goes, Settled, files, fates, runtime
<1>5. ASSUME NEW t \in Tasks, NEW f \in Files, TakeTarget(t, f) PROVE Goal
  BY <1>a, <1>b, <1>n, <1>o, <1>5 DEF TakeTarget, Goes, Settled, Unusable, Held, Taken, files, fates, runtime
<1>6. ASSUME NEW t \in Tasks, NEW f \in Files, TakeDestination(t, f) PROVE Goal
  BY <1>a, <1>b, <1>n, <1>o, <1>6 DEF TakeDestination, Goes, HookReturns, Unusable, Held, Taken, files, fates,
     runtime
<1>7. ASSUME NEW t \in Tasks, OpenTarget(t) PROVE Goal
  BY <1>a, <1>b, <1>n, <1>o, <1>7 DEF OpenTarget, Goes, files, fates, runtime
<1>8. ASSUME NEW t \in Tasks, HookCancels(t) PROVE Goal
  BY <1>a, <1>b, <1>n, <1>o, <1>8 DEF HookCancels, Goes, HookReturns, files, fates, runtime
<1>9. ASSUME NEW t \in Tasks, Create(t) PROVE Goal
  BY <1>a, <1>b, <1>n, <1>o, <1>9 DEF Create, Goes, HookReturns, Publish, files, fates, runtime
<1>10. ASSUME NEW t \in Tasks, LockNew(t) PROVE Goal
  BY <1>a, <1>b, <1>n, <1>o, <1>10 DEF LockNew, Goes, Unusable, Held, Taken, files, fates, runtime
<1>11. ASSUME NEW t \in Tasks, SwitchUncontended(t) PROVE Goal
  BY <1>a, <1>b, <1>n, <1>o, <1>11 DEF SwitchUncontended, Goes, HookReturns, files, fates, runtime
<1>12. ASSUME NEW t \in Tasks, AnswerReadOnly(t) PROVE Goal
  BY <1>a, <1>b, <1>n, <1>o, <1>12 DEF AnswerReadOnly, Goes, files, fates, runtime
<1>13. ASSUME NEW t \in Tasks, AnswerFork(t) PROVE Goal
  BY <1>a, <1>b, <1>n, <1>o, <1>13 DEF AnswerFork, Goes, Publish, files, fates, runtime
<1>14. ASSUME NEW t \in Tasks, AnswerCancel(t) PROVE Goal
  BY <1>a, <1>b, <1>n, <1>o, <1>14 DEF AnswerCancel, Goes, files, fates, runtime
<1>15. ASSUME NEW t \in Tasks, Copy(t) PROVE Goal
  BY <1>a, <1>b, <1>n, <1>o, <1>15 DEF Copy, Goes, files, fates, runtime
<1>16. ASSUME NEW t \in Tasks, OpenCopy(t) PROVE Goal
  BY <1>a, <1>b, <1>n, <1>o, <1>16 DEF OpenCopy, Goes, files, fates, runtime
<1>17. ASSUME NEW t \in Tasks, GiveBackFirst(t) PROVE Goal
  BY <1>a, <1>b, <1>n, <1>o, <1>17 DEF GiveBackFirst, Goes, Emptied, Waiting, files, fates, runtime
<1>18. ASSUME NEW t \in Tasks, FirstGiven(t) PROVE Goal
  BY <1>a, <1>b, <1>n, <1>o, <1>18 DEF FirstGiven, Goes, files, fates, runtime
<1>19. ASSUME NEW t \in Tasks, Teardown(t) PROVE Goal
  BY <1>a, <1>b, <1>n, <1>o, <1>19 DEF Teardown, Goes, Disposed, AbortClears, files, fates, runtime
<1>20. ASSUME NEW t \in Tasks, TornDown(t) PROVE Goal
  BY <1>a, <1>b, <1>n, <1>o, <1>20 DEF TornDown, Goes, Emptied, Waiting, files, fates, runtime
<1>21. ASSUME NEW t \in Tasks, SecondGiven(t) PROVE Goal
  BY <1>a, <1>b, <1>n, <1>o, <1>21 DEF SecondGiven, Goes, files, fates, runtime
<1>22. ASSUME NEW t \in Tasks, Install(t) PROVE Goal
  BY <1>a, <1>b, <1>n, <1>o, <1>22 DEF Install, Goes, Blank, files, fates, runtime
<1>23. ASSUME NEW t \in Tasks, Reload(t) PROVE Goal
  BY <1>a, <1>b, <1>n, <1>o, <1>23 DEF Reload, Goes, Rebuild, Carried, Blank, files, fates, runtime
<1>24. ASSUME NEW t \in Tasks, BuildFails(t) PROVE Goal
  BY <1>a, <1>b, <1>n, <1>o, <1>24 DEF BuildFails, Goes, files, fates, runtime
<1>25. ASSUME NEW t \in Tasks, Restore(t) PROVE Goal
  BY <1>a, <1>b, <1>n, <1>o, <1>25 DEF Restore, Goes, Rebuild, Carried, Blank, files, fates, runtime
<1>26. ASSUME NEW t \in Tasks, Kept(t) PROVE Goal
  BY <1>a, <1>b, <1>n, <1>o, <1>26 DEF Kept, Goes, files, fates, runtime
<1>27. ASSUME NEW t \in Tasks, Rebind(t) PROVE Goal
  BY <1>a, <1>b, <1>n, <1>o, <1>27 DEF Rebind, Goes, NoJob, files, fates, runtime
<1>28. ASSUME NEW t \in Tasks, Raises(t) PROVE Goal
  BY <1>a, <1>b, <1>n, <1>o, <1>28 DEF Raises, Goes, files, fates, runtime
<1>29. ASSUME NEW t \in Tasks, RestoreFails(t) PROVE Goal
  BY ZenonT(60), <1>a, <1>b, <1>n, <1>o, <1>29 DEF RestoreFails, Goes, Stops, files, fates, runtime
<1>30. ASSUME NEW t \in Tasks, Discard(t) PROVE Goal
  BY <1>a, <1>b, <1>n, <1>o, <1>30 DEF Discard, Goes, files, fates, runtime
<1>31. ASSUME NEW t \in Tasks, Drop(t) PROVE Goal
  BY <1>a, <1>b, <1>n, <1>o, <1>31 DEF Drop, Goes, NoJob, files, fates, runtime
<1>32. ASSUME NEW t \in Tasks, CancelWaiting(t) PROVE Goal
  BY <1>a, <1>b, <1>n, <1>o, <1>32 DEF CancelWaiting, Goes, files, fates, runtime
<1>33. ASSUME NEW t \in Tasks, Cancel(t) PROVE Goal
  BY <1>a, <1>b, <1>n, <1>o, <1>33 DEF Cancel, Goes, files, fates, runtime
<1>34. ASSUME NEW t \in Tasks, CancelStops(t) PROVE Goal
  BY ZenonT(60), <1>a, <1>b, <1>n, <1>o, <1>34 DEF CancelStops, Goes, Stops, files, fates, runtime
<1>35. ASSUME Quit PROVE Goal
  BY <1>a, <1>b, <1>n, <1>o, <1>35 DEF Quit, files, fates, runtime
<1>36. ASSUME QuitDispose PROVE Goal
  BY <1>a, <1>b, <1>n, <1>o, <1>36 DEF QuitDispose, Disposed, AbortClears, files, fates, runtime
<1>37. ASSUME QuitReleases PROVE Goal
  BY <1>a, <1>b, <1>n, <1>o, <1>37 DEF QuitReleases, files, fates, runtime
<1>38. ASSUME NEW h \in {inst, surf}, NEW l \in Lines, Prompt(h, l) PROVE Goal
  BY <1>a, <1>b, <1>n, <1>o, <1>38 DEF Prompt, Suspended, files, fates, runtime
<1>39. ASSUME NEW h \in {inst, surf}, NEW l \in Lines, Steer(h, l) PROVE Goal
  BY <1>a, <1>b, <1>n, <1>o, <1>39 DEF Steer, Suspended, files, fates, runtime
<1>40. ASSUME Esc PROVE Goal
  BY <1>a, <1>b, <1>n, <1>o, <1>40 DEF Esc, Suspended, files, fates, runtime
<1>41. ASSUME NEW h \in Harnesses, TurnEnds(h) PROVE Goal
  BY <1>a, <1>b, <1>n, <1>o, <1>41 DEF TurnEnds, Suspended, files, fates, runtime
<1>42. ASSUME NEW h \in Harnesses, NEW l \in Lines, Commit(h, l) PROVE Goal
  BY <1>a, <1>b, <1>n, <1>o, <1>42 DEF Commit, Suspended, files, fates, runtime
<1>43. ASSUME NEW f \in Files, OtherTakes(f) PROVE Goal
  BY <1>a, <1>b, <1>n, <1>o, <1>43 DEF OtherTakes, files, fates, runtime
<1>44. ASSUME NEW f \in Files, OtherWrites(f) PROVE Goal
  BY <1>a, <1>b, <1>n, <1>o, <1>44 DEF OtherWrites, files, fates, runtime
<1>45. ASSUME NEW f \in Files, OtherLeaves(f) PROVE Goal
  BY <1>a, <1>b, <1>n, <1>o, <1>45 DEF OtherLeaves, files, fates, runtime
<1> QED
  BY <1>1, <1>2, <1>3, <1>4, <1>5, <1>6, <1>7, <1>8, <1>9, <1>10, <1>11, <1>12, <1>13, <1>14, <1>15, <1>16,
     <1>17, <1>18, <1>19, <1>20, <1>21, <1>22, <1>23, <1>24, <1>25, <1>26, <1>27, <1>28, <1>29, <1>30, <1>31,
     <1>32, <1>33, <1>34, <1>35, <1>36, <1>37, <1>38, <1>39, <1>40, <1>41, <1>42, <1>43, <1>44, <1>45 DEF Next,
     Swap, Interrupt, Send, Turn, Other

\* the numbers of the harnesses,
LEMMA NumbersKept ==
  ASSUME Typed, Alone, Locals, Locked, Filed, Counts, Next
  PROVE  inst' \in Harnesses /\ surf' \in Harnesses /\ built' \in Harnesses /\ surf' <= inst' /\ inst' = built'
<1> DEFINE Goal == inst' \in Harnesses /\ surf' \in Harnesses /\ built' \in Harnesses /\ surf' <= inst' /\ inst' = built'
<1>a. /\ pc \in [Tasks -> {"wait"} \cup Asked \cup Blocking \cup Ended] /\ job \in [Tasks -> Jobs]
      /\ text \in [Files -> Texts] /\ harness \in [Harnesses -> Sessions] /\ owner \in [Files -> {"us", "other", None}]
      /\ inst \in Harnesses /\ surf \in Harnesses /\ built \in Harnesses /\ surf \in Nat /\ inst = built /\ surf <= inst
      /\ lifecycle \in Tasks \cup {None} /\ adopted \in Files \cup {None}
  BY DEF Typed, TypeOK, Texts, Harnesses
<1>b. /\ \A h \in Harnesses : harness[h].run \in SUBSET Lines /\ harness[h].queue \in SUBSET Lines /\ harness[h].next \in SUBSET Lines
      /\ \A t \in Tasks : job[t].target \in Files \cup {None} /\ job[t].lock \in Files \cup {None} /\ job[t].made \in Files \cup {None}
  BY <1>a DEF Sessions, Jobs
<1>n. \A t \in Tasks : (pc[t] \notin Making => FreshName \in New \ named) /\ (pc[t] \notin Spent => built + 1 \in Harnesses)
  BY Room
<1>o. /\ stopped \in BOOLEAN /\ unbound \in BOOLEAN /\ quit \in {"no", "shut", "dispose", "gone"}
      /\ accepted \cup said \cup returned \cup cleared \in SUBSET Lines
      /\ named \cup everLive \cup everOther \in SUBSET Files
  BY DEF Typed, TypeOK
<1>1. ASSUME NEW t \in Tasks, NEW k \in Kinds, NEW p \in Tasks \cup {None}, Request(t, k, p) PROVE Goal
  BY <1>a, <1>b, <1>n, <1>o, <1>1 DEF Request, Goes, Nested, files, fates, runtime, Harnesses, Spent
<1>2. ASSUME NEW t \in Tasks, Start(t) PROVE Goal
  BY <1>a, <1>b, <1>n, <1>o, <1>2 DEF Start, Goes, files, fates, runtime, Harnesses, Spent
<1>3. ASSUME NEW t \in Tasks, Settle(t) PROVE Goal
  BY <1>a, <1>b, <1>n, <1>o, <1>3 DEF Settle, Goes, Settled, files, fates, runtime, Harnesses, Spent
<1>4. ASSUME NEW t \in Tasks, SettleReload(t) PROVE Goal
  BY <1>a, <1>b, <1>n, <1>o, <1>4 DEF SettleReload, Goes, Settled, files, fates, runtime, Harnesses, Spent
<1>5. ASSUME NEW t \in Tasks, NEW f \in Files, TakeTarget(t, f) PROVE Goal
  BY <1>a, <1>b, <1>n, <1>o, <1>5 DEF TakeTarget, Goes, Settled, Unusable, Held, Taken, files, fates, runtime,
     Harnesses, Spent
<1>6. ASSUME NEW t \in Tasks, NEW f \in Files, TakeDestination(t, f) PROVE Goal
  BY <1>a, <1>b, <1>n, <1>o, <1>6 DEF TakeDestination, Goes, HookReturns, Unusable, Held, Taken, files, fates,
     runtime, Harnesses, Spent
<1>7. ASSUME NEW t \in Tasks, OpenTarget(t) PROVE Goal
  BY <1>a, <1>b, <1>n, <1>o, <1>7 DEF OpenTarget, Goes, files, fates, runtime, Harnesses, Spent
<1>8. ASSUME NEW t \in Tasks, HookCancels(t) PROVE Goal
  BY <1>a, <1>b, <1>n, <1>o, <1>8 DEF HookCancels, Goes, HookReturns, files, fates, runtime, Harnesses, Spent
<1>9. ASSUME NEW t \in Tasks, Create(t) PROVE Goal
  BY <1>a, <1>b, <1>n, <1>o, <1>9 DEF Create, Goes, HookReturns, Publish, files, fates, runtime, Harnesses, Spent
<1>10. ASSUME NEW t \in Tasks, LockNew(t) PROVE Goal
  BY <1>a, <1>b, <1>n, <1>o, <1>10 DEF LockNew, Goes, Unusable, Held, Taken, files, fates, runtime, Harnesses, Spent
<1>11. ASSUME NEW t \in Tasks, SwitchUncontended(t) PROVE Goal
  BY <1>a, <1>b, <1>n, <1>o, <1>11 DEF SwitchUncontended, Goes, HookReturns, files, fates, runtime, Harnesses, Spent
<1>12. ASSUME NEW t \in Tasks, AnswerReadOnly(t) PROVE Goal
  BY <1>a, <1>b, <1>n, <1>o, <1>12 DEF AnswerReadOnly, Goes, files, fates, runtime, Harnesses, Spent
<1>13. ASSUME NEW t \in Tasks, AnswerFork(t) PROVE Goal
  BY <1>a, <1>b, <1>n, <1>o, <1>13 DEF AnswerFork, Goes, Publish, files, fates, runtime, Harnesses, Spent
<1>14. ASSUME NEW t \in Tasks, AnswerCancel(t) PROVE Goal
  BY <1>a, <1>b, <1>n, <1>o, <1>14 DEF AnswerCancel, Goes, files, fates, runtime, Harnesses, Spent
<1>15. ASSUME NEW t \in Tasks, Copy(t) PROVE Goal
  BY <1>a, <1>b, <1>n, <1>o, <1>15 DEF Copy, Goes, files, fates, runtime, Harnesses, Spent
<1>16. ASSUME NEW t \in Tasks, OpenCopy(t) PROVE Goal
  BY <1>a, <1>b, <1>n, <1>o, <1>16 DEF OpenCopy, Goes, files, fates, runtime, Harnesses, Spent
<1>17. ASSUME NEW t \in Tasks, GiveBackFirst(t) PROVE Goal
  BY <1>a, <1>b, <1>n, <1>o, <1>17 DEF GiveBackFirst, Goes, Emptied, Waiting, files, fates, runtime, Harnesses,
     Spent
<1>18. ASSUME NEW t \in Tasks, FirstGiven(t) PROVE Goal
  BY <1>a, <1>b, <1>n, <1>o, <1>18 DEF FirstGiven, Goes, files, fates, runtime, Harnesses, Spent
<1>19. ASSUME NEW t \in Tasks, Teardown(t) PROVE Goal
  BY <1>a, <1>b, <1>n, <1>o, <1>19 DEF Teardown, Goes, Disposed, AbortClears, files, fates, runtime, Harnesses,
     Spent
<1>20. ASSUME NEW t \in Tasks, TornDown(t) PROVE Goal
  BY <1>a, <1>b, <1>n, <1>o, <1>20 DEF TornDown, Goes, Emptied, Waiting, files, fates, runtime, Harnesses, Spent
<1>21. ASSUME NEW t \in Tasks, SecondGiven(t) PROVE Goal
  BY <1>a, <1>b, <1>n, <1>o, <1>21 DEF SecondGiven, Goes, files, fates, runtime, Harnesses, Spent
<1>22. ASSUME NEW t \in Tasks, Install(t) PROVE Goal
  BY <1>a, <1>b, <1>n, <1>o, <1>22 DEF Install, Goes, Blank, files, fates, runtime, Harnesses, Spent
<1>23. ASSUME NEW t \in Tasks, Reload(t) PROVE Goal
  BY <1>a, <1>b, <1>n, <1>o, <1>23 DEF Reload, Goes, Rebuild, Carried, Blank, files, fates, runtime, Harnesses,
     Spent
<1>24. ASSUME NEW t \in Tasks, BuildFails(t) PROVE Goal
  BY <1>a, <1>b, <1>n, <1>o, <1>24 DEF BuildFails, Goes, files, fates, runtime, Harnesses, Spent
<1>25. ASSUME NEW t \in Tasks, Restore(t) PROVE Goal
  BY <1>a, <1>b, <1>n, <1>o, <1>25 DEF Restore, Goes, Rebuild, Carried, Blank, files, fates, runtime, Harnesses,
     Spent
<1>26. ASSUME NEW t \in Tasks, Kept(t) PROVE Goal
  BY <1>a, <1>b, <1>n, <1>o, <1>26 DEF Kept, Goes, files, fates, runtime, Harnesses, Spent
<1>27. ASSUME NEW t \in Tasks, Rebind(t) PROVE Goal
  BY <1>a, <1>b, <1>n, <1>o, <1>27 DEF Rebind, Goes, NoJob, files, fates, runtime, Harnesses, Spent
<1>28. ASSUME NEW t \in Tasks, Raises(t) PROVE Goal
  BY <1>a, <1>b, <1>n, <1>o, <1>28 DEF Raises, Goes, files, fates, runtime, Harnesses, Spent
<1>29. ASSUME NEW t \in Tasks, RestoreFails(t) PROVE Goal
  BY ZenonT(60), <1>a, <1>b, <1>n, <1>o, <1>29 DEF RestoreFails, Goes, Stops, files, fates, runtime, Harnesses,
     Spent
<1>30. ASSUME NEW t \in Tasks, Discard(t) PROVE Goal
  BY <1>a, <1>b, <1>n, <1>o, <1>30 DEF Discard, Goes, files, fates, runtime, Harnesses, Spent
<1>31. ASSUME NEW t \in Tasks, Drop(t) PROVE Goal
  BY <1>a, <1>b, <1>n, <1>o, <1>31 DEF Drop, Goes, NoJob, files, fates, runtime, Harnesses, Spent
<1>32. ASSUME NEW t \in Tasks, CancelWaiting(t) PROVE Goal
  BY <1>a, <1>b, <1>n, <1>o, <1>32 DEF CancelWaiting, Goes, files, fates, runtime, Harnesses, Spent
<1>33. ASSUME NEW t \in Tasks, Cancel(t) PROVE Goal
  BY <1>a, <1>b, <1>n, <1>o, <1>33 DEF Cancel, Goes, files, fates, runtime, Harnesses, Spent
<1>34. ASSUME NEW t \in Tasks, CancelStops(t) PROVE Goal
  BY ZenonT(60), <1>a, <1>b, <1>n, <1>o, <1>34 DEF CancelStops, Goes, Stops, files, fates, runtime, Harnesses, Spent
<1>35. ASSUME Quit PROVE Goal
  BY <1>a, <1>b, <1>n, <1>o, <1>35 DEF Quit, files, fates, runtime, Harnesses, Spent
<1>36. ASSUME QuitDispose PROVE Goal
  BY <1>a, <1>b, <1>n, <1>o, <1>36 DEF QuitDispose, Disposed, AbortClears, files, fates, runtime, Harnesses, Spent
<1>37. ASSUME QuitReleases PROVE Goal
  BY <1>a, <1>b, <1>n, <1>o, <1>37 DEF QuitReleases, files, fates, runtime, Harnesses, Spent
<1>38. ASSUME NEW h \in {inst, surf}, NEW l \in Lines, Prompt(h, l) PROVE Goal
  BY <1>a, <1>b, <1>n, <1>o, <1>38 DEF Prompt, Suspended, files, fates, runtime, Harnesses, Spent
<1>39. ASSUME NEW h \in {inst, surf}, NEW l \in Lines, Steer(h, l) PROVE Goal
  BY <1>a, <1>b, <1>n, <1>o, <1>39 DEF Steer, Suspended, files, fates, runtime, Harnesses, Spent
<1>40. ASSUME Esc PROVE Goal
  BY <1>a, <1>b, <1>n, <1>o, <1>40 DEF Esc, Suspended, files, fates, runtime, Harnesses, Spent
<1>41. ASSUME NEW h \in Harnesses, TurnEnds(h) PROVE Goal
  BY <1>a, <1>b, <1>n, <1>o, <1>41 DEF TurnEnds, Suspended, files, fates, runtime, Harnesses, Spent
<1>42. ASSUME NEW h \in Harnesses, NEW l \in Lines, Commit(h, l) PROVE Goal
  BY <1>a, <1>b, <1>n, <1>o, <1>42 DEF Commit, Suspended, files, fates, runtime, Harnesses, Spent
<1>43. ASSUME NEW f \in Files, OtherTakes(f) PROVE Goal
  BY <1>a, <1>b, <1>n, <1>o, <1>43 DEF OtherTakes, files, fates, runtime, Harnesses, Spent
<1>44. ASSUME NEW f \in Files, OtherWrites(f) PROVE Goal
  BY <1>a, <1>b, <1>n, <1>o, <1>44 DEF OtherWrites, files, fates, runtime, Harnesses, Spent
<1>45. ASSUME NEW f \in Files, OtherLeaves(f) PROVE Goal
  BY <1>a, <1>b, <1>n, <1>o, <1>45 DEF OtherLeaves, files, fates, runtime, Harnesses, Spent
<1> QED
  BY <1>1, <1>2, <1>3, <1>4, <1>5, <1>6, <1>7, <1>8, <1>9, <1>10, <1>11, <1>12, <1>13, <1>14, <1>15, <1>16,
     <1>17, <1>18, <1>19, <1>20, <1>21, <1>22, <1>23, <1>24, <1>25, <1>26, <1>27, <1>28, <1>29, <1>30, <1>31,
     <1>32, <1>33, <1>34, <1>35, <1>36, <1>37, <1>38, <1>39, <1>40, <1>41, <1>42, <1>43, <1>44, <1>45 DEF Next,
     Swap, Interrupt, Send, Turn, Other

\* the adopted lock and the flags of the runtime,
LEMMA FlagsKept ==
  ASSUME Typed, Alone, Locals, Locked, Filed, Counts, Next
  PROVE  adopted' \in Files \cup {None} /\ stopped' \in BOOLEAN /\ unbound' \in BOOLEAN /\ quit' \in {"no", "shut", "dispose", "gone"}
<1> DEFINE Goal == adopted' \in Files \cup {None} /\ stopped' \in BOOLEAN /\ unbound' \in BOOLEAN /\ quit' \in {"no", "shut", "dispose", "gone"}
<1>a. /\ pc \in [Tasks -> {"wait"} \cup Asked \cup Blocking \cup Ended] /\ job \in [Tasks -> Jobs]
      /\ text \in [Files -> Texts] /\ harness \in [Harnesses -> Sessions] /\ owner \in [Files -> {"us", "other", None}]
      /\ inst \in Harnesses /\ surf \in Harnesses /\ built \in Harnesses /\ surf \in Nat /\ inst = built /\ surf <= inst
      /\ lifecycle \in Tasks \cup {None} /\ adopted \in Files \cup {None}
  BY DEF Typed, TypeOK, Texts, Harnesses
<1>b. /\ \A h \in Harnesses : harness[h].run \in SUBSET Lines /\ harness[h].queue \in SUBSET Lines /\ harness[h].next \in SUBSET Lines
      /\ \A t \in Tasks : job[t].target \in Files \cup {None} /\ job[t].lock \in Files \cup {None} /\ job[t].made \in Files \cup {None}
  BY <1>a DEF Sessions, Jobs
<1>n. \A t \in Tasks : (pc[t] \notin Making => FreshName \in New \ named) /\ (pc[t] \notin Spent => built + 1 \in Harnesses)
  BY Room
<1>o. /\ stopped \in BOOLEAN /\ unbound \in BOOLEAN /\ quit \in {"no", "shut", "dispose", "gone"}
      /\ accepted \cup said \cup returned \cup cleared \in SUBSET Lines
      /\ named \cup everLive \cup everOther \in SUBSET Files
  BY DEF Typed, TypeOK
<1>1. ASSUME NEW t \in Tasks, NEW k \in Kinds, NEW p \in Tasks \cup {None}, Request(t, k, p) PROVE Goal
  BY <1>a, <1>b, <1>n, <1>o, <1>1 DEF Request, Goes, Nested, files, fates, runtime
<1>2. ASSUME NEW t \in Tasks, Start(t) PROVE Goal
  BY <1>a, <1>b, <1>n, <1>o, <1>2 DEF Start, Goes, files, fates, runtime
<1>3. ASSUME NEW t \in Tasks, Settle(t) PROVE Goal
  BY <1>a, <1>b, <1>n, <1>o, <1>3 DEF Settle, Goes, Settled, files, fates, runtime
<1>4. ASSUME NEW t \in Tasks, SettleReload(t) PROVE Goal
  BY <1>a, <1>b, <1>n, <1>o, <1>4 DEF SettleReload, Goes, Settled, files, fates, runtime
<1>5. ASSUME NEW t \in Tasks, NEW f \in Files, TakeTarget(t, f) PROVE Goal
  BY <1>a, <1>b, <1>n, <1>o, <1>5 DEF TakeTarget, Goes, Settled, Unusable, Held, Taken, files, fates, runtime
<1>6. ASSUME NEW t \in Tasks, NEW f \in Files, TakeDestination(t, f) PROVE Goal
  BY <1>a, <1>b, <1>n, <1>o, <1>6 DEF TakeDestination, Goes, HookReturns, Unusable, Held, Taken, files, fates,
     runtime
<1>7. ASSUME NEW t \in Tasks, OpenTarget(t) PROVE Goal
  BY <1>a, <1>b, <1>n, <1>o, <1>7 DEF OpenTarget, Goes, files, fates, runtime
<1>8. ASSUME NEW t \in Tasks, HookCancels(t) PROVE Goal
  BY <1>a, <1>b, <1>n, <1>o, <1>8 DEF HookCancels, Goes, HookReturns, files, fates, runtime
<1>9. ASSUME NEW t \in Tasks, Create(t) PROVE Goal
  BY <1>a, <1>b, <1>n, <1>o, <1>9 DEF Create, Goes, HookReturns, Publish, files, fates, runtime
<1>10. ASSUME NEW t \in Tasks, LockNew(t) PROVE Goal
  BY <1>a, <1>b, <1>n, <1>o, <1>10 DEF LockNew, Goes, Unusable, Held, Taken, files, fates, runtime
<1>11. ASSUME NEW t \in Tasks, SwitchUncontended(t) PROVE Goal
  BY <1>a, <1>b, <1>n, <1>o, <1>11 DEF SwitchUncontended, Goes, HookReturns, files, fates, runtime
<1>12. ASSUME NEW t \in Tasks, AnswerReadOnly(t) PROVE Goal
  BY <1>a, <1>b, <1>n, <1>o, <1>12 DEF AnswerReadOnly, Goes, files, fates, runtime
<1>13. ASSUME NEW t \in Tasks, AnswerFork(t) PROVE Goal
  BY <1>a, <1>b, <1>n, <1>o, <1>13 DEF AnswerFork, Goes, Publish, files, fates, runtime
<1>14. ASSUME NEW t \in Tasks, AnswerCancel(t) PROVE Goal
  BY <1>a, <1>b, <1>n, <1>o, <1>14 DEF AnswerCancel, Goes, files, fates, runtime
<1>15. ASSUME NEW t \in Tasks, Copy(t) PROVE Goal
  BY <1>a, <1>b, <1>n, <1>o, <1>15 DEF Copy, Goes, files, fates, runtime
<1>16. ASSUME NEW t \in Tasks, OpenCopy(t) PROVE Goal
  BY <1>a, <1>b, <1>n, <1>o, <1>16 DEF OpenCopy, Goes, files, fates, runtime
<1>17. ASSUME NEW t \in Tasks, GiveBackFirst(t) PROVE Goal
  BY <1>a, <1>b, <1>n, <1>o, <1>17 DEF GiveBackFirst, Goes, Emptied, Waiting, files, fates, runtime
<1>18. ASSUME NEW t \in Tasks, FirstGiven(t) PROVE Goal
  BY <1>a, <1>b, <1>n, <1>o, <1>18 DEF FirstGiven, Goes, files, fates, runtime
<1>19. ASSUME NEW t \in Tasks, Teardown(t) PROVE Goal
  BY <1>a, <1>b, <1>n, <1>o, <1>19 DEF Teardown, Goes, Disposed, AbortClears, files, fates, runtime
<1>20. ASSUME NEW t \in Tasks, TornDown(t) PROVE Goal
  BY <1>a, <1>b, <1>n, <1>o, <1>20 DEF TornDown, Goes, Emptied, Waiting, files, fates, runtime
<1>21. ASSUME NEW t \in Tasks, SecondGiven(t) PROVE Goal
  BY <1>a, <1>b, <1>n, <1>o, <1>21 DEF SecondGiven, Goes, files, fates, runtime
<1>22. ASSUME NEW t \in Tasks, Install(t) PROVE Goal
  BY <1>a, <1>b, <1>n, <1>o, <1>22 DEF Install, Goes, Blank, files, fates, runtime
<1>23. ASSUME NEW t \in Tasks, Reload(t) PROVE Goal
  BY <1>a, <1>b, <1>n, <1>o, <1>23 DEF Reload, Goes, Rebuild, Carried, Blank, files, fates, runtime
<1>24. ASSUME NEW t \in Tasks, BuildFails(t) PROVE Goal
  BY <1>a, <1>b, <1>n, <1>o, <1>24 DEF BuildFails, Goes, files, fates, runtime
<1>25. ASSUME NEW t \in Tasks, Restore(t) PROVE Goal
  BY <1>a, <1>b, <1>n, <1>o, <1>25 DEF Restore, Goes, Rebuild, Carried, Blank, files, fates, runtime
<1>26. ASSUME NEW t \in Tasks, Kept(t) PROVE Goal
  BY <1>a, <1>b, <1>n, <1>o, <1>26 DEF Kept, Goes, files, fates, runtime
<1>27. ASSUME NEW t \in Tasks, Rebind(t) PROVE Goal
  BY <1>a, <1>b, <1>n, <1>o, <1>27 DEF Rebind, Goes, NoJob, files, fates, runtime
<1>28. ASSUME NEW t \in Tasks, Raises(t) PROVE Goal
  BY <1>a, <1>b, <1>n, <1>o, <1>28 DEF Raises, Goes, files, fates, runtime
<1>29. ASSUME NEW t \in Tasks, RestoreFails(t) PROVE Goal
  BY ZenonT(60), <1>a, <1>b, <1>n, <1>o, <1>29 DEF RestoreFails, Goes, Stops, files, fates, runtime
<1>30. ASSUME NEW t \in Tasks, Discard(t) PROVE Goal
  BY <1>a, <1>b, <1>n, <1>o, <1>30 DEF Discard, Goes, files, fates, runtime
<1>31. ASSUME NEW t \in Tasks, Drop(t) PROVE Goal
  BY <1>a, <1>b, <1>n, <1>o, <1>31 DEF Drop, Goes, NoJob, files, fates, runtime
<1>32. ASSUME NEW t \in Tasks, CancelWaiting(t) PROVE Goal
  BY <1>a, <1>b, <1>n, <1>o, <1>32 DEF CancelWaiting, Goes, files, fates, runtime
<1>33. ASSUME NEW t \in Tasks, Cancel(t) PROVE Goal
  BY <1>a, <1>b, <1>n, <1>o, <1>33 DEF Cancel, Goes, files, fates, runtime
<1>34. ASSUME NEW t \in Tasks, CancelStops(t) PROVE Goal
  BY ZenonT(60), <1>a, <1>b, <1>n, <1>o, <1>34 DEF CancelStops, Goes, Stops, files, fates, runtime
<1>35. ASSUME Quit PROVE Goal
  BY <1>a, <1>b, <1>n, <1>o, <1>35 DEF Quit, files, fates, runtime
<1>36. ASSUME QuitDispose PROVE Goal
  BY <1>a, <1>b, <1>n, <1>o, <1>36 DEF QuitDispose, Disposed, AbortClears, files, fates, runtime
<1>37. ASSUME QuitReleases PROVE Goal
  BY <1>a, <1>b, <1>n, <1>o, <1>37 DEF QuitReleases, files, fates, runtime
<1>38. ASSUME NEW h \in {inst, surf}, NEW l \in Lines, Prompt(h, l) PROVE Goal
  BY <1>a, <1>b, <1>n, <1>o, <1>38 DEF Prompt, Suspended, files, fates, runtime
<1>39. ASSUME NEW h \in {inst, surf}, NEW l \in Lines, Steer(h, l) PROVE Goal
  BY <1>a, <1>b, <1>n, <1>o, <1>39 DEF Steer, Suspended, files, fates, runtime
<1>40. ASSUME Esc PROVE Goal
  BY <1>a, <1>b, <1>n, <1>o, <1>40 DEF Esc, Suspended, files, fates, runtime
<1>41. ASSUME NEW h \in Harnesses, TurnEnds(h) PROVE Goal
  BY <1>a, <1>b, <1>n, <1>o, <1>41 DEF TurnEnds, Suspended, files, fates, runtime
<1>42. ASSUME NEW h \in Harnesses, NEW l \in Lines, Commit(h, l) PROVE Goal
  BY <1>a, <1>b, <1>n, <1>o, <1>42 DEF Commit, Suspended, files, fates, runtime
<1>43. ASSUME NEW f \in Files, OtherTakes(f) PROVE Goal
  BY <1>a, <1>b, <1>n, <1>o, <1>43 DEF OtherTakes, files, fates, runtime
<1>44. ASSUME NEW f \in Files, OtherWrites(f) PROVE Goal
  BY <1>a, <1>b, <1>n, <1>o, <1>44 DEF OtherWrites, files, fates, runtime
<1>45. ASSUME NEW f \in Files, OtherLeaves(f) PROVE Goal
  BY <1>a, <1>b, <1>n, <1>o, <1>45 DEF OtherLeaves, files, fates, runtime
<1> QED
  BY <1>1, <1>2, <1>3, <1>4, <1>5, <1>6, <1>7, <1>8, <1>9, <1>10, <1>11, <1>12, <1>13, <1>14, <1>15, <1>16,
     <1>17, <1>18, <1>19, <1>20, <1>21, <1>22, <1>23, <1>24, <1>25, <1>26, <1>27, <1>28, <1>29, <1>30, <1>31,
     <1>32, <1>33, <1>34, <1>35, <1>36, <1>37, <1>38, <1>39, <1>40, <1>41, <1>42, <1>43, <1>44, <1>45 DEF Next,
     Swap, Interrupt, Send, Turn, Other

\* the fates of the lines,
LEMMA FatesKept ==
  ASSUME Typed, Alone, Locals, Locked, Filed, Counts, Next
  PROVE  accepted' \cup said' \cup returned' \cup cleared' \in SUBSET Lines
<1> DEFINE Goal == accepted' \cup said' \cup returned' \cup cleared' \in SUBSET Lines
<1>a. /\ pc \in [Tasks -> {"wait"} \cup Asked \cup Blocking \cup Ended] /\ job \in [Tasks -> Jobs]
      /\ text \in [Files -> Texts] /\ harness \in [Harnesses -> Sessions] /\ owner \in [Files -> {"us", "other", None}]
      /\ inst \in Harnesses /\ surf \in Harnesses /\ built \in Harnesses /\ surf \in Nat /\ inst = built /\ surf <= inst
      /\ lifecycle \in Tasks \cup {None} /\ adopted \in Files \cup {None}
  BY DEF Typed, TypeOK, Texts, Harnesses
<1>b. /\ \A h \in Harnesses : harness[h].run \in SUBSET Lines /\ harness[h].queue \in SUBSET Lines /\ harness[h].next \in SUBSET Lines
      /\ \A t \in Tasks : job[t].target \in Files \cup {None} /\ job[t].lock \in Files \cup {None} /\ job[t].made \in Files \cup {None}
  BY <1>a DEF Sessions, Jobs
<1>n. \A t \in Tasks : (pc[t] \notin Making => FreshName \in New \ named) /\ (pc[t] \notin Spent => built + 1 \in Harnesses)
  BY Room
<1>o. /\ stopped \in BOOLEAN /\ unbound \in BOOLEAN /\ quit \in {"no", "shut", "dispose", "gone"}
      /\ accepted \cup said \cup returned \cup cleared \in SUBSET Lines
      /\ named \cup everLive \cup everOther \in SUBSET Files
  BY DEF Typed, TypeOK
<1>1. ASSUME NEW t \in Tasks, NEW k \in Kinds, NEW p \in Tasks \cup {None}, Request(t, k, p) PROVE Goal
  BY <1>a, <1>b, <1>n, <1>o, <1>1 DEF Request, Goes, Nested, files, fates, runtime, Waiting
<1>2. ASSUME NEW t \in Tasks, Start(t) PROVE Goal
  BY <1>a, <1>b, <1>n, <1>o, <1>2 DEF Start, Goes, files, fates, runtime, Waiting
<1>3. ASSUME NEW t \in Tasks, Settle(t) PROVE Goal
  BY <1>a, <1>b, <1>n, <1>o, <1>3 DEF Settle, Goes, Settled, files, fates, runtime, Waiting
<1>4. ASSUME NEW t \in Tasks, SettleReload(t) PROVE Goal
  BY <1>a, <1>b, <1>n, <1>o, <1>4 DEF SettleReload, Goes, Settled, files, fates, runtime, Waiting
<1>5. ASSUME NEW t \in Tasks, NEW f \in Files, TakeTarget(t, f) PROVE Goal
  BY <1>a, <1>b, <1>n, <1>o, <1>5 DEF TakeTarget, Goes, Settled, Unusable, Held, Taken, files, fates, runtime,
     Waiting
<1>6. ASSUME NEW t \in Tasks, NEW f \in Files, TakeDestination(t, f) PROVE Goal
  BY <1>a, <1>b, <1>n, <1>o, <1>6 DEF TakeDestination, Goes, HookReturns, Unusable, Held, Taken, files, fates,
     runtime, Waiting
<1>7. ASSUME NEW t \in Tasks, OpenTarget(t) PROVE Goal
  BY <1>a, <1>b, <1>n, <1>o, <1>7 DEF OpenTarget, Goes, files, fates, runtime, Waiting
<1>8. ASSUME NEW t \in Tasks, HookCancels(t) PROVE Goal
  BY <1>a, <1>b, <1>n, <1>o, <1>8 DEF HookCancels, Goes, HookReturns, files, fates, runtime, Waiting
<1>9. ASSUME NEW t \in Tasks, Create(t) PROVE Goal
  BY <1>a, <1>b, <1>n, <1>o, <1>9 DEF Create, Goes, HookReturns, Publish, files, fates, runtime, Waiting
<1>10. ASSUME NEW t \in Tasks, LockNew(t) PROVE Goal
  BY <1>a, <1>b, <1>n, <1>o, <1>10 DEF LockNew, Goes, Unusable, Held, Taken, files, fates, runtime, Waiting
<1>11. ASSUME NEW t \in Tasks, SwitchUncontended(t) PROVE Goal
  BY <1>a, <1>b, <1>n, <1>o, <1>11 DEF SwitchUncontended, Goes, HookReturns, files, fates, runtime, Waiting
<1>12. ASSUME NEW t \in Tasks, AnswerReadOnly(t) PROVE Goal
  BY <1>a, <1>b, <1>n, <1>o, <1>12 DEF AnswerReadOnly, Goes, files, fates, runtime, Waiting
<1>13. ASSUME NEW t \in Tasks, AnswerFork(t) PROVE Goal
  BY <1>a, <1>b, <1>n, <1>o, <1>13 DEF AnswerFork, Goes, Publish, files, fates, runtime, Waiting
<1>14. ASSUME NEW t \in Tasks, AnswerCancel(t) PROVE Goal
  BY <1>a, <1>b, <1>n, <1>o, <1>14 DEF AnswerCancel, Goes, files, fates, runtime, Waiting
<1>15. ASSUME NEW t \in Tasks, Copy(t) PROVE Goal
  BY <1>a, <1>b, <1>n, <1>o, <1>15 DEF Copy, Goes, files, fates, runtime, Waiting
<1>16. ASSUME NEW t \in Tasks, OpenCopy(t) PROVE Goal
  BY <1>a, <1>b, <1>n, <1>o, <1>16 DEF OpenCopy, Goes, files, fates, runtime, Waiting
<1>17. ASSUME NEW t \in Tasks, GiveBackFirst(t) PROVE Goal
  BY <1>a, <1>b, <1>n, <1>o, <1>17 DEF GiveBackFirst, Goes, Emptied, Waiting, files, fates, runtime, Waiting
<1>18. ASSUME NEW t \in Tasks, FirstGiven(t) PROVE Goal
  BY <1>a, <1>b, <1>n, <1>o, <1>18 DEF FirstGiven, Goes, files, fates, runtime, Waiting
<1>19. ASSUME NEW t \in Tasks, Teardown(t) PROVE Goal
  BY <1>a, <1>b, <1>n, <1>o, <1>19 DEF Teardown, Goes, Disposed, AbortClears, files, fates, runtime, Waiting
<1>20. ASSUME NEW t \in Tasks, TornDown(t) PROVE Goal
  BY <1>a, <1>b, <1>n, <1>o, <1>20 DEF TornDown, Goes, Emptied, Waiting, files, fates, runtime, Waiting
<1>21. ASSUME NEW t \in Tasks, SecondGiven(t) PROVE Goal
  BY <1>a, <1>b, <1>n, <1>o, <1>21 DEF SecondGiven, Goes, files, fates, runtime, Waiting
<1>22. ASSUME NEW t \in Tasks, Install(t) PROVE Goal
  BY <1>a, <1>b, <1>n, <1>o, <1>22 DEF Install, Goes, Blank, files, fates, runtime, Waiting
<1>23. ASSUME NEW t \in Tasks, Reload(t) PROVE Goal
  BY <1>a, <1>b, <1>n, <1>o, <1>23 DEF Reload, Goes, Rebuild, Carried, Blank, files, fates, runtime, Waiting
<1>24. ASSUME NEW t \in Tasks, BuildFails(t) PROVE Goal
  BY <1>a, <1>b, <1>n, <1>o, <1>24 DEF BuildFails, Goes, files, fates, runtime, Waiting
<1>25. ASSUME NEW t \in Tasks, Restore(t) PROVE Goal
  BY <1>a, <1>b, <1>n, <1>o, <1>25 DEF Restore, Goes, Rebuild, Carried, Blank, files, fates, runtime, Waiting
<1>26. ASSUME NEW t \in Tasks, Kept(t) PROVE Goal
  BY <1>a, <1>b, <1>n, <1>o, <1>26 DEF Kept, Goes, files, fates, runtime, Waiting
<1>27. ASSUME NEW t \in Tasks, Rebind(t) PROVE Goal
  BY <1>a, <1>b, <1>n, <1>o, <1>27 DEF Rebind, Goes, NoJob, files, fates, runtime, Waiting
<1>28. ASSUME NEW t \in Tasks, Raises(t) PROVE Goal
  BY <1>a, <1>b, <1>n, <1>o, <1>28 DEF Raises, Goes, files, fates, runtime, Waiting
<1>29. ASSUME NEW t \in Tasks, RestoreFails(t) PROVE Goal
  BY ZenonT(60), <1>a, <1>b, <1>n, <1>o, <1>29 DEF RestoreFails, Goes, Stops, files, fates, runtime, Waiting
<1>30. ASSUME NEW t \in Tasks, Discard(t) PROVE Goal
  BY <1>a, <1>b, <1>n, <1>o, <1>30 DEF Discard, Goes, files, fates, runtime, Waiting
<1>31. ASSUME NEW t \in Tasks, Drop(t) PROVE Goal
  BY <1>a, <1>b, <1>n, <1>o, <1>31 DEF Drop, Goes, NoJob, files, fates, runtime, Waiting
<1>32. ASSUME NEW t \in Tasks, CancelWaiting(t) PROVE Goal
  BY <1>a, <1>b, <1>n, <1>o, <1>32 DEF CancelWaiting, Goes, files, fates, runtime, Waiting
<1>33. ASSUME NEW t \in Tasks, Cancel(t) PROVE Goal
  BY <1>a, <1>b, <1>n, <1>o, <1>33 DEF Cancel, Goes, files, fates, runtime, Waiting
<1>34. ASSUME NEW t \in Tasks, CancelStops(t) PROVE Goal
  BY ZenonT(60), <1>a, <1>b, <1>n, <1>o, <1>34 DEF CancelStops, Goes, Stops, files, fates, runtime, Waiting
<1>35. ASSUME Quit PROVE Goal
  BY <1>a, <1>b, <1>n, <1>o, <1>35 DEF Quit, files, fates, runtime, Waiting
<1>36. ASSUME QuitDispose PROVE Goal
  BY <1>a, <1>b, <1>n, <1>o, <1>36 DEF QuitDispose, Disposed, AbortClears, files, fates, runtime, Waiting
<1>37. ASSUME QuitReleases PROVE Goal
  BY <1>a, <1>b, <1>n, <1>o, <1>37 DEF QuitReleases, files, fates, runtime, Waiting
<1>38. ASSUME NEW h \in {inst, surf}, NEW l \in Lines, Prompt(h, l) PROVE Goal
  BY <1>a, <1>b, <1>n, <1>o, <1>38 DEF Prompt, Suspended, files, fates, runtime, Waiting
<1>39. ASSUME NEW h \in {inst, surf}, NEW l \in Lines, Steer(h, l) PROVE Goal
  BY <1>a, <1>b, <1>n, <1>o, <1>39 DEF Steer, Suspended, files, fates, runtime, Waiting
<1>40. ASSUME Esc PROVE Goal
  BY <1>a, <1>b, <1>n, <1>o, <1>40 DEF Esc, Suspended, files, fates, runtime, Waiting
<1>41. ASSUME NEW h \in Harnesses, TurnEnds(h) PROVE Goal
  BY <1>a, <1>b, <1>n, <1>o, <1>41 DEF TurnEnds, Suspended, files, fates, runtime, Waiting
<1>42. ASSUME NEW h \in Harnesses, NEW l \in Lines, Commit(h, l) PROVE Goal
  BY <1>a, <1>b, <1>n, <1>o, <1>42 DEF Commit, Suspended, files, fates, runtime, Waiting
<1>43. ASSUME NEW f \in Files, OtherTakes(f) PROVE Goal
  BY <1>a, <1>b, <1>n, <1>o, <1>43 DEF OtherTakes, files, fates, runtime, Waiting
<1>44. ASSUME NEW f \in Files, OtherWrites(f) PROVE Goal
  BY <1>a, <1>b, <1>n, <1>o, <1>44 DEF OtherWrites, files, fates, runtime, Waiting
<1>45. ASSUME NEW f \in Files, OtherLeaves(f) PROVE Goal
  BY <1>a, <1>b, <1>n, <1>o, <1>45 DEF OtherLeaves, files, fates, runtime, Waiting
<1> QED
  BY <1>1, <1>2, <1>3, <1>4, <1>5, <1>6, <1>7, <1>8, <1>9, <1>10, <1>11, <1>12, <1>13, <1>14, <1>15, <1>16,
     <1>17, <1>18, <1>19, <1>20, <1>21, <1>22, <1>23, <1>24, <1>25, <1>26, <1>27, <1>28, <1>29, <1>30, <1>31,
     <1>32, <1>33, <1>34, <1>35, <1>36, <1>37, <1>38, <1>39, <1>40, <1>41, <1>42, <1>43, <1>44, <1>45 DEF Next,
     Swap, Interrupt, Send, Turn, Other

\* the names of the files
LEMMA NamesKept ==
  ASSUME Typed, Alone, Locals, Locked, Filed, Counts, Next
  PROVE  named' \cup everLive' \cup everOther' \in SUBSET Files
<1> DEFINE Goal == named' \cup everLive' \cup everOther' \in SUBSET Files
<1>a. /\ pc \in [Tasks -> {"wait"} \cup Asked \cup Blocking \cup Ended] /\ job \in [Tasks -> Jobs]
      /\ text \in [Files -> Texts] /\ harness \in [Harnesses -> Sessions] /\ owner \in [Files -> {"us", "other", None}]
      /\ inst \in Harnesses /\ surf \in Harnesses /\ built \in Harnesses /\ surf \in Nat /\ inst = built /\ surf <= inst
      /\ lifecycle \in Tasks \cup {None} /\ adopted \in Files \cup {None}
  BY DEF Typed, TypeOK, Texts, Harnesses
<1>b. /\ \A h \in Harnesses : harness[h].run \in SUBSET Lines /\ harness[h].queue \in SUBSET Lines /\ harness[h].next \in SUBSET Lines
      /\ \A t \in Tasks : job[t].target \in Files \cup {None} /\ job[t].lock \in Files \cup {None} /\ job[t].made \in Files \cup {None}
  BY <1>a DEF Sessions, Jobs
<1>n. \A t \in Tasks : (pc[t] \notin Making => FreshName \in New \ named) /\ (pc[t] \notin Spent => built + 1 \in Harnesses)
  BY Room
<1>o. /\ stopped \in BOOLEAN /\ unbound \in BOOLEAN /\ quit \in {"no", "shut", "dispose", "gone"}
      /\ accepted \cup said \cup returned \cup cleared \in SUBSET Lines
      /\ named \cup everLive \cup everOther \in SUBSET Files
  BY DEF Typed, TypeOK
<1>1. ASSUME NEW t \in Tasks, NEW k \in Kinds, NEW p \in Tasks \cup {None}, Request(t, k, p) PROVE Goal
  BY <1>a, <1>b, <1>n, <1>o, <1>1 DEF Request, Goes, Nested, files, fates, runtime, Files, Making
<1>2. ASSUME NEW t \in Tasks, Start(t) PROVE Goal
  BY <1>a, <1>b, <1>n, <1>o, <1>2 DEF Start, Goes, files, fates, runtime, Files, Making
<1>3. ASSUME NEW t \in Tasks, Settle(t) PROVE Goal
  BY <1>a, <1>b, <1>n, <1>o, <1>3 DEF Settle, Goes, Settled, files, fates, runtime, Files, Making
<1>4. ASSUME NEW t \in Tasks, SettleReload(t) PROVE Goal
  BY <1>a, <1>b, <1>n, <1>o, <1>4 DEF SettleReload, Goes, Settled, files, fates, runtime, Files, Making
<1>5. ASSUME NEW t \in Tasks, NEW f \in Files, TakeTarget(t, f) PROVE Goal
  BY <1>a, <1>b, <1>n, <1>o, <1>5 DEF TakeTarget, Goes, Settled, Unusable, Held, Taken, files, fates, runtime,
     Files, Making
<1>6. ASSUME NEW t \in Tasks, NEW f \in Files, TakeDestination(t, f) PROVE Goal
  BY <1>a, <1>b, <1>n, <1>o, <1>6 DEF TakeDestination, Goes, HookReturns, Unusable, Held, Taken, files, fates,
     runtime, Files, Making
<1>7. ASSUME NEW t \in Tasks, OpenTarget(t) PROVE Goal
  BY <1>a, <1>b, <1>n, <1>o, <1>7 DEF OpenTarget, Goes, files, fates, runtime, Files, Making
<1>8. ASSUME NEW t \in Tasks, HookCancels(t) PROVE Goal
  BY <1>a, <1>b, <1>n, <1>o, <1>8 DEF HookCancels, Goes, HookReturns, files, fates, runtime, Files, Making
<1>9. ASSUME NEW t \in Tasks, Create(t) PROVE Goal
  BY <1>a, <1>b, <1>n, <1>o, <1>9 DEF Create, Goes, HookReturns, Publish, files, fates, runtime, Files, Making
<1>10. ASSUME NEW t \in Tasks, LockNew(t) PROVE Goal
  BY <1>a, <1>b, <1>n, <1>o, <1>10 DEF LockNew, Goes, Unusable, Held, Taken, files, fates, runtime, Files, Making
<1>11. ASSUME NEW t \in Tasks, SwitchUncontended(t) PROVE Goal
  BY <1>a, <1>b, <1>n, <1>o, <1>11 DEF SwitchUncontended, Goes, HookReturns, files, fates, runtime, Files, Making
<1>12. ASSUME NEW t \in Tasks, AnswerReadOnly(t) PROVE Goal
  BY <1>a, <1>b, <1>n, <1>o, <1>12 DEF AnswerReadOnly, Goes, files, fates, runtime, Files, Making
<1>13. ASSUME NEW t \in Tasks, AnswerFork(t) PROVE Goal
  BY <1>a, <1>b, <1>n, <1>o, <1>13 DEF AnswerFork, Goes, Publish, files, fates, runtime, Files, Making
<1>14. ASSUME NEW t \in Tasks, AnswerCancel(t) PROVE Goal
  BY <1>a, <1>b, <1>n, <1>o, <1>14 DEF AnswerCancel, Goes, files, fates, runtime, Files, Making
<1>15. ASSUME NEW t \in Tasks, Copy(t) PROVE Goal
  <2>1. t = lifecycle /\ job[t].target \in Files
    BY <1>a, <1>15, RunningIs DEF Copy, Locals
  <2> QED
    BY <1>a, <1>o, <1>15, <2>1 DEF Copy, files, fates, runtime
<1>16. ASSUME NEW t \in Tasks, OpenCopy(t) PROVE Goal
  BY <1>a, <1>b, <1>n, <1>o, <1>16 DEF OpenCopy, Goes, files, fates, runtime, Files, Making
<1>17. ASSUME NEW t \in Tasks, GiveBackFirst(t) PROVE Goal
  BY <1>a, <1>b, <1>n, <1>o, <1>17 DEF GiveBackFirst, Goes, Emptied, Waiting, files, fates, runtime, Files, Making
<1>18. ASSUME NEW t \in Tasks, FirstGiven(t) PROVE Goal
  BY <1>a, <1>b, <1>n, <1>o, <1>18 DEF FirstGiven, Goes, files, fates, runtime, Files, Making
<1>19. ASSUME NEW t \in Tasks, Teardown(t) PROVE Goal
  BY <1>a, <1>b, <1>n, <1>o, <1>19 DEF Teardown, Goes, Disposed, AbortClears, files, fates, runtime, Files, Making
<1>20. ASSUME NEW t \in Tasks, TornDown(t) PROVE Goal
  BY <1>a, <1>b, <1>n, <1>o, <1>20 DEF TornDown, Goes, Emptied, Waiting, files, fates, runtime, Files, Making
<1>21. ASSUME NEW t \in Tasks, SecondGiven(t) PROVE Goal
  BY <1>a, <1>b, <1>n, <1>o, <1>21 DEF SecondGiven, Goes, files, fates, runtime, Files, Making
<1>22. ASSUME NEW t \in Tasks, Install(t) PROVE Goal
  <2>1. t = lifecycle /\ job[t].target \in Files
    BY <1>a, <1>22, RunningIs DEF Install, Locals, Placed, Closing, Counts, Files
  <2> QED
    BY <1>a, <1>o, <1>22, <2>1 DEF Install, files, fates, runtime, Files
<1>23. ASSUME NEW t \in Tasks, Reload(t) PROVE Goal
  BY <1>a, <1>b, <1>n, <1>o, <1>23 DEF Reload, Goes, Rebuild, Carried, Blank, files, fates, runtime, Files, Making
<1>24. ASSUME NEW t \in Tasks, BuildFails(t) PROVE Goal
  BY <1>a, <1>b, <1>n, <1>o, <1>24 DEF BuildFails, Goes, files, fates, runtime, Files, Making
<1>25. ASSUME NEW t \in Tasks, Restore(t) PROVE Goal
  BY <1>a, <1>b, <1>n, <1>o, <1>25 DEF Restore, Goes, Rebuild, Carried, Blank, files, fates, runtime, Files, Making
<1>26. ASSUME NEW t \in Tasks, Kept(t) PROVE Goal
  BY <1>a, <1>b, <1>n, <1>o, <1>26 DEF Kept, Goes, files, fates, runtime, Files, Making
<1>27. ASSUME NEW t \in Tasks, Rebind(t) PROVE Goal
  BY <1>a, <1>b, <1>n, <1>o, <1>27 DEF Rebind, Goes, NoJob, files, fates, runtime, Files, Making
<1>28. ASSUME NEW t \in Tasks, Raises(t) PROVE Goal
  BY <1>a, <1>b, <1>n, <1>o, <1>28 DEF Raises, Goes, files, fates, runtime, Files, Making
<1>29. ASSUME NEW t \in Tasks, RestoreFails(t) PROVE Goal
  BY ZenonT(60), <1>a, <1>b, <1>n, <1>o, <1>29 DEF RestoreFails, Goes, Stops, files, fates, runtime, Files, Making
<1>30. ASSUME NEW t \in Tasks, Discard(t) PROVE Goal
  BY <1>a, <1>b, <1>n, <1>o, <1>30 DEF Discard, Goes, files, fates, runtime, Files, Making
<1>31. ASSUME NEW t \in Tasks, Drop(t) PROVE Goal
  BY <1>a, <1>b, <1>n, <1>o, <1>31 DEF Drop, Goes, NoJob, files, fates, runtime, Files, Making
<1>32. ASSUME NEW t \in Tasks, CancelWaiting(t) PROVE Goal
  BY <1>a, <1>b, <1>n, <1>o, <1>32 DEF CancelWaiting, Goes, files, fates, runtime, Files, Making
<1>33. ASSUME NEW t \in Tasks, Cancel(t) PROVE Goal
  BY <1>a, <1>b, <1>n, <1>o, <1>33 DEF Cancel, Goes, files, fates, runtime, Files, Making
<1>34. ASSUME NEW t \in Tasks, CancelStops(t) PROVE Goal
  BY ZenonT(60), <1>a, <1>b, <1>n, <1>o, <1>34 DEF CancelStops, Goes, Stops, files, fates, runtime, Files, Making
<1>35. ASSUME Quit PROVE Goal
  BY <1>a, <1>b, <1>n, <1>o, <1>35 DEF Quit, files, fates, runtime, Files, Making
<1>36. ASSUME QuitDispose PROVE Goal
  BY <1>a, <1>b, <1>n, <1>o, <1>36 DEF QuitDispose, Disposed, AbortClears, files, fates, runtime, Files, Making
<1>37. ASSUME QuitReleases PROVE Goal
  BY <1>a, <1>b, <1>n, <1>o, <1>37 DEF QuitReleases, files, fates, runtime, Files, Making
<1>38. ASSUME NEW h \in {inst, surf}, NEW l \in Lines, Prompt(h, l) PROVE Goal
  BY <1>a, <1>b, <1>n, <1>o, <1>38 DEF Prompt, Suspended, files, fates, runtime, Files, Making
<1>39. ASSUME NEW h \in {inst, surf}, NEW l \in Lines, Steer(h, l) PROVE Goal
  BY <1>a, <1>b, <1>n, <1>o, <1>39 DEF Steer, Suspended, files, fates, runtime, Files, Making
<1>40. ASSUME Esc PROVE Goal
  BY <1>a, <1>b, <1>n, <1>o, <1>40 DEF Esc, Suspended, files, fates, runtime, Files, Making
<1>41. ASSUME NEW h \in Harnesses, TurnEnds(h) PROVE Goal
  BY <1>a, <1>b, <1>n, <1>o, <1>41 DEF TurnEnds, Suspended, files, fates, runtime, Files, Making
<1>42. ASSUME NEW h \in Harnesses, NEW l \in Lines, Commit(h, l) PROVE Goal
  BY <1>a, <1>b, <1>n, <1>o, <1>42 DEF Commit, Suspended, files, fates, runtime, Files, Making
<1>43. ASSUME NEW f \in Files, OtherTakes(f) PROVE Goal
  BY <1>a, <1>b, <1>n, <1>o, <1>43 DEF OtherTakes, files, fates, runtime, Files, Making
<1>44. ASSUME NEW f \in Files, OtherWrites(f) PROVE Goal
  BY <1>a, <1>b, <1>n, <1>o, <1>44 DEF OtherWrites, files, fates, runtime, Files, Making
<1>45. ASSUME NEW f \in Files, OtherLeaves(f) PROVE Goal
  BY <1>a, <1>b, <1>n, <1>o, <1>45 DEF OtherLeaves, files, fates, runtime, Files, Making
<1> QED
  BY <1>1, <1>2, <1>3, <1>4, <1>5, <1>6, <1>7, <1>8, <1>9, <1>10, <1>11, <1>12, <1>13, <1>14, <1>15, <1>16,
     <1>17, <1>18, <1>19, <1>20, <1>21, <1>22, <1>23, <1>24, <1>25, <1>26, <1>27, <1>28, <1>29, <1>30, <1>31,
     <1>32, <1>33, <1>34, <1>35, <1>36, <1>37, <1>38, <1>39, <1>40, <1>41, <1>42, <1>43, <1>44, <1>45 DEF Next,
     Swap, Interrupt, Send, Turn, Other

\* and what they hold.
LEMMA TextsKept ==
  ASSUME Typed, Alone, Locals, Locked, Filed, Counts, Next
  PROVE  text' \in [Files -> Texts]
<1>a. /\ pc \in [Tasks -> {"wait"} \cup Asked \cup Blocking \cup Ended] /\ job \in [Tasks -> Jobs]
      /\ text \in [Files -> Texts] /\ harness \in [Harnesses -> Sessions] /\ owner \in [Files -> {"us", "other", None}]
      /\ inst \in Harnesses /\ surf \in Harnesses /\ built \in Harnesses /\ surf \in Nat /\ inst = built /\ surf <= inst
      /\ lifecycle \in Tasks \cup {None} /\ adopted \in Files \cup {None}
  BY DEF Typed, TypeOK, Texts, Harnesses
<1>b. /\ \A h \in Harnesses : harness[h].run \in SUBSET Lines /\ harness[h].queue \in SUBSET Lines /\ harness[h].next \in SUBSET Lines
      /\ \A t \in Tasks : job[t].target \in Files \cup {None} /\ job[t].lock \in Files \cup {None} /\ job[t].made \in Files \cup {None}
  BY <1>a DEF Sessions, Jobs
<1>n. \A t \in Tasks : (pc[t] \notin Making => FreshName \in New \ named) /\ (pc[t] \notin Spent => built + 1 \in Harnesses)
  BY Room
<1>t. <<>> \in Texts /\ <<"level">> \in Texts /\ <<"first">> \in Texts /\ <<"copied">> \in Texts
      /\ \A l \in Lines : <<l>> \in Texts
  BY DEF Texts
<1>c. \A q, r \in Texts : q \o r \in Texts
  BY ConcatProperties DEF Texts
<1>1. ASSUME NEW t \in Tasks, NEW k \in Kinds, NEW p \in Tasks \cup {None}, Request(t, k, p) PROVE text' \in [Files -> Texts]
  BY <1>a, <1>b, <1>1 DEF Request, Goes, Nested, files, fates, runtime
<1>2. ASSUME NEW t \in Tasks, Start(t) PROVE text' \in [Files -> Texts]
  BY <1>a, <1>b, <1>2 DEF Start, Goes, files, fates, runtime
<1>3. ASSUME NEW t \in Tasks, Settle(t) PROVE text' \in [Files -> Texts]
  BY <1>a, <1>b, <1>3 DEF Settle, Goes, Settled, files, fates, runtime
<1>4. ASSUME NEW t \in Tasks, SettleReload(t) PROVE text' \in [Files -> Texts]
  BY <1>a, <1>b, <1>4 DEF SettleReload, Goes, Settled, files, fates, runtime
<1>5. ASSUME NEW t \in Tasks, NEW f \in Files, TakeTarget(t, f) PROVE text' \in [Files -> Texts]
  BY <1>a, <1>b, <1>5 DEF TakeTarget, Goes, Settled, Unusable, Held, Taken, files, fates, runtime
<1>6. ASSUME NEW t \in Tasks, NEW f \in Files, TakeDestination(t, f) PROVE text' \in [Files -> Texts]
  BY <1>a, <1>b, <1>6 DEF TakeDestination, Goes, HookReturns, Unusable, Held, Taken, files, fates, runtime
<1>7. ASSUME NEW t \in Tasks, OpenTarget(t) PROVE text' \in [Files -> Texts]
  BY <1>a, <1>b, <1>7 DEF OpenTarget, Goes, files, fates, runtime
<1>8. ASSUME NEW t \in Tasks, HookCancels(t) PROVE text' \in [Files -> Texts]
  BY <1>a, <1>b, <1>8 DEF HookCancels, Goes, HookReturns, files, fates, runtime
<1>9. ASSUME NEW t \in Tasks, Create(t) PROVE text' \in [Files -> Texts]
  <2>1. (IF job[t].kind = "new" THEN <<"first">> ELSE text[harness[inst].file]) \in Texts
    BY <1>a, <1>t, <1>9, RunningIs DEF Create, HookReturns, Locals, Locked, Files, Counts
  <2> QED
    BY <1>a, <1>9, <2>1 DEF Create, Publish
<1>10. ASSUME NEW t \in Tasks, LockNew(t) PROVE text' \in [Files -> Texts]
  BY <1>a, <1>b, <1>10 DEF LockNew, Goes, Unusable, Held, Taken, files, fates, runtime
<1>11. ASSUME NEW t \in Tasks, SwitchUncontended(t) PROVE text' \in [Files -> Texts]
  BY <1>a, <1>b, <1>11 DEF SwitchUncontended, Goes, HookReturns, files, fates, runtime
<1>12. ASSUME NEW t \in Tasks, AnswerReadOnly(t) PROVE text' \in [Files -> Texts]
  BY <1>a, <1>b, <1>12 DEF AnswerReadOnly, Goes, files, fates, runtime
<1>13. ASSUME NEW t \in Tasks, AnswerFork(t) PROVE text' \in [Files -> Texts]
  <2>1. (text[job[t].target]) \in Texts
    BY <1>a, <1>t, <1>13, RunningIs DEF AnswerFork, HookReturns, Locals, Locked, Files, Counts
  <2> QED
    BY <1>a, <1>13, <2>1 DEF AnswerFork, Publish
<1>14. ASSUME NEW t \in Tasks, AnswerCancel(t) PROVE text' \in [Files -> Texts]
  BY <1>a, <1>b, <1>14 DEF AnswerCancel, Goes, files, fates, runtime
<1>15. ASSUME NEW t \in Tasks, Copy(t) PROVE text' \in [Files -> Texts]
  BY <1>a, <1>t, <1>15 DEF Copy
<1>16. ASSUME NEW t \in Tasks, OpenCopy(t) PROVE text' \in [Files -> Texts]
  BY <1>a, <1>b, <1>16 DEF OpenCopy, Goes, files, fates, runtime
<1>17. ASSUME NEW t \in Tasks, GiveBackFirst(t) PROVE text' \in [Files -> Texts]
  BY <1>a, <1>b, <1>17 DEF GiveBackFirst, Goes, Emptied, Waiting, files, fates, runtime
<1>18. ASSUME NEW t \in Tasks, FirstGiven(t) PROVE text' \in [Files -> Texts]
  BY <1>a, <1>b, <1>18 DEF FirstGiven, Goes, files, fates, runtime
<1>19. ASSUME NEW t \in Tasks, Teardown(t) PROVE text' \in [Files -> Texts]
  BY <1>a, <1>b, <1>19 DEF Teardown, Goes, Disposed, AbortClears, files, fates, runtime
<1>20. ASSUME NEW t \in Tasks, TornDown(t) PROVE text' \in [Files -> Texts]
  BY <1>a, <1>b, <1>20 DEF TornDown, Goes, Emptied, Waiting, files, fates, runtime
<1>21. ASSUME NEW t \in Tasks, SecondGiven(t) PROVE text' \in [Files -> Texts]
  BY <1>a, <1>b, <1>21 DEF SecondGiven, Goes, files, fates, runtime
<1>22. ASSUME NEW t \in Tasks, Install(t) PROVE text' \in [Files -> Texts]
  BY <1>a, <1>b, <1>22 DEF Install, Goes, Blank, files, fates, runtime
<1>23. ASSUME NEW t \in Tasks, Reload(t) PROVE text' \in [Files -> Texts]
  BY <1>a, <1>b, <1>23 DEF Reload, Goes, Rebuild, Carried, Blank, files, fates, runtime
<1>24. ASSUME NEW t \in Tasks, BuildFails(t) PROVE text' \in [Files -> Texts]
  BY <1>a, <1>b, <1>24 DEF BuildFails, Goes, files, fates, runtime
<1>25. ASSUME NEW t \in Tasks, Restore(t) PROVE text' \in [Files -> Texts]
  BY <1>a, <1>b, <1>25 DEF Restore, Goes, Rebuild, Carried, Blank, files, fates, runtime
<1>26. ASSUME NEW t \in Tasks, Kept(t) PROVE text' \in [Files -> Texts]
  BY <1>a, <1>b, <1>26 DEF Kept, Goes, files, fates, runtime
<1>27. ASSUME NEW t \in Tasks, Rebind(t) PROVE text' \in [Files -> Texts]
  <2>1. PICK level \in {<<>>, <<"level">>} : text' = [text EXCEPT ![harness[inst].file] = text[harness[inst].file] \o level]
    BY <1>27 DEF Rebind
  <2>2. text[harness[inst].file] \o level \in Texts
    BY <1>a, <1>t, <1>c, <2>1 DEF Locked
  <2> QED
    BY <1>a, <2>1, <2>2
<1>28. ASSUME NEW t \in Tasks, Raises(t) PROVE text' \in [Files -> Texts]
  BY <1>a, <1>b, <1>28 DEF Raises, Goes, files, fates, runtime
<1>29. ASSUME NEW t \in Tasks, RestoreFails(t) PROVE text' \in [Files -> Texts]
  BY ZenonT(60), <1>a, <1>b, <1>29 DEF RestoreFails, Goes, Stops, files, fates, runtime
<1>30. ASSUME NEW t \in Tasks, Discard(t) PROVE text' \in [Files -> Texts]
  BY <1>a, <1>t, <1>30 DEF Discard
<1>31. ASSUME NEW t \in Tasks, Drop(t) PROVE text' \in [Files -> Texts]
  BY <1>a, <1>b, <1>31 DEF Drop, Goes, NoJob, files, fates, runtime
<1>32. ASSUME NEW t \in Tasks, CancelWaiting(t) PROVE text' \in [Files -> Texts]
  BY <1>a, <1>b, <1>32 DEF CancelWaiting, Goes, files, fates, runtime
<1>33. ASSUME NEW t \in Tasks, Cancel(t) PROVE text' \in [Files -> Texts]
  BY <1>a, <1>b, <1>33 DEF Cancel, Goes, files, fates, runtime
<1>34. ASSUME NEW t \in Tasks, CancelStops(t) PROVE text' \in [Files -> Texts]
  BY ZenonT(60), <1>a, <1>b, <1>34 DEF CancelStops, Goes, Stops, files, fates, runtime
<1>35. ASSUME Quit PROVE text' \in [Files -> Texts]
  BY <1>a, <1>b, <1>35 DEF Quit, files, fates, runtime
<1>36. ASSUME QuitDispose PROVE text' \in [Files -> Texts]
  BY <1>a, <1>b, <1>36 DEF QuitDispose, Disposed, AbortClears, files, fates, runtime
<1>37. ASSUME QuitReleases PROVE text' \in [Files -> Texts]
  BY <1>a, <1>b, <1>37 DEF QuitReleases, files, fates, runtime
<1>38. ASSUME NEW h \in {inst, surf}, NEW l \in Lines, Prompt(h, l) PROVE text' \in [Files -> Texts]
  BY <1>a, <1>b, <1>38 DEF Prompt, Suspended, files, fates, runtime
<1>39. ASSUME NEW h \in {inst, surf}, NEW l \in Lines, Steer(h, l) PROVE text' \in [Files -> Texts]
  BY <1>a, <1>b, <1>39 DEF Steer, Suspended, files, fates, runtime
<1>40. ASSUME Esc PROVE text' \in [Files -> Texts]
  BY <1>a, <1>b, <1>40 DEF Esc, Suspended, files, fates, runtime
<1>41. ASSUME NEW h \in Harnesses, TurnEnds(h) PROVE text' \in [Files -> Texts]
  BY <1>a, <1>b, <1>41 DEF TurnEnds, Suspended, files, fates, runtime
<1>42. ASSUME NEW h \in Harnesses, NEW l \in Lines, Commit(h, l) PROVE text' \in [Files -> Texts]
  <2> DEFINE line == IF harness[h].ro THEN <<>> ELSE <<l>>
             f == harness[h].file
  <2>1. text' = [text EXCEPT ![f] = text[f] \o line]
    BY <1>42 DEF Commit
  <2>2. line \in Texts
    BY <1>t
  <2> HIDE DEF line
  <2>3. f \in Files => text[f] \o line \in Texts
    BY <1>a, <1>c, <2>2
  <2> QED
    BY <1>a, <2>1, <2>3
<1>43. ASSUME NEW f \in Files, OtherTakes(f) PROVE text' \in [Files -> Texts]
  BY <1>a, <1>b, <1>43 DEF OtherTakes, files, fates, runtime
<1>44. ASSUME NEW f \in Files, OtherWrites(f) PROVE text' \in [Files -> Texts]
  <2>1. text' = [text EXCEPT ![f] = Append(text[f], "other")]
    BY <1>44 DEF OtherWrites
  <2>2. Append(text[f], "other") \in Texts
    BY <1>a, AppendProperties DEF Texts
  <2> QED
    BY <1>a, <2>1, <2>2
<1>45. ASSUME NEW f \in Files, OtherLeaves(f) PROVE text' \in [Files -> Texts]
  BY <1>a, <1>b, <1>45 DEF OtherLeaves, files, fates, runtime
<1> QED
  BY <1>1, <1>2, <1>3, <1>4, <1>5, <1>6, <1>7, <1>8, <1>9, <1>10, <1>11, <1>12, <1>13, <1>14, <1>15, <1>16,
     <1>17, <1>18, <1>19, <1>20, <1>21, <1>22, <1>23, <1>24, <1>25, <1>26, <1>27, <1>28, <1>29, <1>30, <1>31,
     <1>32, <1>33, <1>34, <1>35, <1>36, <1>37, <1>38, <1>39, <1>40, <1>41, <1>42, <1>43, <1>44, <1>45 DEF Next,
     Swap, Interrupt, Send, Turn, Other

\* Typed
LEMMA TypedNext ==
  ASSUME Typed, Alone, Locals, Locked, Filed, Counts, Next
  PROVE  Typed'
<1>1. scope' = scope
  BY ScopeStays
<1>2. /\ pc' \in [Tasks -> {"wait"} \cup Asked \cup Blocking \cup Ended] /\ lifecycle' \in Tasks \cup {None}
      /\ job' \in [Tasks -> Jobs] /\ harness' \in [Harnesses -> Sessions]
      /\ owner' \in [Files -> {"us", "other", None}] /\ text' \in [Files -> Texts]
  BY PlacesKept, JobsKept, SessionsKept, OwnersKept, TextsKept
<1>3. /\ inst' \in Harnesses /\ surf' \in Harnesses /\ built' \in Harnesses /\ surf' <= inst' /\ inst' = built'
      /\ adopted' \in Files \cup {None} /\ stopped' \in BOOLEAN /\ unbound' \in BOOLEAN
      /\ quit' \in {"no", "shut", "dispose", "gone"}
      /\ accepted' \cup said' \cup returned' \cup cleared' \in SUBSET Lines
      /\ named' \cup everLive' \cup everOther' \in SUBSET Files
  BY NumbersKept, FlagsKept, FatesKept, NamesKept
<1>4. /\ \A t \in Tasks :
           /\ job'[t].kind \in Kinds \cup {None} /\ job'[t].parent \in Tasks \cup {None}
           /\ {job'[t].target, job'[t].lock, job'[t].made} \subseteq Files \cup {None}
           /\ job'[t].old \in Harnesses
  BY <1>2 DEF Jobs
<1>5. \A h \in Harnesses :
        /\ harness'[h].file \in Files \cup {None}
        /\ harness'[h].turn \in {"idle", "run", "esc", "cut"}
        /\ harness'[h].run \cup harness'[h].queue \cup harness'[h].next \subseteq Lines
  BY <1>2 DEF Sessions
<1> QED
  BY <1>1, <1>2, <1>3, <1>4, <1>5 DEF Typed, TypeOK, Texts

\* Alone
LEMMA AloneKept ==
  ASSUME Typed, Alone, Locals, Locked, Filed, Counts, Next
  PROVE  Alone'
<1>a. /\ pc \in [Tasks -> {"wait"} \cup Asked \cup Blocking \cup Ended] /\ job \in [Tasks -> Jobs]
      /\ text \in [Files -> Texts] /\ harness \in [Harnesses -> Sessions] /\ owner \in [Files -> {"us", "other", None}]
      /\ inst \in Harnesses /\ surf \in Harnesses /\ built \in Harnesses /\ surf \in Nat /\ inst = built /\ surf <= inst
      /\ lifecycle \in Tasks \cup {None} /\ adopted \in Files \cup {None}
  BY DEF Typed, TypeOK, Texts, Harnesses
<1>b. /\ \A h \in Harnesses : harness[h].run \in SUBSET Lines /\ harness[h].queue \in SUBSET Lines /\ harness[h].next \in SUBSET Lines
      /\ \A t \in Tasks : job[t].target \in Files \cup {None} /\ job[t].lock \in Files \cup {None} /\ job[t].made \in Files \cup {None}
  BY <1>a DEF Sessions, Jobs
<1>n. \A t \in Tasks : (pc[t] \notin Making => FreshName \in New \ named) /\ (pc[t] \notin Spent => built + 1 \in Harnesses)
  BY Room
<1>1. ASSUME NEW t \in Tasks, NEW k \in Kinds, NEW p \in Tasks \cup {None}, Request(t, k, p) PROVE Alone'
  <2>1. t # lifecycle /\ pc[t] = "idle" /\ quit = "no" /\ quit' = quit /\ lifecycle' = lifecycle
    BY ZenonT(60), <1>1 DEF Request, Alone
  <2>2. pc' = [pc EXCEPT ![t] = IF Nested(p) THEN "done" ELSE "wait"] /\ job' = [job EXCEPT ![t].kind = k, ![t].parent = p]
    BY <1>1 DEF Request, Goes
  <2>3. pc'[t] \in {"done", "wait"} /\ \A u \in Tasks : u # t => pc'[u] = pc[u] /\ job'[u] = job[u]
    BY <1>a, <2>2
  <2>4. job'[t] = [NoJob EXCEPT !.kind = k, !.parent = p] /\ job'[t].kind = k /\ job'[t].parent = p
    BY ZenonT(60), <1>a, <2>1, <2>2 DEF Alone, NoJob
  <2>5. job'[t] = [NoJob EXCEPT !.kind = job'[t].kind, !.parent = job'[t].parent]
    BY <2>4
  <2> HIDE DEF NoJob
  <2> QED
    BY ZenonT(60), <2>1, <2>3, <2>4, <2>5 DEF Alone
<1>2. ASSUME NEW t \in Tasks, Start(t) PROVE Alone'
  BY ZenonT(60), <1>a, <1>n, NamesAssumption, <1>2 DEF Start, Goes, files, fates, runtime, Alone, NoJob, Ended,
     Nested
<1>3. ASSUME NEW t \in Tasks, Settle(t) PROVE Alone'
  BY ZenonT(60), <1>a, <1>n, NamesAssumption, <1>3 DEF Settle, Goes, Settled, files, fates, runtime, Alone, NoJob,
     Ended, Nested
<1>4. ASSUME NEW t \in Tasks, SettleReload(t) PROVE Alone'
  BY ZenonT(60), <1>a, <1>n, NamesAssumption, <1>4 DEF SettleReload, Goes, Settled, files, fates, runtime, Alone,
     NoJob, Ended, Nested
<1>5. ASSUME NEW t \in Tasks, NEW f \in Files, TakeTarget(t, f) PROVE Alone'
  BY ZenonT(60), <1>a, <1>n, NamesAssumption, <1>5 DEF TakeTarget, Goes, Settled, Unusable, Held, Taken, files,
     fates, runtime, Alone, NoJob, Ended, Nested
<1>6. ASSUME NEW t \in Tasks, NEW f \in Files, TakeDestination(t, f) PROVE Alone'
  BY ZenonT(60), <1>a, <1>n, NamesAssumption, <1>6 DEF TakeDestination, Goes, HookReturns, Unusable, Held, Taken,
     files, fates, runtime, Alone, NoJob, Ended, Nested
<1>7. ASSUME NEW t \in Tasks, OpenTarget(t) PROVE Alone'
  BY ZenonT(60), <1>a, <1>n, NamesAssumption, <1>7 DEF OpenTarget, Goes, files, fates, runtime, Alone, NoJob,
     Ended, Nested
<1>8. ASSUME NEW t \in Tasks, HookCancels(t) PROVE Alone'
  BY ZenonT(60), <1>a, <1>n, NamesAssumption, <1>8 DEF HookCancels, Goes, HookReturns, files, fates, runtime,
     Alone, NoJob, Ended, Nested
<1>9. ASSUME NEW t \in Tasks, Create(t) PROVE Alone'
  BY ZenonT(60), <1>a, <1>n, NamesAssumption, <1>9 DEF Create, Goes, HookReturns, Publish, files, fates, runtime,
     Alone, NoJob, Ended, Nested
<1>10. ASSUME NEW t \in Tasks, LockNew(t) PROVE Alone'
  BY ZenonT(60), <1>a, <1>n, NamesAssumption, <1>10 DEF LockNew, Goes, Unusable, Held, Taken, files, fates,
     runtime, Alone, NoJob, Ended, Nested
<1>11. ASSUME NEW t \in Tasks, SwitchUncontended(t) PROVE Alone'
  BY ZenonT(60), <1>a, <1>n, NamesAssumption, <1>11 DEF SwitchUncontended, Goes, HookReturns, files, fates,
     runtime, Alone, NoJob, Ended, Nested
<1>12. ASSUME NEW t \in Tasks, AnswerReadOnly(t) PROVE Alone'
  BY ZenonT(60), <1>a, <1>n, NamesAssumption, <1>12 DEF AnswerReadOnly, Goes, files, fates, runtime, Alone, NoJob,
     Ended, Nested
<1>13. ASSUME NEW t \in Tasks, AnswerFork(t) PROVE Alone'
  BY ZenonT(60), <1>a, <1>n, NamesAssumption, <1>13 DEF AnswerFork, Goes, Publish, files, fates, runtime, Alone,
     NoJob, Ended, Nested
<1>14. ASSUME NEW t \in Tasks, AnswerCancel(t) PROVE Alone'
  BY ZenonT(60), <1>a, <1>n, NamesAssumption, <1>14 DEF AnswerCancel, Goes, files, fates, runtime, Alone, NoJob,
     Ended, Nested
<1>15. ASSUME NEW t \in Tasks, Copy(t) PROVE Alone'
  BY ZenonT(60), <1>a, <1>n, NamesAssumption, <1>15 DEF Copy, Goes, files, fates, runtime, Alone, NoJob, Ended,
     Nested
<1>16. ASSUME NEW t \in Tasks, OpenCopy(t) PROVE Alone'
  BY ZenonT(60), <1>a, <1>n, NamesAssumption, <1>16 DEF OpenCopy, Goes, files, fates, runtime, Alone, NoJob,
     Ended, Nested
<1>17. ASSUME NEW t \in Tasks, GiveBackFirst(t) PROVE Alone'
  BY ZenonT(60), <1>a, <1>n, NamesAssumption, <1>17 DEF GiveBackFirst, Goes, Emptied, Waiting, files, fates,
     runtime, Alone, NoJob, Ended, Nested
<1>18. ASSUME NEW t \in Tasks, FirstGiven(t) PROVE Alone'
  BY ZenonT(60), <1>a, <1>n, NamesAssumption, <1>18 DEF FirstGiven, Goes, files, fates, runtime, Alone, NoJob,
     Ended, Nested
<1>19. ASSUME NEW t \in Tasks, Teardown(t) PROVE Alone'
  BY ZenonT(60), <1>a, <1>n, NamesAssumption, <1>19 DEF Teardown, Goes, Disposed, AbortClears, files, fates,
     runtime, Alone, NoJob, Ended, Nested
<1>20. ASSUME NEW t \in Tasks, TornDown(t) PROVE Alone'
  BY ZenonT(60), <1>a, <1>n, NamesAssumption, <1>20 DEF TornDown, Goes, Emptied, Waiting, files, fates, runtime,
     Alone, NoJob, Ended, Nested
<1>21. ASSUME NEW t \in Tasks, SecondGiven(t) PROVE Alone'
  BY ZenonT(60), <1>a, <1>n, NamesAssumption, <1>21 DEF SecondGiven, Goes, files, fates, runtime, Alone, NoJob,
     Ended, Nested
<1>22. ASSUME NEW t \in Tasks, Install(t) PROVE Alone'
  BY ZenonT(60), <1>a, <1>n, NamesAssumption, <1>22 DEF Install, Goes, Blank, files, fates, runtime, Alone, NoJob,
     Ended, Nested
<1>23. ASSUME NEW t \in Tasks, Reload(t) PROVE Alone'
  BY ZenonT(60), <1>a, <1>n, NamesAssumption, <1>23 DEF Reload, Goes, Rebuild, Carried, Blank, files, fates,
     runtime, Alone, NoJob, Ended, Nested
<1>24. ASSUME NEW t \in Tasks, BuildFails(t) PROVE Alone'
  BY ZenonT(60), <1>a, <1>n, NamesAssumption, <1>24 DEF BuildFails, Goes, files, fates, runtime, Alone, NoJob,
     Ended, Nested
<1>25. ASSUME NEW t \in Tasks, Restore(t) PROVE Alone'
  BY ZenonT(60), <1>a, <1>n, NamesAssumption, <1>25 DEF Restore, Goes, Rebuild, Carried, Blank, files, fates,
     runtime, Alone, NoJob, Ended, Nested
<1>26. ASSUME NEW t \in Tasks, Kept(t) PROVE Alone'
  BY ZenonT(60), <1>a, <1>n, NamesAssumption, <1>26 DEF Kept, Goes, files, fates, runtime, Alone, NoJob, Ended,
     Nested
<1>27. ASSUME NEW t \in Tasks, Rebind(t) PROVE Alone'
  BY ZenonT(60), <1>a, <1>n, NamesAssumption, <1>27 DEF Rebind, Goes, NoJob, files, fates, runtime, Alone, NoJob,
     Ended, Nested
<1>28. ASSUME NEW t \in Tasks, Raises(t) PROVE Alone'
  BY ZenonT(60), <1>a, <1>n, NamesAssumption, <1>28 DEF Raises, Goes, files, fates, runtime, Alone, NoJob, Ended,
     Nested
<1>29. ASSUME NEW t \in Tasks, RestoreFails(t) PROVE Alone'
  BY ZenonT(60), <1>a, <1>n, NamesAssumption, <1>29 DEF RestoreFails, Goes, Stops, files, fates, runtime, Alone,
     NoJob, Ended, Nested
<1>30. ASSUME NEW t \in Tasks, Discard(t) PROVE Alone'
  BY ZenonT(60), <1>a, <1>n, NamesAssumption, <1>30 DEF Discard, Goes, files, fates, runtime, Alone, NoJob, Ended,
     Nested
<1>31. ASSUME NEW t \in Tasks, Drop(t) PROVE Alone'
  BY ZenonT(60), <1>a, <1>n, NamesAssumption, <1>31 DEF Drop, Goes, NoJob, files, fates, runtime, Alone, NoJob,
     Ended, Nested
<1>32. ASSUME NEW t \in Tasks, CancelWaiting(t) PROVE Alone'
  BY ZenonT(60), <1>a, <1>n, NamesAssumption, <1>32 DEF CancelWaiting, Goes, files, fates, runtime, Alone, NoJob,
     Ended, Nested
<1>33. ASSUME NEW t \in Tasks, Cancel(t) PROVE Alone'
  BY ZenonT(60), <1>a, <1>n, NamesAssumption, <1>33 DEF Cancel, Goes, files, fates, runtime, Alone, NoJob, Ended,
     Nested
<1>34. ASSUME NEW t \in Tasks, CancelStops(t) PROVE Alone'
  BY ZenonT(60), <1>a, <1>n, NamesAssumption, <1>34 DEF CancelStops, Goes, Stops, files, fates, runtime, Alone,
     NoJob, Ended, Nested
<1>35. ASSUME Quit PROVE Alone'
  BY ZenonT(60), <1>a, <1>n, NamesAssumption, <1>35 DEF Quit, files, fates, runtime, Alone, NoJob, Ended, Nested
<1>36. ASSUME QuitDispose PROVE Alone'
  BY ZenonT(60), <1>a, <1>n, NamesAssumption, <1>36 DEF QuitDispose, Disposed, AbortClears, files, fates, runtime,
     Alone, NoJob, Ended, Nested
<1>37. ASSUME QuitReleases PROVE Alone'
  BY ZenonT(60), <1>a, <1>n, NamesAssumption, <1>37 DEF QuitReleases, files, fates, runtime, Alone, NoJob, Ended,
     Nested
<1>38. ASSUME NEW h \in {inst, surf}, NEW l \in Lines, Prompt(h, l) PROVE Alone'
  BY ZenonT(60), <1>a, <1>n, NamesAssumption, <1>38 DEF Prompt, Suspended, files, fates, runtime, Alone, NoJob,
     Ended, Nested
<1>39. ASSUME NEW h \in {inst, surf}, NEW l \in Lines, Steer(h, l) PROVE Alone'
  BY ZenonT(60), <1>a, <1>n, NamesAssumption, <1>39 DEF Steer, Suspended, files, fates, runtime, Alone, NoJob,
     Ended, Nested
<1>40. ASSUME Esc PROVE Alone'
  BY ZenonT(60), <1>a, <1>n, NamesAssumption, <1>40 DEF Esc, Suspended, files, fates, runtime, Alone, NoJob,
     Ended, Nested
<1>41. ASSUME NEW h \in Harnesses, TurnEnds(h) PROVE Alone'
  BY ZenonT(60), <1>a, <1>n, NamesAssumption, <1>41 DEF TurnEnds, Suspended, files, fates, runtime, Alone, NoJob,
     Ended, Nested
<1>42. ASSUME NEW h \in Harnesses, NEW l \in Lines, Commit(h, l) PROVE Alone'
  BY ZenonT(60), <1>a, <1>n, NamesAssumption, <1>42 DEF Commit, Suspended, files, fates, runtime, Alone, NoJob,
     Ended, Nested
<1>43. ASSUME NEW f \in Files, OtherTakes(f) PROVE Alone'
  BY ZenonT(60), <1>a, <1>n, NamesAssumption, <1>43 DEF OtherTakes, files, fates, runtime, Alone, NoJob, Ended,
     Nested
<1>44. ASSUME NEW f \in Files, OtherWrites(f) PROVE Alone'
  BY ZenonT(60), <1>a, <1>n, NamesAssumption, <1>44 DEF OtherWrites, files, fates, runtime, Alone, NoJob, Ended,
     Nested
<1>45. ASSUME NEW f \in Files, OtherLeaves(f) PROVE Alone'
  BY ZenonT(60), <1>a, <1>n, NamesAssumption, <1>45 DEF OtherLeaves, files, fates, runtime, Alone, NoJob, Ended,
     Nested
<1> QED
  BY <1>1, <1>2, <1>3, <1>4, <1>5, <1>6, <1>7, <1>8, <1>9, <1>10, <1>11, <1>12, <1>13, <1>14, <1>15, <1>16,
     <1>17, <1>18, <1>19, <1>20, <1>21, <1>22, <1>23, <1>24, <1>25, <1>26, <1>27, <1>28, <1>29, <1>30, <1>31,
     <1>32, <1>33, <1>34, <1>35, <1>36, <1>37, <1>38, <1>39, <1>40, <1>41, <1>42, <1>43, <1>44, <1>45 DEF Next,
     Swap, Interrupt, Send, Turn, Other

\* Left is kept by a step that moves the installed harness only.
LEMMA LeftMoves ==
  ASSUME Typed, Left, NEW turn, NEW run, NEW queue, NEW next, Moved(turn, run, queue, next), turn = "idle" => run = {}
  PROVE  Left'
<1>a. harness \in [Harnesses -> Sessions] /\ inst \in Harnesses /\ surf \in Harnesses /\ built = inst /\ surf <= inst
      /\ inst \in Nat /\ surf \in Nat /\ \A h \in Harnesses : h \in Nat
  BY DEF Typed, TypeOK, Harnesses
<1> QED
  BY <1>a DEF Moved, Left, Waiting

\* Left
LEMMA LeftKept ==
  ASSUME Typed, Alone, Locals, Counts, Left, Torn, Next
  PROVE  Left'
<1>a. harness \in [Harnesses -> Sessions] /\ inst \in Harnesses /\ surf \in Harnesses /\ built = inst /\ surf <= inst
      /\ inst \in Nat /\ surf \in Nat /\ \A h \in Harnesses : h \in Nat
  BY DEF Typed, TypeOK, Harnesses
<1>j. \A t \in Tasks : job[t].old \in Nat
  BY DEF Typed, TypeOK, Harnesses
<1>1. ASSUME NEW t \in Tasks, NEW k \in Kinds, NEW p \in Tasks \cup {None}, Request(t, k, p) PROVE Left'
  BY <1>a, <1>1 DEF Request, files, runtime, fates, Left, Waiting, Blank
<1>2. ASSUME NEW t \in Tasks, Start(t) PROVE Left'
  BY <1>a, <1>2 DEF Start, files, runtime, fates, Left, Waiting, Blank
<1>3. ASSUME NEW t \in Tasks, Settle(t) PROVE Left'
  BY <1>a, <1>3 DEF Settle, files, runtime, fates, Left, Waiting, Blank
<1>4. ASSUME NEW t \in Tasks, SettleReload(t) PROVE Left'
  BY <1>a, <1>4 DEF SettleReload, files, runtime, fates, Left, Waiting, Blank
<1>5. ASSUME NEW t \in Tasks, NEW f \in Files, TakeTarget(t, f) PROVE Left'
  BY <1>a, <1>5 DEF TakeTarget, files, runtime, fates, Left, Waiting, Blank
<1>6. ASSUME NEW t \in Tasks, NEW f \in Files, TakeDestination(t, f) PROVE Left'
  BY <1>a, <1>6 DEF TakeDestination, files, runtime, fates, Left, Waiting, Blank
<1>7. ASSUME NEW t \in Tasks, OpenTarget(t) PROVE Left'
  BY <1>a, <1>7 DEF OpenTarget, files, runtime, fates, Left, Waiting, Blank
<1>8. ASSUME NEW t \in Tasks, HookCancels(t) PROVE Left'
  BY <1>a, <1>8 DEF HookCancels, files, runtime, fates, Left, Waiting, Blank
<1>9. ASSUME NEW t \in Tasks, Create(t) PROVE Left'
  BY <1>a, <1>9 DEF Create, files, runtime, fates, Left, Waiting, Blank
<1>10. ASSUME NEW t \in Tasks, LockNew(t) PROVE Left'
  BY <1>a, <1>10 DEF LockNew, files, runtime, fates, Left, Waiting, Blank
<1>11. ASSUME NEW t \in Tasks, SwitchUncontended(t) PROVE Left'
  BY <1>a, <1>11 DEF SwitchUncontended, files, runtime, fates, Left, Waiting, Blank
<1>12. ASSUME NEW t \in Tasks, AnswerReadOnly(t) PROVE Left'
  BY <1>a, <1>12 DEF AnswerReadOnly, files, runtime, fates, Left, Waiting, Blank
<1>13. ASSUME NEW t \in Tasks, AnswerFork(t) PROVE Left'
  BY <1>a, <1>13 DEF AnswerFork, files, runtime, fates, Left, Waiting, Blank
<1>14. ASSUME NEW t \in Tasks, AnswerCancel(t) PROVE Left'
  BY <1>a, <1>14 DEF AnswerCancel, files, runtime, fates, Left, Waiting, Blank
<1>15. ASSUME NEW t \in Tasks, Copy(t) PROVE Left'
  BY <1>a, <1>15 DEF Copy, files, runtime, fates, Left, Waiting, Blank
<1>16. ASSUME NEW t \in Tasks, OpenCopy(t) PROVE Left'
  BY <1>a, <1>16 DEF OpenCopy, files, runtime, fates, Left, Waiting, Blank
<1>17. ASSUME NEW t \in Tasks, GiveBackFirst(t) PROVE Left'
  <2>1. harness' = Emptied(inst) /\ inst' = inst
    BY <1>17 DEF GiveBackFirst, runtime
  <2>2. Moved(harness[inst].turn, harness[inst].run, {}, {})
    BY <2>1, EmptiedMoves
  <2> QED
    BY <2>2, LeftMoves DEF Left
<1>18. ASSUME NEW t \in Tasks, FirstGiven(t) PROVE Left'
  BY <1>a, <1>18 DEF FirstGiven, files, runtime, fates, Left, Waiting, Blank
<1>19. ASSUME NEW t \in Tasks, Teardown(t) PROVE Left'
  <2>1. harness' = Disposed(inst) /\ inst' = inst
    BY <1>19 DEF Teardown, runtime
  <2>2. \/ Moved(harness[inst].turn, harness[inst].run, harness[inst].queue, harness[inst].next) /\ harness[inst].turn = "idle"
        \/ Moved("cut", harness[inst].run, {}, harness[inst].next)
    BY <2>1, DisposedMoves
  <2> QED
    BY <2>2, LeftMoves DEF Left
<1>20. ASSUME NEW t \in Tasks, TornDown(t) PROVE Left'
  <2>1. inst' = inst /\ (harness' = harness \/ harness' = Emptied(inst))
    BY <1>20 DEF TornDown, runtime
  <2>2. CASE harness' = harness
    BY <2>1, <2>2 DEF Left, Waiting
  <2>3. CASE harness' = Emptied(inst)
    <3>1. Moved(harness[inst].turn, harness[inst].run, {}, {})
      BY <2>1, <2>3, EmptiedMoves
    <3> QED
      BY <3>1, LeftMoves DEF Left
  <2> QED
    BY <2>1, <2>2, <2>3
<1>21. ASSUME NEW t \in Tasks, SecondGiven(t) PROVE Left'
  BY <1>a, <1>21 DEF SecondGiven, files, runtime, fates, Left, Waiting, Blank
<1>22. ASSUME NEW t \in Tasks, Install(t) PROVE Left'
  <2>1. pc[t] = "build" /\ job[t].kind \in Swaps
    BY <1>22 DEF Install
  <2>2. harness[inst].disposed /\ harness[inst].turn = "idle" /\ Waiting(inst) = {}
    BY <2>1, RunningIs DEF Torn
  <2>3. /\ inst + 1 \in Harnesses /\ inst' = inst + 1 /\ \A h \in Harnesses : h # inst + 1 => harness'[h] = harness[h]
        /\ harness'[inst + 1].turn = "idle" /\ harness'[inst + 1].run = {}
    BY ZenonT(60), <1>22, InstallMoves DEF Blank
  <2>7. ASSUME NEW h \in Harnesses, h < inst'
        PROVE  harness'[h].disposed /\ harness'[h].turn = "idle" /\ harness'[h].run = {} /\ Waiting(h)' = {}
    <3>1. CASE h = inst
      BY <1>a, <2>2, <2>3, <3>1 DEF Left, Waiting
    <3>2. CASE h < inst
      BY <1>a, <2>2, <2>3, <3>2 DEF Left, Waiting
    <3> QED
      BY <1>a, <2>3, <2>7, <3>1, <3>2
  <2>8. \A h \in Harnesses : h > inst' => harness'[h] = Blank
    BY <1>a, <2>3 DEF Left
  <2>9. harness'[inst'].turn = "idle" => harness'[inst'].run = {}
    BY <2>3
  <2> QED
    BY <2>7, <2>8, <2>9 DEF Left
<1>23. ASSUME NEW t \in Tasks, Reload(t) PROVE Left'
  <2>1. pc[t] \in {"build", "restore"} /\ Rebuild(t, "after")
    BY <1>23 DEF Reload
  <2>2. harness[inst].disposed /\ harness[inst].turn = "idle"
    BY <2>1, RunningIs DEF Torn
  <2>3. /\ inst + 1 \in Harnesses /\ inst' = inst + 1 /\ \A h \in Harnesses : h \notin {inst, inst + 1} => harness'[h] = harness[h]
        /\ harness'[inst].disposed = harness[inst].disposed /\ harness'[inst].turn = harness[inst].turn
        /\ harness'[inst].run = harness[inst].run /\ harness'[inst].queue = {} /\ harness'[inst].next = {}
        /\ harness'[inst + 1].turn = "idle" /\ harness'[inst + 1].run = {}
    BY <1>a, <2>1, RebuildMoves DEF Blank, Sessions
  <2>7. ASSUME NEW h \in Harnesses, h < inst'
        PROVE  harness'[h].disposed /\ harness'[h].turn = "idle" /\ harness'[h].run = {} /\ Waiting(h)' = {}
    <3>1. CASE h = inst
      BY <1>a, <2>2, <2>3, <3>1 DEF Left, Waiting
    <3>2. CASE h < inst
      BY <1>a, <2>2, <2>3, <3>2 DEF Left, Waiting
    <3> QED
      BY <1>a, <2>3, <2>7, <3>1, <3>2
  <2>8. \A h \in Harnesses : h > inst' => harness'[h] = Blank
    BY <1>a, <2>3 DEF Left
  <2>9. harness'[inst'].turn = "idle" => harness'[inst'].run = {}
    BY <2>3
  <2> QED
    BY <2>7, <2>8, <2>9 DEF Left
<1>24. ASSUME NEW t \in Tasks, BuildFails(t) PROVE Left'
  BY <1>a, <1>24 DEF BuildFails, files, runtime, fates, Left, Waiting, Blank
<1>25. ASSUME NEW t \in Tasks, Restore(t) PROVE Left'
  <2>1. pc[t] \in {"build", "restore"} /\ Rebuild(t, "resettle")
    BY <1>25 DEF Restore
  <2>2. harness[inst].disposed /\ harness[inst].turn = "idle"
    BY <2>1, RunningIs DEF Torn
  <2>3. /\ inst + 1 \in Harnesses /\ inst' = inst + 1 /\ \A h \in Harnesses : h \notin {inst, inst + 1} => harness'[h] = harness[h]
        /\ harness'[inst].disposed = harness[inst].disposed /\ harness'[inst].turn = harness[inst].turn
        /\ harness'[inst].run = harness[inst].run /\ harness'[inst].queue = {} /\ harness'[inst].next = {}
        /\ harness'[inst + 1].turn = "idle" /\ harness'[inst + 1].run = {}
    BY <1>a, <2>1, RebuildMoves DEF Blank, Sessions
  <2>7. ASSUME NEW h \in Harnesses, h < inst'
        PROVE  harness'[h].disposed /\ harness'[h].turn = "idle" /\ harness'[h].run = {} /\ Waiting(h)' = {}
    <3>1. CASE h = inst
      BY <1>a, <2>2, <2>3, <3>1 DEF Left, Waiting
    <3>2. CASE h < inst
      BY <1>a, <2>2, <2>3, <3>2 DEF Left, Waiting
    <3> QED
      BY <1>a, <2>3, <2>7, <3>1, <3>2
  <2>8. \A h \in Harnesses : h > inst' => harness'[h] = Blank
    BY <1>a, <2>3 DEF Left
  <2>9. harness'[inst'].turn = "idle" => harness'[inst'].run = {}
    BY <2>3
  <2> QED
    BY <2>7, <2>8, <2>9 DEF Left
<1>26. ASSUME NEW t \in Tasks, Kept(t) PROVE Left'
  BY <1>a, <1>26 DEF Kept, files, runtime, fates, Left, Waiting, Blank
<1>27. ASSUME NEW t \in Tasks, Rebind(t) PROVE Left'
  <2>1. Moved(harness[inst].turn, harness[inst].run, harness[inst].queue, harness[inst].next)
    BY <1>27, RebindMoves
  <2> QED
    BY <2>1, LeftMoves DEF Left
<1>28. ASSUME NEW t \in Tasks, Raises(t) PROVE Left'
  BY <1>a, <1>28 DEF Raises, files, runtime, fates, Left, Waiting, Blank
<1>29. ASSUME NEW t \in Tasks, RestoreFails(t) PROVE Left'
  <2>1. /\ inst' = inst /\ Stops({inst, job[t].old}) /\ pc[t] \in {"restore", "resettle"}
    BY <1>29 DEF RestoreFails
  <2>2. job[t].old \in Nat /\ job[t].old <= inst
    BY <1>a, <1>j, <2>1, RunningIs DEF Locals, Closing
  <2> DEFINE S == {inst, job[t].old}
  <2>3. Stops(S) /\ \A h \in Harnesses : h > inst => h \notin S
    BY <1>a, <2>1, <2>2
  <2> HIDE DEF S
  <2>4. /\ \A h \in Harnesses :
             /\ harness'[h].turn = harness[h].turn /\ harness'[h].run = harness[h].run
             /\ harness'[h].queue = harness[h].queue /\ harness'[h].next = harness[h].next
             /\ harness[h].disposed => harness'[h].disposed
        /\ \A h \in Harnesses : h > inst => harness'[h] = harness[h]
    BY <2>3, StopMoves
  <2>7. ASSUME NEW h \in Harnesses, h < inst'
        PROVE  harness'[h].disposed /\ harness'[h].turn = "idle" /\ harness'[h].run = {} /\ Waiting(h)' = {}
    BY <1>a, <2>1, <2>4, <2>7 DEF Left, Waiting
  <2>8. \A h \in Harnesses : h > inst' => harness'[h] = Blank
    BY <1>a, <2>1, <2>4 DEF Left
  <2>9. harness'[inst'].turn = "idle" => harness'[inst'].run = {}
    BY <1>a, <2>1, <2>4 DEF Left
  <2> QED
    BY <2>7, <2>8, <2>9 DEF Left
<1>30. ASSUME NEW t \in Tasks, Discard(t) PROVE Left'
  BY <1>a, <1>30 DEF Discard, files, runtime, fates, Left, Waiting, Blank
<1>31. ASSUME NEW t \in Tasks, Drop(t) PROVE Left'
  BY <1>a, <1>31 DEF Drop, files, runtime, fates, Left, Waiting, Blank
<1>32. ASSUME NEW t \in Tasks, CancelWaiting(t) PROVE Left'
  BY <1>a, <1>32 DEF CancelWaiting, files, runtime, fates, Left, Waiting, Blank
<1>33. ASSUME NEW t \in Tasks, Cancel(t) PROVE Left'
  BY <1>a, <1>33 DEF Cancel, files, runtime, fates, Left, Waiting, Blank
<1>34. ASSUME NEW t \in Tasks, CancelStops(t) PROVE Left'
  <2>1. /\ inst' = inst /\ pc[t] \in {"dispose", "build", "restore", "resettle"}
    BY <1>34 DEF CancelStops
  <2>2. job[t].old \in Nat /\ job[t].old <= inst
    BY <1>a, <1>j, <2>1, RunningIs DEF Locals, Closing
  <2> DEFINE S == {inst} \cup IF pc[t] \in {"restore", "resettle"} THEN {job[t].old} ELSE {}
  <2>3. Stops(S) /\ \A h \in Harnesses : h > inst => h \notin S
    BY <1>a, <2>1, <2>2, <1>34 DEF CancelStops
  <2> HIDE DEF S
  <2>4. /\ \A h \in Harnesses :
             /\ harness'[h].turn = harness[h].turn /\ harness'[h].run = harness[h].run
             /\ harness'[h].queue = harness[h].queue /\ harness'[h].next = harness[h].next
             /\ harness[h].disposed => harness'[h].disposed
        /\ \A h \in Harnesses : h > inst => harness'[h] = harness[h]
    BY <2>3, StopMoves
  <2>7. ASSUME NEW h \in Harnesses, h < inst'
        PROVE  harness'[h].disposed /\ harness'[h].turn = "idle" /\ harness'[h].run = {} /\ Waiting(h)' = {}
    BY <1>a, <2>1, <2>4, <2>7 DEF Left, Waiting
  <2>8. \A h \in Harnesses : h > inst' => harness'[h] = Blank
    BY <1>a, <2>1, <2>4 DEF Left
  <2>9. harness'[inst'].turn = "idle" => harness'[inst'].run = {}
    BY <1>a, <2>1, <2>4 DEF Left
  <2> QED
    BY <2>7, <2>8, <2>9 DEF Left
<1>35. ASSUME Quit PROVE Left'
  BY <1>a, <1>35 DEF Quit, files, runtime, fates, Left, Waiting, Blank
<1>36. ASSUME QuitDispose PROVE Left'
  <2>1. harness' = Disposed(inst) /\ inst' = inst
    BY <1>36 DEF QuitDispose, runtime
  <2>2. \/ Moved(harness[inst].turn, harness[inst].run, harness[inst].queue, harness[inst].next) /\ harness[inst].turn = "idle"
        \/ Moved("cut", harness[inst].run, {}, harness[inst].next)
    BY <2>1, DisposedMoves
  <2> QED
    BY <2>2, LeftMoves DEF Left
<1>37. ASSUME QuitReleases PROVE Left'
  BY <1>a, <1>37 DEF QuitReleases, files, runtime, fates, Left, Waiting, Blank
<1>38. ASSUME NEW h \in {inst, surf}, NEW l \in Lines, Prompt(h, l) PROVE Left'
  <2>1. Moved("run", {l} \cup harness[inst].next, harness[inst].queue, {})
    BY <1>38, PromptMoves
  <2> QED
    BY <2>1, LeftMoves DEF Left
<1>39. ASSUME NEW h \in {inst, surf}, NEW l \in Lines, Steer(h, l) PROVE Left'
  <2>1. Moved(harness[inst].turn, harness[inst].run, harness[inst].queue \cup {l}, harness[inst].next)
    BY <1>39, SteerMoves
  <2> QED
    BY <2>1, LeftMoves DEF Left
<1>40. ASSUME Esc PROVE Left'
  <2>1. Moved("esc", harness[inst].run, {}, harness[inst].next)
    BY <1>40, EscMoves
  <2> QED
    BY <2>1, LeftMoves DEF Left
<1>41. ASSUME NEW h \in Harnesses, TurnEnds(h) PROVE Left'
  <2>1. Moved("idle", {}, harness[inst].queue, IF harness[inst].turn = "cut" THEN harness[inst].next \cup harness[inst].run ELSE harness[inst].next)
    BY <1>41, TurnMoves
  <2> QED
    BY <2>1, LeftMoves DEF Left
<1>42. ASSUME NEW h \in Harnesses, NEW l \in Lines, Commit(h, l) PROVE Left'
  <2>1. Moved("run", harness[inst].run \ {l}, harness[inst].queue \ {l}, harness[inst].next)
    BY <1>42, CommitMoves
  <2> QED
    BY <2>1, LeftMoves DEF Left
<1>43. ASSUME NEW f \in Files, OtherTakes(f) PROVE Left'
  BY <1>a, <1>43 DEF OtherTakes, files, runtime, fates, Left, Waiting, Blank
<1>44. ASSUME NEW f \in Files, OtherWrites(f) PROVE Left'
  BY <1>a, <1>44 DEF OtherWrites, files, runtime, fates, Left, Waiting, Blank
<1>45. ASSUME NEW f \in Files, OtherLeaves(f) PROVE Left'
  BY <1>a, <1>45 DEF OtherLeaves, files, runtime, fates, Left, Waiting, Blank
<1> QED
  BY <1>1, <1>2, <1>3, <1>4, <1>5, <1>6, <1>7, <1>8, <1>9, <1>10, <1>11, <1>12, <1>13, <1>14, <1>15, <1>16,
     <1>17, <1>18, <1>19, <1>20, <1>21, <1>22, <1>23, <1>24, <1>25, <1>26, <1>27, <1>28, <1>29, <1>30, <1>31,
     <1>32, <1>33, <1>34, <1>35, <1>36, <1>37, <1>38, <1>39, <1>40, <1>41, <1>42, <1>43, <1>44, <1>45 DEF Next,
     Swap, Interrupt, Send, Turn, Other

-----------------------------------------------------------------------------
\* A step of the running transition, with what becomes of its locals.
At(t, S) == t # None /\ lifecycle = t /\ pc[t] \in S
On(t, where) == /\ lifecycle' = t /\ pc'[t] = where /\ job'[t] = job[t]
                /\ \A u \in Tasks : u # t => pc'[u] = pc[u] /\ job'[u] = job[u]
Does(t, where, target, lock, contended, made, knows, ro, old) ==
  /\ lifecycle' = t /\ pc'[t] = where /\ job'[t].kind = job[t].kind
  /\ job'[t].target = target /\ job'[t].lock = lock /\ job'[t].contended = contended /\ job'[t].made = made
  /\ job'[t].knows = knows /\ job'[t].ro = ro /\ job'[t].old = old
  /\ \A u \in Tasks : u # t => pc'[u] = pc[u] /\ job'[u] = job[u]

LEMMA SettleDoes ==
  ASSUME Typed, Alone, NEW t \in Tasks, Settle(t)
  PROVE  /\ At(t, {"settle"})
         /\ job[t].kind \in {"new", "fork", "import"} /\ harness[inst].turn # "esc"
         /\ On(t, "hook")
         /\ UNCHANGED <<scope, owner, text, everOther, inst, surf, built, adopted, stopped, unbound, everLive, harness, quit, accepted, said, returned, cleared, named>>
<1>a. pc \in [Tasks -> {"wait"} \cup Asked \cup Blocking \cup Ended] /\ job \in [Tasks -> Jobs]
  BY DEF Typed, TypeOK
<1>1. At(t, {"settle"}) /\ job[t].kind \in {"new", "fork", "import"} /\ harness[inst].turn # "esc"
  BY RunningIs DEF Settle, Goes, Settled, files, fates, runtime, At
<1>2. /\ On(t, "hook")
      /\ UNCHANGED <<scope, owner, text, everOther, inst, surf, built, adopted, stopped, unbound, everLive, harness, quit, accepted, said, returned, cleared, named>>
  BY <1>a, <1>1 DEF Settle, Goes, Settled, files, fates, runtime, At, On, Does, Jobs
<1> QED
  BY <1>1, <1>2

LEMMA SettleReloadDoes ==
  ASSUME Typed, Alone, NEW t \in Tasks, SettleReload(t)
  PROVE  /\ At(t, {"settle"})
         /\ job[t].kind = "reload" /\ harness[inst].turn = "idle"
         /\ Does(t, "shut", job[t].target, job[t].lock, job[t].contended, job[t].made, job[t].knows, job[t].ro, inst)
         /\ UNCHANGED <<scope, owner, text, everOther, inst, surf, built, adopted, stopped, unbound, everLive, harness, quit, accepted, said, returned, cleared, named>>
<1>a. pc \in [Tasks -> {"wait"} \cup Asked \cup Blocking \cup Ended] /\ job \in [Tasks -> Jobs]
  BY DEF Typed, TypeOK
<1>1. At(t, {"settle"}) /\ job[t].kind = "reload" /\ harness[inst].turn = "idle"
  BY RunningIs DEF SettleReload, Goes, Settled, files, fates, runtime, At
<1>2. /\ Does(t, "shut", job[t].target, job[t].lock, job[t].contended, job[t].made, job[t].knows, job[t].ro, inst)
      /\ UNCHANGED <<scope, owner, text, everOther, inst, surf, built, adopted, stopped, unbound, everLive, harness, quit, accepted, said, returned, cleared, named>>
  BY <1>a, <1>1 DEF SettleReload, Goes, Settled, files, fates, runtime, At, On, Does, Jobs
<1> QED
  BY <1>1, <1>2

LEMMA TakeTargetDoes ==
  ASSUME Typed, Alone, NEW t \in Tasks, NEW f \in Files, TakeTarget(t, f)
  PROVE  /\ At(t, {"settle"})
         /\ job[t].kind = "resume" /\ harness[inst].turn # "esc" /\ text[f] # <<>> /\ (scope.own \/ f # harness[inst].file)
         /\ (Unusable(f) => On(t, "fail") /\ owner' = owner)
         /\ (~Unusable(f) /\ Held(f) => Does(t, "open", f, job[t].lock, TRUE, job[t].made, job[t].knows, job[t].ro, job[t].old) /\ owner' = owner)
         /\ (~Unusable(f) /\ ~Held(f) => Does(t, "open", f, f, job[t].contended, job[t].made, job[t].knows, job[t].ro, job[t].old) /\ owner' = Taken(f))
         /\ UNCHANGED <<scope, text, everOther, inst, surf, built, adopted, stopped, unbound, everLive, harness, quit, accepted, said, returned, cleared, named>>
<1>a. pc \in [Tasks -> {"wait"} \cup Asked \cup Blocking \cup Ended] /\ job \in [Tasks -> Jobs]
  BY DEF Typed, TypeOK
<1>1. At(t, {"settle"}) /\ job[t].kind = "resume" /\ harness[inst].turn # "esc" /\ text[f] # <<>> /\ (scope.own \/ f # harness[inst].file)
  BY RunningIs DEF TakeTarget, Goes, Settled, files, fates, runtime, At
<1>2. /\ (Unusable(f) => On(t, "fail") /\ owner' = owner)
      /\ (~Unusable(f) /\ Held(f) => Does(t, "open", f, job[t].lock, TRUE, job[t].made, job[t].knows, job[t].ro, job[t].old) /\ owner' = owner)
      /\ (~Unusable(f) /\ ~Held(f) => Does(t, "open", f, f, job[t].contended, job[t].made, job[t].knows, job[t].ro, job[t].old) /\ owner' = Taken(f))
      /\ UNCHANGED <<scope, text, everOther, inst, surf, built, adopted, stopped, unbound, everLive, harness, quit, accepted, said, returned, cleared, named>>
  BY <1>a, <1>1 DEF TakeTarget, Goes, Settled, files, fates, runtime, At, On, Does, Jobs
<1> QED
  BY <1>1, <1>2

LEMMA TakeDestinationDoes ==
  ASSUME Typed, Alone, NEW t \in Tasks, NEW f \in Files, TakeDestination(t, f)
  PROVE  /\ At(t, {"hook"})
         /\ job[t].kind = "import" /\ f \in Old \cup {FreshName} /\ (scope.own \/ f # harness[inst].file)
         /\ (Unusable(f) \/ Held(f) => On(t, "fail") /\ owner' = owner)
         /\ (~(Unusable(f) \/ Held(f)) => Does(t, "copy", f, f, job[t].contended, job[t].made, job[t].knows, job[t].ro, job[t].old) /\ owner' = Taken(f))
         /\ UNCHANGED <<scope, text, everOther, inst, surf, built, adopted, stopped, unbound, everLive, harness, quit, accepted, said, returned, cleared, named>>
<1>a. pc \in [Tasks -> {"wait"} \cup Asked \cup Blocking \cup Ended] /\ job \in [Tasks -> Jobs]
  BY DEF Typed, TypeOK
<1>1. At(t, {"hook"}) /\ job[t].kind = "import" /\ f \in Old \cup {FreshName} /\ (scope.own \/ f # harness[inst].file)
  BY RunningIs DEF TakeDestination, Goes, HookReturns, files, fates, runtime, At
<1>2. /\ (Unusable(f) \/ Held(f) => On(t, "fail") /\ owner' = owner)
      /\ (~(Unusable(f) \/ Held(f)) => Does(t, "copy", f, f, job[t].contended, job[t].made, job[t].knows, job[t].ro, job[t].old) /\ owner' = Taken(f))
      /\ UNCHANGED <<scope, text, everOther, inst, surf, built, adopted, stopped, unbound, everLive, harness, quit, accepted, said, returned, cleared, named>>
  BY <1>a, <1>1 DEF TakeDestination, Goes, HookReturns, files, fates, runtime, At, On, Does, Jobs
<1> QED
  BY <1>1, <1>2

LEMMA OpenTargetDoes ==
  ASSUME Typed, Alone, NEW t \in Tasks, OpenTarget(t)
  PROVE  /\ At(t, {"open"})
         /\ Does(t, "hook", job[t].target, job[t].lock, job[t].contended, job[t].made, text[job[t].target], job[t].ro, job[t].old)
         /\ UNCHANGED <<scope, owner, text, everOther, inst, surf, built, adopted, stopped, unbound, everLive, harness, quit, accepted, said, returned, cleared, named>>
<1>a. pc \in [Tasks -> {"wait"} \cup Asked \cup Blocking \cup Ended] /\ job \in [Tasks -> Jobs]
  BY DEF Typed, TypeOK
<1>1. At(t, {"open"})
  BY RunningIs DEF OpenTarget, Goes, files, fates, runtime, At
<1>2. /\ Does(t, "hook", job[t].target, job[t].lock, job[t].contended, job[t].made, text[job[t].target], job[t].ro, job[t].old)
      /\ UNCHANGED <<scope, owner, text, everOther, inst, surf, built, adopted, stopped, unbound, everLive, harness, quit, accepted, said, returned, cleared, named>>
  BY <1>a, <1>1 DEF OpenTarget, Goes, files, fates, runtime, At, On, Does, Jobs
<1> QED
  BY <1>1, <1>2

LEMMA HookCancelsDoes ==
  ASSUME Typed, Alone, NEW t \in Tasks, HookCancels(t)
  PROVE  /\ At(t, {"hook"})
         /\ On(t, "drop")
         /\ UNCHANGED <<scope, owner, text, everOther, inst, surf, built, adopted, stopped, unbound, everLive, harness, quit, accepted, said, returned, cleared, named>>
<1>a. pc \in [Tasks -> {"wait"} \cup Asked \cup Blocking \cup Ended] /\ job \in [Tasks -> Jobs]
  BY DEF Typed, TypeOK
<1>1. At(t, {"hook"})
  BY RunningIs DEF HookCancels, Goes, HookReturns, files, fates, runtime, At
<1>2. /\ On(t, "drop")
      /\ UNCHANGED <<scope, owner, text, everOther, inst, surf, built, adopted, stopped, unbound, everLive, harness, quit, accepted, said, returned, cleared, named>>
  BY <1>a, <1>1 DEF HookCancels, Goes, HookReturns, files, fates, runtime, At, On, Does, Jobs
<1> QED
  BY <1>1, <1>2

LEMMA CreateDoes ==
  ASSUME Typed, Alone, NEW t \in Tasks, Create(t)
  PROVE  /\ At(t, {"hook"})
         /\ job[t].kind \in {"new", "fork"}
         /\ Does(t, "newlock", FreshName, job[t].lock, FALSE, job[t].made, (IF job[t].kind = "new" THEN <<"first">> ELSE text[harness[inst].file]), job[t].ro, job[t].old) /\ text' = [text EXCEPT ![FreshName] = (IF job[t].kind = "new" THEN <<"first">> ELSE text[harness[inst].file])] /\ named' = named \cup {FreshName}
         /\ UNCHANGED <<scope, owner, everOther, inst, surf, built, adopted, stopped, unbound, everLive, harness, quit, accepted, said, returned, cleared>>
<1>a. pc \in [Tasks -> {"wait"} \cup Asked \cup Blocking \cup Ended] /\ job \in [Tasks -> Jobs]
  BY DEF Typed, TypeOK
<1>1. At(t, {"hook"}) /\ job[t].kind \in {"new", "fork"}
  BY RunningIs DEF Create, Goes, HookReturns, Publish, files, fates, runtime, At
<1>2. /\ Does(t, "newlock", FreshName, job[t].lock, FALSE, job[t].made, (IF job[t].kind = "new" THEN <<"first">> ELSE text[harness[inst].file]), job[t].ro, job[t].old) /\ text' = [text EXCEPT ![FreshName] = (IF job[t].kind = "new" THEN <<"first">> ELSE text[harness[inst].file])] /\ named' = named \cup {FreshName}
      /\ UNCHANGED <<scope, owner, everOther, inst, surf, built, adopted, stopped, unbound, everLive, harness, quit, accepted, said, returned, cleared>>
  BY <1>a, <1>1 DEF Create, Goes, HookReturns, Publish, files, fates, runtime, At, On, Does, Jobs
<1> QED
  BY <1>1, <1>2

LEMMA AnswerForkDoes ==
  ASSUME Typed, Alone, NEW t \in Tasks, AnswerFork(t)
  PROVE  /\ At(t, {"ask"})
         /\ Does(t, "newlock", FreshName, job[t].lock, FALSE, job[t].made, text[job[t].target], job[t].ro, job[t].old) /\ text' = [text EXCEPT ![FreshName] = text[job[t].target]] /\ named' = named \cup {FreshName}
         /\ UNCHANGED <<scope, owner, everOther, inst, surf, built, adopted, stopped, unbound, everLive, harness, quit, accepted, said, returned, cleared>>
<1>a. pc \in [Tasks -> {"wait"} \cup Asked \cup Blocking \cup Ended] /\ job \in [Tasks -> Jobs]
  BY DEF Typed, TypeOK
<1>1. At(t, {"ask"})
  BY RunningIs DEF AnswerFork, Goes, Publish, files, fates, runtime, At
<1>2. /\ Does(t, "newlock", FreshName, job[t].lock, FALSE, job[t].made, text[job[t].target], job[t].ro, job[t].old) /\ text' = [text EXCEPT ![FreshName] = text[job[t].target]] /\ named' = named \cup {FreshName}
      /\ UNCHANGED <<scope, owner, everOther, inst, surf, built, adopted, stopped, unbound, everLive, harness, quit, accepted, said, returned, cleared>>
  BY <1>a, <1>1 DEF AnswerFork, Goes, Publish, files, fates, runtime, At, On, Does, Jobs
<1> QED
  BY <1>1, <1>2

LEMMA LockNewDoes ==
  ASSUME Typed, Alone, NEW t \in Tasks, LockNew(t)
  PROVE  /\ At(t, {"newlock"})
         /\ (Unusable(job[t].target) => Does(t, "fail", job[t].target, job[t].lock, job[t].contended, job[t].target, job[t].knows, job[t].ro, job[t].old) /\ owner' = owner)
         /\ (~Unusable(job[t].target) /\ Held(job[t].target) => On(t, "fail") /\ owner' = owner)
         /\ (~Unusable(job[t].target) /\ ~Held(job[t].target) => Does(t, "begin", job[t].target, job[t].target, job[t].contended, job[t].target, job[t].knows, job[t].ro, job[t].old) /\ owner' = Taken(job[t].target))
         /\ UNCHANGED <<scope, text, everOther, inst, surf, built, adopted, stopped, unbound, everLive, harness, quit, accepted, said, returned, cleared, named>>
<1>a. pc \in [Tasks -> {"wait"} \cup Asked \cup Blocking \cup Ended] /\ job \in [Tasks -> Jobs]
  BY DEF Typed, TypeOK
<1>1. At(t, {"newlock"})
  BY RunningIs DEF LockNew, Goes, files, fates, runtime, At
<1>2. /\ (Unusable(job[t].target) => Does(t, "fail", job[t].target, job[t].lock, job[t].contended, job[t].target, job[t].knows, job[t].ro, job[t].old) /\ owner' = owner)
      /\ (~Unusable(job[t].target) /\ Held(job[t].target) => On(t, "fail") /\ owner' = owner)
      /\ (~Unusable(job[t].target) /\ ~Held(job[t].target) => Does(t, "begin", job[t].target, job[t].target, job[t].contended, job[t].target, job[t].knows, job[t].ro, job[t].old) /\ owner' = Taken(job[t].target))
      /\ UNCHANGED <<scope, text, everOther, inst, surf, built, adopted, stopped, unbound, everLive, harness, quit, accepted, said, returned, cleared, named>>
  BY <1>a, <1>1 DEF LockNew, Goes, files, fates, runtime, At, On, Does, Jobs
<1> QED
  BY <1>1, <1>2

LEMMA SwitchUncontendedDoes ==
  ASSUME Typed, Alone, NEW t \in Tasks, SwitchUncontended(t)
  PROVE  /\ At(t, {"hook"})
         /\ job[t].kind = "resume"
         /\ (job[t].contended => On(t, "ask"))
         /\ (~job[t].contended => On(t, "begin"))
         /\ UNCHANGED <<scope, owner, text, everOther, inst, surf, built, adopted, stopped, unbound, everLive, harness, quit, accepted, said, returned, cleared, named>>
<1>a. pc \in [Tasks -> {"wait"} \cup Asked \cup Blocking \cup Ended] /\ job \in [Tasks -> Jobs]
  BY DEF Typed, TypeOK
<1>1. At(t, {"hook"}) /\ job[t].kind = "resume"
  BY RunningIs DEF SwitchUncontended, Goes, HookReturns, files, fates, runtime, At
<1>2. /\ (job[t].contended => On(t, "ask"))
      /\ (~job[t].contended => On(t, "begin"))
      /\ UNCHANGED <<scope, owner, text, everOther, inst, surf, built, adopted, stopped, unbound, everLive, harness, quit, accepted, said, returned, cleared, named>>
  BY <1>a, <1>1 DEF SwitchUncontended, Goes, HookReturns, files, fates, runtime, At, On, Does, Jobs
<1> QED
  BY <1>1, <1>2

LEMMA AnswerReadOnlyDoes ==
  ASSUME Typed, Alone, NEW t \in Tasks, AnswerReadOnly(t)
  PROVE  /\ At(t, {"ask"})
         /\ Does(t, "begin", job[t].target, job[t].lock, job[t].contended, job[t].made, job[t].knows, TRUE, job[t].old)
         /\ UNCHANGED <<scope, owner, text, everOther, inst, surf, built, adopted, stopped, unbound, everLive, harness, quit, accepted, said, returned, cleared, named>>
<1>a. pc \in [Tasks -> {"wait"} \cup Asked \cup Blocking \cup Ended] /\ job \in [Tasks -> Jobs]
  BY DEF Typed, TypeOK
<1>1. At(t, {"ask"})
  BY RunningIs DEF AnswerReadOnly, Goes, files, fates, runtime, At
<1>2. /\ Does(t, "begin", job[t].target, job[t].lock, job[t].contended, job[t].made, job[t].knows, TRUE, job[t].old)
      /\ UNCHANGED <<scope, owner, text, everOther, inst, surf, built, adopted, stopped, unbound, everLive, harness, quit, accepted, said, returned, cleared, named>>
  BY <1>a, <1>1 DEF AnswerReadOnly, Goes, files, fates, runtime, At, On, Does, Jobs
<1> QED
  BY <1>1, <1>2

LEMMA AnswerCancelDoes ==
  ASSUME Typed, Alone, NEW t \in Tasks, AnswerCancel(t)
  PROVE  /\ At(t, {"ask"})
         /\ On(t, "drop")
         /\ UNCHANGED <<scope, owner, text, everOther, inst, surf, built, adopted, stopped, unbound, everLive, harness, quit, accepted, said, returned, cleared, named>>
<1>a. pc \in [Tasks -> {"wait"} \cup Asked \cup Blocking \cup Ended] /\ job \in [Tasks -> Jobs]
  BY DEF Typed, TypeOK
<1>1. At(t, {"ask"})
  BY RunningIs DEF AnswerCancel, Goes, files, fates, runtime, At
<1>2. /\ On(t, "drop")
      /\ UNCHANGED <<scope, owner, text, everOther, inst, surf, built, adopted, stopped, unbound, everLive, harness, quit, accepted, said, returned, cleared, named>>
  BY <1>a, <1>1 DEF AnswerCancel, Goes, files, fates, runtime, At, On, Does, Jobs
<1> QED
  BY <1>1, <1>2

LEMMA CopyDoes ==
  ASSUME Typed, Alone, NEW t \in Tasks, Copy(t)
  PROVE  /\ At(t, {"copy"})
         /\ text' = [text EXCEPT ![job[t].target] = <<"copied">>]
         /\ (text[job[t].target] = <<>> => Does(t, "copied", job[t].target, job[t].lock, job[t].contended, job[t].target, job[t].knows, job[t].ro, job[t].old) /\ named' = named \cup {job[t].target})
         /\ (text[job[t].target] # <<>> => Does(t, "copied", job[t].target, job[t].lock, job[t].contended, None, job[t].knows, job[t].ro, job[t].old) /\ named' = named)
         /\ UNCHANGED <<scope, owner, everOther, inst, surf, built, adopted, stopped, unbound, everLive, harness, quit, accepted, said, returned, cleared>>
<1>a. pc \in [Tasks -> {"wait"} \cup Asked \cup Blocking \cup Ended] /\ job \in [Tasks -> Jobs]
  BY DEF Typed, TypeOK
<1>1. At(t, {"copy"}) /\ text' = [text EXCEPT ![job[t].target] = <<"copied">>]
  BY RunningIs DEF Copy, Goes, files, fates, runtime, At
<1>2. /\ (text[job[t].target] = <<>> => Does(t, "copied", job[t].target, job[t].lock, job[t].contended, job[t].target, job[t].knows, job[t].ro, job[t].old) /\ named' = named \cup {job[t].target})
      /\ (text[job[t].target] # <<>> => Does(t, "copied", job[t].target, job[t].lock, job[t].contended, None, job[t].knows, job[t].ro, job[t].old) /\ named' = named)
      /\ UNCHANGED <<scope, owner, everOther, inst, surf, built, adopted, stopped, unbound, everLive, harness, quit, accepted, said, returned, cleared>>
  BY <1>a, <1>1 DEF Copy, Goes, files, fates, runtime, At, On, Does, Jobs
<1> QED
  BY <1>1, <1>2

LEMMA OpenCopyDoes ==
  ASSUME Typed, Alone, NEW t \in Tasks, OpenCopy(t)
  PROVE  /\ At(t, {"copied"})
         /\ Does(t, "begin", job[t].target, job[t].lock, job[t].contended, job[t].made, text[job[t].target], job[t].ro, job[t].old)
         /\ UNCHANGED <<scope, owner, text, everOther, inst, surf, built, adopted, stopped, unbound, everLive, harness, quit, accepted, said, returned, cleared, named>>
<1>a. pc \in [Tasks -> {"wait"} \cup Asked \cup Blocking \cup Ended] /\ job \in [Tasks -> Jobs]
  BY DEF Typed, TypeOK
<1>1. At(t, {"copied"})
  BY RunningIs DEF OpenCopy, Goes, files, fates, runtime, At
<1>2. /\ Does(t, "begin", job[t].target, job[t].lock, job[t].contended, job[t].made, text[job[t].target], job[t].ro, job[t].old)
      /\ UNCHANGED <<scope, owner, text, everOther, inst, surf, built, adopted, stopped, unbound, everLive, harness, quit, accepted, said, returned, cleared, named>>
  BY <1>a, <1>1 DEF OpenCopy, Goes, files, fates, runtime, At, On, Does, Jobs
<1> QED
  BY <1>1, <1>2

LEMMA GiveBackFirstDoes ==
  ASSUME Typed, Alone, NEW t \in Tasks, GiveBackFirst(t)
  PROVE  /\ At(t, {"begin"})
         /\ returned' = returned \cup Waiting(inst) /\ harness' = Emptied(inst)
         /\ (Waiting(inst) = {} => Does(t, "shut", job[t].target, job[t].lock, job[t].contended, job[t].made, job[t].knows, job[t].ro, inst))
         /\ (Waiting(inst) # {} => Does(t, "give1", job[t].target, job[t].lock, job[t].contended, job[t].made, job[t].knows, job[t].ro, inst))
         /\ UNCHANGED <<scope, owner, text, everOther, inst, surf, built, adopted, stopped, unbound, everLive, quit, accepted, said, cleared, named>>
<1>a. pc \in [Tasks -> {"wait"} \cup Asked \cup Blocking \cup Ended] /\ job \in [Tasks -> Jobs]
  BY DEF Typed, TypeOK
<1>1. At(t, {"begin"}) /\ returned' = returned \cup Waiting(inst) /\ harness' = Emptied(inst)
  BY RunningIs DEF GiveBackFirst, Goes, files, fates, runtime, At
<1>2. /\ (Waiting(inst) = {} => Does(t, "shut", job[t].target, job[t].lock, job[t].contended, job[t].made, job[t].knows, job[t].ro, inst))
      /\ (Waiting(inst) # {} => Does(t, "give1", job[t].target, job[t].lock, job[t].contended, job[t].made, job[t].knows, job[t].ro, inst))
      /\ UNCHANGED <<scope, owner, text, everOther, inst, surf, built, adopted, stopped, unbound, everLive, quit, accepted, said, cleared, named>>
  BY <1>a, <1>1 DEF GiveBackFirst, Goes, files, fates, runtime, At, On, Does, Jobs
<1> QED
  BY <1>1, <1>2

LEMMA FirstGivenDoes ==
  ASSUME Typed, Alone, NEW t \in Tasks, FirstGiven(t)
  PROVE  /\ At(t, {"give1"})
         /\ On(t, "shut")
         /\ UNCHANGED <<scope, owner, text, everOther, inst, surf, built, adopted, stopped, unbound, everLive, harness, quit, accepted, said, returned, cleared, named>>
<1>a. pc \in [Tasks -> {"wait"} \cup Asked \cup Blocking \cup Ended] /\ job \in [Tasks -> Jobs]
  BY DEF Typed, TypeOK
<1>1. At(t, {"give1"})
  BY RunningIs DEF FirstGiven, Goes, files, fates, runtime, At
<1>2. /\ On(t, "shut")
      /\ UNCHANGED <<scope, owner, text, everOther, inst, surf, built, adopted, stopped, unbound, everLive, harness, quit, accepted, said, returned, cleared, named>>
  BY <1>a, <1>1 DEF FirstGiven, Goes, files, fates, runtime, At, On, Does, Jobs
<1> QED
  BY <1>1, <1>2

LEMMA TeardownDoes ==
  ASSUME Typed, Alone, NEW t \in Tasks, Teardown(t)
  PROVE  /\ At(t, {"shut"})
         /\ harness' = Disposed(inst) /\ cleared' = cleared \cup AbortClears(inst)
         /\ On(t, "dispose")
         /\ UNCHANGED <<scope, owner, text, everOther, inst, surf, built, adopted, stopped, unbound, everLive, quit, accepted, said, returned, named>>
<1>a. pc \in [Tasks -> {"wait"} \cup Asked \cup Blocking \cup Ended] /\ job \in [Tasks -> Jobs]
  BY DEF Typed, TypeOK
<1>1. At(t, {"shut"}) /\ harness' = Disposed(inst) /\ cleared' = cleared \cup AbortClears(inst)
  BY RunningIs DEF Teardown, Goes, files, fates, runtime, At
<1>2. /\ On(t, "dispose")
      /\ UNCHANGED <<scope, owner, text, everOther, inst, surf, built, adopted, stopped, unbound, everLive, quit, accepted, said, returned, named>>
  BY <1>a, <1>1 DEF Teardown, Goes, files, fates, runtime, At, On, Does, Jobs
<1> QED
  BY <1>1, <1>2

LEMMA TornDownDoes ==
  ASSUME Typed, Alone, NEW t \in Tasks, TornDown(t)
  PROVE  /\ At(t, {"dispose"})
         /\ harness[inst].turn = "idle"
         /\ (job[t].kind = "reload" => On(t, "build") /\ UNCHANGED <<returned, harness>>)
         /\ (job[t].kind # "reload" /\ Waiting(inst) = {} => On(t, "build") /\ returned' = returned \cup Waiting(inst) /\ harness' = Emptied(inst))
         /\ (job[t].kind # "reload" /\ Waiting(inst) # {} => On(t, "give2") /\ returned' = returned \cup Waiting(inst) /\ harness' = Emptied(inst))
         /\ UNCHANGED <<scope, owner, text, everOther, inst, surf, built, adopted, stopped, unbound, everLive, quit, accepted, said, cleared, named>>
<1>a. pc \in [Tasks -> {"wait"} \cup Asked \cup Blocking \cup Ended] /\ job \in [Tasks -> Jobs]
  BY DEF Typed, TypeOK
<1>1. At(t, {"dispose"}) /\ harness[inst].turn = "idle"
  BY RunningIs DEF TornDown, Goes, files, fates, runtime, At
<1>2. /\ (job[t].kind = "reload" => On(t, "build") /\ UNCHANGED <<returned, harness>>)
      /\ (job[t].kind # "reload" /\ Waiting(inst) = {} => On(t, "build") /\ returned' = returned \cup Waiting(inst) /\ harness' = Emptied(inst))
      /\ (job[t].kind # "reload" /\ Waiting(inst) # {} => On(t, "give2") /\ returned' = returned \cup Waiting(inst) /\ harness' = Emptied(inst))
      /\ UNCHANGED <<scope, owner, text, everOther, inst, surf, built, adopted, stopped, unbound, everLive, quit, accepted, said, cleared, named>>
  BY <1>a, <1>1 DEF TornDown, Goes, files, fates, runtime, At, On, Does, Jobs
<1> QED
  BY <1>1, <1>2

LEMMA SecondGivenDoes ==
  ASSUME Typed, Alone, NEW t \in Tasks, SecondGiven(t)
  PROVE  /\ At(t, {"give2"})
         /\ On(t, "build")
         /\ UNCHANGED <<scope, owner, text, everOther, inst, surf, built, adopted, stopped, unbound, everLive, harness, quit, accepted, said, returned, cleared, named>>
<1>a. pc \in [Tasks -> {"wait"} \cup Asked \cup Blocking \cup Ended] /\ job \in [Tasks -> Jobs]
  BY DEF Typed, TypeOK
<1>1. At(t, {"give2"})
  BY RunningIs DEF SecondGiven, Goes, files, fates, runtime, At
<1>2. /\ On(t, "build")
      /\ UNCHANGED <<scope, owner, text, everOther, inst, surf, built, adopted, stopped, unbound, everLive, harness, quit, accepted, said, returned, cleared, named>>
  BY <1>a, <1>1 DEF SecondGiven, Goes, files, fates, runtime, At, On, Does, Jobs
<1> QED
  BY <1>1, <1>2

LEMMA InstallDoes ==
  ASSUME Typed, Alone, NEW t \in Tasks, Install(t)
  PROVE  /\ At(t, {"build"})
         /\ job[t].kind \in Swaps /\ stopped' = FALSE /\ built' = built + 1 /\ adopted' = job[t].lock
         /\ everLive' = everLive \cup {job[t].target}
         /\ owner' = [f \in Files |-> IF adopted # job[t].lock /\ f = adopted THEN None ELSE owner[f]]
         /\ On(t, "after")
         /\ UNCHANGED <<scope, text, everOther, surf, unbound, quit, accepted, said, returned, cleared, named>>
<1>a. pc \in [Tasks -> {"wait"} \cup Asked \cup Blocking \cup Ended] /\ job \in [Tasks -> Jobs]
  BY DEF Typed, TypeOK
<1>1. At(t, {"build"}) /\ job[t].kind \in Swaps /\ stopped' = FALSE /\ built' = built + 1 /\ adopted' = job[t].lock
         /\ everLive' = everLive \cup {job[t].target}
         /\ owner' = [f \in Files |-> IF adopted # job[t].lock /\ f = adopted THEN None ELSE owner[f]]
  BY RunningIs DEF Install, Goes, files, fates, runtime, At
<1>2. /\ On(t, "after")
      /\ UNCHANGED <<scope, text, everOther, surf, unbound, quit, accepted, said, returned, cleared, named>>
  BY <1>a, <1>1 DEF Install, Goes, files, fates, runtime, At, On, Does, Jobs
<1> QED
  BY <1>1, <1>2

LEMMA ReloadDoes ==
  ASSUME Typed, Alone, NEW t \in Tasks, Reload(t)
  PROVE  /\ At(t, {"build"})
         /\ job[t].kind = "reload" /\ stopped' = FALSE /\ built' = built + 1 /\ Rebuild(t, "after")
         /\ On(t, "after")
         /\ UNCHANGED <<scope, owner, text, everOther, surf, adopted, unbound, everLive, quit, accepted, said, returned, cleared, named>>
<1>a. pc \in [Tasks -> {"wait"} \cup Asked \cup Blocking \cup Ended] /\ job \in [Tasks -> Jobs]
  BY DEF Typed, TypeOK
<1>1. At(t, {"build"}) /\ job[t].kind = "reload" /\ stopped' = FALSE /\ built' = built + 1 /\ Rebuild(t, "after")
  BY RunningIs DEF Reload, Goes, files, fates, runtime, Rebuild, At
<1>2. /\ On(t, "after")
      /\ UNCHANGED <<scope, owner, text, everOther, surf, adopted, unbound, everLive, quit, accepted, said, returned, cleared, named>>
  BY <1>a, <1>1 DEF Reload, Goes, files, fates, runtime, Rebuild, At, On, Does, Jobs
<1> QED
  BY <1>1, <1>2

LEMMA RestoreDoes ==
  ASSUME Typed, Alone, NEW t \in Tasks, Restore(t)
  PROVE  /\ At(t, {"restore"})
         /\ stopped' = FALSE /\ built' = built + 1 /\ Rebuild(t, "resettle")
         /\ On(t, "resettle")
         /\ UNCHANGED <<scope, owner, text, everOther, surf, adopted, unbound, everLive, quit, accepted, said, returned, cleared, named>>
<1>a. pc \in [Tasks -> {"wait"} \cup Asked \cup Blocking \cup Ended] /\ job \in [Tasks -> Jobs]
  BY DEF Typed, TypeOK
<1>1. At(t, {"restore"}) /\ stopped' = FALSE /\ built' = built + 1 /\ Rebuild(t, "resettle")
  BY RunningIs DEF Restore, Goes, files, fates, runtime, Rebuild, At
<1>2. /\ On(t, "resettle")
      /\ UNCHANGED <<scope, owner, text, everOther, surf, adopted, unbound, everLive, quit, accepted, said, returned, cleared, named>>
  BY <1>a, <1>1 DEF Restore, Goes, files, fates, runtime, Rebuild, At, On, Does, Jobs
<1> QED
  BY <1>1, <1>2

LEMMA BuildFailsDoes ==
  ASSUME Typed, Alone, NEW t \in Tasks, BuildFails(t)
  PROVE  /\ At(t, {"build"})
         /\ On(t, "restore")
         /\ UNCHANGED <<scope, owner, text, everOther, inst, surf, built, adopted, stopped, unbound, everLive, harness, quit, accepted, said, returned, cleared, named>>
<1>a. pc \in [Tasks -> {"wait"} \cup Asked \cup Blocking \cup Ended] /\ job \in [Tasks -> Jobs]
  BY DEF Typed, TypeOK
<1>1. At(t, {"build"})
  BY RunningIs DEF BuildFails, Goes, files, fates, runtime, At
<1>2. /\ On(t, "restore")
      /\ UNCHANGED <<scope, owner, text, everOther, inst, surf, built, adopted, stopped, unbound, everLive, harness, quit, accepted, said, returned, cleared, named>>
  BY <1>a, <1>1 DEF BuildFails, Goes, files, fates, runtime, At, On, Does, Jobs
<1> QED
  BY <1>1, <1>2

LEMMA KeptDoes ==
  ASSUME Typed, Alone, NEW t \in Tasks, Kept(t)
  PROVE  /\ At(t, {"resettle"})
         /\ surf' = inst /\ unbound' = FALSE
         /\ On(t, "fail")
         /\ UNCHANGED <<scope, owner, text, everOther, inst, built, adopted, stopped, everLive, harness, quit, accepted, said, returned, cleared, named>>
<1>a. pc \in [Tasks -> {"wait"} \cup Asked \cup Blocking \cup Ended] /\ job \in [Tasks -> Jobs]
  BY DEF Typed, TypeOK
<1>1. At(t, {"resettle"}) /\ surf' = inst /\ unbound' = FALSE
  BY RunningIs DEF Kept, Goes, files, fates, runtime, At
<1>2. /\ On(t, "fail")
      /\ UNCHANGED <<scope, owner, text, everOther, inst, built, adopted, stopped, everLive, harness, quit, accepted, said, returned, cleared, named>>
  BY <1>a, <1>1 DEF Kept, Goes, files, fates, runtime, At, On, Does, Jobs
<1> QED
  BY <1>1, <1>2

LEMMA RaisesDoes ==
  ASSUME Typed, Alone, NEW t \in Tasks, Raises(t)
  PROVE  /\ At(t, {"open", "hook", "ask", "copy", "copied", "after"})
         /\ unbound' = (unbound \/ pc[t] = "after")
         /\ On(t, "fail")
         /\ UNCHANGED <<scope, owner, text, everOther, inst, surf, built, adopted, stopped, everLive, harness, quit, accepted, said, returned, cleared, named>>
<1>a. pc \in [Tasks -> {"wait"} \cup Asked \cup Blocking \cup Ended] /\ job \in [Tasks -> Jobs]
  BY DEF Typed, TypeOK
<1>1. At(t, {"open", "hook", "ask", "copy", "copied", "after"}) /\ unbound' = (unbound \/ pc[t] = "after")
  BY RunningIs DEF Raises, Goes, files, fates, runtime, At
<1>2. /\ On(t, "fail")
      /\ UNCHANGED <<scope, owner, text, everOther, inst, surf, built, adopted, stopped, everLive, harness, quit, accepted, said, returned, cleared, named>>
  BY <1>a, <1>1 DEF Raises, Goes, files, fates, runtime, At, On, Does, Jobs
<1> QED
  BY <1>1, <1>2

LEMMA RestoreFailsDoes ==
  ASSUME Typed, Alone, NEW t \in Tasks, RestoreFails(t)
  PROVE  /\ At(t, {"restore", "resettle"})
         /\ stopped' = TRUE /\ Stops({inst, job[t].old})
         /\ On(t, "fail")
         /\ UNCHANGED <<scope, owner, text, everOther, inst, surf, built, adopted, unbound, everLive, quit, accepted, said, returned, cleared, named>>
<1>a. pc \in [Tasks -> {"wait"} \cup Asked \cup Blocking \cup Ended] /\ job \in [Tasks -> Jobs]
  BY DEF Typed, TypeOK
<1>1. At(t, {"restore", "resettle"}) /\ stopped' = TRUE /\ Stops({inst, job[t].old})
  BY ZenonT(60), RunningIs DEF RestoreFails, Goes, files, fates, runtime, Stops, At
<1>2. /\ On(t, "fail")
      /\ UNCHANGED <<scope, owner, text, everOther, inst, surf, built, adopted, unbound, everLive, quit, accepted, said, returned, cleared, named>>
  BY ZenonT(60), <1>a, <1>1 DEF RestoreFails, Goes, files, fates, runtime, Stops, At, On, Does, Jobs
<1> QED
  BY <1>1, <1>2

LEMMA DiscardDoes ==
  ASSUME Typed, Alone, NEW t \in Tasks, Discard(t)
  PROVE  /\ At(t, {"fail"})
         /\ text' = [f \in Files |-> IF f = job[t].made /\ harness[inst].file # f THEN <<>> ELSE text[f]]
         /\ On(t, "drop")
         /\ UNCHANGED <<scope, owner, everOther, inst, surf, built, adopted, stopped, unbound, everLive, harness, quit, accepted, said, returned, cleared, named>>
<1>a. pc \in [Tasks -> {"wait"} \cup Asked \cup Blocking \cup Ended] /\ job \in [Tasks -> Jobs]
  BY DEF Typed, TypeOK
<1>1. At(t, {"fail"}) /\ text' = [f \in Files |-> IF f = job[t].made /\ harness[inst].file # f THEN <<>> ELSE text[f]]
  BY RunningIs DEF Discard, Goes, files, fates, runtime, At
<1>2. /\ On(t, "drop")
      /\ UNCHANGED <<scope, owner, everOther, inst, surf, built, adopted, stopped, unbound, everLive, harness, quit, accepted, said, returned, cleared, named>>
  BY <1>a, <1>1 DEF Discard, Goes, files, fates, runtime, At, On, Does, Jobs
<1> QED
  BY <1>1, <1>2

LEMMA CancelDoes ==
  ASSUME Typed, Alone, NEW t \in Tasks, Cancel(t)
  PROVE  /\ At(t, {"settle", "hook", "ask", "give1", "shut", "give2", "after"})
         /\ unbound' = (unbound \/ pc[t] = "after") /\ pc[t] \in scope.cancels
         /\ On(t, "fail")
         /\ UNCHANGED <<scope, owner, text, everOther, inst, surf, built, adopted, stopped, everLive, harness, quit, accepted, said, returned, cleared, named>>
<1>a. pc \in [Tasks -> {"wait"} \cup Asked \cup Blocking \cup Ended] /\ job \in [Tasks -> Jobs]
  BY DEF Typed, TypeOK
<1>1. At(t, {"settle", "hook", "ask", "give1", "shut", "give2", "after"}) /\ unbound' = (unbound \/ pc[t] = "after") /\ pc[t] \in scope.cancels
  BY RunningIs DEF Cancel, Goes, files, fates, runtime, At
<1>2. /\ On(t, "fail")
      /\ UNCHANGED <<scope, owner, text, everOther, inst, surf, built, adopted, stopped, everLive, harness, quit, accepted, said, returned, cleared, named>>
  BY <1>a, <1>1 DEF Cancel, Goes, files, fates, runtime, At, On, Does, Jobs
<1> QED
  BY <1>1, <1>2

LEMMA CancelStopsDoes ==
  ASSUME Typed, Alone, NEW t \in Tasks, CancelStops(t)
  PROVE  /\ At(t, {"dispose", "build", "restore", "resettle"})
         /\ stopped' = TRUE /\ \E S \in SUBSET {inst, job[t].old} : inst \in S /\ (pc[t] \in {"restore", "resettle"} => job[t].old \in S) /\ Stops(S)
         /\ On(t, "fail")
         /\ UNCHANGED <<scope, owner, text, everOther, inst, surf, built, adopted, unbound, everLive, quit, accepted, said, returned, cleared, named>>
<1>a. pc \in [Tasks -> {"wait"} \cup Asked \cup Blocking \cup Ended] /\ job \in [Tasks -> Jobs]
  BY DEF Typed, TypeOK
<1>1. At(t, {"dispose", "build", "restore", "resettle"}) /\ stopped' = TRUE /\ \E S \in SUBSET {inst, job[t].old} : inst \in S /\ (pc[t] \in {"restore", "resettle"} => job[t].old \in S) /\ Stops(S)
  BY ZenonT(60), RunningIs DEF CancelStops, Goes, files, fates, runtime, Stops, At
<1>2. /\ On(t, "fail")
      /\ UNCHANGED <<scope, owner, text, everOther, inst, surf, built, adopted, unbound, everLive, quit, accepted, said, returned, cleared, named>>
  BY ZenonT(60), <1>a, <1>1 DEF CancelStops, Goes, files, fates, runtime, Stops, At, On, Does, Jobs
<1> QED
  BY <1>1, <1>2

\* The steps that are not the running transition's leave it and its locals alone.
Aside == /\ lifecycle' = lifecycle /\ inst' = inst /\ harness'[inst].file = harness[inst].file /\ harness'[inst].ro = harness[inst].ro
         /\ lifecycle # None => pc'[lifecycle] = pc[lifecycle] /\ job'[lifecycle] = job[lifecycle]

\* They keep Locals.
LEMMA LocalsAside ==
  ASSUME Locals, Aside, named' = named, scope' = scope
  PROVE  Locals'
<1> QED
  BY DEF Locals, Aside, Running, Mid, Choosing, Closing, Placed

\* Aside holds of each of them.
LEMMA AsideIs ==
  ASSUME Typed, Alone, Left, Next
  PROVE  /\ \A t \in Tasks : (\E k \in Kinds, p \in Tasks \cup {None} : Request(t, k, p)) \/ CancelWaiting(t) => Aside /\ named' = named
         /\ Quit \/ QuitDispose \/ QuitReleases \/ Send \/ Esc \/ (\E h \in Harnesses : Turn(h)) \/ Other => Aside /\ named' = named
<1>a. pc \in [Tasks -> {"wait"} \cup Asked \cup Blocking \cup Ended] /\ job \in [Tasks -> Jobs] /\ lifecycle \in Tasks \cup {None}
  BY DEF Typed, TypeOK
<1>1. ASSUME NEW t \in Tasks, NEW k \in Kinds, NEW p \in Tasks \cup {None}, Request(t, k, p) PROVE Aside /\ named' = named
  <2>1. t # lifecycle
    BY ZenonT(60), <1>1 DEF Request, Alone
  <2> QED
    BY <1>a, <1>1, <2>1 DEF Request, Goes, Aside, runtime, files
<1>2. ASSUME NEW t \in Tasks, CancelWaiting(t) PROVE Aside /\ named' = named
  <2>1. t # lifecycle
    BY ZenonT(60), <1>2 DEF CancelWaiting, Alone
  <2> QED
    BY <1>a, <1>2, <2>1 DEF CancelWaiting, Goes, Aside, runtime, files
<1>3. ASSUME Quit PROVE Aside /\ named' = named
  BY <1>3 DEF Quit, Aside, runtime, files
<1>4. ASSUME QuitDispose PROVE Aside /\ named' = named
  <2>1. harness' = Disposed(inst) /\ inst' = inst
    BY <1>4 DEF QuitDispose, runtime
  <2>2. harness'[inst].file = harness[inst].file /\ harness'[inst].ro = harness[inst].ro
    BY <2>1, DisposedMoves DEF Moved
  <2> QED
    BY <1>4, <2>1, <2>2 DEF QuitDispose, Aside, files
<1>5. ASSUME QuitReleases PROVE Aside /\ named' = named
  BY <1>5 DEF QuitReleases, Aside, files
<1>6. ASSUME NEW h \in {inst, surf}, NEW l \in Lines, Prompt(h, l) PROVE Aside /\ named' = named
  <2>1. inst' = inst /\ harness'[inst].file = harness[inst].file /\ harness'[inst].ro = harness[inst].ro
    BY <1>6, PromptMoves DEF Moved
  <2> QED
    BY <1>6, <2>1 DEF Prompt, Aside
<1>7. ASSUME NEW h \in {inst, surf}, NEW l \in Lines, Steer(h, l) PROVE Aside /\ named' = named
  <2>1. inst' = inst /\ harness'[inst].file = harness[inst].file /\ harness'[inst].ro = harness[inst].ro
    BY <1>7, SteerMoves DEF Moved
  <2> QED
    BY <1>7, <2>1 DEF Steer, Aside
<1>8. ASSUME Esc PROVE Aside /\ named' = named
  <2>1. inst' = inst /\ harness'[inst].file = harness[inst].file /\ harness'[inst].ro = harness[inst].ro
    BY <1>8, EscMoves DEF Moved
  <2> QED
    BY <1>8, <2>1 DEF Esc, Aside
<1>9. ASSUME NEW h \in Harnesses, TurnEnds(h) PROVE Aside /\ named' = named
  <2>1. inst' = inst /\ harness'[inst].file = harness[inst].file /\ harness'[inst].ro = harness[inst].ro
    BY <1>9, TurnMoves DEF Moved
  <2> QED
    BY <1>9, <2>1 DEF TurnEnds, Aside
<1>10. ASSUME NEW h \in Harnesses, NEW l \in Lines, Commit(h, l) PROVE Aside /\ named' = named
  <2>1. inst' = inst /\ harness'[inst].file = harness[inst].file /\ harness'[inst].ro = harness[inst].ro
    BY <1>10, CommitMoves DEF Moved
  <2> QED
    BY <1>10, <2>1 DEF Commit, Aside
<1>11. ASSUME NEW f \in Files, OtherTakes(f) PROVE Aside /\ named' = named
  BY <1>11 DEF OtherTakes, Aside, runtime
<1>12. ASSUME NEW f \in Files, OtherWrites(f) PROVE Aside /\ named' = named
  BY <1>12 DEF OtherWrites, Aside, runtime
<1>13. ASSUME NEW f \in Files, OtherLeaves(f) PROVE Aside /\ named' = named
  BY <1>13 DEF OtherLeaves, Aside, runtime
<1> QED
  BY <1>1, <1>2, <1>3, <1>4, <1>5, <1>6, <1>7, <1>8, <1>9, <1>10, <1>11, <1>12, <1>13 DEF Send, Turn, Other

\* Locals
LEMMA LocalsKept ==
  ASSUME Typed, Alone, Locals, Locked, Filed, Counts, Left, Torn, Next
  PROVE  Locals'
<1>a. /\ harness \in [Harnesses -> Sessions] /\ inst \in Harnesses /\ job \in [Tasks -> Jobs] /\ None \notin Tasks
      /\ lifecycle \in Tasks \cup {None} /\ inst \in Nat /\ None \notin Files
  BY NamesAssumption DEF Typed, TypeOK, Harnesses
<1>s. scope' = scope
  BY ScopeStays
<1>p. pc \in [Tasks -> {"wait"} \cup Asked \cup Blocking \cup Ended]
  BY DEF Typed, TypeOK
<1>1. ASSUME NEW t \in Tasks, NEW k \in Kinds, NEW p \in Tasks \cup {None}, Request(t, k, p) PROVE Locals'
  BY <1>s, <1>1, AsideIs, LocalsAside DEF Send, Turn, Other
<1>2. ASSUME NEW t \in Tasks, Start(t) PROVE Locals'
  <2>1. t # None /\ lifecycle' = t /\ pc'[t] = "settle" /\ job' = job /\ job[t].kind \in Kinds /\ pc[t] = "wait" /\ lifecycle # t
        /\ UNCHANGED <<inst, harness, named>>
    BY ZenonT(60), <1>a, <1>p, <1>2 DEF Start, Goes, Alone, runtime
  <2>2. job[t].lock = None /\ job[t].made = None /\ ~job[t].ro /\ ~job[t].contended
    BY ZenonT(60), <2>1 DEF Alone, NoJob
  <2> QED
    BY <1>a, <1>s, <2>1, <2>2 DEF Locals, Running, Mid, Choosing, Closing, Placed
<1>3. ASSUME NEW t \in Tasks, Settle(t) PROVE Locals'
  BY <1>a, <1>3, SettleDoes DEF Locals, Running, Mid, Choosing, Closing, Placed, At, On, Does, Swaps
<1>4. ASSUME NEW t \in Tasks, SettleReload(t) PROVE Locals'
  BY <1>a, <1>4, SettleReloadDoes DEF Locals, Running, Mid, Choosing, Closing, Placed, At, On, Does, Swaps
<1>5. ASSUME NEW t \in Tasks, NEW f \in Files, TakeTarget(t, f) PROVE Locals'
  <2>1. f \in Old \cup named /\ f # None
    BY <1>a, <1>5, TakeTargetDoes DEF Filed, Files
  <2>2. t # None /\ job[t].kind = "resume" /\ job[t].lock = None /\ job[t].made = None /\ ~job[t].ro
        /\ UNCHANGED <<scope, inst, harness, named>> /\ lifecycle' = t
    BY <1>a, <1>5, TakeTargetDoes DEF Locals, Running, Mid, Choosing, At, On, Does
  <2>3. \/ pc'[t] = "fail" /\ job'[t] = job[t]
        \/ /\ pc'[t] = "open" /\ job'[t].kind = job[t].kind /\ job'[t].target = f /\ job'[t].made = job[t].made /\ job'[t].ro = job[t].ro
           /\ job'[t].lock = IF job'[t].contended THEN None ELSE f
    <3>1. CASE Unusable(f)
      BY <1>5, <3>1, TakeTargetDoes DEF On
    <3>2. CASE ~Unusable(f) /\ Held(f)
      BY ZenonT(60), <1>5, <2>2, <3>2, TakeTargetDoes DEF Does
    <3>3. CASE ~Unusable(f) /\ ~Held(f)
      <4>1. ~job[t].contended
        BY <1>5, <2>2, TakeTargetDoes DEF At, Locals, Running, Mid
      <4> QED
        BY <1>5, <2>2, <3>3, <4>1, TakeTargetDoes DEF Does
    <3> QED
      BY <3>1, <3>2, <3>3
  <2> QED
    BY <1>a, <2>1, <2>2, <2>3 DEF Locals, Running, Mid, Choosing, Closing, Placed, Swaps
<1>6. ASSUME NEW t \in Tasks, NEW f \in Files, TakeDestination(t, f) PROVE Locals'
  BY <1>a, <1>6, TakeDestinationDoes DEF Locals, Running, Mid, Choosing, Closing, Placed, At, On, Does, Swaps
<1>7. ASSUME NEW t \in Tasks, OpenTarget(t) PROVE Locals'
  BY <1>a, <1>7, OpenTargetDoes DEF Locals, Running, Mid, Choosing, Closing, Placed, At, On, Does, Swaps
<1>8. ASSUME NEW t \in Tasks, HookCancels(t) PROVE Locals'
  BY <1>a, <1>8, HookCancelsDoes DEF Locals, Running, Mid, Choosing, Closing, Placed, At, On, Does, Swaps
<1>9. ASSUME NEW t \in Tasks, Create(t) PROVE Locals'
  <2>1. FreshName \in New \ named
    BY <1>9, Room, CreateDoes DEF At, Making
  <2>2. FreshName # harness[inst].file /\ FreshName # None
    BY <1>a, <2>1, NamesAssumption DEF Filed, Files
  <2>3. /\ t # None /\ lifecycle = t /\ job[t].kind \in Swaps /\ job[t].lock = None /\ job[t].made = None /\ ~job[t].ro
    BY <1>a, <1>9, CreateDoes DEF Locals, Running, Mid, Choosing, At, Swaps
  <2>4. /\ lifecycle' = t /\ pc'[t] = "newlock" /\ job'[t].kind = job[t].kind /\ job'[t].target = FreshName
        /\ job'[t].lock = job[t].lock /\ job'[t].made = job[t].made /\ job'[t].ro = job[t].ro
        /\ named' = named \cup {FreshName} /\ UNCHANGED <<scope, inst, harness>>
    BY <1>9, CreateDoes DEF Does
  <2> QED
    BY <1>a, <2>1, <2>2, <2>3, <2>4 DEF Locals, Running, Mid, Choosing, Closing, Placed, Swaps
<1>10. ASSUME NEW t \in Tasks, LockNew(t) PROVE Locals'
  <2>1. At(t, {"newlock"}) /\ job[t].target \in named /\ job[t].target \in New /\ job[t].kind \in Swaps /\ ~job[t].ro /\ job[t].made = None
        /\ job[t].target # None
    BY <1>a, <1>10, LockNewDoes DEF Locals, Running, Mid, Choosing, At, Counts, Files
  <2>2. Unusable(job[t].target) => job[t].target \in scope.unusable
    BY DEF Unusable
  <2> QED
    BY <1>a, <1>s, <1>10, <2>1, <2>2, LockNewDoes DEF Locals, Running, Mid, Choosing, Closing, Placed, At, On,
       Does, Swaps
<1>11. ASSUME NEW t \in Tasks, SwitchUncontended(t) PROVE Locals'
  BY <1>a, <1>11, SwitchUncontendedDoes DEF Locals, Running, Mid, Choosing, Closing, Placed, At, On, Does, Swaps
<1>12. ASSUME NEW t \in Tasks, AnswerReadOnly(t) PROVE Locals'
  BY ZenonT(60), <1>a, <1>12, AnswerReadOnlyDoes DEF Locals, Running, Mid, Choosing, Closing, Placed, At, On,
     Does, Swaps
<1>13. ASSUME NEW t \in Tasks, AnswerFork(t) PROVE Locals'
  <2>1. FreshName \in New \ named
    BY <1>13, Room, AnswerForkDoes DEF At, Making
  <2>2. FreshName # harness[inst].file /\ FreshName # None
    BY <1>a, <2>1, NamesAssumption DEF Filed, Files
  <2>3. /\ t # None /\ lifecycle = t /\ job[t].kind \in Swaps /\ job[t].lock = None /\ job[t].made = None /\ ~job[t].ro
    BY <1>a, <1>13, AnswerForkDoes DEF Locals, Running, Mid, Choosing, At, Swaps
  <2>4. /\ lifecycle' = t /\ pc'[t] = "newlock" /\ job'[t].kind = job[t].kind /\ job'[t].target = FreshName
        /\ job'[t].lock = job[t].lock /\ job'[t].made = job[t].made /\ job'[t].ro = job[t].ro
        /\ named' = named \cup {FreshName} /\ UNCHANGED <<scope, inst, harness>>
    BY <1>13, AnswerForkDoes DEF Does
  <2> QED
    BY <1>a, <2>1, <2>2, <2>3, <2>4 DEF Locals, Running, Mid, Choosing, Closing, Placed, Swaps
<1>14. ASSUME NEW t \in Tasks, AnswerCancel(t) PROVE Locals'
  BY <1>a, <1>14, AnswerCancelDoes DEF Locals, Running, Mid, Choosing, Closing, Placed, At, On, Does, Swaps
<1>15. ASSUME NEW t \in Tasks, Copy(t) PROVE Locals'
  <2>1. /\ At(t, {"copy"}) /\ job[t].target \in Files /\ job[t].kind = "import" /\ job[t].lock = job[t].target /\ ~job[t].ro
    BY <1>a, <1>15, CopyDoes DEF Locals, Running, Mid, Choosing, At
  <2>2. job[t].target \in Old \cup named \/ (text[job[t].target] = <<>> /\ job[t].target \in New)
    BY <2>1 DEF Filed, Files
  <2>3. text[job[t].target] = <<>> => job[t].target \in New
    BY <2>1 DEF Filed, Files
  <2> QED
    BY <1>a, <1>s, <1>15, <2>1, <2>2, <2>3, CopyDoes DEF Locals, Running, Mid, Choosing, Closing, Placed, At, On,
       Does, Swaps
<1>16. ASSUME NEW t \in Tasks, OpenCopy(t) PROVE Locals'
  BY <1>a, <1>16, OpenCopyDoes DEF Locals, Running, Mid, Choosing, Closing, Placed, At, On, Does, Swaps
<1>17. ASSUME NEW t \in Tasks, GiveBackFirst(t) PROVE Locals'
  BY <1>a, <1>17, GiveBackFirstDoes DEF Locals, Running, Mid, Choosing, Closing, Placed, At, On, Does, Swaps
<1>18. ASSUME NEW t \in Tasks, FirstGiven(t) PROVE Locals'
  BY <1>a, <1>18, FirstGivenDoes DEF Locals, Running, Mid, Choosing, Closing, Placed, At, On, Does, Swaps
<1>19. ASSUME NEW t \in Tasks, Teardown(t) PROVE Locals'
  BY <1>a, <1>19, TeardownDoes DEF Locals, Running, Mid, Choosing, Closing, Placed, At, On, Does, Swaps
<1>20. ASSUME NEW t \in Tasks, TornDown(t) PROVE Locals'
  BY <1>a, <1>20, TornDownDoes DEF Locals, Running, Mid, Choosing, Closing, Placed, At, On, Does, Swaps
<1>21. ASSUME NEW t \in Tasks, SecondGiven(t) PROVE Locals'
  BY <1>a, <1>21, SecondGivenDoes DEF Locals, Running, Mid, Choosing, Closing, Placed, At, On, Does, Swaps
<1>22. ASSUME NEW t \in Tasks, Install(t) PROVE Locals'
  <2>1. inst' = inst + 1 /\ inst + 1 \in Harnesses
        /\ harness'[inst + 1] = [Blank EXCEPT !.file = job[t].target, !.knows = job[t].knows, !.ro = job[t].ro]
    BY ZenonT(60), <1>22, InstallMoves
  <2>2. harness'[inst'].file = job[t].target /\ harness'[inst'].ro = job[t].ro
    BY <2>1 DEF Blank
  <2>3. t # None /\ lifecycle' = t /\ pc'[t] = "after" /\ job'[t] = job[t] /\ job[t].kind \in Swaps /\ named' = named
    BY <1>22, InstallDoes DEF At, On
  <2>4. /\ job[t].lock = (IF job[t].ro THEN None ELSE job[t].target) /\ job[t].target \in Old \cup named
        /\ job[t].made # None =>
             job[t].made \in New /\ job[t].made = job[t].target /\ (job[t].lock = job[t].made \/ job[t].made \in scope.unusable)
    BY <1>22, InstallDoes, <2>3 DEF At, Locals, Running, Mid, Placed, Closing
  <2> QED
    BY <1>a, <1>s, <2>2, <2>3, <2>4 DEF Locals, Running, Mid, Choosing, Closing, Placed, Swaps
<1>23. ASSUME NEW t \in Tasks, Reload(t) PROVE Locals'
  BY <1>a, <1>23, ReloadDoes DEF Locals, Running, Mid, Choosing, Closing, Placed, At, On, Does, Swaps
<1>24. ASSUME NEW t \in Tasks, BuildFails(t) PROVE Locals'
  BY <1>a, <1>24, BuildFailsDoes DEF Locals, Running, Mid, Choosing, Closing, Placed, At, On, Does, Swaps
<1>25. ASSUME NEW t \in Tasks, Restore(t) PROVE Locals'
  <2>1. At(t, {"restore"}) /\ On(t, "resettle") /\ named' = named /\ Rebuild(t, "resettle")
    BY <1>25, RestoreDoes
  <2>2. inst' = inst + 1 /\ job[t].old = inst
    BY <2>1, RebuildMoves DEF At
  <2> QED
    BY <1>a, <1>s, <2>1, <2>2 DEF Locals, Running, Mid, Choosing, Closing, Placed, At, On, Does, Swaps
<1>26. ASSUME NEW t \in Tasks, Kept(t) PROVE Locals'
  BY <1>a, <1>26, KeptDoes DEF Locals, Running, Mid, Choosing, Closing, Placed, At, On, Does, Swaps
<1>27. ASSUME NEW t \in Tasks, Rebind(t) PROVE Locals'
  <2>1. lifecycle' = None
    BY <1>27 DEF Rebind
  <2> QED
    BY <2>1 DEF Locals, Running
<1>28. ASSUME NEW t \in Tasks, Raises(t) PROVE Locals'
  BY <1>a, <1>28, RaisesDoes DEF Locals, Running, Mid, Choosing, Closing, Placed, At, On, Does, Swaps
<1>29. ASSUME NEW t \in Tasks, RestoreFails(t) PROVE Locals'
  BY <1>a, <1>29, RestoreFailsDoes DEF Locals, Running, Mid, Choosing, Closing, Placed, At, On, Does, Swaps
<1>30. ASSUME NEW t \in Tasks, Discard(t) PROVE Locals'
  BY <1>a, <1>30, DiscardDoes DEF Locals, Running, Mid, Choosing, Closing, Placed, At, On, Does, Swaps
<1>31. ASSUME NEW t \in Tasks, Drop(t) PROVE Locals'
  <2>1. lifecycle' = None
    BY <1>31 DEF Drop
  <2> QED
    BY <2>1 DEF Locals, Running
<1>32. ASSUME NEW t \in Tasks, CancelWaiting(t) PROVE Locals'
  BY <1>s, <1>32, AsideIs, LocalsAside DEF Send, Turn, Other
<1>33. ASSUME NEW t \in Tasks, Cancel(t) PROVE Locals'
  BY <1>a, <1>33, CancelDoes DEF Locals, Running, Mid, Choosing, Closing, Placed, At, On, Does, Swaps
<1>34. ASSUME NEW t \in Tasks, CancelStops(t) PROVE Locals'
  BY <1>a, <1>34, CancelStopsDoes DEF Locals, Running, Mid, Choosing, Closing, Placed, At, On, Does, Swaps
<1>35. ASSUME Quit PROVE Locals'
  BY <1>s, <1>35, AsideIs, LocalsAside DEF Send, Turn, Other
<1>36. ASSUME QuitDispose PROVE Locals'
  BY <1>s, <1>36, AsideIs, LocalsAside DEF Send, Turn, Other
<1>37. ASSUME QuitReleases PROVE Locals'
  BY <1>s, <1>37, AsideIs, LocalsAside DEF Send, Turn, Other
<1>38. ASSUME NEW h \in {inst, surf}, NEW l \in Lines, Prompt(h, l) PROVE Locals'
  BY <1>s, <1>38, AsideIs, LocalsAside DEF Send, Turn, Other
<1>39. ASSUME NEW h \in {inst, surf}, NEW l \in Lines, Steer(h, l) PROVE Locals'
  BY <1>s, <1>39, AsideIs, LocalsAside DEF Send, Turn, Other
<1>40. ASSUME Esc PROVE Locals'
  BY <1>s, <1>40, AsideIs, LocalsAside DEF Send, Turn, Other
<1>41. ASSUME NEW h \in Harnesses, TurnEnds(h) PROVE Locals'
  BY <1>s, <1>41, AsideIs, LocalsAside DEF Send, Turn, Other
<1>42. ASSUME NEW h \in Harnesses, NEW l \in Lines, Commit(h, l) PROVE Locals'
  BY <1>s, <1>42, AsideIs, LocalsAside DEF Send, Turn, Other
<1>43. ASSUME NEW f \in Files, OtherTakes(f) PROVE Locals'
  BY <1>s, <1>43, AsideIs, LocalsAside DEF Send, Turn, Other
<1>44. ASSUME NEW f \in Files, OtherWrites(f) PROVE Locals'
  BY <1>s, <1>44, AsideIs, LocalsAside DEF Send, Turn, Other
<1>45. ASSUME NEW f \in Files, OtherLeaves(f) PROVE Locals'
  BY <1>s, <1>45, AsideIs, LocalsAside DEF Send, Turn, Other
<1> QED
  BY <1>1, <1>2, <1>3, <1>4, <1>5, <1>6, <1>7, <1>8, <1>9, <1>10, <1>11, <1>12, <1>13, <1>14, <1>15, <1>16,
     <1>17, <1>18, <1>19, <1>20, <1>21, <1>22, <1>23, <1>24, <1>25, <1>26, <1>27, <1>28, <1>29, <1>30, <1>31,
     <1>32, <1>33, <1>34, <1>35, <1>36, <1>37, <1>38, <1>39, <1>40, <1>41, <1>42, <1>43, <1>44, <1>45 DEF Next,
     Swap, Interrupt, Send, Turn, Other

\* Torn
LEMMA TornKept ==
  ASSUME Typed, Alone, Locals, Counts, Left, Torn, Next
  PROVE  Torn'
<1>a. /\ harness \in [Harnesses -> Sessions] /\ inst \in Harnesses /\ surf \in Harnesses /\ job \in [Tasks -> Jobs] /\ None \notin Tasks
      /\ lifecycle \in Tasks \cup {None} /\ inst \in Nat /\ surf \in Nat /\ surf <= inst
  BY NamesAssumption DEF Typed, TypeOK, Harnesses
<1>q. lifecycle # None => quit = "no"
  BY ZenonT(60), <1>a DEF Alone, Ended
<1>s. scope' = scope
  BY ScopeStays
<1>p. pc \in [Tasks -> {"wait"} \cup Asked \cup Blocking \cup Ended]
  BY DEF Typed, TypeOK
<1>1. ASSUME NEW t \in Tasks, NEW k \in Kinds, NEW p \in Tasks \cup {None}, Request(t, k, p) PROVE Torn'
  <2>1. Aside
    BY <1>1, AsideIs DEF Send, Turn, Other
  <2> QED
    BY <1>a, <1>q, <1>s, <1>1, <2>1 DEF Aside, Request, files, runtime, fates, Torn, Running, Mid, At, On, Does,
       Waiting, Closing, Placed
<1>2. ASSUME NEW t \in Tasks, Start(t) PROVE Torn'
  <2>1. lifecycle' = t /\ t # None /\ pc'[t] = "settle" /\ lifecycle = None /\ UNCHANGED <<runtime, harness, fates, quit, scope>>
    BY <1>p, <1>a, <1>2 DEF Start, Goes
  <2> QED
    BY <1>a, <1>q, <1>s, <1>2, <2>1 DEF runtime, fates, Torn, Running, Mid, At, On, Does, Waiting, Closing, Placed
<1>3. ASSUME NEW t \in Tasks, Settle(t) PROVE Torn'
  BY <1>a, <1>q, <1>s, <1>3, SettleDoes DEF Torn, Running, Mid, At, On, Does, Waiting, Closing, Placed
<1>4. ASSUME NEW t \in Tasks, SettleReload(t) PROVE Torn'
  BY <1>a, <1>q, <1>s, <1>4, SettleReloadDoes DEF Torn, Running, Mid, At, On, Does, Waiting, Closing, Placed
<1>5. ASSUME NEW t \in Tasks, NEW f \in Files, TakeTarget(t, f) PROVE Torn'
  BY <1>a, <1>q, <1>s, <1>5, TakeTargetDoes DEF Torn, Running, Mid, At, On, Does, Waiting, Closing, Placed
<1>6. ASSUME NEW t \in Tasks, NEW f \in Files, TakeDestination(t, f) PROVE Torn'
  BY <1>a, <1>q, <1>s, <1>6, TakeDestinationDoes DEF Torn, Running, Mid, At, On, Does, Waiting, Closing, Placed
<1>7. ASSUME NEW t \in Tasks, OpenTarget(t) PROVE Torn'
  BY <1>a, <1>q, <1>s, <1>7, OpenTargetDoes DEF Torn, Running, Mid, At, On, Does, Waiting, Closing, Placed
<1>8. ASSUME NEW t \in Tasks, HookCancels(t) PROVE Torn'
  BY <1>a, <1>q, <1>s, <1>8, HookCancelsDoes DEF Torn, Running, Mid, At, On, Does, Waiting, Closing, Placed
<1>9. ASSUME NEW t \in Tasks, Create(t) PROVE Torn'
  BY <1>a, <1>q, <1>s, <1>9, CreateDoes DEF Torn, Running, Mid, At, On, Does, Waiting, Closing, Placed
<1>10. ASSUME NEW t \in Tasks, LockNew(t) PROVE Torn'
  BY <1>a, <1>q, <1>s, <1>10, LockNewDoes DEF Torn, Running, Mid, At, On, Does, Waiting, Closing, Placed
<1>11. ASSUME NEW t \in Tasks, SwitchUncontended(t) PROVE Torn'
  BY <1>a, <1>q, <1>s, <1>11, SwitchUncontendedDoes DEF Torn, Running, Mid, At, On, Does, Waiting, Closing, Placed
<1>12. ASSUME NEW t \in Tasks, AnswerReadOnly(t) PROVE Torn'
  BY <1>a, <1>q, <1>s, <1>12, AnswerReadOnlyDoes DEF Torn, Running, Mid, At, On, Does, Waiting, Closing, Placed
<1>13. ASSUME NEW t \in Tasks, AnswerFork(t) PROVE Torn'
  BY <1>a, <1>q, <1>s, <1>13, AnswerForkDoes DEF Torn, Running, Mid, At, On, Does, Waiting, Closing, Placed
<1>14. ASSUME NEW t \in Tasks, AnswerCancel(t) PROVE Torn'
  BY <1>a, <1>q, <1>s, <1>14, AnswerCancelDoes DEF Torn, Running, Mid, At, On, Does, Waiting, Closing, Placed
<1>15. ASSUME NEW t \in Tasks, Copy(t) PROVE Torn'
  BY <1>a, <1>q, <1>s, <1>15, CopyDoes DEF Torn, Running, Mid, At, On, Does, Waiting, Closing, Placed
<1>16. ASSUME NEW t \in Tasks, OpenCopy(t) PROVE Torn'
  BY <1>a, <1>q, <1>s, <1>16, OpenCopyDoes DEF Torn, Running, Mid, At, On, Does, Waiting, Closing, Placed
<1>17. ASSUME NEW t \in Tasks, GiveBackFirst(t) PROVE Torn'
  <2>1. inst' = inst \/ Install(t)
    BY <1>17, GiveBackFirstDoes
  <2> QED
    BY <1>a, <1>q, <1>s, <1>17, <2>1, GiveBackFirstDoes, EmptiedMoves DEF Moved, Same, Knows, AbortClears, Blank,
       Torn, Running, Mid, At, On, Does, Waiting, Closing, Placed
<1>18. ASSUME NEW t \in Tasks, FirstGiven(t) PROVE Torn'
  BY <1>a, <1>q, <1>s, <1>18, FirstGivenDoes DEF Torn, Running, Mid, At, On, Does, Waiting, Closing, Placed
<1>19. ASSUME NEW t \in Tasks, Teardown(t) PROVE Torn'
  <2>1. inst' = inst \/ Install(t)
    BY <1>19, TeardownDoes
  <2> QED
    BY <1>a, <1>q, <1>s, <1>19, <2>1, TeardownDoes, DisposedMoves DEF Moved, Same, Knows, AbortClears, Blank,
       Torn, Running, Mid, At, On, Does, Waiting, Closing, Placed
<1>20. ASSUME NEW t \in Tasks, TornDown(t) PROVE Torn'
  <2>1. /\ t # None /\ lifecycle = t /\ pc[t] = "dispose" /\ lifecycle' = t /\ job'[t] = job[t] /\ inst' = inst /\ quit' = quit
        /\ harness[inst].turn = "idle"
    BY <1>20, TornDownDoes DEF At, On
  <2>2. harness[inst].disposed
    BY <2>1 DEF Torn, Running
  <2>3. CASE job[t].kind = "reload"
    <3>1. harness' = harness /\ pc'[t] = "build"
      BY <1>20, <2>3, TornDownDoes DEF On
    <3> QED
      BY <1>q, <2>1, <2>2, <2>3, <3>1 DEF Torn, Running, Mid, Swaps
  <2>4. CASE job[t].kind # "reload"
    <3>1. harness' = Emptied(inst) /\ pc'[t] \in {"build", "give2"}
      BY <1>20, <2>4, TornDownDoes DEF On
    <3>2. harness'[inst].disposed /\ harness'[inst].turn = "idle" /\ Waiting(inst)' = {}
      BY <2>1, <2>2, <3>1, EmptiedMoves DEF Moved, Same, Waiting
    <3> QED
      BY <1>q, <2>1, <2>2, <3>1, <3>2 DEF Torn, Running, Mid
  <2> QED
    BY <2>3, <2>4
<1>21. ASSUME NEW t \in Tasks, SecondGiven(t) PROVE Torn'
  BY <1>a, <1>q, <1>s, <1>21, SecondGivenDoes DEF Torn, Running, Mid, At, On, Does, Waiting, Closing, Placed
<1>22. ASSUME NEW t \in Tasks, Install(t) PROVE Torn'
  <2>1. /\ inst + 1 \in Harnesses /\ inst' = inst + 1 /\ \A h \in Harnesses : h # inst + 1 => harness'[h] = harness[h]
        /\ harness'[inst + 1].turn = "idle" /\ ~harness'[inst + 1].disposed /\ harness'[inst + 1].run = {}
        /\ harness'[inst + 1].queue = {} /\ harness'[inst + 1].next = {}
    BY ZenonT(60), <1>a, <1>22, InstallMoves DEF Blank
  <2>2. surf # inst + 1
    BY <1>a
  <2> QED
    BY <1>a, <1>q, <1>s, <1>22, <2>1, <2>2, InstallDoes DEF Torn, Running, Mid, At, On, Does, Waiting, Closing,
       Placed
<1>23. ASSUME NEW t \in Tasks, Reload(t) PROVE Torn'
  <2>1. pc[t] \in {"build", "restore"} /\ Rebuild(t, "after")
    BY <1>23 DEF Reload
  <2>2. /\ inst + 1 \in Harnesses /\ inst' = inst + 1 /\ job[t].old = inst /\ \A h \in Harnesses : h \notin {inst, inst + 1} => harness'[h] = harness[h]
        /\ harness'[inst].held = harness[inst].held
        /\ harness'[inst + 1].turn = "idle" /\ harness'[inst + 1].run = {} /\ ~harness'[inst + 1].disposed
        /\ harness'[inst + 1].queue = harness[inst].queue /\ harness'[inst + 1].next = harness[inst].next
    BY <1>a, <2>1, RebuildMoves DEF Blank, Sessions
  <2>3. surf # inst + 1 /\ \A h \in Harnesses : h \in Nat
    BY <1>a DEF Harnesses
  <2> QED
    BY <1>a, <1>q, <1>s, <1>23, <2>1, <2>2, <2>3, ReloadDoes DEF Torn, Running, Mid, At, On, Does, Waiting,
       Closing, Placed
<1>24. ASSUME NEW t \in Tasks, BuildFails(t) PROVE Torn'
  BY <1>a, <1>q, <1>s, <1>24, BuildFailsDoes DEF Torn, Running, Mid, At, On, Does, Waiting, Closing, Placed
<1>25. ASSUME NEW t \in Tasks, Restore(t) PROVE Torn'
  <2>1. pc[t] \in {"build", "restore"} /\ Rebuild(t, "resettle")
    BY <1>25 DEF Restore
  <2>2. /\ inst + 1 \in Harnesses /\ inst' = inst + 1 /\ job[t].old = inst /\ \A h \in Harnesses : h \notin {inst, inst + 1} => harness'[h] = harness[h]
        /\ harness'[inst].held = harness[inst].held
        /\ harness'[inst + 1].turn = "idle" /\ harness'[inst + 1].run = {} /\ ~harness'[inst + 1].disposed
        /\ harness'[inst + 1].queue = harness[inst].queue /\ harness'[inst + 1].next = harness[inst].next
    BY <1>a, <2>1, RebuildMoves DEF Blank, Sessions
  <2>3. surf # inst + 1 /\ \A h \in Harnesses : h \in Nat
    BY <1>a DEF Harnesses
  <2> QED
    BY <1>a, <1>q, <1>s, <1>25, <2>1, <2>2, <2>3, RestoreDoes DEF Torn, Running, Mid, At, On, Does, Waiting,
       Closing, Placed
<1>26. ASSUME NEW t \in Tasks, Kept(t) PROVE Torn'
  BY <1>a, <1>q, <1>s, <1>26, KeptDoes DEF Torn, Running, Mid, At, On, Does, Waiting, Closing, Placed
<1>27. ASSUME NEW t \in Tasks, Rebind(t) PROVE Torn'
  <2>1. lifecycle' = None /\ inst' = inst /\ surf' = inst /\ quit' = quit /\ UNCHANGED <<stopped, accepted, said, returned, cleared>>
        /\ pc[t] = "after" /\ lifecycle = t
    BY <1>a, <1>27, RunningIs DEF Rebind, fates
  <2> QED
    BY <1>a, <1>q, <1>s, <1>27, <2>1, RebindMoves DEF Moved, Same, Torn, Running, Mid, At, On, Does, Waiting,
       Closing, Placed
<1>28. ASSUME NEW t \in Tasks, Raises(t) PROVE Torn'
  BY <1>a, <1>q, <1>s, <1>28, RaisesDoes DEF Torn, Running, Mid, At, On, Does, Waiting, Closing, Placed
<1>29. ASSUME NEW t \in Tasks, RestoreFails(t) PROVE Torn'
  <2>1. inst' = inst \/ Install(t)
    BY <1>29, RestoreFailsDoes
  <2> QED
    BY ZenonT(60), <1>a, <1>q, <1>s, <1>29, <2>1, RestoreFailsDoes, StopMoves DEF Moved, Same, Knows, AbortClears,
       Blank, Torn, Running, Mid, At, On, Does, Waiting, Closing, Placed
<1>30. ASSUME NEW t \in Tasks, Discard(t) PROVE Torn'
  BY <1>a, <1>q, <1>s, <1>30, DiscardDoes DEF Torn, Running, Mid, At, On, Does, Waiting, Closing, Placed
<1>31. ASSUME NEW t \in Tasks, Drop(t) PROVE Torn'
  <2>1. lifecycle' = None /\ pc[t] = "drop" /\ lifecycle = t
    BY <1>a, <1>31, RunningIs DEF Drop
  <2> QED
    BY <1>a, <1>q, <1>s, <1>31, <2>1 DEF Drop, files, runtime, fates, Torn, Running, Mid, At, On, Does, Waiting,
       Closing, Placed
<1>32. ASSUME NEW t \in Tasks, CancelWaiting(t) PROVE Torn'
  <2>1. Aside
    BY <1>32, AsideIs DEF Send, Turn, Other
  <2> QED
    BY <1>a, <1>q, <1>s, <1>32, <2>1 DEF Aside, CancelWaiting, files, runtime, fates, Torn, Running, Mid, At, On,
       Does, Waiting, Closing, Placed
<1>33. ASSUME NEW t \in Tasks, Cancel(t) PROVE Torn'
  BY <1>a, <1>q, <1>s, <1>33, CancelDoes DEF Torn, Running, Mid, At, On, Does, Waiting, Closing, Placed
<1>34. ASSUME NEW t \in Tasks, CancelStops(t) PROVE Torn'
  <2>1. inst' = inst \/ Install(t)
    BY <1>34, CancelStopsDoes
  <2> QED
    BY <1>a, <1>q, <1>s, <1>34, <2>1, CancelStopsDoes, StopMoves DEF Moved, Same, Knows, AbortClears, Blank,
       Torn, Running, Mid, At, On, Does, Waiting, Closing, Placed
<1>35. ASSUME Quit PROVE Torn'
  <2>1. Aside
    BY <1>35, AsideIs DEF Send, Turn, Other
  <2> QED
    BY <1>a, <1>q, <1>s, <1>35, <2>1 DEF Aside, Quit, files, runtime, fates, Torn, Running, Mid, At, On, Does,
       Waiting, Closing, Placed
<1>36. ASSUME QuitDispose PROVE Torn'
  <2>1. Aside /\ harness' = Disposed(inst) /\ inst' = inst /\ UNCHANGED <<surf, stopped, unbound, accepted, said, returned>>
        /\ cleared' = cleared \cup AbortClears(inst) /\ quit = "shut" /\ quit' = "dispose"
    BY <1>36, AsideIs DEF Send, Turn, Other, QuitDispose, runtime
  <2> QED
    BY <1>a, <1>q, <1>s, <2>1, DisposedMoves DEF Aside, Moved, Same, Knows, AbortClears, Torn, Running, Mid, At,
       On, Does, Waiting, Closing, Placed
<1>37. ASSUME QuitReleases PROVE Torn'
  <2>1. Aside
    BY <1>37, AsideIs DEF Send, Turn, Other
  <2> QED
    BY <1>a, <1>q, <1>s, <1>37, <2>1 DEF Aside, QuitReleases, files, runtime, fates, Torn, Running, Mid, At, On,
       Does, Waiting, Closing, Placed
<1>38. ASSUME NEW h \in {inst, surf}, NEW l \in Lines, Prompt(h, l) PROVE Torn'
  <2>1. Aside /\ quit' = quit /\ surf' = surf /\ stopped' = stopped /\ unbound' = unbound
    BY ZenonT(60), <1>38, AsideIs DEF Send, Turn, Other, Prompt, runtime
  <2> QED
    BY ZenonT(60), <1>a, <1>q, <1>s, <1>38, <2>1, PromptMoves DEF Aside, Moved, Same, Knows, Prompt, Torn,
       Running, Mid, At, On, Does, Waiting, Closing, Placed
<1>39. ASSUME NEW h \in {inst, surf}, NEW l \in Lines, Steer(h, l) PROVE Torn'
  <2>1. Aside /\ quit' = quit /\ surf' = surf /\ stopped' = stopped /\ unbound' = unbound
    BY <1>39, AsideIs DEF Send, Turn, Other, Steer, runtime
  <2> QED
    BY <1>a, <1>q, <1>s, <1>39, <2>1, SteerMoves DEF Aside, Moved, Same, Knows, Steer, Torn, Running, Mid, At,
       On, Does, Waiting, Closing, Placed
<1>40. ASSUME Esc PROVE Torn'
  <2>1. Aside /\ quit' = quit /\ surf' = surf /\ stopped' = stopped /\ unbound' = unbound
    BY <1>40, AsideIs DEF Send, Turn, Other, Esc, runtime
  <2> QED
    BY <1>a, <1>q, <1>s, <1>40, <2>1, EscMoves DEF Aside, Moved, Same, Knows, Esc, Torn, Running, Mid, At, On,
       Does, Waiting, Closing, Placed
<1>41. ASSUME NEW h \in Harnesses, TurnEnds(h) PROVE Torn'
  <2>1. Aside /\ quit' = quit /\ surf' = surf /\ stopped' = stopped /\ unbound' = unbound
    BY ZenonT(60), <1>41, AsideIs DEF Send, Turn, Other, TurnEnds, runtime
  <2> QED
    BY ZenonT(60), <1>a, <1>q, <1>s, <1>41, <2>1, TurnMoves DEF Aside, Moved, Same, Knows, TurnEnds, Torn,
       Running, Mid, At, On, Does, Waiting, Closing, Placed
<1>42. ASSUME NEW h \in Harnesses, NEW l \in Lines, Commit(h, l) PROVE Torn'
  <2>1. Aside /\ quit' = quit /\ surf' = surf /\ stopped' = stopped /\ unbound' = unbound
    BY ZenonT(60), <1>42, AsideIs DEF Send, Turn, Other, Commit, runtime
  <2> QED
    BY ZenonT(60), <1>a, <1>q, <1>s, <1>42, <2>1, CommitMoves DEF Aside, Moved, Same, Knows, Commit, Torn,
       Running, Mid, At, On, Does, Waiting, Closing, Placed
<1>43. ASSUME NEW f \in Files, OtherTakes(f) PROVE Torn'
  <2>1. Aside
    BY <1>43, AsideIs DEF Send, Turn, Other
  <2> QED
    BY <1>a, <1>q, <1>s, <1>43, <2>1 DEF Aside, OtherTakes, files, runtime, fates, Torn, Running, Mid, At, On,
       Does, Waiting, Closing, Placed
<1>44. ASSUME NEW f \in Files, OtherWrites(f) PROVE Torn'
  <2>1. Aside
    BY <1>44, AsideIs DEF Send, Turn, Other
  <2> QED
    BY <1>a, <1>q, <1>s, <1>44, <2>1 DEF Aside, OtherWrites, files, runtime, fates, Torn, Running, Mid, At, On,
       Does, Waiting, Closing, Placed
<1>45. ASSUME NEW f \in Files, OtherLeaves(f) PROVE Torn'
  <2>1. Aside
    BY <1>45, AsideIs DEF Send, Turn, Other
  <2> QED
    BY <1>a, <1>q, <1>s, <1>45, <2>1 DEF Aside, OtherLeaves, files, runtime, fates, Torn, Running, Mid, At, On,
       Does, Waiting, Closing, Placed
<1> QED
  BY <1>1, <1>2, <1>3, <1>4, <1>5, <1>6, <1>7, <1>8, <1>9, <1>10, <1>11, <1>12, <1>13, <1>14, <1>15, <1>16,
     <1>17, <1>18, <1>19, <1>20, <1>21, <1>22, <1>23, <1>24, <1>25, <1>26, <1>27, <1>28, <1>29, <1>30, <1>31,
     <1>32, <1>33, <1>34, <1>35, <1>36, <1>37, <1>38, <1>39, <1>40, <1>41, <1>42, <1>43, <1>44, <1>45 DEF Next,
     Swap, Interrupt, Send, Turn, Other

\* Halted
LEMMA HaltedKept ==
  ASSUME Typed, Alone, Locals, Counts, Left, Torn, Halted, Next
  PROVE  Halted'
<1>a. /\ harness \in [Harnesses -> Sessions] /\ inst \in Harnesses /\ surf \in Harnesses /\ job \in [Tasks -> Jobs] /\ None \notin Tasks
      /\ lifecycle \in Tasks \cup {None} /\ inst \in Nat /\ surf \in Nat /\ surf <= inst
  BY NamesAssumption DEF Typed, TypeOK, Harnesses
<1>q. lifecycle # None => quit = "no"
  BY ZenonT(60), <1>a DEF Alone, Ended
<1>s. scope' = scope
  BY ScopeStays
<1>p. pc \in [Tasks -> {"wait"} \cup Asked \cup Blocking \cup Ended]
  BY DEF Typed, TypeOK
<1>1. ASSUME NEW t \in Tasks, NEW k \in Kinds, NEW p \in Tasks \cup {None}, Request(t, k, p) PROVE Halted'
  <2>1. Aside
    BY <1>1, AsideIs DEF Send, Turn, Other
  <2> QED
    BY <1>a, <1>q, <1>s, <1>1, <2>1 DEF Aside, Request, files, runtime, fates, Halted, Running, Mid, At, On, Does
<1>2. ASSUME NEW t \in Tasks, Start(t) PROVE Halted'
  <2>1. lifecycle' = t /\ t # None /\ pc'[t] = "settle" /\ lifecycle = None /\ UNCHANGED <<runtime, harness, fates, quit, scope>>
    BY <1>p, <1>a, <1>2 DEF Start, Goes
  <2> QED
    BY <1>a, <1>q, <1>s, <1>2, <2>1 DEF runtime, fates, Halted, Running, Mid, At, On, Does
<1>3. ASSUME NEW t \in Tasks, Settle(t) PROVE Halted'
  BY <1>a, <1>q, <1>s, <1>3, SettleDoes DEF Halted, Running, Mid, At, On, Does
<1>4. ASSUME NEW t \in Tasks, SettleReload(t) PROVE Halted'
  BY <1>a, <1>q, <1>s, <1>4, SettleReloadDoes DEF Halted, Running, Mid, At, On, Does
<1>5. ASSUME NEW t \in Tasks, NEW f \in Files, TakeTarget(t, f) PROVE Halted'
  BY <1>a, <1>q, <1>s, <1>5, TakeTargetDoes DEF Halted, Running, Mid, At, On, Does
<1>6. ASSUME NEW t \in Tasks, NEW f \in Files, TakeDestination(t, f) PROVE Halted'
  BY <1>a, <1>q, <1>s, <1>6, TakeDestinationDoes DEF Halted, Running, Mid, At, On, Does
<1>7. ASSUME NEW t \in Tasks, OpenTarget(t) PROVE Halted'
  BY <1>a, <1>q, <1>s, <1>7, OpenTargetDoes DEF Halted, Running, Mid, At, On, Does
<1>8. ASSUME NEW t \in Tasks, HookCancels(t) PROVE Halted'
  BY <1>a, <1>q, <1>s, <1>8, HookCancelsDoes DEF Halted, Running, Mid, At, On, Does
<1>9. ASSUME NEW t \in Tasks, Create(t) PROVE Halted'
  BY <1>a, <1>q, <1>s, <1>9, CreateDoes DEF Halted, Running, Mid, At, On, Does
<1>10. ASSUME NEW t \in Tasks, LockNew(t) PROVE Halted'
  BY <1>a, <1>q, <1>s, <1>10, LockNewDoes DEF Halted, Running, Mid, At, On, Does
<1>11. ASSUME NEW t \in Tasks, SwitchUncontended(t) PROVE Halted'
  BY <1>a, <1>q, <1>s, <1>11, SwitchUncontendedDoes DEF Halted, Running, Mid, At, On, Does
<1>12. ASSUME NEW t \in Tasks, AnswerReadOnly(t) PROVE Halted'
  BY <1>a, <1>q, <1>s, <1>12, AnswerReadOnlyDoes DEF Halted, Running, Mid, At, On, Does
<1>13. ASSUME NEW t \in Tasks, AnswerFork(t) PROVE Halted'
  BY <1>a, <1>q, <1>s, <1>13, AnswerForkDoes DEF Halted, Running, Mid, At, On, Does
<1>14. ASSUME NEW t \in Tasks, AnswerCancel(t) PROVE Halted'
  BY <1>a, <1>q, <1>s, <1>14, AnswerCancelDoes DEF Halted, Running, Mid, At, On, Does
<1>15. ASSUME NEW t \in Tasks, Copy(t) PROVE Halted'
  BY <1>a, <1>q, <1>s, <1>15, CopyDoes DEF Halted, Running, Mid, At, On, Does
<1>16. ASSUME NEW t \in Tasks, OpenCopy(t) PROVE Halted'
  BY <1>a, <1>q, <1>s, <1>16, OpenCopyDoes DEF Halted, Running, Mid, At, On, Does
<1>17. ASSUME NEW t \in Tasks, GiveBackFirst(t) PROVE Halted'
  <2>1. inst' = inst \/ Install(t)
    BY <1>17, GiveBackFirstDoes
  <2> QED
    BY <1>a, <1>q, <1>s, <1>17, <2>1, GiveBackFirstDoes, EmptiedMoves DEF Moved, Same, Knows, AbortClears, Blank,
       Halted, Running, Mid, At, On, Does
<1>18. ASSUME NEW t \in Tasks, FirstGiven(t) PROVE Halted'
  BY <1>a, <1>q, <1>s, <1>18, FirstGivenDoes DEF Halted, Running, Mid, At, On, Does
<1>19. ASSUME NEW t \in Tasks, Teardown(t) PROVE Halted'
  <2>1. inst' = inst \/ Install(t)
    BY <1>19, TeardownDoes
  <2> QED
    BY <1>a, <1>q, <1>s, <1>19, <2>1, TeardownDoes, DisposedMoves DEF Moved, Same, Knows, AbortClears, Blank,
       Halted, Running, Mid, At, On, Does
<1>20. ASSUME NEW t \in Tasks, TornDown(t) PROVE Halted'
  <2>1. inst' = inst \/ Install(t)
    BY <1>20, TornDownDoes
  <2> QED
    BY <1>a, <1>q, <1>s, <1>20, <2>1, TornDownDoes, EmptiedMoves DEF Moved, Same, Knows, AbortClears, Blank,
       Halted, Running, Mid, At, On, Does
<1>21. ASSUME NEW t \in Tasks, SecondGiven(t) PROVE Halted'
  BY <1>a, <1>q, <1>s, <1>21, SecondGivenDoes DEF Halted, Running, Mid, At, On, Does
<1>22. ASSUME NEW t \in Tasks, Install(t) PROVE Halted'
  <2>1. /\ inst + 1 \in Harnesses /\ inst' = inst + 1 /\ \A h \in Harnesses : h # inst + 1 => harness'[h] = harness[h]
        /\ harness'[inst + 1].turn = "idle" /\ ~harness'[inst + 1].disposed /\ harness'[inst + 1].run = {}
        /\ harness'[inst + 1].queue = {} /\ harness'[inst + 1].next = {}
    BY ZenonT(60), <1>a, <1>22, InstallMoves DEF Blank
  <2>2. surf # inst + 1
    BY <1>a
  <2> QED
    BY <1>a, <1>q, <1>s, <1>22, <2>1, <2>2, InstallDoes DEF Halted, Running, Mid, At, On, Does
<1>23. ASSUME NEW t \in Tasks, Reload(t) PROVE Halted'
  <2>1. pc[t] \in {"build", "restore"} /\ Rebuild(t, "after")
    BY <1>23 DEF Reload
  <2>2. /\ inst + 1 \in Harnesses /\ inst' = inst + 1 /\ job[t].old = inst /\ \A h \in Harnesses : h \notin {inst, inst + 1} => harness'[h] = harness[h]
        /\ harness'[inst].held = harness[inst].held
        /\ harness'[inst + 1].turn = "idle" /\ harness'[inst + 1].run = {} /\ ~harness'[inst + 1].disposed
        /\ harness'[inst + 1].queue = harness[inst].queue /\ harness'[inst + 1].next = harness[inst].next
    BY <1>a, <2>1, RebuildMoves DEF Blank, Sessions
  <2>3. surf # inst + 1 /\ \A h \in Harnesses : h \in Nat
    BY <1>a DEF Harnesses
  <2> QED
    BY <1>a, <1>q, <1>s, <1>23, <2>1, <2>2, <2>3, ReloadDoes DEF Halted, Running, Mid, At, On, Does
<1>24. ASSUME NEW t \in Tasks, BuildFails(t) PROVE Halted'
  BY <1>a, <1>q, <1>s, <1>24, BuildFailsDoes DEF Halted, Running, Mid, At, On, Does
<1>25. ASSUME NEW t \in Tasks, Restore(t) PROVE Halted'
  <2>1. pc[t] \in {"build", "restore"} /\ Rebuild(t, "resettle")
    BY <1>25 DEF Restore
  <2>2. /\ inst + 1 \in Harnesses /\ inst' = inst + 1 /\ job[t].old = inst /\ \A h \in Harnesses : h \notin {inst, inst + 1} => harness'[h] = harness[h]
        /\ harness'[inst].held = harness[inst].held
        /\ harness'[inst + 1].turn = "idle" /\ harness'[inst + 1].run = {} /\ ~harness'[inst + 1].disposed
        /\ harness'[inst + 1].queue = harness[inst].queue /\ harness'[inst + 1].next = harness[inst].next
    BY <1>a, <2>1, RebuildMoves DEF Blank, Sessions
  <2>3. surf # inst + 1 /\ \A h \in Harnesses : h \in Nat
    BY <1>a DEF Harnesses
  <2> QED
    BY ZenonT(60), <1>a, <1>q, <1>s, <1>25, <2>1, <2>2, <2>3, RestoreDoes DEF Halted, Running, Mid, At, On, Does
<1>26. ASSUME NEW t \in Tasks, Kept(t) PROVE Halted'
  BY <1>a, <1>q, <1>s, <1>26, KeptDoes DEF Halted, Running, Mid, At, On, Does
<1>27. ASSUME NEW t \in Tasks, Rebind(t) PROVE Halted'
  <2>1. lifecycle' = None /\ inst' = inst /\ surf' = inst /\ quit' = quit /\ UNCHANGED <<stopped, accepted, said, returned, cleared>>
        /\ pc[t] = "after" /\ lifecycle = t
    BY <1>a, <1>27, RunningIs DEF Rebind, fates
  <2> QED
    BY <1>a, <1>q, <1>s, <1>27, <2>1, RebindMoves DEF Moved, Same, Halted, Running, Mid, At, On, Does
<1>28. ASSUME NEW t \in Tasks, Raises(t) PROVE Halted'
  BY <1>a, <1>q, <1>s, <1>28, RaisesDoes DEF Halted, Running, Mid, At, On, Does
<1>29. ASSUME NEW t \in Tasks, RestoreFails(t) PROVE Halted'
  <2>1. /\ t # None /\ lifecycle = t /\ pc[t] \in {"restore", "resettle"} /\ lifecycle' = t /\ pc'[t] = "fail" /\ inst' = inst
        /\ surf' = surf /\ unbound' = unbound /\ stopped' = TRUE /\ quit' = quit
    BY <1>29, RestoreFailsDoes DEF At, On
  <2>2. PICK S \in SUBSET {inst, job[t].old} : inst \in S /\ job[t].old \in S /\ Stops(S)
    BY <1>29, RestoreFailsDoes
  <2>3. \A h \in Harnesses :
          /\ harness'[h].disposed = (h \in S \/ harness[h].disposed)
          /\ harness'[h].held = (h \in S \/ harness[h].held)
    BY <2>2, StopMoves
  <2>4. harness'[inst].disposed /\ harness'[inst].held
    BY <1>a, <2>2, <2>3
  <2>5. surf # inst => unbound \/ harness'[surf].held
    BY <1>a, <2>1, <2>2, <2>3 DEF Halted, Running, Mid
  <2> QED
    BY <2>1, <2>4, <2>5 DEF Halted
<1>30. ASSUME NEW t \in Tasks, Discard(t) PROVE Halted'
  BY <1>a, <1>q, <1>s, <1>30, DiscardDoes DEF Halted, Running, Mid, At, On, Does
<1>31. ASSUME NEW t \in Tasks, Drop(t) PROVE Halted'
  <2>1. lifecycle' = None /\ pc[t] = "drop" /\ lifecycle = t
    BY <1>a, <1>31, RunningIs DEF Drop
  <2> QED
    BY <1>a, <1>q, <1>s, <1>31, <2>1 DEF Drop, files, runtime, fates, Halted, Running, Mid, At, On, Does
<1>32. ASSUME NEW t \in Tasks, CancelWaiting(t) PROVE Halted'
  <2>1. Aside
    BY <1>32, AsideIs DEF Send, Turn, Other
  <2> QED
    BY <1>a, <1>q, <1>s, <1>32, <2>1 DEF Aside, CancelWaiting, files, runtime, fates, Halted, Running, Mid, At,
       On, Does
<1>33. ASSUME NEW t \in Tasks, Cancel(t) PROVE Halted'
  BY <1>a, <1>q, <1>s, <1>33, CancelDoes DEF Halted, Running, Mid, At, On, Does
<1>34. ASSUME NEW t \in Tasks, CancelStops(t) PROVE Halted'
  <2>1. /\ t # None /\ lifecycle = t /\ pc[t] \in {"dispose", "build", "restore", "resettle"} /\ lifecycle' = t /\ pc'[t] = "fail" /\ inst' = inst
        /\ surf' = surf /\ unbound' = unbound /\ stopped' = TRUE /\ quit' = quit
    BY <1>34, CancelStopsDoes DEF At, On
  <2>2. PICK S \in SUBSET {inst, job[t].old} : inst \in S /\ (pc[t] \in {"restore", "resettle"} => job[t].old \in S) /\ Stops(S)
    BY <1>34, CancelStopsDoes
  <2>3. \A h \in Harnesses :
          /\ harness'[h].disposed = (h \in S \/ harness[h].disposed)
          /\ harness'[h].held = (h \in S \/ harness[h].held)
    BY <2>2, StopMoves
  <2>4. harness'[inst].disposed /\ harness'[inst].held
    BY <1>a, <2>2, <2>3
  <2>5. surf # inst => unbound \/ harness'[surf].held
    BY <1>a, <2>1, <2>2, <2>3 DEF Halted, Running, Mid
  <2> QED
    BY <2>1, <2>4, <2>5 DEF Halted
<1>35. ASSUME Quit PROVE Halted'
  <2>1. Aside
    BY <1>35, AsideIs DEF Send, Turn, Other
  <2> QED
    BY <1>a, <1>q, <1>s, <1>35, <2>1 DEF Aside, Quit, files, runtime, fates, Halted, Running, Mid, At, On, Does
<1>36. ASSUME QuitDispose PROVE Halted'
  <2>1. Aside /\ harness' = Disposed(inst) /\ inst' = inst /\ UNCHANGED <<surf, stopped, unbound, accepted, said, returned>>
        /\ cleared' = cleared \cup AbortClears(inst) /\ quit = "shut" /\ quit' = "dispose"
    BY <1>36, AsideIs DEF Send, Turn, Other, QuitDispose, runtime
  <2> QED
    BY <1>a, <1>q, <1>s, <2>1, DisposedMoves DEF Aside, Moved, Same, Knows, AbortClears, Halted, Running, Mid,
       At, On, Does
<1>37. ASSUME QuitReleases PROVE Halted'
  <2>1. Aside
    BY <1>37, AsideIs DEF Send, Turn, Other
  <2> QED
    BY <1>a, <1>q, <1>s, <1>37, <2>1 DEF Aside, QuitReleases, files, runtime, fates, Halted, Running, Mid, At,
       On, Does
<1>38. ASSUME NEW h \in {inst, surf}, NEW l \in Lines, Prompt(h, l) PROVE Halted'
  <2>1. Aside /\ quit' = quit /\ surf' = surf /\ stopped' = stopped /\ unbound' = unbound
    BY ZenonT(60), <1>38, AsideIs DEF Send, Turn, Other, Prompt, runtime
  <2> QED
    BY ZenonT(60), <1>a, <1>q, <1>s, <1>38, <2>1, PromptMoves DEF Aside, Moved, Same, Knows, Prompt, Halted,
       Running, Mid, At, On, Does
<1>39. ASSUME NEW h \in {inst, surf}, NEW l \in Lines, Steer(h, l) PROVE Halted'
  <2>1. Aside /\ quit' = quit /\ surf' = surf /\ stopped' = stopped /\ unbound' = unbound
    BY <1>39, AsideIs DEF Send, Turn, Other, Steer, runtime
  <2> QED
    BY <1>a, <1>q, <1>s, <1>39, <2>1, SteerMoves DEF Aside, Moved, Same, Knows, Steer, Halted, Running, Mid, At,
       On, Does
<1>40. ASSUME Esc PROVE Halted'
  <2>1. Aside /\ quit' = quit /\ surf' = surf /\ stopped' = stopped /\ unbound' = unbound
    BY <1>40, AsideIs DEF Send, Turn, Other, Esc, runtime
  <2> QED
    BY <1>a, <1>q, <1>s, <1>40, <2>1, EscMoves DEF Aside, Moved, Same, Knows, Esc, Halted, Running, Mid, At, On,
       Does
<1>41. ASSUME NEW h \in Harnesses, TurnEnds(h) PROVE Halted'
  <2>1. Aside /\ quit' = quit /\ surf' = surf /\ stopped' = stopped /\ unbound' = unbound
    BY ZenonT(60), <1>41, AsideIs DEF Send, Turn, Other, TurnEnds, runtime
  <2> QED
    BY ZenonT(60), <1>a, <1>q, <1>s, <1>41, <2>1, TurnMoves DEF Aside, Moved, Same, Knows, TurnEnds, Halted,
       Running, Mid, At, On, Does
<1>42. ASSUME NEW h \in Harnesses, NEW l \in Lines, Commit(h, l) PROVE Halted'
  <2>1. Aside /\ quit' = quit /\ surf' = surf /\ stopped' = stopped /\ unbound' = unbound
    BY ZenonT(60), <1>42, AsideIs DEF Send, Turn, Other, Commit, runtime
  <2>2. /\ inst' = inst /\ harness'[inst].disposed = harness[inst].disposed /\ harness'[inst].held = harness[inst].held
        /\ \A g \in Harnesses : g # inst => harness'[g] = harness[g]
    BY <1>42, CommitMoves DEF Moved, Same
  <2> QED
    BY <1>a, <1>s, <2>1, <2>2 DEF Aside, Halted, Running, Mid
<1>43. ASSUME NEW f \in Files, OtherTakes(f) PROVE Halted'
  <2>1. Aside
    BY <1>43, AsideIs DEF Send, Turn, Other
  <2> QED
    BY <1>a, <1>q, <1>s, <1>43, <2>1 DEF Aside, OtherTakes, files, runtime, fates, Halted, Running, Mid, At, On,
       Does
<1>44. ASSUME NEW f \in Files, OtherWrites(f) PROVE Halted'
  <2>1. Aside
    BY <1>44, AsideIs DEF Send, Turn, Other
  <2> QED
    BY <1>a, <1>q, <1>s, <1>44, <2>1 DEF Aside, OtherWrites, files, runtime, fates, Halted, Running, Mid, At, On,
       Does
<1>45. ASSUME NEW f \in Files, OtherLeaves(f) PROVE Halted'
  <2>1. Aside
    BY <1>45, AsideIs DEF Send, Turn, Other
  <2> QED
    BY <1>a, <1>q, <1>s, <1>45, <2>1 DEF Aside, OtherLeaves, files, runtime, fates, Halted, Running, Mid, At, On,
       Does
<1> QED
  BY <1>1, <1>2, <1>3, <1>4, <1>5, <1>6, <1>7, <1>8, <1>9, <1>10, <1>11, <1>12, <1>13, <1>14, <1>15, <1>16,
     <1>17, <1>18, <1>19, <1>20, <1>21, <1>22, <1>23, <1>24, <1>25, <1>26, <1>27, <1>28, <1>29, <1>30, <1>31,
     <1>32, <1>33, <1>34, <1>35, <1>36, <1>37, <1>38, <1>39, <1>40, <1>41, <1>42, <1>43, <1>44, <1>45 DEF Next,
     Swap, Interrupt, Send, Turn, Other

\* Lined
LEMMA LinedKept ==
  ASSUME Typed, Alone, Locals, Counts, Left, Torn, Lined, Next
  PROVE  Lined'
<1>a. /\ harness \in [Harnesses -> Sessions] /\ inst \in Harnesses /\ surf \in Harnesses /\ job \in [Tasks -> Jobs] /\ None \notin Tasks
      /\ lifecycle \in Tasks \cup {None} /\ inst \in Nat /\ surf \in Nat /\ surf <= inst
  BY NamesAssumption DEF Typed, TypeOK, Harnesses
<1>q. lifecycle # None => quit = "no"
  BY ZenonT(60), <1>a DEF Alone, Ended
<1>s. scope' = scope
  BY ScopeStays
<1>p. pc \in [Tasks -> {"wait"} \cup Asked \cup Blocking \cup Ended]
  BY DEF Typed, TypeOK
<1>1. ASSUME NEW t \in Tasks, NEW k \in Kinds, NEW p \in Tasks \cup {None}, Request(t, k, p) PROVE Lined'
  <2>1. Aside
    BY <1>1, AsideIs DEF Send, Turn, Other
  <2> QED
    BY <1>a, <1>q, <1>s, <1>1, <2>1 DEF Aside, Request, files, runtime, fates, Lined, Running, Mid, At, On, Does,
       Waiting, Fates
<1>2. ASSUME NEW t \in Tasks, Start(t) PROVE Lined'
  <2>1. lifecycle' = t /\ t # None /\ pc'[t] = "settle" /\ lifecycle = None /\ UNCHANGED <<runtime, harness, fates, quit, scope>>
    BY <1>p, <1>a, <1>2 DEF Start, Goes
  <2> QED
    BY <1>a, <1>q, <1>s, <1>2, <2>1 DEF runtime, fates, Lined, Running, Mid, At, On, Does, Waiting, Fates
<1>3. ASSUME NEW t \in Tasks, Settle(t) PROVE Lined'
  BY <1>a, <1>q, <1>s, <1>3, SettleDoes DEF Lined, Running, Mid, At, On, Does, Waiting, Fates
<1>4. ASSUME NEW t \in Tasks, SettleReload(t) PROVE Lined'
  BY <1>a, <1>q, <1>s, <1>4, SettleReloadDoes DEF Lined, Running, Mid, At, On, Does, Waiting, Fates
<1>5. ASSUME NEW t \in Tasks, NEW f \in Files, TakeTarget(t, f) PROVE Lined'
  BY <1>a, <1>q, <1>s, <1>5, TakeTargetDoes DEF Lined, Running, Mid, At, On, Does, Waiting, Fates
<1>6. ASSUME NEW t \in Tasks, NEW f \in Files, TakeDestination(t, f) PROVE Lined'
  BY <1>a, <1>q, <1>s, <1>6, TakeDestinationDoes DEF Lined, Running, Mid, At, On, Does, Waiting, Fates
<1>7. ASSUME NEW t \in Tasks, OpenTarget(t) PROVE Lined'
  BY <1>a, <1>q, <1>s, <1>7, OpenTargetDoes DEF Lined, Running, Mid, At, On, Does, Waiting, Fates
<1>8. ASSUME NEW t \in Tasks, HookCancels(t) PROVE Lined'
  BY <1>a, <1>q, <1>s, <1>8, HookCancelsDoes DEF Lined, Running, Mid, At, On, Does, Waiting, Fates
<1>9. ASSUME NEW t \in Tasks, Create(t) PROVE Lined'
  BY <1>a, <1>q, <1>s, <1>9, CreateDoes DEF Lined, Running, Mid, At, On, Does, Waiting, Fates
<1>10. ASSUME NEW t \in Tasks, LockNew(t) PROVE Lined'
  BY <1>a, <1>q, <1>s, <1>10, LockNewDoes DEF Lined, Running, Mid, At, On, Does, Waiting, Fates
<1>11. ASSUME NEW t \in Tasks, SwitchUncontended(t) PROVE Lined'
  BY <1>a, <1>q, <1>s, <1>11, SwitchUncontendedDoes DEF Lined, Running, Mid, At, On, Does, Waiting, Fates
<1>12. ASSUME NEW t \in Tasks, AnswerReadOnly(t) PROVE Lined'
  BY <1>a, <1>q, <1>s, <1>12, AnswerReadOnlyDoes DEF Lined, Running, Mid, At, On, Does, Waiting, Fates
<1>13. ASSUME NEW t \in Tasks, AnswerFork(t) PROVE Lined'
  BY <1>a, <1>q, <1>s, <1>13, AnswerForkDoes DEF Lined, Running, Mid, At, On, Does, Waiting, Fates
<1>14. ASSUME NEW t \in Tasks, AnswerCancel(t) PROVE Lined'
  BY <1>a, <1>q, <1>s, <1>14, AnswerCancelDoes DEF Lined, Running, Mid, At, On, Does, Waiting, Fates
<1>15. ASSUME NEW t \in Tasks, Copy(t) PROVE Lined'
  BY <1>a, <1>q, <1>s, <1>15, CopyDoes DEF Lined, Running, Mid, At, On, Does, Waiting, Fates
<1>16. ASSUME NEW t \in Tasks, OpenCopy(t) PROVE Lined'
  BY <1>a, <1>q, <1>s, <1>16, OpenCopyDoes DEF Lined, Running, Mid, At, On, Does, Waiting, Fates
<1>17. ASSUME NEW t \in Tasks, GiveBackFirst(t) PROVE Lined'
  <2>1. inst' = inst \/ Install(t)
    BY <1>17, GiveBackFirstDoes
  <2> QED
    BY <1>a, <1>q, <1>s, <1>17, <2>1, GiveBackFirstDoes, EmptiedMoves DEF Moved, Same, Knows, AbortClears, Blank,
       Lined, Running, Mid, At, On, Does, Waiting, Fates
<1>18. ASSUME NEW t \in Tasks, FirstGiven(t) PROVE Lined'
  BY <1>a, <1>q, <1>s, <1>18, FirstGivenDoes DEF Lined, Running, Mid, At, On, Does, Waiting, Fates
<1>19. ASSUME NEW t \in Tasks, Teardown(t) PROVE Lined'
  <2>1. inst' = inst \/ Install(t)
    BY <1>19, TeardownDoes
  <2> QED
    BY <1>a, <1>q, <1>s, <1>19, <2>1, TeardownDoes, DisposedMoves DEF Moved, Same, Knows, AbortClears, Blank,
       Lined, Running, Mid, At, On, Does, Waiting, Fates
<1>20. ASSUME NEW t \in Tasks, TornDown(t) PROVE Lined'
  <2>1. inst' = inst \/ Install(t)
    BY <1>20, TornDownDoes
  <2> QED
    BY <1>a, <1>q, <1>s, <1>20, <2>1, TornDownDoes, EmptiedMoves DEF Moved, Same, Knows, AbortClears, Blank,
       Lined, Running, Mid, At, On, Does, Waiting, Fates
<1>21. ASSUME NEW t \in Tasks, SecondGiven(t) PROVE Lined'
  BY <1>a, <1>q, <1>s, <1>21, SecondGivenDoes DEF Lined, Running, Mid, At, On, Does, Waiting, Fates
<1>22. ASSUME NEW t \in Tasks, Install(t) PROVE Lined'
  <2>1. pc[t] = "build" /\ job[t].kind \in Swaps
    BY <1>22 DEF Install
  <2>2. harness[inst].run = {} /\ harness[inst].queue = {} /\ harness[inst].next = {}
    BY <2>1, RunningIs DEF Torn, Left, Waiting
  <2>3. UNCHANGED <<accepted, said, returned, cleared>>
    BY <1>22, InstallDoes
  <2>4. harness'[inst'].run = {} /\ harness'[inst'].queue = {} /\ harness'[inst'].next = {}
    BY ZenonT(60), <1>22, InstallMoves DEF Blank
  <2> QED
    BY <2>2, <2>3, <2>4 DEF Lined, Waiting, Fates
<1>23. ASSUME NEW t \in Tasks, Reload(t) PROVE Lined'
  <2>1. pc[t] \in {"build", "restore"} /\ Rebuild(t, "after")
    BY <1>23 DEF Reload
  <2>2. harness[inst].run = {}
    BY <2>1, RunningIs DEF Torn, Left
  <2>3. UNCHANGED <<accepted, said, returned, cleared>>
    BY <1>23, ReloadDoes
  <2>4. harness'[inst'].run = {} /\ harness'[inst'].queue = harness[inst].queue /\ harness'[inst'].next = harness[inst].next
    BY <2>1, RebuildMoves DEF Blank
  <2> QED
    BY <2>2, <2>3, <2>4 DEF Lined, Waiting, Fates
<1>24. ASSUME NEW t \in Tasks, BuildFails(t) PROVE Lined'
  BY <1>a, <1>q, <1>s, <1>24, BuildFailsDoes DEF Lined, Running, Mid, At, On, Does, Waiting, Fates
<1>25. ASSUME NEW t \in Tasks, Restore(t) PROVE Lined'
  <2>1. pc[t] \in {"build", "restore"} /\ Rebuild(t, "resettle")
    BY <1>25 DEF Restore
  <2>2. harness[inst].run = {}
    BY <2>1, RunningIs DEF Torn, Left
  <2>3. UNCHANGED <<accepted, said, returned, cleared>>
    BY <1>25, RestoreDoes
  <2>4. harness'[inst'].run = {} /\ harness'[inst'].queue = harness[inst].queue /\ harness'[inst'].next = harness[inst].next
    BY <2>1, RebuildMoves DEF Blank
  <2> QED
    BY <2>2, <2>3, <2>4 DEF Lined, Waiting, Fates
<1>26. ASSUME NEW t \in Tasks, Kept(t) PROVE Lined'
  BY <1>a, <1>q, <1>s, <1>26, KeptDoes DEF Lined, Running, Mid, At, On, Does, Waiting, Fates
<1>27. ASSUME NEW t \in Tasks, Rebind(t) PROVE Lined'
  <2>1. lifecycle' = None /\ inst' = inst /\ surf' = inst /\ quit' = quit /\ UNCHANGED <<stopped, accepted, said, returned, cleared>>
        /\ pc[t] = "after" /\ lifecycle = t
    BY <1>a, <1>27, RunningIs DEF Rebind, fates
  <2> QED
    BY <1>a, <1>q, <1>s, <1>27, <2>1, RebindMoves DEF Moved, Same, Lined, Running, Mid, At, On, Does, Waiting, Fates
<1>28. ASSUME NEW t \in Tasks, Raises(t) PROVE Lined'
  BY <1>a, <1>q, <1>s, <1>28, RaisesDoes DEF Lined, Running, Mid, At, On, Does, Waiting, Fates
<1>29. ASSUME NEW t \in Tasks, RestoreFails(t) PROVE Lined'
  <2>1. inst' = inst /\ UNCHANGED <<accepted, said, returned, cleared>> /\ \E S : Stops(S)
    BY <1>29, RestoreFailsDoes
  <2>2. harness'[inst].run = harness[inst].run /\ harness'[inst].queue = harness[inst].queue
        /\ harness'[inst].next = harness[inst].next
    BY <1>a, <2>1, StopMoves
  <2> QED
    BY <2>1, <2>2 DEF Lined, Waiting, Fates
<1>30. ASSUME NEW t \in Tasks, Discard(t) PROVE Lined'
  BY <1>a, <1>q, <1>s, <1>30, DiscardDoes DEF Lined, Running, Mid, At, On, Does, Waiting, Fates
<1>31. ASSUME NEW t \in Tasks, Drop(t) PROVE Lined'
  <2>1. lifecycle' = None /\ pc[t] = "drop" /\ lifecycle = t
    BY <1>a, <1>31, RunningIs DEF Drop
  <2> QED
    BY <1>a, <1>q, <1>s, <1>31, <2>1 DEF Drop, files, runtime, fates, Lined, Running, Mid, At, On, Does, Waiting,
       Fates
<1>32. ASSUME NEW t \in Tasks, CancelWaiting(t) PROVE Lined'
  <2>1. Aside
    BY <1>32, AsideIs DEF Send, Turn, Other
  <2> QED
    BY <1>a, <1>q, <1>s, <1>32, <2>1 DEF Aside, CancelWaiting, files, runtime, fates, Lined, Running, Mid, At,
       On, Does, Waiting, Fates
<1>33. ASSUME NEW t \in Tasks, Cancel(t) PROVE Lined'
  BY <1>a, <1>q, <1>s, <1>33, CancelDoes DEF Lined, Running, Mid, At, On, Does, Waiting, Fates
<1>34. ASSUME NEW t \in Tasks, CancelStops(t) PROVE Lined'
  <2>1. inst' = inst /\ UNCHANGED <<accepted, said, returned, cleared>> /\ \E S : Stops(S)
    BY <1>34, CancelStopsDoes
  <2>2. harness'[inst].run = harness[inst].run /\ harness'[inst].queue = harness[inst].queue
        /\ harness'[inst].next = harness[inst].next
    BY <1>a, <2>1, StopMoves
  <2> QED
    BY <2>1, <2>2 DEF Lined, Waiting, Fates
<1>35. ASSUME Quit PROVE Lined'
  <2>1. Aside
    BY <1>35, AsideIs DEF Send, Turn, Other
  <2> QED
    BY <1>a, <1>q, <1>s, <1>35, <2>1 DEF Aside, Quit, files, runtime, fates, Lined, Running, Mid, At, On, Does,
       Waiting, Fates
<1>36. ASSUME QuitDispose PROVE Lined'
  <2>1. Aside /\ harness' = Disposed(inst) /\ inst' = inst /\ UNCHANGED <<surf, stopped, unbound, accepted, said, returned>>
        /\ cleared' = cleared \cup AbortClears(inst) /\ quit = "shut" /\ quit' = "dispose"
    BY <1>36, AsideIs DEF Send, Turn, Other, QuitDispose, runtime
  <2> QED
    BY <1>a, <1>q, <1>s, <2>1, DisposedMoves DEF Aside, Moved, Same, Knows, AbortClears, Lined, Running, Mid, At,
       On, Does, Waiting, Fates
<1>37. ASSUME QuitReleases PROVE Lined'
  <2>1. Aside
    BY <1>37, AsideIs DEF Send, Turn, Other
  <2> QED
    BY <1>a, <1>q, <1>s, <1>37, <2>1 DEF Aside, QuitReleases, files, runtime, fates, Lined, Running, Mid, At, On,
       Does, Waiting, Fates
<1>38. ASSUME NEW h \in {inst, surf}, NEW l \in Lines, Prompt(h, l) PROVE Lined'
  <2> DEFINE r == harness[inst].run
             q == harness[inst].queue
             n == harness[inst].next
  <2>9. /\ r \cap q = {} /\ r \cap n = {} /\ q \cap n = {}
        /\ said \cap returned = {} /\ said \cap cleared = {} /\ returned \cap cleared = {}
        /\ (r \cup q \cup n) \cap (said \cup returned \cup cleared) = {}
        /\ accepted = said \cup returned \cup cleared \cup r \cup q \cup n
    BY DEF Lined, Waiting, Fates
  <2>1. l \notin accepted /\ accepted' = accepted \cup {l} /\ UNCHANGED <<said, returned, cleared>> /\ r' = {l} \cup n /\ q' = q /\ n' = {} /\ r = {}
    BY ZenonT(60), <1>38, PromptMoves DEF Moved, Prompt, Left
  <2> HIDE DEF r, q, n
  <2>2. /\ r' \cap q' = {} /\ r' \cap n' = {} /\ q' \cap n' = {}
        /\ said' \cap returned' = {} /\ said' \cap cleared' = {} /\ returned' \cap cleared' = {}
        /\ (r' \cup q' \cup n') \cap (said' \cup returned' \cup cleared') = {}
        /\ accepted' = said' \cup returned' \cup cleared' \cup r' \cup q' \cup n'
    BY <2>9, <2>1
  <2> USE DEF r, q, n
  <2> QED
    BY <2>2 DEF Lined, Waiting, Fates
<1>39. ASSUME NEW h \in {inst, surf}, NEW l \in Lines, Steer(h, l) PROVE Lined'
  <2> DEFINE r == harness[inst].run
             q == harness[inst].queue
             n == harness[inst].next
  <2>9. /\ r \cap q = {} /\ r \cap n = {} /\ q \cap n = {}
        /\ said \cap returned = {} /\ said \cap cleared = {} /\ returned \cap cleared = {}
        /\ (r \cup q \cup n) \cap (said \cup returned \cup cleared) = {}
        /\ accepted = said \cup returned \cup cleared \cup r \cup q \cup n
    BY DEF Lined, Waiting, Fates
  <2>1. l \notin accepted /\ accepted' = accepted \cup {l} /\ UNCHANGED <<said, returned, cleared>> /\ r' = r /\ q' = q \cup {l} /\ n' = n
    BY <1>39, SteerMoves DEF Moved, Steer
  <2> HIDE DEF r, q, n
  <2>2. /\ r' \cap q' = {} /\ r' \cap n' = {} /\ q' \cap n' = {}
        /\ said' \cap returned' = {} /\ said' \cap cleared' = {} /\ returned' \cap cleared' = {}
        /\ (r' \cup q' \cup n') \cap (said' \cup returned' \cup cleared') = {}
        /\ accepted' = said' \cup returned' \cup cleared' \cup r' \cup q' \cup n'
    BY <2>9, <2>1
  <2> USE DEF r, q, n
  <2> QED
    BY <2>2 DEF Lined, Waiting, Fates
<1>40. ASSUME Esc PROVE Lined'
  <2>1. Aside /\ quit' = quit /\ surf' = surf /\ stopped' = stopped /\ unbound' = unbound
    BY <1>40, AsideIs DEF Send, Turn, Other, Esc, runtime
  <2> QED
    BY SMTT(60), <1>a, <1>q, <1>s, <1>40, <2>1, EscMoves DEF Aside, Moved, Same, Knows, Esc, Lined, Running, Mid,
       At, On, Does, Waiting, Fates
<1>41. ASSUME NEW h \in Harnesses, TurnEnds(h) PROVE Lined'
  <2> DEFINE r == harness[inst].run
             q == harness[inst].queue
             n == harness[inst].next
  <2>9. /\ r \cap q = {} /\ r \cap n = {} /\ q \cap n = {}
        /\ said \cap returned = {} /\ said \cap cleared = {} /\ returned \cap cleared = {}
        /\ (r \cup q \cup n) \cap (said \cup returned \cup cleared) = {}
        /\ accepted = said \cup returned \cup cleared \cup r \cup q \cup n
    BY DEF Lined, Waiting, Fates
  <2>1. /\ UNCHANGED <<accepted, said, cleared>> /\ r' = {} /\ q' = q /\ n' = (IF harness[inst].turn = "cut" THEN n \cup r ELSE n)
        /\ returned' = (IF harness[inst].turn = "esc" THEN returned \cup r ELSE returned)
        /\ harness[inst].turn = "esc" \/ harness[inst].turn = "cut" \/ r = {}
    BY ZenonT(60), <1>a, <1>41, TurnMoves DEF Moved, TurnEnds, Sessions
  <2> HIDE DEF r, q, n
  <2>2. /\ r' \cap q' = {} /\ r' \cap n' = {} /\ q' \cap n' = {}
        /\ said' \cap returned' = {} /\ said' \cap cleared' = {} /\ returned' \cap cleared' = {}
        /\ (r' \cup q' \cup n') \cap (said' \cup returned' \cup cleared') = {}
        /\ accepted' = said' \cup returned' \cup cleared' \cup r' \cup q' \cup n'
    BY <2>9, <2>1
  <2> USE DEF r, q, n
  <2> QED
    BY <2>2 DEF Lined, Waiting, Fates
<1>42. ASSUME NEW h \in Harnesses, NEW l \in Lines, Commit(h, l) PROVE Lined'
  <2> DEFINE r == harness[inst].run
             q == harness[inst].queue
             n == harness[inst].next
  <2>9. /\ r \cap q = {} /\ r \cap n = {} /\ q \cap n = {}
        /\ said \cap returned = {} /\ said \cap cleared = {} /\ returned \cap cleared = {}
        /\ (r \cup q \cup n) \cap (said \cup returned \cup cleared) = {}
        /\ accepted = said \cup returned \cup cleared \cup r \cup q \cup n
    BY DEF Lined, Waiting, Fates
  <2>1. /\ UNCHANGED <<accepted, returned, cleared>> /\ said' = said \cup {l}
        /\ r' = r \ {l} /\ q' = q \ {l} /\ n' = n /\ l \in r \cup q
    BY ZenonT(60), <1>42, CommitMoves DEF Moved, Commit
  <2> HIDE DEF r, q, n
  <2>2. /\ r' \cap q' = {} /\ r' \cap n' = {} /\ q' \cap n' = {}
        /\ said' \cap returned' = {} /\ said' \cap cleared' = {} /\ returned' \cap cleared' = {}
        /\ (r' \cup q' \cup n') \cap (said' \cup returned' \cup cleared') = {}
        /\ accepted' = said' \cup returned' \cup cleared' \cup r' \cup q' \cup n'
    BY <2>9, <2>1
  <2> USE DEF r, q, n
  <2> QED
    BY <2>2 DEF Lined, Waiting, Fates
<1>43. ASSUME NEW f \in Files, OtherTakes(f) PROVE Lined'
  <2>1. Aside
    BY <1>43, AsideIs DEF Send, Turn, Other
  <2> QED
    BY <1>a, <1>q, <1>s, <1>43, <2>1 DEF Aside, OtherTakes, files, runtime, fates, Lined, Running, Mid, At, On,
       Does, Waiting, Fates
<1>44. ASSUME NEW f \in Files, OtherWrites(f) PROVE Lined'
  <2>1. Aside
    BY <1>44, AsideIs DEF Send, Turn, Other
  <2> QED
    BY <1>a, <1>q, <1>s, <1>44, <2>1 DEF Aside, OtherWrites, files, runtime, fates, Lined, Running, Mid, At, On,
       Does, Waiting, Fates
<1>45. ASSUME NEW f \in Files, OtherLeaves(f) PROVE Lined'
  <2>1. Aside
    BY <1>45, AsideIs DEF Send, Turn, Other
  <2> QED
    BY <1>a, <1>q, <1>s, <1>45, <2>1 DEF Aside, OtherLeaves, files, runtime, fates, Lined, Running, Mid, At, On,
       Does, Waiting, Fates
<1> QED
  BY <1>1, <1>2, <1>3, <1>4, <1>5, <1>6, <1>7, <1>8, <1>9, <1>10, <1>11, <1>12, <1>13, <1>14, <1>15, <1>16,
     <1>17, <1>18, <1>19, <1>20, <1>21, <1>22, <1>23, <1>24, <1>25, <1>26, <1>27, <1>28, <1>29, <1>30, <1>31,
     <1>32, <1>33, <1>34, <1>35, <1>36, <1>37, <1>38, <1>39, <1>40, <1>41, <1>42, <1>43, <1>44, <1>45 DEF Next,
     Swap, Interrupt, Send, Turn, Other

\* Warned
LEMMA WarnedKept ==
  ASSUME Typed, Alone, Locals, Counts, Left, Torn, Warned, Next
  PROVE  Warned'
<1>a. /\ harness \in [Harnesses -> Sessions] /\ inst \in Harnesses /\ surf \in Harnesses /\ job \in [Tasks -> Jobs] /\ None \notin Tasks
      /\ lifecycle \in Tasks \cup {None} /\ inst \in Nat /\ surf \in Nat /\ surf <= inst
  BY NamesAssumption DEF Typed, TypeOK, Harnesses
<1>q. lifecycle # None => quit = "no"
  BY ZenonT(60), <1>a DEF Alone, Ended
<1>s. scope' = scope
  BY ScopeStays
<1>p. pc \in [Tasks -> {"wait"} \cup Asked \cup Blocking \cup Ended]
  BY DEF Typed, TypeOK
<1>1. ASSUME NEW t \in Tasks, NEW k \in Kinds, NEW p \in Tasks \cup {None}, Request(t, k, p) PROVE Warned'
  <2>1. Aside
    BY <1>1, AsideIs DEF Send, Turn, Other
  <2> QED
    BY <1>a, <1>q, <1>s, <1>1, <2>1 DEF Aside, Request, files, runtime, fates, Warned, Running, Mid, At, On, Does
<1>2. ASSUME NEW t \in Tasks, Start(t) PROVE Warned'
  <2>1. lifecycle' = t /\ t # None /\ pc'[t] = "settle" /\ lifecycle = None /\ UNCHANGED <<runtime, harness, fates, quit, scope>>
    BY <1>p, <1>a, <1>2 DEF Start, Goes
  <2> QED
    BY <1>a, <1>q, <1>s, <1>2, <2>1 DEF runtime, fates, Warned, Running, Mid, At, On, Does
<1>3. ASSUME NEW t \in Tasks, Settle(t) PROVE Warned'
  BY <1>a, <1>q, <1>s, <1>3, SettleDoes DEF Warned, Running, Mid, At, On, Does
<1>4. ASSUME NEW t \in Tasks, SettleReload(t) PROVE Warned'
  BY <1>a, <1>q, <1>s, <1>4, SettleReloadDoes DEF Warned, Running, Mid, At, On, Does
<1>5. ASSUME NEW t \in Tasks, NEW f \in Files, TakeTarget(t, f) PROVE Warned'
  BY <1>a, <1>q, <1>s, <1>5, TakeTargetDoes DEF Warned, Running, Mid, At, On, Does
<1>6. ASSUME NEW t \in Tasks, NEW f \in Files, TakeDestination(t, f) PROVE Warned'
  BY <1>a, <1>q, <1>s, <1>6, TakeDestinationDoes DEF Warned, Running, Mid, At, On, Does
<1>7. ASSUME NEW t \in Tasks, OpenTarget(t) PROVE Warned'
  BY <1>a, <1>q, <1>s, <1>7, OpenTargetDoes DEF Warned, Running, Mid, At, On, Does
<1>8. ASSUME NEW t \in Tasks, HookCancels(t) PROVE Warned'
  BY <1>a, <1>q, <1>s, <1>8, HookCancelsDoes DEF Warned, Running, Mid, At, On, Does
<1>9. ASSUME NEW t \in Tasks, Create(t) PROVE Warned'
  BY <1>a, <1>q, <1>s, <1>9, CreateDoes DEF Warned, Running, Mid, At, On, Does
<1>10. ASSUME NEW t \in Tasks, LockNew(t) PROVE Warned'
  BY <1>a, <1>q, <1>s, <1>10, LockNewDoes DEF Warned, Running, Mid, At, On, Does
<1>11. ASSUME NEW t \in Tasks, SwitchUncontended(t) PROVE Warned'
  BY <1>a, <1>q, <1>s, <1>11, SwitchUncontendedDoes DEF Warned, Running, Mid, At, On, Does
<1>12. ASSUME NEW t \in Tasks, AnswerReadOnly(t) PROVE Warned'
  BY <1>a, <1>q, <1>s, <1>12, AnswerReadOnlyDoes DEF Warned, Running, Mid, At, On, Does
<1>13. ASSUME NEW t \in Tasks, AnswerFork(t) PROVE Warned'
  BY <1>a, <1>q, <1>s, <1>13, AnswerForkDoes DEF Warned, Running, Mid, At, On, Does
<1>14. ASSUME NEW t \in Tasks, AnswerCancel(t) PROVE Warned'
  BY <1>a, <1>q, <1>s, <1>14, AnswerCancelDoes DEF Warned, Running, Mid, At, On, Does
<1>15. ASSUME NEW t \in Tasks, Copy(t) PROVE Warned'
  BY <1>a, <1>q, <1>s, <1>15, CopyDoes DEF Warned, Running, Mid, At, On, Does
<1>16. ASSUME NEW t \in Tasks, OpenCopy(t) PROVE Warned'
  BY <1>a, <1>q, <1>s, <1>16, OpenCopyDoes DEF Warned, Running, Mid, At, On, Does
<1>17. ASSUME NEW t \in Tasks, GiveBackFirst(t) PROVE Warned'
  <2>1. inst' = inst \/ Install(t)
    BY <1>17, GiveBackFirstDoes
  <2> QED
    BY <1>a, <1>q, <1>s, <1>17, <2>1, GiveBackFirstDoes, EmptiedMoves DEF Moved, Same, Knows, AbortClears, Blank,
       Warned, Running, Mid, At, On, Does
<1>18. ASSUME NEW t \in Tasks, FirstGiven(t) PROVE Warned'
  BY <1>a, <1>q, <1>s, <1>18, FirstGivenDoes DEF Warned, Running, Mid, At, On, Does
<1>19. ASSUME NEW t \in Tasks, Teardown(t) PROVE Warned'
  <2>1. inst' = inst \/ Install(t)
    BY <1>19, TeardownDoes
  <2> QED
    BY <1>a, <1>q, <1>s, <1>19, <2>1, TeardownDoes, DisposedMoves DEF Moved, Same, Knows, AbortClears, Blank,
       Warned, Running, Mid, At, On, Does
<1>20. ASSUME NEW t \in Tasks, TornDown(t) PROVE Warned'
  <2>1. inst' = inst \/ Install(t)
    BY <1>20, TornDownDoes
  <2> QED
    BY <1>a, <1>q, <1>s, <1>20, <2>1, TornDownDoes, EmptiedMoves DEF Moved, Same, Knows, AbortClears, Blank,
       Warned, Running, Mid, At, On, Does
<1>21. ASSUME NEW t \in Tasks, SecondGiven(t) PROVE Warned'
  BY <1>a, <1>q, <1>s, <1>21, SecondGivenDoes DEF Warned, Running, Mid, At, On, Does
<1>22. ASSUME NEW t \in Tasks, Install(t) PROVE Warned'
  <2>1. /\ inst + 1 \in Harnesses /\ inst' = inst + 1 /\ \A h \in Harnesses : h # inst + 1 => harness'[h] = harness[h]
        /\ harness'[inst + 1].turn = "idle" /\ ~harness'[inst + 1].disposed /\ harness'[inst + 1].run = {}
        /\ harness'[inst + 1].queue = {} /\ harness'[inst + 1].next = {}
    BY ZenonT(60), <1>a, <1>22, InstallMoves DEF Blank
  <2>2. surf # inst + 1
    BY <1>a
  <2> QED
    BY <1>a, <1>q, <1>s, <1>22, <2>1, <2>2, InstallDoes DEF Warned, Running, Mid, At, On, Does
<1>23. ASSUME NEW t \in Tasks, Reload(t) PROVE Warned'
  <2>1. pc[t] \in {"build", "restore"} /\ Rebuild(t, "after")
    BY <1>23 DEF Reload
  <2>2. /\ inst + 1 \in Harnesses /\ inst' = inst + 1 /\ job[t].old = inst /\ \A h \in Harnesses : h \notin {inst, inst + 1} => harness'[h] = harness[h]
        /\ harness'[inst].held = harness[inst].held
        /\ harness'[inst + 1].turn = "idle" /\ harness'[inst + 1].run = {} /\ ~harness'[inst + 1].disposed
        /\ harness'[inst + 1].queue = harness[inst].queue /\ harness'[inst + 1].next = harness[inst].next
    BY <1>a, <2>1, RebuildMoves DEF Blank, Sessions
  <2>3. surf # inst + 1 /\ \A h \in Harnesses : h \in Nat
    BY <1>a DEF Harnesses
  <2> QED
    BY <1>a, <1>q, <1>s, <1>23, <2>1, <2>2, <2>3, ReloadDoes DEF Warned, Running, Mid, At, On, Does
<1>24. ASSUME NEW t \in Tasks, BuildFails(t) PROVE Warned'
  BY <1>a, <1>q, <1>s, <1>24, BuildFailsDoes DEF Warned, Running, Mid, At, On, Does
<1>25. ASSUME NEW t \in Tasks, Restore(t) PROVE Warned'
  <2>1. pc[t] \in {"build", "restore"} /\ Rebuild(t, "resettle")
    BY <1>25 DEF Restore
  <2>2. /\ inst + 1 \in Harnesses /\ inst' = inst + 1 /\ job[t].old = inst /\ \A h \in Harnesses : h \notin {inst, inst + 1} => harness'[h] = harness[h]
        /\ harness'[inst].held = harness[inst].held
        /\ harness'[inst + 1].turn = "idle" /\ harness'[inst + 1].run = {} /\ ~harness'[inst + 1].disposed
        /\ harness'[inst + 1].queue = harness[inst].queue /\ harness'[inst + 1].next = harness[inst].next
    BY <1>a, <2>1, RebuildMoves DEF Blank, Sessions
  <2>3. surf # inst + 1 /\ \A h \in Harnesses : h \in Nat
    BY <1>a DEF Harnesses
  <2> QED
    BY <1>a, <1>q, <1>s, <1>25, <2>1, <2>2, <2>3, RestoreDoes DEF Warned, Running, Mid, At, On, Does
<1>26. ASSUME NEW t \in Tasks, Kept(t) PROVE Warned'
  BY <1>a, <1>q, <1>s, <1>26, KeptDoes DEF Warned, Running, Mid, At, On, Does
<1>27. ASSUME NEW t \in Tasks, Rebind(t) PROVE Warned'
  <2>1. lifecycle' = None /\ inst' = inst /\ surf' = inst /\ quit' = quit /\ UNCHANGED <<stopped, accepted, said, returned, cleared>>
        /\ pc[t] = "after" /\ lifecycle = t
    BY <1>a, <1>27, RunningIs DEF Rebind, fates
  <2> QED
    BY <1>a, <1>q, <1>s, <1>27, <2>1, RebindMoves DEF Moved, Same, Warned, Running, Mid, At, On, Does
<1>28. ASSUME NEW t \in Tasks, Raises(t) PROVE Warned'
  BY <1>a, <1>q, <1>s, <1>28, RaisesDoes DEF Warned, Running, Mid, At, On, Does
<1>29. ASSUME NEW t \in Tasks, RestoreFails(t) PROVE Warned'
  <2>1. inst' = inst \/ Install(t)
    BY <1>29, RestoreFailsDoes
  <2> QED
    BY <1>a, <1>q, <1>s, <1>29, <2>1, RestoreFailsDoes, StopMoves DEF Moved, Same, Knows, AbortClears, Blank,
       Warned, Running, Mid, At, On, Does
<1>30. ASSUME NEW t \in Tasks, Discard(t) PROVE Warned'
  BY <1>a, <1>q, <1>s, <1>30, DiscardDoes DEF Warned, Running, Mid, At, On, Does
<1>31. ASSUME NEW t \in Tasks, Drop(t) PROVE Warned'
  <2>1. lifecycle' = None /\ pc[t] = "drop" /\ lifecycle = t
    BY <1>a, <1>31, RunningIs DEF Drop
  <2> QED
    BY <1>a, <1>q, <1>s, <1>31, <2>1 DEF Drop, files, runtime, fates, Warned, Running, Mid, At, On, Does
<1>32. ASSUME NEW t \in Tasks, CancelWaiting(t) PROVE Warned'
  <2>1. Aside
    BY <1>32, AsideIs DEF Send, Turn, Other
  <2> QED
    BY <1>a, <1>q, <1>s, <1>32, <2>1 DEF Aside, CancelWaiting, files, runtime, fates, Warned, Running, Mid, At,
       On, Does
<1>33. ASSUME NEW t \in Tasks, Cancel(t) PROVE Warned'
  BY <1>a, <1>q, <1>s, <1>33, CancelDoes DEF Warned, Running, Mid, At, On, Does
<1>34. ASSUME NEW t \in Tasks, CancelStops(t) PROVE Warned'
  <2>1. inst' = inst \/ Install(t)
    BY <1>34, CancelStopsDoes
  <2> QED
    BY <1>a, <1>q, <1>s, <1>34, <2>1, CancelStopsDoes, StopMoves DEF Moved, Same, Knows, AbortClears, Blank,
       Warned, Running, Mid, At, On, Does
<1>35. ASSUME Quit PROVE Warned'
  <2>1. Aside
    BY <1>35, AsideIs DEF Send, Turn, Other
  <2> QED
    BY <1>a, <1>q, <1>s, <1>35, <2>1 DEF Aside, Quit, files, runtime, fates, Warned, Running, Mid, At, On, Does
<1>36. ASSUME QuitDispose PROVE Warned'
  <2>1. Aside /\ harness' = Disposed(inst) /\ inst' = inst /\ UNCHANGED <<surf, stopped, unbound, accepted, said, returned>>
        /\ cleared' = cleared \cup AbortClears(inst) /\ quit = "shut" /\ quit' = "dispose"
    BY <1>36, AsideIs DEF Send, Turn, Other, QuitDispose, runtime
  <2> QED
    BY <1>a, <1>q, <1>s, <2>1, DisposedMoves DEF Aside, Moved, Same, Knows, AbortClears, Warned, Running, Mid,
       At, On, Does
<1>37. ASSUME QuitReleases PROVE Warned'
  <2>1. Aside
    BY <1>37, AsideIs DEF Send, Turn, Other
  <2> QED
    BY <1>a, <1>q, <1>s, <1>37, <2>1 DEF Aside, QuitReleases, files, runtime, fates, Warned, Running, Mid, At,
       On, Does
<1>38. ASSUME NEW h \in {inst, surf}, NEW l \in Lines, Prompt(h, l) PROVE Warned'
  <2>1. Aside /\ quit' = quit /\ surf' = surf /\ stopped' = stopped /\ unbound' = unbound
    BY ZenonT(60), <1>38, AsideIs DEF Send, Turn, Other, Prompt, runtime
  <2> QED
    BY ZenonT(60), <1>a, <1>q, <1>s, <1>38, <2>1, PromptMoves DEF Aside, Moved, Same, Knows, Prompt, Warned,
       Running, Mid, At, On, Does
<1>39. ASSUME NEW h \in {inst, surf}, NEW l \in Lines, Steer(h, l) PROVE Warned'
  <2>1. Aside /\ quit' = quit /\ surf' = surf /\ stopped' = stopped /\ unbound' = unbound
    BY <1>39, AsideIs DEF Send, Turn, Other, Steer, runtime
  <2> QED
    BY <1>a, <1>q, <1>s, <1>39, <2>1, SteerMoves DEF Aside, Moved, Same, Knows, Steer, Warned, Running, Mid, At,
       On, Does
<1>40. ASSUME Esc PROVE Warned'
  <2>1. Aside /\ quit' = quit /\ surf' = surf /\ stopped' = stopped /\ unbound' = unbound
    BY <1>40, AsideIs DEF Send, Turn, Other, Esc, runtime
  <2> QED
    BY <1>a, <1>q, <1>s, <1>40, <2>1, EscMoves DEF Aside, Moved, Same, Knows, Esc, Warned, Running, Mid, At, On,
       Does
<1>41. ASSUME NEW h \in Harnesses, TurnEnds(h) PROVE Warned'
  <2>1. Aside /\ quit' = quit /\ surf' = surf /\ stopped' = stopped /\ unbound' = unbound
    BY ZenonT(60), <1>41, AsideIs DEF Send, Turn, Other, TurnEnds, runtime
  <2> QED
    BY ZenonT(60), <1>a, <1>q, <1>s, <1>41, <2>1, TurnMoves DEF Aside, Moved, Same, Knows, TurnEnds, Warned,
       Running, Mid, At, On, Does
<1>42. ASSUME NEW h \in Harnesses, NEW l \in Lines, Commit(h, l) PROVE Warned'
  <2>1. Aside /\ quit' = quit /\ surf' = surf /\ stopped' = stopped /\ unbound' = unbound
    BY ZenonT(60), <1>42, AsideIs DEF Send, Turn, Other, Commit, runtime
  <2> QED
    BY ZenonT(60), <1>a, <1>q, <1>s, <1>42, <2>1, CommitMoves DEF Aside, Moved, Same, Knows, Commit, Warned,
       Running, Mid, At, On, Does
<1>43. ASSUME NEW f \in Files, OtherTakes(f) PROVE Warned'
  <2>1. Aside
    BY <1>43, AsideIs DEF Send, Turn, Other
  <2> QED
    BY <1>a, <1>q, <1>s, <1>43, <2>1 DEF Aside, OtherTakes, files, runtime, fates, Warned, Running, Mid, At, On,
       Does
<1>44. ASSUME NEW f \in Files, OtherWrites(f) PROVE Warned'
  <2>1. Aside
    BY <1>44, AsideIs DEF Send, Turn, Other
  <2> QED
    BY <1>a, <1>q, <1>s, <1>44, <2>1 DEF Aside, OtherWrites, files, runtime, fates, Warned, Running, Mid, At, On,
       Does
<1>45. ASSUME NEW f \in Files, OtherLeaves(f) PROVE Warned'
  <2>1. Aside
    BY <1>45, AsideIs DEF Send, Turn, Other
  <2> QED
    BY <1>a, <1>q, <1>s, <1>45, <2>1 DEF Aside, OtherLeaves, files, runtime, fates, Warned, Running, Mid, At, On,
       Does
<1> QED
  BY <1>1, <1>2, <1>3, <1>4, <1>5, <1>6, <1>7, <1>8, <1>9, <1>10, <1>11, <1>12, <1>13, <1>14, <1>15, <1>16,
     <1>17, <1>18, <1>19, <1>20, <1>21, <1>22, <1>23, <1>24, <1>25, <1>26, <1>27, <1>28, <1>29, <1>30, <1>31,
     <1>32, <1>33, <1>34, <1>35, <1>36, <1>37, <1>38, <1>39, <1>40, <1>41, <1>42, <1>43, <1>44, <1>45 DEF Next,
     Swap, Interrupt, Send, Turn, Other

\* Only an install changes the session the runtime is on; it, the record of the level and the turn what is known of it.
FileSame == harness'[inst'].file = harness[inst].file /\ harness'[inst'].ro = harness[inst].ro
KnowsSame == harness'[inst'].knows = harness[inst].knows

\* The steps that leave the session alone.
LEMMA SessionStays ==
  ASSUME Typed, Alone, Locals, Counts, Left, Torn
  PROVE  /\ \A t \in Tasks : GiveBackFirst(t) \/ Teardown(t) \/ TornDown(t) \/ Reload(t) \/ Restore(t) \/ RestoreFails(t)
                           \/ CancelStops(t) => FileSame /\ KnowsSame
         /\ \A t \in Tasks : Rebind(t) => FileSame
         /\ QuitDispose => FileSame /\ KnowsSame
         /\ \A h \in {inst, surf}, l \in Lines : Prompt(h, l) \/ Steer(h, l) => FileSame /\ KnowsSame
         /\ Esc => FileSame /\ KnowsSame
         /\ \A h \in Harnesses : TurnEnds(h) => FileSame /\ KnowsSame
         /\ \A h \in Harnesses, l \in Lines : Commit(h, l) => FileSame
<1>a. /\ harness \in [Harnesses -> Sessions] /\ inst \in Harnesses /\ job \in [Tasks -> Jobs] /\ None \notin Tasks /\ None \notin Files /\ None \notin {"us", "other"}
      /\ lifecycle \in Tasks \cup {None} /\ owner \in [Files -> {"us", "other", None}] /\ adopted \in Files \cup {None}
      /\ pc \in [Tasks -> {"wait"} \cup Asked \cup Blocking \cup Ended]
  BY NamesAssumption DEF Typed, TypeOK
<1>1. ASSUME NEW t \in Tasks, GiveBackFirst(t) PROVE FileSame /\ KnowsSame
  <2>1. inst' = inst /\ harness' = Emptied(inst)
    BY <1>1 DEF GiveBackFirst, runtime
  <2> QED
    BY <2>1, EmptiedMoves DEF FileSame, KnowsSame, Moved, Knows
<1>2. ASSUME NEW t \in Tasks, Teardown(t) PROVE FileSame /\ KnowsSame
  <2>1. inst' = inst /\ harness' = Disposed(inst)
    BY <1>2 DEF Teardown, runtime
  <2> QED
    BY <2>1, DisposedMoves DEF FileSame, KnowsSame, Moved, Knows
<1>3. ASSUME QuitDispose PROVE FileSame /\ KnowsSame
  <2>1. inst' = inst /\ harness' = Disposed(inst)
    BY <1>3 DEF QuitDispose, runtime
  <2> QED
    BY <2>1, DisposedMoves DEF FileSame, KnowsSame, Moved, Knows
<1>4. ASSUME NEW t \in Tasks, TornDown(t) PROVE FileSame /\ KnowsSame
  <2>1. inst' = inst /\ (harness' = harness \/ harness' = Emptied(inst))
    BY <1>4 DEF TornDown, runtime
  <2> QED
    BY <2>1, EmptiedMoves DEF FileSame, KnowsSame, Moved, Knows
<1>5. ASSUME NEW t \in Tasks, Reload(t) PROVE FileSame /\ KnowsSame
  <2>1. pc[t] \in {"build", "restore"} /\ Rebuild(t, "after")
    BY <1>5 DEF Reload
  <2>2. /\ inst' = inst + 1 /\ harness'[inst + 1].file = harness[inst].file /\ harness'[inst + 1].ro = harness[inst].ro
        /\ harness'[inst + 1].knows = harness[inst].knows
    BY <1>a, <2>1, RebuildMoves DEF Blank
  <2> QED
    BY <2>2 DEF FileSame, KnowsSame
<1>6. ASSUME NEW t \in Tasks, Restore(t) PROVE FileSame /\ KnowsSame
  <2>1. pc[t] \in {"build", "restore"} /\ Rebuild(t, "resettle")
    BY <1>6 DEF Restore
  <2>2. /\ inst' = inst + 1 /\ harness'[inst + 1].file = harness[inst].file /\ harness'[inst + 1].ro = harness[inst].ro
        /\ harness'[inst + 1].knows = harness[inst].knows
    BY <1>a, <2>1, RebuildMoves DEF Blank
  <2> QED
    BY <2>2 DEF FileSame, KnowsSame
<1>7. ASSUME NEW t \in Tasks, RestoreFails(t) PROVE FileSame /\ KnowsSame
  <2>1. inst' = inst /\ \E S : Stops(S)
    BY <1>7, RestoreFailsDoes
  <2> QED
    BY <1>a, <2>1, StopMoves DEF FileSame, KnowsSame
<1>8. ASSUME NEW t \in Tasks, CancelStops(t) PROVE FileSame /\ KnowsSame
  <2>1. inst' = inst /\ \E S : Stops(S)
    BY <1>8, CancelStopsDoes
  <2> QED
    BY <1>a, <2>1, StopMoves DEF FileSame, KnowsSame
<1>9. ASSUME NEW t \in Tasks, Rebind(t) PROVE FileSame
  BY <1>9, RebindMoves DEF FileSame, Moved
<1>10. ASSUME NEW h \in {inst, surf}, NEW l \in Lines, Prompt(h, l) PROVE FileSame /\ KnowsSame
  BY <1>10, PromptMoves DEF FileSame, KnowsSame, Moved, Knows
<1>11. ASSUME NEW h \in {inst, surf}, NEW l \in Lines, Steer(h, l) PROVE FileSame /\ KnowsSame
  BY <1>11, SteerMoves DEF FileSame, KnowsSame, Moved, Knows
<1>12. ASSUME Esc PROVE FileSame /\ KnowsSame
  BY <1>12, EscMoves DEF FileSame, KnowsSame, Moved, Knows
<1>13. ASSUME NEW h \in Harnesses, TurnEnds(h) PROVE FileSame /\ KnowsSame
  BY <1>13, TurnMoves DEF FileSame, KnowsSame, Moved, Knows
<1>14. ASSUME NEW h \in Harnesses, NEW l \in Lines, Commit(h, l) PROVE FileSame
  BY <1>14, CommitMoves DEF FileSame, KnowsSame, Moved, Knows
<1> QED
  BY <1>1, <1>2, <1>3, <1>4, <1>5, <1>6, <1>7, <1>8, <1>9, <1>10, <1>11, <1>12, <1>13, <1>14

\* A step that leaves the session, the locks and the transition's alone keeps Locked.
LEMMA LockedStays ==
  ASSUME Locked, FileSame, owner' = owner, adopted' = adopted, MidLock' = MidLock, quit' = "gone" <=> quit = "gone"
  PROVE  Locked'
<1> QED
  BY DEF Locked, FileSame

\* A lock nobody has is taken by a transition that has none.
LEMMA LockedTakes ==
  ASSUME Typed, Locked, FileSame, NEW f \in Files, ~Held(f), owner' = Taken(f), adopted' = adopted, MidLock = None, MidLock' = f,
         quit' = "gone" <=> quit = "gone"
  PROVE  Locked'
<1>a. /\ harness \in [Harnesses -> Sessions] /\ inst \in Harnesses /\ job \in [Tasks -> Jobs] /\ None \notin Tasks /\ None \notin Files /\ None \notin {"us", "other"}
      /\ lifecycle \in Tasks \cup {None} /\ owner \in [Files -> {"us", "other", None}] /\ adopted \in Files \cup {None}
      /\ pc \in [Tasks -> {"wait"} \cup Asked \cup Blocking \cup Ended]
  BY NamesAssumption DEF Typed, TypeOK
<1>1. ASSUME NEW g \in Files PROVE owner'[g] = "us" <=> g \in {adopted', MidLock'}
  BY <1>a DEF Locked, Held, Taken
<1> QED
  BY <1>1 DEF Locked, FileSame

\* Locked
LEMMA LockedKept ==
  ASSUME Typed, Alone, Locals, Locked, Filed, Counts, Left, Torn, Next
  PROVE  Locked'
<1>a. /\ harness \in [Harnesses -> Sessions] /\ inst \in Harnesses /\ job \in [Tasks -> Jobs] /\ None \notin Tasks /\ None \notin Files /\ None \notin {"us", "other"}
      /\ lifecycle \in Tasks \cup {None} /\ owner \in [Files -> {"us", "other", None}] /\ adopted \in Files \cup {None}
      /\ pc \in [Tasks -> {"wait"} \cup Asked \cup Blocking \cup Ended]
  BY NamesAssumption DEF Typed, TypeOK
<1>q. lifecycle # None => quit = "no"
  BY ZenonT(60), <1>a DEF Alone, Ended
<1>1. ASSUME NEW t \in Tasks, NEW k \in Kinds, NEW p \in Tasks \cup {None}, Request(t, k, p) PROVE Locked'
  <2>1. Aside /\ UNCHANGED <<owner, adopted>> /\ (quit' = "gone" <=> quit = "gone")
    BY <1>1, AsideIs DEF Send, Turn, Other, Request, files, runtime
  <2>2. MidLock' = MidLock /\ FileSame
    BY <2>1 DEF Aside, MidLock, Mid, FileSame
  <2> QED
    BY <2>1, <2>2, LockedStays
<1>2. ASSUME NEW t \in Tasks, Start(t) PROVE Locked'
  <2>1. lifecycle' = t /\ t # None /\ lifecycle = None /\ job[t].lock = None /\ UNCHANGED <<owner, adopted, quit, job, inst, harness>>
    BY ZenonT(60), <1>a, <1>2 DEF Start, Alone, NoJob, files, runtime
  <2>2. MidLock' = MidLock /\ FileSame
    BY <2>1 DEF MidLock, Mid, FileSame
  <2> QED
    BY <2>1, <2>2, LockedStays
<1>3. ASSUME NEW t \in Tasks, Settle(t) PROVE Locked'
  <2>1. UNCHANGED <<owner, adopted, quit>> /\ MidLock' = MidLock
    BY <1>a, <1>3, SettleDoes DEF At, On, Does, MidLock, Mid
  <2>2. FileSame
    BY <1>3, SettleDoes DEF FileSame
  <2> QED
    BY <2>1, <2>2, LockedStays
<1>4. ASSUME NEW t \in Tasks, SettleReload(t) PROVE Locked'
  <2>1. UNCHANGED <<owner, adopted, quit>> /\ MidLock' = MidLock
    BY <1>a, <1>4, SettleReloadDoes DEF At, On, Does, MidLock, Mid
  <2>2. FileSame
    BY <1>4, SettleReloadDoes DEF FileSame
  <2> QED
    BY <2>1, <2>2, LockedStays
<1>5. ASSUME NEW t \in Tasks, NEW f \in Files, TakeTarget(t, f) PROVE Locked'
  <2>1. /\ t # None /\ lifecycle = t /\ lifecycle' = t /\ UNCHANGED <<adopted, quit, inst, harness>>
        /\ MidLock = None /\ f \in Files
    BY <1>a, <1>5, TakeTargetDoes DEF At, On, Does, MidLock, Mid, Locals, Running, Choosing, Counts, Files, Swaps
  <2>2. FileSame
    BY <2>1 DEF FileSame
  <2>3. CASE Unusable(f) \/ Held(f)
    <3>1. owner' = owner /\ MidLock' = MidLock
      BY <1>a, <1>5, <2>1, <2>3, TakeTargetDoes DEF On, Does, MidLock, Mid
    <3> QED
      BY <2>1, <2>2, <3>1, LockedStays
  <2>4. CASE ~Unusable(f) /\ ~Held(f)
    <3>2. owner' = Taken(f) /\ job'[t].lock = f
      BY ZenonT(60), <1>5, <2>4, TakeTargetDoes DEF Does
    <3>1. owner' = Taken(f) /\ MidLock' = f
      BY <2>1, <3>2 DEF MidLock, Mid
    <3> QED
      BY <2>1, <2>2, <2>4, <3>1, LockedTakes
  <2> QED
    BY <2>3, <2>4
<1>6. ASSUME NEW t \in Tasks, NEW f \in Files, TakeDestination(t, f) PROVE Locked'
  <2>1. /\ t # None /\ lifecycle = t /\ lifecycle' = t /\ UNCHANGED <<adopted, quit, inst, harness>>
        /\ MidLock = None /\ f \in Files
    BY <1>a, <1>6, TakeDestinationDoes DEF At, On, Does, MidLock, Mid, Locals, Running, Choosing, Counts, Files,
       Swaps
  <2>2. FileSame
    BY <2>1 DEF FileSame
  <2>3. CASE Unusable(f) \/ Held(f)
    <3>1. owner' = owner /\ MidLock' = MidLock
      BY <1>a, <1>6, <2>1, <2>3, TakeDestinationDoes DEF On, Does, MidLock, Mid
    <3> QED
      BY <2>1, <2>2, <3>1, LockedStays
  <2>4. CASE ~Unusable(f) /\ ~Held(f)
    <3>2. owner' = Taken(f) /\ job'[t].lock = f
      BY <1>6, <2>4, TakeDestinationDoes DEF Does
    <3>1. owner' = Taken(f) /\ MidLock' = f
      BY <2>1, <3>2 DEF MidLock, Mid
    <3> QED
      BY <2>1, <2>2, <2>4, <3>1, LockedTakes
  <2> QED
    BY <2>3, <2>4
<1>7. ASSUME NEW t \in Tasks, OpenTarget(t) PROVE Locked'
  <2>1. UNCHANGED <<owner, adopted, quit>> /\ MidLock' = MidLock
    BY <1>a, <1>7, OpenTargetDoes DEF At, On, Does, MidLock, Mid
  <2>2. FileSame
    BY <1>7, OpenTargetDoes DEF FileSame
  <2> QED
    BY <2>1, <2>2, LockedStays
<1>8. ASSUME NEW t \in Tasks, HookCancels(t) PROVE Locked'
  <2>1. UNCHANGED <<owner, adopted, quit>> /\ MidLock' = MidLock
    BY <1>a, <1>8, HookCancelsDoes DEF At, On, Does, MidLock, Mid
  <2>2. FileSame
    BY <1>8, HookCancelsDoes DEF FileSame
  <2> QED
    BY <2>1, <2>2, LockedStays
<1>9. ASSUME NEW t \in Tasks, Create(t) PROVE Locked'
  <2>1. UNCHANGED <<owner, adopted, quit>> /\ MidLock' = MidLock
    BY <1>a, <1>9, CreateDoes DEF At, On, Does, MidLock, Mid
  <2>2. FileSame
    BY <1>9, CreateDoes DEF FileSame
  <2> QED
    BY <2>1, <2>2, LockedStays
<1>10. ASSUME NEW t \in Tasks, LockNew(t) PROVE Locked'
  <2>1. /\ t # None /\ lifecycle = t /\ lifecycle' = t /\ UNCHANGED <<adopted, quit, inst, harness>>
        /\ MidLock = None /\ job[t].target \in Files
    BY <1>a, <1>10, LockNewDoes DEF At, On, Does, MidLock, Mid, Locals, Running, Choosing, Counts, Files, Swaps
  <2>2. FileSame
    BY <2>1 DEF FileSame
  <2>3. CASE Unusable(job[t].target) \/ Held(job[t].target)
    <3>1. owner' = owner /\ MidLock' = MidLock
      BY <1>a, <1>10, <2>1, <2>3, LockNewDoes DEF On, Does, MidLock, Mid
    <3> QED
      BY <2>1, <2>2, <3>1, LockedStays
  <2>4. CASE ~Unusable(job[t].target) /\ ~Held(job[t].target)
    <3>2. owner' = Taken(job[t].target) /\ job'[t].lock = job[t].target
      BY <1>10, <2>4, LockNewDoes DEF Does
    <3>1. owner' = Taken(job[t].target) /\ MidLock' = job[t].target
      BY <2>1, <3>2 DEF MidLock, Mid
    <3> QED
      BY <2>1, <2>2, <2>4, <3>1, LockedTakes
  <2> QED
    BY <2>3, <2>4
<1>11. ASSUME NEW t \in Tasks, SwitchUncontended(t) PROVE Locked'
  <2>1. UNCHANGED <<owner, adopted, quit>> /\ MidLock' = MidLock
    BY <1>a, <1>11, SwitchUncontendedDoes DEF At, On, Does, MidLock, Mid
  <2>2. FileSame
    BY <1>11, SwitchUncontendedDoes DEF FileSame
  <2> QED
    BY <2>1, <2>2, LockedStays
<1>12. ASSUME NEW t \in Tasks, AnswerReadOnly(t) PROVE Locked'
  <2>1. UNCHANGED <<owner, adopted, quit>> /\ MidLock' = MidLock
    BY <1>a, <1>12, AnswerReadOnlyDoes DEF At, On, Does, MidLock, Mid
  <2>2. FileSame
    BY <1>12, AnswerReadOnlyDoes DEF FileSame
  <2> QED
    BY <2>1, <2>2, LockedStays
<1>13. ASSUME NEW t \in Tasks, AnswerFork(t) PROVE Locked'
  <2>1. UNCHANGED <<owner, adopted, quit>> /\ MidLock' = MidLock
    BY <1>a, <1>13, AnswerForkDoes DEF At, On, Does, MidLock, Mid
  <2>2. FileSame
    BY <1>13, AnswerForkDoes DEF FileSame
  <2> QED
    BY <2>1, <2>2, LockedStays
<1>14. ASSUME NEW t \in Tasks, AnswerCancel(t) PROVE Locked'
  <2>1. UNCHANGED <<owner, adopted, quit>> /\ MidLock' = MidLock
    BY <1>a, <1>14, AnswerCancelDoes DEF At, On, Does, MidLock, Mid
  <2>2. FileSame
    BY <1>14, AnswerCancelDoes DEF FileSame
  <2> QED
    BY <2>1, <2>2, LockedStays
<1>15. ASSUME NEW t \in Tasks, Copy(t) PROVE Locked'
  <2>1. UNCHANGED <<owner, adopted, quit>> /\ MidLock' = MidLock
    BY <1>a, <1>15, CopyDoes DEF At, On, Does, MidLock, Mid
  <2>2. FileSame
    BY <1>15, CopyDoes DEF FileSame
  <2> QED
    BY <2>1, <2>2, LockedStays
<1>16. ASSUME NEW t \in Tasks, OpenCopy(t) PROVE Locked'
  <2>1. UNCHANGED <<owner, adopted, quit>> /\ MidLock' = MidLock
    BY <1>a, <1>16, OpenCopyDoes DEF At, On, Does, MidLock, Mid
  <2>2. FileSame
    BY <1>16, OpenCopyDoes DEF FileSame
  <2> QED
    BY <2>1, <2>2, LockedStays
<1>17. ASSUME NEW t \in Tasks, GiveBackFirst(t) PROVE Locked'
  <2>1. UNCHANGED <<owner, adopted, quit>> /\ MidLock' = MidLock
    BY <1>a, <1>17, GiveBackFirstDoes DEF At, On, Does, MidLock, Mid
  <2>2. FileSame
    BY <1>17, SessionStays
  <2> QED
    BY <2>1, <2>2, LockedStays
<1>18. ASSUME NEW t \in Tasks, FirstGiven(t) PROVE Locked'
  <2>1. UNCHANGED <<owner, adopted, quit>> /\ MidLock' = MidLock
    BY <1>a, <1>18, FirstGivenDoes DEF At, On, Does, MidLock, Mid
  <2>2. FileSame
    BY <1>18, FirstGivenDoes DEF FileSame
  <2> QED
    BY <2>1, <2>2, LockedStays
<1>19. ASSUME NEW t \in Tasks, Teardown(t) PROVE Locked'
  <2>1. UNCHANGED <<owner, adopted, quit>> /\ MidLock' = MidLock
    BY <1>a, <1>19, TeardownDoes DEF At, On, Does, MidLock, Mid
  <2>2. FileSame
    BY <1>19, SessionStays
  <2> QED
    BY <2>1, <2>2, LockedStays
<1>20. ASSUME NEW t \in Tasks, TornDown(t) PROVE Locked'
  <2>1. UNCHANGED <<owner, adopted, quit>> /\ MidLock' = MidLock
    BY <1>a, <1>20, TornDownDoes DEF At, On, Does, MidLock, Mid
  <2>2. FileSame
    BY <1>20, SessionStays
  <2> QED
    BY <2>1, <2>2, LockedStays
<1>21. ASSUME NEW t \in Tasks, SecondGiven(t) PROVE Locked'
  <2>1. UNCHANGED <<owner, adopted, quit>> /\ MidLock' = MidLock
    BY <1>a, <1>21, SecondGivenDoes DEF At, On, Does, MidLock, Mid
  <2>2. FileSame
    BY <1>21, SecondGivenDoes DEF FileSame
  <2> QED
    BY <2>1, <2>2, LockedStays
<1>22. ASSUME NEW t \in Tasks, Install(t) PROVE Locked'
  <2>1. /\ t # None /\ lifecycle = t /\ pc[t] = "build" /\ job[t].kind \in Swaps /\ lifecycle' = t /\ job'[t] = job[t] /\ quit' = quit
        /\ adopted' = job[t].lock /\ MidLock = job[t].lock /\ MidLock' = job[t].lock
        /\ owner' = [f \in Files |-> IF adopted # job[t].lock /\ f = adopted THEN None ELSE owner[f]]
    BY <1>22, InstallDoes DEF At, On, MidLock, Mid
  <2>2. job[t].lock = (IF job[t].ro THEN None ELSE job[t].target) /\ job[t].target \in Files
    BY <2>1 DEF Locals, Running, Mid, Placed, Closing, Files, Counts
  <2>3. inst' = inst + 1 /\ harness'[inst + 1].file = job[t].target /\ harness'[inst + 1].ro = job[t].ro
    BY ZenonT(60), <1>22, InstallMoves DEF Blank
  <2>4. \A f \in Files : owner'[f] = "us" <=> f = job[t].lock
    BY <1>a, <2>1 DEF Locked
  <2> QED
    BY <1>q, <2>1, <2>2, <2>3, <2>4 DEF Locked
<1>23. ASSUME NEW t \in Tasks, Reload(t) PROVE Locked'
  <2>1. UNCHANGED <<owner, adopted, quit>> /\ MidLock' = MidLock
    BY <1>a, <1>23, ReloadDoes DEF At, On, Does, MidLock, Mid
  <2>2. FileSame
    BY <1>23, SessionStays
  <2> QED
    BY <2>1, <2>2, LockedStays
<1>24. ASSUME NEW t \in Tasks, BuildFails(t) PROVE Locked'
  <2>1. UNCHANGED <<owner, adopted, quit>> /\ MidLock' = MidLock
    BY <1>a, <1>24, BuildFailsDoes DEF At, On, Does, MidLock, Mid
  <2>2. FileSame
    BY <1>24, BuildFailsDoes DEF FileSame
  <2> QED
    BY <2>1, <2>2, LockedStays
<1>25. ASSUME NEW t \in Tasks, Restore(t) PROVE Locked'
  <2>1. UNCHANGED <<owner, adopted, quit>> /\ MidLock' = MidLock
    BY <1>a, <1>25, RestoreDoes DEF At, On, Does, MidLock, Mid
  <2>2. FileSame
    BY <1>25, SessionStays
  <2> QED
    BY <2>1, <2>2, LockedStays
<1>26. ASSUME NEW t \in Tasks, Kept(t) PROVE Locked'
  <2>1. UNCHANGED <<owner, adopted, quit>> /\ MidLock' = MidLock
    BY <1>a, <1>26, KeptDoes DEF At, On, Does, MidLock, Mid
  <2>2. FileSame
    BY <1>26, KeptDoes DEF FileSame
  <2> QED
    BY <2>1, <2>2, LockedStays
<1>27. ASSUME NEW t \in Tasks, Rebind(t) PROVE Locked'
  <2>1. /\ t # None /\ lifecycle = t /\ pc[t] = "after" /\ lifecycle' = None /\ UNCHANGED <<owner, adopted, quit>>
    BY <1>a, <1>27, RunningIs DEF Rebind
  <2>2. MidLock = job[t].lock /\ MidLock' = None
    BY <2>1 DEF MidLock, Mid
  <2>3. job[t].lock = None \/ job[t].lock = adopted
    BY <1>q, <2>1 DEF Locals, Locked, Running, Mid, Placed, Swaps
  <2>4. FileSame
    BY <1>27, SessionStays
  <2> QED
    BY <1>a, <2>1, <2>2, <2>3, <2>4 DEF Locked, FileSame
<1>28. ASSUME NEW t \in Tasks, Raises(t) PROVE Locked'
  <2>1. UNCHANGED <<owner, adopted, quit>> /\ MidLock' = MidLock
    BY <1>a, <1>28, RaisesDoes DEF At, On, Does, MidLock, Mid
  <2>2. FileSame
    BY <1>28, RaisesDoes DEF FileSame
  <2> QED
    BY <2>1, <2>2, LockedStays
<1>29. ASSUME NEW t \in Tasks, RestoreFails(t) PROVE Locked'
  <2>1. UNCHANGED <<owner, adopted, quit>> /\ MidLock' = MidLock
    BY <1>a, <1>29, RestoreFailsDoes DEF At, On, Does, MidLock, Mid
  <2>2. FileSame
    BY <1>29, SessionStays
  <2> QED
    BY <2>1, <2>2, LockedStays
<1>30. ASSUME NEW t \in Tasks, Discard(t) PROVE Locked'
  <2>1. UNCHANGED <<owner, adopted, quit>> /\ MidLock' = MidLock
    BY <1>a, <1>30, DiscardDoes DEF At, On, Does, MidLock, Mid
  <2>2. FileSame
    BY <1>30, DiscardDoes DEF FileSame
  <2> QED
    BY <2>1, <2>2, LockedStays
<1>31. ASSUME NEW t \in Tasks, Drop(t) PROVE Locked'
  <2>1. /\ t # None /\ lifecycle = t /\ lifecycle' = None /\ UNCHANGED <<adopted, quit, inst, harness>>
        /\ owner' = [f \in Files |-> IF f = job[t].lock /\ f # adopted THEN None ELSE owner[f]]
    BY <1>a, <1>31, RunningIs DEF Drop, runtime
  <2>2. MidLock = job[t].lock /\ MidLock' = None
    BY <2>1 DEF MidLock, Mid
  <2>3. \A f \in Files : owner'[f] = "us" <=> f = adopted
    BY <1>a, <2>1, <2>2 DEF Locked
  <2> QED
    BY <1>a, <2>1, <2>2, <2>3 DEF Locked
<1>32. ASSUME NEW t \in Tasks, CancelWaiting(t) PROVE Locked'
  <2>1. Aside /\ UNCHANGED <<owner, adopted>> /\ (quit' = "gone" <=> quit = "gone")
    BY <1>32, AsideIs DEF Send, Turn, Other, CancelWaiting, files, runtime
  <2>2. MidLock' = MidLock /\ FileSame
    BY <2>1 DEF Aside, MidLock, Mid, FileSame
  <2> QED
    BY <2>1, <2>2, LockedStays
<1>33. ASSUME NEW t \in Tasks, Cancel(t) PROVE Locked'
  <2>1. UNCHANGED <<owner, adopted, quit>> /\ MidLock' = MidLock
    BY <1>a, <1>33, CancelDoes DEF At, On, Does, MidLock, Mid
  <2>2. FileSame
    BY <1>33, CancelDoes DEF FileSame
  <2> QED
    BY <2>1, <2>2, LockedStays
<1>34. ASSUME NEW t \in Tasks, CancelStops(t) PROVE Locked'
  <2>1. UNCHANGED <<owner, adopted, quit>> /\ MidLock' = MidLock
    BY <1>a, <1>34, CancelStopsDoes DEF At, On, Does, MidLock, Mid
  <2>2. FileSame
    BY <1>34, SessionStays
  <2> QED
    BY <2>1, <2>2, LockedStays
<1>35. ASSUME Quit PROVE Locked'
  <2>1. Aside /\ UNCHANGED <<owner, adopted>> /\ (quit' = "gone" <=> quit = "gone")
    BY <1>35, AsideIs DEF Send, Turn, Other, Quit, files, runtime
  <2>2. MidLock' = MidLock /\ FileSame
    BY <2>1 DEF Aside, MidLock, Mid, FileSame
  <2> QED
    BY <2>1, <2>2, LockedStays
<1>36. ASSUME QuitDispose PROVE Locked'
  <2>1. Aside /\ UNCHANGED <<owner, adopted>> /\ (quit' = "gone" <=> quit = "gone")
    BY <1>36, AsideIs DEF Send, Turn, Other, QuitDispose, files, runtime
  <2>2. MidLock' = MidLock /\ FileSame
    BY <2>1 DEF Aside, MidLock, Mid, FileSame
  <2> QED
    BY <2>1, <2>2, LockedStays
<1>37. ASSUME QuitReleases PROVE Locked'
  <2>1. lifecycle = None /\ lifecycle' = None
    BY <1>a, <1>q, <1>37 DEF QuitReleases
  <2>2. MidLock = None /\ MidLock' = None
    BY <2>1 DEF MidLock
  <2>3. /\ adopted' = None /\ quit' = "gone" /\ UNCHANGED <<inst, harness>>
        /\ owner' = [f \in Files |-> IF f = adopted THEN None ELSE owner[f]]
    BY <1>37 DEF QuitReleases
  <2>4. \A f \in Files : owner'[f] # "us"
    BY <1>a, <2>2, <2>3 DEF Locked
  <2> QED
    BY <1>a, <2>2, <2>3, <2>4 DEF Locked
<1>38. ASSUME NEW h \in {inst, surf}, NEW l \in Lines, Prompt(h, l) PROVE Locked'
  <2>1. Aside /\ UNCHANGED <<owner, adopted>> /\ (quit' = "gone" <=> quit = "gone")
    BY ZenonT(60), <1>38, AsideIs DEF Send, Turn, Other, Prompt, files, runtime
  <2>2. MidLock' = MidLock /\ FileSame
    BY <2>1 DEF Aside, MidLock, Mid, FileSame
  <2> QED
    BY <2>1, <2>2, LockedStays
<1>39. ASSUME NEW h \in {inst, surf}, NEW l \in Lines, Steer(h, l) PROVE Locked'
  <2>1. Aside /\ UNCHANGED <<owner, adopted>> /\ (quit' = "gone" <=> quit = "gone")
    BY <1>39, AsideIs DEF Send, Turn, Other, Steer, files, runtime
  <2>2. MidLock' = MidLock /\ FileSame
    BY <2>1 DEF Aside, MidLock, Mid, FileSame
  <2> QED
    BY <2>1, <2>2, LockedStays
<1>40. ASSUME Esc PROVE Locked'
  <2>1. Aside /\ UNCHANGED <<owner, adopted>> /\ (quit' = "gone" <=> quit = "gone")
    BY <1>40, AsideIs DEF Send, Turn, Other, Esc, files, runtime
  <2>2. MidLock' = MidLock /\ FileSame
    BY <2>1 DEF Aside, MidLock, Mid, FileSame
  <2> QED
    BY <2>1, <2>2, LockedStays
<1>41. ASSUME NEW h \in Harnesses, TurnEnds(h) PROVE Locked'
  <2>1. Aside /\ UNCHANGED <<owner, adopted>> /\ (quit' = "gone" <=> quit = "gone")
    BY ZenonT(60), <1>41, AsideIs DEF Send, Turn, Other, TurnEnds, files, runtime
  <2>2. MidLock' = MidLock /\ FileSame
    BY <2>1 DEF Aside, MidLock, Mid, FileSame
  <2> QED
    BY <2>1, <2>2, LockedStays
<1>42. ASSUME NEW h \in Harnesses, NEW l \in Lines, Commit(h, l) PROVE Locked'
  <2>1. Aside /\ UNCHANGED <<owner, adopted>> /\ (quit' = "gone" <=> quit = "gone")
    BY ZenonT(60), <1>42, AsideIs DEF Send, Turn, Other, Commit, files, runtime
  <2>2. MidLock' = MidLock /\ FileSame
    BY <2>1 DEF Aside, MidLock, Mid, FileSame
  <2> QED
    BY <2>1, <2>2, LockedStays
<1>43. ASSUME NEW f \in Files, OtherTakes(f) PROVE Locked'
  <2>1. Aside /\ UNCHANGED <<adopted, quit>> /\ \A g \in Files : owner'[g] = "us" <=> owner[g] = "us"
    BY <1>a, <1>43, AsideIs DEF Send, Turn, Other, OtherTakes, runtime
  <2>2. MidLock' = MidLock /\ FileSame
    BY <2>1 DEF Aside, MidLock, Mid, FileSame
  <2> QED
    BY <2>1, <2>2 DEF Locked, FileSame
<1>44. ASSUME NEW f \in Files, OtherWrites(f) PROVE Locked'
  <2>1. Aside /\ UNCHANGED <<owner, adopted>> /\ (quit' = "gone" <=> quit = "gone")
    BY <1>44, AsideIs DEF Send, Turn, Other, OtherWrites, files, runtime
  <2>2. MidLock' = MidLock /\ FileSame
    BY <2>1 DEF Aside, MidLock, Mid, FileSame
  <2> QED
    BY <2>1, <2>2, LockedStays
<1>45. ASSUME NEW f \in Files, OtherLeaves(f) PROVE Locked'
  <2>1. Aside /\ UNCHANGED <<adopted, quit>> /\ \A g \in Files : owner'[g] = "us" <=> owner[g] = "us"
    BY <1>a, <1>45, AsideIs DEF Send, Turn, Other, OtherLeaves, runtime
  <2>2. MidLock' = MidLock /\ FileSame
    BY <2>1 DEF Aside, MidLock, Mid, FileSame
  <2> QED
    BY <2>1, <2>2 DEF Locked, FileSame
<1> QED
  BY <1>1, <1>2, <1>3, <1>4, <1>5, <1>6, <1>7, <1>8, <1>9, <1>10, <1>11, <1>12, <1>13, <1>14, <1>15, <1>16,
     <1>17, <1>18, <1>19, <1>20, <1>21, <1>22, <1>23, <1>24, <1>25, <1>26, <1>27, <1>28, <1>29, <1>30, <1>31,
     <1>32, <1>33, <1>34, <1>35, <1>36, <1>37, <1>38, <1>39, <1>40, <1>41, <1>42, <1>43, <1>44, <1>45 DEF Next,
     Swap, Interrupt, Send, Turn, Other

\* A step that neither writes nor lets go of a file keeps Filed.
LEMMA FiledStays ==
  ASSUME Typed, Counts, Filed, FileSame, UNCHANGED <<text, named, everLive, everOther>>,
         \A f \in Files : owner'[f] = "other" => owner[f] = "other", {MidNew, MidMade} \subseteq {MidNew', MidMade', None}
  PROVE  Filed'
<1>a. /\ harness \in [Harnesses -> Sessions] /\ inst \in Harnesses /\ job \in [Tasks -> Jobs] /\ None \notin Tasks /\ None \notin Files /\ None \notin {"us", "other"}
      /\ lifecycle \in Tasks \cup {None} /\ owner \in [Files -> {"us", "other", None}] /\ adopted \in Files \cup {None}
      /\ pc \in [Tasks -> {"wait"} \cup Asked \cup Blocking \cup Ended]
  BY NamesAssumption DEF Typed, TypeOK
<1>o. /\ text \in [Files -> Texts] /\ Old \cap New = {} /\ Files = Old \cup New /\ named \subseteq New /\ None \notin Files
  BY NamesAssumption DEF Typed, TypeOK, Texts, Files, Counts
<1>1. ASSUME NEW f \in named, text[f] # <<>> PROVE f \in everLive \cup everOther \cup {MidNew', MidMade'}
  BY <1>o, <1>1 DEF Filed
<1> QED
  BY <1>1 DEF Filed, FileSame

\* What is written to a file there is.
LEMMA FiledWrites ==
  ASSUME Typed, Counts, Filed, FileSame, UNCHANGED <<named, everLive, everOther>>,
         \A f \in Files : owner'[f] = "other" => owner[f] = "other", {MidNew, MidMade} \subseteq {MidNew', MidMade', None},
         NEW f \in everLive \cup everOther, NEW words, words # <<>> \/ text[f] = <<>>, text' = [text EXCEPT ![f] = words]
  PROVE  Filed'
<1>a. /\ harness \in [Harnesses -> Sessions] /\ inst \in Harnesses /\ job \in [Tasks -> Jobs] /\ None \notin Tasks /\ None \notin Files /\ None \notin {"us", "other"}
      /\ lifecycle \in Tasks \cup {None} /\ owner \in [Files -> {"us", "other", None}] /\ adopted \in Files \cup {None}
      /\ pc \in [Tasks -> {"wait"} \cup Asked \cup Blocking \cup Ended]
  BY NamesAssumption DEF Typed, TypeOK
<1>o. /\ text \in [Files -> Texts] /\ Old \cap New = {} /\ Files = Old \cup New /\ named \subseteq New /\ None \notin Files
  BY NamesAssumption DEF Typed, TypeOK, Texts, Files, Counts
<1>1. f \in Files /\ f \in Old \cup named /\ text'[f] = words /\ \A g \in Files : g # f => text'[g] = text[g]
  BY <1>o DEF Filed
<1>2. ASSUME NEW g \in named, text'[g] # <<>> PROVE g \in everLive \cup everOther \cup {MidNew', MidMade'}
  BY <1>o, <1>1, <1>2 DEF Filed
<1>3. (\A g \in Old : text'[g] # <<>>) /\ \A g \in New \ named : text'[g] = <<>>
  BY <1>o, <1>1 DEF Filed
<1> QED
  BY <1>2, <1>3 DEF Filed, FileSame

\* Filed
LEMMA FiledKept ==
  ASSUME Typed, Alone, Locals, Locked, Filed, Counts, Left, Torn, Next
  PROVE  Filed'
<1>a. /\ harness \in [Harnesses -> Sessions] /\ inst \in Harnesses /\ job \in [Tasks -> Jobs] /\ None \notin Tasks /\ None \notin Files /\ None \notin {"us", "other"}
      /\ lifecycle \in Tasks \cup {None} /\ owner \in [Files -> {"us", "other", None}] /\ adopted \in Files \cup {None}
      /\ pc \in [Tasks -> {"wait"} \cup Asked \cup Blocking \cup Ended]
  BY NamesAssumption DEF Typed, TypeOK
<1>o. /\ text \in [Files -> Texts] /\ Old \cap New = {} /\ Files = Old \cup New /\ named \subseteq New /\ None \notin Files
  BY NamesAssumption DEF Typed, TypeOK, Texts, Files, Counts
<1>1. ASSUME NEW t \in Tasks, NEW k \in Kinds, NEW p \in Tasks \cup {None}, Request(t, k, p) PROVE Filed'
  <2>1. Aside /\ UNCHANGED <<owner, text, named, everLive, everOther>>
    BY <1>1, AsideIs DEF Send, Turn, Other, Request, files, runtime
  <2>2. {MidNew, MidMade} \subseteq {MidNew', MidMade', None} /\ FileSame
    BY <2>1 DEF Aside, FileSame, MidNew, MidMade, Mid, Running
  <2> QED
    BY <2>1, <2>2, FiledStays
<1>2. ASSUME NEW t \in Tasks, Start(t) PROVE Filed'
  <2>1. lifecycle = None /\ UNCHANGED <<text, named, everLive, everOther, owner, inst, harness>>
    BY <1>a, <1>2 DEF Start, files, runtime
  <2>2. MidNew = None /\ MidMade = None /\ FileSame
    BY <2>1 DEF MidNew, MidMade, Running, FileSame
  <2> QED
    BY <2>1, <2>2, FiledStays
<1>3. ASSUME NEW t \in Tasks, Settle(t) PROVE Filed'
  <2>1. /\ UNCHANGED <<text, named, everLive, everOther, owner>>
        /\ {MidNew, MidMade} \subseteq {MidNew', MidMade', None}
    BY <1>a, <1>3, SettleDoes DEF At, On, Does, Locals, Choosing, MidNew, MidMade, Mid, Running
  <2>2. FileSame
    BY <1>3, SettleDoes DEF FileSame
  <2> QED
    BY <2>1, <2>2, FiledStays
<1>4. ASSUME NEW t \in Tasks, SettleReload(t) PROVE Filed'
  <2>1. /\ UNCHANGED <<text, named, everLive, everOther, owner>>
        /\ {MidNew, MidMade} \subseteq {MidNew', MidMade', None}
    BY <1>a, <1>4, SettleReloadDoes DEF At, On, Does, Locals, Choosing, MidNew, MidMade, Mid, Running
  <2>2. FileSame
    BY <1>4, SettleReloadDoes DEF FileSame
  <2> QED
    BY <2>1, <2>2, FiledStays
<1>5. ASSUME NEW t \in Tasks, NEW f \in Files, TakeTarget(t, f) PROVE Filed'
  <2>1. /\ UNCHANGED <<text, named, everLive, everOther, inst, harness>> /\ (owner' = owner \/ owner' = Taken(f))
        /\ t # None /\ lifecycle = t /\ pc[t] \in {"settle", "hook"}
    BY <1>a, <1>5, TakeTargetDoes DEF At
  <2>2. MidNew = None /\ MidMade = None
    BY <2>1 DEF Locals, Choosing, MidNew, MidMade, Mid, Running
  <2>3. (\A g \in Files : owner'[g] = "other" => owner[g] = "other") /\ FileSame
    BY <1>a, <2>1 DEF Taken, FileSame
  <2> QED
    BY <2>1, <2>2, <2>3, FiledStays
<1>6. ASSUME NEW t \in Tasks, NEW f \in Files, TakeDestination(t, f) PROVE Filed'
  <2>1. /\ UNCHANGED <<text, named, everLive, everOther, inst, harness>> /\ (owner' = owner \/ owner' = Taken(f))
        /\ t # None /\ lifecycle = t /\ pc[t] \in {"settle", "hook"}
    BY <1>a, <1>6, TakeDestinationDoes DEF At
  <2>2. MidNew = None /\ MidMade = None
    BY <2>1 DEF Locals, Choosing, MidNew, MidMade, Mid, Running
  <2>3. (\A g \in Files : owner'[g] = "other" => owner[g] = "other") /\ FileSame
    BY <1>a, <2>1 DEF Taken, FileSame
  <2> QED
    BY <2>1, <2>2, <2>3, FiledStays
<1>7. ASSUME NEW t \in Tasks, OpenTarget(t) PROVE Filed'
  <2>1. /\ UNCHANGED <<text, named, everLive, everOther, owner>>
        /\ {MidNew, MidMade} \subseteq {MidNew', MidMade', None}
    BY <1>a, <1>7, OpenTargetDoes DEF At, On, Does, Locals, Choosing, MidNew, MidMade, Mid, Running
  <2>2. FileSame
    BY <1>7, OpenTargetDoes DEF FileSame
  <2> QED
    BY <2>1, <2>2, FiledStays
<1>8. ASSUME NEW t \in Tasks, HookCancels(t) PROVE Filed'
  <2>1. /\ UNCHANGED <<text, named, everLive, everOther, owner, inst, harness>>
        /\ t # None /\ lifecycle = t /\ pc[t] \in {"ask", "hook"}
    BY <1>a, <1>8, HookCancelsDoes DEF At
  <2>2. MidNew = None /\ MidMade = None
    BY <2>1 DEF Locals, Choosing, MidNew, MidMade, Mid, Running
  <2>3. FileSame
    BY <2>1 DEF FileSame
  <2> QED
    BY <2>1, <2>2, <2>3, FiledStays
<1>9. ASSUME NEW t \in Tasks, Create(t) PROVE Filed'
  <2> DEFINE content == (IF job[t].kind = "new" THEN <<"first">> ELSE text[harness[inst].file])
  <2>1. /\ t # None /\ lifecycle = t /\ pc[t] \in {"ask", "hook"} /\ lifecycle' = t /\ pc'[t] = "newlock" /\ job'[t].target = FreshName
        /\ UNCHANGED <<everLive, everOther, owner, inst, harness>>
        /\ text' = [text EXCEPT ![FreshName] = content] /\ named' = named \cup {FreshName}
    BY <1>a, <1>9, CreateDoes DEF At, Does
  <2>2. FreshName \in New \ named
    BY <2>1, Room DEF Making
  <2>3. MidNew = None /\ MidMade = None /\ MidNew' = FreshName
    BY <2>1 DEF Locals, Choosing, MidNew, MidMade, Mid, Running
  <2>4. ASSUME NEW g \in named', text'[g] # <<>> PROVE g \in everLive' \cup everOther' \cup {MidNew', MidMade'}
    <3>1. CASE g = FreshName
      BY <2>3, <3>1
    <3>2. CASE g # FreshName
      BY <1>o, <2>1, <2>2, <2>3, <2>4, <3>2 DEF Filed
    <3> QED
      BY <3>1, <3>2
  <2> HIDE DEF content
  <2>5. (\A g \in Old : text'[g] # <<>>) /\ \A g \in New \ named' : text'[g] = <<>>
    BY <1>o, <2>1, <2>2 DEF Filed
  <2>6. /\ harness'[inst'].file \in everLive' /\ everLive' \cup everOther' \subseteq Old \cup named'
        /\ \A g \in Files : owner'[g] = "other" => g \in everOther'
    BY <2>1 DEF Filed
  <2> QED
    BY <2>4, <2>5, <2>6 DEF Filed
<1>10. ASSUME NEW t \in Tasks, LockNew(t) PROVE Filed'
  <2> DEFINE f == job[t].target
  <2>1. /\ t # None /\ lifecycle = t /\ pc[t] = "newlock" /\ lifecycle' = t /\ pc'[t] \in {"fail", "begin"}
        /\ UNCHANGED <<text, named, everLive, everOther, inst, harness>>
    BY <1>a, <1>10, LockNewDoes DEF At, On, Does
  <2>2. f \in named /\ f \in Files /\ job[t].lock = None /\ MidNew = f /\ MidMade = None
    BY <1>o, <2>1 DEF Locals, Choosing, MidNew, MidMade, Mid, Running
  <2>3. FileSame
    BY <2>1 DEF FileSame
  <2>4. CASE Unusable(f) \/ ~Held(f)
    <3>1. job'[t].made = f /\ (owner' = owner \/ owner' = Taken(f))
      BY <1>10, <2>4, LockNewDoes DEF Does
    <3>2. MidMade' = f /\ \A g \in Files : owner'[g] = "other" => owner[g] = "other"
      BY <1>a, <2>1, <3>1 DEF MidMade, Mid, Running, Taken
    <3> QED
      BY <2>1, <2>2, <2>3, <3>2, FiledStays
  <2>5. CASE ~Unusable(f) /\ Held(f)
    <3>1. owner' = owner
      BY <1>10, <2>5, LockNewDoes
    <3>2. f \in everOther
      BY <1>a, <2>1, <2>2, <2>5 DEF Held, Locked, Filed, MidLock, Mid
    <3>3. ASSUME NEW g \in named, text[g] # <<>> PROVE g \in everLive \cup everOther
      BY <1>o, <2>2, <3>2, <3>3 DEF Filed
    <3> QED
      BY <2>1, <2>3, <3>1, <3>3 DEF Filed, FileSame
  <2> QED
    BY <2>4, <2>5
<1>11. ASSUME NEW t \in Tasks, SwitchUncontended(t) PROVE Filed'
  <2>1. /\ UNCHANGED <<text, named, everLive, everOther, owner>>
        /\ {MidNew, MidMade} \subseteq {MidNew', MidMade', None}
    BY <1>a, <1>11, SwitchUncontendedDoes DEF At, On, Does, Locals, Choosing, MidNew, MidMade, Mid, Running
  <2>2. FileSame
    BY <1>11, SwitchUncontendedDoes DEF FileSame
  <2> QED
    BY <2>1, <2>2, FiledStays
<1>12. ASSUME NEW t \in Tasks, AnswerReadOnly(t) PROVE Filed'
  <2>1. /\ UNCHANGED <<text, named, everLive, everOther, owner>>
        /\ {MidNew, MidMade} \subseteq {MidNew', MidMade', None}
    BY <1>a, <1>12, AnswerReadOnlyDoes DEF At, On, Does, Locals, Choosing, MidNew, MidMade, Mid, Running
  <2>2. FileSame
    BY <1>12, AnswerReadOnlyDoes DEF FileSame
  <2> QED
    BY <2>1, <2>2, FiledStays
<1>13. ASSUME NEW t \in Tasks, AnswerFork(t) PROVE Filed'
  <2> DEFINE content == text[job[t].target]
  <2>1. /\ t # None /\ lifecycle = t /\ pc[t] \in {"ask", "hook"} /\ lifecycle' = t /\ pc'[t] = "newlock" /\ job'[t].target = FreshName
        /\ UNCHANGED <<everLive, everOther, owner, inst, harness>>
        /\ text' = [text EXCEPT ![FreshName] = content] /\ named' = named \cup {FreshName}
    BY <1>a, <1>13, AnswerForkDoes DEF At, Does
  <2>2. FreshName \in New \ named
    BY <2>1, Room DEF Making
  <2>3. MidNew = None /\ MidMade = None /\ MidNew' = FreshName
    BY <2>1 DEF Locals, Choosing, MidNew, MidMade, Mid, Running
  <2>4. ASSUME NEW g \in named', text'[g] # <<>> PROVE g \in everLive' \cup everOther' \cup {MidNew', MidMade'}
    <3>1. CASE g = FreshName
      BY <2>3, <3>1
    <3>2. CASE g # FreshName
      BY <1>o, <2>1, <2>2, <2>3, <2>4, <3>2 DEF Filed
    <3> QED
      BY <3>1, <3>2
  <2> HIDE DEF content
  <2>5. (\A g \in Old : text'[g] # <<>>) /\ \A g \in New \ named' : text'[g] = <<>>
    BY <1>o, <2>1, <2>2 DEF Filed
  <2>6. /\ harness'[inst'].file \in everLive' /\ everLive' \cup everOther' \subseteq Old \cup named'
        /\ \A g \in Files : owner'[g] = "other" => g \in everOther'
    BY <2>1 DEF Filed
  <2> QED
    BY <2>4, <2>5, <2>6 DEF Filed
<1>14. ASSUME NEW t \in Tasks, AnswerCancel(t) PROVE Filed'
  <2>1. /\ UNCHANGED <<text, named, everLive, everOther, owner, inst, harness>>
        /\ t # None /\ lifecycle = t /\ pc[t] \in {"ask", "hook"}
    BY <1>a, <1>14, AnswerCancelDoes DEF At
  <2>2. MidNew = None /\ MidMade = None
    BY <2>1 DEF Locals, Choosing, MidNew, MidMade, Mid, Running
  <2>3. FileSame
    BY <2>1 DEF FileSame
  <2> QED
    BY <2>1, <2>2, <2>3, FiledStays
<1>15. ASSUME NEW t \in Tasks, Copy(t) PROVE Filed'
  <2> DEFINE f == job[t].target
  <2>1. /\ t # None /\ lifecycle = t /\ pc[t] = "copy" /\ lifecycle' = t /\ pc'[t] = "copied"
        /\ UNCHANGED <<everLive, everOther, owner, inst, harness>> /\ text' = [text EXCEPT ![f] = <<"copied">>]
        /\ IF text[f] = <<>> THEN named' = named \cup {f} /\ job'[t].made = f ELSE named' = named
    BY <1>a, <1>15, CopyDoes DEF At, Does
  <2>2. f \in Files /\ MidNew = None /\ MidMade = None
    BY <2>1 DEF Locals, Choosing, MidNew, MidMade, Mid, Running
  <2>3. text[f] = <<>> => MidMade' = f
    BY <2>1 DEF MidMade, Mid, Running
  <2> HIDE DEF f
  <2>4. ASSUME NEW g \in named', text'[g] # <<>> PROVE g \in everLive' \cup everOther' \cup {MidNew', MidMade'}
    <3>1. CASE g = f /\ text[f] = <<>>
      BY <2>3, <3>1
    <3>2. CASE g # f \/ text[f] # <<>>
      <4>1. g \in named /\ g \in Files /\ text[g] # <<>>
        BY <1>o, <2>1, <2>2, <2>4, <3>2
      <4> QED
        BY <1>o, <2>1, <2>2, <4>1 DEF Filed
    <3> QED
      BY <3>1, <3>2
  <2>5. (\A g \in Old : text'[g] # <<>>) /\ \A g \in New \ named' : text'[g] = <<>>
    BY <1>o, <2>1, <2>2 DEF Filed
  <2>6. /\ harness'[inst'].file \in everLive' /\ everLive' \cup everOther' \subseteq Old \cup named'
        /\ \A g \in Files : owner'[g] = "other" => g \in everOther'
    BY <2>1 DEF Filed
  <2> QED
    BY <2>4, <2>5, <2>6 DEF Filed
<1>16. ASSUME NEW t \in Tasks, OpenCopy(t) PROVE Filed'
  <2>1. /\ UNCHANGED <<text, named, everLive, everOther, owner>>
        /\ {MidNew, MidMade} \subseteq {MidNew', MidMade', None}
    BY <1>a, <1>16, OpenCopyDoes DEF At, On, Does, Locals, Choosing, MidNew, MidMade, Mid, Running
  <2>2. FileSame
    BY <1>16, OpenCopyDoes DEF FileSame
  <2> QED
    BY <2>1, <2>2, FiledStays
<1>17. ASSUME NEW t \in Tasks, GiveBackFirst(t) PROVE Filed'
  <2>1. /\ UNCHANGED <<text, named, everLive, everOther, owner>>
        /\ {MidNew, MidMade} \subseteq {MidNew', MidMade', None}
    BY <1>a, <1>17, GiveBackFirstDoes DEF At, On, Does, Locals, Choosing, MidNew, MidMade, Mid, Running
  <2>2. FileSame
    BY <1>17, SessionStays
  <2> QED
    BY <2>1, <2>2, FiledStays
<1>18. ASSUME NEW t \in Tasks, FirstGiven(t) PROVE Filed'
  <2>1. /\ UNCHANGED <<text, named, everLive, everOther, owner>>
        /\ {MidNew, MidMade} \subseteq {MidNew', MidMade', None}
    BY <1>a, <1>18, FirstGivenDoes DEF At, On, Does, Locals, Choosing, MidNew, MidMade, Mid, Running
  <2>2. FileSame
    BY <1>18, FirstGivenDoes DEF FileSame
  <2> QED
    BY <2>1, <2>2, FiledStays
<1>19. ASSUME NEW t \in Tasks, Teardown(t) PROVE Filed'
  <2>1. /\ UNCHANGED <<text, named, everLive, everOther, owner>>
        /\ {MidNew, MidMade} \subseteq {MidNew', MidMade', None}
    BY <1>a, <1>19, TeardownDoes DEF At, On, Does, Locals, Choosing, MidNew, MidMade, Mid, Running
  <2>2. FileSame
    BY <1>19, SessionStays
  <2> QED
    BY <2>1, <2>2, FiledStays
<1>20. ASSUME NEW t \in Tasks, TornDown(t) PROVE Filed'
  <2>1. /\ UNCHANGED <<text, named, everLive, everOther, owner>>
        /\ {MidNew, MidMade} \subseteq {MidNew', MidMade', None}
    BY <1>a, <1>20, TornDownDoes DEF At, On, Does, Locals, Choosing, MidNew, MidMade, Mid, Running
  <2>2. FileSame
    BY <1>20, SessionStays
  <2> QED
    BY <2>1, <2>2, FiledStays
<1>21. ASSUME NEW t \in Tasks, SecondGiven(t) PROVE Filed'
  <2>1. /\ UNCHANGED <<text, named, everLive, everOther, owner>>
        /\ {MidNew, MidMade} \subseteq {MidNew', MidMade', None}
    BY <1>a, <1>21, SecondGivenDoes DEF At, On, Does, Locals, Choosing, MidNew, MidMade, Mid, Running
  <2>2. FileSame
    BY <1>21, SecondGivenDoes DEF FileSame
  <2> QED
    BY <2>1, <2>2, FiledStays
<1>22. ASSUME NEW t \in Tasks, Install(t) PROVE Filed'
  <2>1. /\ t # None /\ lifecycle = t /\ pc[t] = "build" /\ job[t].kind \in Swaps /\ lifecycle' = t /\ pc'[t] = "after" /\ job'[t] = job[t]
        /\ UNCHANGED <<text, named, everOther>> /\ everLive' = everLive \cup {job[t].target}
        /\ owner' = [f \in Files |-> IF adopted # job[t].lock /\ f = adopted THEN None ELSE owner[f]]
    BY <1>22, InstallDoes DEF At, On
  <2>2. job[t].target \in Old \cup named
    BY <2>1 DEF Locals, Running, Mid, Placed, Closing
  <2>3. inst' = inst + 1 /\ harness'[inst + 1].file = job[t].target
    BY ZenonT(60), <1>22, InstallMoves DEF Blank
  <2>4. \A g \in Files : owner'[g] = "other" => owner[g] = "other"
    BY <1>a, <2>1
  <2>5. MidNew = None /\ MidMade' = MidMade
    BY <2>1 DEF MidNew, MidMade, Mid, Running
  <2>6. ASSUME NEW g \in named, text[g] # <<>> PROVE g \in everLive' \cup everOther' \cup {MidNew', MidMade'}
    BY <1>o, <2>1, <2>5, <2>6 DEF Filed
  <2> QED
    BY <2>1, <2>2, <2>3, <2>4, <2>6 DEF Filed
<1>23. ASSUME NEW t \in Tasks, Reload(t) PROVE Filed'
  <2>1. /\ UNCHANGED <<text, named, everLive, everOther, owner>>
        /\ {MidNew, MidMade} \subseteq {MidNew', MidMade', None}
    <3>1. UNCHANGED <<text, named, everLive, everOther, owner>>
      BY <1>23, ReloadDoes
    <3>2. /\ t # None /\ lifecycle = t /\ pc[t] = "build" /\ lifecycle' = t
          /\ job'[t].made = job[t].made /\ pc'[t] # "newlock" /\ pc'[t] # "drop"
      BY ZenonT(60), <1>23, ReloadDoes DEF At, On
    <3>3. {MidNew, MidMade} \subseteq {MidNew', MidMade', None}
      BY <1>a, <3>2 DEF MidNew, MidMade, Mid, Running
    <3> QED
      BY <3>1, <3>3
  <2>2. FileSame
    BY <1>23, SessionStays
  <2> QED
    BY <2>1, <2>2, FiledStays
<1>24. ASSUME NEW t \in Tasks, BuildFails(t) PROVE Filed'
  <2>1. /\ UNCHANGED <<text, named, everLive, everOther, owner>>
        /\ {MidNew, MidMade} \subseteq {MidNew', MidMade', None}
    BY <1>a, <1>24, BuildFailsDoes DEF At, On, Does, Locals, Choosing, MidNew, MidMade, Mid, Running
  <2>2. FileSame
    BY <1>24, BuildFailsDoes DEF FileSame
  <2> QED
    BY <2>1, <2>2, FiledStays
<1>25. ASSUME NEW t \in Tasks, Restore(t) PROVE Filed'
  <2>1. /\ UNCHANGED <<text, named, everLive, everOther, owner>>
        /\ {MidNew, MidMade} \subseteq {MidNew', MidMade', None}
    BY <1>a, <1>25, RestoreDoes DEF At, On, Does, Locals, Choosing, MidNew, MidMade, Mid, Running
  <2>2. FileSame
    BY <1>25, SessionStays
  <2> QED
    BY <2>1, <2>2, FiledStays
<1>26. ASSUME NEW t \in Tasks, Kept(t) PROVE Filed'
  <2>1. /\ UNCHANGED <<text, named, everLive, everOther, owner>>
        /\ {MidNew, MidMade} \subseteq {MidNew', MidMade', None}
    BY ZenonT(60), <1>a, <1>26, KeptDoes DEF At, On, Does, Locals, Choosing, MidNew, MidMade, Mid, Running
  <2>2. FileSame
    BY <1>26, KeptDoes DEF FileSame
  <2> QED
    BY <2>1, <2>2, FiledStays
<1>27. ASSUME NEW t \in Tasks, Rebind(t) PROVE Filed'
  <2>1. /\ t # None /\ lifecycle = t /\ pc[t] = "after" /\ lifecycle' = None /\ UNCHANGED <<owner, everLive, everOther, named>>
    BY <1>a, <1>27, RunningIs DEF Rebind
  <2>2. MidNew = None /\ MidMade \in everLive \cup {None}
    BY <2>1 DEF Locals, Filed, MidNew, MidMade, Mid, Running, Placed, Swaps
  <2>3. PICK level \in {<<>>, <<"level">>} : text' = [text EXCEPT ![harness[inst].file] = text[harness[inst].file] \o level]
    BY <1>27, RebindMoves
  <2>4. FileSame
    BY <1>27, SessionStays
  <2> DEFINE f == harness[inst].file
             words == text[f] \o level
  <2>5. f \in everLive /\ f \in Files /\ text[f] \in Texts
    BY <1>o DEF Filed, Locked
  <2>6. words # <<>> \/ text[f] = <<>>
    BY <2>5 DEF Texts
  <2>7. text' = [text EXCEPT ![f] = words]
    BY <2>3
  <2> HIDE DEF f, words
  <2>8. f \in Old \cup named /\ text'[f] = words /\ \A g \in Files : g # f => text'[g] = text[g]
    BY <1>o, <2>5, <2>7 DEF Filed
  <2>9. ASSUME NEW g \in named, text'[g] # <<>> PROVE g \in everLive \cup everOther
    BY <1>o, <2>2, <2>5, <2>8, <2>9 DEF Filed
  <2>10. (\A g \in Old : text'[g] # <<>>) /\ \A g \in New \ named : text'[g] = <<>>
    BY <1>o, <2>5, <2>6, <2>8 DEF Filed
  <2> QED
    BY <2>1, <2>4, <2>9, <2>10 DEF Filed, FileSame
<1>28. ASSUME NEW t \in Tasks, Raises(t) PROVE Filed'
  <2>1. /\ UNCHANGED <<text, named, everLive, everOther, owner>>
        /\ {MidNew, MidMade} \subseteq {MidNew', MidMade', None}
    BY <1>a, <1>28, RaisesDoes DEF At, On, Does, Locals, Choosing, MidNew, MidMade, Mid, Running
  <2>2. FileSame
    BY <1>28, RaisesDoes DEF FileSame
  <2> QED
    BY <2>1, <2>2, FiledStays
<1>29. ASSUME NEW t \in Tasks, RestoreFails(t) PROVE Filed'
  <2>1. /\ UNCHANGED <<text, named, everLive, everOther, owner>>
        /\ {MidNew, MidMade} \subseteq {MidNew', MidMade', None}
    BY <1>a, <1>29, RestoreFailsDoes DEF At, On, Does, Locals, Choosing, MidNew, MidMade, Mid, Running
  <2>2. FileSame
    BY <1>29, SessionStays
  <2> QED
    BY <2>1, <2>2, FiledStays
<1>30. ASSUME NEW t \in Tasks, Discard(t) PROVE Filed'
  <2>1. /\ t # None /\ lifecycle = t /\ pc[t] = "fail" /\ UNCHANGED <<owner, everLive, everOther, named, inst, harness>>
        /\ text' = [f \in Files |-> IF f = job[t].made /\ harness[inst].file # f THEN <<>> ELSE text[f]]
    BY <1>a, <1>30, DiscardDoes DEF At
  <2>2. MidNew = None /\ MidMade = job[t].made
    BY <2>1 DEF MidNew, MidMade, Mid, Running
  <2>3. job[t].made \notin Old
    BY <1>o, <2>1 DEF Locals, Mid
  <2>4. ASSUME NEW g \in named, text'[g] # <<>> PROVE g \in everLive \cup everOther
    <3>1. text[g] # <<>> /\ (g # job[t].made \/ g = harness[inst].file)
      BY <1>o, <2>1, <2>4
    <3> QED
      BY <1>o, <2>2, <3>1 DEF Filed
  <2>5. (\A g \in Old : text'[g] # <<>>) /\ \A g \in New \ named : text'[g] = <<>>
    BY <1>o, <2>1, <2>3 DEF Filed
  <2> QED
    BY <2>1, <2>4, <2>5 DEF Filed
<1>31. ASSUME NEW t \in Tasks, Drop(t) PROVE Filed'
  <2>1. /\ t # None /\ lifecycle = t /\ pc[t] = "drop" /\ UNCHANGED <<text, named, everLive, everOther, inst, harness>>
        /\ owner' = [f \in Files |-> IF f = job[t].lock /\ f # adopted THEN None ELSE owner[f]]
    BY <1>a, <1>31, RunningIs DEF Drop, runtime
  <2>2. MidNew = None /\ MidMade = None
    BY <2>1 DEF MidNew, MidMade, Mid, Running
  <2>3. (\A g \in Files : owner'[g] = "other" => owner[g] = "other") /\ FileSame
    BY <1>a, <2>1 DEF FileSame
  <2> QED
    BY <2>1, <2>2, <2>3, FiledStays
<1>32. ASSUME NEW t \in Tasks, CancelWaiting(t) PROVE Filed'
  <2>1. Aside /\ UNCHANGED <<owner, text, named, everLive, everOther>>
    BY <1>32, AsideIs DEF Send, Turn, Other, CancelWaiting, files, runtime
  <2>2. {MidNew, MidMade} \subseteq {MidNew', MidMade', None} /\ FileSame
    BY <2>1 DEF Aside, FileSame, MidNew, MidMade, Mid, Running
  <2> QED
    BY <2>1, <2>2, FiledStays
<1>33. ASSUME NEW t \in Tasks, Cancel(t) PROVE Filed'
  <2>1. /\ UNCHANGED <<text, named, everLive, everOther, owner>>
        /\ {MidNew, MidMade} \subseteq {MidNew', MidMade', None}
    BY <1>a, <1>33, CancelDoes DEF At, On, Does, Locals, Choosing, MidNew, MidMade, Mid, Running
  <2>2. FileSame
    BY <1>33, CancelDoes DEF FileSame
  <2> QED
    BY <2>1, <2>2, FiledStays
<1>34. ASSUME NEW t \in Tasks, CancelStops(t) PROVE Filed'
  <2>1. /\ UNCHANGED <<text, named, everLive, everOther, owner>>
        /\ {MidNew, MidMade} \subseteq {MidNew', MidMade', None}
    BY ZenonT(60), <1>a, <1>34, CancelStopsDoes DEF At, On, Does, Locals, Choosing, MidNew, MidMade, Mid, Running
  <2>2. FileSame
    BY <1>34, SessionStays
  <2> QED
    BY <2>1, <2>2, FiledStays
<1>35. ASSUME Quit PROVE Filed'
  <2>1. Aside /\ UNCHANGED <<owner, text, named, everLive, everOther>>
    BY <1>35, AsideIs DEF Send, Turn, Other, Quit, files, runtime
  <2>2. {MidNew, MidMade} \subseteq {MidNew', MidMade', None} /\ FileSame
    BY <2>1 DEF Aside, FileSame, MidNew, MidMade, Mid, Running
  <2> QED
    BY <2>1, <2>2, FiledStays
<1>36. ASSUME QuitDispose PROVE Filed'
  <2>1. Aside /\ UNCHANGED <<owner, text, named, everLive, everOther>>
    BY <1>36, AsideIs DEF Send, Turn, Other, QuitDispose, files, runtime
  <2>2. {MidNew, MidMade} \subseteq {MidNew', MidMade', None} /\ FileSame
    BY <2>1 DEF Aside, FileSame, MidNew, MidMade, Mid, Running
  <2> QED
    BY <2>1, <2>2, FiledStays
<1>37. ASSUME QuitReleases PROVE Filed'
  <2>1. Aside /\ UNCHANGED <<text, named, everLive, everOther>> /\ \A g \in Files : owner'[g] = "other" => owner[g] = "other"
    BY <1>a, <1>37, AsideIs DEF Send, Turn, Other, QuitReleases, runtime
  <2>2. {MidNew, MidMade} \subseteq {MidNew', MidMade', None} /\ FileSame
    BY <2>1 DEF Aside, FileSame, MidNew, MidMade, Mid, Running
  <2> QED
    BY <2>1, <2>2, FiledStays
<1>38. ASSUME NEW h \in {inst, surf}, NEW l \in Lines, Prompt(h, l) PROVE Filed'
  <2>1. Aside /\ UNCHANGED <<owner, text, named, everLive, everOther>>
    BY ZenonT(60), <1>38, AsideIs DEF Send, Turn, Other, Prompt, files, runtime
  <2>2. {MidNew, MidMade} \subseteq {MidNew', MidMade', None} /\ FileSame
    BY <2>1 DEF Aside, FileSame, MidNew, MidMade, Mid, Running
  <2> QED
    BY <2>1, <2>2, FiledStays
<1>39. ASSUME NEW h \in {inst, surf}, NEW l \in Lines, Steer(h, l) PROVE Filed'
  <2>1. Aside /\ UNCHANGED <<owner, text, named, everLive, everOther>>
    BY <1>39, AsideIs DEF Send, Turn, Other, Steer, files, runtime
  <2>2. {MidNew, MidMade} \subseteq {MidNew', MidMade', None} /\ FileSame
    BY <2>1 DEF Aside, FileSame, MidNew, MidMade, Mid, Running
  <2> QED
    BY <2>1, <2>2, FiledStays
<1>40. ASSUME Esc PROVE Filed'
  <2>1. Aside /\ UNCHANGED <<owner, text, named, everLive, everOther>>
    BY <1>40, AsideIs DEF Send, Turn, Other, Esc, files, runtime
  <2>2. {MidNew, MidMade} \subseteq {MidNew', MidMade', None} /\ FileSame
    BY <2>1 DEF Aside, FileSame, MidNew, MidMade, Mid, Running
  <2> QED
    BY <2>1, <2>2, FiledStays
<1>41. ASSUME NEW h \in Harnesses, TurnEnds(h) PROVE Filed'
  <2>1. Aside /\ UNCHANGED <<owner, text, named, everLive, everOther>>
    BY ZenonT(60), <1>41, AsideIs DEF Send, Turn, Other, TurnEnds, files, runtime
  <2>2. {MidNew, MidMade} \subseteq {MidNew', MidMade', None} /\ FileSame
    BY <2>1 DEF Aside, FileSame, MidNew, MidMade, Mid, Running
  <2> QED
    BY <2>1, <2>2, FiledStays
<1>42. ASSUME NEW h \in Harnesses, NEW l \in Lines, Commit(h, l) PROVE Filed'
  <2>1. Aside /\ UNCHANGED <<owner, named, everLive, everOther>>
    BY ZenonT(60), <1>a, <1>42, AsideIs DEF Send, Turn, Other, Commit, runtime
  <2>2. {MidNew, MidMade} \subseteq {MidNew', MidMade', None} /\ FileSame
    BY <2>1 DEF Aside, FileSame, MidNew, MidMade, Mid, Running
  <2> DEFINE g == harness[inst].file
  <2>3. PICK line \in {<<>>, <<l>>} : text' = [text EXCEPT ![g] = text[g] \o line]
    BY <1>42, CommitMoves
  <2> DEFINE words == text[g] \o line
  <2>4. g \in everLive \cup everOther /\ g \in Files /\ text[g] \in Texts
    BY <1>o DEF Filed, Locked
  <2>5. words # <<>> \/ text[g] = <<>>
    BY <2>4 DEF Texts
  <2>6. text' = [text EXCEPT ![g] = words]
    BY <2>3
  <2> HIDE DEF words, g
  <2> QED
    BY <2>1, <2>2, <2>4, <2>5, <2>6, FiledWrites
<1>43. ASSUME NEW f \in Files, OtherTakes(f) PROVE Filed'
  <2>1. Aside /\ UNCHANGED <<text, named, everLive>> /\ everOther' = everOther \cup {f} /\ owner' = [owner EXCEPT ![f] = "other"]
        /\ text[f] # <<>>
    BY <1>a, <1>43, AsideIs DEF Send, Turn, Other, OtherTakes, runtime
  <2>2. MidNew' = MidNew /\ MidMade' = MidMade /\ FileSame
    BY <2>1 DEF Aside, FileSame, MidNew, MidMade, Mid, Running
  <2>3. f \in Old \cup named
    BY <1>o, <2>1 DEF Filed
  <2>4. ASSUME NEW g \in named, text[g] # <<>> PROVE g \in everLive' \cup everOther' \cup {MidNew', MidMade'}
    BY <2>1, <2>2, <2>4 DEF Filed
  <2>5. \A g \in Files : owner'[g] = "other" => g \in everOther'
    BY <1>a, <2>1 DEF Filed
  <2> QED
    BY <2>1, <2>2, <2>3, <2>4, <2>5 DEF Filed, FileSame
<1>44. ASSUME NEW f \in Files, OtherWrites(f) PROVE Filed'
  <2> DEFINE words == Append(text[f], "other")
  <2>1. Aside /\ UNCHANGED <<owner, named, everLive, everOther>> /\ text' = [text EXCEPT ![f] = words] /\ owner[f] = "other"
    BY <1>a, <1>44, AsideIs DEF Send, Turn, Other, OtherWrites, runtime
  <2>2. {MidNew, MidMade} \subseteq {MidNew', MidMade', None} /\ FileSame
    BY <2>1 DEF Aside, FileSame, MidNew, MidMade, Mid, Running
  <2>3. f \in everLive \cup everOther
    BY <2>1 DEF Filed
  <2>4. words # <<>>
    BY <1>o DEF Texts
  <2> HIDE DEF words
  <2> QED
    BY <2>1, <2>2, <2>3, <2>4, FiledWrites
<1>45. ASSUME NEW f \in Files, OtherLeaves(f) PROVE Filed'
  <2>1. Aside /\ UNCHANGED <<text, named, everLive, everOther>> /\ \A g \in Files : owner'[g] = "other" => owner[g] = "other"
    BY <1>a, <1>45, AsideIs DEF Send, Turn, Other, OtherLeaves, runtime
  <2>2. {MidNew, MidMade} \subseteq {MidNew', MidMade', None} /\ FileSame
    BY <2>1 DEF Aside, FileSame, MidNew, MidMade, Mid, Running
  <2> QED
    BY <2>1, <2>2, FiledStays
<1> QED
  BY <1>1, <1>2, <1>3, <1>4, <1>5, <1>6, <1>7, <1>8, <1>9, <1>10, <1>11, <1>12, <1>13, <1>14, <1>15, <1>16,
     <1>17, <1>18, <1>19, <1>20, <1>21, <1>22, <1>23, <1>24, <1>25, <1>26, <1>27, <1>28, <1>29, <1>30, <1>31,
     <1>32, <1>33, <1>34, <1>35, <1>36, <1>37, <1>38, <1>39, <1>40, <1>41, <1>42, <1>43, <1>44, <1>45 DEF Next,
     Swap, Interrupt, Send, Turn, Other

\* What a step leaves known: a transition that owns a file goes on owning it, and what it has read stays what is there.
KnownStays ==
  /\ Running(Owning)' => Mid'.lock = None \/ (Running(Owning) /\ Mid'.lock = Mid.lock)
  /\ Running(Read)' => Mid'.lock = None \/ (Running(Read) /\ Mid'.lock = Mid.lock /\ Mid'.knows = Mid.knows)
  /\ Running({"newlock"})' =>
       /\ Running({"newlock"}) /\ Mid'.target = Mid.target /\ Mid'.knows = Mid.knows
       /\ owner'[Mid.target] = None => owner[Mid.target] = None

\* Such a step keeps Known.
LEMMA KnownFollows ==
  ASSUME Typed, Locked, Known, scope' = scope, text' = text, FileSame, KnowsSame, quit' = "gone" <=> quit = "gone", KnownStays
  PROVE  Known'
<1>a. /\ harness \in [Harnesses -> Sessions] /\ inst \in Harnesses /\ job \in [Tasks -> Jobs] /\ None \notin Tasks /\ None \notin Files /\ None \notin {"us", "other"}
      /\ lifecycle \in Tasks \cup {None} /\ owner \in [Files -> {"us", "other", None}] /\ adopted \in Files \cup {None}
      /\ pc \in [Tasks -> {"wait"} \cup Asked \cup Blocking \cup Ended]
  BY NamesAssumption DEF Typed, TypeOK
<1>o. /\ text \in [Files -> Texts] /\ None \notin Files
  BY NamesAssumption DEF Typed, TypeOK, Texts
<1> SUFFICES ASSUME ~scope.own PROVE Known'
  BY DEF Known
<1>1. quit' # "gone" /\ ~harness'[inst'].ro => harness'[inst'].knows = text'[harness'[inst'].file]
  BY DEF Known, FileSame, KnowsSame
<1>2. Running(Owning)' => Mid'.lock # harness'[inst'].file
  BY <1>a DEF Known, KnownStays, FileSame, Locked
<1>3. Running(Read)' /\ Mid'.lock # None => Mid'.knows = text'[Mid'.lock]
  BY DEF Known, KnownStays
<1>4. Running({"newlock"})' /\ owner'[Mid'.target] = None => Mid'.knows = text'[Mid'.target]
  BY DEF Known, KnownStays
<1> QED
  BY <1>1, <1>2, <1>3, <1>4 DEF Known

\* Known
LEMMA KnownKept ==
  ASSUME Typed, Alone, Locals, Locked, Filed, Counts, Left, Torn, Known, Next
  PROVE  Known'
<1>a. /\ harness \in [Harnesses -> Sessions] /\ inst \in Harnesses /\ job \in [Tasks -> Jobs] /\ None \notin Tasks /\ None \notin Files /\ None \notin {"us", "other"}
      /\ lifecycle \in Tasks \cup {None} /\ owner \in [Files -> {"us", "other", None}] /\ adopted \in Files \cup {None}
      /\ pc \in [Tasks -> {"wait"} \cup Asked \cup Blocking \cup Ended]
  BY NamesAssumption DEF Typed, TypeOK
<1>o. /\ text \in [Files -> Texts] /\ Old \cap New = {} /\ Files = Old \cup New /\ named \subseteq New /\ None \notin Files
  BY NamesAssumption DEF Typed, TypeOK, Texts, Files, Counts
<1>s. scope' = scope
  BY ScopeStays
<1>q. lifecycle # None => quit = "no"
  BY ZenonT(60), <1>a DEF Alone, Ended
<1>1. ASSUME NEW t \in Tasks, NEW k \in Kinds, NEW p \in Tasks \cup {None}, Request(t, k, p) PROVE Known'
  <2>1. Aside /\ text' = text /\ (quit' = "gone" <=> quit = "gone") /\ owner' = owner
    BY <1>1, AsideIs DEF Send, Turn, Other, Request, files, runtime
  <2>2. FileSame /\ KnowsSame
    BY <1>1 DEF Request, runtime, FileSame, KnowsSame
  <2>3. KnownStays
    BY <2>1 DEF Aside, KnownStays, Mid, Running, Owning, Read
  <2> QED
    BY <1>s, <2>1, <2>2, <2>3, KnownFollows
<1>2. ASSUME NEW t \in Tasks, Start(t) PROVE Known'
  <2>1. lifecycle' = t /\ pc'[t] = "settle" /\ UNCHANGED <<text, owner, quit, inst, harness>>
    BY <1>a, <1>2 DEF Start, Goes, files, runtime
  <2>2. FileSame /\ KnowsSame
    BY <2>1 DEF FileSame, KnowsSame
  <2>3. KnownStays
    BY <2>1 DEF KnownStays, Mid, Running, Owning, Read
  <2> QED
    BY <1>s, <2>1, <2>2, <2>3, KnownFollows
<1>3. ASSUME NEW t \in Tasks, Settle(t) PROVE Known'
  <2>1. UNCHANGED <<text, owner, quit>>
    BY <1>3, SettleDoes
  <2>2. FileSame /\ KnowsSame
    BY <1>3, SettleDoes DEF FileSame, KnowsSame
  <2>3. KnownStays
    BY <1>a, <1>3, <2>1, SettleDoes DEF At, On, Does, KnownStays, Locals, Choosing, Swaps, Mid, Running, Owning,
       Read
  <2> QED
    BY <1>s, <2>1, <2>2, <2>3, KnownFollows
<1>4. ASSUME NEW t \in Tasks, SettleReload(t) PROVE Known'
  <2>1. UNCHANGED <<text, owner, quit>>
    BY <1>4, SettleReloadDoes
  <2>2. FileSame /\ KnowsSame
    BY <1>4, SettleReloadDoes DEF FileSame, KnowsSame
  <2>3. KnownStays
    BY <1>a, <1>4, <2>1, SettleReloadDoes DEF At, On, Does, KnownStays, Locals, Choosing, Swaps, Mid, Running,
       Owning, Read
  <2> QED
    BY <1>s, <2>1, <2>2, <2>3, KnownFollows
<1>5. ASSUME NEW t \in Tasks, NEW f \in Files, TakeTarget(t, f) PROVE Known'
  <2> SUFFICES ASSUME ~scope.own PROVE Known'
    BY <1>s DEF Known
  <2>1. /\ UNCHANGED <<text, quit, inst, harness>> /\ t # None /\ lifecycle = t /\ lifecycle' = t /\ pc[t] = "settle"
        /\ f # harness[inst].file /\ pc'[t] \in {"fail", "open"}
        /\ pc'[t] = "open" => job'[t].lock \in {f, job[t].lock}
    <3>1. /\ UNCHANGED <<text, quit, inst, harness>> /\ t # None /\ lifecycle = t /\ pc[t] = "settle" /\ f # harness[inst].file
      BY <1>5, TakeTargetDoes DEF At
    <3>2. CASE Unusable(f)
      BY <1>5, <3>1, <3>2, TakeTargetDoes DEF On
    <3>3. CASE ~Unusable(f) /\ Held(f)
      BY <1>5, <3>1, <3>3, TakeTargetDoes DEF Does
    <3>4. CASE ~Unusable(f) /\ ~Held(f)
      BY <1>5, <3>1, <3>4, TakeTargetDoes DEF Does
    <3> QED
      BY <3>1, <3>2, <3>3, <3>4
  <2>2. job[t].lock = None /\ None # harness[inst].file
    BY <1>a, <2>1 DEF Locals, Mid, Running, Locked
  <2> QED
    BY <2>1, <2>2 DEF Known, Mid, Running, Owning, Read
<1>6. ASSUME NEW t \in Tasks, NEW f \in Files, TakeDestination(t, f) PROVE Known'
  <2> SUFFICES ASSUME ~scope.own PROVE Known'
    BY <1>s DEF Known
  <2>1. /\ UNCHANGED <<text, quit, inst, harness>> /\ lifecycle' = t
        /\ f # harness[inst].file /\ (pc'[t] = "fail" \/ (pc'[t] = "copy" /\ job'[t].lock = f))
    BY <1>6, TakeDestinationDoes DEF At, On, Does
  <2> QED
    BY <2>1 DEF Known, Mid, Running, Owning, Read
<1>7. ASSUME NEW t \in Tasks, OpenTarget(t) PROVE Known'
  <2> SUFFICES ASSUME ~scope.own PROVE Known'
    BY <1>s DEF Known
  <2>1. /\ UNCHANGED <<text, quit, inst, harness>> /\ t # None /\ lifecycle = t /\ lifecycle' = t /\ pc[t] = "open" /\ pc'[t] = "hook"
        /\ job'[t].lock = job[t].lock /\ job'[t].knows = text[job[t].target]
    BY <1>7, OpenTargetDoes DEF At, Does
  <2>2. job[t].lock # None => job[t].lock = job[t].target
    BY <2>1 DEF Locals, Mid, Running
  <2> QED
    BY <2>1, <2>2 DEF Known, Mid, Running, Owning, Read
<1>8. ASSUME NEW t \in Tasks, HookCancels(t) PROVE Known'
  <2>1. UNCHANGED <<text, owner, quit>>
    BY <1>8, HookCancelsDoes
  <2>2. FileSame /\ KnowsSame
    BY <1>8, HookCancelsDoes DEF FileSame, KnowsSame
  <2>3. KnownStays
    BY <1>a, <1>8, <2>1, HookCancelsDoes DEF At, On, Does, KnownStays, Locals, Choosing, Swaps, Mid, Running,
       Owning, Read
  <2> QED
    BY <1>s, <2>1, <2>2, <2>3, KnownFollows
<1>9. ASSUME NEW t \in Tasks, Create(t) PROVE Known'
  <2> SUFFICES ASSUME ~scope.own PROVE Known'
    BY <1>s DEF Known
  <2> DEFINE content == (IF job[t].kind = "new" THEN <<"first">> ELSE text[harness[inst].file])
  <2>1. /\ t # None /\ lifecycle = t /\ pc[t] \in {"ask", "hook"} /\ lifecycle' = t /\ pc'[t] = "newlock" /\ job'[t].target = FreshName
        /\ job'[t].knows = content /\ UNCHANGED <<quit, inst, harness>> /\ text' = [text EXCEPT ![FreshName] = content]
    BY <1>a, <1>9, CreateDoes DEF At, Does
  <2> HIDE DEF content
  <2>2. FreshName \in New \ named
    BY <2>1, Room DEF Making
  <2>3. FreshName # harness[inst].file
    BY <1>o, <2>2 DEF Filed
  <2>4. text'[FreshName] = content /\ text'[harness[inst].file] = text[harness[inst].file]
    BY <1>o, <2>1, <2>2, <2>3 DEF Locked
  <2> QED
    BY <2>1, <2>4 DEF Known, Mid, Running, Owning, Read
<1>10. ASSUME NEW t \in Tasks, LockNew(t) PROVE Known'
  <2> SUFFICES ASSUME ~scope.own PROVE Known'
    BY <1>s DEF Known
  <2> DEFINE f == job[t].target
  <2>1. /\ UNCHANGED <<text, quit, inst, harness>> /\ t # None /\ lifecycle = t /\ lifecycle' = t /\ pc[t] = "newlock"
        /\ job'[t].knows = job[t].knows /\ (pc'[t] = "fail" \/ (pc'[t] = "begin" /\ job'[t].lock = f /\ ~Held(f)))
    BY <1>10, LockNewDoes DEF At, On, Does
  <2>2. f \in Files /\ f # harness[inst].file
    BY <1>o, <2>1 DEF Locals, Mid, Running
  <2>3. pc'[t] = "begin" => owner[f] = None
    BY <1>a, <2>1, <2>2 DEF Held, Locked
  <2>4. pc'[t] = "begin" => job[t].knows = text[f]
    BY <2>1, <2>3 DEF Known, Mid, Running
  <2> QED
    BY <2>1, <2>2, <2>4 DEF Known, Mid, Running, Owning, Read
<1>11. ASSUME NEW t \in Tasks, SwitchUncontended(t) PROVE Known'
  <2>1. UNCHANGED <<text, owner, quit>>
    BY <1>11, SwitchUncontendedDoes
  <2>2. FileSame /\ KnowsSame
    BY <1>11, SwitchUncontendedDoes DEF FileSame, KnowsSame
  <2>3. KnownStays
    BY <1>a, <1>11, <2>1, SwitchUncontendedDoes DEF At, On, Does, KnownStays, Locals, Choosing, Swaps, Mid,
       Running, Owning, Read
  <2> QED
    BY <1>s, <2>1, <2>2, <2>3, KnownFollows
<1>12. ASSUME NEW t \in Tasks, AnswerReadOnly(t) PROVE Known'
  <2>1. UNCHANGED <<text, owner, quit>>
    BY <1>12, AnswerReadOnlyDoes
  <2>2. FileSame /\ KnowsSame
    BY <1>12, AnswerReadOnlyDoes DEF FileSame, KnowsSame
  <2>3. KnownStays
    BY <1>a, <1>12, <2>1, AnswerReadOnlyDoes DEF At, On, Does, KnownStays, Locals, Choosing, Swaps, Mid, Running,
       Owning, Read
  <2> QED
    BY <1>s, <2>1, <2>2, <2>3, KnownFollows
<1>13. ASSUME NEW t \in Tasks, AnswerFork(t) PROVE Known'
  <2> SUFFICES ASSUME ~scope.own PROVE Known'
    BY <1>s DEF Known
  <2> DEFINE content == text[job[t].target]
  <2>1. /\ t # None /\ lifecycle = t /\ pc[t] \in {"ask", "hook"} /\ lifecycle' = t /\ pc'[t] = "newlock" /\ job'[t].target = FreshName
        /\ job'[t].knows = content /\ UNCHANGED <<quit, inst, harness>> /\ text' = [text EXCEPT ![FreshName] = content]
    BY <1>a, <1>13, AnswerForkDoes DEF At, Does
  <2> HIDE DEF content
  <2>2. FreshName \in New \ named
    BY <2>1, Room DEF Making
  <2>3. FreshName # harness[inst].file
    BY <1>o, <2>2 DEF Filed
  <2>4. text'[FreshName] = content /\ text'[harness[inst].file] = text[harness[inst].file]
    BY <1>o, <2>1, <2>2, <2>3 DEF Locked
  <2> QED
    BY <2>1, <2>4 DEF Known, Mid, Running, Owning, Read
<1>14. ASSUME NEW t \in Tasks, AnswerCancel(t) PROVE Known'
  <2>1. UNCHANGED <<text, owner, quit>>
    BY <1>14, AnswerCancelDoes
  <2>2. FileSame /\ KnowsSame
    BY <1>14, AnswerCancelDoes DEF FileSame, KnowsSame
  <2>3. KnownStays
    BY <1>a, <1>14, <2>1, AnswerCancelDoes DEF At, On, Does, KnownStays, Locals, Choosing, Swaps, Mid, Running,
       Owning, Read
  <2> QED
    BY <1>s, <2>1, <2>2, <2>3, KnownFollows
<1>15. ASSUME NEW t \in Tasks, Copy(t) PROVE Known'
  <2> SUFFICES ASSUME ~scope.own PROVE Known'
    BY <1>s DEF Known
  <2> DEFINE f == job[t].target
  <2>1. /\ t # None /\ lifecycle = t /\ pc[t] = "copy" /\ lifecycle' = t /\ pc'[t] = "copied" /\ job'[t].lock = job[t].lock
        /\ UNCHANGED <<quit, inst, harness>> /\ text' = [text EXCEPT ![f] = <<"copied">>]
    BY <1>a, <1>15, CopyDoes DEF At, Does
  <2>2. f = job[t].lock /\ f # harness[inst].file
    BY <2>1 DEF Locals, Known, Mid, Running, Owning, Read
  <2>3. text'[harness[inst].file] = text[harness[inst].file]
    BY <1>o, <2>1, <2>2 DEF Locked
  <2> QED
    BY <2>1, <2>2, <2>3 DEF Known, Mid, Running, Owning, Read
<1>16. ASSUME NEW t \in Tasks, OpenCopy(t) PROVE Known'
  <2> SUFFICES ASSUME ~scope.own PROVE Known'
    BY <1>s DEF Known
  <2>1. /\ UNCHANGED <<text, quit, inst, harness>> /\ t # None /\ lifecycle = t /\ lifecycle' = t /\ pc[t] = "copied" /\ pc'[t] = "begin"
        /\ job'[t].lock = job[t].lock /\ job'[t].knows = text[job[t].target]
    BY <1>16, OpenCopyDoes DEF At, Does
  <2>2. job[t].lock = job[t].target
    BY <2>1 DEF Locals, Mid, Running
  <2> QED
    BY <2>1, <2>2 DEF Known, Mid, Running, Owning, Read
<1>17. ASSUME NEW t \in Tasks, GiveBackFirst(t) PROVE Known'
  <2>1. UNCHANGED <<text, owner, quit>>
    BY <1>17, GiveBackFirstDoes
  <2>2. FileSame /\ KnowsSame
    BY <1>17, SessionStays
  <2>3. KnownStays
    BY <1>a, <1>17, <2>1, GiveBackFirstDoes DEF At, On, Does, KnownStays, Locals, Choosing, Swaps, Mid, Running,
       Owning, Read
  <2> QED
    BY <1>s, <2>1, <2>2, <2>3, KnownFollows
<1>18. ASSUME NEW t \in Tasks, FirstGiven(t) PROVE Known'
  <2>1. UNCHANGED <<text, owner, quit>>
    BY <1>18, FirstGivenDoes
  <2>2. FileSame /\ KnowsSame
    BY <1>18, FirstGivenDoes DEF FileSame, KnowsSame
  <2>3. KnownStays
    BY <1>a, <1>18, <2>1, FirstGivenDoes DEF At, On, Does, KnownStays, Locals, Choosing, Swaps, Mid, Running,
       Owning, Read
  <2> QED
    BY <1>s, <2>1, <2>2, <2>3, KnownFollows
<1>19. ASSUME NEW t \in Tasks, Teardown(t) PROVE Known'
  <2>1. UNCHANGED <<text, owner, quit>>
    BY <1>19, TeardownDoes
  <2>2. FileSame /\ KnowsSame
    BY <1>19, SessionStays
  <2>3. KnownStays
    BY <1>a, <1>19, <2>1, TeardownDoes DEF At, On, Does, KnownStays, Locals, Choosing, Swaps, Mid, Running,
       Owning, Read
  <2> QED
    BY <1>s, <2>1, <2>2, <2>3, KnownFollows
<1>20. ASSUME NEW t \in Tasks, TornDown(t) PROVE Known'
  <2>1. UNCHANGED <<text, owner, quit>>
    BY <1>20, TornDownDoes
  <2>2. FileSame /\ KnowsSame
    BY <1>20, SessionStays
  <2>3. KnownStays
    BY <1>a, <1>20, <2>1, TornDownDoes DEF At, On, Does, KnownStays, Locals, Choosing, Swaps, Mid, Running,
       Owning, Read
  <2> QED
    BY <1>s, <2>1, <2>2, <2>3, KnownFollows
<1>21. ASSUME NEW t \in Tasks, SecondGiven(t) PROVE Known'
  <2>1. UNCHANGED <<text, owner, quit>>
    BY <1>21, SecondGivenDoes
  <2>2. FileSame /\ KnowsSame
    BY <1>21, SecondGivenDoes DEF FileSame, KnowsSame
  <2>3. KnownStays
    BY <1>a, <1>21, <2>1, SecondGivenDoes DEF At, On, Does, KnownStays, Locals, Choosing, Swaps, Mid, Running,
       Owning, Read
  <2> QED
    BY <1>s, <2>1, <2>2, <2>3, KnownFollows
<1>22. ASSUME NEW t \in Tasks, Install(t) PROVE Known'
  <2> SUFFICES ASSUME ~scope.own PROVE Known'
    BY <1>s DEF Known
  <2>1. /\ t # None /\ lifecycle = t /\ pc[t] = "build" /\ job[t].kind \in Swaps /\ lifecycle' = t /\ pc'[t] = "after" /\ job'[t] = job[t]
        /\ UNCHANGED <<text, quit>>
    BY <1>22, InstallDoes DEF At, On
  <2>2. job[t].lock = (IF job[t].ro THEN None ELSE job[t].target) /\ (job[t].lock # None => job[t].knows = text[job[t].lock])
        /\ job[t].target # None
    BY <1>o, <2>1 DEF Locals, Known, Placed, Closing, Mid, Running, Owning, Read
  <2>3. /\ inst' = inst + 1 /\ harness'[inst + 1].file = job[t].target /\ harness'[inst + 1].ro = job[t].ro
        /\ harness'[inst + 1].knows = job[t].knows
    BY ZenonT(60), <1>22, InstallMoves DEF Blank
  <2> QED
    BY <2>1, <2>2, <2>3 DEF Known, Mid, Running, Owning, Read
<1>23. ASSUME NEW t \in Tasks, Reload(t) PROVE Known'
  <2>1. UNCHANGED <<text, owner, quit>>
    BY <1>23, ReloadDoes
  <2>2. FileSame /\ KnowsSame
    BY <1>23, SessionStays
  <2>3. KnownStays
    BY <1>a, <1>23, <2>1, ReloadDoes DEF At, On, Does, KnownStays, Locals, Choosing, Swaps, Mid, Running, Owning,
       Read
  <2> QED
    BY <1>s, <2>1, <2>2, <2>3, KnownFollows
<1>24. ASSUME NEW t \in Tasks, BuildFails(t) PROVE Known'
  <2>1. UNCHANGED <<text, owner, quit>>
    BY <1>24, BuildFailsDoes
  <2>2. FileSame /\ KnowsSame
    BY <1>24, BuildFailsDoes DEF FileSame, KnowsSame
  <2>3. KnownStays
    BY <1>a, <1>24, <2>1, BuildFailsDoes DEF At, On, Does, KnownStays, Locals, Choosing, Swaps, Mid, Running,
       Owning, Read
  <2> QED
    BY <1>s, <2>1, <2>2, <2>3, KnownFollows
<1>25. ASSUME NEW t \in Tasks, Restore(t) PROVE Known'
  <2>1. UNCHANGED <<text, owner, quit>>
    BY <1>25, RestoreDoes
  <2>2. FileSame /\ KnowsSame
    BY <1>25, SessionStays
  <2>3. KnownStays
    BY <1>a, <1>25, <2>1, RestoreDoes DEF At, On, Does, KnownStays, Locals, Choosing, Swaps, Mid, Running,
       Owning, Read
  <2> QED
    BY <1>s, <2>1, <2>2, <2>3, KnownFollows
<1>26. ASSUME NEW t \in Tasks, Kept(t) PROVE Known'
  <2>1. UNCHANGED <<text, owner, quit>>
    BY <1>26, KeptDoes
  <2>2. FileSame /\ KnowsSame
    BY <1>26, KeptDoes DEF FileSame, KnowsSame
  <2>3. KnownStays
    BY <1>a, <1>26, <2>1, KeptDoes DEF At, On, Does, KnownStays, Locals, Choosing, Swaps, Mid, Running, Owning, Read
  <2> QED
    BY <1>s, <2>1, <2>2, <2>3, KnownFollows
<1>27. ASSUME NEW t \in Tasks, Rebind(t) PROVE Known'
  <2> SUFFICES ASSUME ~scope.own PROVE Known'
    BY <1>s DEF Known
  <2>1. lifecycle' = None /\ quit' = quit /\ inst' = inst
    BY <1>27 DEF Rebind
  <2>2. FileSame
    BY <1>27, SessionStays
  <2> DEFINE g == harness[inst].file
  <2>3. PICK level : harness'[inst].knows = harness[inst].knows \o level /\ text' = [text EXCEPT ![g] = text[g] \o level]
    BY <1>27, RebindMoves
  <2>4. text'[g] = text[g] \o level
    BY <1>o, <2>3 DEF Locked
  <2> QED
    BY <2>1, <2>2, <2>3, <2>4 DEF Known, FileSame, Running
<1>28. ASSUME NEW t \in Tasks, Raises(t) PROVE Known'
  <2>1. UNCHANGED <<text, owner, quit>>
    BY <1>28, RaisesDoes
  <2>2. FileSame /\ KnowsSame
    BY <1>28, RaisesDoes DEF FileSame, KnowsSame
  <2>3. KnownStays
    BY <1>a, <1>28, <2>1, RaisesDoes DEF At, On, Does, KnownStays, Locals, Choosing, Swaps, Mid, Running, Owning,
       Read
  <2> QED
    BY <1>s, <2>1, <2>2, <2>3, KnownFollows
<1>29. ASSUME NEW t \in Tasks, RestoreFails(t) PROVE Known'
  <2>1. UNCHANGED <<text, owner, quit>>
    BY <1>29, RestoreFailsDoes
  <2>2. FileSame /\ KnowsSame
    BY <1>29, SessionStays
  <2>3. KnownStays
    BY <1>a, <1>29, <2>1, RestoreFailsDoes DEF At, On, Does, KnownStays, Locals, Choosing, Swaps, Mid, Running,
       Owning, Read
  <2> QED
    BY <1>s, <2>1, <2>2, <2>3, KnownFollows
<1>30. ASSUME NEW t \in Tasks, Discard(t) PROVE Known'
  <2> SUFFICES ASSUME ~scope.own PROVE Known'
    BY <1>s DEF Known
  <2>1. /\ lifecycle' = t /\ pc'[t] = "drop" /\ UNCHANGED <<quit, inst, harness>>
        /\ text' = [f \in Files |-> IF f = job[t].made /\ harness[inst].file # f THEN <<>> ELSE text[f]]
    BY <1>30, DiscardDoes DEF On
  <2>2. text'[harness[inst].file] = text[harness[inst].file]
    BY <2>1 DEF Locked
  <2> QED
    BY <2>1, <2>2 DEF Known, Mid, Running, Owning, Read
<1>31. ASSUME NEW t \in Tasks, Drop(t) PROVE Known'
  <2>1. lifecycle' = None /\ UNCHANGED <<text, quit, inst, harness>>
    BY <1>31 DEF Drop, runtime
  <2>2. FileSame /\ KnowsSame
    BY <2>1 DEF FileSame, KnowsSame
  <2>3. KnownStays
    BY <2>1 DEF KnownStays, Running
  <2> QED
    BY <1>s, <2>1, <2>2, <2>3, KnownFollows
<1>32. ASSUME NEW t \in Tasks, CancelWaiting(t) PROVE Known'
  <2>1. Aside /\ text' = text /\ (quit' = "gone" <=> quit = "gone") /\ owner' = owner
    BY <1>32, AsideIs DEF Send, Turn, Other, CancelWaiting, files, runtime
  <2>2. FileSame /\ KnowsSame
    BY <1>32 DEF CancelWaiting, runtime, FileSame, KnowsSame
  <2>3. KnownStays
    BY <2>1 DEF Aside, KnownStays, Mid, Running, Owning, Read
  <2> QED
    BY <1>s, <2>1, <2>2, <2>3, KnownFollows
<1>33. ASSUME NEW t \in Tasks, Cancel(t) PROVE Known'
  <2>1. UNCHANGED <<text, owner, quit>>
    BY <1>33, CancelDoes
  <2>2. FileSame /\ KnowsSame
    BY <1>33, CancelDoes DEF FileSame, KnowsSame
  <2>3. KnownStays
    BY <1>a, <1>33, <2>1, CancelDoes DEF At, On, Does, KnownStays, Locals, Choosing, Swaps, Mid, Running, Owning,
       Read
  <2> QED
    BY <1>s, <2>1, <2>2, <2>3, KnownFollows
<1>34. ASSUME NEW t \in Tasks, CancelStops(t) PROVE Known'
  <2>1. UNCHANGED <<text, owner, quit>>
    BY <1>34, CancelStopsDoes
  <2>2. FileSame /\ KnowsSame
    BY <1>34, SessionStays
  <2>3. KnownStays
    BY <1>a, <1>34, <2>1, CancelStopsDoes DEF At, On, Does, KnownStays, Locals, Choosing, Swaps, Mid, Running,
       Owning, Read
  <2> QED
    BY <1>s, <2>1, <2>2, <2>3, KnownFollows
<1>35. ASSUME Quit PROVE Known'
  <2>1. Aside /\ text' = text /\ (quit' = "gone" <=> quit = "gone") /\ owner' = owner
    BY <1>35, AsideIs DEF Send, Turn, Other, Quit, files, runtime
  <2>2. FileSame /\ KnowsSame
    BY <1>35 DEF Quit, runtime, FileSame, KnowsSame
  <2>3. KnownStays
    BY <2>1 DEF Aside, KnownStays, Mid, Running, Owning, Read
  <2> QED
    BY <1>s, <2>1, <2>2, <2>3, KnownFollows
<1>36. ASSUME QuitDispose PROVE Known'
  <2>1. Aside /\ text' = text /\ (quit' = "gone" <=> quit = "gone") /\ owner' = owner
    BY <1>36, AsideIs DEF Send, Turn, Other, QuitDispose, files, runtime
  <2>2. FileSame /\ KnowsSame
    BY <1>36, SessionStays
  <2>3. KnownStays
    BY <2>1 DEF Aside, KnownStays, Mid, Running, Owning, Read
  <2> QED
    BY <1>s, <2>1, <2>2, <2>3, KnownFollows
<1>37. ASSUME QuitReleases PROVE Known'
  <2>1. lifecycle = None /\ lifecycle' = None /\ quit' = "gone"
    BY <1>a, <1>q, <1>37 DEF QuitReleases
  <2> QED
    BY <2>1 DEF Known, Running
<1>38. ASSUME NEW h \in {inst, surf}, NEW l \in Lines, Prompt(h, l) PROVE Known'
  <2>1. Aside /\ text' = text /\ (quit' = "gone" <=> quit = "gone") /\ owner' = owner
    BY ZenonT(60), <1>38, AsideIs DEF Send, Turn, Other, Prompt, files, runtime
  <2>2. FileSame /\ KnowsSame
    BY <1>38, SessionStays
  <2>3. KnownStays
    BY <2>1 DEF Aside, KnownStays, Mid, Running, Owning, Read
  <2> QED
    BY <1>s, <2>1, <2>2, <2>3, KnownFollows
<1>39. ASSUME NEW h \in {inst, surf}, NEW l \in Lines, Steer(h, l) PROVE Known'
  <2>1. Aside /\ text' = text /\ (quit' = "gone" <=> quit = "gone") /\ owner' = owner
    BY <1>39, AsideIs DEF Send, Turn, Other, Steer, files, runtime
  <2>2. FileSame /\ KnowsSame
    BY <1>39, SessionStays
  <2>3. KnownStays
    BY <2>1 DEF Aside, KnownStays, Mid, Running, Owning, Read
  <2> QED
    BY <1>s, <2>1, <2>2, <2>3, KnownFollows
<1>40. ASSUME Esc PROVE Known'
  <2>1. Aside /\ text' = text /\ (quit' = "gone" <=> quit = "gone") /\ owner' = owner
    BY <1>40, AsideIs DEF Send, Turn, Other, Esc, files, runtime
  <2>2. FileSame /\ KnowsSame
    BY <1>40, SessionStays
  <2>3. KnownStays
    BY <2>1 DEF Aside, KnownStays, Mid, Running, Owning, Read
  <2> QED
    BY <1>s, <2>1, <2>2, <2>3, KnownFollows
<1>41. ASSUME NEW h \in Harnesses, TurnEnds(h) PROVE Known'
  <2>1. Aside /\ text' = text /\ (quit' = "gone" <=> quit = "gone") /\ owner' = owner
    BY ZenonT(60), <1>41, AsideIs DEF Send, Turn, Other, TurnEnds, files, runtime
  <2>2. FileSame /\ KnowsSame
    BY <1>41, SessionStays
  <2>3. KnownStays
    BY <2>1 DEF Aside, KnownStays, Mid, Running, Owning, Read
  <2> QED
    BY <1>s, <2>1, <2>2, <2>3, KnownFollows
<1>42. ASSUME NEW h \in Harnesses, NEW l \in Lines, Commit(h, l) PROVE Known'
  <2> SUFFICES ASSUME ~scope.own PROVE Known'
    BY <1>s DEF Known
  <2> DEFINE g == harness[inst].file
  <2>1. Aside /\ UNCHANGED <<owner, quit, inst>>
    BY ZenonT(60), <1>42, AsideIs DEF Send, Turn, Other, Commit, files, runtime
  <2>2. FileSame
    BY <1>42, SessionStays
  <2>3. PICK line : harness'[inst].knows = harness[inst].knows \o line /\ text' = [text EXCEPT ![g] = text[g] \o line]
    BY <1>42, CommitMoves
  <2>4. text'[g] = text[g] \o line /\ \A f \in Files : f # g => text'[f] = text[f]
    BY <1>o, <2>3 DEF Locked
  <2>5. Running(Read) /\ Mid.lock # None => text'[Mid.lock] = text[Mid.lock]
    <3>1. Running(Read) => Mid.lock \in Files \cup {None} /\ Mid.lock # g
      BY <1>a DEF Jobs, Known, Mid, Running, Owning, Read
    <3> QED
      BY <2>4, <3>1
  <2>6. Running({"newlock"}) => text'[Mid.target] = text[Mid.target]
    BY <1>o, <2>4 DEF Locals
  <2> QED
    BY <2>1, <2>2, <2>3, <2>4, <2>5, <2>6 DEF Known, Aside, FileSame, Mid, Running, Owning, Read
<1>43. ASSUME NEW f \in Files, OtherTakes(f) PROVE Known'
  <2>1. Aside /\ text' = text /\ (quit' = "gone" <=> quit = "gone") /\ owner' = [owner EXCEPT ![f] = "other"] /\ owner[f] = None
        /\ UNCHANGED <<inst, harness>>
    BY <1>43, AsideIs DEF Send, Turn, Other, OtherTakes, runtime
  <2>2. FileSame /\ KnowsSame
    BY <2>1 DEF FileSame, KnowsSame
  <2>3. Running({"newlock"}) => Mid.target \in Files
    BY <1>o DEF Locals
  <2>4. KnownStays
    BY <1>a, <2>1, <2>3 DEF Aside, KnownStays, Mid, Running, Owning, Read
  <2> QED
    BY <1>s, <2>1, <2>2, <2>4, KnownFollows
<1>44. ASSUME NEW f \in Files, OtherWrites(f) PROVE Known'
  <2> SUFFICES ASSUME ~scope.own PROVE Known'
    BY <1>s DEF Known
  <2> DEFINE words == Append(text[f], "other")
  <2>1. Aside /\ UNCHANGED <<owner, quit, inst, harness>> /\ text' = [text EXCEPT ![f] = words] /\ owner[f] = "other"
    BY <1>44, AsideIs DEF Send, Turn, Other, OtherWrites, runtime
  <2> HIDE DEF words
  <2>2. \A g \in Files : owner[g] # "other" => text'[g] = text[g]
    BY <1>o, <2>1
  <2>3. quit # "gone" /\ ~harness[inst].ro => text'[harness[inst].file] = text[harness[inst].file]
    BY <2>2 DEF Locked
  <2>4. lifecycle # None /\ Mid.lock # None => text'[Mid.lock] = text[Mid.lock]
    <3>1. lifecycle # None => Mid.lock \in Files \cup {None}
      BY <1>a DEF Mid, Jobs
    <3> QED
      BY <2>2, <3>1 DEF Locked, MidLock
  <2>5. Running({"newlock"}) /\ owner[Mid.target] = None => text'[Mid.target] = text[Mid.target]
    BY <1>a, <1>o, <2>2 DEF Locals
  <2> QED
    BY <2>1, <2>3, <2>4, <2>5 DEF Known, Aside, Mid, Running, Owning, Read
<1>45. ASSUME NEW f \in Files, OtherLeaves(f) PROVE Known'
  <2>1. Aside /\ text' = text /\ (quit' = "gone" <=> quit = "gone") /\ owner' = [owner EXCEPT ![f] = None]
        /\ UNCHANGED <<inst, harness>> /\ \A t \in Tasks : ~(pc[t] = "newlock" /\ job[t].target = f /\ f \in New)
    BY <1>45, AsideIs DEF Send, Turn, Other, OtherLeaves, runtime
  <2>2. FileSame /\ KnowsSame
    BY <2>1 DEF FileSame, KnowsSame
  <2>3. ASSUME Running({"newlock"}) PROVE Mid.target # f
    BY <1>a, <1>o, <2>1, <2>3 DEF Locals, Running, Mid
  <2>4. KnownStays
    BY <1>a, <2>1, <2>3 DEF Aside, KnownStays, Mid, Running, Owning, Read
  <2> QED
    BY <1>s, <2>1, <2>2, <2>4, KnownFollows
<1> QED
  BY <1>1, <1>2, <1>3, <1>4, <1>5, <1>6, <1>7, <1>8, <1>9, <1>10, <1>11, <1>12, <1>13, <1>14, <1>15, <1>16,
     <1>17, <1>18, <1>19, <1>20, <1>21, <1>22, <1>23, <1>24, <1>25, <1>26, <1>27, <1>28, <1>29, <1>30, <1>31,
     <1>32, <1>33, <1>34, <1>35, <1>36, <1>37, <1>38, <1>39, <1>40, <1>41, <1>42, <1>43, <1>44, <1>45 DEF Next,
     Swap, Interrupt, Send, Turn, Other

-----------------------------------------------------------------------------
\* The inductive invariant.
IInv == /\ Typed
        /\ Counts
        /\ Alone
        /\ Locals
        /\ Locked
        /\ Known
        /\ Filed
        /\ Left
        /\ Torn
        /\ Halted
        /\ Lined
        /\ Warned

\* It holds at first,
LEMMA InitHolds ==
  ASSUME Init
  PROVE  IInv
<1>a. /\ None \notin Tasks /\ None \notin Files /\ None \notin {"us", "other"} /\ Home \in Old /\ Old \cap New = {} /\ Files = Old \cup New
      /\ IsFiniteSet(Tasks) /\ Cardinality(Tasks) \in Nat
  BY NamesAssumption, FS_CardinalityType DEF Files
<1>b. 0 \in Harnesses /\ \A h \in Harnesses : h \in Nat
  BY <1>a DEF Harnesses
<1>i. /\ scope \in Scopes /\ owner = [f \in Files |-> IF f = Home THEN "us" ELSE None]
      /\ adopted = Home /\ everLive = {Home} /\ text = [f \in Files |-> IF f \in Old THEN <<"first">> ELSE <<>>]
      /\ pc = [t \in Tasks |-> "idle"] /\ job = [t \in Tasks |-> NoJob] /\ lifecycle = None
      /\ inst = 0 /\ surf = 0 /\ built = 0 /\ stopped = FALSE /\ unbound = FALSE /\ quit = "no"
      /\ accepted = {} /\ said = {} /\ returned = {} /\ cleared = {} /\ named = {} /\ everOther = {}
  BY DEF Init
<1>h. /\ harness[0].file = Home /\ harness[0].knows = <<"first">> /\ ~harness[0].ro /\ ~harness[0].disposed /\ harness[0].turn = "idle"
      /\ harness[0].run = {} /\ harness[0].queue = {} /\ harness[0].next = {}
      /\ \A h \in Harnesses : h # 0 => harness[h] = Blank
  BY <1>b DEF Init, Blank
<1>t. <<>> \in Texts /\ <<"first">> \in Texts
  BY DEF Texts
<1>1. Typed
  <2>1. NoJob \in Jobs
    BY <1>b, <1>t DEF NoJob, Jobs
  <2>2. \A h \in Harnesses : harness[h] \in Sessions
    <3>1. Blank \in Sessions
      BY <1>t DEF Blank, Sessions
    <3>2. harness[0] = [Blank EXCEPT !.file = Home, !.knows = <<"first">>]
      BY <1>b DEF Init
    <3>3. harness[0] \in Sessions
      BY <1>a, <1>t, <3>2 DEF Blank, Sessions
    <3> QED
      BY <1>h, <3>1, <3>3
  <2>3. harness \in [Harnesses -> Sessions]
    <3>1. harness = [h \in Harnesses |-> harness[h]]
      BY DEF Init
    <3> HIDE DEF Init
    <3> QED
      BY <2>2, <3>1
  <2>4. TypeOK
    <3>1. owner \in [Files -> {"us", "other", None}] /\ pc \in [Tasks -> {"wait"} \cup Asked \cup Blocking \cup Ended]
      BY <1>i DEF Ended
    <3>2. text \in [Files -> Texts]
      BY <1>i, <1>t
    <3>3. \A t \in Tasks : /\ job[t].kind \in Kinds \cup {None} /\ job[t].parent \in Tasks \cup {None}
                          /\ {job[t].target, job[t].lock, job[t].made} \subseteq Files \cup {None}
                          /\ job[t].old \in Harnesses
      BY <1>b, <1>i DEF NoJob
    <3>4. \A h \in Harnesses :
             /\ harness[h].file \in Files \cup {None}
             /\ harness[h].turn \in {"idle", "run", "esc", "cut"}
             /\ harness[h].run \cup harness[h].queue \cup harness[h].next \subseteq Lines
      BY <2>2 DEF Sessions
    <3> QED
      BY <1>a, <1>b, <1>i, <3>1, <3>2, <3>3, <3>4 DEF TypeOK, Texts
  <2> QED
    BY <1>i, <2>1, <2>3, <2>4 DEF Typed
<1>2. Counts
  <2>1. IsFiniteSet({}) /\ Cardinality({}) = 0
    BY FS_EmptySet
  <2>2. Makers = {} /\ Spenders = {}
    BY <1>i DEF Makers, Spenders, Making, Spent
  <2> QED
    BY <1>i, <2>1, <2>2 DEF Counts
<1>3. Alone
  BY <1>a, <1>i DEF Alone, NoJob
<1>4. Locals
  BY <1>a, <1>i DEF Locals, Running
<1>5. Locked
  BY <1>a, <1>h, <1>i DEF Locked, MidLock
<1>6. Known
  BY <1>a, <1>h, <1>i DEF Known, Running
<1>7. Filed
  BY <1>a, <1>h, <1>i DEF Filed
<1>8. Left
  BY <1>b, <1>h, <1>i DEF Left
<1>9. Torn
  BY <1>i DEF Torn, Running
<1>10. Halted /\ Lined /\ Warned
  BY <1>h, <1>i DEF Halted, Lined, Warned, Waiting, Fates
<1> QED
  BY <1>1, <1>2, <1>3, <1>4, <1>5, <1>6, <1>7, <1>8, <1>9, <1>10 DEF IInv

\* every step keeps it,
LEMMA StepHolds ==
  ASSUME IInv, [Next]_vars
  PROVE  IInv'
<1>1. CASE Next
  <2>1. Typed /\ Counts /\ Alone /\ Locals /\ Locked /\ Known /\ Filed /\ Left /\ Torn /\ Halted /\ Lined /\ Warned
    BY DEF IInv
  <2>2. Typed' /\ Counts'
    BY <1>1, <2>1, TypedNext, CountsKept
  <2>3. Alone' /\ Locals' /\ Locked' /\ Known' /\ Filed'
    BY <1>1, <2>1, AloneKept, LocalsKept, LockedKept, KnownKept, FiledKept
  <2>4. Left' /\ Torn' /\ Halted' /\ Lined' /\ Warned'
    BY <1>1, <2>1, LeftKept, TornKept, HaltedKept, LinedKept, WarnedKept
  <2> QED
    BY <2>2, <2>3, <2>4 DEF IInv
<1>2. CASE UNCHANGED vars
  <2>1. UNCHANGED <<scope, owner, text, everOther, pc, job, lifecycle, inst, surf, built, adopted, stopped, unbound, everLive, harness, quit>>
        /\ UNCHANGED <<accepted, said, returned, cleared, named>>
    BY <1>2 DEF vars, files, runtime, fates
  <2>2. Typed'
    BY <2>1 DEF IInv, Typed, TypeOK
  <2>3. Counts' /\ Alone'
    BY ZenonT(60), <2>1 DEF IInv, Counts, Makers, Spenders, Alone
  <2>4. Locals'
    BY <2>1 DEF IInv, Locals, Running, Mid
  <2>5. Locked' /\ Known'
    BY <2>1 DEF IInv, Locked, Known, MidLock, Running, Mid
  <2>6. Filed'
    BY <2>1 DEF IInv, Filed, MidNew, MidMade, Running, Mid
  <2>7. Left' /\ Torn'
    BY <2>1 DEF IInv, Left, Torn, Running, Mid, Waiting
  <2>8. Halted' /\ Lined' /\ Warned'
    BY <2>1 DEF IInv, Halted, Lined, Warned, Running, Mid, Waiting, Fates
  <2> QED
    BY <2>2, <2>3, <2>4, <2>5, <2>6, <2>7, <2>8 DEF IInv
<1> QED
  BY <1>1, <1>2

\* and so it always holds.
LEMMA IInvHolds == Spec => []IInv
<1> QED
  BY InitHolds, StepHolds, PTL DEF Spec

-----------------------------------------------------------------------------
\* Every variable has its type, whatever a transition, a turn and another terminal do; no transition installs a
\* third harness or publishes a second file.
THEOREM TypesHold == Spec => []TypeOK
<1>1. IInv => TypeOK
  BY DEF IInv, Typed
<1> QED
  BY <1>1, IInvHolds, PTL

\* The parts Lined and Left say where every line is.
LEMMA LinesHomeIs ==
  ASSUME IInv
  PROVE  LinesHome
<1>a. inst \in Harnesses /\ inst \in Nat /\ \A h \in Harnesses : h \in Nat
  BY DEF IInv, Typed, TypeOK, Harnesses
<1> DEFINE held == [h \in Harnesses |-> harness[h].run \cup Waiting(h)]
           ended == <<said, returned, cleared>>
<1>1. \A i, j \in 1..3 : i # j => ended[i] \cap ended[j] = {}
  <2>1. said \cap returned = {} /\ said \cap cleared = {} /\ returned \cap cleared = {}
    BY DEF IInv, Lined
  <2>2. ended[1] = said /\ ended[2] = returned /\ ended[3] = cleared
    OBVIOUS
  <2> HIDE DEF ended
  <2>3. ASSUME NEW i \in 1..3, NEW j \in 1..3, i # j PROVE ended[i] \cap ended[j] = {}
    <3>1. (i = 1 \/ i = 2 \/ i = 3) /\ (j = 1 \/ j = 2 \/ j = 3)
      OBVIOUS
    <3> QED
      BY <2>1, <2>2, <2>3, <3>1
  <2> QED
    BY <2>3
<1>2. \A h \in Harnesses : held[h] \cap (said \cup returned \cup cleared) = {}
  <2>1. ASSUME NEW h \in Harnesses PROVE (harness[h].run \cup Waiting(h)) \cap (said \cup returned \cup cleared) = {}
    <3>1. CASE h = inst
      BY <3>1 DEF IInv, Lined, Fates
    <3>2. CASE h < inst
      BY <1>a, <3>2 DEF IInv, Left
    <3>3. CASE h > inst
      <4>1. harness[h] = Blank
        BY <1>a, <3>3 DEF IInv, Left
      <4> QED
        BY <4>1 DEF Blank, Waiting
    <3> QED
      BY <1>a, <3>1, <3>2, <3>3
  <2> QED
    BY <2>1
<1>3. accepted = said \cup returned \cup cleared \cup held[inst]
  BY <1>a DEF IInv, Lined, Fates
<1> QED
  BY <1>1, <1>2, <1>3 DEF LinesHome

\* A line answered with success is sent, given back or cleared, once, or waits on the installed harness: no
\* transition, failed, cancelled or through, leaves one on a harness it replaced.
THEOREM LinesHomeHolds == Spec => []LinesHome
<1> QED
  BY LinesHomeIs, IInvHolds, PTL

\* The harnesses that were built, and those of them that are not torn down.
LEMMA Installed ==
  ASSUME IInv
  PROVE  /\ inst \in Harnesses /\ inst \in Nat /\ surf \in Harnesses /\ surf \in Nat /\ surf <= inst /\ built = inst
         /\ \A h \in 0..built : h \in Harnesses /\ h \in Nat
         /\ owner \in [Files -> {"us", "other", None}] /\ None \notin Files
         /\ \A h \in 0..built : ~harness[h].disposed => h = inst
<1>1. /\ inst \in Harnesses /\ inst \in Nat /\ surf \in Harnesses /\ surf \in Nat /\ surf <= inst /\ built = inst
      /\ \A h \in 0..built : h \in Harnesses /\ h \in Nat
      /\ owner \in [Files -> {"us", "other", None}] /\ None \notin Files
  <2>1. Cardinality(Tasks) \in Nat /\ None \notin Files
    BY NamesAssumption, FS_CardinalityType
  <2>2. /\ inst \in Harnesses /\ surf \in Harnesses /\ surf <= inst /\ built = inst
        /\ owner \in [Files -> {"us", "other", None}]
    BY DEF IInv, Typed, TypeOK
  <2>3. Harnesses \subseteq Nat /\ \A h \in 0..inst : h \in Harnesses
    BY <2>1, <2>2 DEF Harnesses
  <2> QED
    BY <2>1, <2>2, <2>3
<1>2. ASSUME NEW h \in 0..built, ~harness[h].disposed PROVE h = inst
  BY <1>1, <1>2 DEF IInv, Left
<1> QED
  BY <1>1, <1>2

\* Locked and Known say it of the lock and of what is known.
LEMMA LockFollows ==
  ASSUME IInv, ~scope.own
  PROVE  LockFollowsSession
<1>1. AtRest => Mine = IF quit = "gone" \/ harness[inst].ro THEN {} ELSE {harness[inst].file}
  BY Installed DEF IInv, AtRest, Mine, Locked, MidLock
<1>2. ASSUME NEW h \in 0..built, ~harness[h].disposed, ~harness[h].ro PROVE harness[h].knows = text[harness[h].file]
  <2>1. h = inst
    BY <1>2, Installed
  <2>2. quit # "gone"
    BY <1>2, <2>1 DEF IInv, Torn
  <2> QED
    BY <1>2, <2>1, <2>2 DEF IInv, Known
<1> QED
  BY <1>1, <1>2 DEF LockFollowsSession

\* Between transitions the process holds the lock of the session it runs on and no other, and knows all of
\* its file, whatever a swap failed at, was cancelled at or found (`_finish_session_replacement'); in the
\* histories where nobody resumes or imports over the file that is live.
THEOREM LockFollowsSessionHolds == Spec => [](~scope.own => LockFollowsSession)
<1>1. IInv => (~scope.own => LockFollowsSession)
  BY LockFollows
<1> QED
  BY <1>1, IInvHolds, PTL

\* A transition that ends without its session has removed the file it published, unless another terminal
\* had it first (`_discard_unadopted_file').
THEOREM FailedLeavesNoFileHolds == Spec => []FailedLeavesNoFile
<1>1. ASSUME IInv PROVE FailedLeavesNoFile
  <2>1. ASSUME lifecycle = None, NEW f \in named, text[f] # <<>> PROVE f \in everLive \cup everOther
    <3>1. MidNew = None /\ MidMade = None
      BY <2>1 DEF MidNew, MidMade, Running
    <3>2. f # None
      BY <1>1, Installed DEF IInv, Typed, TypeOK
    <3> QED
      BY <1>1, <2>1, <3>1, <3>2 DEF IInv, Filed
  <2> QED
    BY <2>1 DEF FailedLeavesNoFile
<1> QED
  BY <1>1, IInvHolds, PTL

\* Left and Halted say it of the harnesses.
LEMMA StoppedIs ==
  ASSUME IInv, "give2" \notin scope.cancels
  PROVE  StoppedHolds
<1>1. \A g, h \in 0..built : ~harness[g].disposed /\ ~harness[h].disposed => g = h
  BY Installed
<1>2. ASSUME AtRest, quit = "no"
      PROVE  /\ harness[inst].disposed => stopped
             /\ stopped => \A h \in {inst, surf} : harness[h].disposed /\ (harness[h].held \/ (h # inst /\ unbound))
  <2>1. \A S : ~Running(S)
    BY <1>2 DEF AtRest, Running
  <2>2. harness[inst].disposed => stopped
    BY <1>2, <2>1 DEF IInv, Halted
  <2>3. ASSUME stopped PROVE harness[inst].disposed /\ harness[inst].held
    BY <2>3 DEF IInv, Halted
  <2>4. surf # inst => harness[surf].disposed /\ (harness[surf].held \/ unbound)
    BY <2>1, Installed DEF IInv, Halted, Left
  <2> QED
    BY <2>2, <2>3, <2>4
<1> QED
  BY <1>1, <1>2 DEF StoppedHolds

\* No harness runs beside the installed one, and between transitions a torn-down one that is still installed
\* is one that was stopped, with every harness its surfaces have held (`_stop'); unless a cancel meets
\* the second giving back of the queue, which stops nothing.
THEOREM StoppedRuntimeHolds == Spec => []("give2" \notin scope.cancels => StoppedHolds)
<1>1. IInv => ("give2" \notin scope.cancels => StoppedHolds)
  BY StoppedIs
<1> QED
  BY <1>1, IInvHolds, PTL

\* What a transition leaves, however it ends: its lock, its files, and one harness or a stopped runtime.
THEOREM LeavesCleanHolds == Spec => [](~scope.own /\ "give2" \notin scope.cancels => LeavesClean)
<1>1. LockFollowsSession /\ FailedLeavesNoFile /\ StoppedHolds => LeavesClean
  BY DEF LeavesClean
<1> QED
  BY <1>1, LockFollowsSessionHolds, FailedLeavesNoFileHolds, StoppedRuntimeHolds, PTL

\* Every step that writes a file that was there owns it, or is an append of another terminal.
LEMMA WritesOwned ==
  ASSUME Typed, Counts, Alone, Locals, Locked, Filed, Left, Torn, NEW f \in Files, text'[f] # text[f], f \notin named' \ named,
         text'[f] # <<>> => text'[f][Len(text'[f])] # "other", Next
  PROVE  owner[f] = "us" \/ f \in scope.unusable
<1> DEFINE Goal == owner[f] = "us" \/ f \in scope.unusable
<1>0. /\ f \in Files /\ text'[f] # text[f] /\ f \notin named' \ named /\ (text'[f] # <<>> => text'[f][Len(text'[f])] # "other")
  OBVIOUS
<1>o. /\ text \in [Files -> Texts] /\ None \notin Files /\ None \notin Tasks /\ lifecycle \in Tasks \cup {None}
  BY NamesAssumption DEF Typed, TypeOK, Texts
<1>p. pc \in [Tasks -> {"wait"} \cup Asked \cup Blocking \cup Ended]
  BY DEF Typed, TypeOK
<1>q. lifecycle # None => quit = "no"
  BY ZenonT(60), <1>o, <1>p DEF Alone, Ended
<1>1. ASSUME NEW t \in Tasks, NEW k \in Kinds, NEW p \in Tasks \cup {None}, Request(t, k, p) PROVE Goal
  BY <1>1, <1>0 DEF Request, files
<1>2. ASSUME NEW t \in Tasks, Start(t) PROVE Goal
  BY <1>2, <1>0 DEF Start, files
<1>3. ASSUME NEW t \in Tasks, Settle(t) PROVE Goal
  BY <1>3, <1>0, SettleDoes
<1>4. ASSUME NEW t \in Tasks, SettleReload(t) PROVE Goal
  BY <1>4, <1>0, SettleReloadDoes
<1>5. ASSUME NEW t \in Tasks, NEW g \in Files, TakeTarget(t, g) PROVE Goal
  BY <1>5, <1>0, TakeTargetDoes
<1>6. ASSUME NEW t \in Tasks, NEW g \in Files, TakeDestination(t, g) PROVE Goal
  BY <1>6, <1>0, TakeDestinationDoes
<1>7. ASSUME NEW t \in Tasks, OpenTarget(t) PROVE Goal
  BY <1>7, <1>0, OpenTargetDoes
<1>8. ASSUME NEW t \in Tasks, HookCancels(t) PROVE Goal
  BY <1>8, <1>0, HookCancelsDoes
<1>9. ASSUME NEW t \in Tasks, Create(t) PROVE Goal
  <2>1. text' = [text EXCEPT ![FreshName] = (IF job[t].kind = "new" THEN <<"first">> ELSE text[harness[inst].file])] /\ named' = named \cup {FreshName} /\ pc[t] \in {"hook", "ask"}
    BY <1>9, CreateDoes DEF At
  <2>2. FreshName \in New \ named
    BY <2>1, Room DEF Making
  <2>3. f # FreshName
    BY <1>0, <2>1, <2>2
  <2> QED
    BY <1>0, <1>o, <2>1, <2>3
<1>10. ASSUME NEW t \in Tasks, LockNew(t) PROVE Goal
  BY <1>10, <1>0, LockNewDoes
<1>11. ASSUME NEW t \in Tasks, SwitchUncontended(t) PROVE Goal
  BY <1>11, <1>0, SwitchUncontendedDoes
<1>12. ASSUME NEW t \in Tasks, AnswerReadOnly(t) PROVE Goal
  BY <1>12, <1>0, AnswerReadOnlyDoes
<1>13. ASSUME NEW t \in Tasks, AnswerFork(t) PROVE Goal
  <2>1. text' = [text EXCEPT ![FreshName] = text[job[t].target]] /\ named' = named \cup {FreshName} /\ pc[t] \in {"hook", "ask"}
    BY <1>13, AnswerForkDoes DEF At
  <2>2. FreshName \in New \ named
    BY <2>1, Room DEF Making
  <2>3. f # FreshName
    BY <1>0, <2>1, <2>2
  <2> QED
    BY <1>0, <1>o, <2>1, <2>3
<1>14. ASSUME NEW t \in Tasks, AnswerCancel(t) PROVE Goal
  BY <1>14, <1>0, AnswerCancelDoes
<1>15. ASSUME NEW t \in Tasks, Copy(t) PROVE Goal
  <2>1. /\ t # None /\ lifecycle = t /\ pc[t] = "copy" /\ text' = [text EXCEPT ![job[t].target] = <<"copied">>]
    BY <1>15, CopyDoes DEF At
  <2>2. f = job[t].target /\ job[t].target = job[t].lock
    BY <1>0, <1>o, <2>1 DEF Locals, Mid, Running
  <2> QED
    BY <2>1, <2>2 DEF Locked, MidLock, Mid
<1>16. ASSUME NEW t \in Tasks, OpenCopy(t) PROVE Goal
  BY <1>16, <1>0, OpenCopyDoes
<1>17. ASSUME NEW t \in Tasks, GiveBackFirst(t) PROVE Goal
  BY <1>17, <1>0, GiveBackFirstDoes
<1>18. ASSUME NEW t \in Tasks, FirstGiven(t) PROVE Goal
  BY <1>18, <1>0, FirstGivenDoes
<1>19. ASSUME NEW t \in Tasks, Teardown(t) PROVE Goal
  BY <1>19, <1>0, TeardownDoes
<1>20. ASSUME NEW t \in Tasks, TornDown(t) PROVE Goal
  BY <1>20, <1>0, TornDownDoes
<1>21. ASSUME NEW t \in Tasks, SecondGiven(t) PROVE Goal
  BY <1>21, <1>0, SecondGivenDoes
<1>22. ASSUME NEW t \in Tasks, Install(t) PROVE Goal
  BY <1>22, <1>0, InstallDoes
<1>23. ASSUME NEW t \in Tasks, Reload(t) PROVE Goal
  BY <1>23, <1>0, ReloadDoes
<1>24. ASSUME NEW t \in Tasks, BuildFails(t) PROVE Goal
  BY <1>24, <1>0, BuildFailsDoes
<1>25. ASSUME NEW t \in Tasks, Restore(t) PROVE Goal
  BY <1>25, <1>0, RestoreDoes
<1>26. ASSUME NEW t \in Tasks, Kept(t) PROVE Goal
  BY <1>26, <1>0, KeptDoes
<1>27. ASSUME NEW t \in Tasks, Rebind(t) PROVE Goal
  <2> DEFINE g == harness[inst].file
  <2>1. PICK level \in IF job[t].kind = "reload" \/ harness[inst].ro THEN {<<>>} ELSE {<<>>, <<"level">>} :
          text' = [text EXCEPT ![g] = text[g] \o level]
    BY <1>27, RebindMoves
  <2>2. t # None /\ lifecycle = t /\ g \in Files /\ text[g] \in Texts
    BY <1>o, <1>27, RunningIs DEF Rebind, Locked
  <2>3. text[g] \o <<>> = text[g]
    BY <2>2 DEF Texts
  <2>4. f = g /\ level # <<>>
    BY <1>0, <1>o, <2>1, <2>2, <2>3
  <2>5. ~harness[inst].ro
    BY <2>1, <2>4
  <2> QED
    BY <1>q, <2>2, <2>4, <2>5 DEF Locked
<1>28. ASSUME NEW t \in Tasks, Raises(t) PROVE Goal
  BY <1>28, <1>0, RaisesDoes
<1>29. ASSUME NEW t \in Tasks, RestoreFails(t) PROVE Goal
  BY <1>29, <1>0, RestoreFailsDoes
<1>30. ASSUME NEW t \in Tasks, Discard(t) PROVE Goal
  <2>1. /\ t # None /\ lifecycle = t
        /\ text' = [g \in Files |-> IF g = job[t].made /\ harness[inst].file # g THEN <<>> ELSE text[g]]
    BY <1>30, DiscardDoes DEF At
  <2>2. f = job[t].made /\ f # None
    BY <1>0, <1>o, <2>1
  <2>3. job[t].lock = f \/ f \in scope.unusable
    BY <2>1, <2>2 DEF Locals, Mid
  <2> QED
    BY <2>1, <2>2, <2>3 DEF Locked, MidLock, Mid
<1>31. ASSUME NEW t \in Tasks, Drop(t) PROVE Goal
  BY <1>31, <1>0 DEF Drop, files
<1>32. ASSUME NEW t \in Tasks, CancelWaiting(t) PROVE Goal
  BY <1>32, <1>0 DEF CancelWaiting, files
<1>33. ASSUME NEW t \in Tasks, Cancel(t) PROVE Goal
  BY <1>33, <1>0, CancelDoes
<1>34. ASSUME NEW t \in Tasks, CancelStops(t) PROVE Goal
  BY <1>34, <1>0, CancelStopsDoes
<1>35. ASSUME Quit PROVE Goal
  BY <1>35, <1>0 DEF Quit, files
<1>36. ASSUME QuitDispose PROVE Goal
  BY <1>36, <1>0 DEF QuitDispose, files
<1>37. ASSUME QuitReleases PROVE Goal
  BY <1>37, <1>0 DEF QuitReleases, files
<1>38. ASSUME NEW h \in {inst, surf}, NEW l \in Lines, Prompt(h, l) PROVE Goal
  BY <1>38, <1>0 DEF Prompt, files
<1>39. ASSUME NEW h \in {inst, surf}, NEW l \in Lines, Steer(h, l) PROVE Goal
  BY <1>39, <1>0 DEF Steer, files
<1>40. ASSUME Esc PROVE Goal
  BY <1>40, <1>0 DEF Esc, files
<1>41. ASSUME NEW h \in Harnesses, TurnEnds(h) PROVE Goal
  BY <1>41, <1>0 DEF TurnEnds, files
<1>42. ASSUME NEW h \in Harnesses, NEW l \in Lines, Commit(h, l) PROVE Goal
  <2> DEFINE g == harness[inst].file
  <2>1. PICK line \in IF harness[inst].ro THEN {<<>>} ELSE {<<l>>} : text' = [text EXCEPT ![g] = text[g] \o line]
    BY <1>42, CommitMoves
  <2>2. g \in Files /\ text[g] \in Texts /\ quit # "gone"
    BY <1>o, <1>42, CommitMoves DEF Locked, Torn
  <2>3. text[g] \o <<>> = text[g]
    BY <2>2 DEF Texts
  <2>4. f = g /\ line # <<>>
    BY <1>0, <1>o, <2>1, <2>2, <2>3
  <2>5. ~harness[inst].ro
    BY <2>1, <2>4
  <2> QED
    BY <2>2, <2>4, <2>5 DEF Locked
<1>43. ASSUME NEW g \in Files, OtherTakes(g) PROVE Goal
  BY <1>43, <1>0 DEF OtherTakes, files
<1>44. ASSUME NEW g \in Files, OtherWrites(g) PROVE Goal
  <2>1. text' = [text EXCEPT ![g] = Append(text[g], "other")] /\ text[g] \in Texts
    BY <1>o, <1>44 DEF OtherWrites
  <2>2. f = g
    BY <1>0, <1>o, <2>1
  <2>3. text'[f] = Append(text[f], "other") /\ text[f] \in Seq(Lines \cup {"first", "level", "copied", "other"})
    BY <1>0, <1>o, <2>1, <2>2 DEF Texts
  <2>4. text'[f] # <<>> /\ text'[f][Len(text'[f])] = "other"
    BY <2>3
  <2> QED
    BY <1>0, <2>4
<1>45. ASSUME NEW g \in Files, OtherLeaves(g) PROVE Goal
  BY <1>45, <1>0 DEF OtherLeaves, files
<1> QED
  BY <1>1, <1>2, <1>3, <1>4, <1>5, <1>6, <1>7, <1>8, <1>9, <1>10, <1>11, <1>12, <1>13, <1>14, <1>15, <1>16,
     <1>17, <1>18, <1>19, <1>20, <1>21, <1>22, <1>23, <1>24, <1>25, <1>26, <1>27, <1>28, <1>29, <1>30, <1>31,
     <1>32, <1>33, <1>34, <1>35, <1>36, <1>37, <1>38, <1>39, <1>40, <1>41, <1>42, <1>43, <1>44, <1>45 DEF Next,
     Swap, Interrupt, Send, Turn, Other

\* This process changes only a file whose lock it holds, at every stage of every transition; a file it has just
\* published, and one whose sidecar cannot be used, aside.
THEOREM OnlyOwnerWritesHolds == Spec => OnlyOwnerWrites
<1> DEFINE Step == \A f \in Files :
                     /\ text'[f] # text[f] /\ f \notin named' \ named
                     /\ text'[f] # <<>> => text'[f][Len(text'[f])] # "other"
                     => owner[f] = "us" \/ f \in scope.unusable
<1>1. ASSUME IInv, [Next]_vars PROVE [Step]_vars
  BY <1>1, WritesOwned DEF IInv
<1>2. OnlyOwnerWrites <=> [][Step]_vars
  BY DEF OnlyOwnerWrites
<1> HIDE DEF Step
<1> QED
  BY <1>1, <1>2, IInvHolds, PTL DEF Spec

\* A turn met by an Esc is cut by the teardown that waits for it; the Esc came late (Warned).
LEMMA EscOverruled ==
  ASSUME Typed, Counts, Alone, Locals, Left, Torn, Warned, NEW h \in Harnesses, harness[h].turn = "esc", harness'[h].turn = "cut",
         quit' = quit, Next
  PROVE  harness[h].late
<1>0. h \in Harnesses /\ harness[h].turn = "esc" /\ harness'[h].turn = "cut" /\ quit' = quit
  OBVIOUS
<1>a. harness \in [Harnesses -> Sessions] /\ inst \in Harnesses
  BY DEF Typed, TypeOK
<1>1. ASSUME NEW t \in Tasks, NEW k \in Kinds, NEW p \in Tasks \cup {None}, Request(t, k, p) PROVE harness[h].late
  BY <1>1, <1>0 DEF Request
<1>2. ASSUME NEW t \in Tasks, Start(t) PROVE harness[h].late
  BY <1>2, <1>0 DEF Start
<1>3. ASSUME NEW t \in Tasks, Settle(t) PROVE harness[h].late
  BY <1>3, <1>0, SettleDoes
<1>4. ASSUME NEW t \in Tasks, SettleReload(t) PROVE harness[h].late
  BY <1>4, <1>0, SettleReloadDoes
<1>5. ASSUME NEW t \in Tasks, NEW f \in Files, TakeTarget(t, f) PROVE harness[h].late
  BY <1>5, <1>0, TakeTargetDoes
<1>6. ASSUME NEW t \in Tasks, NEW f \in Files, TakeDestination(t, f) PROVE harness[h].late
  BY <1>6, <1>0, TakeDestinationDoes
<1>7. ASSUME NEW t \in Tasks, OpenTarget(t) PROVE harness[h].late
  BY <1>7, <1>0, OpenTargetDoes
<1>8. ASSUME NEW t \in Tasks, HookCancels(t) PROVE harness[h].late
  BY <1>8, <1>0, HookCancelsDoes
<1>9. ASSUME NEW t \in Tasks, Create(t) PROVE harness[h].late
  BY <1>9, <1>0, CreateDoes
<1>10. ASSUME NEW t \in Tasks, LockNew(t) PROVE harness[h].late
  BY <1>10, <1>0, LockNewDoes
<1>11. ASSUME NEW t \in Tasks, SwitchUncontended(t) PROVE harness[h].late
  BY <1>11, <1>0, SwitchUncontendedDoes
<1>12. ASSUME NEW t \in Tasks, AnswerReadOnly(t) PROVE harness[h].late
  BY <1>12, <1>0, AnswerReadOnlyDoes
<1>13. ASSUME NEW t \in Tasks, AnswerFork(t) PROVE harness[h].late
  BY <1>13, <1>0, AnswerForkDoes
<1>14. ASSUME NEW t \in Tasks, AnswerCancel(t) PROVE harness[h].late
  BY <1>14, <1>0, AnswerCancelDoes
<1>15. ASSUME NEW t \in Tasks, Copy(t) PROVE harness[h].late
  BY <1>15, <1>0, CopyDoes
<1>16. ASSUME NEW t \in Tasks, OpenCopy(t) PROVE harness[h].late
  BY <1>16, <1>0, OpenCopyDoes
<1>17. ASSUME NEW t \in Tasks, GiveBackFirst(t) PROVE harness[h].late
  <2>1. inst' = inst /\ (harness' = harness \/ harness' = Emptied(inst))
    BY <1>17 DEF GiveBackFirst, runtime
  <2> QED
    BY <1>0, <2>1, EmptiedMoves DEF Moved
<1>18. ASSUME NEW t \in Tasks, FirstGiven(t) PROVE harness[h].late
  BY <1>18, <1>0, FirstGivenDoes
<1>19. ASSUME NEW t \in Tasks, Teardown(t) PROVE harness[h].late
  <2>1. At(t, {"shut"}) /\ harness' = Disposed(inst) /\ inst' = inst
    BY <1>19, TeardownDoes
  <2>2. h = inst
    BY <1>0, <2>1, DisposedMoves DEF Moved
  <2> QED
    BY <1>0, <2>1, <2>2 DEF Warned, At
<1>20. ASSUME NEW t \in Tasks, TornDown(t) PROVE harness[h].late
  <2>1. inst' = inst /\ (harness' = harness \/ harness' = Emptied(inst))
    BY <1>20 DEF TornDown, runtime
  <2> QED
    BY <1>0, <2>1, EmptiedMoves DEF Moved
<1>21. ASSUME NEW t \in Tasks, SecondGiven(t) PROVE harness[h].late
  BY <1>21, <1>0, SecondGivenDoes
<1>22. ASSUME NEW t \in Tasks, Install(t) PROVE harness[h].late
  BY ZenonT(60), <1>a, <1>0, <1>22, InstallMoves DEF Blank
<1>23. ASSUME NEW t \in Tasks, Reload(t) PROVE harness[h].late
  <2>1. pc[t] \in {"build", "restore"} /\ Rebuild(t, "after")
    BY <1>23 DEF Reload
  <2> QED
    <3>1. /\ inst + 1 \in Harnesses
          /\ \A k \in Harnesses : k \notin {inst, inst + 1} => harness'[k] = harness[k]
          /\ harness'[inst] = [harness[inst] EXCEPT !.queue = {}, !.next = {}]
          /\ harness'[inst + 1] = [Blank EXCEPT !.file = harness[inst].file, !.knows = harness[inst].knows,
                                               !.ro = harness[inst].ro, !.queue = harness[inst].queue,
                                               !.next = harness[inst].next]
      BY <2>1, RebuildMoves
    <3>2. harness'[inst + 1].turn = "idle"
      BY <3>1 DEF Blank
    <3>3. harness[inst] \in Sessions /\ inst \in Harnesses
      BY <1>a
    <3>4. harness'[inst].turn = harness[inst].turn
      BY <3>1, <3>3 DEF Sessions
    <3> QED
      BY <1>0, <3>1, <3>2, <3>4
<1>24. ASSUME NEW t \in Tasks, BuildFails(t) PROVE harness[h].late
  BY <1>24, <1>0, BuildFailsDoes
<1>25. ASSUME NEW t \in Tasks, Restore(t) PROVE harness[h].late
  <2>1. pc[t] \in {"build", "restore"} /\ Rebuild(t, "resettle")
    BY <1>25 DEF Restore
  <2> QED
    <3>1. /\ inst + 1 \in Harnesses
          /\ \A k \in Harnesses : k \notin {inst, inst + 1} => harness'[k] = harness[k]
          /\ harness'[inst] = [harness[inst] EXCEPT !.queue = {}, !.next = {}]
          /\ harness'[inst + 1] = [Blank EXCEPT !.file = harness[inst].file, !.knows = harness[inst].knows,
                                               !.ro = harness[inst].ro, !.queue = harness[inst].queue,
                                               !.next = harness[inst].next]
      BY <2>1, RebuildMoves
    <3>2. harness'[inst + 1].turn = "idle"
      BY <3>1 DEF Blank
    <3>3. harness[inst] \in Sessions /\ inst \in Harnesses
      BY <1>a
    <3>4. harness'[inst].turn = harness[inst].turn
      BY <3>1, <3>3 DEF Sessions
    <3> QED
      BY <1>0, <3>1, <3>2, <3>4
<1>26. ASSUME NEW t \in Tasks, Kept(t) PROVE harness[h].late
  BY <1>26, <1>0, KeptDoes
<1>27. ASSUME NEW t \in Tasks, Rebind(t) PROVE harness[h].late
  BY <1>0, <1>27, RebindMoves DEF Moved
<1>28. ASSUME NEW t \in Tasks, Raises(t) PROVE harness[h].late
  BY <1>28, <1>0, RaisesDoes
<1>29. ASSUME NEW t \in Tasks, RestoreFails(t) PROVE harness[h].late
  <2>1. \E S : Stops(S)
    BY <1>29, RestoreFailsDoes
  <2> QED
    BY <1>0, <2>1, StopMoves
<1>30. ASSUME NEW t \in Tasks, Discard(t) PROVE harness[h].late
  BY <1>30, <1>0, DiscardDoes
<1>31. ASSUME NEW t \in Tasks, Drop(t) PROVE harness[h].late
  BY <1>31, <1>0 DEF Drop
<1>32. ASSUME NEW t \in Tasks, CancelWaiting(t) PROVE harness[h].late
  BY <1>32, <1>0 DEF CancelWaiting
<1>33. ASSUME NEW t \in Tasks, Cancel(t) PROVE harness[h].late
  BY <1>33, <1>0, CancelDoes
<1>34. ASSUME NEW t \in Tasks, CancelStops(t) PROVE harness[h].late
  <2>1. \E S : Stops(S)
    BY <1>34, CancelStopsDoes
  <2> QED
    BY <1>0, <2>1, StopMoves
<1>35. ASSUME Quit PROVE harness[h].late
  BY <1>35, <1>0 DEF Quit
<1>36. ASSUME QuitDispose PROVE harness[h].late
  BY <1>36, <1>0 DEF QuitDispose
<1>37. ASSUME QuitReleases PROVE harness[h].late
  BY <1>37, <1>0 DEF QuitReleases
<1>38. ASSUME NEW g \in {inst, surf}, NEW l \in Lines, Prompt(g, l) PROVE harness[h].late
  BY <1>38, <1>0, PromptMoves DEF Moved
<1>39. ASSUME NEW g \in {inst, surf}, NEW l \in Lines, Steer(g, l) PROVE harness[h].late
  BY <1>39, <1>0, SteerMoves DEF Moved
<1>40. ASSUME Esc PROVE harness[h].late
  BY <1>40, <1>0, EscMoves DEF Moved
<1>41. ASSUME NEW g \in Harnesses, TurnEnds(g) PROVE harness[h].late
  BY <1>41, <1>0, TurnMoves DEF Moved
<1>42. ASSUME NEW g \in Harnesses, NEW l \in Lines, Commit(g, l) PROVE harness[h].late
  BY <1>42, <1>0, CommitMoves DEF Moved
<1>43. ASSUME NEW f \in Files, OtherTakes(f) PROVE harness[h].late
  BY <1>43, <1>0 DEF OtherTakes
<1>44. ASSUME NEW f \in Files, OtherWrites(f) PROVE harness[h].late
  BY <1>44, <1>0 DEF OtherWrites
<1>45. ASSUME NEW f \in Files, OtherLeaves(f) PROVE harness[h].late
  BY <1>45, <1>0 DEF OtherLeaves
<1> QED
  BY <1>1, <1>2, <1>3, <1>4, <1>5, <1>6, <1>7, <1>8, <1>9, <1>10, <1>11, <1>12, <1>13, <1>14, <1>15, <1>16,
     <1>17, <1>18, <1>19, <1>20, <1>21, <1>22, <1>23, <1>24, <1>25, <1>26, <1>27, <1>28, <1>29, <1>30, <1>31,
     <1>32, <1>33, <1>34, <1>35, <1>36, <1>37, <1>38, <1>39, <1>40, <1>41, <1>42, <1>43, <1>44, <1>45 DEF Next,
     Swap, Interrupt, Send, Turn, Other

\* The teardown cuts a turn the user sent an Esc to only where the Esc came after the transition had waited
\* for it.
THEOREM EscHonouredHolds == Spec => EscHonoured
<1> DEFINE Step == \A h \in Harnesses :
                     harness[h].turn = "esc" /\ harness'[h].turn = "cut" /\ quit' = quit => harness[h].late
<1>1. ASSUME IInv, [Next]_vars PROVE [Step]_vars
  BY <1>1, EscOverruled DEF IInv
<1>2. EscHonoured <=> [][Step]_vars
  BY DEF EscHonoured
<1> HIDE DEF Step
<1> QED
  BY <1>1, <1>2, IInvHolds, PTL DEF Spec
=============================================================================
