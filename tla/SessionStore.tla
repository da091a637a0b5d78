---------------------------- MODULE SessionStore ----------------------------
(***************************************************************************)
(* A session file and the process that has it open                         *)
(* (session/jsonl_storage.py, session/session.py): appends that fail       *)
(* part-way, a process that dies in one, the healing newline, the loader   *)
(* that skips and prunes, and the calls of Session made of several appends *)
(* -- move_to() with a summary, withdraw_tail().                           *)
(*                                                                         *)
(* An append is one write of one line under the storage's asyncio.Lock;    *)
(* the entry in it was built, its parent read, before the lock is asked    *)
(* for.  One action runs to the next suspension; Awaits says whether the   *)
(* FileSystem suspends at all (LocalFileSystem does not).  The file is its *)
(* lines after the header; a line no parser takes is not whole.            *)
(***************************************************************************)
EXTENDS Naturals, Sequences, FiniteSets, SequencesExt

CONSTANTS Writers,     \* tasks that use the session
          MaxEntries,  \* bound: entries a history builds at most
          Scopes       \* the histories checked, see `scope'

ASSUME StoreAssumption ==
  /\ IsFiniteSet(Writers) /\ MaxEntries \in Nat
  /\ Scopes \subseteq [tasks : SUBSET Writers, awaits : BOOLEAN, entries : 0..MaxEntries,
                       faults : Nat, damage : Nat]

Ids == 1..MaxEntries
Root == 0
Entry == [id : Ids, parent : Ids \cup {Root}, target : Ids \cup {Root}]

VARIABLES
  scope,   \* the tasks, the FileSystem and the bounds of this history
  file,    \* the lines of the file, oldest first
  ends,    \* whether the file ends with a newline
  up,      \* whether a process has it open
  entries, \* `_entries' of that process, or of the one that died
  leaf,    \* its `_current_leaf_id'
  heals,   \* its `_needs_newline'
  lock,    \* the tasks at the storage's lock: its holder, then the waiters in order
  job,     \* the appends each task's call still has to make
  line,    \* the entry each task at the lock is to write
  built,   \* how many entries were built
  origin,  \* history: the entry whose content each one carries
  away,    \* history: contents withdrawn from the path
  faults, damage

disk == <<file, ends>>
memory == <<entries, leaf, heals>>
bounds == <<faults, damage>>
vars == <<scope, disk, up, memory, lock, job, line, built, origin, away, bounds>>

Awaits == scope.awaits       \* the FileSystem suspends its caller
MaxFaults == scope.faults    \* bound: writes that fail, and crashes
MaxDamage == scope.damage    \* bound: lines an editor or another version makes unreadable

NoEntry == [id |-> 0, parent |-> Root, target |-> Root]
NoJob == [todo |-> <<>>, takes |-> {}, want |-> <<>>]
\* One append of a call: a leaf entry to `to', or an entry with the content of `of' (Root: a new
\* one), under `to' when pinned and else under the leaf as it is.
Call == [moves : BOOLEAN, pinned : BOOLEAN, to : Ids \cup {Root}, of : Ids \cup {Root}]

Known(es) == {es[i].id : i \in DOMAIN es}

TypeOK ==
  /\ scope \in Scopes
  /\ file \in Seq([whole : BOOLEAN, entry : Entry]) /\ ends \in BOOLEAN
  /\ up \in BOOLEAN
  /\ entries \in Seq(Entry) /\ leaf \in Ids \cup {Root} /\ heals \in BOOLEAN
  /\ lock \in Seq(Writers) /\ IsInjective(lock)
  /\ job \in [Writers -> [todo : Seq(Call), takes : SUBSET Ids, want : Seq(Ids)]]
  /\ line \in [Writers -> Entry \cup {NoEntry}]
  /\ \A w \in Writers : w \in ToSet(lock) <=> job[w].todo # <<>>
  /\ built \in 0..MaxEntries /\ origin \in [Ids -> Ids] /\ away \subseteq Ids
  /\ faults \in 0..MaxFaults /\ damage \in 0..MaxDamage

Init ==
  /\ scope \in Scopes
  /\ file = <<>> /\ ends = TRUE
  /\ up = TRUE
  /\ entries = <<>> /\ leaf = Root /\ heals = FALSE
  /\ lock = <<>> /\ job = [w \in Writers |-> NoJob] /\ line = [w \in Writers |-> NoEntry]
  /\ built = 0 /\ origin = [i \in Ids |-> i] /\ away = {}
  /\ faults = 0 /\ damage = 0

-----------------------------------------------------------------------------
\* s without the members of S.  This, Readable and Kept are functions of the prefixes: the proofs go up
\* along them.
Without(s, S) ==
  LET rest[i \in 0..Len(s)] == IF i = 0 THEN <<>>
                               ELSE IF s[i] \in S THEN rest[i - 1] ELSE Append(rest[i - 1], s[i])
  IN rest[Len(s)]

\* `get_path_to_root', as ids from the root on; an entry is built after its parent.
Path(es, l) ==
  LET at(i) == es[CHOOSE k \in DOMAIN es : es[k].id = i]
      up_to[i \in 0..MaxEntries] == IF i \in Known(es) THEN Append(up_to[at(i).parent], i) ELSE <<>>
  IN up_to[l]
Contents(p) == [i \in DOMAIN p |-> origin[p[i]]]

\* The entries of f that parse; with a line skipped, without those that hang from what is missing.
Readable(f) ==
  LET read[i \in 0..Len(f)] == IF i = 0 THEN <<>>
                               ELSE IF f[i].whole THEN Append(read[i - 1], f[i].entry) ELSE read[i - 1]
  IN read[Len(f)]
Skips(f) == \E i \in DOMAIN f : ~f[i].whole
\* Mutant: nothing is pruned.
Kept_All(es) == es
Kept(es) ==
  LET kept[i \in 0..Len(es)] == IF i = 0 THEN <<>>
                                ELSE IF es[i].parent \in Known(kept[i - 1]) \cup {Root}
                                THEN Append(kept[i - 1], es[i]) ELSE kept[i - 1]
  IN kept[Len(es)]
LoadedEntries(f) == IF Skips(f) THEN Kept(Readable(f)) ELSE Readable(f)

\* The leaf is where the last entry put it; with a line skipped, the last one whose target is there.
LoadedLeaf(f) ==
  LET es == LoadedEntries(f)
      fit == IF Skips(f) THEN Without(es, {e \in ToSet(es) : e.target \notin Known(es) \cup {Root}}) ELSE es
  IN IF fit = <<>> THEN Root ELSE Last(fit).target

\* What is on disk once a write of e got as far as `cut': nothing, the healing newline, part of the
\* line, its text, all of it.  Text on a line that was not ended fuses with what is there.
Cuts == {"nothing", "newline", "part", "text", "line"}
PutFile(e, cut) ==
  IF cut \in {"nothing", "newline"} THEN file
  ELSE IF ends \/ heals THEN Append(file, [whole |-> cut # "part", entry |-> e])
  ELSE [file EXCEPT ![Len(file)].whole = FALSE]
PutEnds(cut) == CASE cut = "nothing" -> ends
                  [] cut = "newline" -> heals \/ ends
                  [] OTHER -> cut = "line"
Put(e, cut) == file' = PutFile(e, cut) /\ ends' = PutEnds(cut)

-----------------------------------------------------------------------------
ParentOf(c, l, es) == IF c.pinned THEN c.to ELSE l

\* Task w builds the entry of its next append, under leaf l, and asks for the lock.
Ask(w, c, l, q) ==
  /\ built' = built + 1
  /\ line' = [line EXCEPT ![w] = [id |-> built + 1, parent |-> ParentOf(c, l, entries),
                                  target |-> IF c.moves THEN c.to ELSE built + 1]]
  /\ origin' = [origin EXCEPT ![built + 1] = IF c.of = Root THEN built + 1 ELSE origin[c.of]]
  /\ lock' = Append(q, w)

\* How many entries there are, or will be when every call has made its appends.
Later == {p \in Writers \X (2..MaxEntries) : p[2] <= Len(job[p[1]].todo)}
Owed == built + Cardinality(Later)

\* Session's calls.  Without an awaiting FileSystem nothing runs beside one.
Begin(w, calls, takes, want) ==
  /\ up /\ job[w].todo = <<>>
  /\ Awaits \/ lock = <<>>
  /\ Owed + Len(calls) <= scope.entries
  /\ job' = [job EXCEPT ![w] = [todo |-> calls, takes |-> takes, want |-> want]]
  /\ Ask(w, Head(calls), leaf, lock)
  /\ UNCHANGED <<disk, up, memory, bounds>>

New == [moves |-> FALSE, pinned |-> FALSE, to |-> Root, of |-> Root]
MoveTo(t) == [New EXCEPT !.moves = TRUE, !.to = t]

\* append_message() and the other ones of one entry.
AppendEntry(w) == /\ Begin(w, <<New>>, {}, <<>>)
                  /\ UNCHANGED away

\* move_to(): the leaf, then a summary of the branch left, under the entry it goes to.
MoveLeaf(w) ==
  \E t \in Known(entries) \cup {Root} : \E summary \in BOOLEAN :
    /\ Begin(w, IF summary THEN <<MoveTo(t), [New EXCEPT !.pinned = TRUE, !.to = t]>> ELSE <<MoveTo(t)>>,
             {}, <<>>)
    /\ away' = away \ ToSet(Contents(Path(entries, t)))

\* withdraw_tail(): back to t, and what followed it on the path again but for the withdrawn.
\* Mutant: what survives comes back last one first.
Survivors_Reversed(tail, gone) == Reverse(Without(tail, gone))
Survivors(tail, gone) == Without(tail, gone)
WithdrawTail(w) ==
  LET path == Path(entries, leaf) IN
  \E n \in 0..Len(path) : \E gone \in SUBSET ToSet(SubSeq(path, n + 1, Len(path))) :
    LET t == IF n = 0 THEN Root ELSE path[n]
        back == Survivors(SubSeq(path, n + 1, Len(path)), gone)
    IN /\ gone # {}
       /\ Begin(w, <<MoveTo(t)>> \o [i \in DOMAIN back |-> [New EXCEPT !.of = back[i]]],
                {origin[i] : i \in gone}, Contents(Without(path, gone)))
       /\ UNCHANGED away

-----------------------------------------------------------------------------
Holds(w) == up /\ lock # <<>> /\ Head(lock) = w

\* The write returned: memory follows, and the call goes on to its next append, or returns.
Writes(w) ==
  LET e == line[w] IN
  /\ Holds(w)
  /\ Put(e, "line")
  /\ entries' = Append(entries, e) /\ leaf' = e.target /\ heals' = FALSE
  /\ away' = IF Head(job[w].todo).moves THEN away \cup job[w].takes ELSE away
  /\ IF Len(job[w].todo) = 1
     THEN /\ job' = [job EXCEPT ![w] = NoJob] /\ line' = [line EXCEPT ![w] = NoEntry]
          /\ lock' = Tail(lock)
          /\ UNCHANGED <<built, origin>>
     ELSE /\ job' = [job EXCEPT ![w].todo = Tail(@)]
          /\ Ask(w, job[w].todo[2], e.target, Tail(lock))
  /\ UNCHANGED <<up, bounds>>

\* Mutant: the lock is not released when the write raises.
Leaves_Locked(w, q) == /\ job' = [job EXCEPT ![w] = NoJob] /\ line' = [line EXCEPT ![w] = NoEntry]
                       /\ UNCHANGED <<lock, up, entries, leaf, built, origin, away, damage>>
Leaves(w, q) == /\ job' = [job EXCEPT ![w] = NoJob] /\ line' = [line EXCEPT ![w] = NoEntry]
                /\ lock' = q
                /\ UNCHANGED <<up, entries, leaf, built, origin, away, damage>>

Rearmed == TRUE

\* The write raises, or is cancelled, wherever it got: memory keeps what it had, and the next line
\* starts on a line of its own.
Fails(w) ==
  /\ Holds(w) /\ faults < MaxFaults /\ faults' = faults + 1
  /\ \E cut \in Cuts : Put(line[w], cut)
  /\ heals' = Rearmed
  /\ Leaves(w, Tail(lock))

\* The entry cannot be encoded: nothing is written.
Refuses(w) == /\ Holds(w) /\ faults < MaxFaults /\ faults' = faults + 1
              /\ UNCHANGED <<disk, heals>>
              /\ Leaves(w, Tail(lock))

\* A task is cancelled while it waits for the lock.
GivesUp(w) == /\ up /\ faults < MaxFaults /\ faults' = faults + 1
              /\ w \in ToSet(lock) /\ ~Holds(w)
              /\ UNCHANGED <<disk, heals>>
              /\ Leaves(w, Without(lock, {w}))

-----------------------------------------------------------------------------
\* The process dies, in a write or between two.
Crash ==
  /\ up /\ faults < MaxFaults /\ faults' = faults + 1
  /\ up' = FALSE
  /\ IF lock = <<>> THEN UNCHANGED disk ELSE \E cut \in Cuts : Put(line[Head(lock)], cut)
  /\ lock' = <<>> /\ job' = [w \in Writers |-> NoJob] /\ line' = [w \in Writers |-> NoEntry]
  /\ UNCHANGED <<memory, built, origin, away, damage>>

\* Mutant: the file's last byte is read only of a file that had to be repaired.
HealsAtOpen_Recovered == ~ends /\ Skips(file)
HealsAtOpen == ~ends

Reopen ==
  /\ ~up /\ up' = TRUE
  /\ entries' = LoadedEntries(file)
  /\ leaf' = LoadedLeaf(file)
  /\ heals' = HealsAtOpen
  /\ UNCHANGED <<disk, lock, job, line, built, origin, away, bounds>>

\* Between two processes a line stops being readable.
Damage ==
  /\ ~up /\ damage < MaxDamage /\ damage' = damage + 1
  /\ \E i \in DOMAIN file : file[i].whole /\ file' = [file EXCEPT ![i].whole = FALSE]
  /\ UNCHANGED <<ends, up, memory, lock, job, line, built, origin, away, faults>>

Step == \/ Crash \/ Reopen \/ Damage
        \/ \E w \in scope.tasks : \/ AppendEntry(w) \/ MoveLeaf(w) \/ WithdrawTail(w)
                                  \/ Writes(w) \/ Fails(w) \/ Refuses(w) \/ GivesUp(w)

Next == Step /\ UNCHANGED scope

Spec == Init /\ [][Next]_vars

-----------------------------------------------------------------------------
\* The file implements what a session promises, as long as no line is damaged from outside.
Tree == INSTANCE SessionTree WITH
  tree <- ToSet(entries),
  doubt <- ToSet(Readable(file)) \ ToSet(entries)
ImplementsTree == Tree!Init /\ [][damage' = 0 => Tree!Next]_(Tree!vars)

\* What withdraw_tail() took off the path is off it.
WithdrawnOffPath == up => away \cap ToSet(Contents(Path(entries, leaf))) = {}

\* Whatever was lost of the file, what an open session holds hangs together: parents, the leaf and the
\* targets on the way to it are there (`get_leaf_id', `get_path_to_root').  What withdraw_tail() took
\* off the path stays off it until somebody navigates back, a crash or a failed write after the leaf
\* moved included, where the FileSystem does not suspend, as LocalFileSystem does not (#654, ADR-0286).
PathHolds ==
  up => /\ leaf \in Known(entries) \cup {Root}
        /\ \A e \in ToSet(entries) : e.parent \in Known(entries) \cup {Root}
        /\ ~Awaits /\ damage = 0 => WithdrawnOffPath

\* There, when it returns, the path is what it was without the withdrawn entries, in the same order.
WithdrawKeeps ==
  [][\A w \in Writers :
       ~Awaits /\ Len(job[w].todo) = 1 /\ job[w].takes # {} /\ Len(entries') > Len(entries) /\ job'[w].todo = <<>>
         => Contents(Path(entries, leaf))' = job[w].want]_vars
=============================================================================
