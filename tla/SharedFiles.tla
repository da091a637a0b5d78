----------------------------- MODULE SharedFiles -----------------------------
(***************************************************************************)
(* A JSON file several aelix processes read, change and replace:           *)
(* auth.json (oauth/auth_storage.py) and settings.json                     *)
(* (settings/storage.py and the write queue of settings_manager.py).       *)
(*                                                                         *)
(* Both rename a new file over the old one, so a name and the inode a      *)
(* flock is on are two things here.  auth.json has the flock alone and one *)
(* name for every process's temporary file; settings.json has a sidecar    *)
(* lock first, taken with a deadline in a worker thread, and a temporary   *)
(* file nobody else can name.  A history has calls on one of the two.      *)
(* One action runs to the next point another process, thread or task can   *)
(* come in.                                                                *)
(***************************************************************************)
EXTENDS Naturals, Sequences, FiniteSets, SequencesExt

CONSTANTS Calls,     \* the calls of a history
          Procs,     \* the processes they run in
          Keys,      \* providers, or settings
          Old,       \* what a key has at first: for a credential, an expired one
          None,      \* no value, no call
          Scopes     \* the histories checked, see `scope'

Credential == {"set", "refresh"}
Setting == {"setter", "edit"}

ASSUME HistoryAssumption ==
  /\ {Old, None} \cap Calls = {}
  /\ \A h \in Scopes :
       /\ DOMAIN h.does \subseteq Calls
       /\ \A c \in DOMAIN h.does : h.does[c] \in [proc : Procs, op : Credential \cup Setting, key : Keys]
       /\ {h.does[c].op : c \in DOMAIN h.does} \in (SUBSET Credential) \cup (SUBSET Setting)
       /\ h.there \in BOOLEAN /\ h.faults \in Nat /\ h.reloads \in Nat

VARIABLES
  scope,   \* the calls, whether there is a file, the bounds
  node,    \* the inodes there have been: what each one holds
  path,    \* the inode the file's name leads to, 0 for none
  tmp,     \* the one `auth.json.tmp' leads to, 0 for none
  flock,   \* the flocks held: <<inode, call>>
  sidecar, \* the call with the sidecar lock
  pc, fd, out, seen,  \* a call's place, its locked and its temporary inode, what it read
  lock,    \* a process's asyncio.Lock: holder, then waiters
  loaded,  \* AuthStorage's `_loaded'
  loading, \* calls in `load()' for their `_ensure_loaded()'
  memory,  \* AuthStorage's `_data', SettingsManager's settings of the scope
  marked,  \* SettingsManager's `_modified_fields'
  snap,    \* a setter's snapshot: the values its write is to have
  left,    \* edits whose caller was cancelled with their thread running
  wrote,   \* history: the call that last wrote a key
  rotated, \* history: refreshes the provider answered, but for those whose write failed
  failed,  \* history: calls that raised
  faults, reloads

disk == <<node, path, tmp>>
locks == <<flock, sidecar, lock>>
manager == <<loaded, loading, memory, marked, snap>>
history == <<wrote, rotated, failed>>
bounds == <<faults, reloads>>
vars == <<scope, disk, locks, pc, fd, out, seen, manager, left, history, bounds>>

Mine == DOMAIN scope.does
Op(c) == scope.does[c].op
Key(c) == scope.does[c].key
Proc(c) == scope.does[c].proc
Of(p) == {c \in Mine : Proc(c) = p}

Content == [Keys -> {Old, None} \cup Calls]
Empty == [k \in Keys |-> None]       \* no file, an empty one, one cut short: no entries
Disk == IF path = 0 THEN Empty ELSE node[path]

Over == {"done", "dead"}
Threaded == {"sidecar", "inode", "write", "told", "broke"}

TypeOK ==
  /\ node \in Seq(Content) /\ {path, tmp} \subseteq 0..Len(node)
  /\ flock \subseteq (1..Len(node)) \X Mine
  /\ \A h, g \in flock : h[1] = g[1] => h = g
  /\ \A h \in flock : fd[h[2]] = h[1] /\ pc[h[2]] \in {"refreshing", "write", "fill", "replace"}
  /\ sidecar \in Mine \cup {None}
  /\ sidecar # None => pc[sidecar] \in {"inode", "write"}
  /\ pc \in [Mine -> {"new", "flush", "queued", "flock", "refreshing", "fill", "replace"} \cup Threaded \cup Over]
  /\ {fd, out} \subseteq [Mine -> 0..Len(node)] /\ seen \in [Mine -> Content]
  /\ lock \in [Procs -> Seq(Mine)]
  /\ loaded \in [Procs -> BOOLEAN] /\ loading \subseteq Mine
  /\ memory \in [Procs -> Content] /\ marked \in [Procs -> SUBSET Keys]
  /\ \A c \in Mine : DOMAIN snap[c] \subseteq Keys
  /\ left \subseteq Mine /\ wrote \in [Keys -> Mine \cup {None}]
  /\ rotated \cup failed \subseteq Mine

Init ==
  /\ scope \in Scopes
  /\ node = IF scope.there THEN <<[k \in Keys |-> Old]>> ELSE <<>>
  /\ path = Len(node) /\ tmp = 0
  /\ flock = {} /\ sidecar = None
  /\ pc = [c \in Mine |-> "new"] /\ fd = [c \in Mine |-> 0] /\ out = fd
  /\ seen = [c \in Mine |-> Empty]
  /\ lock = [p \in Procs |-> <<>>]
  /\ loaded = [p \in Procs |-> FALSE] /\ loading = {}
  /\ memory = [p \in Procs |-> IF \E c \in Mine : Op(c) \in Setting THEN Disk ELSE Empty]
  /\ marked = [p \in Procs |-> {}]
  /\ snap = [c \in Mine |-> <<>>]
  /\ left = {} /\ wrote = [k \in Keys |-> None] /\ rotated = {} /\ failed = {}
  /\ faults = 0 /\ reloads = 0

-----------------------------------------------------------------------------
Without(q, c) == IF \E i \in DOMAIN q : q[i] = c THEN RemoveAt(q, CHOOSE i \in DOMAIN q : q[i] = c) ELSE q
Pops(p, c) == lock' = [lock EXCEPT ![p] = Without(@, c)]
Unflocks(c) == flock' = {h \in flock : h[2] # c}
Free(i) == \A h \in flock : h[1] # i
Goes(c, to) == pc' = [pc EXCEPT ![c] = to]
Fault == faults < scope.faults /\ faults' = faults + 1 /\ UNCHANGED reloads

\* What a write of c puts down: what it read, with its own changes.
Change(c) == [k \in Keys |-> IF k \in DOMAIN snap[c] THEN snap[c][k] ELSE seen[c][k]]
Wants(c) == snap' = [snap EXCEPT ![c] = [k \in {Key(c)} |-> c]]

\* A credential's call is over, by a return or a raise: the locks are given back.
Leaves(c) == Unflocks(c) /\ Pops(Proc(c), c) /\ Goes(c, "done") /\ UNCHANGED sidecar

\* set_oauth(), set_api_key(), remove(): lock.  get_oauth_api_key(): only if memory's has expired.
Asks(c, m, q) ==
  IF Op(c) = "refresh" /\ m[Key(c)] # Old
  THEN Goes(c, "done") /\ lock' = [lock EXCEPT ![Proc(c)] = q]
  ELSE Goes(c, "queued") /\ lock' = [lock EXCEPT ![Proc(c)] = Append(q, c)]

Begins(c) ==
  /\ pc[c] = "new" /\ Op(c) \in Credential
  /\ IF loaded[Proc(c)] THEN Asks(c, memory[Proc(c)], lock[Proc(c)]) /\ UNCHANGED loading
     ELSE /\ loading' = loading \cup {c}
          /\ Goes(c, "queued") /\ lock' = [lock EXCEPT ![Proc(c)] = Append(@, c)]
  /\ UNCHANGED <<scope, disk, flock, sidecar, fd, out, seen, loaded, memory, marked, snap, left, history, bounds>>

\* The file is opened for its lock, and made if there is none.
Opens(c) ==
  /\ pc[c] = "queued" /\ Op(c) \in Credential /\ Head(lock[Proc(c)]) = c
  /\ IF path = 0 THEN node' = Append(node, Empty) /\ path' = Len(node') ELSE UNCHANGED <<node, path>>
  /\ fd' = [fd EXCEPT ![c] = path'] /\ Goes(c, "flock")
  /\ UNCHANGED <<scope, tmp, locks, out, seen, manager, left, history, bounds>>

\* Mutant: what memory has is good enough.
ReadAgain_Memory(c) == memory[Proc(c)]
ReadAgain(c) == Disk

\* The flock is had: load() reads and is done with it, ...
Loads(c) ==
  /\ pc[c] = "flock" /\ c \in loading /\ Free(fd[c])
  /\ loading' = loading \ {c} /\ loaded' = [loaded EXCEPT ![Proc(c)] = TRUE]
  /\ memory' = [memory EXCEPT ![Proc(c)] = Disk]
  /\ Asks(c, Disk, Without(lock[Proc(c)], c))
  /\ UNCHANGED <<scope, disk, flock, sidecar, fd, out, seen, marked, snap, left, history, bounds>>

\* ... a write reads the others' entries again, ...
Rereads(c) ==
  /\ pc[c] = "flock" /\ c \notin loading /\ Free(fd[c]) /\ Op(c) = "set"
  /\ flock' = flock \cup {<<fd[c], c>>}
  /\ seen' = [seen EXCEPT ![c] = Disk] /\ Wants(c) /\ Goes(c, "write")
  /\ UNCHANGED <<scope, disk, sidecar, lock, fd, out, loaded, loading, memory, marked, left, history, bounds>>

\* ... and a refresh looks whether another process was first.
LooksAgain(c) ==
  /\ pc[c] = "flock" /\ c \notin loading /\ Free(fd[c]) /\ Op(c) = "refresh"
  /\ memory' = [memory EXCEPT ![Proc(c)] = ReadAgain(c)]
  /\ seen' = [seen EXCEPT ![c] = ReadAgain(c)]
  /\ IF ReadAgain(c)[Key(c)] # Old THEN Leaves(c)
     ELSE flock' = flock \cup {<<fd[c], c>>} /\ Goes(c, "refreshing") /\ UNCHANGED <<sidecar, lock>>
  /\ UNCHANGED <<scope, disk, fd, out, loaded, loading, marked, snap, left, history, bounds>>

\* The provider answers.  `_data' is the very dict that is read again and now changed, so memory has the
\* new token before it is written, and keeps it when the write fails.
Refreshes(c) ==
  /\ pc[c] = "refreshing"
  /\ rotated' = rotated \cup {c} /\ Wants(c) /\ Goes(c, "write")
  /\ memory' = [memory EXCEPT ![Proc(c)] = [seen[c] EXCEPT ![Key(c)] = c]]
  /\ UNCHANGED <<scope, disk, locks, fd, out, seen, loaded, loading, marked, left, wrote, failed, bounds>>

\* The provider refuses, or the caller is cancelled meanwhile.
RefreshFails(c) ==
  /\ pc[c] = "refreshing" /\ Fault
  /\ Leaves(c) /\ failed' = failed \cup {c}
  /\ UNCHANGED <<scope, disk, fd, out, seen, manager, left, wrote, rotated>>

\* _write_raw(): the temporary file is opened and cut to nothing, ...
OpensTmp(c) ==
  /\ pc[c] = "write" /\ Op(c) \in Credential
  /\ IF tmp = 0 THEN node' = Append(node, Empty) /\ tmp' = Len(node')
     ELSE node' = [node EXCEPT ![tmp] = Empty] /\ UNCHANGED tmp
  /\ out' = [out EXCEPT ![c] = tmp'] /\ Goes(c, "fill")
  /\ UNCHANGED <<scope, path, locks, fd, seen, manager, left, history, bounds>>

\* ... filled, ...
Fills(c) ==
  /\ pc[c] = "fill"
  /\ node' = [node EXCEPT ![out[c]] = Change(c)]
  /\ wrote' = IF out[c] = path THEN [wrote EXCEPT ![Key(c)] = c] ELSE wrote
  /\ Goes(c, "replace")
  /\ UNCHANGED <<scope, path, tmp, locks, fd, out, seen, manager, left, rotated, failed, bounds>>

\* ... and renamed over the file, if it is there still.
Renames(c) ==
  /\ pc[c] = "replace"
  /\ IF tmp # 0
     THEN /\ path' = tmp /\ tmp' = 0
          /\ memory' = [memory EXCEPT ![Proc(c)] = Change(c)]
          /\ wrote' = [wrote EXCEPT ![Key(c)] = c]
          /\ UNCHANGED <<rotated, failed>>
     ELSE failed' = failed \cup {c} /\ rotated' = rotated \ {c} /\ UNCHANGED <<path, tmp, memory, wrote>>
  /\ Leaves(c)
  /\ UNCHANGED <<scope, node, fd, out, seen, loaded, loading, marked, snap, left, bounds>>

\* The disk is full.
TmpFails(c) ==
  /\ pc[c] \in {"fill", "replace"} /\ Fault
  /\ Leaves(c) /\ failed' = failed \cup {c} /\ rotated' = rotated \ {c}
  /\ UNCHANGED <<scope, disk, fd, out, seen, manager, left, wrote>>

-----------------------------------------------------------------------------
Running(c) == pc[c] \in {"queued"} \cup Threaded
Pending(p) == \E c \in Of(p) : Op(c) = "setter" /\ Running(c)      \* `_pending_writes'

\* A setter: memory has it at once, and a task is to write what is marked, as it is now.
Sets(c) ==
  /\ pc[c] = "new" /\ Op(c) = "setter"
  /\ LET p == Proc(c) IN
     /\ memory' = [memory EXCEPT ![p][Key(c)] = c]
     /\ marked' = [marked EXCEPT ![p] = @ \cup {Key(c)}]
     /\ snap' = [snap EXCEPT ![c] = [k \in marked'[p] |-> memory'[p][k]]]
     /\ lock' = [lock EXCEPT ![p] = Append(@, c)]
  /\ Goes(c, "queued")
  /\ UNCHANGED <<scope, disk, flock, sidecar, fd, out, seen, loaded, loading, left, history, bounds>>

\* edit_list(): what setters queued lands first.
Edits(c) ==
  /\ Op(c) = "edit"
  /\ \/ pc[c] = "new" /\ Goes(c, "flush") /\ UNCHANGED lock
     \/ /\ pc[c] = "flush" /\ ~Pending(Proc(c))
        /\ lock' = [lock EXCEPT ![Proc(c)] = Append(@, c)] /\ Goes(c, "queued")
  /\ UNCHANGED <<scope, disk, flock, sidecar, fd, out, seen, manager, left, history, bounds>>

\* The scope's lock is had: a worker thread starts.
Starts(c) ==
  /\ pc[c] = "queued" /\ Op(c) \in Setting /\ Head(lock[Proc(c)]) = c
  /\ Goes(c, "sidecar")
  /\ UNCHANGED <<scope, disk, locks, fd, out, seen, manager, left, history, bounds>>

\* The builder: nothing for a caller that is gone, else the setter's snapshot, or the list the edit
\* makes of the one there is, which may be the same and is not written then.
Builds(c) ==
  /\ seen' = [seen EXCEPT ![c] = Disk]
  /\ \/ c \in left /\ Goes(c, "done") /\ Unflocks(c) /\ sidecar' = None /\ UNCHANGED snap
     \/ /\ c \notin left
        /\ IF Op(c) = "setter" THEN UNCHANGED snap ELSE Wants(c)
        /\ Goes(c, "write") /\ sidecar' = c
        /\ flock' = IF path = 0 THEN flock ELSE flock \cup {<<path, c>>}
     \/ /\ c \notin left /\ Op(c) = "edit"
        /\ snap' = [snap EXCEPT ![c] = [k \in {Key(c)} |-> Disk[k]]]
        /\ Goes(c, "told") /\ Unflocks(c) /\ sidecar' = None

\* Mutant: nobody is asked.
SidecarFree_Always == TRUE
SidecarFree == sidecar = None

\* transact(): the sidecar lock, then the flock of the file there is, then the read.
TakesSidecar(c) ==
  /\ pc[c] = "sidecar" /\ SidecarFree
  /\ IF path = 0 THEN Builds(c) /\ UNCHANGED fd
     ELSE /\ sidecar' = c /\ fd' = [fd EXCEPT ![c] = path] /\ Goes(c, "inode")
          /\ UNCHANGED <<flock, seen, snap>>
  /\ UNCHANGED <<scope, disk, lock, out, loaded, loading, memory, marked, left, history, bounds>>

TakesInode(c) ==
  /\ pc[c] = "inode" /\ Free(fd[c]) /\ Builds(c)
  /\ UNCHANGED <<scope, disk, lock, fd, out, loaded, loading, memory, marked, left, history, bounds>>

\* Mutant: the sidecar lock stays behind.
Breaks_Locked(c) == Goes(c, IF c \in left THEN "done" ELSE "broke") /\ Unflocks(c) /\ UNCHANGED sidecar

\* A thread is over; one whose caller has left has nobody to tell, but for a list that was written.
Breaks(c) == /\ Goes(c, IF c \in left THEN "done" ELSE "broke")
             /\ Unflocks(c) /\ sidecar' = IF sidecar = c THEN None ELSE sidecar

\* Half a minute is up at a lock somebody has.
TimesOut(c) ==
  /\ \/ pc[c] = "sidecar" /\ sidecar # None
     \/ pc[c] = "inode" /\ ~Free(fd[c])
  /\ Breaks(c)
  /\ UNCHANGED <<scope, disk, lock, fd, out, seen, manager, left, history, bounds>>

\* A file of its own, renamed over the old one; the locks are given back.
Writes(c) ==
  /\ pc[c] = "write" /\ Op(c) \in Setting
  /\ node' = Append(node, Change(c)) /\ path' = Len(node')
  /\ wrote' = [k \in Keys |-> IF k \in DOMAIN snap[c] THEN c ELSE wrote[k]]
  /\ Unflocks(c) /\ sidecar' = None /\ Goes(c, "told")
  /\ UNCHANGED <<scope, tmp, lock, fd, out, seen, manager, left, rotated, failed, bounds>>

WriteFails(c) ==
  /\ pc[c] = "write" /\ Op(c) \in Setting /\ Fault
  /\ Breaks(c)
  /\ UNCHANGED <<scope, disk, lock, fd, out, seen, manager, left, history>>

\* Mutant: a list whose caller has left is not taken over.
Commits_Present(c) == c \notin left
Commits(c) == TRUE

\* The event loop hears of it: a setter's write clears every mark, an edit's list is memory's.
Hears(c) ==
  /\ pc[c] = "told"
  /\ LET p == Proc(c) k == Key(c) IN
     IF Op(c) = "setter" THEN marked' = [marked EXCEPT ![p] = {}] /\ UNCHANGED memory
     ELSE IF Commits(c) THEN /\ memory' = [memory EXCEPT ![p][k] = snap[c][k]]
                             /\ marked' = [marked EXCEPT ![p] = @ \ {k}]
     ELSE UNCHANGED <<memory, marked>>
  /\ Pops(Proc(c), c) /\ Goes(c, "done")
  /\ UNCHANGED <<scope, disk, flock, sidecar, fd, out, seen, loaded, loading, snap, left, history, bounds>>

\* ... or of the error, which is recorded, or raised by the edit.
HearsError(c) ==
  /\ pc[c] = "broke" /\ failed' = failed \cup {c}
  /\ Pops(Proc(c), c) /\ Goes(c, "done")
  /\ UNCHANGED <<scope, disk, flock, sidecar, fd, out, seen, manager, left, wrote, rotated, bounds>>

\* An edit's caller is cancelled; its thread, if there is one, goes on without the lock.
CancelEdit(c) ==
  /\ Op(c) = "edit" /\ c \notin left /\ pc[c] \in {"flush", "queued"} \cup Threaded /\ Fault
  /\ IF pc[c] \in Threaded
     THEN left' = left \cup {c} /\ (IF pc[c] = "broke" THEN Goes(c, "done") ELSE UNCHANGED pc)
     ELSE UNCHANGED left /\ Goes(c, "done")
  /\ Pops(Proc(c), c)
  /\ UNCHANGED <<scope, disk, flock, sidecar, fd, out, seen, manager, history>>

\* reload(): after the setters' writes, the file as it is; a flock on it is waited for.
Reload(p) ==
  /\ reloads < scope.reloads /\ reloads' = reloads + 1 /\ UNCHANGED faults
  /\ ~Pending(p) /\ (path # 0 => Free(path))
  /\ memory' = [memory EXCEPT ![p] = Disk] /\ marked' = [marked EXCEPT ![p] = {}]
  /\ UNCHANGED <<scope, disk, locks, pc, fd, out, seen, loaded, loading, snap, left, history>>

-----------------------------------------------------------------------------
\* A process dies: its locks go with it, its temporary file does not.
Crash(p) ==
  /\ Fault /\ \E c \in Of(p) : pc[c] \notin Over
  /\ pc' = [c \in Mine |-> IF c \in Of(p) /\ pc[c] # "done" THEN "dead" ELSE pc[c]]
  /\ flock' = {h \in flock : h[2] \notin Of(p)}
  /\ sidecar' = IF sidecar \in Of(p) THEN None ELSE sidecar
  /\ lock' = [lock EXCEPT ![p] = <<>>]
  /\ rotated' = {c \in rotated : c \notin Of(p) \/ pc[c] = "done"}
  /\ UNCHANGED <<scope, disk, fd, out, seen, manager, left, wrote, failed>>

\* Every call is over.
Rests == (\A c \in Mine : pc[c] \in Over) /\ UNCHANGED vars

Step(c) ==
  \/ Begins(c) \/ Opens(c) \/ Loads(c) \/ Rereads(c) \/ LooksAgain(c)
  \/ Refreshes(c) \/ RefreshFails(c) \/ OpensTmp(c) \/ Fills(c) \/ Renames(c) \/ TmpFails(c)
  \/ Sets(c) \/ Edits(c) \/ Starts(c) \/ TakesSidecar(c) \/ TakesInode(c) \/ TimesOut(c)
  \/ Writes(c) \/ WriteFails(c) \/ Hears(c) \/ HearsError(c) \/ CancelEdit(c)

Next == Rests \/ (\E c \in Mine : Step(c)) \/ \E p \in Procs : Reload(p) \/ Crash(p)

Spec == Init /\ [][Next]_vars

-----------------------------------------------------------------------------
\* What changes in the file is what the call that just moved was to change: no entry another process,
\* thread or task wrote is lost under it, and nobody ever reads a file cut short (`transact').
ChangesAsked == \A k \in Keys : Disk'[k] # Disk[k] => wrote'[k] \in Mine /\ wrote' # wrote /\ Disk'[k] = snap[wrote'[k]][k]

OnlyAsked == [][ChangesAsked]_vars

\* The same of auth.json, whatever processes there are: set_oauth(), set_api_key(), remove().
SiblingsKept == [][ChangesAsked]_vars

\* A refresh token is spent once: who waited for the lock finds the new one (`get_oauth_api_key').
RefreshedOnce == \A c, d \in rotated : c # d => Key(c) # Key(d)

\* When a session's saves are over and none failed, its memory has what it saved last, unless another
\* session's save came after it: cancelled edits and reloads included (`edit_list', `_write_task').
Quiet(p) == \A c \in Of(p) : pc[c] \in {"new", "done"} /\ c \notin failed
Agree ==
  \A p \in Procs : Quiet(p) =>
    \A k \in Keys : wrote[k] \in Of(p) => memory[p][k] = Disk[k]
=============================================================================
