-------------------------- MODULE SharedFiles_proofs --------------------------
(***************************************************************************)
(* For every history, whatever processes, settings, faults and reloads it  *)
(* has: the types, the flocks' exclusion with them; where the calls are on *)
(* settings.json, a write changes what its caller asked for and nothing    *)
(* else.  For the histories FewOnAuth and ListsApart describe: a refresh   *)
(* token is spent once, and a session has in memory what it saved last.    *)
(***************************************************************************)
EXTENDS SharedFiles, SequenceTheorems, TLAPS

\* The calls are saves of settings: for auth.json the property is lost, see SiblingsKept.
OnlySettings == \A h \in Scopes : \A c \in DOMAIN h.does : h.does[c].op \in Setting

Value == {Old, None} \cup Calls

-----------------------------------------------------------------------------
\* TypeOK, by what a step can disturb together, with what each part needs to be inductive.
Inodes ==
  /\ node \in Seq(Content) /\ path \in 0..Len(node) /\ tmp \in 0..Len(node)
  /\ fd \in [Mine -> 0..Len(node)] /\ out \in [Mine -> 0..Len(node)]

Values ==
  /\ seen \in [Mine -> Content] /\ memory \in [Procs -> Content]
  /\ DOMAIN snap = Mine /\ \A c \in Mine : DOMAIN snap[c] \subseteq Keys
  /\ \A c \in Mine : \A k \in DOMAIN snap[c] : snap[c][k] \in Value

Queues == lock \in [Procs -> Seq(Mine)]

Marks ==
  /\ loaded \in [Procs -> BOOLEAN] /\ loading \subseteq Mine /\ left \subseteq Mine
  /\ marked \in [Procs -> SUBSET Keys] /\ wrote \in [Keys -> Mine \cup {None}]
  /\ rotated \subseteq Mine /\ failed \subseteq Mine

\* A list's edit knows what it writes.
Wanted == \A c \in Mine : Op(c) = "edit" /\ pc[c] \in {"write", "told"} => Key(c) \in DOMAIN snap[c]

ForAuth == {"flock", "refreshing", "fill", "replace"}
ForSettings == {"flush", "sidecar", "inode", "told", "broke"}
Places ==
  /\ pc \in [Mine -> {"new", "queued", "write"} \cup ForAuth \cup ForSettings \cup Over]
  /\ \A c \in Mine : (pc[c] \in ForAuth => Op(c) \in Credential) /\ (pc[c] \in ForSettings => Op(c) \in Setting)

\* One save is past the sidecar lock, ...
OnePast ==
  /\ sidecar \in Mine \cup {None}
  /\ sidecar # None => pc[sidecar] \in {"inode", "write"} /\ Op(sidecar) \in Setting
  /\ \A c \in Mine : pc[c] \in {"inode", "write"} /\ Op(c) \in Setting => sidecar = c

\* ... so that the file it opened is the file, and what it read is in it until it writes.
NotMoved ==
  \A c \in Mine : /\ pc[c] = "inode" => fd[c] = path /\ path # 0
                  /\ pc[c] = "write" /\ Op(c) \in Setting => seen[c] = Disk

Flocks ==
  /\ flock \subseteq (1..Len(node)) \X Mine
  /\ \A h, g \in flock : h[1] = g[1] => h = g
  /\ \A h \in flock : fd[h[2]] = h[1] /\ pc[h[2]] \in {"refreshing", "write", "fill", "replace"}
  /\ \A c \in Mine : pc[c] = "flock" => fd[c] # 0

\* A save writes once.
Before == {"new", "flush", "queued", "sidecar", "inode", "write"}
WritesOnce == \A c \in Mine : pc[c] \in Before /\ Op(c) \in Setting => \A k \in Keys : wrote[k] # c

IInv ==
  /\ scope \in Scopes
  /\ Inodes /\ Values /\ Wanted /\ Queues /\ Marks /\ Places /\ OnePast /\ NotMoved /\ Flocks /\ WritesOnce

-----------------------------------------------------------------------------
\* What a history is made of.
LEMMA TheHistory ==
  ASSUME scope \in Scopes
  PROVE  /\ Mine \subseteq Calls /\ None \notin Mine /\ Old \notin Mine
         /\ \A c \in Mine : Proc(c) \in Procs /\ Key(c) \in Keys /\ Op(c) \in Credential \cup Setting
         /\ \A c, d \in Mine : Op(c) \in Setting => Op(d) \in Setting
         /\ \A c \in Mine : Op(c) \in Setting => Op(c) \notin Credential
<1>1. Mine \subseteq Calls /\ None \notin Mine /\ Old \notin Mine
  BY HistoryAssumption DEF Mine
<1>2. \A c \in Mine : Proc(c) \in Procs /\ Key(c) \in Keys /\ Op(c) \in Credential \cup Setting
  BY HistoryAssumption DEF Mine, Proc, Key, Op
<1>3. \A c \in Mine : Op(c) \in Setting => Op(c) \notin Credential
  BY DEF Setting, Credential
<1>4. {Op(c) : c \in Mine} \in (SUBSET Credential) \cup (SUBSET Setting)
  BY HistoryAssumption DEF Mine, Op
<1> QED
  BY <1>1, <1>2, <1>3, <1>4

LEMMA DiskTyped ==
  ASSUME Inodes
  PROVE  Disk \in Content
BY ElementOfSeq DEF Inodes, Disk, Empty, Content

LEMMA ChangeTyped ==
  ASSUME scope \in Scopes, Values, NEW c \in Mine
  PROVE  Change(c) \in Content
BY DEF Values, Change, Content, Value

\* A sequence with one element changed, added, or taken out.
LEMMA Overwritten ==
  ASSUME NEW S, NEW s \in Seq(S), NEW i \in 0..Len(s), NEW v \in S
  PROVE  [s EXCEPT ![i] = v] \in Seq(S) /\ Len([s EXCEPT ![i] = v]) = Len(s)
<1>1. CASE i = 0
  <2>1. [s EXCEPT ![0] = v] = s
    BY LenProperties
  <2> QED
    BY <1>1, <2>1
<1>2. CASE i # 0
  BY <1>2, ExceptSeq, LenProperties
<1> QED
  BY <1>1, <1>2

LEMMA WithoutTyped ==
  ASSUME NEW S, NEW q \in Seq(S), NEW c
  PROVE  Without(q, c) \in Seq(S)
<1>1. CASE \E i \in DOMAIN q : q[i] = c
  <2> DEFINE j == CHOOSE i \in DOMAIN q : q[i] = c
  <2>1. j \in 1..Len(q) /\ Len(q) \in Nat
    BY <1>1, LenProperties
  <2> HIDE DEF j
  <2>2. SubSeq(q, 1, j - 1) \in Seq(S) /\ SubSeq(q, j + 1, Len(q)) \in Seq(S)
    BY <2>1, SubSeqProperties
  <2> QED
    BY <1>1, <2>2, ConcatProperties DEF Without, RemoveAt, j
<1> QED
  BY <1>1 DEF Without

-----------------------------------------------------------------------------
LEMMA Initially == Init => IInv
<1> SUFFICES ASSUME Init PROVE IInv
  OBVIOUS
<1>1. scope \in Scopes
  BY DEF Init
<1>2. Inodes
  <2>1. [k \in Keys |-> Old] \in Content
    BY DEF Content
  <2>2. node \in Seq(Content) /\ Len(node) \in Nat
    BY <2>1, EmptySeq, LenProperties DEF Init
  <2> QED
    BY <2>2 DEF Init, Inodes
<1>3. Values
  BY <1>2, DiskTyped DEF Init, Values, Empty, Content
<1>4. Queues
  BY EmptySeq DEF Init, Queues
<1>5. Marks
  BY DEF Init, Marks
<1>6. Places
  BY DEF Init, Places, ForAuth, ForSettings
<1>7. OnePast /\ NotMoved /\ Flocks /\ Wanted
  BY DEF Init, Wanted, OnePast, NotMoved, Flocks
<1>8. WritesOnce
  BY <1>1, TheHistory DEF Init, WritesOnce
<1> QED
  BY <1>1, <1>2, <1>3, <1>4, <1>5, <1>6, <1>7, <1>8 DEF IInv

-----------------------------------------------------------------------------
\* A step leaves the history as it is.
LEMMA SameHistory ==
  ASSUME [Next]_vars
  PROVE  scope' = scope /\ Mine' = Mine
<1>1. scope' = scope
  BY DEF Next, vars, Rests, Step, Begins, Opens, Loads, Rereads, LooksAgain, Refreshes, RefreshFails, OpensTmp,
         Fills, Renames, TmpFails, Sets, Edits, Starts, TakesSidecar, TakesInode, TimesOut, Writes, WriteFails,
         Hears, HearsError, CancelEdit, Reload, Crash
<1> QED
  BY <1>1 DEF Mine

LEMMA InodesKept ==
  ASSUME IInv, [Next]_vars
  PROVE  Inodes'
<1> USE SameHistory DEF IInv, Inodes
<1>0. Len(node) \in Nat /\ \A v \in Content : Append(node, v) \in Seq(Content) /\ Len(Append(node, v)) = Len(node) + 1
  BY LenProperties, AppendProperties
<1>1. Empty \in Content /\ \A c \in Mine : Change(c) \in Content
  BY ChangeTyped DEF Empty, Content
<1> DEFINE Bigger == Append(node, Empty)
<1>a. /\ Bigger \in Seq(Content) /\ Len(Bigger) = Len(node) + 1
      /\ Len(node) + 1 \in 0..(Len(node) + 1) /\ 0..Len(node) \subseteq 0..(Len(node) + 1)
  BY <1>0, <1>1
<1> HIDE DEF Bigger
<1>2. ASSUME NEW c \in Mine, Opens(c) PROVE Inodes'
  <2>1. CASE path = 0
    <3>1. node' = Bigger /\ path' = Len(node') /\ tmp' = tmp /\ out' = out /\ fd' = [fd EXCEPT ![c] = path']
      BY <1>2, <2>1 DEF Opens, Bigger
    <3> QED
      BY <1>a, <3>1
  <2>2. CASE path # 0
    BY <1>2, <2>2 DEF Opens
  <2> QED
    BY <2>1, <2>2
<1>3. ASSUME NEW c \in Mine, OpensTmp(c) PROVE Inodes'
  <2>1. CASE tmp = 0
    <3>1. node' = Bigger /\ tmp' = Len(node') /\ path' = path /\ fd' = fd /\ out' = [out EXCEPT ![c] = tmp']
      BY <1>3, <2>1 DEF OpensTmp, Bigger
    <3> QED
      BY <1>a, <3>1
  <2>2. CASE tmp # 0
    BY <1>0, <1>1, <1>3, <2>2, Overwritten DEF OpensTmp
  <2> QED
    BY <2>1, <2>2
<1>4. ASSUME NEW c \in Mine, Fills(c) PROVE Inodes'
  BY <1>0, <1>1, <1>4, Overwritten DEF Fills
<1>5. ASSUME NEW c \in Mine, Renames(c) PROVE Inodes'
  BY <1>0, <1>5 DEF Renames
<1>6. ASSUME NEW c \in Mine, TakesSidecar(c) PROVE Inodes'
  BY <1>6 DEF TakesSidecar, disk
<1>7. ASSUME NEW c \in Mine, Writes(c) PROVE Inodes'
  BY <1>0, <1>1, <1>7 DEF Writes
<1>8. CASE UNCHANGED <<disk, fd, out>>
  BY <1>8 DEF disk
<1> QED
  BY <1>2, <1>3, <1>4, <1>5, <1>6, <1>7, <1>8
  DEF Next, vars, Rests, Step, Begins, Loads, Rereads, LooksAgain, Refreshes, RefreshFails, TmpFails,
      Sets, Edits, Starts, TakesInode, TimesOut, WriteFails, Hears, HearsError, CancelEdit, Reload, Crash

LEMMA ValuesKept ==
  ASSUME IInv, [Next]_vars
  PROVE  Values'
<1> USE SameHistory DEF IInv, Values
<1>1. Disk \in Content /\ \A c \in Mine : Change(c) \in Content
  BY DiskTyped, ChangeTyped
<1>2. \A c \in Mine : c \in Value /\ Key(c) \in Keys /\ Proc(c) \in Procs
  BY TheHistory DEF Value
<1>3. ASSUME NEW c \in Mine, Loads(c) PROVE Values'
  BY <1>1, <1>3 DEF Loads
<1>4. ASSUME NEW c \in Mine, Rereads(c) PROVE Values'
  BY <1>1, <1>2, <1>4 DEF Rereads, Wants
<1>5. ASSUME NEW c \in Mine, LooksAgain(c) PROVE Values'
  BY <1>1, <1>5 DEF LooksAgain, ReadAgain
<1>6. ASSUME NEW c \in Mine, Refreshes(c) PROVE Values'
  <2>1. [seen[c] EXCEPT ![Key(c)] = c] \in Content
    BY <1>2 DEF Content, Value
  <2>2. memory' \in [Procs -> Content]
    BY <1>2, <1>6, <2>1 DEF Refreshes
  <2> QED
    BY <1>2, <1>6, <2>2 DEF Refreshes, Wants
<1>7. ASSUME NEW c \in Mine, Renames(c) PROVE Values'
  BY <1>1, <1>7 DEF Renames
<1>8. ASSUME NEW c \in Mine, Sets(c) PROVE Values'
  <2>1. memory' \in [Procs -> Content]
    BY <1>2, <1>8 DEF Sets, Content, Value
  <2>2. marked'[Proc(c)] \subseteq Keys
    BY <1>2, <1>8 DEF Sets, Marks
  <2> QED
    BY <1>2, <1>8, <2>1, <2>2 DEF Sets, Content, Value
<1>9. ASSUME NEW c \in Mine, Builds(c), UNCHANGED memory PROVE Values'
  <2>1. \/ UNCHANGED snap
        \/ snap' = [snap EXCEPT ![c] = [k \in {Key(c)} |-> c]]
        \/ snap' = [snap EXCEPT ![c] = [k \in {Key(c)} |-> Disk[k]]]
    BY <1>9 DEF Builds, Wants
  <2>2. seen' \in [Mine -> Content] /\ memory' \in [Procs -> Content]
    BY <1>1, <1>9 DEF Builds
  <2>3. Disk[Key(c)] \in Value
    BY <1>1, <1>2 DEF Content, Value
  <2>4. CASE UNCHANGED snap
    BY <2>2, <2>4
  <2>5. CASE snap' = [snap EXCEPT ![c] = [k \in {Key(c)} |-> c]]
    BY <1>2, <2>2, <2>5
  <2>6. CASE snap' = [snap EXCEPT ![c] = [k \in {Key(c)} |-> Disk[k]]]
    BY <1>2, <2>2, <2>3, <2>6
  <2> QED
    BY <2>1, <2>4, <2>5, <2>6
<1>10. ASSUME NEW c \in Mine, TakesSidecar(c) PROVE Values'
  BY <1>9, <1>10 DEF TakesSidecar
<1>11. ASSUME NEW c \in Mine, TakesInode(c) PROVE Values'
  BY <1>9, <1>11 DEF TakesInode
<1>12. ASSUME NEW c \in Mine, Hears(c) PROVE Values'
  <2>1. CASE Op(c) = "setter" \/ ~Commits(c)
    BY <1>12, <2>1 DEF Hears, Commits
  <2>2. CASE Op(c) # "setter"
    <3>1. Op(c) = "edit"
      BY <1>12, <2>2, TheHistory DEF Hears, Places, ForSettings, Setting
    <3>2. snap[c][Key(c)] \in Value
      BY <1>12, <3>1 DEF Hears, Wanted
    <3>3. memory' = [memory EXCEPT ![Proc(c)][Key(c)] = snap[c][Key(c)]] /\ seen' = seen /\ snap' = snap
      BY <1>12, <2>2 DEF Hears, Commits
    <3>4. memory' \in [Procs -> Content]
      BY <1>2, <3>2, <3>3 DEF Content, Value
    <3> QED
      BY <3>3, <3>4
  <2> QED
    BY <2>1, <2>2
<1>13. ASSUME NEW p \in Procs, Reload(p) PROVE Values'
  BY <1>1, <1>13 DEF Reload
<1>14. CASE UNCHANGED <<seen, memory, snap>>
  BY <1>14
<1> QED
  BY <1>3, <1>4, <1>5, <1>6, <1>7, <1>8, <1>10, <1>11, <1>12, <1>13, <1>14
  DEF Next, vars, manager, Rests, Step, Begins, Opens, RefreshFails, OpensTmp, Fills, TmpFails, Edits, Starts,
      TimesOut, Writes, WriteFails, HearsError, CancelEdit, Crash

LEMMA WantedKept ==
  ASSUME IInv, [Next]_vars
  PROVE  Wanted'
<1>1. /\ Mine' = Mine /\ \A c \in Mine : Op(c)' = Op(c) /\ Key(c)' = Key(c)
      /\ DOMAIN snap = Mine /\ pc \in [Mine -> {"new", "queued", "write"} \cup ForAuth \cup ForSettings \cup Over]
  BY SameHistory DEF Op, Key, IInv, Values, Places
<1> USE DEF IInv, Wanted
<1>2. ASSUME NEW c \in Mine, UNCHANGED snap, pc' = [pc EXCEPT ![c] = "done"] PROVE Wanted'
  BY <1>1, <1>2
<1>3. ASSUME NEW c \in Mine, UNCHANGED snap, NEW q, q \notin {"write", "told"}, Goes(c, q) PROVE Wanted'
  BY <1>1, <1>3 DEF Goes
<1>4. ASSUME NEW c \in Mine, Rereads(c) PROVE Wanted'
  BY <1>1, <1>4 DEF Rereads, Wants, Goes
<1>5. ASSUME NEW c \in Mine, Refreshes(c) PROVE Wanted'
  BY <1>1, <1>5 DEF Refreshes, Wants, Goes
<1>6. ASSUME NEW c \in Mine, Sets(c) PROVE Wanted'
  <2>1. pc' = [pc EXCEPT ![c] = "queued"] /\ \A d \in Mine : d # c => snap'[d] = snap[d]
    BY <1>6 DEF Sets, Goes
  <2> QED
    BY <1>1, <2>1
<1>7. ASSUME NEW c \in Mine, Builds(c) \/ (Goes(c, "inode") /\ UNCHANGED snap) PROVE Wanted'
  <2>1. ASSUME NEW d \in Mine, d # c PROVE snap'[d] = snap[d] /\ pc'[d] = pc[d]
    BY <1>1, <1>7, <2>1 DEF Builds, Wants, Goes
  <2>2. CASE Op(c) = "edit" /\ pc'[c] \in {"write", "told"}
    BY <1>1, <1>7, <2>2 DEF Builds, Wants, Goes
  <2> QED
    BY <1>1, <2>1, <2>2
<1>8. ASSUME NEW c \in Mine, Writes(c) PROVE Wanted'
  BY <1>1, <1>8 DEF Writes, manager, Goes
<1>9. ASSUME NEW p \in Procs, Crash(p) PROVE Wanted'
  BY <1>1, <1>9 DEF Crash, manager
<1>10. CASE UNCHANGED <<pc, snap>>
  BY <1>1, <1>10
<1>11. ASSUME NEW c \in Mine, Step(c) PROVE Wanted'
  <2>1. ASSUME UNCHANGED snap, NEW q, q \notin {"write", "told"}, Goes(c, q) PROVE Wanted'
    BY <1>3, <2>1
  <2> QED
    BY <1>4, <1>5, <1>6, <1>7, <1>8, <1>10, <1>11, <2>1
    DEF Step, manager, Leaves, Asks, Breaks, Begins, Opens, Loads, LooksAgain, RefreshFails, OpensTmp, Fills, Renames,
        TmpFails, Edits, Starts, TakesSidecar, TakesInode, TimesOut, WriteFails, Hears, HearsError, CancelEdit
<1> QED
  BY <1>9, <1>10, <1>11 DEF Next, vars, Rests, manager, Reload

LEMMA QueuesKept ==
  ASSUME IInv, [Next]_vars
  PROVE  Queues'
<1> USE SameHistory DEF IInv, Queues
<1>1. ASSUME NEW c \in Mine, NEW p \in Procs, Pops(p, c) PROVE Queues'
  BY <1>1, WithoutTyped DEF Pops
<1>2. ASSUME NEW c \in Mine, NEW q \in Seq(Mine), NEW m, Asks(c, m, q) PROVE Queues'
  <2>1. Append(q, c) \in Seq(Mine)
    BY AppendProperties
  <2>2. lock' = [lock EXCEPT ![Proc(c)] = q] \/ lock' = [lock EXCEPT ![Proc(c)] = Append(q, c)]
    BY <1>2 DEF Asks
  <2> QED
    BY <2>1, <2>2
<1>3. ASSUME NEW c \in Mine, lock' = [lock EXCEPT ![Proc(c)] = Append(@, c)] PROVE Queues'
  BY <1>3, AppendProperties
<1>4. ASSUME NEW c \in Mine, Begins(c) PROVE Queues'
  BY <1>2, <1>3, <1>4, TheHistory DEF Begins
<1>5. ASSUME NEW c \in Mine, Loads(c) PROVE Queues'
  BY <1>2, <1>5, WithoutTyped, TheHistory DEF Loads
<1>6. ASSUME NEW c \in Mine, Leaves(c) \/ Sets(c) \/ Edits(c) \/ Hears(c) \/ HearsError(c) \/ CancelEdit(c) PROVE Queues'
  BY <1>1, <1>3, <1>6, TheHistory DEF Leaves, Sets, Edits, Hears, HearsError, CancelEdit
<1>7. ASSUME NEW p \in Procs, Crash(p) PROVE Queues'
  BY <1>7, EmptySeq DEF Crash
<1>8. CASE UNCHANGED lock
  BY <1>8
<1> QED
  BY <1>4, <1>5, <1>6, <1>7, <1>8
  DEF Next, vars, locks, Rests, Step, Opens, Rereads, LooksAgain, Refreshes, RefreshFails, OpensTmp, Fills, Renames,
      TmpFails, Starts, TakesSidecar, TakesInode, TimesOut, Writes, WriteFails, Reload

LEMMA MarksKept ==
  ASSUME IInv, [Next]_vars
  PROVE  Marks'
<1> USE SameHistory DEF IInv, Marks
<1>1. \A c \in Mine : Key(c) \in Keys /\ Proc(c) \in Procs
  BY TheHistory
<1>2. ASSUME NEW c \in Mine, Step(c) PROVE Marks'
  <2>1. CASE Begins(c) \/ Loads(c) \/ Refreshes(c) \/ RefreshFails(c) \/ TmpFails(c) \/ HearsError(c) \/ CancelEdit(c)
    BY <1>1, <2>1 DEF Begins, Loads, Refreshes, RefreshFails, TmpFails, HearsError, CancelEdit, manager, history,
       bounds
  <2>2. CASE Fills(c) \/ Renames(c)
    BY <1>1, <2>2 DEF Fills, Renames, manager, history
  <2>3. CASE Writes(c)
    BY <1>1, <2>3 DEF Writes, manager, history
  <2>4. CASE Sets(c) \/ Hears(c)
    BY <1>1, <2>4 DEF Sets, Hears, Commits, manager, history
  <2>5. CASE UNCHANGED <<loaded, loading, left, marked, history>>
    BY <2>5 DEF history
  <2> QED
    BY <1>2, <2>1, <2>2, <2>3, <2>4, <2>5
    DEF Step, manager, history, Opens, Rereads, LooksAgain, OpensTmp, Edits, Starts, TakesSidecar, TakesInode, TimesOut,
        WriteFails
<1>3. ASSUME NEW p \in Procs, Reload(p) \/ Crash(p) PROVE Marks'
  BY <1>3 DEF Reload, Crash, manager, history
<1> QED
  BY <1>2, <1>3 DEF Next, vars, manager, history, Rests

\* What the rest of the parts need of the ones before, with the history's calls of one file.
LEMMA Standing ==
  ASSUME IInv, [Next]_vars
  PROVE  /\ Mine' = Mine /\ \A c \in Mine : Op(c)' = Op(c) /\ Key(c)' = Key(c) /\ Proc(c)' = Proc(c)
         /\ None \notin Mine
         /\ pc \in [Mine -> {"new", "queued", "write"} \cup ForAuth \cup ForSettings \cup Over]
         /\ \A c \in Mine : pc[c] \in ForAuth => Op(c) \in Credential
         /\ \A c \in Mine : pc[c] \in ForSettings => Op(c) \in Setting
         /\ \A c, d \in Mine : Op(c) \in Setting => Op(d) \in Setting /\ Op(d) \notin Credential
         /\ \A c \in Mine : Op(c) \in Credential \cup Setting
BY SameHistory, TheHistory DEF Op, Key, Proc, IInv, Places

LEMMA PlacesKept ==
  ASSUME IInv, [Next]_vars
  PROVE  Places'
<1> USE Standing DEF Places, ForAuth, ForSettings, Over
<1>1. ASSUME NEW c \in Mine, NEW q, Goes(c, q),
             q \in {"new", "queued", "write"} \cup Over \/ (q \in ForAuth /\ Op(c) \in Credential) \/ (q \in ForSettings /\ Op(c) \in Setting)
      PROVE  Places'
  BY <1>1 DEF Goes
<1>2. CASE UNCHANGED pc
  BY <1>2
<1>3. ASSUME NEW c \in Mine, Step(c) PROVE Places'
  <2> USE <1>1
  <2>1. CASE Begins(c) \/ Opens(c) \/ Loads(c) \/ Rereads(c) \/ LooksAgain(c)
    BY <2>1 DEF Begins, Opens, Loads, Rereads, LooksAgain, Asks, Leaves
  <2>2. CASE Refreshes(c) \/ RefreshFails(c) \/ OpensTmp(c) \/ Fills(c) \/ Renames(c) \/ TmpFails(c)
    BY <2>2 DEF Refreshes, RefreshFails, OpensTmp, Fills, Renames, TmpFails, Leaves
  <2>3. CASE Sets(c) \/ Edits(c) \/ Starts(c)
    BY <2>3 DEF Sets, Edits, Starts, Setting
  <2>4. ASSUME Builds(c), Op(c) \in Setting PROVE Places'
    BY <2>4 DEF Builds
  <2>5. CASE TakesSidecar(c) \/ TakesInode(c)
    BY <2>4, <2>5 DEF TakesSidecar, TakesInode
  <2>6. CASE TimesOut(c) \/ Writes(c) \/ WriteFails(c)
    BY <2>6 DEF TimesOut, Writes, WriteFails, Breaks
  <2>7. CASE Hears(c) \/ HearsError(c) \/ CancelEdit(c)
    BY <1>2, <2>7 DEF Hears, HearsError, CancelEdit
  <2> QED
    BY <1>3, <2>1, <2>2, <2>3, <2>5, <2>6, <2>7 DEF Step
<1>4. ASSUME NEW p \in Procs, Crash(p) PROVE Places'
  BY <1>4 DEF Crash
<1> QED
  BY <1>2, <1>3, <1>4 DEF Next, vars, Rests, Reload

LEMMA OnePastKept ==
  ASSUME IInv, [Next]_vars
  PROVE  OnePast'
<1> USE Standing DEF OnePast, IInv, ForAuth, ForSettings, Over
<1>1. ASSUME NEW c \in Mine, NEW q, Goes(c, q), UNCHANGED sidecar,
             pc[c] \notin {"inode", "write"} \/ Op(c) \in Credential, q \notin {"inode", "write"} \/ Op(c) \in Credential
      PROVE  OnePast'
  BY <1>1 DEF Goes, Credential, Setting
<1>2. CASE UNCHANGED <<pc, sidecar>>
  BY <1>2
<1>3. ASSUME NEW c \in Mine, NEW q, Goes(c, q), sidecar' = None, sidecar = None \/ sidecar = c, q \notin {"inode", "write"}
      PROVE  OnePast'
  BY <1>3 DEF Goes
<1>4. ASSUME NEW c \in Mine, NEW q, Goes(c, q), sidecar' = c, sidecar = None \/ sidecar = c, q \in {"inode", "write"}, Op(c) \in Setting
      PROVE  OnePast'
  BY <1>4 DEF Goes
<1>5. ASSUME NEW c \in Mine, Step(c) PROVE OnePast'
  <2>1. CASE Begins(c) \/ Opens(c) \/ Loads(c) \/ Rereads(c) \/ LooksAgain(c)
    BY <1>1, <2>1 DEF Begins, Opens, Loads, Rereads, LooksAgain, Asks, Leaves, locks
  <2>2. CASE Refreshes(c) \/ RefreshFails(c) \/ OpensTmp(c) \/ Fills(c) \/ Renames(c) \/ TmpFails(c)
    BY <1>1, <2>2 DEF Refreshes, RefreshFails, OpensTmp, Fills, Renames, TmpFails, Leaves, locks
  <2>3. CASE Sets(c) \/ Edits(c) \/ Starts(c)
    BY <1>1, <2>3 DEF Sets, Edits, Starts, locks
  <2>4. ASSUME Builds(c), Op(c) \in Setting, sidecar = None \/ sidecar = c PROVE OnePast'
    BY <1>3, <1>4, <2>4 DEF Builds
  <2>5. CASE TakesSidecar(c) \/ TakesInode(c)
    BY <1>4, <2>4, <2>5 DEF TakesSidecar, TakesInode, SidecarFree
  <2>6. ASSUME Breaks(c), Op(c) \in Setting PROVE OnePast'
    BY <1>1, <1>3, <2>6 DEF Breaks
  <2>7. CASE TimesOut(c) \/ Writes(c) \/ WriteFails(c)
    BY <1>3, <2>6, <2>7 DEF TimesOut, Writes, WriteFails
  <2>8. CASE Hears(c) \/ HearsError(c)
    BY <1>1, <2>8 DEF Hears, HearsError
  <2>9. CASE CancelEdit(c)
    BY <1>1, <1>2, <2>9 DEF CancelEdit, Threaded
  <2> QED
    BY <1>5, <2>1, <2>2, <2>3, <2>5, <2>7, <2>8, <2>9 DEF Step
<1>6. ASSUME NEW p \in Procs, Crash(p) PROVE OnePast'
  BY <1>6 DEF Crash, Of
<1> QED
  BY <1>2, <1>5, <1>6 DEF Next, vars, locks, Rests, Reload

\* The file is replaced and written by a call of auth.json, or by the save with the sidecar lock.
LEMMA WhoWrites ==
  ASSUME IInv, [Next]_vars
  PROVE  \/ UNCHANGED <<path, Disk>>
         \/ \E c \in Mine : Op(c) \in Credential
         \/ \E c \in Mine : Writes(c)
<1> USE Standing DEF Disk
<1>1. ASSUME NEW c \in Mine, Opens(c) \/ OpensTmp(c) \/ Fills(c) \/ Renames(c) PROVE Op(c) \in Credential
  BY <1>1 DEF Opens, OpensTmp, Fills, Renames, ForAuth
<1>2. CASE UNCHANGED disk
  BY <1>2 DEF disk
<1>3. ASSUME NEW c \in Mine, Step(c)
      PROVE  UNCHANGED disk \/ Op(c) \in Credential \/ Writes(c)
  <2>1. CASE Begins(c) \/ Loads(c) \/ Rereads(c) \/ LooksAgain(c) \/ Refreshes(c) \/ RefreshFails(c)
             \/ TmpFails(c)
    BY <2>1 DEF Begins, Loads, Rereads, LooksAgain, Refreshes, RefreshFails, TmpFails
  <2>2. CASE Sets(c) \/ Edits(c) \/ Starts(c) \/ TakesSidecar(c) \/ TakesInode(c) \/ TimesOut(c)
    BY <2>2 DEF Sets, Edits, Starts, TakesSidecar, TakesInode, TimesOut
  <2>3. CASE WriteFails(c) \/ Hears(c) \/ HearsError(c) \/ CancelEdit(c)
    BY <2>3 DEF WriteFails, Hears, HearsError, CancelEdit
  <2> QED
    BY <1>1, <1>3, <2>1, <2>2, <2>3 DEF Step
<1>4. ASSUME NEW p \in Procs, Reload(p) \/ Crash(p) PROVE UNCHANGED disk
  BY <1>4 DEF Reload, Crash
<1>5. CASE UNCHANGED vars
  BY <1>2, <1>5 DEF vars
<1> QED
  BY <1>2, <1>3, <1>4, <1>5 DEF Next, Rests

LEMMA NotMovedKept ==
  ASSUME IInv, [Next]_vars
  PROVE  NotMoved'
<1> USE Standing DEF NotMoved, IInv, ForAuth, ForSettings, Over
<1>0. /\ DOMAIN fd = Mine /\ DOMAIN seen = Mine
      /\ \A c \in Mine : Op(c) \in Setting /\ pc[c] \in {"inode", "write"} => sidecar = c
  BY DEF Inodes, Values, OnePast
<1>1. CASE \E c \in Mine : Op(c) \in Credential
  <2>1. \A c \in Mine : pc'[c] # "inode" /\ Op(c) \notin Setting
    BY <1>1, PlacesKept DEF Places
  <2> QED
    BY <2>1
<1> SUFFICES ASSUME \A c \in Mine : Op(c) \in Setting /\ Op(c) \notin Credential
             PROVE  NotMoved'
  BY <1>1
<1>2. ASSUME NEW c \in Mine, Writes(c) PROVE NotMoved'
  <2>1. pc' = [pc EXCEPT ![c] = "told"] /\ \A d \in Mine : d # c => pc[d] \notin {"inode", "write"}
    BY <1>0, <1>2 DEF Writes, Goes
  <2> QED
    BY <2>1
<1>3. CASE UNCHANGED <<path, Disk>>
  <2>1. ASSUME NEW c \in Mine, NEW q, Goes(c, q), UNCHANGED <<fd, seen>>, q \notin {"inode", "write"} PROVE NotMoved'
    BY <1>3, <2>1 DEF Goes
  <2>2. CASE UNCHANGED <<pc, fd, seen>>
    BY <1>3, <2>2
  <2>3. ASSUME NEW c \in Mine, NEW q, Goes(c, q), seen' = [seen EXCEPT ![c] = Disk], UNCHANGED fd, q # "inode" PROVE NotMoved'
    BY <1>0, <1>3, <2>3 DEF Goes
  <2>4. ASSUME NEW c \in Mine, Builds(c), UNCHANGED fd PROVE NotMoved'
    BY <2>3, <2>4 DEF Builds
  <2>5. ASSUME NEW c \in Mine, Goes(c, "inode"), fd' = [fd EXCEPT ![c] = path], path # 0, UNCHANGED seen PROVE NotMoved'
    BY <1>0, <1>3, <2>5 DEF Goes
  <2>6. ASSUME NEW c \in Mine, Step(c) PROVE NotMoved'
    <3>1. CASE TakesSidecar(c) \/ TakesInode(c)
      BY <2>4, <2>5, <3>1 DEF TakesSidecar, TakesInode
    <3>2. CASE Sets(c) \/ Edits(c) \/ Starts(c) \/ TimesOut(c) \/ WriteFails(c) \/ Hears(c) \/ HearsError(c) \/ CancelEdit(c)
      BY <2>1, <2>2, <3>2 DEF Sets, Edits, Starts, TimesOut, WriteFails, Breaks, Hears, HearsError, CancelEdit
    <3> QED
      BY <1>2, <2>6, <3>1, <3>2
      DEF Step, Begins, Opens, Loads, Rereads, LooksAgain, Refreshes, RefreshFails, OpensTmp, Fills, Renames, TmpFails
  <2>7. ASSUME NEW p \in Procs, Crash(p) PROVE NotMoved'
    BY <1>3, <2>7 DEF Crash
  <2> QED
    BY <2>2, <2>6, <2>7 DEF Next, vars, Rests, Reload
<1> QED
  BY <1>2, <1>3, WhoWrites

LEMMA WritesOnceKept ==
  ASSUME IInv, [Next]_vars
  PROVE  WritesOnce'
<1> USE Standing DEF WritesOnce, IInv, Before, ForAuth, ForSettings, Over
<1>1. CASE \E c \in Mine : Op(c) \in Credential
  BY <1>1
<1> SUFFICES ASSUME \A c \in Mine : Op(c) \in Setting /\ Op(c) \notin Credential
             PROVE  WritesOnce'
  BY <1>1
<1>2. ASSUME NEW c \in Mine, Writes(c) PROVE WritesOnce'
  BY <1>2 DEF Writes, Goes
<1>3. CASE UNCHANGED wrote
  <2>1. ASSUME NEW c \in Mine, NEW q, Goes(c, q), pc[c] \in Before \/ q \notin Before PROVE WritesOnce'
    BY <1>3, <2>1 DEF Goes
  <2>2. CASE UNCHANGED pc
    BY <1>3, <2>2
  <2>3. ASSUME NEW c \in Mine, Builds(c), pc[c] \in Before PROVE WritesOnce'
    BY <2>1, <2>3 DEF Builds
  <2>4. ASSUME NEW c \in Mine, Step(c), ~Writes(c) PROVE WritesOnce'
    <3>1. CASE TakesSidecar(c) \/ TakesInode(c)
      BY <2>1, <2>3, <3>1 DEF TakesSidecar, TakesInode
    <3>2. CASE Sets(c) \/ Edits(c) \/ Starts(c) \/ TimesOut(c) \/ WriteFails(c) \/ Hears(c) \/ HearsError(c) \/ CancelEdit(c)
      BY <2>1, <2>2, <3>2 DEF Sets, Edits, Starts, TimesOut, WriteFails, Breaks, Hears, HearsError, CancelEdit
    <3> QED
      BY <2>4, <3>1, <3>2
      DEF Step, Begins, Opens, Loads, Rereads, LooksAgain, Refreshes, RefreshFails, OpensTmp, Fills, Renames, TmpFails
  <2>5. ASSUME NEW p \in Procs, Crash(p) PROVE WritesOnce'
    BY <1>3, <2>5 DEF Crash
  <2> QED
    BY <1>2, <2>2, <2>4, <2>5 DEF Next, vars, Rests, Reload
<1>4. ASSUME NEW c \in Mine, Step(c) PROVE UNCHANGED wrote \/ Writes(c)
  BY <1>4
  DEF Step, history, Begins, Opens, Loads, Rereads, LooksAgain, Refreshes, RefreshFails, OpensTmp, Fills, Renames, TmpFails,
      Sets, Edits, Starts, TakesSidecar, TakesInode, TimesOut, WriteFails, Hears, HearsError, CancelEdit
<1> QED
  BY <1>2, <1>3, <1>4 DEF Next, vars, history, Rests, Reload, Crash

LEMMA InodesStand ==
  ASSUME [Next]_vars
  PROVE  UNCHANGED node \/ \E c \in Mine : Opens(c) \/ OpensTmp(c) \/ Fills(c) \/ Writes(c)
BY DEF Next, vars, disk, Rests, Step, Begins, Loads, Rereads, LooksAgain, Refreshes, RefreshFails, Renames, TmpFails,
       Sets, Edits, Starts, TakesSidecar, TakesInode, TimesOut, WriteFails, Hears, HearsError, CancelEdit, Reload, Crash

LEMMA FlocksKept ==
  ASSUME IInv, [Next]_vars
  PROVE  Flocks'
<1> USE Standing DEF Flocks, IInv, ForAuth, ForSettings, Over
<1> DEFINE Had == {"refreshing", "write", "fill", "replace"}
<1>0. /\ DOMAIN fd = Mine /\ \A c \in Mine : fd[c] \in 0..Len(node)
      /\ Len(node) \in Nat /\ path \in 0..Len(node)
  BY LenProperties DEF Inodes
<1>1. /\ Len(node) <= Len(node')
      /\ Len(node') \in Nat
  <2>1. \A v : v \in Content => Len(Append(node, v)) = Len(node) + 1
    BY AppendProperties DEF Inodes
  <2>2. Empty \in Content /\ \A c \in Mine : Change(c) \in Content
    BY ChangeTyped DEF Empty, Content
  <2>3. \A v \in Content, i \in 0..Len(node) : Len([node EXCEPT ![i] = v]) = Len(node)
    BY Overwritten DEF Inodes
  <2>4. tmp \in 0..Len(node) /\ \A c \in Mine : out[c] \in 0..Len(node)
    BY DEF Inodes
  <2>5. CASE UNCHANGED node
    BY <1>0, <2>5
  <2>6. ASSUME NEW c \in Mine, Opens(c) \/ OpensTmp(c) \/ Fills(c) \/ Writes(c) PROVE Len(node') = Len(node) \/ Len(node') = Len(node) + 1
    BY <2>1, <2>2, <2>3, <2>4, <2>6 DEF Opens, OpensTmp, Fills, Writes
  <2> QED
    BY <1>0, <2>5, <2>6, InodesStand
<1>2. ASSUME NEW h \in flock PROVE h = <<h[1], h[2]>> /\ h[1] \in 1..Len(node') /\ h[2] \in Mine'
  BY <1>0, <1>1, <1>2
<1>3. ASSUME NEW c \in Mine, NEW q, Goes(c, q), q = "flock" => fd'[c] # 0, Unflocks(c) \/ (UNCHANGED flock /\ (pc[c] \notin Had \/ q \in Had)),
             \A d \in Mine : d # c \/ pc[c] \in Had => fd'[d] = fd[d]
      PROVE  Flocks'
  BY <1>0, <1>2, <1>3 DEF Goes, Unflocks
<1>4. ASSUME NEW c \in Mine, NEW q \in Had, Goes(c, q), flock' = flock \cup {<<fd[c], c>>}, Free(fd[c]), fd[c] # 0, UNCHANGED fd
      PROVE  Flocks'
  <2>1. fd[c] \in 1..Len(node')
    BY <1>0, <1>1, <1>4
  <2>2. \A h \in flock' : (h \in flock /\ h[1] # fd[c]) \/ h = <<fd[c], c>>
    BY <1>4 DEF Free
  <2>3. flock' \subseteq (1..Len(node')) \X Mine
    BY <1>2, <1>4, <2>1
  <2>4. \A h, g \in flock' : h[1] = g[1] => h = g
    BY <2>2
  <2>5. \A h \in flock' : fd'[h[2]] = h[1] /\ pc'[h[2]] \in Had
    BY <1>0, <1>2, <1>4, <2>2 DEF Goes
  <2>6. \A d \in Mine : pc'[d] = "flock" => fd'[d] # 0
    BY <1>4 DEF Goes
  <2> QED
    BY <2>3, <2>4, <2>5, <2>6
<1>5. CASE UNCHANGED <<flock, pc, fd>>
  BY <1>2, <1>5
<1>6. ASSUME NEW c \in Mine, Opens(c) PROVE Flocks'
  <2>1. fd' = [fd EXCEPT ![c] = path'] /\ UNCHANGED flock /\ Goes(c, "flock") /\ pc[c] \notin Had
    BY <1>6 DEF Opens, locks
  <2>2. path' # 0
    BY <1>0, <1>1, <1>6, AppendProperties DEF Opens, Inodes, Empty, Content
  <2> QED
    BY <1>0, <1>3, <2>1, <2>2
<1>7. ASSUME NEW c \in Mine, Leaves(c), UNCHANGED fd PROVE Flocks'
  BY <1>3, <1>7 DEF Leaves
<1>8. ASSUME NEW c \in Mine, Begins(c) \/ Loads(c) \/ Rereads(c) \/ LooksAgain(c) PROVE Flocks'
  BY <1>3, <1>4, <1>7, <1>8 DEF Begins, Loads, Rereads, LooksAgain, Asks
<1>9. ASSUME NEW c \in Mine, Refreshes(c) \/ RefreshFails(c) \/ OpensTmp(c) \/ Fills(c) \/ Renames(c) \/ TmpFails(c) PROVE Flocks'
  BY <1>3, <1>7, <1>9 DEF Refreshes, RefreshFails, OpensTmp, Fills, Renames, TmpFails, locks
<1>10. ASSUME NEW c \in Mine, Sets(c) \/ Edits(c) \/ Starts(c) \/ Hears(c) \/ HearsError(c) \/ CancelEdit(c) PROVE Flocks'
  BY <1>3, <1>5, <1>10 DEF Sets, Edits, Starts, Hears, HearsError, CancelEdit, locks
<1>11. ASSUME NEW c \in Mine, TimesOut(c) \/ Writes(c) \/ WriteFails(c) PROVE Flocks'
  BY <1>3, <1>11 DEF TimesOut, Writes, WriteFails, Breaks
<1>12. ASSUME NEW c \in Mine, TakesSidecar(c) PROVE Flocks'
  <2>1. CASE path = 0
    BY <1>3, <1>12, <2>1 DEF TakesSidecar, Builds
  <2>2. CASE path # 0
    BY <1>0, <1>3, <1>12, <2>2 DEF TakesSidecar
  <2> QED
    BY <2>1, <2>2
<1>13. ASSUME NEW c \in Mine, TakesInode(c) PROVE Flocks'
  <2>1. fd[c] = path /\ path # 0
    BY <1>13 DEF TakesInode, NotMoved
  <2> QED
    BY <1>3, <1>4, <1>13, <2>1 DEF TakesInode, Builds
<1>14. ASSUME NEW p \in Procs, Crash(p) PROVE Flocks'
  BY <1>2, <1>14 DEF Crash, Of, disk
<1> QED
  BY <1>5, <1>6, <1>8, <1>9, <1>10, <1>11, <1>12, <1>13, <1>14 DEF Next, vars, locks, Step, Rests, Reload

LEMMA Preserved == IInv /\ [Next]_vars => IInv'
BY SameHistory, InodesKept, ValuesKept, WantedKept, QueuesKept, MarksKept, PlacesKept, OnePastKept, NotMovedKept,
   FlocksKept, WritesOnceKept DEF IInv

LEMMA Always == Spec => []IInv
BY Initially, Preserved, PTL DEF Spec

-----------------------------------------------------------------------------
\* For every history the types hold; two calls never have the flock of one inode, and who has one has
\* opened that inode (`with_lock', `transact').
THEOREM FlocksExclude == Spec => []TypeOK
<1>1. IInv => TypeOK
  BY DEF IInv, TypeOK, Inodes, Values, Queues, Marks, Places, OnePast, Flocks, ForAuth, ForSettings, Threaded
<1> QED
  BY <1>1, Always, PTL

\* Whatever processes save settings at a time, fail, are cancelled or die: a write of settings.json
\* changes what the call that writes was asked to, and no entry of another (`transact').
THEOREM SavesKeepTheRest ==
  ASSUME OnlySettings
  PROVE  Spec => OnlyAsked
<1>1. IInv /\ [Next]_vars => [ChangesAsked]_vars
  <2> SUFFICES ASSUME IInv, [Next]_vars PROVE ChangesAsked
    OBVIOUS
  <2> USE Standing
  <2>1. \A c \in Mine : Op(c) \in Setting /\ Op(c) \notin Credential
    BY OnlySettings DEF OnlySettings, Op, Mine, IInv
  <2>2. CASE UNCHANGED Disk
    BY <2>2 DEF ChangesAsked
  <2>3. ASSUME NEW c \in Mine, Writes(c) PROVE ChangesAsked
    <3>1. Disk' = Change(c)
      <4>1. /\ node' = Append(node, Change(c)) /\ path' = Len(node') /\ node \in Seq(Content)
            /\ Change(c) \in Content
        BY <2>3, ChangeTyped DEF Writes, IInv, Inodes
      <4>2. Len(node') = Len(node) + 1 /\ node'[Len(node) + 1] = Change(c) /\ path' # 0
        BY <4>1, AppendProperties, LenProperties
      <4> QED
        BY <4>1, <4>2 DEF Disk
    <3>2. seen[c] = Disk
      BY <2>1, <2>3 DEF Writes, IInv, NotMoved
    <3>3. ASSUME NEW k \in Keys, Disk'[k] # Disk[k]
          PROVE  k \in DOMAIN snap[c] /\ Disk'[k] = snap[c][k] /\ wrote'[k] = c
      BY <2>3, <3>1, <3>2, <3>3 DEF Change, Writes
    <3>4. \A k \in Keys : wrote[k] # c
      BY <2>1, <2>3 DEF Writes, IInv, WritesOnce, Before
    <3> QED
      BY <3>3, <3>4 DEF ChangesAsked
  <2> QED
    BY <2>1, <2>2, <2>3, WhoWrites
<1> QED
  BY <1>1, Always, PTL DEF Spec, OnlyAsked

-----------------------------------------------------------------------------
\* The asyncio.Lock of a process: its holder first, then who waits, each of them once.
In(s, c) == \E i \in DOMAIN s : s[i] = c
InFront(s, c, d) == \E i, j \in DOMAIN s : i < j /\ s[i] = c /\ s[j] = d
Once(s) == \A i, j \in DOMAIN s : s[i] = s[j] => i = j

LEMMA AtTheEnd ==
  ASSUME NEW S, NEW s \in Seq(S), NEW c \in S
  PROVE  /\ \A d : In(Append(s, c), d) <=> In(s, d) \/ d = c
         /\ \A d, e : InFront(s, d, e) => InFront(Append(s, c), d, e)
         /\ \A d : In(s, d) => InFront(Append(s, c), d, c)
         /\ Once(s) /\ ~In(s, c) => Once(Append(s, c))
         /\ Append(s, c) # <<>> /\ (s = <<>> => Head(Append(s, c)) = c)
         /\ s # <<>> => Head(Append(s, c)) = Head(s)
<1> DEFINE n == Len(s)
           m == Append(s, c)
<1>1. n \in Nat /\ DOMAIN s = 1..n
  BY LenProperties
<1>2. /\ m \in Seq(S) /\ Len(m) = n + 1 /\ m # <<>>
      /\ \A i \in 1..n : m[i] = s[i]
      /\ m[n + 1] = c
  BY AppendProperties
<1>3. DOMAIN m = 1..(n + 1)
  BY <1>2, LenProperties
<1>4. Head(m) = IF s = <<>> THEN c ELSE Head(s)
  BY HeadTailAppend
<1> HIDE DEF n, m
<1>5. \A d : In(m, d) <=> In(s, d) \/ d = c
  BY <1>1, <1>2, <1>3 DEF In
<1>6. ASSUME NEW d, NEW e, InFront(s, d, e) PROVE InFront(m, d, e)
  <2>1. PICK i \in 1..n, j \in 1..n : i < j /\ s[i] = d /\ s[j] = e
    BY <1>1, <1>6 DEF InFront
  <2> QED
    BY <1>1, <1>2, <1>3, <2>1 DEF InFront
<1>7. ASSUME NEW d, In(s, d) PROVE InFront(m, d, c)
  <2>1. PICK i \in 1..n : s[i] = d
    BY <1>1, <1>7 DEF In
  <2>2. i < n + 1 /\ i \in DOMAIN m /\ n + 1 \in DOMAIN m /\ m[i] = d /\ m[n + 1] = c
    BY <1>1, <1>2, <1>3, <2>1
  <2> QED
    BY <2>2 DEF InFront
<1>8. ASSUME Once(s), ~In(s, c) PROVE Once(m)
  <2>1. ASSUME NEW i \in 1..(n + 1), NEW j \in 1..(n + 1), m[i] = m[j] PROVE i = j
    BY <1>1, <1>2, <1>8, <2>1 DEF Once, In
  <2> QED
    BY <1>3, <2>1 DEF Once
<1> QED
  BY <1>2, <1>4, <1>5, <1>6, <1>7, <1>8 DEF m

LEMMA OutOfLine ==
  ASSUME NEW S, NEW s \in Seq(S), NEW c, Once(s)
  PROVE  /\ \A d : In(Without(s, c), d) <=> In(s, d) /\ d # c
         /\ \A d, e : InFront(s, d, e) /\ d # c /\ e # c => InFront(Without(s, c), d, e)
         /\ Once(Without(s, c))
         /\ s # <<>> /\ Head(s) # c => Without(s, c) # <<>> /\ Head(Without(s, c)) = Head(s)
<1> DEFINE n == Len(s)
           m == Without(s, c)
<1>1. n \in Nat /\ DOMAIN s = 1..n /\ (s # <<>> => n > 0 /\ Head(s) = s[1])
  BY LenProperties, EmptySeq
<1>2. CASE ~In(s, c)
  <2>1. m = s
    BY <1>2 DEF Without, In
  <2> QED
    BY <1>2, <2>1 DEF In, InFront
<1>3. CASE In(s, c)
  <2> DEFINE p == CHOOSE i \in DOMAIN s : s[i] = c
             a == SubSeq(s, 1, p - 1)
             b == SubSeq(s, p + 1, n)
  <2>1. p \in 1..n /\ s[p] = c
    BY <1>1, <1>3 DEF In
  <2>2. m = a \o b
    BY <1>3 DEF Without, In, RemoveAt
  <2> HIDE DEF p
  <2>3. /\ a \in Seq(S) /\ Len(a) = p - 1 /\ \A i \in 1..(p - 1) : a[i] = s[i]
        /\ b \in Seq(S) /\ Len(b) = n - p /\ \A i \in 1..(n - p) : b[i] = s[p + i]
    <3>1. \A i \in 1..(p - 1) : s[i] \in S
      BY <1>1, <2>1, ElementOfSeq
    <3>2. \A i \in (p + 1)..n : s[i] \in S
      BY <1>1, <2>1, ElementOfSeq
    <3>3. a \in Seq(S) /\ Len(a) = p - 1 /\ \A i \in 1..(p - 1) : a[i] = s[i]
      BY <1>1, <2>1, <3>1, SubSeqProperties
    <3>4. b \in Seq(S) /\ Len(b) = n - p /\ \A i \in 1..(n - p) : b[i] = s[p + i]
      <4>1. p + 1 \in Int /\ n \in Int
        BY <1>1, <2>1
      <4>2. /\ b \in Seq(S) /\ Len(b) = IF p + 1 <= n THEN n - (p + 1) + 1 ELSE 0
            /\ \A i \in 1..(n - (p + 1) + 1) : b[i] = s[p + 1 + i - 1]
        BY <3>2, <4>1, SubSeqProperties
      <4> HIDE DEF b, n
      <4>3. Len(b) = n - p
        <5>1. n \in Nat /\ p \in 1..n
          BY <1>1, <2>1
        <5>2. CASE p + 1 <= n
          BY <4>2, <5>1, <5>2
        <5>3. CASE ~(p + 1 <= n)
          BY <4>2, <5>1, <5>3
        <5> QED
          BY <5>2, <5>3
      <4>4. ASSUME NEW i \in 1..(n - p) PROVE b[i] = s[p + i]
        <5>1. i \in 1..(n - (p + 1) + 1) /\ p + 1 + i - 1 = p + i
          BY <1>1, <2>1
        <5> QED
          BY <4>2, <5>1
      <4> QED
        BY <4>2, <4>3, <4>4
    <3> QED
      BY <3>3, <3>4
  <2> HIDE DEF a, b, m
  <2>4. /\ m \in Seq(S) /\ Len(m) = n - 1 /\ DOMAIN m = 1..(n - 1)
        /\ \A i \in 1..(n - 1) : m[i] = IF i < p THEN s[i] ELSE s[i + 1]
    <3>1. m \in Seq(S) /\ Len(m) = n - 1 /\ \A i \in 1..(n - 1) : m[i] = IF i <= p - 1 THEN a[i] ELSE b[i - (p - 1)]
      <4>1. /\ m \in Seq(S) /\ Len(m) = Len(a) + Len(b)
            /\ \A i \in 1..(Len(a) + Len(b)) : m[i] = IF i <= Len(a) THEN a[i] ELSE b[i - Len(a)]
        BY <2>2, <2>3, ConcatProperties
      <4>2. Len(a) + Len(b) = n - 1
        BY <1>1, <2>1, <2>3
      <4> QED
        BY <2>3, <4>1, <4>2
    <3>2. ASSUME NEW i \in 1..(n - 1) PROVE m[i] = IF i < p THEN s[i] ELSE s[i + 1]
      <4>1. CASE i < p
        BY <1>1, <2>1, <2>3, <3>1, <4>1
      <4>2. CASE ~(i < p)
        <5>1. i - (p - 1) \in 1..(n - p) /\ p + (i - (p - 1)) = i + 1 /\ ~(i <= p - 1)
          BY <1>1, <2>1, <4>2
        <5> QED
          BY <2>3, <3>1, <4>2, <5>1
      <4> QED
        BY <4>1, <4>2
    <3> QED
      BY <3>1, <3>2, LenProperties
  \* Where an element of s is in m.
  <2> DEFINE at(i) == IF i < p THEN i ELSE i - 1
  <2>5. ASSUME NEW i \in 1..n, s[i] # c PROVE at(i) \in 1..(n - 1) /\ m[at(i)] = s[i]
    <3>1. i # p
      BY <2>1, <2>5
    <3> QED
      BY <1>1, <2>1, <2>4, <3>1
  <2>6. ASSUME NEW i \in 1..(n - 1)
        PROVE  \E j \in 1..n : m[i] = s[j] /\ j # p /\ i = at(j)
    <3>1. CASE i < p
      <4>1. i \in 1..n /\ m[i] = s[i] /\ i # p /\ i = at(i)
        BY <1>1, <2>1, <2>4, <3>1
      <4> QED
        BY <4>1
    <3>2. CASE ~(i < p)
      <4>1. i + 1 \in 1..n /\ m[i] = s[i + 1] /\ i + 1 # p /\ i = at(i + 1)
        BY <1>1, <2>1, <2>4, <3>2
      <4> QED
        BY <4>1
    <3> QED
      BY <3>1, <3>2
  <2>7. \A j \in 1..n : j # p => s[j] # c
    BY <1>1, <2>1 DEF Once
  <2>8. \A i, j \in 1..n : i < j /\ i # p /\ j # p => at(i) < at(j)
    BY <1>1, <2>1
  <2>9. \A i, j \in 1..n : i # p /\ j # p /\ at(i) # at(j) => i # j
    OBVIOUS
  <2> HIDE DEF at
  <2>10. \A d : In(m, d) <=> In(s, d) /\ d # c
    <3>1. ASSUME NEW d, In(m, d) PROVE In(s, d) /\ d # c
      BY SMTT(60), <1>1, <2>4, <2>6, <2>7, <3>1 DEF In
    <3>2. ASSUME NEW d, In(s, d), d # c PROVE In(m, d)
      BY <1>1, <2>4, <2>5, <3>2 DEF In
    <3> QED
      BY <3>1, <3>2
  <2>11. ASSUME NEW d, NEW e, InFront(s, d, e), d # c, e # c PROVE InFront(m, d, e)
    <3>1. PICK i \in 1..n, j \in 1..n : i < j /\ s[i] = d /\ s[j] = e
      BY <1>1, <2>11 DEF InFront
    <3>2. i # p /\ j # p
      BY <2>1, <2>11, <3>1
    <3>3. at(i) < at(j) /\ at(i) \in 1..(n - 1) /\ at(j) \in 1..(n - 1) /\ m[at(i)] = d /\ m[at(j)] = e
      BY <2>5, <2>8, <2>11, <3>1, <3>2
    <3> QED
      BY <2>4, <3>3 DEF InFront
  <2>12. Once(m)
    <3>1. ASSUME NEW i \in 1..(n - 1), NEW j \in 1..(n - 1), m[i] = m[j] PROVE i = j
      <4>1. PICK k \in 1..n : m[i] = s[k] /\ i = at(k)
        BY <2>6
      <4>2. PICK l \in 1..n : m[j] = s[l] /\ j = at(l)
        BY <2>6
      <4>3. k = l
        BY <1>1, <3>1, <4>1, <4>2 DEF Once
      <4> QED
        BY <4>1, <4>2, <4>3
    <3> QED
      BY <2>4, <3>1 DEF Once
  <2>13. ASSUME s # <<>>, Head(s) # c PROVE m # <<>> /\ Head(m) = Head(s)
    <3>1. p > 1 /\ n > 1
      BY <1>1, <2>1, <2>13
    <3>2. m[1] = s[1] /\ m # <<>>
      BY <1>1, <2>4, <3>1, EmptySeq
    <3> QED
      BY <1>1, <2>13, <3>2
  <2> QED
    BY <2>10, <2>11, <2>12, <2>13 DEF m
<1> QED
  BY <1>2, <1>3

-----------------------------------------------------------------------------
\* Where a call is that holds an inode of auth.json, is about to, or is at work in its turn.
AtWork == {"refreshing", "write", "fill", "replace"}
Lined == {"queued", "flock"} \cup AtWork \cup Threaded

\* Who is in a process's lock, and who has it: an edit may leave with its thread running.
Lines(line, at) ==
  /\ \A p \in Procs : Once(line[p])
  /\ \A p \in Procs, c \in Mine : In(line[p], c) => Proc(c) = p /\ at[c] \in Lined
  /\ \A c \in Mine : at[c] \in Lined /\ Op(c) # "edit" => In(line[Proc(c)], c)
  /\ \A c \in Mine : at[c] \in Lined \ {"queued"} /\ Op(c) # "edit" =>
       line[Proc(c)] # <<>> /\ Head(line[Proc(c)]) = c
InLine ==
  /\ Lines(lock, pc)
  /\ \A c \in left : Op(c) = "edit" /\ pc[c] \in Threaded \cup Over /\ \A p \in Procs : ~In(lock[p], c)

\* The head of a lock is in it.
LEMMA HeadIsIn ==
  ASSUME NEW S, NEW s \in Seq(S), s # <<>>
  PROVE  In(s, Head(s)) /\ \A c : Once(s) => ~InFront(s, c, Head(s))
<1>1. Len(s) \in Nat /\ DOMAIN s = 1..Len(s) /\ Len(s) > 0 /\ Head(s) = s[1]
  BY LenProperties, EmptySeq
<1>2. In(s, Head(s))
  BY <1>1 DEF In
<1>3. ASSUME NEW c, Once(s), InFront(s, c, Head(s)) PROVE FALSE
  <2>1. PICK i \in DOMAIN s, j \in DOMAIN s : i < j /\ s[j] = Head(s)
    BY <1>3 DEF InFront
  <2>2. 1 \in DOMAIN s /\ s[1] = s[j]
    BY <1>1, <2>1
  <2>3. j = 1
    BY <1>3, <2>1, <2>2 DEF Once
  <2> QED
    BY <1>1, <2>1, <2>3
<1> QED
  BY <1>2, <1>3

\* What a step makes of the line: nobody moves up, one goes on at the head, one leaves, one joins.
GoesOn(c) ==
  /\ UNCHANGED <<lock, left>>
  /\ \E q : Goes(c, q) /\ (q \in Lined => pc[c] \in Lined) /\ (pc[c] \in Lined => q \in Lined \/ c \in left)
            /\ (c \in left => q \in Threaded \cup Over)
            /\ (q \in Lined \ {"queued"} /\ Op(c) # "edit" =>
                  pc[c] # "queued" \/ (lock[Proc(c)] # <<>> /\ Head(lock[Proc(c)]) = c))
Quits(c) ==
  /\ Pops(Proc(c), c)
  /\ \/ \E q : Goes(c, q) /\ q \notin Lined
     \/ Op(c) = "edit" /\ UNCHANGED pc
  /\ left' \subseteq left \cup {c} /\ (c \in left' => Op(c) = "edit" /\ pc'[c] \in Threaded \cup Over)
Joins(c) ==
  /\ Goes(c, "queued") /\ c \notin left /\ UNCHANGED left
  /\ \/ pc[c] \notin Lined /\ lock' = [lock EXCEPT ![Proc(c)] = Append(@, c)]
     \/ pc[c] # "queued" /\ Op(c) # "edit" /\ lock' = [lock EXCEPT ![Proc(c)] = Append(Without(@, c), c)]

LEMMA LineSteps ==
  ASSUME IInv, InLine, NEW c \in Mine, Step(c)
  PROVE  GoesOn(c) \/ Quits(c) \/ Joins(c)
<1> USE DEF Lined, AtWork, Threaded, Over
<1>0. /\ \A d \in Mine : Op(d) \in Credential \cup Setting /\ (Op(d) \in Setting => Op(d) \notin Credential)
      /\ Proc(c) \in Procs /\ DOMAIN lock = Procs
      /\ lock[Proc(c)] \in Seq(Mine)
  BY TheHistory DEF IInv, Queues
<1>1. pc[c] = "queued" /\ Op(c) # "edit" => lock[Proc(c)] # <<>>
  <2>1. DOMAIN <<>> = {}
    OBVIOUS
  <2> QED
    BY <2>1 DEF InLine, Lines, In
<1>l. c \in left => Op(c) = "edit" /\ pc[c] \in Threaded \cup Over
  BY DEF InLine
<1>c. Op(c) \in Credential => Op(c) # "edit"
  BY DEF Credential
<1>f. pc[c] \in ForAuth => Op(c) # "edit"
  BY <1>c DEF IInv, Places
<1>p. c \in DOMAIN pc
  BY DEF IInv, Places
\* A step that leaves, or goes on from one place to another.
<1>q. ASSUME Pops(Proc(c), c), NEW q, Goes(c, q), q \in Over, UNCHANGED left PROVE Quits(c)
  BY <1>q, <1>l, <1>p DEF Quits, Goes
<1>g. ASSUME UNCHANGED <<lock, left>>, NEW q, Goes(c, q), c \notin left, pc[c] \in Lined, q \in Lined, pc[c] # "queued" PROVE GoesOn(c)
  BY <1>g DEF GoesOn
<1>h. ASSUME UNCHANGED <<lock, left>>, NEW q, Goes(c, q), pc[c] \in Threaded,
             q \in Threaded \/ (q = "done" /\ c \in left)
      PROVE  GoesOn(c)
  BY <1>h DEF GoesOn
<1>2. CASE Begins(c)
  <2>0. c \notin left /\ UNCHANGED left /\ pc[c] = "new" /\ Op(c) # "edit"
    BY <1>2, <1>l, <1>c DEF Begins
  <2>1. CASE loaded[Proc(c)] /\ Op(c) = "refresh" /\ memory[Proc(c)][Key(c)] # Old
    <3>1. Goes(c, "done") /\ lock' = [lock EXCEPT ![Proc(c)] = lock[Proc(c)]]
      BY <1>2, <2>1 DEF Begins, Asks
    <3>2. UNCHANGED lock
      BY <3>1, <1>0 DEF IInv, Queues
    <3> QED
      BY <2>0, <3>1, <3>2 DEF GoesOn
  <2>2. CASE ~(loaded[Proc(c)] /\ Op(c) = "refresh" /\ memory[Proc(c)][Key(c)] # Old)
    <3>1. Goes(c, "queued") /\ lock' = [lock EXCEPT ![Proc(c)] = Append(lock[Proc(c)], c)]
      BY <1>2, <2>2 DEF Begins, Asks
    <3> QED
      BY <2>0, <3>1 DEF Joins
  <2> QED
    BY <2>1, <2>2
<1>3. CASE Loads(c)
  <2>0. c \notin left /\ UNCHANGED left /\ pc[c] = "flock" /\ Op(c) # "edit"
    BY <1>3, <1>l, <1>f DEF Loads, ForAuth
  <2>1. CASE Op(c) = "refresh" /\ Disk[Key(c)] # Old
    <3>1. Goes(c, "done") /\ Pops(Proc(c), c)
      BY <1>3, <2>1 DEF Loads, Asks, Pops
    <3> QED
      BY <1>q, <2>0, <3>1
  <2>2. CASE ~(Op(c) = "refresh" /\ Disk[Key(c)] # Old)
    <3>1. Goes(c, "queued") /\ lock' = [lock EXCEPT ![Proc(c)] = Append(Without(lock[Proc(c)], c), c)]
      BY <1>3, <2>2 DEF Loads, Asks
    <3> QED
      BY <2>0, <3>1 DEF Joins
  <2> QED
    BY <2>1, <2>2
<1>4. CASE Opens(c)
  <2>1. UNCHANGED <<lock, left>> /\ Goes(c, "flock") /\ pc[c] = "queued" /\ Op(c) # "edit" /\ Head(lock[Proc(c)]) = c
    BY <1>4, <1>c DEF Opens, locks
  <2> QED
    BY <1>1, <1>l, <2>1 DEF GoesOn
<1>5. CASE Starts(c)
  <2>1. UNCHANGED <<lock, left>> /\ Goes(c, "sidecar") /\ pc[c] = "queued" /\ Head(lock[Proc(c)]) = c
    BY <1>5 DEF Starts, locks
  <2> QED
    BY <1>1, <1>l, <2>1 DEF GoesOn
<1>6. CASE Rereads(c) \/ Refreshes(c) \/ OpensTmp(c) \/ Fills(c)
  <2>1. c \notin left
    BY <1>6, <1>l, <1>c, <1>f DEF Rereads, Refreshes, OpensTmp, Fills, ForAuth
  <2> QED
    BY <1>6, <1>g, <2>1 DEF Rereads, Refreshes, OpensTmp, Fills, locks
<1>7. CASE LooksAgain(c)
  <2>1. UNCHANGED left /\ c \notin left /\ pc[c] = "flock"
    BY <1>7, <1>l, <1>f DEF LooksAgain, ForAuth
  <2>2. Leaves(c) \/ (Goes(c, "refreshing") /\ UNCHANGED lock)
    BY <1>7 DEF LooksAgain
  <2> QED
    BY <1>g, <1>q, <2>1, <2>2 DEF Leaves
<1>8. CASE RefreshFails(c) \/ Renames(c) \/ TmpFails(c)
  BY <1>q, <1>8 DEF RefreshFails, Renames, TmpFails, Leaves
<1>9. CASE Sets(c)
  BY <1>l, <1>9 DEF Sets, Joins
<1>10. CASE Edits(c)
  <2>1. c \notin left /\ UNCHANGED left
    BY <1>10, <1>l DEF Edits
  <2> QED
    BY <1>10, <2>1 DEF Edits, Joins, GoesOn
<1>11. CASE TakesSidecar(c) \/ TakesInode(c)
  <2>1. UNCHANGED <<lock, left>> /\ pc[c] \in Threaded
    BY <1>11 DEF TakesSidecar, TakesInode
  <2>2. Goes(c, "inode") \/ Goes(c, "write") \/ Goes(c, "told") \/ (c \in left /\ Goes(c, "done"))
    BY <1>11 DEF TakesSidecar, TakesInode, Builds
  <2> QED
    BY <1>h, <2>1, <2>2
<1>12. CASE TimesOut(c) \/ WriteFails(c) \/ Writes(c)
  <2>1. UNCHANGED <<lock, left>> /\ pc[c] \in Threaded
    BY <1>12 DEF TimesOut, WriteFails, Writes
  <2>2. Goes(c, "told") \/ (IF c \in left THEN Goes(c, "done") ELSE Goes(c, "broke"))
    BY <1>12 DEF TimesOut, WriteFails, Writes, Breaks
  <2> QED
    BY <1>h, <2>1, <2>2
<1>13. CASE Hears(c) \/ HearsError(c)
  BY <1>q, <1>13 DEF Hears, HearsError
<1>14. CASE CancelEdit(c)
  <2>1. Pops(Proc(c), c) /\ Op(c) = "edit" /\ c \notin left
    BY <1>14 DEF CancelEdit
  <2>2. CASE pc[c] \in Threaded
    <3>1. left' = left \cup {c} /\ (Goes(c, "done") \/ UNCHANGED pc)
      BY <1>14, <2>2 DEF CancelEdit
    <3>2. pc'[c] \in Threaded \cup Over
      BY <1>p, <2>2, <3>1 DEF Goes
    <3> QED
      BY <2>1, <3>1, <3>2 DEF Quits
  <2>3. CASE pc[c] \notin Threaded
    BY <1>q, <1>14, <2>1, <2>3 DEF CancelEdit
  <2> QED
    BY <2>2, <2>3
<1> QED
  BY <1>2, <1>3, <1>4, <1>5, <1>6, <1>7, <1>8, <1>9, <1>10, <1>11, <1>12, <1>13, <1>14 DEF Step

LEMMA InLineKept ==
  ASSUME IInv, InLine, [Next]_vars
  PROVE  InLine'
<1>s. /\ Mine' = Mine /\ \A c \in Mine : Op(c)' = Op(c) /\ Proc(c)' = Proc(c)
  BY Standing
<1>0. /\ lock \in [Procs -> Seq(Mine)] /\ DOMAIN pc = Mine
      /\ \A c \in Mine : Proc(c) \in Procs
  BY TheHistory DEF IInv, Queues, Places
<1>a. \A p \in Procs : lock[p] \in Seq(Mine)
  BY <1>0
<1>l. left \subseteq Mine /\ left' \subseteq Mine
  BY <1>s, MarksKept DEF IInv, Marks
<1> DEFINE Kept == /\ Lines(lock', pc')
                   /\ \A d \in left' : Op(d) = "edit" /\ pc'[d] \in Threaded \cup Over /\ \A p \in Procs : ~In(lock'[p], d)
<1>2. ASSUME NEW c \in Mine, GoesOn(c) PROVE Kept
  <2>1. PICK q : /\ pc' = [pc EXCEPT ![c] = q] /\ lock' = lock /\ (q \in Lined => pc[c] \in Lined)
                 /\ (pc[c] \in Lined => q \in Lined \/ c \in left)
                 /\ (c \in left => q \in Threaded \cup Over) /\ (q \in Lined \ {"queued"} /\ Op(c) # "edit" =>
                      pc[c] # "queued" \/ (lock[Proc(c)] # <<>> /\ Head(lock[Proc(c)]) = c))
    BY <1>2 DEF GoesOn, Goes
  <2>2. pc'[c] = q /\ \A d \in Mine : d # c => pc'[d] = pc[d]
    BY <1>0, <2>1
  <2>3. \A p \in Procs : Once(lock[p])
    BY DEF InLine, Lines
  <2>4. \A p \in Procs, d \in Mine : In(lock[p], d) => Proc(d) = p /\ pc'[d] \in Lined
    BY <2>1, <2>2 DEF InLine, Lines
  <2>5. \A d \in Mine : pc'[d] \in Lined /\ Op(d) # "edit" => In(lock[Proc(d)], d)
    BY <2>1, <2>2 DEF InLine, Lines
  <2>6. \A d \in Mine : pc'[d] \in Lined \ {"queued"} /\ Op(d) # "edit" =>
          lock[Proc(d)] # <<>> /\ Head(lock[Proc(d)]) = d
    BY <2>1, <2>2 DEF InLine, Lines
  <2>7. Lines(lock, pc')
    BY <2>3, <2>4, <2>5, <2>6 DEF Lines
  <2>8. left' = left /\ \A d \in left : d # c => pc'[d] = pc[d]
    BY <1>2, <1>l, <2>2 DEF GoesOn
  <2>9. c \in left => q \in Threaded \cup Over
    BY <2>1
  <2> QED
    BY <2>1, <2>2, <2>7, <2>8, <2>9 DEF InLine
<1>3. ASSUME NEW c \in Mine, Quits(c) PROVE Kept
  <2> DEFINE s == lock[Proc(c)]
             m == Without(s, c)
  <2>1. /\ \A d : In(m, d) <=> In(s, d) /\ d # c
        /\ Once(m)
        /\ s # <<>> /\ Head(s) # c => m # <<>> /\ Head(m) = Head(s)
    BY <1>0, <1>a, OutOfLine DEF InLine, Lines
  <2>2. /\ lock'[Proc(c)] = m /\ \A p \in Procs : p # Proc(c) => lock'[p] = lock[p]
        /\ \A d \in Mine : d # c => pc'[d] = pc[d]
        /\ pc'[c] \notin Lined \/ Op(c) = "edit"
    BY <1>0, <1>3 DEF Quits, Pops, Goes
  <2> HIDE DEF m
  <2>q. Lines(lock', pc')
    <3>1. \A p \in Procs : Once(lock'[p])
      BY <1>0, <2>1, <2>2 DEF InLine, Lines
    <3>2. \A p \in Procs, d \in Mine : In(lock'[p], d) => Proc(d) = p /\ pc'[d] \in Lined
      BY <1>0, <2>1, <2>2 DEF InLine, Lines
    <3>3. \A d \in Mine : pc'[d] \in Lined /\ Op(d) # "edit" => In(lock'[Proc(d)], d)
      BY <1>0, <2>1, <2>2 DEF InLine, Lines
    <3>4. \A d \in Mine : pc'[d] \in Lined \ {"queued"} /\ Op(d) # "edit" =>
            lock'[Proc(d)] # <<>> /\ Head(lock'[Proc(d)]) = d
      BY <1>0, <2>1, <2>2 DEF InLine, Lines
    <3> QED
      BY <3>1, <3>2, <3>3, <3>4 DEF Lines
  <2>l. \A d \in left' : Op(d) = "edit" /\ pc'[d] \in Threaded \cup Over /\ \A p \in Procs : ~In(lock'[p], d)
    BY <1>0, <1>l, <1>3, <2>1, <2>2 DEF InLine, Quits, Lines
  <2> QED
    BY <2>q, <2>l
<1>4. ASSUME NEW c \in Mine, Joins(c), pc[c] \notin Lined, lock' = [lock EXCEPT ![Proc(c)] = Append(@, c)] PROVE Kept
  <2> DEFINE s == lock[Proc(c)]
             m == Append(s, c)
  <2>0. ~In(s, c)
    BY <1>0, <1>4 DEF InLine, Lines
  <2>1. /\ \A d : In(m, d) <=> In(s, d) \/ d = c
        /\ Once(m)
        /\ s # <<>> => m # <<>> /\ Head(m) = Head(s)
    BY <1>0, <1>a, <2>0, AtTheEnd DEF InLine, Lines
  <2>2. /\ lock'[Proc(c)] = m /\ \A p \in Procs : p # Proc(c) => lock'[p] = lock[p]
        /\ \A d \in Mine : d # c => pc'[d] = pc[d]
        /\ pc'[c] = "queued"
    BY <1>0, <1>4 DEF Joins, Goes
  <2>3. "queued" \in Lined
    BY DEF Lined
  <2> HIDE DEF m
  <2>q. Lines(lock', pc')
    <3>1. \A p \in Procs : Once(lock'[p])
      BY <1>0, <2>1, <2>2, <2>3 DEF InLine, Lines
    <3>2. \A p \in Procs, d \in Mine : In(lock'[p], d) => Proc(d) = p /\ pc'[d] \in Lined
      BY <1>0, <2>1, <2>2, <2>3 DEF InLine, Lines
    <3>3. \A d \in Mine : pc'[d] \in Lined /\ Op(d) # "edit" => In(lock'[Proc(d)], d)
      BY <1>0, <2>1, <2>2, <2>3 DEF InLine, Lines
    <3>4. \A d \in Mine : pc'[d] \in Lined \ {"queued"} /\ Op(d) # "edit" =>
            lock'[Proc(d)] # <<>> /\ Head(lock'[Proc(d)]) = d
      BY <1>0, <2>1, <2>2, <2>3 DEF InLine, Lines
    <3> QED
      BY <3>1, <3>2, <3>3, <3>4 DEF Lines
  <2>l. \A d \in left' : Op(d) = "edit" /\ pc'[d] \in Threaded \cup Over /\ \A p \in Procs : ~In(lock'[p], d)
    BY <1>0, <1>l, <1>4, <2>1, <2>2 DEF InLine, Joins
  <2> QED
    BY <2>q, <2>l
<1>5. ASSUME NEW c \in Mine, Joins(c), lock' = [lock EXCEPT ![Proc(c)] = Append(Without(@, c), c)] PROVE Kept
  <2> DEFINE s == lock[Proc(c)]
             r == Without(s, c)
             m == Append(r, c)
  <2>0. /\ \A d : In(r, d) <=> In(s, d) /\ d # c
        /\ Once(r) /\ r \in Seq(Mine)
        /\ s # <<>> /\ Head(s) # c => r # <<>> /\ Head(r) = Head(s)
    BY <1>0, <1>a, OutOfLine, WithoutTyped DEF InLine, Lines
  <2> HIDE DEF r
  <2>1. /\ \A d : In(m, d) <=> In(r, d) \/ d = c
        /\ Once(m)
        /\ r # <<>> => m # <<>> /\ Head(m) = Head(r)
    BY SMTT(60), <1>0, <2>0, AtTheEnd
  <2>2. /\ lock'[Proc(c)] = m /\ \A p \in Procs : p # Proc(c) => lock'[p] = lock[p]
        /\ \A d \in Mine : d # c => pc'[d] = pc[d]
        /\ pc'[c] = "queued"
    BY <1>0, <1>5 DEF Joins, Goes, r
  <2>3. "queued" \in Lined
    BY DEF Lined
  <2> HIDE DEF m
  <2>4. \A p \in Procs : In(lock[p], c) => p = Proc(c)
    BY DEF InLine, Lines
  <2>q. Lines(lock', pc')
    <3>1. \A p \in Procs : Once(lock'[p])
      BY <1>0, <2>0, <2>1, <2>2, <2>3, <2>4 DEF InLine, Lines
    <3>2. \A p \in Procs, d \in Mine : In(lock'[p], d) => Proc(d) = p /\ pc'[d] \in Lined
      BY <1>0, <2>0, <2>1, <2>2, <2>3, <2>4 DEF InLine, Lines
    <3>3. \A d \in Mine : pc'[d] \in Lined /\ Op(d) # "edit" => In(lock'[Proc(d)], d)
      BY <1>0, <2>0, <2>1, <2>2, <2>3, <2>4 DEF InLine, Lines
    <3>4. \A d \in Mine : pc'[d] \in Lined \ {"queued"} /\ Op(d) # "edit" =>
            lock'[Proc(d)] # <<>> /\ Head(lock'[Proc(d)]) = d
      BY <1>0, <2>0, <2>1, <2>2, <2>3, <2>4 DEF InLine, Lines
    <3> QED
      BY <3>1, <3>2, <3>3, <3>4 DEF Lines
  <2>l. \A d \in left' : Op(d) = "edit" /\ pc'[d] \in Threaded \cup Over /\ \A p \in Procs : ~In(lock'[p], d)
    BY <1>0, <1>l, <1>5, <2>0, <2>1, <2>2 DEF InLine, Joins
  <2> QED
    BY <2>q, <2>l
<1>6. ASSUME NEW c \in Mine, Joins(c) PROVE Kept
  <2> HIDE DEF Kept
  <2> QED
    BY <1>4, <1>5, <1>6 DEF Joins
<1>7. ASSUME NEW p \in Procs, Crash(p) PROVE Kept
  <2>1. lock' = [lock EXCEPT ![p] = <<>>] /\ DOMAIN <<>> = {}
    BY <1>7 DEF Crash
  <2>2. \A d \in Mine : pc'[d] = pc[d] \/ (Proc(d) = p /\ pc'[d] = "dead")
    BY <1>7 DEF Crash, Of
  <2>3. \A d \in Mine : Proc(d) = p => pc'[d] \notin Lined
    BY <1>7 DEF Crash, Of, Lined, AtWork, Threaded
  <2>4. Once(<<>>) /\ \A d : ~In(<<>>, d)
    BY <2>1 DEF Once, In
  <2>5. \A q \in Procs : lock'[q] = IF q = p THEN <<>> ELSE lock[q]
    BY <1>0, <2>1
  <2>q. Lines(lock', pc')
    BY <1>0, <2>2, <2>3, <2>4, <2>5 DEF InLine, Lines
  <2>l. \A d \in left' : Op(d) = "edit" /\ pc'[d] \in Threaded \cup Over /\ \A q \in Procs : ~In(lock'[q], d)
    BY <1>0, <1>l, <1>7, <2>2, <2>4, <2>5 DEF InLine, Crash, Over
  <2> QED
    BY <2>q, <2>l
<1>8. ASSUME UNCHANGED <<lock, pc, left>> PROVE Kept
  <2>0. lock' = lock /\ pc' = pc /\ left' = left
    BY <1>8
  <2> QED
    BY <2>0 DEF InLine
<1> HIDE DEF Kept
<1>9. Kept
  BY <1>2, <1>3, <1>6, <1>7, <1>8, <1>s, LineSteps DEF Next, vars, locks, Rests, Reload
<1> QED
  <2>1. \A d \in left' : Op(d)' = "edit" /\ pc'[d] \in Threaded \cup Over /\ \A p \in Procs : ~In(lock'[p], d)
    BY <1>s, <1>l, <1>9 DEF Kept
  <2>3. Lines(lock', pc')
    BY <1>9 DEF Kept
  <2>4. \A p \in Procs : Once(lock[p])'
    BY <2>3 DEF Lines, Once
  <2>5. \A p \in Procs, c \in Mine' : In(lock[p], c)' => Proc(c)' = p /\ pc'[c] \in Lined
    BY <1>s, <2>3 DEF Lines, In
  <2>6. \A c \in Mine' : pc'[c] \in Lined /\ Op(c)' # "edit" => In(lock[Proc(c)], c)'
    BY <1>s, <2>3 DEF Lines, In
  <2>7. \A c \in Mine' : pc'[c] \in Lined \ {"queued"} /\ Op(c)' # "edit" =>
         lock'[Proc(c)'] # <<>> /\ Head(lock'[Proc(c)']) = c
    BY <1>s, <2>3 DEF Lines
  <2>8. Lines(lock, pc)'
    BY <2>4, <2>5, <2>6, <2>7 DEF Lines
  <2>9. \A p \in Procs, d \in left' : ~In(lock[p], d)'
    BY <2>1 DEF In
  <2> QED
    BY <2>1, <2>8, <2>9 DEF InLine

-----------------------------------------------------------------------------
\* The calls on auth.json are of one process, or they are two: for three, see SiblingsKept.
FewOnAuth ==
  \A h \in Scopes : (\E c \in DOMAIN h.does : h.does[c].op \in Credential) =>
    \/ \A c, d \in DOMAIN h.does : h.does[c].proc = h.does[d].proc
    \/ \E c, d : DOMAIN h.does \subseteq {c, d}

OnAuth == \A c \in Mine : Op(c) \in Credential

\* Who is at work on auth.json has the flock, of the file there is while no call is over.
Holds == \A c \in Mine : pc[c] \in AtWork => <<fd[c], c>> \in flock
Steady ==
  \A c \in Mine : pc[c] \in {"flock"} \cup AtWork =>
    path # 0 /\ ((\A d \in Mine : pc[d] \notin Over) => fd[c] = path)

AuthMoves(c) ==
  \/ Begins(c) \/ Opens(c) \/ Loads(c) \/ Rereads(c) \/ LooksAgain(c)
  \/ Refreshes(c) \/ RefreshFails(c) \/ OpensTmp(c) \/ Fills(c) \/ Renames(c) \/ TmpFails(c)

LEMMA AuthSteps ==
  ASSUME IInv, OnAuth, NEW c \in Mine, Step(c)
  PROVE  AuthMoves(c) /\ pc[c] \notin Over
<1>1. Op(c) \in Credential /\ Op(c) \notin Setting /\ pc[c] \notin ForSettings
  BY TheHistory DEF OnAuth, IInv, Places
<1>2. ~(Sets(c) \/ Edits(c) \/ Starts(c) \/ TakesSidecar(c) \/ TakesInode(c) \/ TimesOut(c) \/ Writes(c)
        \/ WriteFails(c) \/ Hears(c) \/ HearsError(c) \/ CancelEdit(c))
  BY <1>1 DEF Sets, Edits, Starts, TakesSidecar, TakesInode, TimesOut, Writes, WriteFails, Hears, HearsError,
              CancelEdit, ForSettings, Setting
<1>3. AuthMoves(c)
  BY <1>2 DEF Step, AuthMoves
<1> QED
  BY <1>3 DEF AuthMoves, Begins, Opens, Loads, Rereads, LooksAgain, Refreshes, RefreshFails, OpensTmp, Fills,
     Renames, TmpFails, Over

\* One call at a time is at work: the asyncio.Lock sees to it in a process; of two calls in two
\* processes, both have opened the file before either replaced it.
LEMMA OneWorks ==
  ASSUME FewOnAuth, IInv, InLine, OnAuth, Holds, Steady, NEW c \in Mine, NEW d \in Mine,
         pc[c] \in AtWork \/ (pc[c] = "flock" /\ Free(fd[c])), pc[d] \in AtWork
  PROVE  c = d
<1>1. CASE Proc(c) = Proc(d)
  <2>1. Op(c) # "edit" /\ Op(d) # "edit"
    BY DEF OnAuth, Credential
  <2>2. pc[c] \in Lined \ {"queued"} /\ pc[d] \in Lined \ {"queued"}
    BY DEF Lined, AtWork
  <2> QED
    BY <1>1, <2>1, <2>2 DEF InLine, Lines
<1>2. CASE \E a, b : Mine \subseteq {a, b}
  <2>1. SUFFICES ASSUME c # d PROVE FALSE
    OBVIOUS
  <2>2. \A e \in Mine : pc[e] \notin Over
    BY <1>2, <2>1 DEF AtWork, Over
  <2>3. fd[c] = path /\ fd[d] = path
    BY <2>2 DEF Steady
  <2>4. <<path, d>> \in flock
    BY <2>3 DEF Holds
  <2>5. CASE pc[c] \in AtWork
    <3>1. <<path, c>> \in flock
      BY <2>3, <2>5 DEF Holds
    <3>2. <<path, c>> = <<path, d>>
      BY <2>4, <3>1 DEF IInv, Flocks
    <3> QED
      BY <2>1, <3>2
  <2>6. CASE Free(fd[c])
    BY <2>3, <2>4, <2>6 DEF Free
  <2> QED
    BY <2>5, <2>6
<1> QED
  BY <1>1, <1>2 DEF FewOnAuth, OnAuth, IInv, Mine, Op, Proc

LEMMA AuthStays ==
  ASSUME IInv, OnAuth, [Next]_vars
  PROVE  OnAuth'
BY Standing DEF OnAuth

LEMMA HoldsKept ==
  ASSUME IInv, OnAuth, Holds, [Next]_vars
  PROVE  Holds'
<1> USE DEF Holds
<1>0. /\ Mine' = Mine /\ DOMAIN pc = Mine /\ DOMAIN fd = Mine
      /\ "flock" \notin AtWork /\ "queued" \notin AtWork /\ "done" \notin AtWork /\ "dead" \notin AtWork
      /\ "new" \notin AtWork
  BY Standing DEF IInv, Places, Inodes, AtWork
<1>1. ASSUME NEW c \in Mine, NEW q, Goes(c, q), UNCHANGED <<flock, fd>>, q \notin AtWork \/ pc[c] \in AtWork PROVE Holds'
  BY <1>0, <1>1 DEF Goes
<1>2. ASSUME NEW c \in Mine, Leaves(c), UNCHANGED fd PROVE Holds'
  BY <1>0, <1>2 DEF Leaves, Goes, Unflocks
<1>3. ASSUME NEW c \in Mine, NEW q, Goes(c, q), UNCHANGED fd, flock' = flock \cup {<<fd[c], c>>} PROVE Holds'
  BY <1>0, <1>3 DEF Goes
<1>4. ASSUME NEW c \in Mine, Opens(c) PROVE Holds'
  BY <1>0, <1>4 DEF Opens, Goes, locks
<1>5. ASSUME NEW c \in Mine, AuthMoves(c) PROVE Holds'
  <2>1. CASE Begins(c) \/ Loads(c)
    BY <1>0, <1>1, <2>1 DEF Begins, Loads, Asks
  <2>2. CASE Rereads(c)
    BY <1>3, <2>2 DEF Rereads
  <2>3. CASE LooksAgain(c)
    BY <1>2, <1>3, <2>3 DEF LooksAgain
  <2>4. CASE Refreshes(c) \/ OpensTmp(c) \/ Fills(c)
    BY <1>1, <2>4 DEF Refreshes, OpensTmp, Fills, locks, AtWork
  <2>5. CASE RefreshFails(c) \/ Renames(c) \/ TmpFails(c)
    BY <1>2, <2>5 DEF RefreshFails, Renames, TmpFails
  <2> QED
    BY <1>4, <1>5, <2>1, <2>2, <2>3, <2>4, <2>5 DEF AuthMoves
<1>6. ASSUME NEW p \in Procs, Crash(p) PROVE Holds'
  <2>1. /\ flock' = {h \in flock : h[2] \notin Of(p)} /\ fd' = fd
        /\ \A c \in Mine : pc'[c] \in AtWork => c \notin Of(p) /\ pc'[c] = pc[c]
    BY <1>0, <1>6 DEF Crash, disk
  <2> QED
    BY <1>0, <2>1
<1>7. CASE UNCHANGED <<flock, fd, pc>>
  BY <1>0, <1>7
<1> QED
  BY <1>5, <1>6, <1>7, AuthSteps DEF Next, vars, locks, Rests, Reload

LEMMA SteadyKept ==
  ASSUME IInv, OnAuth, Holds, Steady, [Next]_vars
  PROVE  Steady'
<1> USE DEF Steady
<1>0. /\ Mine' = Mine /\ DOMAIN pc = Mine /\ DOMAIN fd = Mine
      /\ {"flock"} \cup AtWork \subseteq {"flock", "refreshing", "write", "fill", "replace"}
      /\ Over = {"done", "dead"}
      /\ Len(node) \in Nat
  BY Standing, LenProperties DEF IInv, Places, Inodes, AtWork, Over
<1>1. ASSUME NEW c \in Mine, NEW q, pc[c] \notin Over, Goes(c, q), UNCHANGED <<path, fd>>,
             q \notin {"flock"} \cup AtWork \/ pc[c] \in {"flock"} \cup AtWork
      PROVE  Steady'
  <2>1. (\A d \in Mine : pc'[d] \notin Over) => \A d \in Mine : pc[d] \notin Over
    BY <1>0, <1>1 DEF Goes
  <2>2. \A d \in Mine : pc'[d] \in {"flock"} \cup AtWork => pc[d] \in {"flock"} \cup AtWork
    BY <1>0, <1>1 DEF Goes
  <2> QED
    BY <1>0, <1>1, <2>1, <2>2
<1>2. ASSUME NEW c \in Mine, Opens(c) PROVE Steady'
  <2>1. path' # 0 /\ (path' = path \/ path = 0)
    BY <1>0, <1>2, AppendProperties DEF Opens, IInv, Inodes, Empty, Content
  <2>2. fd' = [fd EXCEPT ![c] = path'] /\ pc' = [pc EXCEPT ![c] = "flock"] /\ pc[c] = "queued"
    BY <1>2 DEF Opens, Goes
  <2>3. \A d \in Mine : d # c /\ pc'[d] \in {"flock"} \cup AtWork => pc[d] \in {"flock"} \cup AtWork /\ fd'[d] = fd[d]
    BY <1>0, <2>2
  <2>4. (\A d \in Mine : pc'[d] \notin Over) => \A d \in Mine : pc[d] \notin Over
    BY <1>0, <2>2
  <2>5. fd'[c] = path'
    BY <1>0, <2>2
  <2> QED
    BY <1>0, <2>1, <2>3, <2>4, <2>5
<1>3. ASSUME NEW c \in Mine, Renames(c) PROVE Steady'
  <2>1. pc' = [pc EXCEPT ![c] = "done"] /\ fd' = fd /\ (path' = path \/ path' # 0)
    BY <1>3 DEF Renames, Leaves, Goes
  <2>2. pc'[c] \in Over
    BY <1>0, <2>1
  <2>3. \A d \in Mine : pc'[d] \in {"flock"} \cup AtWork => pc[d] \in {"flock"} \cup AtWork
    BY <1>0, <2>1
  <2> QED
    BY <1>0, <2>1, <2>2, <2>3
<1>4. ASSUME NEW c \in Mine, AuthMoves(c), pc[c] \notin Over PROVE Steady'
  <2>1. CASE Begins(c) \/ Loads(c)
    BY <1>0, <1>1, <1>4, <2>1 DEF Begins, Loads, Asks, disk
  <2>2. CASE Rereads(c) \/ LooksAgain(c)
    BY <1>0, <1>1, <1>4, <2>2 DEF Rereads, LooksAgain, disk, Leaves
  <2>3. CASE Refreshes(c) \/ OpensTmp(c) \/ Fills(c)
    BY <1>1, <1>4, <2>3 DEF Refreshes, OpensTmp, Fills, disk, AtWork
  <2>4. CASE RefreshFails(c) \/ TmpFails(c)
    BY <1>0, <1>1, <1>4, <2>4 DEF RefreshFails, TmpFails, disk, Leaves
  <2> QED
    BY <1>2, <1>3, <1>4, <2>1, <2>2, <2>3, <2>4 DEF AuthMoves
<1>5. ASSUME NEW p \in Procs, Crash(p) PROVE Steady'
  <2>1. path' = path /\ fd' = fd /\ \A c \in Mine : pc'[c] = pc[c] \/ pc'[c] = "dead"
    BY <1>0, <1>5 DEF Crash, disk
  <2>2. (\A d \in Mine : pc'[d] \notin Over) => \A d \in Mine : pc[d] \notin Over
    BY <1>0, <2>1
  <2>3. \A d \in Mine : pc'[d] \in {"flock"} \cup AtWork => pc[d] \in {"flock"} \cup AtWork
    BY <1>0, <2>1
  <2> QED
    BY <1>0, <2>1, <2>2, <2>3
<1>6. CASE UNCHANGED <<path, fd, pc>>
  BY <1>0, <1>6
<1> QED
  BY <1>4, <1>5, <1>6, AuthSteps DEF Next, vars, disk, Rests, Reload

-----------------------------------------------------------------------------
\* What a call at work has read is in the file, its temporary file is the one there is, and holds
\* what it is to write once it is filled.
Filled == {"fill", "replace"}
Fresh ==
  /\ \A c \in Mine : pc[c] \in AtWork => seen[c] = Disk /\ (Op(c) = "refresh" => Disk[Key(c)] = Old)
  /\ \A c \in Mine : pc[c] \in {"write"} \cup Filled => snap[c] = [k \in {Key(c)} |-> c]
  /\ \A c \in Mine : pc[c] \in Filled => out[c] = tmp /\ tmp # 0
  /\ \A c \in Mine : pc[c] = "replace" => node[tmp] = Change(c)
  /\ path # 0 => tmp # path
  /\ \A c \in Mine : pc[c] = "refreshing" => Op(c) = "refresh"

\* auth.json is changed by the rename and by nothing before it.
LEMMA DiskMoves ==
  ASSUME IInv, Steady, Fresh, NEW c \in Mine, AuthMoves(c)
  PROVE  /\ ~Renames(c) => Disk' = Disk
         /\ Renames(c) => tmp # 0 /\ Disk' = Change(c) /\ path' = tmp /\ node' = node
         /\ path' # 0 => tmp' # path'
<1>0. /\ node \in Seq(Content) /\ Len(node) \in Nat /\ path \in 0..Len(node) /\ tmp \in 0..Len(node)
      /\ Empty \in Content /\ Change(c) \in Content
      /\ path # 0 => tmp # path
  BY LenProperties, ChangeTyped DEF IInv, Inodes, Empty, Content, Fresh
<1>1. /\ Len(Append(node, Empty)) = Len(node) + 1
      /\ \A i \in 1..Len(node) : Append(node, Empty)[i] = node[i]
      /\ Append(node, Empty)[Len(node) + 1] = Empty
  BY <1>0, AppendProperties
<1>2. CASE Opens(c)
  <2>1. CASE path = 0
    <3>1. node' = Append(node, Empty) /\ path' = Len(node') /\ tmp' = tmp
      BY <1>2, <2>1 DEF Opens
    <3>2. path' = Len(node) + 1 /\ node'[path'] = Empty
      BY <1>1, <3>1
    <3> QED
      BY <1>0, <1>2, <2>1, <3>1, <3>2 DEF Disk, Opens, Renames
  <2>2. CASE path # 0
    BY <1>0, <1>2, <2>2 DEF Opens, Disk, Renames
  <2> QED
    BY <2>1, <2>2
<1>3. CASE OpensTmp(c)
  <2>0. path' = path /\ pc[c] = "write" /\ path # 0
    BY <1>3 DEF OpensTmp, Steady, AtWork
  <2>1. CASE tmp = 0
    <3>1. node' = Append(node, Empty) /\ tmp' = Len(node')
      BY <1>3, <2>1 DEF OpensTmp
    <3>2. tmp' = Len(node) + 1 /\ node'[path] = node[path]
      BY <1>0, <1>1, <2>0, <3>1
    <3> QED
      BY <1>0, <2>0, <3>2 DEF Disk, Renames
  <2>2. CASE tmp # 0
    <3>1. node' = [node EXCEPT ![tmp] = Empty] /\ tmp' = tmp
      BY <1>3, <2>2 DEF OpensTmp
    <3>2. node'[path] = node[path]
      BY <1>0, <2>0, <3>1
    <3> QED
      BY <1>0, <2>0, <3>1, <3>2 DEF Disk, Renames
  <2> QED
    BY <2>1, <2>2
<1>4. CASE Fills(c)
  <2>1. path' = path /\ tmp' = tmp /\ path # 0 /\ out[c] = tmp /\ node' = [node EXCEPT ![out[c]] = Change(c)] /\ pc[c] = "fill"
    BY <1>4 DEF Fills, Steady, AtWork, Fresh, Filled
  <2>2. node'[path] = node[path]
    BY <1>0, <2>1
  <2> QED
    BY <1>0, <2>1, <2>2 DEF Disk, Renames
<1>5. CASE Renames(c)
  <2>1. tmp # 0 /\ node[tmp] = Change(c)
    BY <1>5 DEF Renames, Fresh, Filled
  <2>2. path' = tmp /\ tmp' = 0 /\ node' = node
    BY <1>5, <2>1 DEF Renames
  <2>3. Disk' = Change(c)
    BY <2>1, <2>2 DEF Disk
  <2> QED
    BY <1>5, <2>1, <2>2, <2>3
<1>6. CASE UNCHANGED disk /\ ~Renames(c)
  BY <1>0, <1>6 DEF disk, Disk
<1>7. CASE Begins(c) \/ Loads(c) \/ Rereads(c) \/ LooksAgain(c) \/ Refreshes(c) \/ RefreshFails(c) \/ TmpFails(c)
  <2>1. UNCHANGED disk
    BY <1>7 DEF Begins, Loads, Rereads, LooksAgain, Refreshes, RefreshFails, TmpFails
  <2>2. CASE Renames(c)
    BY <1>5, <2>2
  <2> QED
    BY <1>6, <2>1, <2>2
<1> QED
  BY <1>2, <1>3, <1>4, <1>5, <1>7 DEF AuthMoves

\* A key of a write of c.
LEMMA Changed ==
  ASSUME NEW c \in Mine, snap[c] = [k \in {Key(c)} |-> c], NEW k \in Keys
  PROVE  Change(c)[k] = IF k = Key(c) THEN c ELSE seen[c][k]
BY DEF Change

LEMMA FreshKept ==
  ASSUME FewOnAuth, IInv, InLine, OnAuth, Holds, Steady, Fresh, [Next]_vars
  PROVE  Fresh'
<1>0. /\ Mine' = Mine /\ DOMAIN pc = Mine /\ DOMAIN out = Mine /\ DOMAIN seen = Mine /\ DOMAIN snap = Mine
      /\ \A c \in Mine : Op(c)' = Op(c) /\ Key(c)' = Key(c) /\ Key(c) \in Keys
      /\ AtWork = {"refreshing", "write", "fill", "replace"} /\ Filled = {"fill", "replace"}
  BY Standing, TheHistory DEF IInv, Places, Inodes, Values, AtWork, Filled
<1>1. \A c, d \in Mine : (pc[c] \in AtWork \/ (pc[c] = "flock" /\ Free(fd[c]))) /\ pc[d] \in AtWork => c = d
  BY OneWorks
<1>2. ASSUME NEW c \in Mine, NEW q, Disk' = Disk \/ (pc[c] \in AtWork /\ q \notin AtWork), path' # 0 => tmp' # path', Goes(c, q),
             \A d \in Mine : d # c => UNCHANGED <<seen[d], snap[d], out[d]>>,
             pc[c] \in AtWork \/ q \notin AtWork \/ (pc[c] = "flock" /\ Free(fd[c])),
             q \in AtWork => seen'[c] = Disk /\ (Op(c) = "refresh" => Disk[Key(c)] = Old),
             q \in {"write"} \cup Filled => snap'[c] = [k \in {Key(c)} |-> c],
             q \in Filled => out'[c] = tmp' /\ tmp' # 0,
             q = "replace" => node'[tmp'] = Change(c)', q = "refreshing" => Op(c) = "refresh",
             pc[c] \in AtWork \/ q \in AtWork \/ (UNCHANGED tmp /\ (tmp # 0 => node'[tmp] = node[tmp]))
      PROVE  Fresh'
  <2>1. pc'[c] = q /\ \A d \in Mine : d # c => pc'[d] = pc[d]
    BY <1>0, <1>2 DEF Goes
  <2>2. \A d \in Mine : d # c /\ pc[d] \in AtWork => Disk' = Disk /\ q \notin AtWork /\ UNCHANGED tmp /\ (tmp # 0 => node'[tmp] = node[tmp])
    BY <1>0, <1>1, <1>2
  <2>3. \A d \in Mine : d # c => Change(d)' = Change(d)
    BY <1>0, <1>2 DEF Change
  <2>4. \A d \in Mine : pc'[d] \in AtWork => seen'[d] = Disk' /\ (Op(d) = "refresh" => Disk'[Key(d)] = Old)
    BY <1>0, <1>2, <2>1, <2>2 DEF Fresh
  <2>5. \A d \in Mine : pc'[d] \in {"write"} \cup Filled => snap'[d] = [k \in {Key(d)} |-> d]
    BY <1>0, <1>2, <2>1 DEF Fresh
  <2>6. \A d \in Mine : pc'[d] \in Filled => out'[d] = tmp' /\ tmp' # 0
    BY <1>0, <1>2, <2>1, <2>2 DEF Fresh
  <2>7. \A d \in Mine : pc'[d] = "replace" => node'[tmp'] = Change(d)'
    BY <1>0, <1>2, <2>1, <2>2, <2>3 DEF Fresh
  <2>8. \A d \in Mine : pc'[d] = "refreshing" => Op(d) = "refresh"
    BY <1>0, <1>2, <2>1 DEF Fresh
  <2> QED
    BY <1>0, <1>2, <2>4, <2>5, <2>6, <2>7, <2>8 DEF Fresh
\* A step that takes nobody to work.
<1>x. ASSUME NEW c \in Mine, NEW q, Goes(c, q), q \notin AtWork, UNCHANGED <<seen, snap, out>> \/ (UNCHANGED <<snap, out>> /\ \E v : seen' = [seen EXCEPT ![c] = v]),
             Disk' = Disk \/ pc[c] \in AtWork, path' # 0 => tmp' # path',
             pc[c] \in AtWork \/ (UNCHANGED tmp /\ (tmp # 0 => node'[tmp] = node[tmp]))
      PROVE  Fresh'
  <2>1. q \notin {"write"} \cup Filled /\ q # "replace" /\ q # "refreshing"
    BY <1>0, <1>x
  <2>2. \A d \in Mine : d # c => UNCHANGED <<seen[d], snap[d], out[d]>>
    BY <1>0, <1>x
  <2> QED
    BY <1>2, <1>x, <2>1, <2>2
<1>3. ASSUME NEW c \in Mine, AuthMoves(c) PROVE Fresh'
  <2>0. /\ ~Renames(c) => Disk' = Disk
        /\ path' # 0 => tmp' # path'
        /\ "queued" \notin AtWork /\ "flock" \notin AtWork /\ "done" \notin AtWork
    BY <1>0, <1>3, DiskMoves
  <2>d. ~Renames(c) \/ pc[c] = "replace"
    BY DEF Renames
  <2>1. CASE Begins(c) \/ Loads(c)
    <3>1. UNCHANGED <<seen, snap, out, tmp, node>> /\ (Goes(c, "queued") \/ Goes(c, "done"))
      BY <2>1 DEF Begins, Loads, Asks, disk
    <3>2. Disk' = Disk
      BY <2>1 DEF Begins, Loads, disk, Disk
    <3> QED
      BY <1>x, <2>0, <3>1, <3>2
  <2>2. CASE Opens(c)
    <3>1. UNCHANGED <<seen, snap, out, tmp>> /\ Goes(c, "flock") /\ pc[c] = "queued"
      BY <2>2 DEF Opens, manager
    <3>2. tmp # 0 => node'[tmp] = node[tmp]
      <4>1. CASE path = 0
        <5>1. node' = Append(node, Empty) /\ node \in Seq(Content) /\ Empty \in Content /\ tmp \in 0..Len(node)
          BY <2>2, <4>1 DEF Opens, IInv, Inodes, Empty, Content
        <5> QED
          BY <5>1, AppendProperties, LenProperties
      <4>2. CASE path # 0
        BY <2>2, <4>2 DEF Opens
      <4> QED
        BY <4>1, <4>2
    <3>3. Disk' = Disk
      BY <2>0, <2>d, <3>1
    <3> QED
      BY <1>x, <2>0, <3>1, <3>2, <3>3
  <2>3. CASE Rereads(c)
    <3>1. /\ Goes(c, "write") /\ pc[c] = "flock" /\ Free(fd[c]) /\ Op(c) # "refresh"
          /\ seen' = [seen EXCEPT ![c] = Disk] /\ snap' = [snap EXCEPT ![c] = [k \in {Key(c)} |-> c]] /\ out' = out
      BY <2>3 DEF Rereads, Wants
    <3>2. Disk' = Disk
      BY <2>0, <2>d, <3>1
    <3> QED
      BY <1>0, <1>2, <2>0, <3>1, <3>2
  <2>4. CASE LooksAgain(c) /\ Disk[Key(c)] # Old
    <3>1. Goes(c, "done") /\ pc[c] = "flock" /\ seen' = [seen EXCEPT ![c] = Disk] /\ UNCHANGED <<snap, out, tmp, node>>
      BY <2>4 DEF LooksAgain, ReadAgain, Leaves, disk
    <3>2. Disk' = Disk
      BY <2>0, <2>d, <3>1
    <3> QED
      BY <1>x, <2>0, <3>1, <3>2
  <2>5. CASE LooksAgain(c) /\ Disk[Key(c)] = Old
    <3>1. /\ Goes(c, "refreshing") /\ pc[c] = "flock" /\ Free(fd[c]) /\ Op(c) = "refresh"
          /\ seen' = [seen EXCEPT ![c] = Disk] /\ UNCHANGED <<snap, out, tmp, node>>
      BY <2>5 DEF LooksAgain, ReadAgain, disk
    <3>2. Disk' = Disk
      BY <2>0, <2>d, <3>1
    <3> QED
      BY <1>0, <1>2, <2>0, <2>5, <3>1, <3>2
  <2>6. CASE Refreshes(c)
    <3>1. /\ Goes(c, "write") /\ pc[c] = "refreshing"
          /\ snap' = [snap EXCEPT ![c] = [k \in {Key(c)} |-> c]] /\ UNCHANGED <<seen, out>>
      BY <2>6 DEF Refreshes, Wants
    <3>2. Disk' = Disk
      BY <2>0, <2>d, <3>1
    <3>3. seen[c] = Disk /\ (Op(c) = "refresh" => Disk[Key(c)] = Old)
      BY <1>0, <3>1 DEF Fresh
    <3> QED
      BY <1>0, <1>2, <2>0, <3>1, <3>2, <3>3
  <2>7. CASE RefreshFails(c) \/ TmpFails(c) \/ Renames(c)
    <3>1. Goes(c, "done") /\ pc[c] \in AtWork /\ UNCHANGED <<seen, snap, out>>
      BY <1>0, <2>7 DEF RefreshFails, TmpFails, Renames, manager, Leaves
    <3> QED
      BY <1>x, <2>0, <3>1
  <2>8. CASE OpensTmp(c)
    <3>1. /\ Goes(c, "fill") /\ pc[c] = "write" /\ UNCHANGED <<seen, snap>>
          /\ out' = [out EXCEPT ![c] = tmp']
      BY <2>8 DEF OpensTmp, manager
    <3>2. tmp' # 0
      <4>1. node \in Seq(Content) /\ Empty \in Content /\ Len(node) \in Nat
        BY LenProperties DEF IInv, Inodes, Empty, Content
      <4>2. Len(Append(node, Empty)) # 0
        BY <4>1, AppendProperties
      <4> QED
        BY <2>8, <4>2 DEF OpensTmp
    <3>3. Disk' = Disk
      BY <2>0, <2>d, <3>1
    <3>4. seen[c] = Disk /\ (Op(c) = "refresh" => Disk[Key(c)] = Old) /\ snap[c] = [k \in {Key(c)} |-> c]
      BY <1>0, <3>1 DEF Fresh
    <3> QED
      BY <1>0, <1>2, <2>0, <3>1, <3>2, <3>3, <3>4
  <2>9. CASE Fills(c)
    <3>1. /\ Goes(c, "replace") /\ pc[c] = "fill" /\ UNCHANGED <<seen, snap, out, tmp>>
          /\ node' = [node EXCEPT ![out[c]] = Change(c)]
      BY <2>9 DEF Fills, manager
    <3>2. Disk' = Disk
      BY <2>0, <2>d, <3>1
    <3>3. /\ seen[c] = Disk /\ (Op(c) = "refresh" => Disk[Key(c)] = Old) /\ snap[c] = [k \in {Key(c)} |-> c]
          /\ out[c] = tmp /\ tmp # 0
      BY <1>0, <3>1 DEF Fresh
    <3>4. node'[tmp'] = Change(c) /\ Change(c)' = Change(c)
      BY <1>0, <3>1, <3>3, LenProperties DEF Change, IInv, Inodes
    <3> QED
      BY <1>0, <1>2, <2>0, <3>1, <3>2, <3>3, <3>4
  <2> QED
    BY <1>3, <2>1, <2>2, <2>3, <2>4, <2>5, <2>6, <2>7, <2>8, <2>9 DEF AuthMoves
<1>4. ASSUME NEW p \in Procs, Crash(p) PROVE Fresh'
  <2>1. UNCHANGED <<disk, out, seen, snap>> /\ \A c \in Mine : pc'[c] = pc[c] \/ pc'[c] = "dead"
    BY <1>0, <1>4 DEF Crash, manager
  <2>2. Disk' = Disk /\ \A c \in Mine : Change(c)' = Change(c)
    BY <1>0, <2>1 DEF disk, Disk, Change
  <2> QED
    BY <1>0, <2>1, <2>2 DEF Fresh, disk
<1>5. CASE UNCHANGED <<disk, out, seen, snap, pc>>
  <2>1. Disk' = Disk /\ \A c \in Mine : Change(c)' = Change(c)
    BY <1>0, <1>5 DEF disk, Disk, Change
  <2> QED
    BY <1>0, <1>5, <2>1 DEF Fresh, disk
<1> QED
  BY <1>3, <1>4, <1>5, AuthSteps DEF Next, vars, manager, Rests, Reload

-----------------------------------------------------------------------------
\* A token the provider has answered for is about to be written, or its key has a new one.
Spent == \A c \in rotated : Op(c) = "refresh" /\ (pc[c] \in {"write"} \cup Filled \/ Disk[Key(c)] # Old)

LEMMA RotatedKept ==
  ASSUME FewOnAuth, IInv, InLine, OnAuth, Holds, Steady, Fresh, Spent, RefreshedOnce, [Next]_vars
  PROVE  Spent' /\ RefreshedOnce'
<1>0. /\ Mine' = Mine /\ DOMAIN pc = Mine /\ rotated \subseteq Mine /\ Old \notin Mine
      /\ \A c \in Mine : Op(c)' = Op(c) /\ Key(c)' = Key(c) /\ Key(c) \in Keys
      /\ {"write"} \cup Filled \subseteq AtWork /\ AtWork = {"refreshing", "write", "fill", "replace"}
      /\ "refreshing" \notin {"write"} \cup Filled
  BY Standing, TheHistory DEF IInv, Places, Marks, AtWork, Filled
<1>1. \A c, d \in Mine : pc[c] \in AtWork /\ pc[d] \in AtWork => c = d
  BY OneWorks
\* Nobody new, and the file is as it was.
<1>2. ASSUME Disk' = Disk, rotated' \subseteq rotated,
             \A c \in rotated' : pc[c] \in {"write"} \cup Filled => pc'[c] \in {"write"} \cup Filled
      PROVE  Spent' /\ RefreshedOnce'
  BY <1>0, <1>2 DEF Spent, RefreshedOnce
<1>3. ASSUME Disk' = Disk, rotated' \subseteq rotated, NEW c \in Mine, NEW q, Goes(c, q),
             pc[c] \notin {"write"} \cup Filled \/ q \in {"write"} \cup Filled \/ c \notin rotated'
      PROVE  Spent' /\ RefreshedOnce'
  BY <1>0, <1>2, <1>3 DEF Goes
<1>4. ASSUME NEW c \in Mine, Refreshes(c) PROVE Spent' /\ RefreshedOnce'
  <2>1. /\ rotated' = rotated \cup {c} /\ Disk' = Disk /\ pc' = [pc EXCEPT ![c] = "write"] /\ pc[c] = "refreshing"
    BY <1>4 DEF Refreshes, Goes, disk, Disk
  <2>2. Op(c) = "refresh" /\ Disk[Key(c)] = Old
    BY <1>0, <2>1 DEF Fresh
  <2>3. \A d \in rotated : d # c => Key(d) # Key(c)
    BY <1>0, <1>1, <2>1, <2>2 DEF Spent
  <2>4. Spent'
    BY <1>0, <2>1, <2>2 DEF Spent
  <2>5. RefreshedOnce'
    BY <1>0, <2>1, <2>3 DEF RefreshedOnce
  <2> QED
    BY <2>4, <2>5
<1>5. ASSUME NEW c \in Mine, Renames(c) PROVE Spent' /\ RefreshedOnce'
  <2>1. /\ tmp # 0 /\ Disk' = Change(c) /\ pc[c] = "replace"
    BY <1>5, DiskMoves DEF AuthMoves, Renames
  <2>2. pc' = [pc EXCEPT ![c] = "done"] /\ rotated' = rotated
    BY <1>5, <2>1 DEF Renames, Leaves, Goes
  <2>3. snap[c] = [k \in {Key(c)} |-> c] /\ seen[c] = Disk
    BY <1>0, <2>1 DEF Fresh, Filled
  <2>4. \A k \in Keys : Disk'[k] = IF k = Key(c) THEN c ELSE Disk[k]
    BY <2>1, <2>3, Changed
  <2>5. \A d \in rotated : Disk'[Key(d)] # Old
    BY <1>0, <1>1, <2>1, <2>4 DEF Spent
  <2> QED
    BY <1>0, <2>2, <2>5 DEF Spent, RefreshedOnce
<1>6. ASSUME NEW c \in Mine, AuthMoves(c) PROVE Spent' /\ RefreshedOnce'
  <2>0. ~Renames(c) => Disk' = Disk
    BY <1>6, DiskMoves
  <2>d. ~Renames(c) \/ pc[c] = "replace"
    BY DEF Renames
  <2>1. CASE Begins(c) \/ Opens(c) \/ Loads(c)
    <3>1. rotated' = rotated /\ pc[c] \in {"new", "queued", "flock"} /\ \E q : Goes(c, q)
      BY <2>1 DEF Begins, Opens, Loads, Asks, history
    <3> QED
      BY <1>3, <2>0, <2>d, <3>1 DEF Filled
  <2>2. CASE Rereads(c) \/ LooksAgain(c)
    <3>1. rotated' = rotated /\ pc[c] = "flock" /\ \E q : Goes(c, q)
      BY <2>2 DEF Rereads, LooksAgain, Leaves, history
    <3> QED
      BY <1>3, <2>0, <2>d, <3>1 DEF Filled
  <2>3. CASE RefreshFails(c)
    <3>1. rotated' = rotated /\ pc[c] = "refreshing" /\ Goes(c, "done")
      BY <2>3 DEF RefreshFails, Leaves
    <3> QED
      BY <1>3, <2>0, <2>d, <3>1 DEF Filled
  <2>4. CASE OpensTmp(c) \/ Fills(c)
    <3>1. rotated' = rotated /\ (Goes(c, "fill") \/ Goes(c, "replace")) /\ pc[c] \in {"write", "fill"}
      BY <2>4 DEF OpensTmp, Fills, history
    <3> QED
      BY <1>3, <2>0, <2>d, <3>1 DEF Filled
  <2>5. CASE TmpFails(c)
    <3>1. rotated' = rotated \ {c} /\ Goes(c, "done") /\ Disk' = Disk
      BY <2>5 DEF TmpFails, Leaves, disk, Disk
    <3> QED
      BY <1>3, <3>1
  <2> QED
    BY <1>4, <1>5, <1>6, <2>1, <2>2, <2>3, <2>4, <2>5 DEF AuthMoves
<1>7. ASSUME NEW p \in Procs, Crash(p) PROVE Spent' /\ RefreshedOnce'
  <2>1. /\ rotated' = {c \in rotated : c \notin Of(p) \/ pc[c] = "done"} /\ Disk' = Disk
        /\ \A c \in Mine : c \notin Of(p) => pc'[c] = pc[c]
    BY <1>7 DEF Crash, disk, Disk
  <2> QED
    BY <1>0, <1>2, <2>1 DEF Filled
<1>8. CASE UNCHANGED <<disk, pc, rotated>>
  BY <1>2, <1>8 DEF disk, Disk
<1> QED
  BY <1>6, <1>7, <1>8, AuthSteps DEF Next, vars, history, Rests, Reload

\* What was last written of a key of auth.json is there, and in the memory of its process: a key
\* that is to be refreshed, whose memory runs ahead of the file, was written by nobody.
Known ==
  /\ \A k \in Keys : wrote[k] # None => Disk[k] = wrote[k]
  /\ \A p \in Procs, k \in Keys : wrote[k] \in Of(p) => memory[p][k] = Disk[k]

LEMMA KnownKept ==
  ASSUME IInv, OnAuth, Steady, Fresh, Known, [Next]_vars
  PROVE  Known'
<1>0. /\ Mine' = Mine /\ DOMAIN memory = Procs /\ DOMAIN wrote = Keys
      /\ \A p \in Procs : Of(p)' = Of(p)
      /\ \A c \in Mine : Key(c) \in Keys /\ Proc(c) \in Procs
      /\ None \notin Mine /\ Old \notin Mine /\ \A k \in Keys : wrote[k] \in Mine \cup {None}
  BY Standing, TheHistory DEF IInv, Values, Marks, Of
<1>1. ASSUME Disk' = Disk, wrote' = wrote, \A p \in Procs : memory'[p] = memory[p] \/ memory'[p] = Disk PROVE Known'
  BY <1>0, <1>1 DEF Known
<1>2. ASSUME NEW c \in Mine, Renames(c) PROVE Known'
  <2>1. /\ tmp # 0 /\ Disk' = Change(c) /\ pc[c] = "replace"
    BY <1>2, DiskMoves DEF AuthMoves, Renames
  <2>2. memory' = [memory EXCEPT ![Proc(c)] = Change(c)] /\ wrote' = [wrote EXCEPT ![Key(c)] = c]
    BY <1>2, <2>1 DEF Renames
  <2>3. snap[c] = [k \in {Key(c)} |-> c] /\ seen[c] = Disk
    BY <2>1 DEF Fresh, Filled, AtWork
  <2>4. \A k \in Keys : Disk'[k] = IF k = Key(c) THEN c ELSE Disk[k]
    BY <2>1, <2>3, Changed
  <2>5. ASSUME NEW p \in Procs, NEW k \in Keys, wrote'[k] \in Of(p) PROVE memory'[p][k] = Disk'[k]
    <3>1. CASE p = Proc(c)
      BY <1>0, <2>1, <2>2, <3>1
    <3>2. CASE p # Proc(c)
      <4>1. c \notin Of(p)
        BY <3>2 DEF Of
      <4>2. k # Key(c)
        BY <1>0, <2>2, <2>5, <4>1
      <4> QED
        BY <1>0, <2>2, <2>4, <2>5, <3>2, <4>2 DEF Known
    <3> QED
      BY <3>1, <3>2
  <2>6. \A k \in Keys : wrote'[k] # None => Disk'[k] = wrote'[k]
    BY <1>0, <2>2, <2>4 DEF Known
  <2> QED
    BY <1>0, <2>5, <2>6 DEF Known
<1>3. ASSUME NEW c \in Mine, AuthMoves(c) PROVE Known'
  <2>0. ~Renames(c) => Disk' = Disk
    BY <1>3, DiskMoves
  <2>1. CASE Fills(c) /\ ~Renames(c)
    <3>1. out[c] = tmp /\ path # 0 /\ tmp # path
      BY <2>1 DEF Fills, Fresh, Filled, Steady, AtWork
    <3>2. wrote' = wrote /\ memory' = memory
      BY <2>1, <3>1 DEF Fills, manager
    <3> QED
      BY <1>1, <2>0, <2>1, <3>2
  <2>2. CASE Refreshes(c)
    <3>1. /\ wrote' = wrote /\ Disk' = Disk /\ pc[c] = "refreshing"
          /\ memory' = [memory EXCEPT ![Proc(c)] = [seen[c] EXCEPT ![Key(c)] = c]]
      BY <2>2 DEF Refreshes, disk, Disk
    <3>2. seen[c] = Disk /\ Disk[Key(c)] = Old /\ DOMAIN Disk = Keys
      BY <3>1, DiskTyped DEF Fresh, AtWork, Content, IInv
    <3>3. wrote[Key(c)] = None
      BY <1>0, <3>2 DEF Known
    <3>4. \A k \in Keys : k # Key(c) => memory'[Proc(c)][k] = Disk[k]
      BY <1>0, <3>1, <3>2
    <3>5. \A p \in Procs : p # Proc(c) => memory'[p] = memory[p]
      BY <1>0, <3>1
    <3>6. \A p \in Procs, k \in Keys : wrote[k] \in Of(p) => k # Key(c)
      BY <1>0, <3>3 DEF Of
    <3> QED
      BY <1>0, <3>1, <3>4, <3>5, <3>6 DEF Known
  <2>3. CASE ~Fills(c) /\ ~Renames(c) /\ ~Refreshes(c)
    <3>1. wrote' = wrote
      BY <1>3, <2>3 DEF AuthMoves, history, Begins, Opens, Loads, Rereads, LooksAgain, RefreshFails,
         OpensTmp, TmpFails
    <3>2. memory' = memory \/ memory' = [memory EXCEPT ![Proc(c)] = Disk]
      BY <1>3, <2>3 DEF AuthMoves, manager, ReadAgain, Begins, Opens, Loads, Rereads, LooksAgain,
         RefreshFails, OpensTmp, TmpFails
    <3> QED
      BY <1>0, <1>1, <2>0, <2>3, <3>1, <3>2
  <2> QED
    BY <1>2, <2>1, <2>2, <2>3
<1>4. ASSUME NEW p \in Procs, Reload(p) \/ Crash(p) PROVE Known'
  <2>1. Disk' = Disk /\ wrote' = wrote /\ (memory' = memory \/ memory' = [memory EXCEPT ![p] = Disk])
    BY <1>4 DEF Reload, Crash, disk, Disk, manager, history
  <2> QED
    BY <1>0, <1>1, <2>1
<1>5. CASE UNCHANGED <<disk, wrote, memory>>
  BY <1>1, <1>5 DEF disk, Disk
<1> QED
  BY <1>3, <1>4, <1>5, AuthSteps DEF Next, vars, manager, history, Rests

-----------------------------------------------------------------------------
\* In a process, a list has one edit and no setter: see the histories.
ListsApart ==
  \A h \in Scopes : \A c, d \in DOMAIN h.does :
    h.does[c].op = "edit" /\ c # d /\ h.does[c].proc = h.does[d].proc => h.does[c].key # h.does[d].key

OnSave == \A c \in Mine : Op(c) \in Setting

SaveMoves(c) ==
  \/ Sets(c) \/ Edits(c) \/ Starts(c) \/ TakesSidecar(c) \/ TakesInode(c) \/ TimesOut(c)
  \/ Writes(c) \/ WriteFails(c) \/ Hears(c) \/ HearsError(c) \/ CancelEdit(c)

LEMMA SaveSteps ==
  ASSUME IInv, OnSave, NEW c \in Mine, Step(c)
  PROVE  SaveMoves(c) /\ pc[c] \notin Over
<1>1. Op(c) \in Setting /\ Op(c) \notin Credential /\ pc[c] \notin ForAuth
  BY TheHistory DEF OnSave, IInv, Places
<1>2. ~(Begins(c) \/ Opens(c) \/ Loads(c) \/ Rereads(c) \/ LooksAgain(c) \/ Refreshes(c) \/ RefreshFails(c)
        \/ OpensTmp(c) \/ Fills(c) \/ Renames(c) \/ TmpFails(c))
  BY <1>1 DEF Begins, Opens, Loads, Rereads, LooksAgain, Refreshes, RefreshFails, OpensTmp, Fills, Renames,
     TmpFails, ForAuth
<1>3. SaveMoves(c)
  BY <1>2 DEF Step, SaveMoves
<1> QED
  BY <1>3 DEF SaveMoves, Sets, Edits, Starts, TakesSidecar, TakesInode, TimesOut, Writes, WriteFails, Hears,
     HearsError, CancelEdit, Threaded, Over

LEMMA SaveStays ==
  ASSUME IInv, OnSave, [Next]_vars
  PROVE  OnSave'
BY Standing DEF OnSave

\* What is marked is of setters, what an edit is to write is its list.
SetterOf(p, k) == \E d \in Mine : Proc(d) = p /\ Op(d) = "setter" /\ Key(d) = k
OwnKeys ==
  /\ \A p \in Procs : \A k \in marked[p] : SetterOf(p, k)
  /\ \A c \in Mine : Op(c) = "setter" => \A k \in DOMAIN snap[c] : SetterOf(Proc(c), k)
  /\ \A c \in Mine : Op(c) = "edit" => DOMAIN snap[c] \subseteq {Key(c)}

LEMMA OwnKeysKept ==
  ASSUME IInv, OnSave, OwnKeys, [Next]_vars
  PROVE  OwnKeys'
<1>0. /\ Mine' = Mine /\ DOMAIN snap = Mine /\ DOMAIN marked = Procs
      /\ \A c \in Mine : Op(c)' = Op(c) /\ Key(c)' = Key(c) /\ Proc(c)' = Proc(c) /\ Proc(c) \in Procs
      /\ \A c \in Mine : Op(c) = "setter" \/ Op(c) = "edit"
      /\ "setter" # "edit"
  BY Standing, TheHistory DEF IInv, Values, Marks, OnSave, Setting
<1>s. \A p, k : SetterOf(p, k)' = SetterOf(p, k)
  BY <1>0 DEF SetterOf
<1>1. ASSUME NEW c \in Mine, Sets(c) PROVE OwnKeys'
  <2>1. /\ marked' = [marked EXCEPT ![Proc(c)] = @ \cup {Key(c)}]
        /\ DOMAIN snap'[c] = marked'[Proc(c)] /\ \A d \in Mine : d # c => snap'[d] = snap[d]
        /\ Op(c) = "setter"
    BY <1>0, <1>1 DEF Sets
  <2>2. SetterOf(Proc(c), Key(c))
    BY <2>1 DEF SetterOf
  <2>3. \A p \in Procs : \A k \in marked'[p] : SetterOf(p, k)
    BY <1>0, <2>1, <2>2 DEF OwnKeys
  <2> QED
    BY <1>0, <1>s, <2>1, <2>3 DEF OwnKeys
<1>2. ASSUME marked' = marked, NEW c \in Mine, Builds(c) PROVE OwnKeys'
  <2>1. /\ \A d \in Mine : d # c => snap'[d] = snap[d]
        /\ snap'[c] = snap[c] \/ (DOMAIN snap'[c] = {Key(c)} /\ Op(c) = "edit")
    BY <1>0, <1>2 DEF Builds, Wants
  <2> QED
    BY <1>0, <1>s, <1>2, <2>1 DEF OwnKeys
<1>3. ASSUME snap' = snap, \A p \in Procs : marked'[p] \subseteq marked[p] PROVE OwnKeys'
  BY <1>0, <1>s, <1>3 DEF OwnKeys
<1>4. ASSUME NEW c \in Mine, SaveMoves(c) PROVE OwnKeys'
  <2>1. CASE TakesSidecar(c) \/ TakesInode(c)
    BY <1>2, <1>3, <2>1 DEF TakesSidecar, TakesInode
  <2>2. CASE Hears(c)
    <3>1. snap' = snap /\ (marked' = marked \/ marked' = [marked EXCEPT ![Proc(c)] = {}]
                           \/ marked' = [marked EXCEPT ![Proc(c)] = @ \ {Key(c)}])
      BY <2>2 DEF Hears
    <3> QED
      BY <1>0, <1>3, <3>1
  <2>3. CASE Edits(c) \/ Starts(c) \/ TimesOut(c) \/ Writes(c) \/ WriteFails(c) \/ HearsError(c) \/ CancelEdit(c)
    BY <1>3, <2>3 DEF Edits, Starts, TimesOut, Writes, WriteFails, HearsError, CancelEdit, manager
  <2> QED
    BY <1>1, <1>4, <2>1, <2>2, <2>3 DEF SaveMoves
<1>5. ASSUME NEW p \in Procs, Reload(p) \/ Crash(p) PROVE OwnKeys'
  <2>1. snap' = snap /\ (marked' = marked \/ marked' = [marked EXCEPT ![p] = {}])
    BY <1>5 DEF Reload, Crash, manager
  <2> QED
    BY <1>0, <1>3, <2>1
<1>6. CASE UNCHANGED <<marked, snap>>
  BY <1>3, <1>6
<1> QED
  BY <1>4, <1>5, <1>6, SaveSteps DEF Next, vars, manager, Rests

\* What a write put down is what its call was to write.
AsSaved ==
  \A k \in Keys : wrote[k] # None =>
    k \in DOMAIN snap[wrote[k]] /\ Disk[k] = snap[wrote[k]][k] /\ pc[wrote[k]] \in {"told"} \cup Over

\* settings.json is changed by a write, which leaves the rest as it is.
LEMMA SaveWrites ==
  ASSUME IInv, OnSave, NEW c \in Mine, Writes(c)
  PROVE  /\ \A k \in Keys : k \in DOMAIN snap[c] => Disk'[k] = snap[c][k] /\ wrote'[k] = c
         /\ \A k \in Keys : k \notin DOMAIN snap[c] => Disk'[k] = Disk[k] /\ wrote'[k] = wrote[k]
         /\ \A k \in Keys : wrote[k] # c
         /\ pc' = [pc EXCEPT ![c] = "told"] /\ UNCHANGED <<snap, memory, lock, failed>>
<1>1. Disk' = Change(c)
  <2>1. /\ node' = Append(node, Change(c)) /\ path' = Len(node') /\ node \in Seq(Content)
        /\ Change(c) \in Content
    BY ChangeTyped DEF Writes, IInv, Inodes
  <2>2. Len(node') = Len(node) + 1 /\ node'[Len(node) + 1] = Change(c) /\ path' # 0
    BY <2>1, AppendProperties, LenProperties
  <2> QED
    BY <2>1, <2>2 DEF Disk
<1>2. seen[c] = Disk /\ \A k \in Keys : wrote[k] # c
  BY DEF Writes, IInv, NotMoved, WritesOnce, Before
<1>3. /\ wrote' = [k \in Keys |-> IF k \in DOMAIN snap[c] THEN c ELSE wrote[k]]
      /\ pc' = [pc EXCEPT ![c] = "told"] /\ UNCHANGED <<snap, memory, lock, failed>>
  BY DEF Writes, Goes, manager
<1> QED
  BY <1>1, <1>2, <1>3 DEF Change

LEMMA OthersDoNot ==
  ASSUME NEW c \in Mine, SaveMoves(c), ~Writes(c)
  PROVE  Disk' = Disk /\ wrote' = wrote
BY DEF SaveMoves, Sets, Edits, Starts, TakesSidecar, TakesInode, TimesOut, WriteFails, Hears, HearsError,
   CancelEdit, disk, Disk, history

LEMMA AsSavedKept ==
  ASSUME IInv, OnSave, AsSaved, [Next]_vars
  PROVE  AsSaved'
<1>0. /\ Mine' = Mine /\ DOMAIN snap = Mine /\ DOMAIN pc = Mine /\ None \notin Mine
      /\ \A k \in Keys : wrote[k] \in Mine \cup {None}
  BY Standing DEF IInv, Values, Marks, Places
<1>1. ASSUME NEW c \in Mine, Writes(c) PROVE AsSaved'
  <2>1. /\ \A k \in Keys : k \in DOMAIN snap[c] => Disk'[k] = snap[c][k] /\ wrote'[k] = c
        /\ \A k \in Keys : k \notin DOMAIN snap[c] => Disk'[k] = Disk[k] /\ wrote'[k] = wrote[k]
        /\ \A k \in Keys : wrote[k] # c
        /\ pc' = [pc EXCEPT ![c] = "told"] /\ snap' = snap
    BY <1>1, SaveWrites
  <2> QED
    BY <1>0, <2>1 DEF AsSaved
<1>2. ASSUME Disk' = Disk, wrote' = wrote,
             \A c \in Mine : pc[c] \in {"told"} \cup Over => snap'[c] = snap[c] /\ pc'[c] \in {"told"} \cup Over
      PROVE  AsSaved'
  BY <1>0, <1>2 DEF AsSaved
<1>3. ASSUME NEW c \in Mine, SaveMoves(c), ~Writes(c), pc[c] \notin Over PROVE AsSaved'
  <2>1. Disk' = Disk /\ wrote' = wrote
    BY <1>3, OthersDoNot
  <2>2. CASE pc[c] = "told"
    <3>1. snap' = snap /\ (pc' = pc \/ Goes(c, "done"))
      BY <1>3, <2>2 DEF SaveMoves, Sets, Edits, Starts, TakesSidecar, TakesInode, TimesOut, WriteFails, Hears,
         HearsError, CancelEdit, Threaded, manager
    <3> QED
      BY <1>0, <1>2, <2>1, <3>1 DEF Goes, Over
  <2>3. CASE pc[c] # "told"
    <3>1. \A d \in Mine : d # c => pc'[d] = pc[d] /\ snap'[d] = snap[d]
      BY <1>0, <1>3 DEF SaveMoves, Sets, Edits, Starts, TakesSidecar, TakesInode, TimesOut, WriteFails, Breaks,
         Builds, Wants, Hears, HearsError, CancelEdit, Threaded, manager, Goes
    <3> QED
      BY <1>2, <1>3, <2>1, <2>3, <3>1
  <2> QED
    BY <2>2, <2>3
<1>4. ASSUME NEW p \in Procs, Reload(p) \/ Crash(p) PROVE AsSaved'
  <2>1. Disk' = Disk /\ wrote' = wrote /\ snap' = snap /\ \A c \in Mine : pc'[c] = pc[c] \/ pc'[c] = "dead"
    BY <1>0, <1>4 DEF Reload, Crash, disk, Disk, manager, history
  <2> QED
    BY <1>2, <2>1 DEF Over
<1>5. CASE UNCHANGED <<disk, wrote, snap, pc>>
  BY <1>2, <1>5 DEF disk, Disk
<1> QED
  BY <1>1, <1>3, <1>4, <1>5, SaveSteps DEF Next, vars, manager, history, Rests

-----------------------------------------------------------------------------
\* A process whose saves have been well so far.
Sound(p) == \A c \in Of(p) : pc[c] # "dead" /\ (Op(c) = "setter" => pc[c] # "broke" /\ c \notin failed)

\* What a save's step leaves alone: the others' places and snapshots, the setters' snapshots, the
\* errors there were.
LEMMA SaveLeaves ==
  ASSUME IInv, InLine, OnSave, NEW c \in Mine, SaveMoves(c)
  PROVE  /\ \A d \in Mine : d # c => pc'[d] = pc[d] /\ snap'[d] = snap[d]
         /\ Op(c) = "setter" /\ pc[c] # "new" => snap'[c] = snap[c]
         /\ failed \subseteq failed'
         /\ Op(c) = "setter" /\ pc[c] = "broke" => c \in failed'
<1>0. DOMAIN pc = Mine /\ DOMAIN snap = Mine /\ "setter" # "edit"
  BY DEF IInv, Places, Values
<1>1. /\ \A d \in Mine : d # c => pc'[d] = pc[d]
      /\ failed \subseteq failed'
  BY <1>0 DEF SaveMoves, Sets, Edits, Starts, TakesSidecar, TakesInode, TimesOut, Writes, WriteFails, Breaks,
     Builds, Hears, HearsError, CancelEdit, Goes, history
<1>2. /\ \A d \in Mine : d # c => snap'[d] = snap[d]
      /\ Op(c) = "setter" /\ pc[c] # "new" => snap'[c] = snap[c]
  BY <1>0 DEF SaveMoves, Sets, Edits, Starts, TakesSidecar, TakesInode, TimesOut, Writes, WriteFails, Builds, Wants,
              Hears, HearsError, CancelEdit, manager
<1>3. ASSUME Op(c) = "setter", pc[c] = "broke" PROVE c \in failed'
  BY <1>0, <1>3 DEF SaveMoves, Sets, Edits, Starts, TakesSidecar, TakesInode, TimesOut, Writes, WriteFails, Hears,
                    HearsError, CancelEdit
<1> QED
  BY <1>1, <1>2, <1>3

LEMMA SoundBefore ==
  ASSUME IInv, InLine, OnSave, [Next]_vars, NEW p \in Procs, Sound(p)'
  PROVE  /\ Sound(p)
         /\ \A c \in Mine : Proc(c) = p => pc'[c] # "dead" /\ (Op(c) = "setter" => pc'[c] # "broke")
<1>0. /\ Mine' = Mine /\ \A c \in Mine : Op(c)' = Op(c) /\ Proc(c)' = Proc(c)
      /\ "dead" \in Over
  BY Standing DEF Over
<1>1. \A c \in Mine : Proc(c) = p =>
        pc'[c] # "dead" /\ (Op(c) = "setter" => pc'[c] # "broke" /\ c \notin failed')
  BY <1>0 DEF Sound, Of
<1> DEFINE Lasts == /\ failed \subseteq failed'
                    /\ \A c \in Mine : pc[c] = "dead" => pc'[c] = "dead"
                    /\ \A c \in Mine : Op(c) = "setter" /\ pc[c] = "broke" => pc'[c] \in {"broke", "dead"} \/ c \in failed'
<1>2. ASSUME NEW c \in Mine, SaveMoves(c), pc[c] \notin Over PROVE Lasts
  BY <1>0, <1>2, SaveLeaves
<1>3. ASSUME NEW q \in Procs, Reload(q) \/ Crash(q) PROVE Lasts
  <2>1. failed' = failed /\ \A c \in Mine : pc'[c] = pc[c] \/ pc'[c] = "dead"
    BY <1>3 DEF Reload, Crash, history
  <2> QED
    BY <2>1
<1>4. ASSUME pc' = pc, failed' = failed PROVE Lasts
  BY <1>4
<1> HIDE DEF Lasts
<1>5. Lasts
  <2>1. \/ \E c \in Mine : SaveMoves(c) /\ pc[c] \notin Over
        \/ \E q \in Procs : Reload(q) \/ Crash(q)
        \/ UNCHANGED vars
    BY SaveSteps DEF Next, Rests
  <2> QED
    BY <1>2, <1>3, <1>4, <2>1 DEF vars, history
<1> QED
  BY <1>1, <1>5 DEF Lasts, Sound, Of

-----------------------------------------------------------------------------
\* What a setter has yet to write is what memory has, or a later setter in the line writes the key too.
Later(line, has, c, k) == \E d \in Mine : Op(d) = "setter" /\ InFront(line, c, d) /\ k \in DOMAIN has[d]
Newest ==
  \A c \in Mine : Op(c) = "setter" /\ Running(c) /\ Sound(Proc(c)) =>
    \A k \in DOMAIN snap[c] : snap[c][k] = memory[Proc(c)][k] \/ Later(lock[Proc(c)], snap, c, k)

\* Nobody is in front of a setter that is at work.
LEMMA SetterLeads ==
  ASSUME IInv, InLine, NEW c \in Mine, Op(c) = "setter", Running(c)
  PROVE  /\ In(lock[Proc(c)], c)
         /\ pc[c] # "queued" => Head(lock[Proc(c)]) = c /\ \A d : ~InFront(lock[Proc(c)], d, c)
<1>1. pc[c] \in Lined /\ Op(c) # "edit" /\ (pc[c] # "queued" => pc[c] \in Lined \ {"queued"})
  BY DEF Running, Lined
<1>2. In(lock[Proc(c)], c)
  BY <1>1 DEF InLine, Lines
<1>3. ASSUME pc[c] # "queued"
      PROVE  Head(lock[Proc(c)]) = c /\ \A d : ~InFront(lock[Proc(c)], d, c)
  <2>1. lock[Proc(c)] # <<>> /\ Head(lock[Proc(c)]) = c
    BY <1>1, <1>3 DEF InLine, Lines
  <2>2. lock[Proc(c)] \in Seq(Mine) /\ Once(lock[Proc(c)])
    BY TheHistory DEF IInv, Queues, InLine, Lines
  <2> QED
    BY <2>1, <2>2, HeadIsIn
<1> QED
  BY <1>2, <1>3

\* No list of an edit is a setter's of its process, or another edit's.
LEMMA ListsDiffer ==
  ASSUME ListsApart, IInv, NEW c \in Mine, NEW d \in Mine, Op(c) = "edit", c # d, Proc(c) = Proc(d)
  PROVE  Key(c) # Key(d)
BY DEF ListsApart, IInv, Mine, Op, Key, Proc

LEMMA InFrontIn ==
  ASSUME NEW s, NEW c, NEW d, InFront(s, c, d)
  PROVE  In(s, c) /\ In(s, d)
BY DEF InFront, In

LEMMA NewestKept ==
  ASSUME ListsApart, IInv, InLine, OnSave, OwnKeys, Newest, [Next]_vars
  PROVE  Newest'
<1>0. /\ Mine' = Mine /\ DOMAIN snap = Mine /\ DOMAIN pc = Mine /\ DOMAIN memory = Procs /\ DOMAIN lock = Procs
      /\ DOMAIN marked = Procs
      /\ \A c \in Mine : Op(c)' = Op(c) /\ Key(c)' = Key(c) /\ Proc(c)' = Proc(c) /\ Proc(c) \in Procs
      /\ \A p \in Procs : lock[p] \in Seq(Mine) /\ Once(lock[p])
      /\ "setter" # "edit"
  BY Standing, TheHistory DEF IInv, Values, Marks, Places, Queues, InLine, Lines
<1>r. \A c \in Mine : Running(c)' <=> pc'[c] \in {"queued"} \cup Threaded
  BY DEF Running
<1>b. \A p \in Procs : Sound(p)' =>
        /\ Sound(p)
        /\ \A c \in Mine : Proc(c) = p => pc'[c] # "dead" /\ (Op(c) = "setter" => pc'[c] # "broke")
  BY SoundBefore
<1> DEFINE Shown(c) == \A k \in DOMAIN snap'[c] : snap'[c][k] = memory'[Proc(c)][k] \/ Later(lock'[Proc(c)], snap', c, k)
           Ran(c) == Op(c) = "setter" /\ pc'[c] \in {"queued"} \cup Threaded /\ Sound(Proc(c))'
\* Memory keeps what a setter's snapshot has, and whoever is behind it stays there.
<1>1. ASSUME NEW c \in Mine, Op(c) = "setter", Running(c), Sound(Proc(c)), snap'[c] = snap[c],
             \A k \in DOMAIN snap[c] : memory'[Proc(c)][k] = memory[Proc(c)][k],
             \A d \in Mine : Op(d) = "setter" /\ InFront(lock[Proc(c)], c, d) =>
               InFront(lock'[Proc(c)], c, d) /\ snap'[d] = snap[d]
      PROVE  Shown(c)
  BY <1>1 DEF Newest, Later
<1>2. ASSUME NEW a \in Mine, Sets(a), NEW c \in Mine, Ran(c) PROVE Shown(c)
  <2> DEFINE p == Proc(a)
  <2>1. /\ memory' = [memory EXCEPT ![p] = [@ EXCEPT ![Key(a)] = a]]
        /\ marked' = [marked EXCEPT ![p] = @ \cup {Key(a)}]
        /\ snap'[a] = [k \in marked'[p] |-> memory'[p][k]]
        /\ \A d \in Mine : d # a => snap'[d] = snap[d] /\ pc'[d] = pc[d]
        /\ lock' = [lock EXCEPT ![p] = Append(@, a)] /\ pc[a] = "new" /\ Op(a) = "setter"
    BY <1>0, <1>2 DEF Sets, Goes
  <2>2. CASE c = a
    BY <2>1, <2>2
  <2>3. CASE c # a
    <3>1. Running(c) /\ Sound(Proc(c)) /\ Op(c) = "setter"
      BY <1>0, <1>b, <1>2, <2>1, <2>3 DEF Running
    <3>2. In(lock[Proc(c)], c)
      BY <3>1, SetterLeads
    <3>3. CASE Proc(c) # p
      <4>1. lock'[Proc(c)] = lock[Proc(c)] /\ memory'[Proc(c)] = memory[Proc(c)] /\ snap'[c] = snap[c]
        BY <1>0, <2>1, <2>3, <3>3
      <4>2. \A d \in Mine : InFront(lock[Proc(c)], c, d) => d # a
        BY <1>0, <3>3, InFrontIn DEF InLine, Lines
      <4> QED
        BY <1>1, <2>1, <3>1, <4>1, <4>2
    <3>4. CASE Proc(c) = p
      <4>1. /\ lock'[p] = Append(lock[p], a) /\ InFront(lock'[p], c, a)
            /\ \A d : InFront(lock[p], c, d) => InFront(lock'[p], c, d)
        BY <1>0, <2>1, <3>2, <3>4, AtTheEnd
      <4>2. Key(a) \in DOMAIN snap'[a]
        BY <1>0, <2>1
      <4>3. Later(lock'[p], snap', c, Key(a))
        BY <2>1, <4>1, <4>2 DEF Later
      <4>4. \A d \in Mine : InFront(lock[p], c, d) => d # a
        BY <1>0, <2>1, InFrontIn DEF InLine, Lines, Lined, AtWork, Threaded
      <4>5. ASSUME NEW k \in DOMAIN snap[c], k # Key(a)
            PROVE  snap[c][k] = memory'[p][k] \/ Later(lock'[p], snap', c, k)
        <5>1. memory'[p][k] = memory[p][k]
          BY <1>0, <2>1, <4>5
        <5>2. snap[c][k] = memory[p][k] \/ Later(lock[p], snap, c, k)
          BY <3>1, <3>4 DEF Newest
        <5>3. Later(lock[p], snap, c, k) => Later(lock'[p], snap', c, k)
          BY <2>1, <4>1, <4>4 DEF Later
        <5> QED
          BY <5>1, <5>2, <5>3
      <4> QED
        BY <2>1, <2>3, <3>4, <4>3, <4>5
    <3> QED
      BY <3>3, <3>4
  <2> QED
    BY <2>2, <2>3
\* Whoever leaves a line with its process well is an edit, or was its head.
<1>3. ASSUME NEW a \in Mine, SaveMoves(a), Pops(Proc(a), a), snap' = snap,
             memory' = memory \/ (Op(a) = "edit" /\ \E v : memory' = [memory EXCEPT ![Proc(a)] = [@ EXCEPT ![Key(a)] = v]]),
             Op(a) = "setter" => pc[a] \in Threaded,
             pc'[a] = "done" \/ Op(a) = "edit",
             NEW c \in Mine, Ran(c)
      PROVE  Shown(c)
  <2>1. c # a /\ Running(c) /\ Sound(Proc(c)) /\ Op(c) = "setter"
    BY <1>0, <1>b, <1>3, SaveLeaves DEF Running, Threaded
  <2>2. ASSUME NEW k \in DOMAIN snap[c] PROVE memory'[Proc(c)][k] = memory[Proc(c)][k]
    <3>1. SUFFICES ASSUME Op(a) = "edit", Proc(a) = Proc(c), k = Key(a) PROVE FALSE
      <4>1. memory' = memory => memory'[Proc(c)][k] = memory[Proc(c)][k]
        OBVIOUS
      <4>2. ASSUME NEW v, memory' = [memory EXCEPT ![Proc(a)] = [@ EXCEPT ![Key(a)] = v]], Proc(a) # Proc(c) \/ k # Key(a)
            PROVE  memory'[Proc(c)][k] = memory[Proc(c)][k]
        BY <1>0, <4>2
      <4> QED
        BY <1>3, <4>1, <4>2
    <3>2. PICK d \in Mine : Proc(d) = Proc(c) /\ Op(d) = "setter" /\ Key(d) = k
      BY <2>1, <2>2 DEF OwnKeys, SetterOf
    <3> QED
      BY <1>0, <3>1, <3>2, ListsDiffer
  <2>3. ASSUME NEW d \in Mine, Op(d) = "setter", InFront(lock[Proc(c)], c, d) PROVE InFront(lock'[Proc(c)], c, d)
    <3>1. CASE Proc(c) # Proc(a)
      BY <1>0, <1>3, <2>3, <3>1 DEF Pops
    <3>2. CASE Proc(c) = Proc(a)
      <4>1. d # a
        <5>1. SUFFICES ASSUME d = a PROVE FALSE
          OBVIOUS
        <5>2. Running(a) /\ pc[a] # "queued"
          BY <1>3, <2>3, <5>1 DEF Running, Threaded
        <5> QED
          BY <2>3, <3>2, <5>1, <5>2, SetterLeads
      <4>2. lock'[Proc(c)] = Without(lock[Proc(c)], a)
        BY <1>0, <1>3, <3>2 DEF Pops
      <4> QED
        BY <1>0, <2>1, <2>3, <4>1, <4>2, OutOfLine
    <3> QED
      BY <3>1, <3>2
  <2> QED
    BY <1>1, <1>3, <2>1, <2>2, <2>3
<1>4. ASSUME NEW a \in Mine, SaveMoves(a), UNCHANGED <<lock, memory>>, ~Sets(a), NEW c \in Mine, Ran(c) PROVE Shown(c)
  <2>1. Running(c)
    <3>1. CASE c # a
      BY <1>4, <3>1, SaveLeaves DEF Running
    <3>2. CASE c = a
      BY <1>0, <1>4, <3>2 DEF SaveMoves, Running, Threaded, Edits, Starts, TakesSidecar, TakesInode, TimesOut,
         Writes, WriteFails, Hears, HearsError, CancelEdit
    <3> QED
      BY <3>1, <3>2
  <2>2. \A d \in Mine : Op(d) = "setter" /\ d # a => snap'[d] = snap[d]
    BY <1>4, SaveLeaves
  <2>3. Op(a) = "setter" => snap'[a] = snap[a]
    <3>1. Op(a) = "setter" => pc[a] # "new"
      BY <1>0, <1>4 DEF SaveMoves, Edits, Starts, TakesSidecar, TakesInode, TimesOut, Writes, WriteFails,
         Hears, HearsError, CancelEdit
    <3> QED
      BY <1>4, <3>1, SaveLeaves
  <2> QED
    BY <1>0, <1>1, <1>b, <1>4, <2>1, <2>2, <2>3
<1>5. ASSUME NEW a \in Mine, SaveMoves(a), NEW c \in Mine, Ran(c) PROVE Shown(c)
  <2>0. DOMAIN pc = Mine
    BY <1>0
  <2>1. CASE Sets(a)
    BY <1>2, <1>5, <2>1
  <2>2. CASE Hears(a)
    <3>1. /\ Pops(Proc(a), a) /\ snap' = snap /\ pc'[a] = "done" /\ pc[a] \in Threaded
      BY <2>0, <2>2 DEF Hears, Goes, Threaded
    <3>2. Op(a) = "setter" \/ Op(a) = "edit"
      BY DEF OnSave, Setting
    <3>3. memory' = memory \/ (Op(a) = "edit" /\ \E v : memory' = [memory EXCEPT ![Proc(a)] = [@ EXCEPT ![Key(a)] = v]])
      BY <2>2, <3>2 DEF Hears
    <3> QED
      BY <1>3, <1>5, <3>1, <3>3
  <2>3. CASE HearsError(a)
    <3>1. /\ Pops(Proc(a), a) /\ snap' = snap /\ memory' = memory /\ pc'[a] = "done" /\ pc[a] \in Threaded
      BY <2>0, <2>3 DEF HearsError, Goes, Threaded, manager
    <3> QED
      BY <1>3, <1>5, <3>1
  <2>4. CASE CancelEdit(a)
    <3>1. /\ Pops(Proc(a), a) /\ snap' = snap /\ memory' = memory /\ Op(a) = "edit" /\ Op(a) # "setter"
      BY <2>4 DEF CancelEdit, manager
    <3> QED
      BY <1>3, <1>5, <3>1
  <2>5. CASE Edits(a)
    <3>1. snap' = snap /\ memory' = memory /\ Op(a) = "edit" /\ Op(a) # "setter"
      BY <2>5 DEF Edits, manager
    <3>2. lock' = lock \/ lock' = [lock EXCEPT ![Proc(a)] = Append(@, a)]
      BY <2>5 DEF Edits
    <3>3. c # a /\ Running(c) /\ Sound(Proc(c)) /\ Op(c) = "setter"
      BY <1>0, <1>b, <1>5, <3>1, SaveLeaves DEF Running
    <3>4. \A d : InFront(lock[Proc(c)], c, d) => InFront(lock'[Proc(c)], c, d)
      <4>1. lock'[Proc(c)] = lock[Proc(c)] \/ lock'[Proc(c)] = Append(lock[Proc(c)], a)
        BY <1>0, <3>2
      <4>2. lock[Proc(c)] \in Seq(Mine)
        BY <1>0
      <4>3. \A d : InFront(lock[Proc(c)], c, d) => InFront(Append(lock[Proc(c)], a), c, d)
        BY <4>2, AtTheEnd
      <4> QED
        BY <4>1, <4>3
    <3> QED
      BY <1>1, <3>1, <3>3, <3>4
  <2>6. CASE Starts(a) \/ TakesSidecar(a) \/ TakesInode(a) \/ TimesOut(a) \/ Writes(a) \/ WriteFails(a)
    <3>1. UNCHANGED <<lock, memory>>
      BY <2>6 DEF Starts, TakesSidecar, TakesInode, TimesOut, Writes, WriteFails, locks, manager
    <3>2. ~Sets(a)
      BY <2>6 DEF Sets, Starts, TakesSidecar, TakesInode, TimesOut, Writes, WriteFails
    <3> QED
      BY <1>4, <1>5, <3>1, <3>2
  <2> QED
    BY <1>5, <2>1, <2>2, <2>3, <2>4, <2>5, <2>6 DEF SaveMoves
<1>6. ASSUME NEW p \in Procs, Reload(p), NEW c \in Mine, Ran(c) PROVE Shown(c)
  <2>1. /\ UNCHANGED <<lock, snap, pc>> /\ memory' = [memory EXCEPT ![p] = Disk]
        /\ \A d \in Mine : Op(d) = "setter" /\ Running(d) => Proc(d) # p
    BY <1>6 DEF Reload, locks, Pending, Of
  <2>2. Running(c) /\ Sound(Proc(c)) /\ Op(c) = "setter"
    BY <1>0, <1>b, <1>6, <2>1 DEF Running
  <2> QED
    BY <1>0, <1>1, <2>1, <2>2
<1>7. ASSUME NEW p \in Procs, Crash(p), NEW c \in Mine, Ran(c) PROVE Shown(c)
  <2>1. /\ UNCHANGED <<memory, snap>> /\ lock' = [lock EXCEPT ![p] = <<>>]
        /\ \A d \in Mine : pc'[d] = pc[d] \/ pc'[d] = "dead"
        /\ \E d \in Mine : Proc(d) = p /\ pc'[d] = "dead"
    <3>1. PICK d \in Of(p) : pc[d] \notin Over
      BY <1>7 DEF Crash
    <3>2. d \in Mine /\ Proc(d) = p /\ pc'[d] = "dead"
      BY <1>7, <3>1 DEF Crash, Of, Over
    <3> QED
      BY <1>7, <3>2 DEF Crash, manager
  <2>2. Proc(c) # p
    BY <1>0, <1>b, <1>7, <2>1
  <2>3. Running(c) /\ Sound(Proc(c)) /\ Op(c) = "setter"
    BY <1>0, <1>b, <1>7, <2>1 DEF Running, Threaded
  <2> QED
    BY <1>0, <1>1, <2>1, <2>2, <2>3
<1>8. ASSUME UNCHANGED <<lock, memory, snap, pc>>, NEW c \in Mine, Ran(c) PROVE Shown(c)
  <2>1. Running(c) /\ Sound(Proc(c)) /\ Op(c) = "setter"
    BY <1>0, <1>b, <1>8 DEF Running
  <2> QED
    BY <1>1, <1>8, <2>1
<1> HIDE DEF Shown, Ran
<1>9. ASSUME NEW c \in Mine, Ran(c) PROVE Shown(c)
  BY <1>5, <1>6, <1>7, <1>8, <1>9, SaveSteps DEF Next, vars, manager, locks, Rests
<1> QED
  <2>1. \A p, c, k : Later(lock[p], snap, c, k)' <=> Later(lock'[p], snap', c, k)
    BY <1>0 DEF Later, InFront
  <2>2. ASSUME NEW c \in Mine, Op(c) = "setter", Running(c)', Sound(Proc(c))' PROVE Shown(c)
    BY <1>r, <1>9, <2>2 DEF Ran
  <2>3. ASSUME NEW c \in Mine, (Op(c) = "setter" /\ Running(c) /\ Sound(Proc(c)))'
        PROVE  \A k \in DOMAIN snap'[c] : (snap[c][k] = memory[Proc(c)][k] \/ Later(lock[Proc(c)], snap, c, k))'
    BY <1>0, <2>1, <2>2, <2>3 DEF Shown
  <2> QED
    BY <1>0, <2>3 DEF Newest

\* What a process saved last is in its memory, or the write of a newer value of the key is to come, or
\* the loop is to hear of the list.
Unwritten == {"queued", "sidecar", "inode", "write"}
Coming(p, k) == \E d \in Mine : Proc(d) = p /\ Op(d) = "setter" /\ pc[d] \in Unwritten /\ k \in DOMAIN snap[d]
Settled ==
  \A k \in Keys : wrote[k] # None /\ Sound(Proc(wrote[k])) =>
    \/ memory[Proc(wrote[k])][k] = Disk[k]
    \/ Coming(Proc(wrote[k]), k)
    \/ Op(wrote[k]) = "edit" /\ pc[wrote[k]] = "told"

LEMMA SettledKept ==
  ASSUME ListsApart, IInv, InLine, OnSave, OwnKeys, AsSaved, Newest, Settled, [Next]_vars
  PROVE  Settled'
<1>0. /\ Mine' = Mine /\ DOMAIN snap = Mine /\ DOMAIN pc = Mine /\ DOMAIN memory = Procs /\ None \notin Mine
      /\ \A c \in Mine : Op(c)' = Op(c) /\ Key(c)' = Key(c) /\ Proc(c)' = Proc(c) /\ Proc(c) \in Procs /\ Key(c) \in Keys
      /\ \A c \in Mine : Op(c) = "setter" \/ Op(c) = "edit"
      /\ \A k \in Keys : wrote[k] \in Mine \cup {None} /\ wrote'[k] \in Mine \cup {None}
      /\ "setter" # "edit" /\ DOMAIN marked = Procs
  <2>1. Marks'
    BY MarksKept
  <2> QED
    BY <2>1, Standing, TheHistory DEF IInv, Values, Marks, Places, OnSave, Setting
<1> DEFINE Well(p) == \A c \in Mine : Proc(c) = p =>
                        pc'[c] # "dead" /\ (Op(c) = "setter" => pc'[c] # "broke" /\ c \notin failed')
<1>w. \A p : Sound(p)' <=> Well(p)
  BY <1>0 DEF Sound, Of
<1>b. \A p \in Procs : Well(p) =>
        /\ Sound(p)
        /\ \A c \in Mine : Proc(c) = p => pc'[c] # "dead" /\ (Op(c) = "setter" => pc'[c] # "broke")
  BY <1>w, SoundBefore
<1> HIDE DEF Well
<1> DEFINE Comes(p, k) == \E d \in Mine : Proc(d) = p /\ Op(d) = "setter" /\ pc'[d] \in Unwritten /\ k \in DOMAIN snap'[d]
           Fits(w, k) == \/ memory'[Proc(w)][k] = Disk'[k]
                         \/ Comes(Proc(w), k)
                         \/ Op(w) = "edit" /\ pc'[w] = "told"
\* Neither file nor memory has moved at the key, and what is to come is to come still.
<1>1. ASSUME NEW k \in Keys, wrote[k] \in Mine, Sound(Proc(wrote[k])),
             Disk'[k] = Disk[k], memory'[Proc(wrote[k])][k] = memory[Proc(wrote[k])][k],
             \A d \in Mine : Proc(d) = Proc(wrote[k]) /\ Op(d) = "setter" /\ pc[d] \in Unwritten /\ k \in DOMAIN snap[d] =>
               pc'[d] \in Unwritten /\ snap'[d] = snap[d],
             Op(wrote[k]) = "edit" /\ pc[wrote[k]] = "told" => pc'[wrote[k]] = "told"
      PROVE  Fits(wrote[k], k)
  BY <1>0, <1>1 DEF Settled, Coming
<1>2. ASSUME NEW a \in Mine, Writes(a), NEW k \in Keys, wrote'[k] # None, Well(Proc(wrote'[k])) PROVE Fits(wrote'[k], k)
  <2>1. /\ k \in DOMAIN snap[a] => Disk'[k] = snap[a][k] /\ wrote'[k] = a
        /\ k \notin DOMAIN snap[a] => Disk'[k] = Disk[k] /\ wrote'[k] = wrote[k]
        /\ wrote[k] # a
        /\ pc' = [pc EXCEPT ![a] = "told"] /\ UNCHANGED <<snap, memory, lock, failed>>
    BY <1>2, SaveWrites
  <2>2. wrote'[k] \in Mine /\ Sound(Proc(wrote'[k]))
    BY <1>0, <1>b, <1>2
  <2>3. CASE k \notin DOMAIN snap[a]
    BY <1>0, <1>1, <2>1, <2>2, <2>3
  <2>4. CASE k \in DOMAIN snap[a] /\ Op(a) = "edit"
    BY <1>0, <2>1, <2>4
  <2>5. CASE k \in DOMAIN snap[a] /\ Op(a) = "setter"
    <3>1. pc[a] = "write" /\ Running(a)
      BY <1>2 DEF Writes, Running, Threaded
    <3>2. snap[a][k] = memory[Proc(a)][k] \/ Later(lock[Proc(a)], snap, a, k)
      BY <2>1, <2>2, <2>5, <3>1 DEF Newest
    <3>3. ASSUME NEW d \in Mine, Op(d) = "setter", InFront(lock[Proc(a)], a, d), k \in DOMAIN snap[d]
          PROVE  Comes(Proc(a), k)
      <4>1. Proc(d) = Proc(a) /\ pc[d] \in Lined
        BY <1>0, <3>3, InFrontIn DEF InLine, Lines
      <4>2. d # a /\ pc[d] = "queued"
        <5>1. \A e : InFront(lock[Proc(a)], e, a) => FALSE
          BY <2>5, <3>1, SetterLeads
        <5>2. d # a
          BY <3>3, <5>1
        <5>3. pc[d] \in Lined \ {"queued"} => Head(lock[Proc(a)]) = d
          BY <1>0, <3>3, <4>1 DEF InLine, Lines
        <5>4. Head(lock[Proc(a)]) = a
          BY <2>5, <3>1, SetterLeads
        <5> QED
          BY <4>1, <5>2, <5>3, <5>4
      <4>3. pc'[d] \in Unwritten /\ snap'[d] = snap[d]
        BY <1>0, <2>1, <4>2 DEF Unwritten
      <4> QED
        BY <3>3, <4>1, <4>3
    <3> QED
      BY <2>1, <2>5, <3>2, <3>3 DEF Later
  <2> QED
    BY <1>0, <2>3, <2>4, <2>5
<1>3. ASSUME NEW a \in Mine, SaveMoves(a), ~Writes(a), NEW k \in Keys, wrote[k] \in Mine, Well(Proc(wrote[k]))
      PROVE  Fits(wrote[k], k)
  <2> DEFINE w == wrote[k]
             p == Proc(w)
  <2>0. /\ Disk' = Disk /\ w \in Mine /\ Sound(p) /\ p \in Procs
        /\ \A d \in Mine : d # a => pc'[d] = pc[d] /\ snap'[d] = snap[d]
        /\ Op(a) = "setter" /\ pc[a] # "new" => snap'[a] = snap[a]
        /\ Proc(a) = p => pc'[a] # "dead" /\ (Op(a) = "setter" => pc'[a] # "broke")
        /\ "new" \notin Unwritten /\ "told" \notin Unwritten /\ "broke" \notin Unwritten
    BY <1>0, <1>3, <1>b, OthersDoNot, SaveLeaves DEF Unwritten
  <2>1. CASE Sets(a)
    <3>1. /\ pc[a] = "new" /\ pc'[a] = "queued" /\ DOMAIN snap'[a] = marked'[Proc(a)]
          /\ marked' = [marked EXCEPT ![Proc(a)] = @ \cup {Key(a)}]
          /\ memory' = [memory EXCEPT ![Proc(a)] = [@ EXCEPT ![Key(a)] = a]] /\ Op(a) = "setter"
      BY <1>0, <2>1 DEF Sets, Goes
    <3>2. CASE Proc(a) = p /\ Key(a) = k
      <4>1. pc'[a] \in Unwritten /\ k \in DOMAIN snap'[a]
        BY <1>0, <3>1, <3>2 DEF Unwritten
      <4> QED
        BY <3>1, <3>2, <4>1
    <3>3. CASE ~(Proc(a) = p /\ Key(a) = k)
      BY <1>0, <1>1, <2>0, <3>1, <3>3
    <3> QED
      BY <3>2, <3>3
  <2>2. CASE Hears(a)
    <3>1. pc[a] = "told"
      BY <2>2 DEF Hears
    <3>2. CASE Op(a) = "setter"
      <4>1. memory' = memory
        BY <2>2, <3>2 DEF Hears
      <4> QED
        BY <1>0, <1>1, <2>0, <3>1, <3>2, <4>1
    <3>3. CASE Op(a) = "edit"
      <4>1. memory' = [memory EXCEPT ![Proc(a)] = [@ EXCEPT ![Key(a)] = snap[a][Key(a)]]]
        BY <1>0, <2>2, <3>3 DEF Hears, Commits
      <4>2. k \in DOMAIN snap[w] /\ Disk[k] = snap[w][k]
        BY <1>0, <1>3 DEF AsSaved
      <4>3. CASE Proc(a) = p /\ Key(a) = k
        <5>1. Op(w) # "setter"
          <6>1. SUFFICES ASSUME Op(w) = "setter" PROVE FALSE
            OBVIOUS
          <6>2. PICK d \in Mine : Proc(d) = p /\ Op(d) = "setter" /\ Key(d) = k
            BY <2>0, <4>2, <6>1 DEF OwnKeys, SetterOf
          <6> QED
            BY <1>0, <3>3, <4>3, <6>2, ListsDiffer
        <5>2. Op(w) = "edit" /\ Key(w) = k
          BY <1>0, <2>0, <4>2, <5>1 DEF OwnKeys
        <5>3. w = a
          BY <1>0, <2>0, <3>3, <4>3, <5>2, ListsDiffer
        <5>4. DOMAIN memory[Proc(a)] = Keys
          BY <1>0 DEF IInv, Values, Content
        <5>5. memory'[p][k] = snap[a][k]
          BY <1>0, <4>1, <4>3, <5>4
        <5> QED
          BY <2>0, <4>2, <5>3, <5>5
      <4>4. CASE ~(Proc(a) = p /\ Key(a) = k)
        <5>1. w # a
          BY <1>0, <2>0, <3>3, <4>2, <4>4 DEF OwnKeys
        <5> QED
          BY <1>0, <1>1, <2>0, <3>1, <3>3, <4>1, <4>4, <5>1
      <4> QED
        BY <4>3, <4>4
    <3> QED
      BY <1>0, <3>2, <3>3
  <2>3. CASE ~Sets(a) /\ ~Hears(a)
    <3>1. memory' = memory
      BY <1>3, <2>3 DEF SaveMoves, Edits, Starts, TakesSidecar, TakesInode, TimesOut, WriteFails, HearsError,
         CancelEdit, manager
    <3>2. ASSUME Op(a) = "edit", pc[a] = "told" PROVE pc'[a] = "told"
      BY <1>0, <1>3, <2>3, <3>2 DEF SaveMoves, Edits, Starts, TakesSidecar, TakesInode, TimesOut, WriteFails,
         HearsError, CancelEdit, Threaded
    <3>3. ASSUME Op(a) = "setter", Proc(a) = p, pc[a] \in Unwritten PROVE pc'[a] \in Unwritten /\ snap'[a] = snap[a]
      <4>1. a \notin left
        BY <1>0, <3>3 DEF InLine
      <4>2. pc'[a] # "broke" /\ pc[a] # "told" /\ pc[a] # "broke" /\ pc[a] # "new"
        BY <2>0, <3>3
      <4>3. CASE Starts(a)
        BY <1>0, <2>0, <4>2, <4>3 DEF Starts, Goes, Unwritten, manager
      <4>4. CASE TakesSidecar(a) \/ TakesInode(a)
        <5>1. Goes(a, "inode") \/ Goes(a, "write")
          BY <1>0, <3>3, <4>1, <4>4 DEF TakesSidecar, TakesInode, Builds
        <5> QED
          BY <1>0, <2>0, <3>3, <4>2, <5>1 DEF Goes, Unwritten
      <4>5. ~TimesOut(a) /\ ~WriteFails(a) /\ ~Edits(a) /\ ~CancelEdit(a) /\ ~HearsError(a)
        BY <1>0, <3>3, <4>1, <4>2 DEF TimesOut, WriteFails, Breaks, Goes, Edits, CancelEdit, HearsError
      <4> QED
        BY <1>3, <2>3, <4>3, <4>4, <4>5 DEF SaveMoves
    <3> QED
      BY <1>0, <1>1, <2>0, <3>1, <3>2, <3>3
  <2> QED
    BY <2>1, <2>2, <2>3
<1>4. ASSUME NEW q \in Procs, Reload(q), NEW k \in Keys, wrote[k] \in Mine, Well(Proc(wrote[k])) PROVE Fits(wrote[k], k)
  <2>1. Disk' = Disk /\ pc' = pc /\ snap' = snap /\ memory' = [memory EXCEPT ![q] = Disk]
    BY <1>4 DEF Reload, disk, Disk
  <2>2. Proc(wrote[k]) \in Procs /\ Sound(Proc(wrote[k]))
    BY <1>0, <1>b, <1>4
  <2>3. CASE Proc(wrote[k]) = q
    BY <1>0, <2>1, <2>3
  <2>4. CASE Proc(wrote[k]) # q
    BY <1>0, <1>1, <1>4, <2>1, <2>2, <2>4
  <2> QED
    BY <2>3, <2>4
<1>5. ASSUME NEW q \in Procs, Crash(q), NEW k \in Keys, wrote[k] \in Mine, Well(Proc(wrote[k])) PROVE Fits(wrote[k], k)
  <2>1. /\ Disk' = Disk /\ snap' = snap /\ memory' = memory /\ \A d \in Mine : pc'[d] = pc[d] \/ pc'[d] = "dead"
    BY <1>5 DEF Crash, disk, Disk, manager
  <2>2. /\ Proc(wrote[k]) \in Procs /\ Sound(Proc(wrote[k]))
        /\ \A d \in Mine : Proc(d) = Proc(wrote[k]) => pc'[d] # "dead"
    BY <1>0, <1>b, <1>5
  <2>3. \A d \in Mine : Proc(d) = Proc(wrote[k]) => pc'[d] = pc[d]
    BY <2>1, <2>2
  <2> QED
    BY <1>1, <1>5, <2>1, <2>2, <2>3
<1>6. ASSUME UNCHANGED <<disk, pc, snap, memory>>, NEW k \in Keys, wrote[k] \in Mine, Well(Proc(wrote[k])) PROVE Fits(wrote[k], k)
  <2>1. Disk' = Disk /\ snap' = snap /\ memory' = memory /\ pc' = pc
    BY <1>6 DEF disk, Disk
  <2>2. Sound(Proc(wrote[k]))
    BY <1>0, <1>b, <1>6
  <2> QED
    BY <1>1, <1>6, <2>1, <2>2
<1> HIDE DEF Fits
<1>7. ASSUME NEW k \in Keys, wrote'[k] # None, Well(Proc(wrote'[k])) PROVE Fits(wrote'[k], k)
  <2>1. \/ \E a \in Mine : SaveMoves(a)
        \/ \E q \in Procs : Reload(q) \/ Crash(q)
        \/ UNCHANGED vars
    BY SaveSteps DEF Next, Rests
  <2>2. wrote'[k] \in Mine
    BY <1>0, <1>7
  <2>3. CASE \E a \in Mine : SaveMoves(a) /\ Writes(a)
    BY <1>2, <1>7, <2>3
  <2>4. CASE \E a \in Mine : SaveMoves(a) /\ ~Writes(a)
    <3>1. PICK a \in Mine : SaveMoves(a) /\ ~Writes(a)
      BY <2>4
    <3>2. wrote' = wrote
      BY <3>1, OthersDoNot
    <3>3. Well(Proc(wrote[k]))
      BY <1>7, <3>2
    <3> QED
      BY <1>3, <2>2, <3>1, <3>2, <3>3
  <2>5. ASSUME wrote' = wrote PROVE Well(Proc(wrote[k])) /\ wrote[k] \in Mine
    BY <1>7, <2>2, <2>5
  <2>6. CASE \E q \in Procs : Reload(q) \/ Crash(q)
    <3>1. wrote' = wrote
      BY <2>6 DEF Reload, Crash, history
    <3> QED
      BY <1>4, <1>5, <2>5, <2>6, <3>1
  <2>7. CASE UNCHANGED vars
    <3>1. wrote' = wrote /\ UNCHANGED <<disk, pc, snap, memory>>
      BY <2>7 DEF vars, manager, history
    <3> QED
      BY <1>6, <2>5, <3>1
  <2> QED
    BY <2>1, <2>3, <2>4, <2>6, <2>7
<1> QED
  <2>1. ASSUME NEW k \in Keys, wrote'[k] # None, Sound(Proc(wrote[k]))' PROVE Fits(wrote'[k], k)
    <3>1. wrote'[k] \in Mine
      BY <1>0, <2>1
    <3>2. Proc(wrote[k])' = Proc(wrote'[k])
      BY <1>0, <3>1
    <3>3. Sound(Proc(wrote[k]))' => Well(Proc(wrote[k])')
      BY <1>w
    <3> QED
      BY <1>7, <2>1, <3>2, <3>3
  <2> QED
    BY <1>0, <2>1 DEF Settled, Coming, Fits

LEMMA AgreeAtRest ==
  ASSUME IInv, OnSave, AsSaved, Settled
  PROVE  Agree
<1> SUFFICES ASSUME NEW p \in Procs, Quiet(p), NEW k \in Keys, wrote[k] \in Of(p)
             PROVE  memory[p][k] = Disk[k]
  BY DEF Agree
<1>1. wrote[k] \in Mine /\ wrote[k] # None /\ Proc(wrote[k]) = p
  BY TheHistory DEF Of, IInv
<1>2. Sound(p) /\ \A d \in Mine : Proc(d) = p => pc[d] \in {"new", "done"}
  BY DEF Quiet, Sound, Of
<1>3. ~Coming(p, k) /\ pc[wrote[k]] # "told"
  BY <1>1, <1>2 DEF Coming, Unwritten
<1> QED
  BY <1>1, <1>2, <1>3 DEF Settled

-----------------------------------------------------------------------------
\* The two inductions: a history is of one file.
AuthInv ==
  /\ IInv /\ InLine
  /\ OnAuth => Holds /\ Steady /\ Fresh /\ Spent /\ RefreshedOnce /\ Known
  /\ OnSave => rotated = {}
SaveInv ==
  /\ IInv /\ InLine
  /\ OnSave => OwnKeys /\ AsSaved /\ Newest /\ Settled

LEMMA OneFile ==
  ASSUME scope \in Scopes
  PROVE  OnAuth \/ OnSave
BY TheHistory DEF OnAuth, OnSave

LEMMA SameFile ==
  ASSUME IInv, [Next]_vars
  PROVE  (OnAuth' <=> OnAuth) /\ (OnSave' <=> OnSave)
BY Standing DEF OnAuth, OnSave

LEMMA AtFirst ==
  ASSUME Init
  PROVE  AuthInv /\ SaveInv
<1>1. IInv
  BY Initially
<1>2. /\ pc = [c \in Mine |-> "new"] /\ lock = [p \in Procs |-> <<>>] /\ left = {} /\ rotated = {} /\ tmp = 0
      /\ wrote = [k \in Keys |-> None] /\ marked = [p \in Procs |-> {}] /\ snap = [c \in Mine |-> <<>>]
      /\ DOMAIN <<>> = {}
  BY DEF Init
<1>3. InLine
  <2>1. \A p \in Procs : Once(lock[p]) /\ \A c : ~In(lock[p], c)
    BY <1>2 DEF Once, In
  <2>2. \A c \in Mine : pc[c] \notin Lined
    BY <1>2 DEF Lined, AtWork, Threaded
  <2> QED
    BY <1>2, <2>1, <2>2 DEF InLine, Lines
<1>4. Holds /\ Steady /\ Fresh /\ Spent /\ RefreshedOnce /\ Known
  <2>1. \A c \in Mine : pc[c] \notin {"flock"} \cup AtWork \cup {"write"} \cup Filled
    BY <1>2 DEF AtWork, Filled
  <2>2. \A p \in Procs, k \in Keys : wrote[k] \notin Of(p)
    BY <1>1, <1>2, TheHistory DEF Of, IInv
  <2>3. Fresh
    BY <1>2, <2>1 DEF Fresh, Filled, AtWork
  <2> QED
    BY <1>2, <2>1, <2>2, <2>3 DEF Holds, Steady, Spent, RefreshedOnce, Known
<1>5. OwnKeys /\ AsSaved /\ Newest /\ Settled
  <2>1. \A c \in Mine : DOMAIN snap[c] = {}
    BY <1>2
  <2> QED
    BY <1>2, <2>1 DEF OwnKeys, AsSaved, Newest, Settled
<1> QED
  BY <1>1, <1>2, <1>3, <1>4, <1>5 DEF AuthInv, SaveInv

LEMMA AuthInvKept ==
  ASSUME FewOnAuth, AuthInv, [Next]_vars
  PROVE  AuthInv'
<1>1. IInv' /\ InLine'
  BY Preserved, InLineKept DEF AuthInv
<1>2. CASE OnAuth
  <2>1. Holds' /\ Steady' /\ Fresh'
    BY <1>2, HoldsKept, SteadyKept, FreshKept DEF AuthInv
  <2>2. Spent' /\ RefreshedOnce' /\ Known'
    BY <1>2, RotatedKept, KnownKept DEF AuthInv
  <2>3. OnSave' => rotated' = {}
    <3>1. OnSave' => Mine' = {}
      BY <1>1, <1>2, SameFile, Standing, TheHistory DEF AuthInv, OnAuth, OnSave, IInv
    <3>2. rotated' \subseteq Mine'
      BY <1>1 DEF IInv, Marks
    <3> QED
      BY <3>1, <3>2
  <2> QED
    BY <1>1, <2>1, <2>2, <2>3 DEF AuthInv
<1>3. CASE ~OnAuth
  <2>1. OnSave /\ ~OnAuth' /\ rotated = {}
    BY <1>3, OneFile, SameFile DEF AuthInv, IInv
  <2>2. ASSUME NEW c \in Mine, SaveMoves(c) PROVE rotated' = {}
    BY <2>1, <2>2 DEF SaveMoves, Sets, Edits, Starts, TakesSidecar, TakesInode, TimesOut, Writes, WriteFails, Hears,
         HearsError, CancelEdit, history
  <2>3. rotated' = {}
    BY <2>1, <2>2, SaveSteps DEF AuthInv, Next, Rests, Reload, Crash, vars, history
  <2> QED
    BY <1>1, <2>1, <2>3 DEF AuthInv
<1> QED
  BY <1>2, <1>3

LEMMA SaveInvKept ==
  ASSUME ListsApart, SaveInv, [Next]_vars
  PROVE  SaveInv'
<1>1. IInv' /\ InLine'
  BY Preserved, InLineKept DEF SaveInv
<1>2. CASE OnSave
  <2>1. OwnKeys' /\ AsSaved'
    BY <1>2, OwnKeysKept, AsSavedKept DEF SaveInv
  <2>2. Newest' /\ Settled'
    BY <1>2, NewestKept, SettledKept DEF SaveInv
  <2> QED
    BY <1>1, <2>1, <2>2 DEF SaveInv
<1>3. CASE ~OnSave
  BY <1>1, <1>3, SameFile DEF SaveInv
<1> QED
  BY <1>2, <1>3

\* Calls of one storage, or two calls of two processes, come to auth.json in any order, fail, die: a
\* refresh token is spent once.  Who waited for the lock reads the file again and finds the new token
\* (`get_oauth_api_key').  With a third call, which opened the file before another replaced it, the
\* flock excludes nobody: SiblingsKept.
THEOREM RefreshedOnceHolds ==
  ASSUME FewOnAuth
  PROVE  Spec => []RefreshedOnce
<1>1. Init => AuthInv
  BY AtFirst
<1>2. AuthInv /\ [Next]_vars => AuthInv'
  BY AuthInvKept
<1>3. AuthInv => RefreshedOnce
  BY OneFile DEF AuthInv, IInv, RefreshedOnce
<1> QED
  BY <1>1, <1>2, <1>3, PTL DEF Spec

\* However many sessions set, edit, reload and cancel, one whose saves are over and went well has in
\* memory what it saved last, unless another's save came after it (`edit_list', `_write_task').  A list
\* that a session edits has no other save there: two edits' lists may be taken over in the other order.
THEOREM AgreeHolds ==
  ASSUME FewOnAuth, ListsApart
  PROVE  Spec => []Agree
<1>1. Init => AuthInv /\ SaveInv
  BY AtFirst
<1>2. AuthInv /\ [Next]_vars => AuthInv'
  BY AuthInvKept
<1>3. SaveInv /\ [Next]_vars => SaveInv'
  BY SaveInvKept
<1>4. AuthInv /\ SaveInv => Agree
  <2> SUFFICES ASSUME AuthInv, SaveInv PROVE Agree
    OBVIOUS
  <2>1. CASE OnAuth
    BY <2>1 DEF AuthInv, Known, Agree
  <2>2. CASE OnSave
    BY <2>2, AgreeAtRest DEF SaveInv
  <2> QED
    BY <2>1, <2>2, OneFile DEF AuthInv, IInv
<1> QED
  BY <1>1, <1>2, <1>3, <1>4, PTL DEF Spec
=============================================================================
