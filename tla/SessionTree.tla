----------------------------- MODULE SessionTree -----------------------------
(***************************************************************************)
(* What a session file promises (ADR-0242): a tree of entries that only    *)
(* grows, with a leaf.  What an append that returned added is there for    *)
(* ever, through a crash too; of one that raised, or that the crash cut,   *)
(* the entry is there or is not, and the next open tells.                  *)
(***************************************************************************)
EXTENDS Naturals

CONSTANT Ids      \* names entries may take

Root == 0         \* no entry: the parent of the first ones, and an empty session's leaf

\* An entry moves the leaf to its target: itself, or what a leaf entry says.
Entry == [id : Ids \ {Root}, parent : Ids \cup {Root}, target : Ids \cup {Root}]
Named(S) == {e.id : e \in S}

VARIABLES
  tree,   \* the entries
  leaf,   \* the entry the next one hangs from
  doubt,  \* entries an append that did not return may have left
  up      \* whether a process has the session open

vars == <<tree, leaf, doubt, up>>

Init == tree = {} /\ leaf = Root /\ doubt = {} /\ up = TRUE

\* An entry hangs from one there is, and points at one there is or at itself.
Hangs(e) == /\ e.id \notin Named(tree \cup doubt)
            /\ e.parent \in Named(tree) \cup {Root}
            /\ e.target \in Named(tree) \cup {Root, e.id}

Add(e) == /\ up /\ Hangs(e)
          /\ tree' = tree \cup {e} /\ leaf' = e.target
          /\ UNCHANGED <<doubt, up>>

Fail(e) == /\ up /\ Hangs(e)
           /\ doubt' = doubt \cup {e}
           /\ UNCHANGED <<tree, leaf, up>>

Die == /\ up /\ up' = FALSE
       /\ doubt' = doubt \/ \E e \in Entry : Hangs(e) /\ doubt' = doubt \cup {e}
       /\ UNCHANGED <<tree, leaf>>

Found(S) == tree \cup S

Open == /\ ~up /\ up' = TRUE
        /\ \E S \in SUBSET doubt :
             /\ tree' = Found(S)
             /\ leaf' \in {leaf} \cup {e.target : e \in S}
        /\ doubt' = {}

Next == Die \/ Open \/ \E e \in Entry : Add(e) \/ Fail(e)

Spec == Init /\ [][Next]_vars

-----------------------------------------------------------------------------
\* Every entry's parent, every leaf entry's target and the leaf are there: a walk from the leaf to the
\* root never meets a missing entry (`get_path_to_root', `get_leaf_id').
Resolves ==
  /\ \A e \in tree : {e.parent, e.target} \subseteq Named(tree) \cup {Root}
  /\ leaf \in Named(tree) \cup {Root}

\* No entry is ever lost, a crash and a failed append included.
OnlyGrows == [][tree \subseteq tree']_vars
=============================================================================
