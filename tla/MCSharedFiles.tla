---------------------------- MODULE MCSharedFiles ----------------------------
(* SharedFiles for TLC. *)
EXTENDS SharedFiles, TLC

CONSTANTS c1, c2, c3, c4, p1, p2, k1, k2

TheCalls == {c1, c2, c3, c4}
TheProcs == {p1, p2}
TheKeys == {k1, k2}

On(r, op, key) == [proc |-> r, op |-> op, key |-> key]
History(d, t, f, r) == [does |-> d, there |-> t, faults |-> f, reloads |-> r]

\* One storage for auth.json; or two processes of one call each.
OneStorage == {History(c1 :> On(p1, a, k1) @@ c2 :> On(p1, b, x) @@ c3 :> On(p1, "refresh", k1), t, 1, 0) :
                 a, b \in Credential, x \in TheKeys, t \in BOOLEAN}
OneShots == {History(c1 :> On(p1, a, k1) @@ c2 :> On(p2, b, x), t, 1, 0) :
                 a, b \in Credential, x \in TheKeys, t \in BOOLEAN}

\* Two sessions that save settings; in each, a list has no setter.
Sessions == {h \in {History(c1 :> On(p1, "setter", k1) @@ c2 :> On(p1, b, k2) @@ c3 :> On(p2, a, x)
                            @@ c4 :> On(r, "setter", k1), TRUE, 1, 1) :
                      a, b \in Setting, x \in TheKeys, r \in TheProcs} :
               h.does[c4].proc = p2 /\ h.does[c3].op = "edit" => h.does[c3].key = k2}
            \cup {History(c1 :> On(p1, "setter", k1) @@ c2 :> On(p2, a, k2), FALSE, 1, 0) : a \in Setting}

Histories == OneStorage \cup OneShots \cup Sessions

\* A second call of a process that another waits for with the file it replaced.
Siblings == {History(c1 :> On(p1, "set", k1) @@ c2 :> On(p1, "set", k1) @@ c3 :> On(p2, "set", k2), TRUE, 0, 0)}
=============================================================================
