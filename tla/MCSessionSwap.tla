--------------------------- MODULE MCSessionSwap ---------------------------
(* SessionSwap with its tasks, lines and files as model values, and the bounded histories the runs check. *)
EXTENDS SessionSwap, TLC

CONSTANTS t1, t2, l1, l2, home, other, n1, n2

TheTasks == {t1, t2}
TheLines == {l1, l2}
TheOld == {home, other}
TheNew == {n1, n2}

Anywhere == {"wait", "settle", "hook", "ask", "give1", "shut", "dispose", "build", "restore", "resettle", "after"}
Anything == {"open", "hook", "ask", "copy", "copied", "after", "build", "restore", "resettle"}
Quiet == [kinds |-> {}, lines |-> {}, fails |-> {}, cancels |-> {}, unusable |-> {}, others |-> {},
          own |-> FALSE, escapes |-> FALSE, quits |-> FALSE]

\* Two transitions beside another terminal, every step of which may raise; or may be cancelled.
Locks == [Quiet EXCEPT !.kinds = Swaps, !.fails = Anything, !.others = {other, n1}]
Cuts == [Quiet EXCEPT !.kinds = {"resume", "new", "reload"}, !.cancels = Anywhere, !.fails = {"build"},
                      !.others = {home}, !.unusable = {n1}, !.quits = TRUE]
\* Lines and an Esc meet a swap and a reload whose build may fail, or which is cancelled.
Typed == [Quiet EXCEPT !.kinds = {"new", "reload"}, !.lines = TheLines, !.fails = {"build", "restore", "after"},
                       !.escapes = TRUE]
TypedCuts == [Quiet EXCEPT !.kinds = {"new", "import"}, !.lines = {l1}, !.cancels = Anywhere, !.quits = TRUE,
                           !.escapes = TRUE]

\* A session whose sidecar cannot be used is asked for.
Barred == [Quiet EXCEPT !.kinds = {"resume", "import", "fork"}, !.lines = {l1}, !.unusable = {other}]

Histories == {Locks, Cuts, Typed, TypedCuts, Barred}

CutHistories == {[Quiet EXCEPT !.kinds = {"new"}, !.lines = TheLines, !.cancels = {"give2"}]}
=============================================================================
