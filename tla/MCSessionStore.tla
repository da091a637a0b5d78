--------------------------- MODULE MCSessionStore ---------------------------
(* SessionStore with its writers as model values, and the bounded histories the runs check. *)
EXTENDS SessionStore, TLC

CONSTANTS w1, w2

TheWriters == {w1, w2}

Alone == [tasks |-> {w1}, awaits |-> FALSE, entries |-> 5, faults |-> 2, damage |-> 0]
Beside == [tasks |-> {w1, w2}, awaits |-> TRUE, entries |-> 4, faults |-> 2, damage |-> 0]

\* Faults without and with a FileSystem that suspends; unreadable lines; longer withdrawals.
Histories == {Alone,
              Beside,
              [Alone EXCEPT !.entries = 4, !.damage = 2],
              [Alone EXCEPT !.entries = 6, !.faults = 0]}
=============================================================================
