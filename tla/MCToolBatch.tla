---------------------------- MODULE MCToolBatch ----------------------------
(* ToolBatch for TLC: batches of every kind, and the one a straggler shows on. *)
EXTENDS ToolBatch

Plain(k) == [parallel |-> TRUE, told |-> TRUE, fails |-> FALSE, cancels |-> k]

\* A third cancel lets two of them meet a wait that began with one.
EveryKind == [parallel : BOOLEAN, told : BOOLEAN, fails : BOOLEAN, cancels : {2}] \cup {Plain(3)}
StragglerKind == {Plain(2)}
=============================================================================
