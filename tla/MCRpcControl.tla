---------------------------- MODULE MCRpcControl ----------------------------
(* RpcControl with its requests as model values, and the bounded histories the run checks. *)
EXTENDS RpcControl

CONSTANTS o1, o2, o3, c1, c2

TheOps == {o1, o2, o3}
TheCommands == {c1, c2}

None == [c \in TheCommands |-> {}]
Quiet == [kinds |-> None, cancels |-> 1, ends |-> {TRUE}, catches |-> FALSE]

\* Two leases follow one another beside every other mutation and a classic command.
Leases == [methods |-> o1 :> {"configure"} @@ o2 :> {"configure", "setting"} @@ o3 :> {"reload", "command"}] @@
          [Quiet EXCEPT !.kinds[c1] = {"swap", "other"}, !.cancels = 2]
\* A command that replaces the session and a reload meet every pair of classic commands, to the end.
Classics == [methods |-> o1 :> {"command"} @@ o2 :> {"reload"} @@ o3 :> {"setting"}] @@
            [Quiet EXCEPT !.kinds = [c \in TheCommands |-> Kinds], !.ends = BOOLEAN]

Histories == {Leases, Classics}
=============================================================================
