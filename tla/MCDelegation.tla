---------------------------- MODULE MCDelegation ----------------------------
(* Delegation with bounded histories for TLC: the limits of the code made small. *)
EXTENDS Delegation

TheSolos == {9}

Quiet == [size |-> 2, chain |-> FALSE, solos |-> {}, helpers |-> {}, mutes |-> {}, fails |-> {},
          stops |-> 0, cancels |-> 0, sweeps |-> FALSE, cuts |-> FALSE, prompts |-> FALSE]

\* Every way one child may be ended, twice over, beside another.
Kills == [Quiet EXCEPT !.helpers = {1}, !.mutes = {1}, !.fails = {"pump"}, !.stops = 1, !.cancels = 2]
\* stop_all() meets two waves of members at every step; a command that reopens the door.
Waves == [Quiet EXCEPT !.size = 3, !.sweeps = TRUE, !.prompts = TRUE]
Doors == [Quiet EXCEPT !.solos = TheSolos, !.sweeps = TRUE, !.prompts = TRUE]
UserDoor == [Quiet EXCEPT !.size = 1, !.solos = TheSolos, !.sweeps = TRUE, !.cancels = 1, !.stops = 1]
\* stop_all() itself is cancelled.
SweepsCut == [Quiet EXCEPT !.mutes = {1}, !.sweeps = TRUE, !.cuts = TRUE, !.fails = {"prompt", "exec"}]
Chain == [Quiet EXCEPT !.size = 3, !.chain = TRUE, !.fails = {"prompt"}, !.stops = 1, !.cancels = 2, !.sweeps = TRUE]

Histories == {Kills, Waves, Doors, UserDoor, SweepsCut, Chain}
=============================================================================
