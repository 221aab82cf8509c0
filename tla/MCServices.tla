----------------------------- MODULE MCServices -----------------------------
(* Values of the constants that a .cfg cannot write down: config.kv and a      *)
(* saved game in one folder, in both or in none, and symmetry.  Keys stand for *)
(* one another but for the one with a line at first; threads are all alike,    *)
(* those that write keys and those whose waits are watched.                    *)
EXTENDS Services, TLC

CONSTANTS config, game, k1, v1, old, new

Folder(lines, copy) == (config :> lines) @@ (game :> copy)
Line == <<k1, v1>>
MCTopCopies == {Folder(lines, copy) : lines \in {Absent, <<Line>>}, copy \in {Absent, old}}
MCUserCopies == {Folder(lines, copy) : lines \in {Absent, <<>>}, copy \in {Absent, new}}
Symmetry == Permutations(Threads) \cup Permutations(Keys \ {k1})
=============================================================================
