------------------------------- MODULE MCSave -------------------------------
(* Two names the user edits, their backups, and one temporary name. *)
EXTENDS Save, TLC

CONSTANTS a, b, c, ba, bb, bc, t1, none

MCEditable == {a, b}
MCSpare    == {ba, bb, t1}
MCTmp      == {t1}
MCBak      == (a :> ba) @@ (b :> bb)

(* Both files there with an old backup of a, only a, and two links of one. *)
NoDisk     == [n \in MCEditable \cup MCSpare |-> none]
MCInitDisk == {[NoDisk EXCEPT ![a] = 1, ![b] = 2, ![ba] = 3],
               [NoDisk EXCEPT ![a] = 1, ![b] = 1]}

(* Three names for two files: one can be given the old name of the other. *)
MC3Editable == {a, b, c}
MC3Spare    == {ba, bb, bc, t1}
MC3Bak      == (a :> ba) @@ (b :> bb) @@ (c :> bc)
MC3InitDisk == {[[n \in MC3Editable \cup MC3Spare |-> none] EXCEPT ![a] = 1, ![b] = 2]}
=============================================================================
