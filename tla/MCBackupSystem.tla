--------------------------- MODULE MCBackupSystem ---------------------------
(* Small instances of BackupSystem for TLC.                                *)
EXTENDS BackupSystem

\* One Backup, stripped of its ServiceAccount or with a target that moves to
\* another node, and a failing call of the operator or of a run, or a kill.
SystemLimit == [create |-> 1, edit |-> 0, foreground |-> 0, tamper |-> 1,
                fault |-> 1, restart |-> 0]

\* The targets are on one node.
AnyHome == [k \in Keys |-> CHOOSE n \in Nodes : TRUE]
=============================================================================
