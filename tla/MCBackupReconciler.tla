------------------------- MODULE MCBackupReconciler -------------------------
(* Small instances of BackupReconciler for TLC: how often each disturbance *)
(* may happen in a run.                                                    *)
EXTENDS BackupReconciler, TLC

\* One Backup, disturbed in every way that leaves it alone in its namespace.
SingleLimit == [create |-> 1, edit |-> 1, foreground |-> 1, tamper |-> 1,
                fault |-> 1, restart |-> 1]

\* Two Backups that share their namespace, or one that comes again, with a
\* failing call and a restart.
SiblingLimit == [create |-> 2, edit |-> 0, foreground |-> 0, tamper |-> 0,
                 fault |-> 1, restart |-> 1]

\* For liveness: one Backup, edited, stripped of a managed object of any kind,
\* with a failing call.
LiveLimit == [create |-> 1, edit |-> 1, foreground |-> 0, tamper |-> 1,
              fault |-> 1, restart |-> 0]

\* For liveness: two Backups that share their namespace, created and deleted
\* with no failure, so that what one meets is the other's doing.
PairLimit == [create |-> 2, edit |-> 0, foreground |-> 0, tamper |-> 0,
              fault |-> 0, restart |-> 0]

NamesSymmetry == Permutations(Names)
=============================================================================
