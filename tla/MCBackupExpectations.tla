------------------------ MODULE MCBackupExpectations ------------------------
(* What comments of the repository say of the Backup controller, where the *)
(* code does something else.                                               *)
EXTENDS MCBackupReconciler

\* Only users that create and delete; no failure, no restart.
CreateOneLimit == [d \in Disturbances |-> IF d = "create" THEN 1 ELSE 0]
CreateTwoLimit == [d \in Disturbances |-> IF d = "create" THEN 2 ELSE 0]

\* backup_controller.go:281: "Each cronjob requires serviceaccount and a
\* clusterrolebinding": when the controller rests, a registered Backup has both.
EachCronJobHasRights ==
  Quiet => \A k \in Keys : Registered(k) =>
             serviceAccount[k.ns] # Nil /\ binding[k.ns]
=============================================================================
