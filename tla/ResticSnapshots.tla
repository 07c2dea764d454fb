--------------------------- MODULE ResticSnapshots --------------------------
(***************************************************************************)
(* "horusctl restic snapshots" (pkg/restic) beside the processes of        *)
(* BackupJob.  It has no helper of its own: it borrows any running pod of  *)
(* the storage's helpers, whichever process deployed it and for whichever  *)
(* Backup, and executes "restic snapshots" there.                          *)
(***************************************************************************)
EXTENDS BackupJob

CONSTANT Asked    \* the values of --storage that are asked for

VARIABLE query    \* the listing in progress, and what has come of it

Query ==
  [stage: {"asked", "exec", "returned"},
   storage: Asked,
   execPod: HelperPod \cup {Nil},
   shown: Repos \cup {Nil},                 \* the repository listed
   result: {"ok", "error"} \cup {Nil}]

QueryTypeOK == query \in Query

QueryInit ==
  \E s \in Asked :
    query = [stage |-> "asked", storage |-> s, execPod |-> Nil,
             shown |-> Nil, result |-> Nil]

\* Snapshots finds pods by a label that says the storage and nothing else.
Labelled(storage) ==
  {d \in DeployName : deployments[d] # Nil /\ d.kind = storage}

\* What filterRunningPod may return: any of the pods may not be running yet.
RunningPod(storage) ==
  {Nil} \cup {[deploy |-> d, id |-> deployments[d].id] : d \in Labelled(storage)}

Borrowing == {"nfs", "minio"}
NotImplemented == {"s3", "cephfs", "sftp", "rclone", "restServer"}

Answer(result, shown) ==
  query' = [query EXCEPT !.stage = "returned", !.result = result,
                         !.shown = shown]

\* The switch of Snapshots.  Without a running pod err is still nil, and
\* errors.Wrapf of nil is nil.
Snapshots ==
  /\ query.stage = "asked"
  /\ CASE query.storage \in Borrowing ->
            \/ Answer("error", Nil)             \* ListByLabel fails
            \/ \E pod \in RunningPod(query.storage) :
                 IF pod = Nil
                   THEN Answer("ok", Nil)
                   ELSE query' = [query EXCEPT !.stage = "exec", !.execPod = pod]
       [] query.storage \in NotImplemented -> Answer("ok", Nil)
       [] OTHER -> Answer("error", Nil)
  /\ UNCHANGED vars

\* "restic snapshots" in the pod, which may be gone by now, on a repository
\* that may not be initialised yet.
ExecuteSnapshots ==
  /\ query.stage = "exec"
  /\ LET repo == deployments[query.execPod.deploy].content.repo IN
     IF Running(query.execPod) /\ repo \in repos
       THEN Answer("ok", repo) \/ Answer("error", Nil)
       ELSE Answer("error", Nil)
  /\ UNCHANGED vars

SnapshotsInit == Init /\ QueryInit
SnapshotsNext ==
  \/ Next /\ UNCHANGED query
  \/ Snapshots
  \/ ExecuteSnapshots
SnapshotsSpec == SnapshotsInit /\ [][SnapshotsNext]_<<vars, query>>

-----------------------------------------------------------------------------
\* "Snapshots execute `restic snapshots` within pod" (restic.go:24): when it
\* returns nil for a storage it can list, it has listed a repository.
NilMeansListed ==
  query.result = "ok" /\ query.storage \in Borrowing => query.shown # Nil
=============================================================================
