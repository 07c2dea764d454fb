# horus-operator: a TLA+ verification project

horus-operator backs up the persistent volumes of Kubernetes workloads. A user
creates a `Backup`; the operator's controller turns it into a CronJob and the
rights that CronJob needs; every run of the CronJob starts `horusctl backup`,
which finds the volumes of the target's pods and saves them with restic, from
helper Deployments it creates for the purpose. This directory models both halves,
and the two together.

## Inventory

| Part | State it keeps | Operations | Hard because |
|---|---|---|---|
| Backup controller (`controllers/storage/backup_controller.go`) | the Backup's finalizer; ServiceAccount `horusctl` and ClusterRoleBinding `horusctl-<ns>-binding` per namespace; ClusterRole `horusctl-role`; CronJob `backup-<name>`, always in `default` | `Reconcile` in five stages, `handleFinalizer`, `deleteExternalResources` | reads caches, writes the API server; objects shared between Backups; dropped errors; restarts |
| Predicates and watches (`controllers/common/predicate.go`, `SetupWithManager`) | none | filter informer events, map owned objects to their Backup | an event that is filtered or has no owner is never seen again |
| Templates (`pkg/template`) | none | render objects | fixed namespace, schedule and argument |
| `horusctl backup` (`pkg/backup`, `cmd/horusctl`) | per process: `pvcpvMap`, one `DeployName...` global per helper kind; shared: the helper Deployments, the restic repositories | `Do`, `constructPvcpvMap`, `backupFactory`, `create...Deployment`, `filterRunningPod`, `executeBackupCommand`, deferred deletions | several processes share one namespace and possibly a repository; pods move; calls fail; processes are killed |
| MinIO, SFTP clients (`pkg/minio`, `pkg/util/sftp.go`) | none | create bucket or directory | `logrus.Fatal` ends the process |
| `findpvdir` (`build/findpvdir`) | none | prints the volume directory of a pod | prints nothing when the pod is gone, and several lines when one plugin's name contains another's |
| `horusctl restic snapshots` (`pkg/restic`) | none | lists the snapshots of a storage | has no helper of its own: borrows the pod of any process |
| Restore, Clone, Migration, Traffic controllers; webhooks | none | none (scaffolding) | – |
| `main.go`, arguments, logging, labels, version | configuration | start-up | – |

Controller and job interact through the API server only: the CronJob object
names the Backup (or rather its target, see the findings) and the ServiceAccount
the job runs as. The properties that make each part correct are the ones listed
below under the runs; `PROJECT.json` lists the hazards they are aimed at.

## Modules

| Module | Role |
|---|---|
| `BackupReconciler` | the controller, the API objects, the informer caches, the work queue, users, garbage collector, restarts |
| `FinalizerProtocol` | abstract specification of what `handleFinalizer` promises |
| `BackupReconcilerProofs`, `BackupRestProofs` | theorems about `BackupReconciler`: types, ownership and the finalizer protocol; the controller at rest |
| `MCBackupReconciler` | bounds for TLC |
| `MCBackupExpectations` | what a comment says and the controller does not do, and instances for the findings |
| `BackupJob` | `horusctl backup`, any number of processes, helper Deployments, repositories, moving pods; `findpvdir` |
| `BackupRun` | abstract specification of what a run promises, implemented by `BackupJob` |
| `BackupJobProofs`, `BackupRunProofs`, `BackupCleanupProofs`, `BackupFaultFreeProofs` | theorems about `BackupJob`: types and completeness; snapshots and the refinement; the deferred deletions; when a Backup succeeds |
| `MCBackupJob` | small clusters for TLC |
| `ResticSnapshots`, `MCResticSnapshots` | `horusctl restic snapshots` beside the processes of `BackupJob` |
| `BackupSystem`, `MCBackupSystem` | `BackupReconciler` composed with the runs its CronJobs start |
| `BackupSystemProofs` | theorems about `BackupSystem` |

### BackupReconciler and the code

The worker's local state is `pc` (the stage), `req` (the request) and `obj` (the
copy of the Backup read at the start). One action models one stage: the cached
`Get` together with the API call made on its result.

| Action | Code |
|---|---|
| `Reconcile(k)` | taking a request, `Get` of the Backup |
| `ReconcileServiceAccount`, `ReconcileClusterRole`, `ReconcileClusterRoleBinding`, `ReconcileCronJob` | the four get-create-or-update stages |
| `AddFinalizer`, `FinalizerSettled`, `DeleteExternalResources`, `RemoveFinalizer` | the branches of `handleFinalizer` |
| `APIError`, and the second disjuncts of `Proceed` and `Complete` | a call that fails, and one carried out whose reply is lost |
| `Sync...` | an informer event: cache update, predicates, mapping to requests |
| `CreateBackup`, `EditBackup`, `DeleteBackup`, `Tamper` | users |
| `Collect...`, `ReleaseForeground` | Kubernetes garbage collector |
| `Restart` | a new operator process |

Details that matter and are kept: `if r.Update(...); err != nil` tests the `err`
of the preceding `Get`, so errors of three of the four Updates are dropped; the
Update of the finalizer carries a resourceVersion and the other Updates do not;
the CronJob is looked up in the Backup's namespace and written into `default`;
`SetControllerReference` fails for an owner in another namespace or for a
cluster-scoped object and its error is ignored; `Delete` of the
ClusterRoleBinding does not read the cache and treats NotFound as an error.

Abstractions: a ServiceAccount is its controller reference; ClusterRole and
ClusterRoleBinding are present or absent; equality of Backup records stands for
equality of resourceVersions (every write changes a field that never returns to
an earlier value); the status is never written. An informer delivers the latest
version of an object (intermediate versions may be skipped, as a relist does: a
Backup deleted and created again may then look like one of the same generation,
which the predicate filters). The API server creates an RBAC object that an Update
without a resourceVersion does not find, so the Update of the ClusterRole or of the
ClusterRoleBinding leaves it in place, while that of a ServiceAccount that is gone
is a dropped error. A reply may be lost for every call whose error the code looks
at; for a Create or for a dropped error that makes no difference to what follows.

### BackupJob and the code

`job[j]` is the state of process `j`: its stage, the current argument, the
remaining pods, claims and storages of the loops, `pvcpvMap`, the `DeployName...`
globals, and, as history, the snapshots it has made and how each argument ended.

| Action | Code |
|---|---|
| `Start` | a CronJob run (`concurrencyPolicy: Forbid`) |
| `List` | `Do` up to the list of pods |
| `Prepare`, `Findpvdir`, `FindExec`, `Prepared` | the pod loop of `constructPvcpvMap` with `createFindpvdirDeployment` |
| `NextStorage`, `PickClaim` | the two loops of `Do` and the head of `backupFactory` |
| `createBackup2nfsDeployment`, `createBackup2minioDepoyment`, `createBackup2sftpDeployment` | the functions of these names, up to `Apply` |
| `filterRunningPod` | waiting for the helper and taking its pod |
| `CheckRepo`, `InitRepo`, `ResticBackup` | the three restic commands of `executeBackupCommand` |
| `Clean`, `NextArg` | one deferred deletion each; the loop over the arguments |
| `Kill`, `Reschedule` | the end of a process at any point; a target pod replaced on any node |

`Fault(f)` guards every failing call, by kind, so that a run can say which
failures it considers. The name of a helper is its kind, whose prefixes differ, and
the words of the node's and the Backup's names joined (`Joined`): as in the code,
"w" and "1-db" make the same name as "w-1" and "db". Abstractions: a helper's pod
template is its node and repository; a volume is its plugin; the up to twelve
attempts of the search are one step; every pod that is listed has a node. The
directory of a mounted volume exists, for a helper on the pod's node, as long as the
pod with its uid is there; that of a hostPath or local volume exists on every node.
The outcome "refused" is the error of `restic init` for a repository that exists.
The kubelet's directory of a volume is taken to be named after the volume's source,
as `findpvdir` expects. `findpvdir` prints
every directory whose name contains the plugin's, so that "csi" finds the
directory of an iSCSI volume too; then the search succeeds (`DirectoryExists`) and
the path made of its output does not exist (`PathExists`). External behaviour assumed of the client
library: `Apply` with an unchanged template keeps the pod, `WaitReady` returns
when the current template's pod runs and fails when the Deployment is gone,
`GetPods` returns pods owned by the Deployment.

`BackupRun` is the promise: each Backup in turn; an item (a claim and a storage)
is saved at most once and only while a helper of the Backup exists; success only
with every item saved; helpers appear for the Backup in hand and disappear only
after it, by a run that had it in hand. The mapping forgets pods, nodes, commands
and the map, and keeps which items are saved, how each Backup ended and which
helpers exist.

### ResticSnapshots and the code

`query` is one call of `Snapshots`: `Snapshots` is its switch with
`filterRunningPod`, `ExecuteSnapshots` the command in the pod. The pod is found by
a label that says the storage only, so it may belong to any Backup, not run yet,
or be deleted or replaced before the command reaches it.

### BackupSystem and the code

The controller's actions are those of `BackupReconciler`, unchanged. A run has
the stages of `Do` that need different rights: `ReadBackup` (the Backup, its
target's pods, claims and volumes), `DeployHelper`, `Save`, `CleanUp` (the
deferred deletions, silent when refused). `Granted` combines what the three
templates say: the rules of the ClusterRole, the binding of the namespace, and
the ServiceAccount of the CronJob's namespace, whose token is void once it has
been deleted, also if another of the same name is created. `RunsFollow` is what
the cluster does to runs in the same step: the run of a deleted CronJob becomes
an orphan, which goes on until it ends or is killed, while a new CronJob of the
same name starts its own (`concurrencyPolicy: Forbid` counts per CronJob object).
The details of `Do` are in `BackupJob` and abstracted here: a run has one helper,
named after the Backup and the node where the run saw the target (`home`, which
`Reschedule` changes), deletes that one only, and fails if the deferred deletions of
another run took it. The storage, the third part of the name, is the same
throughout: an edit of `backupTo` leaves a helper behind just as a move does.
A Job whose process exits with an error is retried by Kubernetes, which is
another `StartRun`.

## Runs

Passing runs:

| Run | Checks | Instance |
|---|---|---|
| `reconcile_single` | `TypeOK`; `IdleMeansConverged`: whenever everything is at rest, the Backup is completely set up or gone; `NoOrphans`: no ServiceAccount or CronJob without a Backup at rest | one Backup; one each of edit, foreground deletion, tampering, fault, restart |
| `reconcile_siblings` | `NoOrphans`; `RegisteredOwnsCronJob`; `RefinesFinalizerProtocol` | two names in one namespace (symmetric), two creations, so two siblings or one Backup that comes again; one fault, one restart |
| `reconcile_live` | `Quiesces`, `RegistersEventually`, `DeletionCompletes`; `RoleRecreated`: a deleted ClusterRole, whose event enqueues nothing, comes back with the next request | one Backup, an edit, any managed object deleted by hand, a fault or lost reply |
| `reconcile_siblings_live` | `DeletionCompletes` | two Backups of one namespace, created and deleted in any order without a failure: that the ClusterRoleBinding is missing is the sibling's doing, and the request that misses it starts over |
| `job_cleanup` | `TypeOK`; `AtMostOnce`; `SuccessIsComplete`; `CleanupComplete`: a process that ends by itself leaves no helper; `SuccessCleansUp`: a success also removes what a killed run left; `Termination` | two successive runs of three Backups: shared claims, local, NFS, CSI and iSCSI volumes, three storages and one without a helper; one fault of any kind (kill and `logrus.Fatal` included), one pod replaced |
| `job_pair` | `SnapshotsFaithful`: each snapshot is in the right repository, made on the right node; `SuccessIsComplete`; `RefinesBackupRun`; `NoFailureWithoutFault`: with no fault, a Backup that no other process has succeeds, unless its own `restic init` is refused (`LostRace`) | two processes, one given a Backup with two storages and then the one the other process is given, a repository in common, a name with a dash in it, two nodes; one failed lookup, deletion or command, or a kill; one move |
| `system` | `SystemTypeOK`; `BackupHappens`: a Backup that stays registered is carried out again and again; `UndisturbedRunsSucceed`: no run starts before it can succeed; `LeftoversGo`: a helper left on the node where the target stays goes | one Backup, two nodes; its ServiceAccount deleted by hand or its target moved (one bound counts both), one failing call of the controller or of a run, or a killed run |

The bounds are chosen so that the critical overlap fits: two incarnations of one
name, or two Backups, are what a stale copy or a shared object needs; one fault
and one restart reach every single point of failure; for the job, two pods
sharing a claim, two nodes and two processes are the smallest instances in which
overwriting a map entry, forgetting a name and using another's helper can occur.
Deadlock is not checked in the runs of the controller, which rests once users
and disturbances stop, nor in those of the job, whose processes end.

`SuccessIsComplete` is checked without failing lookups unless the target has one
claim only, and `CleanupComplete` on one node without failing deletions and for
processes that no killed one preceded: what happens otherwise is among
the disagreements below. `system` excludes the deletion of the ClusterRole and the
ClusterRoleBinding by hand, which no event repairs. `BackupHappens` and
`LeftoversGo` speak of Backups named like their target: the CronJob passes the
target's name where `Do` expects the Backup's. `LeftoversGo` promises no more than
the code does: a helper on a node that the target has left after a killed run, or of
a Backup that is deleted, stays. `RegistersEventually` and `IdleMeansConverged` are
checked for the namespace `default`, because of the finding `doc_register`. Of
the Backups of `job_pair`, `NoFailureWithoutFault` speaks of the one that only one
process has, while the other process uses a helper of the same kind on the same node
and the same repository; two processes that work on one Backup at once delete each
other's helpers and fail without a fault, which the property excuses (`Contended`)
and the other properties of the run show to be harmless to what is saved.

### Findings

Each of these runs ends in a counterexample to what a comment, log message or
API description says; `PROJECT.json` quotes it.

| Run | What happens |
|---|---|
| `doc_sibling_rights` | a registered Backup is left without ServiceAccount when its sibling, who owned it, goes and an Update error is dropped, and without ClusterRoleBinding because the sibling's deletion removes the shared one and enqueues nothing |
| `doc_register` | outside `default` the finalizer is never added |
| `doc_node_leak` | helper Deployments on all nodes but the last are left behind |
| `doc_same_name` | Backups of one name in two namespaces write into each other's repository |
| `doc_snapshots` | listing snapshots without a running helper executes nothing and returns nil |

The models contain further disagreements with the repository's texts, for which
no run is kept:

* a Backup deleted before its finalizer is added leaves the ClusterRoleBinding
  behind (`backup_controller.go:238`);
* reconciling a Backup in deletion creates a missing ClusterRoleBinding again,
  which the order of the stages was meant to prevent (`:235`);
* a ClusterRole deleted by hand has no owner, so nothing is enqueued and it is not
  recreated before some other request (`predicate.go:67`);
* a claim whose volume cannot be looked up is skipped, and missing from a backup that
  logs "Successfully backup all pvc" (`backup.go:152`, `:292`);
* nodes and Backups may have dashes in their names, with which the names of helpers
  are joined: Backup "1-db" of a pod on node "w" and Backup "db" of one on node "w-1"
  share a helper and write into each other's repository (`util.go:22`); the theorems
  about several Backups exclude it (`TellApart`);
* the finalizer of a Backup removes the ClusterRoleBinding while a run may be working;
  the run's deferred deletions are then refused silently, and no later run takes its
  helper over (`backup.go:84`, `backup_controller.go:409`);
* a target that moves after a run was killed leaves that run's helper behind for
  good, for no later run makes its name (`backup.go:84`);
* a failed lookup leaves the zero metadata, so the search runs in a helper named
  without a node, which a later search of the same run forgets (`backup.go:314`);
* a CSI volume in a pod that also mounts an iSCSI volume is never backed up: the
  output of `findpvdir` has two lines (`findpvdir.go:30`);
* a CronJob of a Backup outside `default` has no owner and outlives it (`:264`);
* the CronJob ignores `spec.schedule` and passes the target's name instead of the
  Backup's (`cronjob_backup.go:11`, `:28`);
* documented storages end in a panic and documented resources are refused
  (`backup_types.go:40-47`);
* two processes may initialise one repository, and one fails (`execute.go:56`);
* a hostPath volume is read from a node its pod has left (`backup.go:165`).

### Fairness

Controller (`Fairness`): the worker goroutine keeps running (weak fairness of its
steps); the work queue is first in first out, so a request that is put back is
eventually taken although others keep coming (strong fairness of `Reconcile(k)`);
informers deliver and the garbage collector runs (weak fairness). Users, faults
and restarts are not fair, and bounded. Foreground deletion is left out of the
liveness run: the collector waits for dependents that each reconcile creates
again, and which of the two is faster is not decided by the code.

Job (`FairSpec`): every call a process makes returns; kills and moves are not fair.

System (`SystemSpec`): the fairness of the controller; the CronJob controller
starts a run when one is due and allowed, and a run that is not killed goes on
(weak fairness of `StartRun(k)` and `DoStep(p)`). Kills are not fair.

## Proofs

TLAPS checks the theorems of the `...Proofs` modules for every value of the
constants: any sets of Backups, processes, claims, storages and nodes, and any
number of disturbances. They assume what the named assumptions of the modelled
modules say. For the controller: `default` is a namespace, and `Nil` is no object.
For the job: the arguments of a process are a non-empty list of Backups (horusctl
refuses an empty one), a Backup has a list of pods and storages of the API's
fields, every claim has a volume and every pod a node, names of nodes and Backups
are words, and `Nil` is no name, Deployment, pod, entry, node or claim. For the
composition: `Nil` is no outcome and no node, and every target has a node.
Where a theorem has a hypothesis of its own, what happens without it is one of the
findings or disagreements above. The hypotheses hold in the run that checks the
property, with one exception that goes the other way: `job_pair` checks
`SuccessIsComplete` and the refinement with failed lookups too, of targets with one
claim.

### The controller

* `TypeCorrect`: `Spec => []TypeOK`. One lemma per group of actions.
* `RegisteredOwns`: `Spec => []RegisteredOwnsCronJob`, if CronJobs are not
  deleted by hand (the controller cannot prevent that). The property is not
  inductive. `OwnershipInv` adds: uids in any copy have been issued
  (`UidsIssued`); only a Backup in deletion is held by the collector
  (`HoldMeansDeleting`); CronJobs, cached ones too, are in `default`
  (`CronJobsInDefault`), so only Backups of `default` pass the CronJob stage; if
  a registered Backup is alive, the cache and any copy the worker took have its
  uid (`FinalizerSeen`), so no stale worker writes for an earlier incarnation; and
  a worker at the finalizer stage with a current copy has just written the
  CronJob for it (`CronJobWritten`).
* `Refinement`: `Spec => RefinesFinalizerProtocol`. Each Backup is mapped to a
  phase, each namespace to whether it is bound. The step that needs an invariant
  is the release: `UnboundInv` says that a worker between the two calls of
  `handleFinalizer` holds a copy in deletion and its namespace has no
  ClusterRoleBinding, which only this worker could create.
* `RestOrphans`: `Spec => []NoOrphans`, for any number of Backups of `default`.
  Elsewhere a CronJob has no owner. The invariant (`OwnedInv`) is that every
  CronJob, cached ones too, has one; at rest the collector has nothing to do.
* `RestTheorem`: `Spec => []IdleMeansConverged`, for one Backup, created once,
  whose ClusterRole and ClusterRoleBinding nobody deletes by hand; edits, faults,
  lost replies, restarts and the loss of the other objects are unbounded. `RestInv`
  orders the copies of the Backup (`CopiesInv`: a cached or held copy is an earlier
  version, and what it shows of deletion and finalizer is so or was), says that
  granted rights stay (`GrantInv`), and, which is the heart of it (`DueInv`), that
  whatever is still missing is due: a request is queued, or an event that will
  queue one is on its way, or the worker holds the present generation and is
  before the stage that sees to it. At rest none of the three is the case, so
  nothing is missing.

### The job

Every action of a process is shown to be one of fourteen kinds of steps on its
record (`LocalStep`: it lists, enters a pod's claims into the map, finds, deploys,
picks, saves, returns, cleans, ...; lemma `NextTakes`). The invariants about one
process are then proved for those relations, without the cluster.

* `JobTypeCorrect` and `SavedAtMostOnce`: `TypeOK` and `AtMostOnce`, without
  hypotheses. `TypeInv` says what each stage dereferences (`StageInv`), that the
  storages still to come are configured and distinct (`StorageInv`), that each
  argument before the present one has an outcome (`ResultInv`), that a snapshot of
  the present argument is of a storage or an entry the loops have passed
  (`OnceInv`), and that a Deployment is where its name says (`HelperInv`).
* `ScopeInvariant`: only claims of the target are saved, in its storages, and a
  process deletes by names of Backups it has had in hand.
* `SuccessComplete`: `SuccessIsComplete`, if no lookup fails. `CompleteInv`: every
  claim of the target is in the map or of a pod to come; every entry is saved in
  every storage or still pending; a success has nothing pending.
* `FaithfulSnapshots`: `SnapshotsFaithful`, if the name of a Backup determines its
  storages (`NamesTell`) and the joined names of a node and a Backup tell which these
  are (`TellApart`, as they do if no name of a node or no name of a Backup contains a
  dash), which is what the names of the helpers rely on. `RepoInv`: a helper has the
  repository that every Backup of its name configures; so it does not matter which
  process deployed the pod a command reaches.
* `RunRefinement`: `RefinesBackupRun`, if no lookup fails. Steps of one process are
  mapped by kind (`PromiseStep`); the success needs `CompleteInv`, the snapshot
  `OnceInv` and the pod of the command, the deletions `ScopeInv`.
* `CleanupTheorem`: `CleanupComplete`, if the pods of a target stay on one node
  (`OneNode`), processes that share a Backup's name are runs of one CronJob
  (`OwnNames`), helper names tell (`TellApart`), and lookups and deletions succeed.
  `OwnInv`: unless a process has
  vanished, every helper is remembered by a process that has not dealt with it yet
  (`Owns`). It needs that runs of one CronJob exclude each other (`MutexInv`) and
  that the nodes in the map are the target's (`SiteInv`), so that no name is
  overwritten while its helper exists.
* `TakeoverTheorem`: `SuccessCleansUp`, under the same conditions and if a name is
  one Backup's (`UniqueNames`); kills are unbounded. `OriginInv`: every helper,
  whoever left it, is of a kind and on a node that the Backup of its name needs;
  `CoverInv`: a run that has passed the search and the storages remembers a helper
  of each of these kinds; so at the moment of success (`SuccessInv`) every helper of
  the Backup is one this run is going to delete, and no other run may add one.
* `FaultFreeTheorem`: `NoFailureWithoutFault`, if a name determines its storages
  (`NamesTell`), helper names tell (`TellApart`) and the code can carry out the Backups (`Feasible`): the target is of
  a kind it knows and mounts something, its storages are among those with a helper,
  and `findpvdir` tells the volumes of a pod apart. Without these the code fails, or
  reads another directory, with nothing having gone wrong. `FaultFreeInv` speaks of
  states before any failure or move, and has five parts: the pods are where they were
  (`HomeInv`); every entry of the map is of a pod of the target that mounts the claim,
  its directory is found once the search has passed it, and the map will not be empty
  (`SearchInv`); the helper a process is about to use is there (`ToolInv`); a
  repository to be initialised is not there yet (`RaceInv`); the outcomes so far are
  successes (`OutcomeInv`). The last three say "unless another process has a Backup
  of the name", `RaceInv` also "or has initialised the repository since" (`Raced`),
  and `OutcomeInv` then excuses one outcome only, that `restic init` was refused
  (`LostRace`). What makes it inductive is that whatever another process creates, replaces or deletes
  goes by the name of a Backup it was given (`OthersKeep`, from `ScopeInv`), and that
  nothing removes a repository; `ReadyInv`, which holds whatever fails, says that
  restic is not asked for a snapshot before the repository is initialised.
* `ApartRunsSucceed`: if, in addition, no two processes share a name or a repository
  (`Apart`), every outcome is a success. Different Backup names alone would not do:
  without `TellApart` their helpers may still have one name.

### The composition

* `SystemTypeCorrect`: `SystemTypeOK`. `SystemTypeInv` adds that a run past its
  first stage has read a Backup of the name it was given and the node of its target.
* `UndisturbedRuns`: `UndisturbedRunsSucceed`, for one Backup, created once;
  everything else the controller meets is unbounded. `SetupInv`: while the Backup is
  live and nothing has been deleted by hand, what the caches show exists, the worker
  has seen to the objects of the stages behind it, and where there is a CronJob,
  ServiceAccount, ClusterRole and ClusterRoleBinding are there too; `RunInv`: its run
  has a valid token and, once it saves, a pod. `RoleCovers` compares the rules of the
  ClusterRole with what the stages of `Do` use.

The inductive invariants were model-checked before they were proved, on instances
with more disturbances than the runs have.

### Model-checked only

Liveness, which is out of the prover's reach (`Quiesces`, `RegistersEventually`,
`DeletionCompletes`, `RoleRecreated`, `Termination`, `BackupHappens`,
`LeftoversGo`); `ResticSnapshots`, whose only run is a finding. Every safety
property of the passing runs is stated by a theorem.

## Not modelled

Labels (but for the one snapshots are listed by) and log output; rules of the
ClusterRole that `Do` makes no use of; Backup fields nobody reads (retention,
timeout, env, history limits); leader election (`config/manager/manager.yaml`
passes `--leader-elect` and runs one replica, so two operators never act at once);
the scaffolding controllers and webhooks, which do nothing; the helpers for
arguments, logging and versions, which keep no state; the container images. Two
runs of the same argument list at once are excluded by `Start`, as the CronJob's
`concurrencyPolicy` does; overlapping runs with different lists, and those of two
CronJob incarnations, are in `job_pair` and `system`.

## Plan

1. (done) `BackupReconciler`, `FinalizerProtocol`, their runs and proofs.
2. (done) `BackupJob` and its runs.
3. (done) `BackupRun`, the abstract specification of a run, and the refinement.
4. (done) `ResticSnapshots`; overlapping runs of one Backup.
5. (done) `findpvdir` with several matching directories.
6. (done) `BackupSystem`, the composition of controller, CronJob runs and rights.
7. (done) Proofs: the safety invariants of the controller at rest, of the job and of
   the composition; the refinement of `BackupRun`; `CleanupComplete` and
   `SuccessCleansUp`.
8. (done) Proof of `NoFailureWithoutFault`, for Backups the job can carry out (a
   supported resource and storages, something mounted, plugins `findpvdir` tells
   apart) whose names determine their storages.
9. (done) Deletion among siblings as a liveness property; helpers of the composition
   by Backup and node; names of helpers as joined words.
