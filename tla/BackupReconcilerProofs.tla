----------------------- MODULE BackupReconcilerProofs -----------------------
(* Theorems about BackupReconciler, for every set of namespaces, names and *)
(* specifications and for any number of disturbances.                      *)
EXTENDS BackupReconciler, TLAPS

-----------------------------------------------------------------------------
(* Lemmas about the operators the controller is built from.                *)

\* The key the CronJob template names is a key, and the object it describes
\* is a CronJob.
LEMMA CronJobForBackupType ==
  ASSUME NEW k \in Keys, NEW o \in BackupObject
  PROVE  /\ CronJobKey(k) \in Keys
         /\ cronJobForBackup(k, o) \in CronJobObject
         /\ serviceAccountForBackup(k, o) \in OwnerRef
BY DefaultNSAssumption
   DEF CronJobKey, cronJobForBackup, serviceAccountForBackup, ControllerRef,
       Keys, BackupObject, BackupSpec, CronJobObject, OwnerRef

\* Owner references enqueue keys of Backups.
LEMMA OwnerKeysType ==
  ASSUME NEW ns \in Namespaces, NEW refs, refs \subseteq OwnerRef \cup {Nil}
  PROVE  OwnerKeys(ns, refs) \subseteq Keys
BY DEF OwnerKeys, OwnerRef, Keys

\* The writes of a Backup keep it a Backup.
LEMMA BackupWrites ==
  ASSUME NEW o \in BackupObject, NEW b \in BOOLEAN
  PROVE  /\ [o EXCEPT !.fin = b] \in BackupObject
         /\ [o EXCEPT !.hold = b] \in BackupObject
         /\ [o EXCEPT !.deleting = TRUE, !.gen = @ + 1, !.hold = b]
              \in BackupObject
<1>1. [o EXCEPT !.fin = b] \in BackupObject
  BY DEF BackupObject
<1>2. ASSUME NEW p \in BackupObject PROVE [p EXCEPT !.hold = b] \in BackupObject
  BY DEF BackupObject
<1>3. [o EXCEPT !.deleting = TRUE] \in BackupObject
  BY DEF BackupObject
<1>4. ASSUME NEW p \in BackupObject PROVE [p EXCEPT !.gen = @ + 1] \in BackupObject
  BY DEF BackupObject
<1> QED BY <1>1, <1>2, <1>3, <1>4

\* An edit replaces the specification and raises the generation.
LEMMA BackupEdits ==
  ASSUME NEW o \in BackupObject, NEW spec \in BackupSpec
  PROVE  [o EXCEPT !.spec = spec, !.gen = @ + 1] \in BackupObject
<1>1. [o EXCEPT !.spec = spec] \in BackupObject
  BY DEF BackupObject
<1>2. ASSUME NEW p \in BackupObject PROVE [p EXCEPT !.gen = @ + 1] \in BackupObject
  BY DEF BackupObject
<1>3. [o EXCEPT !.spec = spec].gen = o.gen
  BY DEF BackupObject
<1> QED BY <1>1, <1>2, <1>3

\* They change only the fields they name.
LEMMA BackupFields ==
  ASSUME NEW o \in BackupObject, NEW b
  PROVE  /\ [o EXCEPT !.fin = b].uid = o.uid
         /\ [o EXCEPT !.fin = b].deleting = o.deleting
         /\ [o EXCEPT !.fin = b].hold = o.hold
         /\ [o EXCEPT !.fin = b].fin = b
<1>1. [o EXCEPT !.fin = b].uid = o.uid
  BY DEF BackupObject
<1>2. [o EXCEPT !.fin = b].deleting = o.deleting
  BY DEF BackupObject
<1>3. [o EXCEPT !.fin = b].hold = o.hold
  BY DEF BackupObject
<1>4. [o EXCEPT !.fin = b].fin = b
  BY DEF BackupObject
<1> QED BY <1>1, <1>2, <1>3, <1>4

\* Counting a disturbance keeps the counters well typed.
LEMMA SpendType ==
  ASSUME NEW d \in Disturbances, spent \in [Disturbances -> Nat], Spend(d)
  PROVE  spent' \in [Disturbances -> Nat]
BY DEF Spend

\* Reconcile's return leaves the worker idle and the queue a set of keys.
LEMMA ReturnType ==
  ASSUME NEW requeue, queue \subseteq Keys, req \in Keys, Return(requeue)
  PROVE  /\ queue' \subseteq Keys
         /\ pc' = "idle" /\ req' = Nil /\ obj' = Nil
BY DEF Return

-----------------------------------------------------------------------------
(* Type correctness.                                                       *)

\* The operator starts in a well-typed state.
LEMMA TypeInit == Init => TypeOK
<1> SUFFICES ASSUME Init PROVE TypeOK
  OBVIOUS
<1>1. /\ backup \in [Keys -> BackupObject \cup {Nil}]
      /\ serviceAccount \in [Namespaces -> OwnerRef \cup {Nil}]
      /\ cronJob \in [Keys -> CronJobObject \cup {Nil}]
      /\ backupCache \in [Keys -> BackupObject \cup {Nil}]
      /\ saCache \in [Namespaces -> OwnerRef \cup {Nil}]
      /\ cronJobCache \in [Keys -> CronJobObject \cup {Nil}]
  BY DEF Init
<1>2. /\ binding \in [Namespaces -> BOOLEAN]
      /\ bindingCache \in [Namespaces -> BOOLEAN]
  BY DEF Init
<1>3. clusterRole \in BOOLEAN /\ roleCache \in BOOLEAN
  BY DEF Init
<1>4. spent \in [Disturbances -> Nat]
  BY DEF Init
<1> QED BY <1>1, <1>2, <1>3, <1>4 DEF Init, TypeOK

\* Every stage of Reconcile writes well-formed objects.
LEMMA TypeWorker ==
  ASSUME TypeOK, WorkerStep \/ APIError \/ (\E k \in Keys : Reconcile(k))
  PROVE  TypeOK'
<1> USE NilAssumption
<1>1. ASSUME NEW k \in Keys, Reconcile(k) PROVE TypeOK'
  BY <1>1 DEF TypeOK, Reconcile, api, caches, worker, Stages
<1>2. ASSUME pc # "idle"
      PROVE  req \in Keys /\ obj \in BackupObject /\ req.ns \in Namespaces
  BY <1>2 DEF TypeOK, Keys
<1>3. CASE ReconcileServiceAccount
  <2>1. serviceAccountForBackup(req, obj) \in OwnerRef
    BY <1>2, <1>3, CronJobForBackupType DEF ReconcileServiceAccount
  <2>2. serviceAccount' \in [Namespaces -> OwnerRef \cup {Nil}]
    BY <1>2, <1>3, <2>1 DEF ReconcileServiceAccount, TypeOK
  <2> QED
    BY <1>2, <1>3, <2>2, ReturnType
       DEF ReconcileServiceAccount, Goto, TypeOK, caches, Stages
<1>4. CASE ReconcileClusterRole
  BY <1>2, <1>4, ReturnType DEF ReconcileClusterRole, Goto, TypeOK, caches, Stages
<1>5. CASE ReconcileClusterRoleBinding
  BY <1>2, <1>5, ReturnType
     DEF ReconcileClusterRoleBinding, Goto, TypeOK, caches, Stages
<1>6. CASE ReconcileCronJob
  <2>1. CronJobKey(req) \in Keys /\ cronJobForBackup(req, obj) \in CronJobObject
    BY <1>2, <1>6, CronJobForBackupType DEF ReconcileCronJob
  <2>2. cronJob' \in [Keys -> CronJobObject \cup {Nil}]
    BY <1>6, <2>1 DEF ReconcileCronJob, TypeOK
  <2>3. spent' \in [Disturbances -> Nat]
    BY <1>6, SpendType DEF ReconcileCronJob, Proceed, TypeOK, Disturbances
  <2> QED
    BY <1>2, <1>6, <2>2, <2>3, ReturnType
       DEF ReconcileCronJob, Proceed, Goto, TypeOK, caches, Stages
<1>7. CASE AddFinalizer
  <2>1. backup' \in [Keys -> BackupObject \cup {Nil}]
    <3>1. backup' = backup \/ backup' = [backup EXCEPT ![req] = [obj EXCEPT !.fin = TRUE]]
      BY <1>7 DEF AddFinalizer
    <3>2. [obj EXCEPT !.fin = TRUE] \in BackupObject
      BY <1>2, <1>7, BackupWrites DEF AddFinalizer
    <3> QED BY <3>1, <3>2 DEF TypeOK
  <2>2. spent' \in [Disturbances -> Nat]
    BY <1>7, SpendType DEF AddFinalizer, Complete, TypeOK, Disturbances
  <2> QED
    BY <1>2, <1>7, <2>1, <2>2, ReturnType
       DEF AddFinalizer, Complete, TypeOK, caches, Stages
<1>8. CASE FinalizerSettled
  BY <1>2, <1>8, ReturnType DEF FinalizerSettled, TypeOK, api, caches, Stages
<1>9. CASE DeleteExternalResources
  <2>1. spent' \in [Disturbances -> Nat]
    BY <1>9, SpendType DEF DeleteExternalResources, Proceed, TypeOK, Disturbances
  <2> QED
    BY <1>2, <1>9, <2>1, ReturnType
       DEF DeleteExternalResources, Proceed, Goto, TypeOK, caches, Stages
<1>10. CASE RemoveFinalizer
  <2>1. backup' \in [Keys -> BackupObject \cup {Nil}]
    <3>1. \/ backup' = backup
          \/ backup' = [backup EXCEPT ![req] = [obj EXCEPT !.fin = FALSE]]
          \/ backup' = [backup EXCEPT ![req] = Nil]
      BY <1>10 DEF RemoveFinalizer
    <3>2. [obj EXCEPT !.fin = FALSE] \in BackupObject
      BY <1>2, <1>10, BackupWrites DEF RemoveFinalizer
    <3> QED BY <3>1, <3>2 DEF TypeOK
  <2>2. spent' \in [Disturbances -> Nat]
    BY <1>10, SpendType DEF RemoveFinalizer, Complete, TypeOK, Disturbances
  <2> QED
    BY <1>2, <1>10, <2>1, <2>2, ReturnType
       DEF RemoveFinalizer, Complete, TypeOK, caches, Stages
<1>11. CASE APIError
  <2>1. spent' \in [Disturbances -> Nat]
    BY <1>11, SpendType DEF APIError, TypeOK, Disturbances
  <2>2. CASE ErrorIgnored
    BY <1>2, <1>11, <2>1, <2>2
       DEF APIError, ErrorIgnored, Goto, TypeOK, api, caches, Stages
  <2>3. CASE ~ErrorIgnored
    BY <1>2, <1>11, <2>1, <2>3, ReturnType DEF APIError, TypeOK, api, caches
  <2> QED BY <2>2, <2>3
<1> QED
  BY <1>1, <1>3, <1>4, <1>5, <1>6, <1>7, <1>8, <1>9, <1>10, <1>11
     DEF WorkerStep

\* Informer events and the garbage collector copy or remove objects.
LEMMA TypeCluster == ASSUME TypeOK, ClusterStep PROVE TypeOK'
<1> USE NilAssumption
<1>1. ASSUME NEW k \in Keys, SyncBackup(k) PROVE TypeOK'
  BY <1>1 DEF TypeOK, SyncBackup, api, worker
<1>2. ASSUME NEW ns \in Namespaces, SyncServiceAccount(ns) PROVE TypeOK'
  BY <1>2, OwnerKeysType DEF TypeOK, SyncServiceAccount, api, worker
<1>3. CASE SyncClusterRole
  BY <1>3 DEF TypeOK, SyncClusterRole, api, worker
<1>4. ASSUME NEW ns \in Namespaces, SyncClusterRoleBinding(ns) PROVE TypeOK'
  BY <1>4 DEF TypeOK, SyncClusterRoleBinding, api, worker
<1>5. ASSUME NEW k \in Keys, SyncCronJob(k) PROVE TypeOK'
  <2> DEFINE owners == {c.owner : c \in {cronJobCache[k], cronJob[k]} \ {Nil}}
  <2>1. owners \subseteq OwnerRef \cup {Nil}
    BY DEF TypeOK, CronJobObject
  <2>2. OwnerKeys(k.ns, owners) \subseteq Keys
    BY <2>1, OwnerKeysType DEF Keys
  <2> QED BY <1>5, <2>2 DEF TypeOK, SyncCronJob, api, worker
<1>6. ASSUME NEW ns \in Namespaces, CollectServiceAccount(ns) PROVE TypeOK'
  BY <1>6 DEF TypeOK, CollectServiceAccount, caches, worker
<1>7. ASSUME NEW k \in Keys, CollectCronJob(k) PROVE TypeOK'
  BY <1>7 DEF TypeOK, CollectCronJob, caches, worker
<1>8. ASSUME NEW k \in Keys, ReleaseForeground(k) PROVE TypeOK'
  <2>1. backup' \in [Keys -> BackupObject \cup {Nil}]
    BY <1>8, BackupWrites DEF TypeOK, ReleaseForeground
  <2> QED BY <1>8, <2>1 DEF TypeOK, ReleaseForeground, caches, worker
<1> QED
  BY <1>1, <1>2, <1>3, <1>4, <1>5, <1>6, <1>7, <1>8 DEF ClusterStep

\* Users create, edit and delete well-formed objects.
LEMMA TypeUser == ASSUME TypeOK, UserStep PROVE TypeOK'
<1> USE NilAssumption
<1>1. ASSUME NEW k \in Keys, NEW spec \in BackupSpec, CreateBackup(k, spec)
      PROVE  TypeOK'
  <2>1. spent' \in [Disturbances -> Nat] /\ spent.create + 1 \in Nat
    BY <1>1, SpendType DEF CreateBackup, TypeOK, Disturbances
  <2>2. backup' \in [Keys -> BackupObject \cup {Nil}]
    BY <1>1, <2>1 DEF CreateBackup, TypeOK, BackupObject
  <2> QED BY <1>1, <2>1, <2>2 DEF TypeOK, CreateBackup, caches, worker
<1>2. ASSUME NEW k \in Keys, NEW spec \in BackupSpec, EditBackup(k, spec)
      PROVE  TypeOK'
  <2>1. spent' \in [Disturbances -> Nat]
    BY <1>2, SpendType DEF EditBackup, TypeOK, Disturbances
  <2>2. backup' \in [Keys -> BackupObject \cup {Nil}]
    <3> DEFINE edited == [backup[k] EXCEPT !.spec = spec, !.gen = @ + 1]
    <3>1. backup' = [backup EXCEPT ![k] = edited]
      BY <1>2 DEF EditBackup
    <3>2. backup[k] \in BackupObject
      BY <1>2 DEF EditBackup, TypeOK
    <3>3. edited \in BackupObject
      BY <3>2, BackupEdits
    <3> HIDE DEF edited
    <3> QED BY <3>1, <3>3 DEF TypeOK
  <2> QED BY <1>2, <2>1, <2>2 DEF TypeOK, EditBackup, caches, worker
<1>3. ASSUME NEW k \in Keys, NEW foreground \in BOOLEAN,
             DeleteBackup(k, foreground)
      PROVE  TypeOK'
  <2>1. spent' \in [Disturbances -> Nat]
    BY <1>3, SpendType DEF DeleteBackup, TypeOK, Disturbances
  <2>2. backup' \in [Keys -> BackupObject \cup {Nil}]
    <3> DEFINE marked == [backup[k] EXCEPT !.deleting = TRUE, !.gen = @ + 1,
                                           !.hold = foreground]
    <3>1. \/ backup' = [backup EXCEPT ![k] = marked]
          \/ backup' = [backup EXCEPT ![k] = Nil]
      BY <1>3 DEF DeleteBackup
    <3>2. backup[k] \in BackupObject
      BY <1>3 DEF DeleteBackup, TypeOK
    <3>3. marked \in BackupObject
      BY <3>2, BackupWrites
    <3> HIDE DEF marked
    <3> QED BY <3>1, <3>3 DEF TypeOK
  <2> QED BY <1>3, <2>1, <2>2 DEF TypeOK, DeleteBackup, caches, worker
<1>4. ASSUME NEW kind \in Kinds, Tamper(kind) PROVE TypeOK'
  <2>1. spent' \in [Disturbances -> Nat]
    BY <1>4, SpendType DEF Tamper, TypeOK, Disturbances
  <2> QED BY <1>4, <2>1 DEF TypeOK, Tamper, caches, worker
<1> QED BY <1>1, <1>2, <1>3, <1>4 DEF UserStep

\* The freshly listed caches and the queue they fill are well typed.
LEMMA TypeRestart == ASSUME TypeOK, Restart PROVE TypeOK'
<1> USE NilAssumption
<1>1. spent' \in [Disturbances -> Nat]
  BY SpendType DEF Restart, TypeOK, Disturbances
<1>2. ASSUME NEW ns \in Namespaces
      PROVE  OwnerKeys(ns, {serviceAccount[ns]}) \subseteq Keys
  <2>1. {serviceAccount[ns]} \subseteq OwnerRef \cup {Nil}
    BY DEF TypeOK
  <2> QED BY <2>1, OwnerKeysType
<1>3. ASSUME NEW k \in Keys
      PROVE  OwnerKeys(k.ns, {c.owner : c \in {cronJob[k]} \ {Nil}}) \subseteq Keys
  <2>1. {c.owner : c \in {cronJob[k]} \ {Nil}} \subseteq OwnerRef \cup {Nil}
    BY DEF TypeOK, CronJobObject
  <2> QED BY <2>1, OwnerKeysType DEF Keys
<1>4. ServiceAccountOwners \subseteq Keys
  BY <1>2 DEF ServiceAccountOwners
<1>5. CronJobOwners \subseteq Keys
  BY <1>3 DEF CronJobOwners
<1>6. queue' \subseteq Keys
  BY <1>4, <1>5 DEF Restart
<1> QED BY <1>1, <1>6 DEF Restart, TypeOK, api

\* Type correctness is inductive.
LEMMA TypeStep == TypeOK /\ [Next]_vars => TypeOK'
<1> SUFFICES ASSUME TypeOK, [Next]_vars PROVE TypeOK'
  OBVIOUS
<1>1. CASE UNCHANGED vars
  BY <1>1 DEF TypeOK, vars, api, caches, worker
<1> QED
  BY <1>1, TypeWorker, TypeCluster, TypeUser, TypeRestart DEF Next

\* Objects, caches, queue and worker keep their types in every behaviour: no
\* event, error path or restart puts anything but the key of a Backup into
\* the work queue or leaves the worker with a half-cleared request.
THEOREM TypeCorrect == Spec => []TypeOK
BY TypeInit, TypeStep, PTL DEF Spec

-----------------------------------------------------------------------------
(* Ownership of the CronJob.                                               *)

\* The CronJob under key k belongs to the present incarnation of Backup k.
OwnsCronJob(k) ==
  /\ cronJob[k] # Nil
  /\ cronJob[k].owner = [name |-> k.name, uid |-> backup[k].uid]

\* Uids are handed out in order, so that a new Backup differs from every copy.
UidsIssued ==
  /\ \A k \in Keys : /\ backup[k] # Nil => backup[k].uid <= spent.create
                     /\ backupCache[k] # Nil => backupCache[k].uid <= spent.create
  /\ pc # "idle" => obj.uid <= spent.create

HoldMeansDeleting ==
  \A k \in Keys : backup[k] # Nil /\ backup[k].hold => backup[k].deleting

\* The template puts every CronJob into the default namespace.
CronJobsInDefault ==
  \A k \in Keys : cronJob[k] # Nil \/ cronJobCache[k] # Nil => k.ns = DefaultNS

\* The cache has caught up with the present incarnation of Backup k.
Seen(k) == backupCache[k] # Nil /\ backupCache[k].uid = backup[k].uid

\* Only an incarnation the cache has seen carries the finalizer; once it does,
\* and as long as its worker goes on, no copy of an earlier one is at work.
FinalizerSeen ==
  /\ \A k \in Keys : backup[k] # Nil /\ backup[k].fin => Seen(k)
  /\ pc # "idle" /\ backup[req] # Nil =>
       /\ backup[req].fin => obj.uid = backup[req].uid
       /\ obj.uid = backup[req].uid => Seen(req)

\* The finalizer stage is reached with the CronJob in place.
CronJobWritten ==
  pc = "finalizer" /\ Live(req) /\ obj.uid = backup[req].uid => OwnsCronJob(req)

OwnershipInv ==
  /\ TypeOK
  /\ UidsIssued
  /\ HoldMeansDeleting
  /\ CronJobsInDefault
  /\ FinalizerSeen
  /\ CronJobWritten
  /\ RegisteredOwnsCronJob

\* A step that leaves Backups, CronJobs and their caches alone, and either
\* keeps the worker's request or ends it, preserves the invariant.
LEMMA OwnershipFrame ==
  ASSUME OwnershipInv, TypeOK',
         UNCHANGED <<backup, backupCache, cronJob, cronJobCache>>,
         spent.create <= spent'.create,
         \/ pc' = "idle"
         \/ UNCHANGED worker
         \/ pc # "idle" /\ pc' # "finalizer" /\ UNCHANGED <<req, obj>>
  PROVE  OwnershipInv'
<1> USE DEF OwnershipInv
<1>0. spent.create \in Nat /\ spent'.create \in Nat
  BY DEF TypeOK, Disturbances
<1>1. UidsIssued'
  BY <1>0 DEF UidsIssued, worker, TypeOK, BackupObject
<1>2. HoldMeansDeleting' /\ CronJobsInDefault'
  BY DEF HoldMeansDeleting, CronJobsInDefault
<1>3. FinalizerSeen'
  BY DEF FinalizerSeen, Seen, worker
<1>4. CronJobWritten'
  BY DEF CronJobWritten, OwnsCronJob, Live, worker
<1>5. RegisteredOwnsCronJob'
  BY DEF RegisteredOwnsCronJob, Registered, Live
<1> QED BY <1>1, <1>2, <1>3, <1>4, <1>5

\* A counter only grows, so a uid once issued stays issued.
LEMMA SpendCreates ==
  ASSUME NEW d \in Disturbances, spent \in [Disturbances -> Nat], Spend(d)
  PROVE  /\ spent.create <= spent'.create
         /\ d = "create" => spent'.create = spent.create + 1
BY DEF Spend, Disturbances

\* The worker's copy is what the cache holds.
LEMMA OwnershipReconcile ==
  ASSUME OwnershipInv, TypeOK', NEW k \in Keys, Reconcile(k)
  PROVE  OwnershipInv'
<1> USE NilAssumption DEF OwnershipInv
<1>1. UidsIssued'
  BY DEF Reconcile, api, caches, worker, UidsIssued
<1>2. HoldMeansDeleting' /\ CronJobsInDefault'
  BY DEF Reconcile, api, caches, HoldMeansDeleting, CronJobsInDefault
<1>3. FinalizerSeen'
  BY DEF Reconcile, api, caches, worker, FinalizerSeen, Seen
<1>4. CronJobWritten'
  BY DEF Reconcile, worker, CronJobWritten
<1>5. RegisteredOwnsCronJob'
  BY DEF Reconcile, api, RegisteredOwnsCronJob, Registered, Live
<1> QED BY <1>1, <1>2, <1>3, <1>4, <1>5

\* Whatever copy the worker holds, the CronJob it writes cannot belong to an
\* earlier incarnation of a Backup that is registered.
LEMMA OwnershipCronJobStage ==
  ASSUME OwnershipInv, TypeOK', ReconcileCronJob
  PROVE  OwnershipInv'
<1> USE NilAssumption DEF OwnershipInv
<1> DEFINE at == CronJobKey(req)
           cj == cronJobForBackup(req, obj)
<1>1. req \in Keys /\ obj \in BackupObject /\ at \in Keys /\ cj \in CronJobObject
  BY CronJobForBackupType DEF ReconcileCronJob, TypeOK
<1>2. UNCHANGED <<backup, backupCache, cronJobCache>>
  BY DEF ReconcileCronJob, caches
<1>3. \/ pc' = "idle"
      \/ pc' = "finalizer" /\ req' = req /\ obj' = obj
  BY DEF ReconcileCronJob, Proceed, Return, Goto
<1>4. spent.create <= spent'.create
  <2>1. spent.create \in Nat
    BY DEF TypeOK, Disturbances
  <2>2. spent' = spent \/ Spend("fault")
    BY DEF ReconcileCronJob, Proceed
  <2> QED BY <2>1, <2>2, SpendCreates DEF TypeOK, Disturbances
<1>5. \/ cronJob' = cronJob /\ pc' = "idle"
      \/ cronJob[at] = Nil /\ cronJob' = [cronJob EXCEPT ![at] = cj] /\ pc' = "idle"
      \/ cronJobCache[req] # Nil /\ cronJob' = [cronJob EXCEPT ![at] = cj]
  BY DEF ReconcileCronJob, Proceed, Return, Goto
<1>6. UidsIssued'
  <2>1. spent.create \in Nat /\ spent'.create \in Nat
    BY DEF TypeOK, Disturbances
  <2> QED BY <1>2, <1>3, <1>4, <2>1 DEF UidsIssued, TypeOK, BackupObject, ReconcileCronJob
<1>7. HoldMeansDeleting'
  BY <1>2 DEF HoldMeansDeleting
<1>8. CronJobsInDefault'
  BY <1>1, <1>2, <1>5 DEF CronJobsInDefault, TypeOK, CronJobKey
<1>9. FinalizerSeen'
  BY <1>2, <1>3 DEF FinalizerSeen, Seen, ReconcileCronJob
<1>10. ASSUME cronJobCache[req] # Nil
       PROVE  /\ at = req
              /\ cj.owner = [name |-> req.name, uid |-> obj.uid]
  <2>1. req.ns = DefaultNS
    BY <1>1, <1>10 DEF CronJobsInDefault
  <2>2. req = [ns |-> req.ns, name |-> req.name]
    BY <1>1 DEF Keys
  <2> QED BY <2>1, <2>2 DEF CronJobKey, cronJobForBackup, ControllerRef
<1>11. CronJobWritten'
  BY <1>1, <1>2, <1>3, <1>5, <1>10
     DEF CronJobWritten, OwnsCronJob, Live, TypeOK
<1>12. RegisteredOwnsCronJob'
  <2> SUFFICES ASSUME NEW k \in Keys, Registered(k)'
               PROVE  OwnsCronJob(k)'
    BY DEF RegisteredOwnsCronJob, OwnsCronJob
  <2>1. Registered(k) /\ OwnsCronJob(k)
    BY <1>2 DEF Registered, Live, RegisteredOwnsCronJob, OwnsCronJob
  <2>2. CASE cronJob'[k] = cronJob[k]
    BY <1>2, <2>1, <2>2 DEF OwnsCronJob
  <2>3. CASE cronJob'[k] # cronJob[k]
    <3>1. k = at /\ cronJobCache[req] # Nil /\ cronJob'[k] = cj
      BY <1>1, <1>5, <2>1, <2>3 DEF TypeOK, OwnsCronJob
    <3>2. k = req /\ obj.uid = backup[k].uid
      BY <1>10, <2>1, <3>1 DEF FinalizerSeen, ReconcileCronJob, Registered, Live
    <3> QED BY <1>1, <1>2, <1>10, <3>1, <3>2 DEF OwnsCronJob
  <2> QED BY <2>2, <2>3
<1> QED BY <1>6, <1>7, <1>8, <1>9, <1>11, <1>12

\* The Update that adds the finalizer succeeds only on the copy for which the
\* CronJob was written.
LEMMA OwnershipAddFinalizer ==
  ASSUME OwnershipInv, TypeOK', AddFinalizer
  PROVE  OwnershipInv'
<1> USE NilAssumption DEF OwnershipInv
<1>1. req \in Keys /\ obj \in BackupObject
  BY DEF AddFinalizer, TypeOK
<1>2. /\ pc' = "idle" /\ spent.create <= spent'.create
      /\ UNCHANGED <<backupCache, cronJob, cronJobCache>>
  <2>1. spent' = spent \/ Spend("fault")
    BY DEF AddFinalizer, Complete
  <2>2. spent.create \in Nat /\ spent'.create \in Nat
    BY DEF TypeOK, Disturbances
  <2>3. spent.create <= spent'.create
    BY <2>1, <2>2, SpendCreates DEF TypeOK, Disturbances
  <2> QED BY <2>3 DEF AddFinalizer, Complete, Return, caches
<1>3. CASE backup[req] = obj
  <2> DEFINE new == [obj EXCEPT !.fin = TRUE]
  <2>1. backup' = [backup EXCEPT ![req] = new]
    BY <1>3 DEF AddFinalizer
  <2>2. /\ new.uid = obj.uid /\ new.deleting = obj.deleting
        /\ new.hold = obj.hold /\ new # Nil
    BY <1>1, BackupWrites, BackupFields
  <2>3. \A k \in Keys : /\ k # req => backup'[k] = backup[k]
                        /\ backup'[k] # Nil <=> backup[k] # Nil
                        /\ backup[k] # Nil =>
                             /\ backup'[k].uid = backup[k].uid
                             /\ backup'[k].deleting = backup[k].deleting
                             /\ backup'[k].hold = backup[k].hold
    BY <1>1, <1>3, <2>1, <2>2 DEF TypeOK
  <2> HIDE DEF new
  <2>4. UidsIssued' /\ HoldMeansDeleting'
    <3>1. spent.create \in Nat /\ spent'.create \in Nat
      BY DEF TypeOK, Disturbances
    <3> QED BY <1>2, <2>3, <3>1 DEF UidsIssued, HoldMeansDeleting, TypeOK, BackupObject
  <2>5. CronJobsInDefault' /\ CronJobWritten'
    BY <1>2 DEF CronJobsInDefault, CronJobWritten
  <2>6. FinalizerSeen'
    BY <1>1, <1>2, <1>3, <2>3 DEF FinalizerSeen, Seen, AddFinalizer
  <2>7. OwnsCronJob(req)
    BY <1>1, <1>3 DEF CronJobWritten, AddFinalizer, Live
  <2>8. RegisteredOwnsCronJob'
    BY <1>2, <2>3, <2>7 DEF RegisteredOwnsCronJob, Registered, Live, OwnsCronJob
  <2> QED BY <2>4, <2>5, <2>6, <2>8
<1>4. CASE backup[req] # obj
  BY <1>2, <1>4, OwnershipFrame DEF AddFinalizer, TypeOK, Disturbances
<1> QED BY <1>3, <1>4

\* Removing the finalizer concerns a Backup in deletion.
LEMMA OwnershipRemoveFinalizer ==
  ASSUME OwnershipInv, TypeOK', RemoveFinalizer
  PROVE  OwnershipInv'
<1> USE NilAssumption DEF OwnershipInv
<1>1. req \in Keys /\ obj \in BackupObject
  BY DEF RemoveFinalizer, TypeOK
<1>2. /\ pc' = "idle" /\ spent.create <= spent'.create
      /\ UNCHANGED <<backupCache, cronJob, cronJobCache>>
  <2>1. spent' = spent \/ Spend("fault")
    BY DEF RemoveFinalizer, Complete
  <2>2. spent.create \in Nat /\ spent'.create \in Nat
    BY DEF TypeOK, Disturbances
  <2>3. spent.create <= spent'.create
    BY <2>1, <2>2, SpendCreates DEF TypeOK, Disturbances
  <2> QED BY <2>3 DEF RemoveFinalizer, Complete, Return, caches
<1>3. CASE backup[req] = obj
  <2> DEFINE new == [obj EXCEPT !.fin = FALSE]
  <2>1. \/ backup' = [backup EXCEPT ![req] = new]
        \/ backup' = [backup EXCEPT ![req] = Nil]
    BY <1>3 DEF RemoveFinalizer
  <2>2. /\ new.uid = obj.uid /\ new.deleting = obj.deleting
        /\ new.hold = obj.hold /\ ~new.fin /\ new # Nil
    BY <1>1, BackupWrites, BackupFields
  <2> HIDE DEF new
  <2>3. \A k \in Keys : backup'[k] # Nil =>
          /\ backup[k] # Nil
          /\ backup'[k].uid = backup[k].uid
          /\ backup'[k].deleting = backup[k].deleting
          /\ backup'[k].hold = backup[k].hold
          /\ backup'[k].fin => backup[k].fin
    <3> SUFFICES ASSUME NEW k \in Keys, backup'[k] # Nil
                 PROVE  /\ backup[k] # Nil
                        /\ backup'[k].uid = backup[k].uid
                        /\ backup'[k].deleting = backup[k].deleting
                        /\ backup'[k].hold = backup[k].hold
                        /\ backup'[k].fin => backup[k].fin
      OBVIOUS
    <3>1. backup \in [Keys -> BackupObject \cup {Nil}]
      BY DEF TypeOK
    <3>2. CASE k = req
      <4>1. backup'[k] = new
        BY <1>1, <2>1, <3>1, <3>2
      <4>2. backup[k] = obj /\ obj # Nil
        BY <1>1, <1>3, <3>2
      <4> QED BY <2>2, <4>1, <4>2
    <3>3. CASE k # req
      <4>1. backup'[k] = backup[k]
        BY <1>1, <2>1, <3>1, <3>3
      <4> QED BY <4>1
    <3> QED BY <3>2, <3>3
  <2>4. UidsIssued' /\ HoldMeansDeleting'
    <3>1. spent.create \in Nat /\ spent'.create \in Nat
      BY DEF TypeOK, Disturbances
    <3> QED BY <1>2, <2>3, <3>1 DEF UidsIssued, HoldMeansDeleting, TypeOK, BackupObject
  <2>5. CronJobsInDefault' /\ CronJobWritten'
    BY <1>2 DEF CronJobsInDefault, CronJobWritten
  <2>6. FinalizerSeen'
    BY <1>2, <2>3 DEF FinalizerSeen, Seen
  <2>7. RegisteredOwnsCronJob'
    BY <1>2, <2>3 DEF RegisteredOwnsCronJob, Registered, Live
  <2> QED BY <2>4, <2>5, <2>6, <2>7
<1>4. CASE backup[req] # obj
  BY <1>2, <1>4, OwnershipFrame DEF RemoveFinalizer, TypeOK, Disturbances
<1> QED BY <1>3, <1>4

\* All stages of Reconcile preserve the invariant.
LEMMA OwnershipWorker ==
  ASSUME OwnershipInv, TypeOK',
         WorkerStep \/ APIError \/ (\E k \in Keys : Reconcile(k))
  PROVE  OwnershipInv'
<1>1. spent.create \in Nat
  BY DEF OwnershipInv, TypeOK, Disturbances
<1>2. CASE ReconcileServiceAccount
  BY <1>1, <1>2, OwnershipFrame DEF ReconcileServiceAccount, Return, Goto, caches
<1>3. CASE ReconcileClusterRole
  BY <1>1, <1>3, OwnershipFrame DEF ReconcileClusterRole, Return, Goto, caches
<1>4. CASE ReconcileClusterRoleBinding
  BY <1>1, <1>4, OwnershipFrame
     DEF ReconcileClusterRoleBinding, Return, Goto, caches
<1>5. CASE FinalizerSettled
  BY <1>1, <1>5, OwnershipFrame DEF FinalizerSettled, Return, api, caches
<1>6. CASE DeleteExternalResources
  <2>1. spent' = spent \/ Spend("fault")
    BY <1>6 DEF DeleteExternalResources, Proceed
  <2>2. spent.create <= spent'.create
    BY <1>1, <2>1, SpendCreates DEF OwnershipInv, TypeOK, Disturbances
  <2> QED
    BY <1>6, <2>2, OwnershipFrame
       DEF DeleteExternalResources, Proceed, Return, Goto, caches
<1>7. CASE APIError
  <2>1. spent.create <= spent'.create
    BY <1>7, SpendCreates DEF APIError, OwnershipInv, TypeOK, Disturbances
  <2>2. \/ pc' = "idle"
        \/ pc # "idle" /\ pc' # "finalizer" /\ UNCHANGED <<req, obj>>
    BY <1>7 DEF APIError, ErrorIgnored, Return, Goto
  <2> QED
    BY <1>7, <2>1, <2>2, OwnershipFrame DEF APIError, api, caches
<1> QED
  BY <1>2, <1>3, <1>4, <1>5, <1>6, <1>7, OwnershipReconcile,
     OwnershipCronJobStage, OwnershipAddFinalizer, OwnershipRemoveFinalizer
     DEF WorkerStep

\* A cache that catches up has seen the registered Backup.
LEMMA OwnershipSyncBackup ==
  ASSUME OwnershipInv, TypeOK', NEW k \in Keys, SyncBackup(k)
  PROVE  OwnershipInv'
<1> USE NilAssumption DEF OwnershipInv
<1>1. backupCache' = [backupCache EXCEPT ![k] = backup[k]]
  BY DEF SyncBackup
<1>2. UNCHANGED <<backup, cronJob, cronJobCache, pc, req, obj, spent>>
  BY DEF SyncBackup, api, worker
<1>3. UidsIssued'
  BY <1>1, <1>2 DEF UidsIssued, TypeOK
<1>4. FinalizerSeen'
  BY <1>1, <1>2 DEF FinalizerSeen, Seen, TypeOK
<1>5. HoldMeansDeleting' /\ CronJobsInDefault'
  BY <1>2 DEF HoldMeansDeleting, CronJobsInDefault
<1>6. CronJobWritten'
  BY <1>2 DEF CronJobWritten, Live, OwnsCronJob
<1>7. RegisteredOwnsCronJob'
  BY <1>2 DEF RegisteredOwnsCronJob, Registered, Live
<1> QED BY <1>3, <1>4, <1>5, <1>6, <1>7

\* The cached CronJobs stay where the template puts them.
LEMMA OwnershipSyncCronJob ==
  ASSUME OwnershipInv, TypeOK', NEW k \in Keys, SyncCronJob(k)
  PROVE  OwnershipInv'
<1> USE NilAssumption DEF OwnershipInv
<1>1. cronJobCache' = [cronJobCache EXCEPT ![k] = cronJob[k]]
  BY DEF SyncCronJob
<1>2. UNCHANGED <<backup, backupCache, cronJob, pc, req, obj, spent>>
  BY DEF SyncCronJob, api, worker
<1>3. CronJobsInDefault'
  BY <1>1, <1>2 DEF CronJobsInDefault, TypeOK
<1>4. UidsIssued' /\ HoldMeansDeleting'
  BY <1>2 DEF UidsIssued, HoldMeansDeleting
<1>5. FinalizerSeen'
  BY <1>2 DEF FinalizerSeen, Seen
<1>6. CronJobWritten'
  BY <1>2 DEF CronJobWritten, Live, OwnsCronJob
<1>7. RegisteredOwnsCronJob'
  BY <1>2 DEF RegisteredOwnsCronJob, Registered, Live
<1> QED BY <1>3, <1>4, <1>5, <1>6, <1>7

\* The garbage collector never takes the CronJob of a Backup that is alive.
LEMMA OwnershipCollectCronJob ==
  ASSUME OwnershipInv, TypeOK', NEW k \in Keys, CollectCronJob(k)
  PROVE  OwnershipInv'
<1> USE NilAssumption DEF OwnershipInv
<1>1. cronJob' = [cronJob EXCEPT ![k] = Nil]
  BY DEF CollectCronJob
<1>2. UNCHANGED <<backup, backupCache, cronJobCache, pc, req, obj, spent>>
  BY DEF CollectCronJob, caches, worker
<1>3. ~(Live(k) /\ OwnsCronJob(k))
  <2>1. SUFFICES ASSUME Live(k), OwnsCronJob(k) PROVE FALSE
    OBVIOUS
  <2>2. k = [ns |-> k.ns, name |-> cronJob[k].owner.name]
    BY <2>1 DEF Keys, OwnsCronJob
  <2>3. cronJob[k].owner.uid = backup[k].uid
    BY <2>1 DEF OwnsCronJob
  <2>4. backup[k].hold
    BY <2>1, <2>2, <2>3 DEF CollectCronJob, Collectable, Live
  <2> QED BY <2>1, <2>4 DEF HoldMeansDeleting, Live
<1>4. UidsIssued' /\ HoldMeansDeleting'
  BY <1>2 DEF UidsIssued, HoldMeansDeleting
<1>5. CronJobsInDefault'
  BY <1>1, <1>2 DEF CronJobsInDefault, TypeOK
<1>6. FinalizerSeen'
  BY <1>2 DEF FinalizerSeen, Seen
<1>7. CronJobWritten'
  BY <1>1, <1>2, <1>3 DEF CronJobWritten, Live, OwnsCronJob, TypeOK
<1>8. RegisteredOwnsCronJob'
  BY <1>1, <1>2, <1>3
     DEF RegisteredOwnsCronJob, Registered, Live, OwnsCronJob, TypeOK
<1> QED BY <1>4, <1>5, <1>6, <1>7, <1>8

\* A step on Backup k that keeps its uid and its finalizer or lack of it, and
\* brings no deleted Backup back, preserves the invariant.
LEMMA OwnershipRewrite ==
  ASSUME OwnershipInv, TypeOK', NEW k \in Keys,
         NEW new \in BackupObject \cup {Nil},
         backup[k] # Nil, backup' = [backup EXCEPT ![k] = new],
         new # Nil => /\ new.uid = backup[k].uid
                      /\ new.fin => backup[k].fin
                      /\ backup[k].deleting => new.deleting
                      /\ new.hold => new.deleting,
         UNCHANGED <<backupCache, cronJob, cronJobCache, pc, req, obj>>,
         spent.create <= spent'.create
  PROVE  OwnershipInv'
<1> USE NilAssumption DEF OwnershipInv
<1>1. spent.create \in Nat /\ spent'.create \in Nat
  BY DEF TypeOK, Disturbances
<1>2. \A j \in Keys : backup'[j] # Nil =>
        /\ backup[j] # Nil
        /\ backup'[j].uid = backup[j].uid
        /\ backup'[j].fin => backup[j].fin
        /\ backup[j].deleting => backup'[j].deleting
        /\ backup'[j].hold /\ ~backup[j].deleting => j = k /\ backup'[j].deleting
  BY DEF TypeOK, HoldMeansDeleting
<1>3. UidsIssued'
  BY <1>1, <1>2 DEF UidsIssued, TypeOK, BackupObject
<1>4. HoldMeansDeleting'
  BY <1>2 DEF HoldMeansDeleting
<1>5. CronJobsInDefault'
  BY DEF CronJobsInDefault
<1>6. FinalizerSeen'
  BY <1>2 DEF FinalizerSeen, Seen, TypeOK
<1>7. CronJobWritten'
  BY <1>2 DEF CronJobWritten, Live, OwnsCronJob, TypeOK
<1>8. RegisteredOwnsCronJob'
  BY <1>2 DEF RegisteredOwnsCronJob, Registered, Live
<1> QED BY <1>3, <1>4, <1>5, <1>6, <1>7, <1>8

\* The end of a foreground deletion removes only a Backup in deletion.
LEMMA OwnershipReleaseForeground ==
  ASSUME OwnershipInv, TypeOK', NEW k \in Keys, ReleaseForeground(k)
  PROVE  OwnershipInv'
<1> USE NilAssumption DEF OwnershipInv
<1> DEFINE new == [backup[k] EXCEPT !.hold = FALSE]
<1>1. backup[k] \in BackupObject
  BY DEF ReleaseForeground, TypeOK
<1>2. /\ UNCHANGED <<backupCache, cronJob, cronJobCache, pc, req, obj>>
      /\ spent.create <= spent'.create
  BY DEF ReleaseForeground, caches, worker, TypeOK, Disturbances
<1>3. CASE backup' = [backup EXCEPT ![k] = Nil]
  BY <1>1, <1>2, <1>3, OwnershipRewrite
<1>4. CASE backup' = [backup EXCEPT ![k] = new]
  <2>1. new \in BackupObject
    BY <1>1, BackupWrites
  <2>2. new.uid = backup[k].uid
    BY <1>1 DEF BackupObject
  <2>3. new.fin = backup[k].fin
    BY <1>1 DEF BackupObject
  <2>4. new.deleting = backup[k].deleting
    BY <1>1 DEF BackupObject
  <2>5. ~new.hold
    BY <1>1 DEF BackupObject
  <2> HIDE DEF new
  <2> QED BY <1>1, <1>2, <1>4, <2>1, <2>2, <2>3, <2>4, <2>5, OwnershipRewrite
<1> QED BY <1>1, <1>3, <1>4 DEF ReleaseForeground

\* Informers and the garbage collector preserve the invariant.
LEMMA OwnershipCluster ==
  ASSUME OwnershipInv, TypeOK', ClusterStep
  PROVE  OwnershipInv'
<1>1. spent.create \in Nat
  BY DEF OwnershipInv, TypeOK, Disturbances
<1>2. ASSUME NEW ns \in Namespaces, SyncServiceAccount(ns) PROVE OwnershipInv'
  BY <1>1, <1>2, OwnershipFrame DEF SyncServiceAccount, api
<1>3. CASE SyncClusterRole
  BY <1>1, <1>3, OwnershipFrame DEF SyncClusterRole, api
<1>4. ASSUME NEW ns \in Namespaces, SyncClusterRoleBinding(ns) PROVE OwnershipInv'
  BY <1>1, <1>4, OwnershipFrame DEF SyncClusterRoleBinding, api
<1>5. ASSUME NEW ns \in Namespaces, CollectServiceAccount(ns) PROVE OwnershipInv'
  BY <1>1, <1>5, OwnershipFrame DEF CollectServiceAccount, caches
<1> QED
  BY <1>2, <1>3, <1>4, <1>5, OwnershipSyncBackup, OwnershipSyncCronJob,
     OwnershipCollectCronJob, OwnershipReleaseForeground DEF ClusterStep

\* A new Backup has a new uid and no finalizer.
LEMMA OwnershipCreate ==
  ASSUME OwnershipInv, TypeOK', NEW k \in Keys, NEW spec \in BackupSpec,
         CreateBackup(k, spec)
  PROVE  OwnershipInv'
<1> USE NilAssumption DEF OwnershipInv
<1> DEFINE new == [uid |-> spent.create + 1, gen |-> 1, spec |-> spec,
                   deleting |-> FALSE, fin |-> FALSE, hold |-> FALSE]
<1>1. backup' = [backup EXCEPT ![k] = new]
  BY DEF CreateBackup
<1>2. UNCHANGED <<backupCache, cronJob, cronJobCache, pc, req, obj>>
  BY DEF CreateBackup, caches, worker
<1>3. spent.create \in Nat /\ spent'.create = spent.create + 1
  BY SpendCreates DEF CreateBackup, TypeOK, Disturbances
<1>4. /\ new.uid = spent.create + 1
      /\ ~new.fin /\ ~new.hold
  OBVIOUS
<1> HIDE DEF new
<1>5. \A j \in Keys : IF j = k THEN backup'[j] = new ELSE backup'[j] = backup[j]
  BY <1>1 DEF TypeOK
<1>6. UidsIssued'
  BY <1>2, <1>3, <1>4, <1>5 DEF UidsIssued, TypeOK, BackupObject
<1>7. HoldMeansDeleting'
  BY <1>4, <1>5 DEF HoldMeansDeleting
<1>8. CronJobsInDefault'
  BY <1>2 DEF CronJobsInDefault
<1>9. pc # "idle" => obj.uid # new.uid
  BY <1>3, <1>4 DEF UidsIssued, TypeOK, BackupObject
<1>10. FinalizerSeen'
  BY <1>2, <1>4, <1>5, <1>9 DEF FinalizerSeen, Seen, TypeOK
<1>11. CronJobWritten'
  BY <1>2, <1>5, <1>9 DEF CronJobWritten, Live, OwnsCronJob, TypeOK
<1>12. RegisteredOwnsCronJob'
  BY <1>2, <1>4, <1>5 DEF RegisteredOwnsCronJob, Registered, Live
<1> QED BY <1>6, <1>7, <1>8, <1>10, <1>11, <1>12

\* An edit changes neither uid nor finalizers.
LEMMA OwnershipEdit ==
  ASSUME OwnershipInv, TypeOK', NEW k \in Keys, NEW spec \in BackupSpec,
         EditBackup(k, spec)
  PROVE  OwnershipInv'
<1> USE NilAssumption DEF OwnershipInv
<1> DEFINE new == [backup[k] EXCEPT !.spec = spec, !.gen = @ + 1]
<1>1. backup[k] # Nil /\ backup[k] \in BackupObject
  BY DEF EditBackup, TypeOK
<1>2. backup' = [backup EXCEPT ![k] = new]
  BY DEF EditBackup, TypeOK
<1>3. backup'[k] = new /\ new \in BackupObject \cup {Nil}
  BY <1>2 DEF TypeOK
<1>4. /\ new.uid = backup[k].uid /\ new.fin = backup[k].fin
      /\ new.deleting = backup[k].deleting /\ new.hold = backup[k].hold
  BY <1>1 DEF BackupObject
<1>5. UNCHANGED <<backupCache, cronJob, cronJobCache, pc, req, obj>>
  BY DEF EditBackup, caches, worker
<1>6. spent.create <= spent'.create
  BY SpendCreates DEF EditBackup, TypeOK, Disturbances
<1>7. backup[k].hold => backup[k].deleting
  BY <1>1 DEF HoldMeansDeleting
<1> HIDE DEF new
<1> QED BY <1>1, <1>2, <1>3, <1>4, <1>5, <1>6, <1>7, OwnershipRewrite

\* A deletion request removes the Backup or marks it.
LEMMA OwnershipDelete ==
  ASSUME OwnershipInv, TypeOK', NEW k \in Keys, NEW foreground \in BOOLEAN,
         DeleteBackup(k, foreground)
  PROVE  OwnershipInv'
<1> USE NilAssumption DEF OwnershipInv
<1> DEFINE new == [backup[k] EXCEPT !.deleting = TRUE, !.gen = @ + 1,
                                    !.hold = foreground]
<1>1. backup[k] # Nil /\ backup[k] \in BackupObject
  BY DEF DeleteBackup, TypeOK
<1>2. backup' = [backup EXCEPT ![k] = new] \/ backup' = [backup EXCEPT ![k] = Nil]
  BY DEF DeleteBackup
<1>3. new \in BackupObject
  BY <1>1, BackupWrites
<1>4. new.uid = backup[k].uid
  BY <1>1 DEF BackupObject
<1>5. new.fin = backup[k].fin
  BY <1>1 DEF BackupObject
<1>6. new.deleting
  BY <1>1 DEF BackupObject
<1>7. UNCHANGED <<backupCache, cronJob, cronJobCache, pc, req, obj>>
  BY DEF DeleteBackup, caches, worker
<1>8. spent.create <= spent'.create
  <2>1. spent' = spent \/ Spend("foreground")
    BY DEF DeleteBackup
  <2> QED BY <2>1, SpendCreates DEF TypeOK, Disturbances
<1> HIDE DEF new
<1> QED
  BY <1>1, <1>2, <1>3, <1>4, <1>5, <1>6, <1>7, <1>8, OwnershipRewrite

\* CronJobs are not tampered with, by assumption.
LEMMA OwnershipTamper ==
  ASSUME OwnershipInv, TypeOK', "cronJob" \notin Tamperable,
         NEW kind \in Kinds, Tamper(kind)
  PROVE  OwnershipInv'
<1>1. UNCHANGED <<backup, backupCache, cronJob, cronJobCache>> /\ UNCHANGED worker
  BY DEF Tamper, caches
<1>2. spent.create <= spent'.create
  BY SpendCreates DEF Tamper, OwnershipInv, TypeOK, Disturbances
<1> QED BY <1>1, <1>2, OwnershipFrame

\* A restart makes the caches equal to the API server.
LEMMA OwnershipRestart ==
  ASSUME OwnershipInv, TypeOK', Restart
  PROVE  OwnershipInv'
<1> USE NilAssumption DEF OwnershipInv
<1>1. /\ UNCHANGED <<backup, cronJob>> /\ pc' = "idle"
      /\ backupCache' = backup /\ cronJobCache' = cronJob
  BY DEF Restart, api
<1>2. spent.create \in Nat /\ spent'.create \in Nat /\ spent.create <= spent'.create
  BY SpendCreates DEF Restart, TypeOK, Disturbances
<1>3. UidsIssued'
  BY <1>1, <1>2 DEF UidsIssued, TypeOK, BackupObject
<1>4. HoldMeansDeleting' /\ CronJobsInDefault'
  BY <1>1 DEF HoldMeansDeleting, CronJobsInDefault
<1>5. FinalizerSeen' /\ CronJobWritten'
  BY <1>1 DEF FinalizerSeen, Seen, CronJobWritten
<1>6. RegisteredOwnsCronJob'
  BY <1>1 DEF RegisteredOwnsCronJob, Registered, Live
<1> QED BY <1>3, <1>4, <1>5, <1>6

\* There is no Backup at first.
LEMMA OwnershipInit == Init => OwnershipInv
<1> SUFFICES ASSUME Init PROVE OwnershipInv
  OBVIOUS
<1>1. /\ \A k \in Keys : /\ backup[k] = Nil /\ backupCache[k] = Nil
                         /\ cronJob[k] = Nil /\ cronJobCache[k] = Nil
      /\ pc = "idle"
  BY DEF Init
<1> QED
  BY <1>1, TypeInit
     DEF OwnershipInv, UidsIssued, HoldMeansDeleting, CronJobsInDefault,
         FinalizerSeen, CronJobWritten, RegisteredOwnsCronJob, Registered, Live

\* The ownership invariant is inductive.
LEMMA OwnershipStep ==
  ASSUME "cronJob" \notin Tamperable
  PROVE  OwnershipInv /\ [Next]_vars => OwnershipInv'
<1> SUFFICES ASSUME OwnershipInv, [Next]_vars PROVE OwnershipInv'
  OBVIOUS
<1>1. TypeOK'
  BY TypeStep DEF OwnershipInv
<1>2. CASE UNCHANGED vars
  <2>1. spent.create <= spent'.create
    BY <1>2 DEF vars, OwnershipInv, TypeOK, Disturbances
  <2> QED BY <1>1, <1>2, <2>1, OwnershipFrame DEF vars, api, caches
<1>3. CASE UserStep
  BY <1>1, <1>3, OwnershipCreate, OwnershipEdit, OwnershipDelete, OwnershipTamper
     DEF UserStep
<1> QED
  BY <1>1, <1>2, <1>3, OwnershipWorker, OwnershipCluster, OwnershipRestart DEF Next

\* Unless somebody deletes CronJobs by hand, a registered Backup owns its
\* CronJob in every reachable state: no reconcile on a stale copy, garbage
\* collection, lost reply or restart separates the two.
THEOREM RegisteredOwns ==
  ASSUME "cronJob" \notin Tamperable
  PROVE  Spec => []RegisteredOwnsCronJob
<1>1. OwnershipInv => RegisteredOwnsCronJob
  BY DEF OwnershipInv
<1> QED BY <1>1, OwnershipInit, OwnershipStep, PTL DEF Spec

-----------------------------------------------------------------------------
(* The controller implements FinalizerProtocol.                            *)

\* Between its two calls the deletion branch of handleFinalizer holds a copy
\* of a Backup in deletion, and the ClusterRoleBinding stays away: only this
\* worker could create it again.
UnboundInv ==
  /\ TypeOK
  /\ HoldMeansDeleting
  /\ pc = "removeFinalizer" => obj.deleting /\ obj.fin /\ ~binding[req.ns]

\* The worker is idle at first.
LEMMA UnboundInit == Init => UnboundInv
<1> SUFFICES ASSUME Init PROVE UnboundInv
  OBVIOUS
<1> QED BY TypeInit DEF Init, UnboundInv, HoldMeansDeleting

PhaseMap == [k \in Keys |-> Phase(backup[k])]

\* The phase of a Backup, read off its fields.
LEMMA PhaseValues ==
  ASSUME NEW b
  PROVE  /\ b = Nil => Phase(b) = "absent"
         /\ b # Nil /\ ~b.deleting /\ ~b.fin => Phase(b) = "fresh"
         /\ b # Nil /\ ~b.deleting /\ b.fin => Phase(b) = "registered"
         /\ b # Nil /\ b.deleting /\ b.fin => Phase(b) = "terminating"
         /\ b # Nil /\ b.deleting /\ ~b.fin => Phase(b) = "lingering"
BY DEF Phase

\* Writing Backup k is a step of the protocol if the phases of its old and of
\* its new value are joined by an edge; releasing it needs the binding gone.
LEMMA RefineWrite ==
  ASSUME TypeOK, HoldMeansDeleting, NEW k \in Keys, NEW new,
         backup' = [backup EXCEPT ![k] = new], binding' = binding,
         new # Nil /\ new.hold => new.deleting,
         \/ Phase(new) = Phase(backup[k])
         \/ Phase(backup[k]) = "absent" /\ Phase(new) = "fresh"
         \/ /\ Phase(backup[k]) = "fresh"
            /\ Phase(new) \in {"registered", "absent", "lingering"}
         \/ Phase(backup[k]) = "registered" /\ Phase(new) = "terminating"
         \/ /\ Phase(backup[k]) = "terminating"
            /\ Phase(new) \in {"absent", "lingering"} /\ ~binding[k.ns]
         \/ Phase(backup[k]) = "lingering" /\ Phase(new) = "absent"
  PROVE  HoldMeansDeleting' /\ [Protocol!Next]_<<PhaseMap, binding>>
<1>1. backup'[k] = new /\ \A j \in Keys \ {k} : backup'[j] = backup[j]
  BY DEF TypeOK
<1>2. HoldMeansDeleting'
  BY <1>1 DEF HoldMeansDeleting
<1>3. PhaseMap' = [PhaseMap EXCEPT ![k] = Phase(new)] /\ PhaseMap[k] = Phase(backup[k])
  <2>1. \A j \in Keys : Phase(backup'[j]) = IF j = k THEN Phase(new) ELSE Phase(backup[j])
    BY <1>1
  <2>2. PhaseMap' = [j \in Keys |-> Phase(backup'[j])]
    BY DEF PhaseMap, Phase
  <2> QED BY <2>1, <2>2 DEF PhaseMap
<1>4. [Protocol!Next]_<<PhaseMap, binding>>
  BY <1>3
     DEF Protocol!Next, Protocol!Create, Protocol!Register, Protocol!Terminate,
         Protocol!Drop, Protocol!Release, Protocol!Vanish, Protocol!Move, PhaseMap
<1> QED BY <1>2, <1>4

\* Creating a Backup is the protocol's Create.
LEMMA RefineCreate ==
  ASSUME UnboundInv, NEW k \in Keys, NEW spec \in BackupSpec, CreateBackup(k, spec)
  PROVE  HoldMeansDeleting' /\ [Protocol!Next]_<<PhaseMap, binding>>
<1> USE NilAssumption DEF UnboundInv
<1> DEFINE new == [uid |-> spent.create + 1, gen |-> 1, spec |-> spec,
                   deleting |-> FALSE, fin |-> FALSE, hold |-> FALSE]
<1>1. backup[k] = Nil /\ backup' = [backup EXCEPT ![k] = new] /\ binding' = binding
  BY DEF CreateBackup
<1>2. new # Nil /\ ~new.deleting /\ ~new.fin /\ ~new.hold
  <2>1. new \in BackupObject
    BY DEF BackupObject, TypeOK, Disturbances
  <2> QED BY <2>1
<1> HIDE DEF new
<1>3. Phase(backup[k]) = "absent" /\ Phase(new) = "fresh"
  BY <1>1, <1>2, PhaseValues
<1> QED BY <1>1, <1>2, <1>3, RefineWrite

\* An edit leaves the phase alone.
LEMMA RefineEdit ==
  ASSUME UnboundInv, NEW k \in Keys, NEW spec \in BackupSpec, EditBackup(k, spec)
  PROVE  HoldMeansDeleting' /\ [Protocol!Next]_<<PhaseMap, binding>>
<1> USE NilAssumption DEF UnboundInv
<1> DEFINE new == [backup[k] EXCEPT !.spec = spec, !.gen = @ + 1]
<1>1. backup[k] # Nil /\ backup[k] \in BackupObject
  BY DEF EditBackup, TypeOK
<1>2. backup' = [backup EXCEPT ![k] = new] /\ binding' = binding
  BY DEF EditBackup, TypeOK
<1>3. new \in BackupObject
  <2>1. [backup[k] EXCEPT !.spec = spec] \in BackupObject
    BY <1>1 DEF BackupObject
  <2>2. ASSUME NEW p \in BackupObject PROVE [p EXCEPT !.gen = @ + 1] \in BackupObject
    BY DEF BackupObject
  <2> QED BY <2>1, <2>2
<1>4. /\ new.fin = backup[k].fin
      /\ new.deleting = backup[k].deleting /\ new.hold = backup[k].hold
  BY <1>1 DEF BackupObject
<1>5. new # Nil /\ (new.hold => new.deleting)
  BY <1>1, <1>3, <1>4 DEF HoldMeansDeleting
<1> HIDE DEF new
<1>6. Phase(new) = Phase(backup[k])
  BY <1>1, <1>2, <1>4, <1>5, PhaseValues
<1> QED BY <1>2, <1>5, <1>6, RefineWrite

\* A deletion request is Drop or Terminate.
LEMMA RefineDelete ==
  ASSUME UnboundInv, NEW k \in Keys, NEW foreground \in BOOLEAN,
         DeleteBackup(k, foreground)
  PROVE  HoldMeansDeleting' /\ [Protocol!Next]_<<PhaseMap, binding>>
<1> USE NilAssumption DEF UnboundInv
<1> DEFINE new == [backup[k] EXCEPT !.deleting = TRUE, !.gen = @ + 1,
                                    !.hold = foreground]
<1>1. backup[k] # Nil /\ backup[k] \in BackupObject /\ ~backup[k].deleting
  BY DEF DeleteBackup, TypeOK
<1>2. binding' = binding
  BY DEF DeleteBackup
<1>3. /\ new \in BackupObject
      /\ new # Nil
  BY <1>1, BackupWrites
<1>4. new.fin = backup[k].fin
  BY <1>1 DEF BackupObject
<1>5. new.deleting
  BY <1>1 DEF BackupObject
<1>6. CASE foreground \/ backup[k].fin
  <2>1. backup' = [backup EXCEPT ![k] = new]
    BY <1>6 DEF DeleteBackup, TypeOK
  <2> HIDE DEF new
  <2>2. \/ Phase(backup[k]) = "fresh" /\ Phase(new) = "lingering"
        \/ Phase(backup[k]) = "registered" /\ Phase(new) = "terminating"
    BY <1>1, <1>3, <1>4, <1>5, <1>6, PhaseValues
  <2> QED BY <1>2, <1>3, <1>5, <2>1, <2>2, RefineWrite
<1>7. CASE ~(foreground \/ backup[k].fin)
  <2>1. backup' = [backup EXCEPT ![k] = Nil]
    BY <1>7 DEF DeleteBackup, TypeOK
  <2>2. Phase(backup[k]) = "fresh" /\ Phase(Nil) = "absent"
    BY <1>1, <1>7, <2>1, PhaseValues
  <2> QED BY <1>2, <2>1, <2>2, RefineWrite
<1> QED BY <1>6, <1>7

\* handleFinalizer's first Update is Register.
LEMMA RefineAddFinalizer ==
  ASSUME UnboundInv, AddFinalizer, backup' # backup
  PROVE  HoldMeansDeleting' /\ [Protocol!Next]_<<PhaseMap, binding>>
<1> USE NilAssumption DEF UnboundInv
<1> DEFINE new == [obj EXCEPT !.fin = TRUE]
<1>1. req \in Keys /\ obj \in BackupObject /\ ~obj.deleting /\ ~obj.fin /\ obj # Nil
  BY DEF AddFinalizer, TypeOK
<1>2. backup[req] = obj /\ backup' = [backup EXCEPT ![req] = new]
  BY DEF AddFinalizer
<1>3. binding' = binding
  BY DEF AddFinalizer
<1>4. new # Nil /\ new.deleting = obj.deleting /\ new.hold = obj.hold /\ new.fin
  BY <1>1, BackupWrites, BackupFields
<1>5. ~new.hold
  BY <1>1, <1>2, <1>4 DEF HoldMeansDeleting
<1> HIDE DEF new
<1>6. Phase(obj) = "fresh" /\ Phase(new) = "registered"
  BY <1>1, <1>2, <1>4, PhaseValues
<1> QED BY <1>1, <1>2, <1>3, <1>5, <1>6, RefineWrite

\* handleFinalizer's last Update is Release: no binding, by UnboundInv.
LEMMA RefineRemoveFinalizer ==
  ASSUME UnboundInv, RemoveFinalizer, backup' # backup
  PROVE  HoldMeansDeleting' /\ [Protocol!Next]_<<PhaseMap, binding>>
<1> USE NilAssumption DEF UnboundInv
<1> DEFINE new == [obj EXCEPT !.fin = FALSE]
<1>1. /\ req \in Keys /\ obj \in BackupObject /\ obj # Nil
      /\ obj.deleting /\ obj.fin /\ ~binding[req.ns]
  BY DEF RemoveFinalizer, TypeOK
<1>2. /\ backup[req] = obj
      /\ \/ backup' = [backup EXCEPT ![req] = new]
         \/ backup' = [backup EXCEPT ![req] = Nil]
  BY DEF RemoveFinalizer
<1>3. binding' = binding
  BY DEF RemoveFinalizer
<1>4. new # Nil /\ new.deleting = obj.deleting /\ ~new.fin
  BY <1>1, BackupWrites, BackupFields
<1> HIDE DEF new
<1>5. /\ Phase(obj) = "terminating"
      /\ Phase(new) = "lingering" /\ Phase(Nil) = "absent"
  BY <1>1, <1>2, <1>4, PhaseValues
<1> QED BY <1>1, <1>2, <1>3, <1>4, <1>5, RefineWrite

\* The end of a foreground deletion is Vanish, or invisible.
LEMMA RefineReleaseForeground ==
  ASSUME UnboundInv, NEW k \in Keys, ReleaseForeground(k)
  PROVE  HoldMeansDeleting' /\ [Protocol!Next]_<<PhaseMap, binding>>
<1> USE NilAssumption DEF UnboundInv
<1> DEFINE new == [backup[k] EXCEPT !.hold = FALSE]
<1>1. /\ backup[k] # Nil /\ backup[k] \in BackupObject
      /\ backup[k].hold /\ backup[k].deleting
  BY DEF ReleaseForeground, TypeOK, HoldMeansDeleting
<1>2. binding' = binding
  BY DEF ReleaseForeground
<1>3. new # Nil
  BY <1>1, BackupWrites
<1>4. new.fin = backup[k].fin
  BY <1>1 DEF BackupObject
<1>5. new.deleting = backup[k].deleting
  BY <1>1 DEF BackupObject
<1>6. CASE backup[k].fin
  <2>1. backup' = [backup EXCEPT ![k] = new]
    BY <1>6 DEF ReleaseForeground
  <2> HIDE DEF new
  <2>2. Phase(new) = Phase(backup[k])
    <3>1. new.fin /\ new.deleting
      BY <1>1, <1>4, <1>5, <1>6
    <3>2. Phase(new) = "terminating" /\ Phase(backup[k]) = "terminating"
      BY <1>1, <1>3, <1>6, <3>1, PhaseValues
    <3> QED BY <3>2
  <2> QED
    BY <1>1, <1>2, <1>5, <2>1, <2>2, RefineWrite
<1>7. CASE ~backup[k].fin
  <2>1. backup' = [backup EXCEPT ![k] = Nil]
    BY <1>7 DEF ReleaseForeground
  <2>2. Phase(backup[k]) = "lingering" /\ Phase(Nil) = "absent"
    BY <1>1, <1>7, <2>1, PhaseValues
  <2> QED BY <1>2, <2>1, <2>2, RefineWrite
<1> QED BY <1>6, <1>7

\* Every other step leaves the phases alone; it may bind or unbind a namespace.
LEMMA RefineOther ==
  ASSUME UnboundInv, backup' = backup,
         \/ binding' = binding
         \/ \E ns \in Namespaces, b \in BOOLEAN : binding' = [binding EXCEPT ![ns] = b]
  PROVE  HoldMeansDeleting' /\ [Protocol!Next]_<<PhaseMap, binding>>
<1>1. HoldMeansDeleting'
  BY DEF UnboundInv, HoldMeansDeleting
<1>2. PhaseMap' = PhaseMap
  BY DEF PhaseMap, Phase
<1>3. [Protocol!Next]_<<PhaseMap, binding>>
  <2>1. CASE binding' = binding
    BY <1>2, <2>1
  <2>2. ASSUME NEW ns \in Namespaces, NEW b \in BOOLEAN,
               binding' = [binding EXCEPT ![ns] = b]
        PROVE  Protocol!Next
    <3>1. binding' = [binding EXCEPT ![ns] = TRUE] \/ binding' = [binding EXCEPT ![ns] = FALSE]
      BY <2>2
    <3> QED
      BY <1>2, <3>1 DEF Protocol!Next, Protocol!Bind, Protocol!Unbind, PhaseMap
  <2> QED BY <2>1, <2>2
<1> QED BY <1>1, <1>3

\* Every step is a step of the protocol or leaves its variables unchanged.
LEMMA RefineStep ==
  ASSUME UnboundInv, [Next]_vars
  PROVE  HoldMeansDeleting' /\ [Protocol!Next]_<<PhaseMap, binding>>
<1> DEFINE Goal == HoldMeansDeleting' /\ [Protocol!Next]_<<PhaseMap, binding>>
           Rebinds == \/ binding' = binding
                      \/ \E ns \in Namespaces, b \in BOOLEAN :
                           binding' = [binding EXCEPT ![ns] = b]
<1>1. pc # "idle" => req \in Keys /\ req.ns \in Namespaces
  BY DEF UnboundInv, TypeOK, Keys
<1>2. CASE UNCHANGED vars
  BY <1>2, RefineOther DEF vars, api
<1>3. ASSUME NEW k \in Keys, Reconcile(k) PROVE Goal
  BY <1>3, RefineOther DEF Reconcile, api
<1>4. CASE WorkerStep
  <2>1. CASE ReconcileServiceAccount
    BY <2>1, RefineOther DEF ReconcileServiceAccount
  <2>2. CASE ReconcileClusterRole
    BY <2>2, RefineOther DEF ReconcileClusterRole
  <2>3. CASE ReconcileClusterRoleBinding
    <3>1. Rebinds /\ backup' = backup
      BY <1>1, <2>3 DEF ReconcileClusterRoleBinding
    <3> QED BY <3>1, RefineOther
  <2>4. CASE ReconcileCronJob
    BY <2>4, RefineOther DEF ReconcileCronJob
  <2>5. CASE AddFinalizer
    BY <2>5, RefineAddFinalizer, RefineOther DEF AddFinalizer
  <2>6. CASE FinalizerSettled
    BY <2>6, RefineOther DEF FinalizerSettled, api
  <2>7. CASE DeleteExternalResources
    <3>1. Rebinds /\ backup' = backup
      BY <1>1, <2>7 DEF DeleteExternalResources
    <3> QED BY <3>1, RefineOther
  <2>8. CASE RemoveFinalizer
    BY <2>8, RefineRemoveFinalizer, RefineOther DEF RemoveFinalizer
  <2> QED
    BY <1>4, <2>1, <2>2, <2>3, <2>4, <2>5, <2>6, <2>7, <2>8 DEF WorkerStep
<1>5. CASE APIError
  BY <1>5, RefineOther DEF APIError, api
<1>6. CASE ClusterStep
  <2>1. ASSUME ~\E k \in Keys : ReleaseForeground(k)
        PROVE  backup' = backup /\ binding' = binding
    BY <1>6, <2>1
       DEF ClusterStep, SyncBackup, SyncServiceAccount, SyncClusterRole,
           SyncClusterRoleBinding, SyncCronJob, CollectServiceAccount,
           CollectCronJob, api
  <2> QED BY <2>1, RefineReleaseForeground, RefineOther
<1>7. CASE UserStep
  <2>1. ASSUME NEW kind \in Kinds, Tamper(kind) PROVE Goal
    <3>1. Rebinds /\ backup' = backup
      BY <2>1 DEF Tamper
    <3> QED BY <3>1, RefineOther
  <2> QED BY <1>7, <2>1, RefineCreate, RefineEdit, RefineDelete DEF UserStep
<1>8. CASE Restart
  BY <1>8, RefineOther DEF Restart, api
<1> QED BY <1>2, <1>3, <1>4, <1>5, <1>6, <1>7, <1>8 DEF Next

\* Only the worker itself binds a namespace, and it does so in another stage.
LEMMA UnboundStep == UnboundInv /\ [Next]_vars => UnboundInv'
<1> SUFFICES ASSUME UnboundInv, [Next]_vars PROVE UnboundInv'
  OBVIOUS
<1> DEFINE Unbound == pc = "removeFinalizer" =>
                        obj.deleting /\ obj.fin /\ ~binding[req.ns]
<1>1. TypeOK' /\ HoldMeansDeleting'
  BY TypeStep, RefineStep DEF UnboundInv
<1>2. ASSUME UNCHANGED <<pc, req, obj, binding>> PROVE Unbound'
  BY <1>2 DEF UnboundInv
<1>3. ASSUME DeleteExternalResources PROVE Unbound'
  <2>1. req \in Keys /\ req.ns \in Namespaces
    BY <1>3 DEF DeleteExternalResources, UnboundInv, TypeOK, Keys
  <2> QED
    BY <1>3, <2>1
       DEF DeleteExternalResources, Proceed, Goto, Return, UnboundInv, TypeOK
<1>4. ASSUME WorkerStep /\ ~DeleteExternalResources PROVE Unbound'
  <2>1. pc' # "removeFinalizer"
    BY <1>4
       DEF WorkerStep, ReconcileServiceAccount, ReconcileClusterRole,
           ReconcileClusterRoleBinding, ReconcileCronJob, AddFinalizer,
           FinalizerSettled, RemoveFinalizer, Proceed, Complete, Goto, Return
  <2> QED BY <2>1
<1>5. ASSUME APIError PROVE Unbound'
  BY <1>5 DEF APIError, ErrorIgnored, Goto, Return
<1>6. ASSUME NEW k \in Keys, Reconcile(k) PROVE Unbound'
  BY <1>6 DEF Reconcile, worker
<1>7. ASSUME ClusterStep PROVE Unbound'
  BY <1>2, <1>7
     DEF ClusterStep, SyncBackup, SyncServiceAccount, SyncClusterRole,
         SyncClusterRoleBinding, SyncCronJob, CollectServiceAccount,
         CollectCronJob, ReleaseForeground, api, worker
<1>8. ASSUME UserStep PROVE Unbound'
  <2>1. ASSUME NEW kind \in Kinds, Tamper(kind) PROVE Unbound'
    <3>1. UNCHANGED <<pc, req, obj>>
      BY <2>1 DEF Tamper, worker
    <3>2. /\ \A ns \in Namespaces : binding'[ns] => binding[ns]
          /\ pc # "idle" => req.ns \in Namespaces
      BY <2>1 DEF Tamper, UnboundInv, TypeOK, Keys
    <3> QED BY <3>1, <3>2 DEF UnboundInv
  <2> QED
    BY <1>2, <1>8, <2>1
       DEF UserStep, CreateBackup, EditBackup, DeleteBackup, worker
<1>9. ASSUME Restart PROVE Unbound'
  BY <1>9 DEF Restart
<1>10. ASSUME UNCHANGED vars PROVE Unbound'
  BY <1>2, <1>10 DEF vars, api, worker
<1>11. Unbound'
  BY <1>3, <1>4, <1>5, <1>6, <1>7, <1>8, <1>9, <1>10 DEF Next
<1> QED BY <1>1, <1>11 DEF UnboundInv

\* The initial states are those of the protocol.
LEMMA RefineInit == Init => Protocol!Init
<1> SUFFICES ASSUME Init PROVE Protocol!Init
  OBVIOUS
<1>1. \A k \in Keys : Phase(backup[k]) = "absent"
  BY PhaseValues DEF Init
<1> QED BY <1>1 DEF Init, Protocol!Init

\* The controller implements the finalizer protocol, whatever users,
\* informers, failures, restarts and the garbage collector do: a registered
\* Backup leaves only after termination and release, and it is released only
\* while its namespace has no ClusterRoleBinding.
THEOREM Refinement == Spec => RefinesFinalizerProtocol
<1>1. UnboundInv /\ [Next]_vars => [Protocol!Next]_<<PhaseMap, binding>>
  BY RefineStep
<1> QED
  BY <1>1, UnboundInit, UnboundStep, RefineInit, PTL
     DEF Spec, RefinesFinalizerProtocol, Protocol!Spec, PhaseMap
=============================================================================
