-------------------------- MODULE BackupReconciler --------------------------
(***************************************************************************)
(* The Backup controller of horus-operator                                 *)
(* (controllers/storage/backup_controller.go), the API server objects it   *)
(* writes, the informer caches it reads, and the work queue between them.  *)
(*                                                                         *)
(* One worker runs Reconcile (controller-runtime's default of one          *)
(* concurrent reconcile).  Every cached Get is a step of its own together  *)
(* with the API call the code makes on its result; between two such steps  *)
(* informers deliver, users create, edit and delete, the garbage collector *)
(* runs, calls fail and the operator restarts.                             *)
(***************************************************************************)
EXTENDS Naturals

CONSTANTS
  Namespaces,    \* namespaces users create Backups in
  Names,         \* names of Backups
  Targets,       \* values of spec.backupFrom.name
  Schedules,     \* values of spec.schedule
  DefaultNS,     \* the namespace "default" the CronJob template is fixed to
  EveryMinute,   \* the schedule the CronJob template is fixed to
  Tamperable,    \* the kinds of managed objects a user deletes by hand
  Limit,         \* how often each disturbance may happen
  Nil            \* an absent object or reference

Disturbances == {"create", "edit", "foreground", "tamper", "fault", "restart"}
Kinds == {"serviceAccount", "clusterRole", "binding", "cronJob"}

Keys == [ns: Namespaces, name: Names]

BackupSpec == [target: Targets, schedule: Schedules]

\* A Backup.  Every write changes uid, gen, fin or hold and none of them ever
\* returns to an earlier value, so two copies are equal exactly when their
\* resourceVersions are.  "fin" is the operator's own finalizer, "hold" the
\* foregroundDeletion finalizer of the garbage collector.
BackupObject == [uid: Nat, gen: Nat, spec: BackupSpec,
                 deleting: BOOLEAN, fin: BOOLEAN, hold: BOOLEAN]

OwnerRef == [name: Names, uid: Nat]

CronJobObject == [owner: OwnerRef \cup {Nil}, ns: Namespaces, arg: Targets,
                  schedule: Schedules \cup {EveryMinute}]

ASSUME DefaultNSAssumption == DefaultNS \in Namespaces
ASSUME LimitAssumption == Limit \in [Disturbances -> Nat]
ASSUME TamperableAssumption == Tamperable \subseteq Kinds
ASSUME NilAssumption ==
  /\ Nil \notin Keys
  /\ Nil \notin BackupObject
  /\ Nil \notin OwnerRef
  /\ Nil \notin CronJobObject

VARIABLES
  backup, serviceAccount, clusterRole, binding, cronJob,
                 \* the objects in the API server; a ServiceAccount is
                 \* represented by its controller reference, a ClusterRole
                 \* and a ClusterRoleBinding (which have none) by its presence
  backupCache, saCache, roleCache, bindingCache, cronJobCache,
                 \* the manager's informer caches of the same objects
  queue,         \* the controller's work queue
  pc, req, obj,  \* the worker: its stage, its request, its copy of the Backup
  spent          \* how often each disturbance has happened

api == <<backup, serviceAccount, clusterRole, binding, cronJob>>
caches == <<backupCache, saCache, roleCache, bindingCache, cronJobCache>>
worker == <<pc, req, obj>>
vars == <<api, caches, queue, worker, spent>>

Stages == {"serviceAccount", "clusterRole", "binding", "cronJob",
           "finalizer", "removeFinalizer"}

-----------------------------------------------------------------------------
(* The objects the controller constructs for a Backup.                     *)

\* SetControllerReference refuses an owner in another namespace, and the code
\* ignores that error: the object then has no controller.
ControllerRef(k, o, ns) ==
  IF k.ns = ns THEN [name |-> k.name, uid |-> o.uid] ELSE Nil

serviceAccountForBackup(k, o) == ControllerRef(k, o, k.ns)

\* The key the CronJob template gives the object: the Backup's name, but
\* always the namespace "default".
CronJobKey(k) == [ns |-> DefaultNS, name |-> k.name]

\* Mutant of cronJobForBackup: the controller reference is forgotten.
cronJobWithoutOwner(k, o) ==
  [owner |-> Nil, ns |-> k.ns, arg |-> o.spec.target, schedule |-> EveryMinute]

cronJobForBackup(k, o) ==
  [owner |-> ControllerRef(k, o, DefaultNS), ns |-> k.ns,
   arg |-> o.spec.target, schedule |-> EveryMinute]

-----------------------------------------------------------------------------
(* The worker's control flow.                                              *)

Goto(stage) == pc' = stage /\ UNCHANGED <<req, obj, queue>>

\* Mutant of Return: the request is put back after it was cleared.
ReturnClearsFirst(requeue) ==
  /\ pc' = "idle" /\ req' = Nil /\ obj' = Nil
  /\ queue' = IF requeue THEN queue \cup {req'} ELSE queue

\* Reconcile returns; an error or Requeue: true puts the request back.
Return(requeue) ==
  /\ pc' = "idle" /\ req' = Nil /\ obj' = Nil
  /\ queue' = IF requeue THEN queue \cup {req} ELSE queue

Spend(d) ==
  /\ spent[d] < Limit[d]
  /\ spent' = [spent EXCEPT ![d] = @ + 1]

\* The API server carried the call out.  The client is told so and goes on, or
\* has no more to do; or the reply is lost and the code sees an error, which it
\* returns.
Proceed(stage) ==
  \/ Goto(stage) /\ UNCHANGED spent
  \/ Return(TRUE) /\ Spend("fault")

Complete ==
  \/ Return(FALSE) /\ UNCHANGED spent
  \/ Return(TRUE) /\ Spend("fault")

\* The worker takes a request and reads the Backup from the cache; a Backup
\* that is not found ends the reconcile.
Reconcile(k) ==
  /\ pc = "idle" /\ k \in queue
  /\ queue' = queue \ {k}
  /\ IF backupCache[k] = Nil
       THEN UNCHANGED worker
       ELSE pc' = "serviceAccount" /\ req' = k /\ obj' = backupCache[k]
  /\ UNCHANGED <<api, caches, spent>>

\* Not cached: Create, which succeeds or fails with AlreadyExists; both
\* requeue.  Cached: Update replaces the owner; its error is never looked at,
\* so an object that is gone already does not stop the reconcile.
ReconcileServiceAccount ==
  LET sa == serviceAccountForBackup(req, obj) IN
  /\ pc = "serviceAccount"
  /\ IF saCache[req.ns] = Nil
       THEN /\ serviceAccount' = IF serviceAccount[req.ns] = Nil
                                   THEN [serviceAccount EXCEPT ![req.ns] = sa]
                                   ELSE serviceAccount
            /\ Return(TRUE)
       ELSE /\ serviceAccount' = IF serviceAccount[req.ns] # Nil
                                   THEN [serviceAccount EXCEPT ![req.ns] = sa]
                                   ELSE serviceAccount
            /\ Goto("clusterRole")
  /\ UNCHANGED <<backup, clusterRole, binding, cronJob, caches, spent>>

\* Mutant of ReconcileClusterRole: Create returns without Requeue.
ClusterRoleNotRequeued ==
  /\ pc = "clusterRole"
  /\ clusterRole' = TRUE
  /\ IF ~roleCache THEN Return(FALSE) ELSE Goto("binding")
  /\ UNCHANGED <<backup, serviceAccount, binding, cronJob, caches, spent>>

\* Mutant of ReconcileClusterRole: it is created along with its first use only.
ClusterRoleOnlyAtFirst ==
  /\ pc = "clusterRole"
  /\ IF ~roleCache /\ ~obj.fin
       THEN clusterRole' = TRUE /\ Return(TRUE)
       ELSE UNCHANGED clusterRole /\ Goto("binding")
  /\ UNCHANGED <<backup, serviceAccount, binding, cronJob, caches, spent>>

\* Not cached: Create, which requeues.  Cached: Update, whose error is never
\* looked at.  The API server creates an RBAC object that an Update without a
\* resourceVersion does not find, so either call leaves it in place.
ReconcileClusterRole ==
  /\ pc = "clusterRole"
  /\ clusterRole' = TRUE
  /\ IF ~roleCache THEN Return(TRUE) ELSE Goto("binding")
  /\ UNCHANGED <<backup, serviceAccount, binding, cronJob, caches, spent>>

\* Mutant of ReconcileClusterRoleBinding: the result of Create is not waited
\* for, and a failed one not noticed.
BindingErrorDropped ==
  /\ pc = "binding"
  /\ \/ binding' = [binding EXCEPT ![req.ns] = TRUE]
     \/ UNCHANGED binding
  /\ Goto("cronJob")
  /\ UNCHANGED <<backup, serviceAccount, clusterRole, cronJob, caches, spent>>

\* Mutant of ReconcileClusterRoleBinding: what follows is left to the event of
\* the new binding, which has no owner.
BindingNotRequeued ==
  /\ pc = "binding"
  /\ binding' = [binding EXCEPT ![req.ns] = TRUE]
  /\ IF ~bindingCache[req.ns] THEN Return(FALSE) ELSE Goto("cronJob")
  /\ UNCHANGED <<backup, serviceAccount, clusterRole, cronJob, caches, spent>>

ReconcileClusterRoleBinding ==
  /\ pc = "binding"
  /\ binding' = [binding EXCEPT ![req.ns] = TRUE]
  /\ IF ~bindingCache[req.ns] THEN Return(TRUE) ELSE Goto("cronJob")
  /\ UNCHANGED <<backup, serviceAccount, clusterRole, cronJob, caches, spent>>

\* The cache is asked for the CronJob in the Backup's own namespace, the
\* object written is the one the template names.  Unlike the three stages
\* above, an error of Update is returned.
ReconcileCronJob ==
  LET at == CronJobKey(req)
      written == [cronJob EXCEPT ![at] = cronJobForBackup(req, obj)] IN
  /\ pc = "cronJob"
  /\ IF cronJobCache[req] = Nil
       THEN /\ cronJob' = IF cronJob[at] = Nil THEN written ELSE cronJob
            /\ Return(TRUE) /\ UNCHANGED spent
       ELSE IF cronJob[at] = Nil
       THEN UNCHANGED <<cronJob, spent>> /\ Return(TRUE)
       ELSE cronJob' = written /\ Proceed("finalizer")
  /\ UNCHANGED <<backup, serviceAccount, clusterRole, binding, caches>>

\* Mutant of AddFinalizer: an Update that does not compare resourceVersions.
AddFinalizerUnconditionally ==
  /\ pc = "finalizer" /\ ~obj.deleting /\ ~obj.fin
  /\ IF backup[req] # Nil
       THEN /\ backup' = [backup EXCEPT ![req].fin = TRUE]
            /\ Return(FALSE)
       ELSE UNCHANGED backup /\ Return(TRUE)
  /\ UNCHANGED <<serviceAccount, clusterRole, binding, cronJob, caches, spent>>

\* handleFinalizer on a Backup that is not being deleted: register the
\* finalizer with an Update that carries obj's resourceVersion.
AddFinalizer ==
  /\ pc = "finalizer" /\ ~obj.deleting /\ ~obj.fin
  /\ IF backup[req] = obj
       THEN backup' = [backup EXCEPT ![req].fin = TRUE] /\ Complete
       ELSE UNCHANGED <<backup, spent>> /\ Return(TRUE)
  /\ UNCHANGED <<serviceAccount, clusterRole, binding, cronJob, caches>>

\* Mutant of FinalizerSettled: Reconcile always ends with Requeue: true.
SettledButRequeued ==
  /\ pc = "finalizer" /\ obj.deleting # obj.fin
  /\ Return(TRUE)
  /\ UNCHANGED <<api, caches, spent>>

\* handleFinalizer has nothing to do: registered, or already released.
FinalizerSettled ==
  /\ pc = "finalizer" /\ obj.deleting # obj.fin
  /\ Return(FALSE)
  /\ UNCHANGED <<api, caches, spent>>

\* Mutant of DeleteExternalResources: the error of Delete is dropped, as the
\* errors of the Updates are.
DeleteErrorDropped ==
  /\ pc = "finalizer" /\ obj.deleting /\ obj.fin
  /\ \/ UNCHANGED spent /\ binding' = [binding EXCEPT ![req.ns] = FALSE]
     \/ Spend("fault") /\ UNCHANGED binding
  /\ Goto("removeFinalizer")
  /\ UNCHANGED <<backup, serviceAccount, clusterRole, cronJob, caches>>

\* Mutant of DeleteExternalResources: NotFound ends the reconcile quietly.
DeleteGivesUp ==
  /\ pc = "finalizer" /\ obj.deleting /\ obj.fin
  /\ IF binding[req.ns]
       THEN /\ binding' = [binding EXCEPT ![req.ns] = FALSE]
            /\ Proceed("removeFinalizer")
       ELSE UNCHANGED <<binding, spent>> /\ Return(FALSE)
  /\ UNCHANGED <<backup, serviceAccount, clusterRole, cronJob, caches>>

\* deleteExternalResources: delete the namespace's ClusterRoleBinding with a
\* client that does not read the cache; NotFound is an error like any other.
DeleteExternalResources ==
  /\ pc = "finalizer" /\ obj.deleting /\ obj.fin
  /\ IF binding[req.ns]
       THEN /\ binding' = [binding EXCEPT ![req.ns] = FALSE]
            /\ Proceed("removeFinalizer")
       ELSE UNCHANGED <<binding, spent>> /\ Return(TRUE)
  /\ UNCHANGED <<backup, serviceAccount, clusterRole, cronJob, caches>>

\* The Update that removes the finalizer.  A Backup in deletion disappears
\* with its last finalizer.
RemoveFinalizer ==
  /\ pc = "removeFinalizer"
  /\ IF backup[req] = obj
       THEN /\ backup' = IF obj.hold THEN [backup EXCEPT ![req].fin = FALSE]
                                     ELSE [backup EXCEPT ![req] = Nil]
            /\ Complete
       ELSE UNCHANGED <<backup, spent>> /\ Return(TRUE)
  /\ UNCHANGED <<serviceAccount, clusterRole, binding, cronJob, caches>>

\* The three Updates whose error the code drops: "if r.Update(...); err != nil"
\* tests the err of the Get above it.
ErrorIgnored ==
  \/ pc = "serviceAccount" /\ saCache[req.ns] # Nil
  \/ pc = "clusterRole" /\ roleCache
  \/ pc = "binding" /\ bindingCache[req.ns]

\* The worker's next API call fails and changes nothing.
APIError ==
  /\ pc # "idle" /\ ~(pc = "finalizer" /\ obj.deleting # obj.fin)
  /\ Spend("fault")
  /\ IF ErrorIgnored
       THEN Goto(CASE pc = "serviceAccount" -> "clusterRole"
                   [] pc = "clusterRole" -> "binding"
                   [] pc = "binding" -> "cronJob")
       ELSE Return(TRUE)
  /\ UNCHANGED <<api, caches>>

-----------------------------------------------------------------------------
(* Informers: a cached object catches up with the API server, and the      *)
(* event passes the Or of the four predicates of SetupWithManager: every   *)
(* create and every delete, and an update that changes the generation.     *)

OwnerKeys(ns, refs) == {[ns |-> ns, name |-> r.name] : r \in refs \ {Nil}}

\* Mutant of SyncBackup: the predicates drop every update of a Backup.
SyncBackupDropsUpdates(k) ==
  /\ backupCache[k] # backup[k]
  /\ backupCache' = [backupCache EXCEPT ![k] = backup[k]]
  /\ queue' = IF Nil \in {backup[k], backupCache[k]}
                THEN queue \cup {k} ELSE queue
  /\ UNCHANGED <<api, saCache, roleCache, bindingCache, cronJobCache,
                 worker, spent>>

\* A relist may hide that a Backup was deleted and created again; the predicate
\* compares the generations only.
SyncBackup(k) ==
  /\ backupCache[k] # backup[k]
  /\ backupCache' = [backupCache EXCEPT ![k] = backup[k]]
  /\ queue' = IF /\ Nil \notin {backup[k], backupCache[k]}
                 /\ backup[k].gen = backupCache[k].gen
                THEN queue ELSE queue \cup {k}
  /\ UNCHANGED <<api, saCache, roleCache, bindingCache, cronJobCache,
                 worker, spent>>

\* Mutant of SyncServiceAccount: the predicates drop deletions.
SyncServiceAccountDropsDeletes(ns) ==
  /\ saCache[ns] # serviceAccount[ns]
  /\ saCache' = [saCache EXCEPT ![ns] = serviceAccount[ns]]
  /\ queue' = IF saCache[ns] = Nil
                THEN queue \cup OwnerKeys(ns, {serviceAccount[ns]})
                ELSE queue
  /\ UNCHANGED <<api, backupCache, roleCache, bindingCache, cronJobCache,
                 worker, spent>>

\* A ServiceAccount has no generation: its updates are all filtered out.
SyncServiceAccount(ns) ==
  /\ saCache[ns] # serviceAccount[ns]
  /\ saCache' = [saCache EXCEPT ![ns] = serviceAccount[ns]]
  /\ queue' = IF Nil \in {saCache[ns], serviceAccount[ns]}
                THEN queue \cup OwnerKeys(ns, {saCache[ns], serviceAccount[ns]})
                ELSE queue
  /\ UNCHANGED <<api, backupCache, roleCache, bindingCache, cronJobCache,
                 worker, spent>>

\* A ClusterRole and a ClusterRoleBinding have no owner to enqueue.
SyncClusterRole ==
  /\ roleCache # clusterRole
  /\ roleCache' = clusterRole
  /\ UNCHANGED <<api, backupCache, saCache, bindingCache, cronJobCache,
                 queue, worker, spent>>

SyncClusterRoleBinding(ns) ==
  /\ bindingCache[ns] # binding[ns]
  /\ bindingCache' = [bindingCache EXCEPT ![ns] = binding[ns]]
  /\ UNCHANGED <<api, backupCache, saCache, roleCache, cronJobCache,
                 queue, worker, spent>>

\* A change of the owner alone leaves a CronJob's generation as it is.
SyncCronJob(k) ==
  LET old == cronJobCache[k]
      new == cronJob[k]
      owners == {c.owner : c \in {old, new} \ {Nil}} IN
  /\ old # new
  /\ cronJobCache' = [cronJobCache EXCEPT ![k] = new]
  /\ queue' = IF Nil \notin {old, new} /\ [old EXCEPT !.owner = new.owner] = new
                THEN queue ELSE queue \cup OwnerKeys(k.ns, owners)
  /\ UNCHANGED <<api, backupCache, saCache, roleCache, bindingCache,
                 worker, spent>>

-----------------------------------------------------------------------------
(* Users.                                                                  *)

CreateBackup(k, spec) ==
  /\ backup[k] = Nil
  /\ Spend("create")
  /\ backup' = [backup EXCEPT ![k] =
                  [uid |-> spent.create + 1, gen |-> 1, spec |-> spec,
                   deleting |-> FALSE, fin |-> FALSE, hold |-> FALSE]]
  /\ UNCHANGED <<serviceAccount, clusterRole, binding, cronJob, caches, queue,
                 worker>>

EditBackup(k, spec) ==
  /\ backup[k] # Nil /\ backup[k].spec # spec
  /\ Spend("edit")
  /\ backup' = [backup EXCEPT
       ![k] = [backup[k] EXCEPT !.spec = spec, !.gen = @ + 1]]
  /\ UNCHANGED <<serviceAccount, clusterRole, binding, cronJob, caches, queue,
                 worker>>

\* Deletion waits for the finalizers; setting the deletion timestamp changes
\* the generation.
DeleteBackup(k, foreground) ==
  /\ backup[k] # Nil /\ ~backup[k].deleting
  /\ IF foreground THEN Spend("foreground") ELSE UNCHANGED spent
  /\ backup' = IF foreground \/ backup[k].fin
                 THEN [backup EXCEPT ![k] = [backup[k] EXCEPT
                         !.deleting = TRUE, !.gen = @ + 1, !.hold = foreground]]
                 ELSE [backup EXCEPT ![k] = Nil]
  /\ UNCHANGED <<serviceAccount, clusterRole, binding, cronJob, caches, queue,
                 worker>>

\* Somebody deletes an object the controller manages.
Tamper(kind) ==
  /\ kind \in Tamperable /\ Spend("tamper")
  /\ \/ /\ kind = "serviceAccount"
        /\ \E ns \in Namespaces :
             /\ serviceAccount[ns] # Nil
             /\ serviceAccount' = [serviceAccount EXCEPT ![ns] = Nil]
        /\ UNCHANGED <<clusterRole, binding, cronJob>>
     \/ /\ kind = "clusterRole" /\ clusterRole
        /\ clusterRole' = FALSE
        /\ UNCHANGED <<serviceAccount, binding, cronJob>>
     \/ /\ kind = "binding"
        /\ \E ns \in Namespaces :
             binding[ns] /\ binding' = [binding EXCEPT ![ns] = FALSE]
        /\ UNCHANGED <<serviceAccount, clusterRole, cronJob>>
     \/ /\ kind = "cronJob"
        /\ \E k \in Keys :
             cronJob[k] # Nil /\ cronJob' = [cronJob EXCEPT ![k] = Nil]
        /\ UNCHANGED <<serviceAccount, clusterRole, binding>>
  /\ UNCHANGED <<backup, caches, queue, worker>>

-----------------------------------------------------------------------------
(* The Kubernetes garbage collector and the operator's process.            *)

\* The owner that a reference in namespace ns names is gone, or waits in a
\* foreground deletion for its dependents to go.
Collectable(ns, ref) ==
  /\ ref # Nil
  /\ LET owner == backup[[ns |-> ns, name |-> ref.name]] IN
       ~(owner # Nil /\ owner.uid = ref.uid /\ ~owner.hold)

CollectServiceAccount(ns) ==
  /\ Collectable(ns, serviceAccount[ns])
  /\ serviceAccount' = [serviceAccount EXCEPT ![ns] = Nil]
  /\ UNCHANGED <<backup, clusterRole, binding, cronJob, caches, queue, worker,
                 spent>>

CollectCronJob(k) ==
  /\ cronJob[k] # Nil /\ Collectable(k.ns, cronJob[k].owner)
  /\ cronJob' = [cronJob EXCEPT ![k] = Nil]
  /\ UNCHANGED <<backup, serviceAccount, clusterRole, binding, caches, queue,
                 worker, spent>>

\* A foreground deletion ends once no dependent is left.
ReleaseForeground(k) ==
  LET ref == [name |-> k.name, uid |-> backup[k].uid] IN
  /\ backup[k] # Nil /\ backup[k].hold
  /\ serviceAccount[k.ns] # ref
  /\ cronJob[k] # Nil => cronJob[k].owner # ref
  /\ backup' = IF backup[k].fin THEN [backup EXCEPT ![k].hold = FALSE]
                                ELSE [backup EXCEPT ![k] = Nil]
  /\ UNCHANGED <<serviceAccount, clusterRole, binding, cronJob, caches, queue,
                 worker, spent>>

\* The Backups that the create events of a freshly listed cache enqueue.
ServiceAccountOwners ==
  UNION {OwnerKeys(ns, {serviceAccount[ns]}) : ns \in Namespaces}

CronJobOwners ==
  UNION {OwnerKeys(k.ns, {c.owner : c \in {cronJob[k]} \ {Nil}}) : k \in Keys}

\* The operator stops and starts again: fresh caches, and a create event for
\* every object in them.
Restart ==
  /\ Spend("restart")
  /\ pc' = "idle" /\ req' = Nil /\ obj' = Nil
  /\ backupCache' = backup /\ saCache' = serviceAccount
  /\ roleCache' = clusterRole /\ bindingCache' = binding
  /\ cronJobCache' = cronJob
  /\ queue' = {k \in Keys : backup[k] # Nil}
              \cup ServiceAccountOwners \cup CronJobOwners
  /\ UNCHANGED api

-----------------------------------------------------------------------------

Init ==
  /\ backup = [k \in Keys |-> Nil] /\ backupCache = backup
  /\ serviceAccount = [ns \in Namespaces |-> Nil] /\ saCache = serviceAccount
  /\ clusterRole = FALSE /\ roleCache = clusterRole
  /\ binding = [ns \in Namespaces |-> FALSE] /\ bindingCache = binding
  /\ cronJob = [k \in Keys |-> Nil] /\ cronJobCache = cronJob
  /\ queue = {}
  /\ pc = "idle" /\ req = Nil /\ obj = Nil
  /\ spent = [d \in Disturbances |-> 0]

WorkerStep ==
  \/ ReconcileServiceAccount
  \/ ReconcileClusterRole
  \/ ReconcileClusterRoleBinding
  \/ ReconcileCronJob
  \/ AddFinalizer
  \/ FinalizerSettled
  \/ DeleteExternalResources
  \/ RemoveFinalizer

UserStep ==
  \/ \E k \in Keys, spec \in BackupSpec : CreateBackup(k, spec)
  \/ \E k \in Keys, spec \in BackupSpec : EditBackup(k, spec)
  \/ \E k \in Keys, foreground \in BOOLEAN : DeleteBackup(k, foreground)
  \/ \E kind \in Kinds : Tamper(kind)

ClusterStep ==
  \/ \E k \in Keys : SyncBackup(k)
  \/ \E ns \in Namespaces : SyncServiceAccount(ns)
  \/ SyncClusterRole
  \/ \E ns \in Namespaces : SyncClusterRoleBinding(ns)
  \/ \E k \in Keys : SyncCronJob(k)
  \/ \E ns \in Namespaces : CollectServiceAccount(ns)
  \/ \E k \in Keys : CollectCronJob(k)
  \/ \E k \in Keys : ReleaseForeground(k)

Next ==
  \/ \E k \in Keys : Reconcile(k)
  \/ WorkerStep
  \/ APIError
  \/ ClusterStep
  \/ UserStep
  \/ Restart

Spec == Init /\ [][Next]_vars

\* The worker keeps running and the work queue is first in, first out, so a
\* request that keeps coming back is served; every informer event is
\* delivered; the garbage collector runs.  Users, faults and restarts promise
\* nothing.
Fairness ==
  /\ WF_vars(WorkerStep)
  /\ \A k \in Keys : SF_vars(Reconcile(k))
  /\ WF_vars(SyncClusterRole)
  /\ \A k \in Keys : /\ WF_vars(SyncBackup(k))
                     /\ WF_vars(SyncCronJob(k))
                     /\ WF_vars(CollectCronJob(k))
                     /\ WF_vars(ReleaseForeground(k))
  /\ \A ns \in Namespaces : /\ WF_vars(SyncServiceAccount(ns))
                            /\ WF_vars(SyncClusterRoleBinding(ns))
                            /\ WF_vars(CollectServiceAccount(ns))

FairSpec == Spec /\ Fairness

-----------------------------------------------------------------------------
(* Properties.                                                             *)

Live(k) == backup[k] # Nil /\ ~backup[k].deleting

Registered(k) == Live(k) /\ backup[k].fin

ServiceAccountOf(k) == serviceAccountForBackup(k, backup[k])

\* Everything the CronJob of Backup k needs is in place and up to date.
Converged(k) ==
  /\ backup[k].fin
  /\ serviceAccount[k.ns] = ServiceAccountOf(k)
  /\ clusterRole /\ binding[k.ns]
  /\ cronJob[k] = cronJobForBackup(k, backup[k])

\* Nothing is left to do for the controller, the informers and the collector.
Quiet ==
  /\ pc = "idle" /\ queue = {}
  /\ caches = api
  /\ \A ns \in Namespaces : ~Collectable(ns, serviceAccount[ns])
  /\ \A k \in Keys : cronJob[k] # Nil => ~Collectable(k.ns, cronJob[k].owner)
  /\ \A k \in Keys : backup[k] # Nil => ~backup[k].hold

\* Type correctness: the objects the controller writes are well formed, and
\* only keys of Backups enter the work queue, whatever event put them there
\* (Reconcile, EnqueueRequestForOwner through SetupWithManager).
TypeOK ==
  /\ backup \in [Keys -> BackupObject \cup {Nil}]
  /\ serviceAccount \in [Namespaces -> OwnerRef \cup {Nil}]
  /\ clusterRole \in BOOLEAN
  /\ binding \in [Namespaces -> BOOLEAN]
  /\ cronJob \in [Keys -> CronJobObject \cup {Nil}]
  /\ backupCache \in [Keys -> BackupObject \cup {Nil}]
  /\ saCache \in [Namespaces -> OwnerRef \cup {Nil}]
  /\ roleCache \in BOOLEAN
  /\ bindingCache \in [Namespaces -> BOOLEAN]
  /\ cronJobCache \in [Keys -> CronJobObject \cup {Nil}]
  /\ queue \subseteq Keys
  /\ pc \in Stages \cup {"idle"}
  /\ IF pc = "idle" THEN req = Nil /\ obj = Nil
                    ELSE req \in Keys /\ obj \in BackupObject
  /\ spent \in [Disturbances -> Nat]

\* Where a Backup is in the finalizer protocol.
Phase(b) ==
  CASE b = Nil -> "absent"
    [] b # Nil /\ ~b.deleting -> IF b.fin THEN "registered" ELSE "fresh"
    [] b # Nil /\ b.deleting -> IF b.fin THEN "terminating" ELSE "lingering"

Protocol == INSTANCE FinalizerProtocol
              WITH phase <- [k \in Keys |-> Phase(backup[k])], bound <- binding

\* The controller keeps the promise of FinalizerProtocol: a Backup carries
\* the finalizer exactly from its registration to its release, and the
\* finalizer goes only while the ClusterRoleBinding is absent, although
\* deleting the one and removing the other are two calls of handleFinalizer
\* with an arbitrary delay, conflicts and failures between them.
RefinesFinalizerProtocol == Protocol!Spec

\* A Backup that carries the operator's finalizer and is not being deleted
\* has a CronJob that this very incarnation of the Backup owns: handleFinalizer
\* comes after the CronJob stage, and no reconcile that works on a stale copy
\* of an earlier Backup of the same name takes the CronJob over afterwards,
\* nor does the garbage collector remove it.
RegisteredOwnsCronJob ==
  \A k \in Keys : Registered(k) =>
    /\ cronJob[k] # Nil
    /\ cronJob[k].owner = [name |-> k.name, uid |-> backup[k].uid]

\* When the controller has come to rest every Backup of the default namespace
\* is fully set up and no deletion is left hanging: no event that the
\* predicates drop, no conflict, lost reply, ignored error or restart leaves
\* Reconcile believing it is done.
IdleMeansConverged ==
  Quiet => \A k \in Keys : backup[k] # Nil => Live(k) /\ Converged(k)

\* When everything is at rest, a ServiceAccount and a CronJob exist only for a
\* Backup that exists: a reconcile working on a stale copy of a deleted Backup
\* may create them again, and their owner reference then has them collected.
NoOrphans ==
  Quiet => /\ \A ns \in Namespaces : serviceAccount[ns] # Nil =>
                \E k \in Keys : k.ns = ns /\ backup[k] # Nil
           /\ \A k \in Keys : cronJob[k] # Nil => backup[k] # Nil

\* Reconcile, which updates the CronJob on every pass and is triggered by
\* changes of that CronJob, does not keep itself busy for ever.
Quiesces == <>[]Quiet

\* A ClusterRole that was deleted comes back with the next request for a live
\* Backup, whatever stage the Backup is in: its deletion enqueues nothing
\* itself (EnqueueRequestForOwner finds no owner), so any request has to do,
\* also one that fails on the way.
RoleRecreated ==
  \A k \in Keys :
    (Live(k) /\ k \in queue /\ ~clusterRole /\ ~roleCache)
      ~> (clusterRole \/ ~Live(k))

\* A Backup of the default namespace gets its finalizer unless it is deleted.
RegistersEventually ==
  \A k \in Keys : Live(k) ~> (Registered(k) \/ ~Live(k))

\* A Backup whose deletion was requested goes away, although the
\* ClusterRoleBinding that deleteExternalResources insists on finding may be
\* gone.  If a sibling in the namespace, or a call whose reply was lost, has
\* deleted it, each request that misses it in the cache creates it and starts
\* over, with no event of the binding to help; if a user deletes it just before,
\* the deletion fails and starts over.
DeletionCompletes ==
  \A k \in Keys : []<>(backup[k] = Nil \/ Live(k))

=============================================================================
