-------------------------- MODULE BackupRestProofs --------------------------
(* What the Backup controller has achieved when it comes to rest, for any  *)
(* number of edits, deletions by hand, failing calls, lost replies and     *)
(* restarts.                                                               *)
EXTENDS BackupReconcilerProofs

\* There is one Backup at most: no sibling shares its namespace, and the
\* namespace is the one that the CronJob template is fixed to.
OneBackup == \A k, l \in Keys : k = l

\* The key of an owner reference in the one namespace is the one key.
LEMMA OneKey ==
  ASSUME OneBackup, NEW k \in Keys
  PROVE  /\ k.ns = DefaultNS
         /\ \A ns \in Namespaces : ns = k.ns
         /\ \A n \in Names : [ns |-> k.ns, name |-> n] = k /\ n = k.name
         /\ CronJobKey(k) = k
         /\ \A o : ControllerRef(k, o, DefaultNS) = [name |-> k.name, uid |-> o.uid]
<1>1. k.ns \in Namespaces /\ k.name \in Names
  BY DEF Keys
<1>2. ASSUME NEW ns \in Namespaces, NEW n \in Names
      PROVE  [ns |-> ns, name |-> n] = k /\ ns = k.ns /\ n = k.name
  <2>1. [ns |-> ns, name |-> n] \in Keys
    BY DEF Keys
  <2>2. [ns |-> ns, name |-> n] = k
    BY <2>1 DEF OneBackup
  <2> QED BY <2>2
<1>3. k.ns = DefaultNS
  BY <1>1, <1>2, DefaultNSAssumption
<1>4. CronJobKey(k) = k
  BY <1>1, <1>2, DefaultNSAssumption DEF CronJobKey
<1> QED BY <1>1, <1>2, <1>3, <1>4 DEF ControllerRef

-----------------------------------------------------------------------------
(* At rest nothing is orphaned.                                            *)

\* A CronJob has an owner, the Backup of its own name, and the content the
\* template gives it.
OwnedInv ==
  \A k \in Keys :
    /\ cronJob[k] # Nil =>
         /\ cronJob[k].owner # Nil /\ cronJob[k].owner.name = k.name
         /\ cronJob[k].schedule = EveryMinute /\ cronJob[k].ns = k.ns
    /\ cronJobCache[k] # Nil => cronJobCache[k].owner # Nil

\* No CronJob exists in the beginning.
LEMMA OwnedInit == Init => OwnedInv
BY DEF Init, OwnedInv

\* The template keeps to it if all Backups are in the namespace it is fixed to.
LEMMA OwnedStep ==
  ASSUME Namespaces = {DefaultNS}, TypeOK, OwnedInv, [Next]_vars
  PROVE  OwnedInv'
<1> USE NilAssumption
<1>1. ASSUME UNCHANGED <<cronJob, cronJobCache>> PROVE OwnedInv'
  BY <1>1 DEF OwnedInv
<1>2. ASSUME NEW l \in Keys, cronJob' = [cronJob EXCEPT ![l] = Nil],
             UNCHANGED cronJobCache
      PROVE  OwnedInv'
  BY <1>2 DEF OwnedInv, TypeOK
<1>3. CASE ReconcileCronJob
  <2> DEFINE cj == cronJobForBackup(req, obj)
             at == CronJobKey(req)
  <2>1. req \in Keys /\ obj \in BackupObject /\ at \in Keys /\ cj \in CronJobObject
    BY <1>3, CronJobForBackupType DEF ReconcileCronJob, TypeOK
  <2>2. /\ cj.owner = [name |-> at.name, uid |-> obj.uid]
        /\ cj.schedule = EveryMinute /\ cj.ns = at.ns
    BY <2>1 DEF cronJobForBackup, ControllerRef, CronJobKey, Keys
  <2>3. cj.owner # Nil /\ cj.owner.name = at.name
    <3>1. [name |-> at.name, uid |-> obj.uid] \in OwnerRef
      BY <2>1 DEF OwnerRef, Keys, BackupObject
    <3> QED BY <2>2, <3>1
  <2> HIDE DEF cj, at
  <2>4. /\ cronJob' = cronJob \/ cronJob' = [cronJob EXCEPT ![at] = cj]
        /\ UNCHANGED cronJobCache
    BY <1>3 DEF ReconcileCronJob, caches, cj, at
  <2> QED BY <2>1, <2>2, <2>3, <2>4 DEF OwnedInv, TypeOK
<1>4. ASSUME WorkerStep, ~ReconcileCronJob PROVE OwnedInv'
  BY <1>1, <1>4
     DEF WorkerStep, ReconcileServiceAccount, ReconcileClusterRole,
         ReconcileClusterRoleBinding, AddFinalizer, FinalizerSettled,
         DeleteExternalResources, RemoveFinalizer, api, caches
<1>5. ASSUME NEW l \in Keys, SyncCronJob(l) PROVE OwnedInv'
  <2>1. UNCHANGED cronJob /\ cronJobCache' = [cronJobCache EXCEPT ![l] = cronJob[l]]
    BY <1>5 DEF SyncCronJob, api
  <2> QED BY <2>1 DEF OwnedInv, TypeOK
<1>6. CASE ClusterStep
  <2>1. ASSUME NEW l \in Keys, CollectCronJob(l) PROVE OwnedInv'
    BY <1>2, <2>1 DEF CollectCronJob, caches
  <2> QED
    BY <1>1, <1>5, <1>6, <2>1
       DEF ClusterStep, SyncBackup, SyncServiceAccount, SyncClusterRole,
           SyncClusterRoleBinding, CollectServiceAccount, ReleaseForeground,
           api, caches
<1>7. CASE UserStep
  <2>1. ASSUME NEW kind \in Kinds, Tamper(kind) PROVE OwnedInv'
    BY <1>1, <1>2, <2>1 DEF Tamper, caches
  <2> QED
    BY <1>1, <1>7, <2>1
       DEF UserStep, CreateBackup, EditBackup, DeleteBackup, caches
<1>8. CASE Restart
  BY <1>8 DEF Restart, api, OwnedInv
<1>9. ASSUME APIError \/ (\E k \in Keys : Reconcile(k)) \/ UNCHANGED vars
      PROVE  OwnedInv'
  BY <1>1, <1>9 DEF APIError, Reconcile, vars, api, caches
<1> QED BY <1>3, <1>4, <1>6, <1>7, <1>8, <1>9 DEF Next

\* NoOrphans, for any number of Backups of the default namespace: what a
\* reconcile with a stale copy creates again has an owner reference, and what
\* its owner does not keep is collected.  Outside that namespace a CronJob has
\* no owner (the error of SetControllerReference is dropped).
THEOREM RestOrphans ==
  ASSUME Namespaces = {DefaultNS}
  PROVE  Spec => []NoOrphans
<1>1. TypeOK /\ OwnedInv => NoOrphans
  <2> SUFFICES ASSUME TypeOK, OwnedInv, Quiet PROVE NoOrphans
    BY DEF NoOrphans
  <2>1. ASSUME NEW ns \in Namespaces, serviceAccount[ns] # Nil
        PROVE  \E k \in Keys : k.ns = ns /\ backup[k] # Nil
    <3>1. [ns |-> ns, name |-> serviceAccount[ns].name] \in Keys
      BY <2>1 DEF TypeOK, OwnerRef, Keys
    <3> QED BY <2>1, <3>1 DEF Quiet, Collectable
  <2>2. ASSUME NEW k \in Keys, cronJob[k] # Nil PROVE backup[k] # Nil
    <3>1. k = [ns |-> k.ns, name |-> k.name]
      BY DEF Keys
    <3> QED BY <2>2, <3>1 DEF Quiet, Collectable, OwnedInv
  <2> QED BY <2>1, <2>2 DEF NoOrphans
<1>2. TypeOK /\ OwnedInv /\ [Next]_vars => OwnedInv'
  BY OwnedStep
<1> QED
  BY <1>1, <1>2, OwnedInit, TypeCorrect, PTL DEF Spec

-----------------------------------------------------------------------------
(* At rest the Backup is set up.                                           *)

\* Copy o of a Backup is not newer than b.
Older(o, b) ==
  /\ o.uid = b.uid /\ o.gen <= b.gen
  /\ o.gen = b.gen => o.spec = b.spec /\ o.deleting = b.deleting
  /\ o.deleting => b.deleting
  /\ o.fin /\ ~b.deleting => b.fin
  /\ o.deleting /\ b.fin => o.fin

\* The cache and the worker have no copy from the future.
CopiesInv(k) ==
  backup[k] # Nil =>
    /\ backupCache[k] # Nil => Older(backupCache[k], backup[k])
    /\ pc # "idle" => Older(obj, backup[k])

\* Before the first creation there is nothing.
UnbornInv(k) ==
  spent.create = 0 =>
    /\ backup[k] = Nil /\ backupCache[k] = Nil /\ pc = "idle"
    /\ ~binding[k.ns] /\ ~bindingCache[k.ns]

\* A Backup in deletion has a finalizer, and the worker removes the operator's
\* from one that is in deletion only.
DeletionInv(k) ==
  /\ backup[k] # Nil =>
       /\ backup[k].hold => backup[k].deleting
       /\ backup[k].deleting => backup[k].fin \/ backup[k].hold
  /\ pc = "removeFinalizer" => obj.deleting /\ obj.fin

\* The rights a live Backup was granted are not withdrawn.
GrantInv(k) ==
  /\ roleCache => clusterRole
  /\ bindingCache[k.ns] /\ ~binding[k.ns] => ~Live(k)

\* A request for the Backup is queued, or an event that will queue it is on
\* its way.
Due(k) ==
  k \in queue \/ backupCache[k] = Nil \/ backupCache[k].gen # backup[k].gen

ToRole == {"serviceAccount", "clusterRole"}
ToBinding == ToRole \cup {"binding"}
ToCronJob == ToBinding \cup {"cronJob"}

\* Without such a request, the worker is at work on the present generation and
\* still before the stage that sees to whatever is missing.
DueInv(k) ==
  backup[k] # Nil /\ ~Due(k) =>
    /\ pc # "idle" => obj.gen = backup[k].gen
    /\ saCache[k.ns] = Nil => pc = "serviceAccount"
    /\ ~roleCache => pc \in ToRole
    /\ ~bindingCache[k.ns] /\ Live(k) => pc \in ToBinding
    /\ cronJobCache[k] = Nil => pc \in ToCronJob
    /\ cronJob[k] # Nil /\ cronJob[k].arg # backup[k].spec.target =>
         pc \in ToCronJob
    /\ backup[k].deleting = backup[k].fin => pc # "idle"

CoreInv(k) == CopiesInv(k) /\ UnbornInv(k) /\ DeletionInv(k)

RestInv(k) == CoreInv(k) /\ GrantInv(k) /\ DueInv(k)

\* A copy is as old as itself.
LEMMA OlderReflexive ==
  ASSUME NEW o \in BackupObject
  PROVE  Older(o, o)
BY DEF Older, BackupObject

\* What is older than an older copy is older.
LEMMA OlderTransitive ==
  ASSUME NEW o \in BackupObject, NEW p \in BackupObject, NEW q \in BackupObject,
         Older(o, p), Older(p, q)
  PROVE  Older(o, q)
<1>1. o.uid = q.uid /\ o.gen <= q.gen
  BY DEF Older, BackupObject
<1>2. o.gen = q.gen => o.gen = p.gen /\ p.gen = q.gen
  BY DEF Older, BackupObject
<1> QED BY <1>1, <1>2 DEF Older

\* Backup k is left as it was, or it is changed by a write that makes a newer
\* copy of it, or it disappears.
Newer(k) ==
  \/ backup'[k] = Nil
  \/ backup[k] # Nil /\ backup'[k] # Nil /\ Older(backup[k], backup'[k])

\* The copies that the cache and the worker keep stay old copies.
LEMMA CopiesStep ==
  ASSUME NEW k \in Keys, TypeOK, TypeOK', CopiesInv(k), Newer(k),
         backupCache'[k] \in {backupCache[k], backup[k]},
         pc' # "idle" => \/ pc # "idle" /\ obj' = obj
                         \/ obj' = backupCache[k]
  PROVE  CopiesInv(k)'
<1> USE NilAssumption
<1> SUFFICES ASSUME backup'[k] # Nil PROVE CopiesInv(k)'
  BY DEF CopiesInv
<1>1. /\ backup[k] \in BackupObject /\ backup'[k] \in BackupObject
      /\ Older(backup[k], backup'[k])
  BY DEF Newer, TypeOK
<1>2. ASSUME NEW o \in BackupObject, Older(o, backup[k])
      PROVE  Older(o, backup'[k])
  BY <1>1, <1>2, OlderTransitive
<1>3. ASSUME backupCache[k] # Nil
      PROVE  backupCache[k] \in BackupObject /\ Older(backupCache[k], backup[k])
  BY <1>1, <1>3 DEF CopiesInv, TypeOK
<1>4. backupCache'[k] # Nil => Older(backupCache'[k], backup'[k])
  <2>1. CASE backupCache'[k] = backup[k]
    BY <1>1, <2>1
  <2>2. CASE backupCache'[k] = backupCache[k]
    BY <1>2, <1>3, <2>2
  <2> QED BY <2>1, <2>2
<1>5. ASSUME pc' # "idle" PROVE Older(obj', backup'[k])
  <2>1. obj' \in BackupObject
    BY <1>5 DEF TypeOK
  <2>2. CASE pc # "idle" /\ obj' = obj
    BY <1>1, <1>2, <2>1, <2>2 DEF CopiesInv
  <2>3. CASE obj' = backupCache[k]
    BY <1>2, <1>3, <2>1, <2>3
  <2> QED BY <1>5, <2>2, <2>3
<1> QED BY <1>4, <1>5 DEF CopiesInv
\* Every write of a Backup makes a newer copy: the finalizer is added before
\* the deletion and removed after it, and whatever else changes raises the
\* generation.
LEMMA WritesNewer ==
  ASSUME NEW o \in BackupObject, NEW b \in BOOLEAN, NEW spec \in BackupSpec
  PROVE  /\ ~o.deleting => Older(o, [o EXCEPT !.fin = TRUE])
         /\ o.deleting => Older(o, [o EXCEPT !.fin = FALSE])
         /\ Older(o, [o EXCEPT !.hold = b])
         /\ Older(o, [o EXCEPT !.spec = spec, !.gen = @ + 1])
         /\ ~o.deleting =>
              Older(o, [o EXCEPT !.deleting = TRUE, !.gen = @ + 1, !.hold = b])
<1>0. o.gen \in Nat
  BY DEF BackupObject
<1>2. ~o.deleting => Older(o, [o EXCEPT !.fin = TRUE])
  <2> DEFINE p == [o EXCEPT !.fin = TRUE]
  <2>1. /\ p.uid = o.uid /\ p.gen = o.gen /\ p.spec = o.spec
        /\ p.deleting = o.deleting /\ p.fin
    BY DEF BackupObject
  <2> HIDE DEF p
  <2>2. ~o.deleting => Older(o, p)
    BY <1>0, <2>1 DEF Older
  <2> QED BY <2>2 DEF p
<1>3. o.deleting => Older(o, [o EXCEPT !.fin = FALSE])
  <2> DEFINE p == [o EXCEPT !.fin = FALSE]
  <2>1. /\ p.uid = o.uid /\ p.gen = o.gen /\ p.spec = o.spec
        /\ p.deleting = o.deleting /\ ~p.fin
    BY DEF BackupObject
  <2> HIDE DEF p
  <2>2. ASSUME o.deleting PROVE p.deleting
    BY <2>1, <2>2
  <2>3. o.gen <= p.gen
    BY <1>0, <2>1
  <2>4. o.deleting => Older(o, p)
    BY <2>1, <2>2, <2>3, Zenon DEF Older
  <2> QED BY <2>4 DEF p
<1>4. Older(o, [o EXCEPT !.hold = b])
  <2> DEFINE p == [o EXCEPT !.hold = b]
  <2>1. /\ p.uid = o.uid /\ p.gen = o.gen /\ p.spec = o.spec
        /\ p.deleting = o.deleting /\ p.fin = o.fin
    BY DEF BackupObject
  <2> HIDE DEF p
  <2>2. Older(o, p)
    BY <1>0, <2>1 DEF Older
  <2> QED BY <2>2 DEF p
<1>5. Older(o, [o EXCEPT !.spec = spec, !.gen = @ + 1])
  <2> DEFINE p == [o EXCEPT !.spec = spec, !.gen = @ + 1]
  <2>1. p.uid = o.uid /\ p.gen = o.gen + 1 /\ p.deleting = o.deleting /\ p.fin = o.fin
    BY DEF BackupObject
  <2> HIDE DEF p
  <2>2. Older(o, p)
    BY <1>0, <2>1 DEF Older
  <2> QED BY <2>2 DEF p
<1>6. Older(o, [o EXCEPT !.deleting = TRUE, !.gen = @ + 1, !.hold = b])
  <2> DEFINE p == [o EXCEPT !.deleting = TRUE, !.gen = @ + 1, !.hold = b]
  <2>1. p.uid = o.uid /\ p.gen = o.gen + 1 /\ p.deleting /\ (p.fin <=> o.fin)
    BY DEF BackupObject
  <2> HIDE DEF p
  <2>2. o.gen <= p.gen /\ o.gen # p.gen
    BY <1>0, <2>1
  <2>3. Older(o, p)
    BY <2>1, <2>2, Zenon DEF Older
  <2> QED BY <2>3 DEF p
<1> QED BY <1>2, <1>3, <1>4, <1>5, <1>6

\* What the steps of the system do to a Backup.
LEMMA NewerStep ==
  ASSUME OneBackup, NEW k \in Keys, TypeOK, DeletionInv(k), [Next]_vars
  PROVE  Newer(k) \/ \E spec \in BackupSpec : CreateBackup(k, spec)
<1> USE NilAssumption
<1>1. ASSUME UNCHANGED backup PROVE Newer(k)
  BY <1>1, OlderReflexive DEF Newer, TypeOK
<1>2. ASSUME NEW o \in BackupObject, backup[k] = o, NEW p \in BackupObject,
             Older(o, p), backup' = [backup EXCEPT ![k] = p]
      PROVE  Newer(k)
  BY <1>2 DEF Newer, TypeOK
<1>3. ASSUME backup' = [backup EXCEPT ![k] = Nil] PROVE Newer(k)
  BY <1>3 DEF Newer, TypeOK
<1>4. ASSUME pc # "idle" PROVE req = k /\ obj \in BackupObject
  BY <1>4 DEF TypeOK, OneBackup
<1>5. CASE AddFinalizer
  <2>1. pc # "idle"
    BY <1>5 DEF AddFinalizer
  <2>2. \/ UNCHANGED backup
        \/ backup[k] = obj /\ backup' = [backup EXCEPT ![k] = [obj EXCEPT !.fin = TRUE]]
    BY <1>4, <1>5, <2>1 DEF AddFinalizer, TypeOK
  <2>3. [obj EXCEPT !.fin = TRUE] \in BackupObject
    BY <1>4, <2>1, BackupWrites
  <2>4. Older(obj, [obj EXCEPT !.fin = TRUE])
    <3>1. ~obj.deleting
      BY <1>5 DEF AddFinalizer
    <3>2. PICK spec \in BackupSpec : TRUE
      BY <1>4, <2>1 DEF BackupObject
    <3> QED BY <1>4, <2>1, <3>1, <3>2, WritesNewer
  <2> QED BY <1>1, <1>2, <1>4, <2>1, <2>2, <2>3, <2>4
<1>6. CASE RemoveFinalizer
  <2>1. pc = "removeFinalizer"
    BY <1>6 DEF RemoveFinalizer
  <2>2. \/ UNCHANGED backup
        \/ backup' = [backup EXCEPT ![k] = Nil]
        \/ backup[k] = obj /\ backup' = [backup EXCEPT ![k] = [obj EXCEPT !.fin = FALSE]]
    BY <1>4, <1>6, <2>1 DEF RemoveFinalizer, TypeOK
  <2>3. [obj EXCEPT !.fin = FALSE] \in BackupObject
    BY <1>4, <2>1, BackupWrites
  <2>4. Older(obj, [obj EXCEPT !.fin = FALSE])
    <3>1. obj.deleting
      BY <2>1 DEF DeletionInv
    <3>2. PICK spec \in BackupSpec : TRUE
      BY <1>4, <2>1 DEF BackupObject
    <3> QED BY <1>4, <2>1, <3>1, <3>2, WritesNewer
  <2> QED BY <1>1, <1>2, <1>3, <1>4, <2>1, <2>2, <2>3, <2>4
<1>7. ASSUME WorkerStep, ~AddFinalizer, ~RemoveFinalizer PROVE Newer(k)
  BY <1>1, <1>7
     DEF WorkerStep, ReconcileServiceAccount, ReconcileClusterRole,
         ReconcileClusterRoleBinding, ReconcileCronJob, FinalizerSettled,
         DeleteExternalResources, api
<1>8. ASSUME ReleaseForeground(k) PROVE Newer(k)
  <2> DEFINE o == backup[k]
  <2>1. o \in BackupObject /\ o.hold
    BY <1>8 DEF ReleaseForeground, TypeOK
  <2>2. \/ backup' = [backup EXCEPT ![k] = Nil]
        \/ backup' = [backup EXCEPT ![k] = [o EXCEPT !.hold = FALSE]]
    BY <1>8 DEF ReleaseForeground, TypeOK
  <2>3. [o EXCEPT !.hold = FALSE] \in BackupObject
    BY <2>1, BackupWrites
  <2>4. Older(o, [o EXCEPT !.hold = FALSE])
    <3>1. PICK spec \in BackupSpec : TRUE
      BY <2>1 DEF BackupObject
    <3> QED BY <2>1, <3>1, WritesNewer
  <2> QED BY <1>2, <1>3, <2>1, <2>2, <2>3, <2>4
<1>9. ASSUME NEW spec \in BackupSpec, EditBackup(k, spec) PROVE Newer(k)
  <2> DEFINE o == backup[k]
             p == [o EXCEPT !.spec = spec, !.gen = @ + 1]
  <2>1. o \in BackupObject /\ backup' = [backup EXCEPT ![k] = p]
    BY <1>9 DEF EditBackup, TypeOK
  <2>2. p \in BackupObject /\ Older(o, p)
    BY <2>1, BackupEdits, WritesNewer
  <2> HIDE DEF p
  <2> QED BY <1>2, <2>1, <2>2
<1>10. ASSUME NEW foreground \in BOOLEAN, DeleteBackup(k, foreground) PROVE Newer(k)
  <2> DEFINE o == backup[k]
             p == [o EXCEPT !.deleting = TRUE, !.gen = @ + 1, !.hold = foreground]
  <2>1. o \in BackupObject /\ ~o.deleting
    BY <1>10 DEF DeleteBackup, TypeOK
  <2>2. backup' = [backup EXCEPT ![k] = Nil] \/ backup' = [backup EXCEPT ![k] = p]
    BY <1>10 DEF DeleteBackup
  <2>3. p \in BackupObject
    BY <2>1, BackupWrites
  <2>4. Older(o, p)
    <3>1. PICK spec \in BackupSpec : TRUE
      BY <2>1 DEF BackupObject
    <3> QED BY <2>1, <3>1, WritesNewer
  <2> HIDE DEF p
  <2> QED BY <1>2, <1>3, <2>1, <2>2, <2>3, <2>4
<1>11. CASE ClusterStep
  <2>1. ASSUME NEW l \in Keys, ReleaseForeground(l) PROVE Newer(k)
    BY <1>8, <2>1 DEF OneBackup
  <2> QED
    BY <1>1, <1>11, <2>1
       DEF ClusterStep, SyncBackup, SyncServiceAccount, SyncClusterRole,
           SyncClusterRoleBinding, SyncCronJob, CollectServiceAccount,
           CollectCronJob, api
<1>12. CASE UserStep
  <2>1. ASSUME NEW l \in Keys PROVE l = k
    BY DEF OneBackup
  <2>2. ASSUME NEW kind \in Kinds, Tamper(kind) PROVE Newer(k)
    BY <1>1, <2>2 DEF Tamper
  <2> QED BY <1>9, <1>10, <1>12, <2>1, <2>2 DEF UserStep
<1>13. ASSUME \/ APIError \/ Restart \/ (\E l \in Keys : Reconcile(l))
              \/ UNCHANGED vars
       PROVE  Newer(k)
  BY <1>1, <1>13 DEF APIError, Restart, Reconcile, vars, api
<1> QED BY <1>5, <1>6, <1>7, <1>11, <1>12, <1>13 DEF Next
\* The cache takes over what the API server has, and the worker what the cache
\* has.
LEMMA CacheMoves ==
  ASSUME OneBackup, NEW k \in Keys, TypeOK, [Next]_vars
  PROVE  /\ backupCache'[k] \in {backupCache[k], backup[k]}
         /\ pc' # "idle" => \/ pc # "idle" /\ obj' = obj
                            \/ obj' = backupCache[k]
<1>1. ASSUME NEW l \in Keys, Reconcile(l)
      PROVE  /\ UNCHANGED backupCache
             /\ pc' # "idle" => obj' = backupCache[k]
  <2>1. l = k
    BY DEF OneBackup
  <2> QED BY <1>1, <2>1 DEF Reconcile, caches, worker
<1>2. ASSUME WorkerStep \/ APIError
      PROVE  UNCHANGED backupCache /\ (pc' # "idle" => pc # "idle" /\ obj' = obj)
  BY <1>2
     DEF WorkerStep, APIError, ReconcileServiceAccount, ReconcileClusterRole,
         ReconcileClusterRoleBinding, ReconcileCronJob, AddFinalizer,
         FinalizerSettled, DeleteExternalResources, RemoveFinalizer, Proceed, Complete,
         Goto, Return, caches
<1>3. ASSUME ClusterStep
      PROVE  UNCHANGED worker /\ backupCache'[k] \in {backupCache[k], backup[k]}
  BY <1>3
     DEF ClusterStep, SyncBackup, SyncServiceAccount, SyncClusterRole,
         SyncClusterRoleBinding, SyncCronJob, CollectServiceAccount,
         CollectCronJob, ReleaseForeground, caches, TypeOK
<1>4. ASSUME UserStep PROVE UNCHANGED <<worker, backupCache>>
  BY <1>4 DEF UserStep, CreateBackup, EditBackup, DeleteBackup, Tamper, caches
<1>5. ASSUME Restart PROVE pc' = "idle" /\ backupCache' = backup
  BY <1>5 DEF Restart
<1> QED BY <1>1, <1>2, <1>3, <1>4, <1>5 DEF Next, vars, caches, worker

\* A Backup is created while nothing of an earlier one is left, if there was
\* none.
LEMMA CreateFirst ==
  ASSUME Limit.create <= 1, NEW k \in Keys, TypeOK, UnbornInv(k),
         NEW spec \in BackupSpec, CreateBackup(k, spec)
  PROVE  /\ backupCache'[k] = Nil /\ pc' = "idle" /\ ~bindingCache'[k.ns]
         /\ spent'.create = 1
         /\ backup'[k] = [uid |-> 1, gen |-> 1, spec |-> spec, deleting |-> FALSE,
                          fin |-> FALSE, hold |-> FALSE]
         /\ UNCHANGED <<clusterRole, roleCache>>
<1>1. spent.create \in Nat /\ Limit.create \in Nat
  BY LimitAssumption DEF TypeOK, Disturbances
<1>2. spent.create = 0
  BY <1>1 DEF CreateBackup, Spend
<1>3. spent'.create = 1
  <2>1. Spend("create") /\ spent \in [Disturbances -> Nat]
    BY DEF CreateBackup, TypeOK
  <2> QED BY <1>2, <2>1, SpendCreates DEF Disturbances
<1> QED BY <1>2, <1>3 DEF CreateBackup, UnbornInv, caches, worker, TypeOK

\* CopiesInv is kept.
LEMMA RestCopies ==
  ASSUME OneBackup, Limit.create <= 1, NEW k \in Keys, TypeOK, TypeOK',
         CoreInv(k), [Next]_vars
  PROVE  CopiesInv(k)'
<1>1. CASE \E spec \in BackupSpec : CreateBackup(k, spec)
  BY <1>1, CreateFirst DEF CoreInv, CopiesInv
<1>2. CASE Newer(k)
  BY <1>2, CopiesStep, CacheMoves DEF CoreInv
<1> QED BY <1>1, <1>2, NewerStep DEF CoreInv

\* The counter of creations never falls.
LEMMA CreateCount ==
  ASSUME TypeOK, [Next]_vars
  PROVE  spent.create <= spent'.create
<1>1. spent.create \in Nat /\ spent \in [Disturbances -> Nat]
  BY DEF TypeOK, Disturbances
<1>2. spent' = spent \/ \E d \in Disturbances : Spend(d)
  BY DEF Next, WorkerStep, APIError, ReconcileServiceAccount,
         ReconcileClusterRole, ReconcileClusterRoleBinding, ReconcileCronJob,
         AddFinalizer, FinalizerSettled, DeleteExternalResources,
         RemoveFinalizer, Proceed, Complete, Reconcile, ClusterStep, SyncBackup,
         SyncServiceAccount, SyncClusterRole, SyncClusterRoleBinding,
         SyncCronJob, CollectServiceAccount, CollectCronJob,
         ReleaseForeground, UserStep, CreateBackup, EditBackup, DeleteBackup,
         Tamper, Restart, vars, Disturbances
<1> QED BY <1>1, <1>2, SpendCreates

\* UnbornInv is kept.
LEMMA RestUnborn ==
  ASSUME OneBackup, Limit.create <= 1, NEW k \in Keys, TypeOK, TypeOK',
         CoreInv(k), [Next]_vars
  PROVE  UnbornInv(k)'
<1> SUFFICES ASSUME spent'.create = 0
             PROVE  /\ backup'[k] = Nil /\ backupCache'[k] = Nil /\ pc' = "idle"
                    /\ ~binding'[k.ns] /\ ~bindingCache'[k.ns]
  BY DEF UnbornInv
<1>1. spent.create = 0
  BY CreateCount DEF TypeOK, Disturbances
<1>2. /\ backup[k] = Nil /\ backupCache[k] = Nil /\ pc = "idle"
      /\ ~binding[k.ns] /\ ~bindingCache[k.ns]
  BY <1>1 DEF CoreInv, UnbornInv
<1>3. backup'[k] = Nil
  <2>1. ASSUME NEW spec \in BackupSpec, CreateBackup(k, spec) PROVE FALSE
    BY <2>1, CreateFirst DEF CoreInv
  <2> QED BY <1>2, <2>1, NewerStep DEF CoreInv, Newer
<1>4. backupCache'[k] = Nil
  BY <1>2, CacheMoves
<1>5. pc' = "idle"
  <2>1. ASSUME pc' # "idle" PROVE FALSE
    <3>1. obj' = Nil
      BY <1>2, <2>1, CacheMoves
    <3> QED BY <2>1, <3>1, NilAssumption DEF TypeOK
  <2> QED BY <2>1
<1>6. ~WorkerStep
  BY <1>2
     DEF WorkerStep, ReconcileServiceAccount, ReconcileClusterRole,
         ReconcileClusterRoleBinding, ReconcileCronJob, AddFinalizer,
         FinalizerSettled, DeleteExternalResources, RemoveFinalizer
<1>7. ~binding'[k.ns] /\ ~bindingCache'[k.ns]
  <2>1. CASE ClusterStep
    <3>1. ASSUME NEW ns \in Namespaces, SyncClusterRoleBinding(ns)
          PROVE  ~binding'[k.ns] /\ ~bindingCache'[k.ns]
      <4>1. ns = k.ns
        BY OneKey
      <4> QED BY <1>2, <3>1, <4>1 DEF SyncClusterRoleBinding, api, TypeOK
    <3> QED
      BY <1>2, <2>1, <3>1
         DEF ClusterStep, SyncBackup, SyncServiceAccount, SyncClusterRole,
             SyncCronJob, CollectServiceAccount, CollectCronJob,
             ReleaseForeground, api, caches
  <2>2. CASE UserStep
    <3>1. ASSUME NEW kind \in Kinds, Tamper(kind)
          PROVE  ~binding'[k.ns] /\ ~bindingCache'[k.ns]
      BY <1>2, <3>1 DEF Tamper, caches, TypeOK, Keys
    <3> QED
      BY <1>2, <2>2, <3>1
         DEF UserStep, CreateBackup, EditBackup, DeleteBackup, caches
  <2>3. CASE Restart
    BY <1>2, <2>3 DEF Restart, api
  <2>4. ASSUME APIError \/ (\E l \in Keys : Reconcile(l)) \/ UNCHANGED vars
        PROVE  ~binding'[k.ns] /\ ~bindingCache'[k.ns]
    BY <1>2, <2>4 DEF APIError, Reconcile, vars, api, caches
  <2> QED BY <1>6, <2>1, <2>2, <2>3, <2>4 DEF Next
<1> QED BY <1>3, <1>4, <1>5, <1>7
\* AddFinalizer adds the finalizer to the copy it has, or tries again.
LEMMA AddFinalizerWrites ==
  ASSUME OneBackup, NEW k \in Keys, TypeOK, AddFinalizer
  PROVE  /\ obj \in BackupObject /\ ~obj.deleting
         /\ pc = "finalizer" /\ pc' = "idle"
         /\ \/ UNCHANGED backup /\ k \in queue'
            \/ /\ backup[k] = obj /\ backup'[k] = [obj EXCEPT !.fin = TRUE]
               /\ queue' \in {queue, queue \cup {k}}
<1>1. req = k /\ obj \in BackupObject /\ pc = "finalizer" /\ ~obj.deleting
  BY DEF AddFinalizer, TypeOK, OneBackup
<1>2. pc' = "idle"
  BY DEF AddFinalizer, Complete, Return
<1>3. CASE backup[req] = obj
  <2>1. backup' = [backup EXCEPT ![k] = [obj EXCEPT !.fin = TRUE]]
    BY <1>1, <1>3 DEF AddFinalizer
  <2>2. backup'[k] = [obj EXCEPT !.fin = TRUE]
    BY <2>1 DEF TypeOK
  <2>3. queue' \in {queue, queue \cup {k}}
    BY <1>1, <1>3 DEF AddFinalizer, Complete, Return
  <2> QED BY <1>1, <1>2, <1>3, <2>2, <2>3
<1>4. CASE backup[req] # obj
  BY <1>1, <1>2, <1>4 DEF AddFinalizer, Return
<1> QED BY <1>3, <1>4

\* RemoveFinalizer removes it from the copy it has, or tries again.
LEMMA RemoveFinalizerWrites ==
  ASSUME OneBackup, NEW k \in Keys, TypeOK, RemoveFinalizer
  PROVE  /\ obj \in BackupObject
         /\ pc = "removeFinalizer" /\ pc' = "idle"
         /\ \/ UNCHANGED backup /\ k \in queue'
            \/ backup'[k] = Nil
            \/ /\ backup[k] = obj /\ obj.hold
               /\ backup'[k] = [obj EXCEPT !.fin = FALSE]
               /\ queue' \in {queue, queue \cup {k}}
<1>1. req = k /\ obj \in BackupObject /\ pc = "removeFinalizer"
  BY DEF RemoveFinalizer, TypeOK, OneBackup
<1>2. pc' = "idle"
  BY DEF RemoveFinalizer, Complete, Return
<1>3. CASE backup[req] = obj /\ obj.hold
  <2>1. backup' = [backup EXCEPT ![k] = [obj EXCEPT !.fin = FALSE]]
    BY <1>1, <1>3 DEF RemoveFinalizer
  <2>2. backup'[k] = [obj EXCEPT !.fin = FALSE]
    BY <2>1 DEF TypeOK
  <2>3. queue' \in {queue, queue \cup {k}}
    BY <1>1, <1>3 DEF RemoveFinalizer, Complete, Return
  <2> QED BY <1>1, <1>2, <1>3, <2>2, <2>3
<1>4. CASE backup[req] = obj /\ ~obj.hold
  BY <1>1, <1>2, <1>4 DEF RemoveFinalizer, TypeOK
<1>5. CASE backup[req] # obj
  BY <1>1, <1>2, <1>5 DEF RemoveFinalizer, Return
<1> QED BY <1>3, <1>4, <1>5

\* DeletionInv is kept.
LEMMA RestDeletion ==
  ASSUME OneBackup, NEW k \in Keys, TypeOK, TypeOK', DeletionInv(k), [Next]_vars
  PROVE  DeletionInv(k)'
<1> USE NilAssumption
<1> DEFINE Good(o) == /\ o.hold => o.deleting
                      /\ o.deleting => o.fin \/ o.hold
<1>1. ASSUME pc' = "removeFinalizer" => obj'.deleting /\ obj'.fin,
             \/ UNCHANGED backup
             \/ backup'[k] = Nil
             \/ Good(backup'[k])
      PROVE  DeletionInv(k)'
  BY <1>1 DEF DeletionInv
<1>2. ASSUME UNCHANGED worker
      PROVE  pc' = "removeFinalizer" => obj'.deleting /\ obj'.fin
  BY <1>2 DEF worker, DeletionInv
<1>3. ASSUME backup[k] # Nil PROVE backup[k] \in BackupObject /\ Good(backup[k])
  BY <1>3 DEF TypeOK, DeletionInv
<1>4. ASSUME pc # "idle" PROVE req = k /\ obj \in BackupObject
  BY <1>4 DEF TypeOK, OneBackup
<1>5. CASE AddFinalizer
  <2>1. pc' = "idle" /\ pc # "idle" /\ ~obj.deleting
    BY <1>5 DEF AddFinalizer, Complete, Return
  <2>2. \/ UNCHANGED backup
        \/ backup[k] = obj /\ backup'[k] = [obj EXCEPT !.fin = TRUE]
    BY <1>5, AddFinalizerWrites
  <2>3. backup[k] = obj => Good([obj EXCEPT !.fin = TRUE])
    BY <1>3, <1>4, <2>1, BackupFields
  <2>4. [obj EXCEPT !.fin = TRUE] \in BackupObject
    BY <1>4, <2>1, BackupWrites
  <2> QED BY <1>1, <2>1, <2>2, <2>3, <2>4
<1>6. CASE RemoveFinalizer
  <2>1. pc' = "idle" /\ pc # "idle"
    BY <1>6 DEF RemoveFinalizer, Complete, Return
  <2>2. \/ UNCHANGED backup \/ backup'[k] = Nil
        \/ backup[k] = obj /\ obj.hold /\ backup'[k] = [obj EXCEPT !.fin = FALSE]
    BY <1>6, RemoveFinalizerWrites
  <2>3. backup[k] = obj /\ obj.hold => Good([obj EXCEPT !.fin = FALSE])
    BY <1>3, <1>4, <2>1, BackupFields
  <2>4. [obj EXCEPT !.fin = FALSE] \in BackupObject
    BY <1>4, <2>1, BackupWrites
  <2> QED BY <1>1, <2>1, <2>2, <2>3, <2>4
<1>7. CASE DeleteExternalResources
  BY <1>1, <1>7 DEF DeleteExternalResources, Proceed, Goto, Return
<1>8. ASSUME WorkerStep, ~AddFinalizer, ~RemoveFinalizer, ~DeleteExternalResources
      PROVE  DeletionInv(k)'
  BY <1>1, <1>8
     DEF WorkerStep, ReconcileServiceAccount, ReconcileClusterRole,
         ReconcileClusterRoleBinding, ReconcileCronJob, FinalizerSettled,
         Proceed, Goto, Return, api
<1>9. CASE APIError
  BY <1>1, <1>9 DEF APIError, ErrorIgnored, Goto, Return, api
<1>10. ASSUME NEW l \in Keys, Reconcile(l) PROVE DeletionInv(k)'
  BY <1>1, <1>2, <1>10 DEF Reconcile, api
<1>11. ASSUME NEW l \in Keys, ReleaseForeground(l) PROVE DeletionInv(k)'
  <2>1. l = k
    BY DEF OneBackup
  <2>2. \/ backup'[k] = Nil
        \/ backup[k].fin /\ backup'[k] = [backup[k] EXCEPT !.hold = FALSE]
    BY <1>11, <2>1 DEF ReleaseForeground, TypeOK
  <2>3. backup[k] # Nil /\ UNCHANGED worker
    BY <1>11, <2>1 DEF ReleaseForeground
  <2>4. ASSUME backup[k].fin PROVE Good([backup[k] EXCEPT !.hold = FALSE])
    BY <1>3, <2>3, <2>4 DEF BackupObject
  <2>5. [backup[k] EXCEPT !.hold = FALSE] \in BackupObject
    BY <1>3, <2>3, BackupWrites
  <2> QED BY <1>1, <1>2, <2>2, <2>3, <2>4, <2>5
<1>12. CASE ClusterStep
  BY <1>1, <1>2, <1>11, <1>12
     DEF ClusterStep, SyncBackup, SyncServiceAccount, SyncClusterRole,
         SyncClusterRoleBinding, SyncCronJob, CollectServiceAccount,
         CollectCronJob, api
<1>13. ASSUME NEW l \in Keys, NEW spec \in BackupSpec, CreateBackup(l, spec)
       PROVE  DeletionInv(k)'
  <2>1. l = k
    BY DEF OneBackup
  <2>2. backup'[k] = [uid |-> spent.create + 1, gen |-> 1, spec |-> spec,
                      deleting |-> FALSE, fin |-> FALSE, hold |-> FALSE]
    BY <1>13, <2>1 DEF CreateBackup, TypeOK
  <2>3. Good(backup'[k])
    BY <2>2
  <2> QED BY <1>1, <1>2, <1>13, <2>3 DEF CreateBackup
<1>14. ASSUME NEW l \in Keys, NEW spec \in BackupSpec, EditBackup(l, spec)
       PROVE  DeletionInv(k)'
  <2>1. l = k
    BY DEF OneBackup
  <2>2. /\ backup[k] # Nil /\ UNCHANGED worker
        /\ backup'[k] = [backup[k] EXCEPT !.spec = spec, !.gen = @ + 1]
    BY <1>14, <2>1 DEF EditBackup, TypeOK
  <2>3. Good([backup[k] EXCEPT !.spec = spec, !.gen = @ + 1])
    BY <1>3, <2>2 DEF BackupObject
  <2>4. backup'[k] \in BackupObject
    BY <1>3, <2>2, BackupEdits
  <2> QED BY <1>1, <1>2, <2>2, <2>3, <2>4
<1>15. ASSUME NEW l \in Keys, NEW foreground \in BOOLEAN, DeleteBackup(l, foreground)
       PROVE  DeletionInv(k)'
  <2> DEFINE p == [backup[k] EXCEPT !.deleting = TRUE, !.gen = @ + 1,
                                    !.hold = foreground]
  <2>1. l = k
    BY DEF OneBackup
  <2>2. /\ backup[k] # Nil /\ UNCHANGED worker
        /\ \/ backup'[k] = Nil
           \/ (foreground \/ backup[k].fin) /\ backup'[k] = p
    BY <1>15, <2>1 DEF DeleteBackup, TypeOK
  <2>3. p \in BackupObject
    BY <1>3, <2>2, BackupWrites
  <2>4. p.deleting /\ p.hold = foreground /\ p.fin = backup[k].fin
    BY <1>3, <2>2 DEF BackupObject
  <2> HIDE DEF p
  <2>5. (foreground \/ backup[k].fin) => Good(p)
    BY <2>4
  <2> QED BY <1>1, <1>2, <2>2, <2>3, <2>5
<1>16. ASSUME NEW kind \in Kinds, Tamper(kind) PROVE DeletionInv(k)'
  BY <1>1, <1>2, <1>16 DEF Tamper
<1>17. CASE UserStep
  BY <1>13, <1>14, <1>15, <1>16, <1>17 DEF UserStep
<1>18. CASE Restart
  BY <1>1, <1>18 DEF Restart, api
<1>19. CASE UNCHANGED vars
  BY <1>1, <1>2, <1>19 DEF vars, api
<1> QED
  BY <1>5, <1>6, <1>7, <1>8, <1>9, <1>10, <1>12, <1>17, <1>18, <1>19 DEF Next

\* GrantInv is kept: the binding goes while the Backup is in deletion only, and
\* no Backup comes after it.
LEMMA RestGrant ==
  ASSUME OneBackup, Limit.create <= 1, Tamperable \cap {"clusterRole", "binding"} = {},
         NEW k \in Keys, TypeOK, TypeOK', RestInv(k), [Next]_vars
  PROVE  GrantInv(k)'
<1> USE NilAssumption
<1>0. k.ns \in Namespaces /\ \A ns \in Namespaces : ns = k.ns
  BY OneKey DEF Keys
<1>1. roleCache' => clusterRole'
  <2>1. roleCache => clusterRole
    BY DEF RestInv, CoreInv, GrantInv
  <2>2. clusterRole => clusterRole'
    <3>1. ASSUME NEW kind \in Kinds, Tamper(kind) PROVE UNCHANGED clusterRole
      BY <3>1 DEF Tamper
    <3> QED
      BY <3>1
      DEF Next, WorkerStep, APIError, ReconcileServiceAccount,
          ReconcileClusterRole, ReconcileClusterRoleBinding, ReconcileCronJob,
          AddFinalizer, FinalizerSettled, DeleteExternalResources,
          RemoveFinalizer, Reconcile, ClusterStep, SyncBackup,
          SyncServiceAccount, SyncClusterRole, SyncClusterRoleBinding,
          SyncCronJob, CollectServiceAccount, CollectCronJob,
          ReleaseForeground, UserStep, CreateBackup, EditBackup, DeleteBackup,
          Restart, vars, api
  <2>3. roleCache' => roleCache \/ clusterRole
    BY DEF Next, WorkerStep, APIError, ReconcileServiceAccount,
           ReconcileClusterRole, ReconcileClusterRoleBinding, ReconcileCronJob,
           AddFinalizer, FinalizerSettled, DeleteExternalResources,
           RemoveFinalizer, Reconcile, ClusterStep, SyncBackup,
           SyncServiceAccount, SyncClusterRole, SyncClusterRoleBinding,
           SyncCronJob, CollectServiceAccount, CollectCronJob,
           ReleaseForeground, UserStep, CreateBackup, EditBackup, DeleteBackup,
           Tamper, Restart, vars, api, caches
  <2> QED BY <2>1, <2>2, <2>3
<1> DEFINE Stale == bindingCache[k.ns] /\ ~binding[k.ns]
<1>2. Stale => ~Live(k)
  BY DEF RestInv, CoreInv, GrantInv
<1>3. ASSUME Newer(k), Live(k)' PROVE Live(k)
  BY <1>3 DEF Newer, Older, Live
<1>4. ASSUME NEW spec \in BackupSpec, CreateBackup(k, spec) PROVE ~bindingCache'[k.ns]
  BY <1>4, CreateFirst DEF RestInv, CoreInv
<1>5. Stale' => Stale \/ DeleteExternalResources
  <2>1. CASE WorkerStep
    <3>1. ASSUME ReconcileClusterRoleBinding PROVE binding[k.ns] => binding'[k.ns]
      <4>1. binding' = binding \/ binding' = [binding EXCEPT ![req.ns] = TRUE]
        BY <3>1 DEF ReconcileClusterRoleBinding
      <4>2. binding \in [Namespaces -> BOOLEAN]
        BY DEF TypeOK
      <4> QED BY <1>0, <4>1, <4>2
    <3> QED
      BY <2>1, <3>1
         DEF WorkerStep, ReconcileServiceAccount, ReconcileClusterRole,
             ReconcileClusterRoleBinding, ReconcileCronJob, AddFinalizer,
             FinalizerSettled, RemoveFinalizer, api, caches
  <2>2. CASE ClusterStep
    <3>1. ASSUME NEW ns \in Namespaces, SyncClusterRoleBinding(ns) PROVE ~Stale'
      <4>1. ns = k.ns
        BY <1>0
      <4> QED BY <3>1, <4>1 DEF SyncClusterRoleBinding, api, TypeOK
    <3> QED
      BY <2>2, <3>1
         DEF ClusterStep, SyncBackup, SyncServiceAccount, SyncClusterRole,
             SyncCronJob, CollectServiceAccount, CollectCronJob,
             ReleaseForeground, api, caches
  <2>3. CASE UserStep
    <3>1. ASSUME NEW kind \in Kinds, Tamper(kind) PROVE UNCHANGED <<binding, bindingCache>>
      BY <3>1 DEF Tamper, caches
    <3> QED
      BY <2>3, <3>1 DEF UserStep, CreateBackup, EditBackup, DeleteBackup, caches
  <2>4. CASE Restart
    BY <2>4 DEF Restart, api
  <2>5. CASE APIError \/ (\E l \in Keys : Reconcile(l)) \/ UNCHANGED vars
    BY <2>5 DEF APIError, Reconcile, vars, api, caches
  <2> QED BY <2>1, <2>2, <2>3, <2>4, <2>5 DEF Next
<1>6. ASSUME DeleteExternalResources PROVE ~Live(k)
  <2>1. pc # "idle" /\ obj.deleting
    BY <1>6 DEF DeleteExternalResources
  <2> QED BY <2>1 DEF RestInv, CoreInv, CopiesInv, Older, Live
<1>7. Stale' => ~Live(k)'
  BY <1>2, <1>3, <1>4, <1>5, <1>6, NewerStep DEF RestInv, CoreInv
<1> QED BY <1>1, <1>7 DEF GrantInv
\* The worker's way: it goes on, keeping its copy, or it ends and is queued
\* again.
LEMMA DueGoto ==
  ASSUME NEW k \in Keys, DueInv(k), pc # "idle", pc' # "idle", UNCHANGED obj,
         k \in queue' <=> k \in queue,
         UNCHANGED <<backup, backupCache, saCache, roleCache, bindingCache,
                     cronJobCache>>,
         pc = "serviceAccount" => saCache[k.ns] # Nil,
         pc \in ToRole => pc' \in ToRole \/ roleCache,
         pc \in ToBinding => pc' \in ToBinding \/ bindingCache[k.ns],
         pc \in ToCronJob => pc' \in ToCronJob \/ cronJobCache[k] # Nil,
         \/ cronJob'[k] = cronJob[k] /\ (pc \in ToCronJob => pc' \in ToCronJob)
         \/ backup[k] # Nil /\ ~Due(k) => cronJob'[k].arg = backup[k].spec.target
  PROVE  DueInv(k)'
<1> SUFFICES ASSUME backup'[k] # Nil, ~Due(k)' PROVE DueInv(k)'
  BY DEF DueInv
<1>1. backup[k] # Nil /\ ~Due(k)
  BY DEF Due
<1> QED BY <1>1 DEF DueInv, Live

\* A step that queues the Backup satisfies DueInv.
LEMMA DueQueued ==
  ASSUME NEW k \in Keys, k \in queue'
  PROVE  DueInv(k)'
BY DEF DueInv, Due

\* Reconcile takes the copy of the cache.
LEMMA DueReconcile ==
  ASSUME OneBackup, NEW k \in Keys, TypeOK, DueInv(k), Reconcile(k)
  PROVE  DueInv(k)'
<1> SUFFICES ASSUME backup'[k] # Nil, ~Due(k)' PROVE DueInv(k)'
  BY DEF DueInv
<1>1. UNCHANGED <<backup, backupCache>> /\ backupCache[k] # Nil
  BY DEF Reconcile, api, caches, Due
<1>2. pc' = "serviceAccount" /\ obj' = backupCache[k]
  BY <1>1 DEF Reconcile
<1>3. obj'.gen = backup'[k].gen
  BY <1>1, <1>2 DEF Due
<1> QED BY <1>2, <1>3 DEF DueInv, ToRole, ToBinding, ToCronJob

\* The stages that see to the managed objects leave behind them what they were
\* to see to.
LEMMA DueStages ==
  ASSUME OneBackup, NEW k \in Keys, TypeOK, CopiesInv(k), DueInv(k),
         \/ ReconcileServiceAccount \/ ReconcileClusterRole
         \/ ReconcileClusterRoleBinding \/ ReconcileCronJob
  PROVE  DueInv(k)'
<1> USE NilAssumption
<1>0. ASSUME pc # "idle" PROVE req = k /\ obj \in BackupObject
  BY <1>0 DEF TypeOK, OneBackup
<1>1. ASSUME pc # "idle", Return(TRUE) PROVE DueInv(k)'
  BY <1>0, <1>1, DueQueued DEF Return
<1>2. CASE ReconcileServiceAccount
  <2>1. pc = "serviceAccount" /\ req = k
    BY <1>0, <1>2 DEF ReconcileServiceAccount
  <2>2. CASE saCache[req.ns] = Nil
    BY <1>1, <1>2, <2>2 DEF ReconcileServiceAccount
  <2>3. CASE saCache[req.ns] # Nil
    <3>1. /\ Goto("clusterRole")
          /\ UNCHANGED <<backup, cronJob, backupCache, saCache, roleCache,
                         bindingCache, cronJobCache>>
      BY <1>2, <2>3 DEF ReconcileServiceAccount, caches
    <3> QED BY <2>1, <2>3, <3>1, DueGoto DEF Goto, ToRole, ToBinding, ToCronJob
  <2> QED BY <2>2, <2>3
<1>3. CASE ReconcileClusterRole
  <2>1. pc = "clusterRole"
    BY <1>3 DEF ReconcileClusterRole
  <2>2. CASE ~roleCache
    BY <1>1, <1>3, <2>1, <2>2 DEF ReconcileClusterRole
  <2>3. CASE roleCache
    <3>1. /\ Goto("binding")
          /\ UNCHANGED <<backup, cronJob, backupCache, saCache, roleCache,
                         bindingCache, cronJobCache>>
      BY <1>3, <2>3 DEF ReconcileClusterRole, caches
    <3> QED BY <2>1, <2>3, <3>1, DueGoto DEF Goto, ToRole, ToBinding, ToCronJob
  <2> QED BY <2>2, <2>3
<1>4. CASE ReconcileClusterRoleBinding
  <2>1. pc = "binding" /\ req = k
    BY <1>0, <1>4 DEF ReconcileClusterRoleBinding
  <2>2. CASE ~bindingCache[req.ns]
    BY <1>1, <1>4, <2>1, <2>2 DEF ReconcileClusterRoleBinding
  <2>3. CASE bindingCache[req.ns]
    <3>1. /\ Goto("cronJob")
          /\ UNCHANGED <<backup, cronJob, backupCache, saCache, roleCache,
                         bindingCache, cronJobCache>>
      BY <1>4, <2>3 DEF ReconcileClusterRoleBinding, caches
    <3> QED BY <2>1, <2>3, <3>1, DueGoto DEF Goto, ToRole, ToBinding, ToCronJob
  <2> QED BY <2>2, <2>3
<1>5. CASE ReconcileCronJob
  <2>1. pc = "cronJob" /\ req = k /\ obj \in BackupObject
    BY <1>0, <1>5 DEF ReconcileCronJob
  <2>2. CASE Return(TRUE)
    BY <1>1, <2>1, <2>2
  <2>3. CASE ~Return(TRUE)
    <3>1. /\ Goto("finalizer") /\ cronJobCache[k] # Nil
          /\ cronJob' = [cronJob EXCEPT ![CronJobKey(k)] = cronJobForBackup(k, obj)]
          /\ UNCHANGED <<backup, backupCache, saCache, roleCache, bindingCache,
                         cronJobCache>>
      BY <1>5, <2>1, <2>3 DEF ReconcileCronJob, Proceed, caches
    <3>2. cronJob'[k] = cronJobForBackup(k, obj)
      BY <3>1, OneKey DEF TypeOK
    <3>3. cronJob'[k].arg = obj.spec.target
      BY <3>2 DEF cronJobForBackup
    <3>4. ASSUME backup[k] # Nil, ~Due(k)
          PROVE  cronJob'[k].arg = backup[k].spec.target
      <4>1. obj.gen = backup[k].gen
        BY <2>1, <3>4 DEF DueInv
      <4>2. obj.spec = backup[k].spec
        BY <2>1, <3>4, <4>1 DEF CopiesInv, Older
      <4> QED BY <3>3, <4>2
    <3> QED BY <2>1, <3>1, <3>4, DueGoto DEF Goto, ToRole, ToBinding, ToCronJob
  <2> QED BY <2>2, <2>3
<1> QED BY <1>2, <1>3, <1>4, <1>5
\* A failing call ends the pass and queues the Backup, or its error is dropped
\* at a stage that found its object in the cache.
LEMMA DueError ==
  ASSUME OneBackup, NEW k \in Keys, TypeOK, DueInv(k), APIError
  PROVE  DueInv(k)'
<1>1. pc # "idle" /\ req = k
  BY DEF APIError, TypeOK, OneBackup
<1>2. CASE ~ErrorIgnored
  BY <1>1, <1>2, DueQueued DEF APIError, Return
<1>3. CASE ErrorIgnored
  <2>1. UNCHANGED <<backup, cronJob, backupCache, saCache, roleCache,
                    bindingCache, cronJobCache, obj, queue>>
    BY <1>3 DEF APIError, api, caches, Goto
  <2>2. CASE pc = "serviceAccount"
    <3>1. pc' = "clusterRole" /\ saCache[k.ns] # Nil
      BY <1>1, <1>3, <2>2 DEF APIError, Goto, ErrorIgnored
    <3> QED BY <2>1, <2>2, <3>1, DueGoto DEF ToRole, ToBinding, ToCronJob
  <2>3. CASE pc = "clusterRole"
    <3>1. pc' = "binding" /\ roleCache
      BY <1>1, <1>3, <2>3 DEF APIError, Goto, ErrorIgnored
    <3> QED BY <2>1, <2>3, <3>1, DueGoto DEF ToRole, ToBinding, ToCronJob
  <2>4. CASE pc = "binding"
    <3>1. pc' = "cronJob" /\ bindingCache[k.ns]
      BY <1>1, <1>3, <2>4 DEF APIError, Goto, ErrorIgnored
    <3> QED BY <2>1, <2>4, <3>1, DueGoto DEF ToRole, ToBinding, ToCronJob
  <2> QED BY <1>3, <2>2, <2>3, <2>4 DEF ErrorIgnored
<1> QED BY <1>2, <1>3

\* A pass that ends without a request leaves nothing to do: handleFinalizer
\* decides on the present generation, and all stages before it are done.
LEMMA DueEnd ==
  ASSUME NEW k \in Keys, DueInv(k), backup[k] # Nil, backup'[k] # Nil,
         pc \in {"finalizer", "removeFinalizer"}, pc' = "idle",
         UNCHANGED <<backupCache, saCache, roleCache, bindingCache, cronJob,
                     cronJobCache, queue>>,
         backup'[k].gen = backup[k].gen, backup'[k].spec = backup[k].spec,
         backup'[k].deleting = backup[k].deleting,
         ~Due(k) => backup'[k].deleting # backup'[k].fin
  PROVE  DueInv(k)'
<1> SUFFICES ASSUME ~Due(k)' PROVE DueInv(k)'
  BY DEF DueInv
<1>1. ~Due(k)
  BY DEF Due
<1>2. /\ saCache[k.ns] # Nil /\ roleCache /\ cronJobCache[k] # Nil
      /\ cronJob[k] # Nil => cronJob[k].arg = backup[k].spec.target
      /\ ~bindingCache[k.ns] => ~Live(k)
  BY <1>1 DEF DueInv, ToRole, ToBinding, ToCronJob
<1>3. Live(k)' => Live(k)
  BY DEF Live
<1> QED BY <1>1, <1>2, <1>3 DEF DueInv

\* handleFinalizer.
LEMMA DueFinalizer ==
  ASSUME OneBackup, NEW k \in Keys, TypeOK, CopiesInv(k), DeletionInv(k), DueInv(k),
         \/ AddFinalizer \/ FinalizerSettled \/ DeleteExternalResources
         \/ RemoveFinalizer
  PROVE  DueInv(k)'
<1> USE NilAssumption
<1>0. pc # "idle" /\ req = k /\ obj \in BackupObject
  BY DEF AddFinalizer, FinalizerSettled, DeleteExternalResources,
         RemoveFinalizer, TypeOK, OneBackup
<1>1. CASE AddFinalizer
  <2>1. CASE k \in queue'
    BY <2>1, DueQueued
  <2>2. CASE k \notin queue'
    <3>1. /\ backup[k] = obj /\ backup'[k] = [obj EXCEPT !.fin = TRUE]
          /\ pc = "finalizer" /\ pc' = "idle" /\ ~obj.deleting
          /\ UNCHANGED queue
      BY <1>1, <2>2, AddFinalizerWrites
    <3>2. UNCHANGED <<cronJob, backupCache, saCache, roleCache, bindingCache,
                      cronJobCache>>
      BY <1>1 DEF AddFinalizer, caches
    <3>3. /\ backup'[k].gen = backup[k].gen /\ backup'[k].spec = backup[k].spec
          /\ backup'[k].deleting = backup[k].deleting
          /\ backup'[k].fin /\ ~backup'[k].deleting
      BY <1>0, <3>1 DEF BackupObject
    <3>4. backup[k] # Nil /\ backup'[k] # Nil
      BY <1>0, <3>1, BackupWrites
    <3>5. backup'[k].deleting # backup'[k].fin
      BY <3>3
    <3> QED BY <3>1, <3>2, <3>3, <3>4, <3>5, DueEnd
  <2> QED BY <2>1, <2>2
<1>2. CASE RemoveFinalizer
  <2>1. CASE k \in queue'
    BY <2>1, DueQueued
  <2>2. CASE backup'[k] = Nil
    BY <2>2 DEF DueInv
  <2>3. CASE k \notin queue' /\ backup'[k] # Nil
    <3>1. /\ backup[k] = obj /\ backup'[k] = [obj EXCEPT !.fin = FALSE]
          /\ pc = "removeFinalizer" /\ pc' = "idle"
          /\ UNCHANGED queue
      BY <1>2, <2>3, RemoveFinalizerWrites
    <3>2. UNCHANGED <<cronJob, backupCache, saCache, roleCache, bindingCache,
                      cronJobCache>>
      BY <1>2 DEF RemoveFinalizer, caches
    <3>3. obj.deleting
      BY <3>1 DEF DeletionInv
    <3>4. /\ backup'[k].gen = backup[k].gen /\ backup'[k].spec = backup[k].spec
          /\ backup'[k].deleting = backup[k].deleting
          /\ ~backup'[k].fin
      BY <1>0, <3>1 DEF BackupObject
    <3>5. backup[k] # Nil /\ backup'[k].deleting
      BY <1>0, <3>1, <3>3, <3>4
    <3>6. backup'[k].deleting # backup'[k].fin
      BY <3>4, <3>5
    <3> QED BY <2>3, <3>1, <3>2, <3>4, <3>5, <3>6, DueEnd
  <2> QED BY <2>1, <2>2, <2>3
<1>3. CASE FinalizerSettled
  <2>1. CASE backup[k] = Nil
    BY <1>3, <2>1 DEF FinalizerSettled, api, DueInv
  <2>2. CASE backup[k] # Nil
    <3>1. /\ pc = "finalizer" /\ pc' = "idle"
          /\ UNCHANGED <<backup, cronJob, backupCache, saCache, roleCache,
                         bindingCache, cronJobCache, queue>>
      BY <1>3 DEF FinalizerSettled, Return, api, caches
    <3>2. ASSUME ~Due(k) PROVE backup[k].deleting # backup[k].fin
      <4>1. obj.gen = backup[k].gen /\ Older(obj, backup[k])
        BY <2>2, <3>1, <3>2 DEF DueInv, CopiesInv
      <4>2. obj.deleting = backup[k].deleting
        BY <4>1 DEF Older
      <4>3. /\ obj.deleting \in BOOLEAN /\ obj.fin \in BOOLEAN
            /\ backup[k].fin \in BOOLEAN /\ obj.deleting # obj.fin
        BY <1>0, <1>3, <2>2 DEF FinalizerSettled, TypeOK, BackupObject
      <4>4. CASE obj.deleting
        <5>1. ~obj.fin
          BY <4>3, <4>4
        <5>2. ~backup[k].fin
          BY <4>1, <4>4, <5>1 DEF Older
        <5> QED BY <4>2, <4>4, <5>2
      <4>5. CASE ~obj.deleting
        <5>1. obj.fin
          BY <4>3, <4>5
        <5>2. ~backup[k].deleting
          BY <4>2, <4>5
        <5>3. backup[k].fin
          BY <4>1, <5>1, <5>2 DEF Older
        <5> QED BY <5>2, <5>3
      <4> QED BY <4>4, <4>5
    <3> QED BY <2>2, <3>1, <3>2, DueEnd
  <2> QED BY <2>1, <2>2
<1>4. CASE DeleteExternalResources
  <2>1. CASE Return(TRUE)
    BY <1>0, <2>1, DueQueued DEF Return
  <2>2. CASE ~Return(TRUE)
    <3>1. /\ pc = "finalizer" /\ Goto("removeFinalizer")
          /\ UNCHANGED <<backup, cronJob, backupCache, saCache, roleCache,
                         bindingCache, cronJobCache>>
      BY <1>4, <2>2 DEF DeleteExternalResources, Proceed, caches
    <3> QED BY <3>1, DueGoto DEF Goto, ToRole, ToBinding, ToCronJob
  <2> QED BY <2>1, <2>2
<1> QED BY <1>1, <1>2, <1>3, <1>4
\* The informers deliver, the garbage collector collects: an object that the
\* cache loses queues its owner, and the rights are not lost.
LEMMA DueCluster ==
  ASSUME OneBackup, NEW k \in Keys, TypeOK, OwnedInv, GrantInv(k), DueInv(k),
         ClusterStep
  PROVE  DueInv(k)'
<1> USE NilAssumption
<1>0. /\ k.ns \in Namespaces /\ \A ns \in Namespaces : ns = k.ns
      /\ \A l \in Keys : l = k
      /\ \A n \in Names : [ns |-> k.ns, name |-> n] = k
  BY OneKey DEF Keys, OneBackup
<1>1. ASSUME NEW refs, NEW r \in OwnerRef, r \in refs PROVE k \in OwnerKeys(k.ns, refs)
  <2>1. [ns |-> k.ns, name |-> r.name] = k
    BY <1>0 DEF OwnerRef
  <2> QED BY <1>1, <2>1 DEF OwnerKeys
<1>2. ASSUME UNCHANGED <<backup, caches, queue, worker>>,
             cronJob'[k] \in {cronJob[k], Nil}
      PROVE  DueInv(k)'
  BY <1>2 DEF DueInv, Due, Live, caches, worker
<1>3. CASE SyncBackup(k)
  <2>1. CASE k \in queue'
    BY <2>1, DueQueued
  <2>2. CASE k \notin queue'
    <3>1. /\ UNCHANGED <<backup, cronJob, saCache, roleCache, bindingCache,
                         cronJobCache, pc, obj>>
          /\ UNCHANGED queue
          /\ backupCache[k] # Nil /\ backup[k] # Nil
          /\ backupCache[k].gen = backup[k].gen
      BY <1>3, <2>2 DEF SyncBackup, api, worker
    <3> QED BY <2>2, <3>1 DEF DueInv, Due, Live
  <2> QED BY <2>1, <2>2
<1>4. CASE SyncServiceAccount(k.ns)
  <2>1. CASE k \in queue'
    BY <2>1, DueQueued
  <2>2. CASE k \notin queue'
    <3>1. UNCHANGED <<backup, cronJob, backupCache, roleCache, bindingCache,
                      cronJobCache, pc, obj>>
      BY <1>4 DEF SyncServiceAccount, api, worker
    <3>2. saCache'[k.ns] # Nil
      <4> SUFFICES ASSUME saCache'[k.ns] = Nil PROVE FALSE
        OBVIOUS
      <4>1. serviceAccount[k.ns] = Nil /\ saCache[k.ns] # Nil
        BY <1>0, <1>4 DEF SyncServiceAccount, TypeOK
      <4>2. saCache[k.ns] \in OwnerRef
        BY <1>0, <4>1 DEF TypeOK
      <4>3. k \in OwnerKeys(k.ns, {saCache[k.ns], serviceAccount[k.ns]})
        BY <1>1, <4>2
      <4> QED BY <1>4, <2>2, <4>1, <4>3 DEF SyncServiceAccount
    <3>3. k \notin queue
      BY <1>4, <2>2 DEF SyncServiceAccount
    <3> QED BY <2>2, <3>1, <3>2, <3>3 DEF DueInv, Due, Live
  <2> QED BY <2>1, <2>2
<1>5. CASE SyncClusterRole
  <2>1. UNCHANGED <<backup, cronJob, backupCache, saCache, bindingCache,
                    cronJobCache, queue, pc, obj>>
    BY <1>5 DEF SyncClusterRole, api, worker
  <2>2. roleCache'
    BY <1>5 DEF SyncClusterRole, GrantInv, TypeOK
  <2> QED BY <2>1, <2>2 DEF DueInv, Due, Live
<1>6. CASE SyncClusterRoleBinding(k.ns)
  <2>1. UNCHANGED <<backup, cronJob, backupCache, saCache, roleCache,
                    cronJobCache, queue, pc, obj>>
    BY <1>6 DEF SyncClusterRoleBinding, api, worker
  <2>2. bindingCache'[k.ns] \/ ~Live(k)
    <3>1. bindingCache'[k.ns] = binding[k.ns] /\ bindingCache[k.ns] # binding[k.ns]
      BY <1>0, <1>6 DEF SyncClusterRoleBinding, TypeOK
    <3>2. binding[k.ns] \in BOOLEAN /\ bindingCache[k.ns] \in BOOLEAN
      BY <1>0 DEF TypeOK
    <3> QED BY <3>1, <3>2 DEF GrantInv
  <2>3. Live(k)' => Live(k)
    BY <2>1 DEF Live
  <2> QED BY <2>1, <2>2, <2>3 DEF DueInv, Due
<1>7. CASE SyncCronJob(k)
  <2>1. CASE k \in queue'
    BY <2>1, DueQueued
  <2>2. CASE k \notin queue'
    <3>1. UNCHANGED <<backup, cronJob, backupCache, saCache, roleCache,
                      bindingCache, pc, obj>>
      BY <1>7 DEF SyncCronJob, api, worker
    <3>2. cronJobCache'[k] # Nil
      <4> SUFFICES ASSUME cronJobCache'[k] = Nil PROVE FALSE
        OBVIOUS
      <4> DEFINE owners == {c.owner : c \in {cronJobCache[k], cronJob[k]} \ {Nil}}
      <4>1. cronJob[k] = Nil /\ cronJobCache[k] # Nil
        BY <1>7 DEF SyncCronJob, TypeOK
      <4>2. cronJobCache[k].owner \in OwnerRef
        BY <4>1 DEF TypeOK, CronJobObject, OwnedInv
      <4>3. cronJobCache[k].owner \in owners
        BY <4>1
      <4>4. k \in OwnerKeys(k.ns, owners)
        BY <1>1, <4>2, <4>3
      <4>5. queue' = queue \cup OwnerKeys(k.ns, owners)
        BY <1>7, <4>1 DEF SyncCronJob
      <4> QED BY <2>2, <4>4, <4>5
    <3>3. k \notin queue
      BY <1>7, <2>2 DEF SyncCronJob
    <3> QED BY <2>2, <3>1, <3>2, <3>3 DEF DueInv, Due, Live
  <2> QED BY <2>1, <2>2
<1>8. CASE CollectServiceAccount(k.ns)
  BY <1>2, <1>8 DEF CollectServiceAccount
<1>9. CASE CollectCronJob(k)
  BY <1>2, <1>9 DEF CollectCronJob, TypeOK
<1>10. CASE ReleaseForeground(k)
  <2>1. UNCHANGED <<cronJob, backupCache, saCache, roleCache, bindingCache,
                    cronJobCache, queue, pc, obj>>
    BY <1>10 DEF ReleaseForeground, caches, worker
  <2>2. CASE backup'[k] = Nil
    BY <2>2 DEF DueInv
  <2>3. CASE backup'[k] # Nil
    <3>1. /\ backup[k] \in BackupObject
          /\ backup'[k] = [backup[k] EXCEPT !.hold = FALSE]
      BY <1>10, <2>3 DEF ReleaseForeground, TypeOK
    <3>2. /\ backup'[k].gen = backup[k].gen /\ backup'[k].spec = backup[k].spec
          /\ backup'[k].deleting = backup[k].deleting
          /\ backup'[k].fin = backup[k].fin
      BY <3>1 DEF BackupObject
    <3>3. backup[k] # Nil /\ (Due(k) => Due(k)') /\ (Live(k)' => Live(k))
      BY <2>1, <3>1, <3>2 DEF Due, Live
    <3> QED BY <2>1, <3>2, <3>3 DEF DueInv
  <2> QED BY <2>2, <2>3
<1> QED
  BY <1>0, <1>3, <1>4, <1>5, <1>6, <1>7, <1>8, <1>9, <1>10 DEF ClusterStep

\* Users: what they change in a Backup is an event to come.
LEMMA DueUser ==
  ASSUME OneBackup, Limit.create <= 1, NEW k \in Keys, TypeOK, TypeOK', RestInv(k),
         UserStep
  PROVE  DueInv(k)'
<1> USE NilAssumption
<1>0. \A l \in Keys : l = k
  BY DEF OneBackup
<1>1. ASSUME NEW spec \in BackupSpec, CreateBackup(k, spec) PROVE DueInv(k)'
  BY <1>1, CreateFirst DEF RestInv, CoreInv, DueInv, Due
<1>2. ASSUME backup[k] # Nil, backup'[k] # Nil, UNCHANGED backupCache,
             backup'[k].gen = backup[k].gen + 1
      PROVE  DueInv(k)'
  <2>1. CASE backupCache[k] = Nil
    BY <1>2, <2>1 DEF DueInv, Due
  <2>2. CASE backupCache[k] # Nil
    <3>1. backupCache[k].gen <= backup[k].gen
      BY <1>2, <2>2 DEF RestInv, CoreInv, CopiesInv, Older
    <3>2. backupCache[k].gen \in Nat /\ backup[k].gen \in Nat
      BY <1>2, <2>2 DEF TypeOK, BackupObject
    <3>3. backupCache'[k].gen # backup'[k].gen
      BY <1>2, <3>1, <3>2
    <3> QED BY <3>3 DEF DueInv, Due
  <2> QED BY <2>1, <2>2
<1>3. ASSUME NEW spec \in BackupSpec, EditBackup(k, spec) PROVE DueInv(k)'
  <2>1. /\ backup[k] # Nil /\ backup[k] \in BackupObject /\ UNCHANGED backupCache
        /\ backup'[k] = [backup[k] EXCEPT !.spec = spec, !.gen = @ + 1]
    BY <1>3 DEF EditBackup, TypeOK, caches
  <2>2. backup'[k].gen = backup[k].gen + 1
    BY <2>1 DEF BackupObject
  <2>3. backup'[k] # Nil
    BY <2>1, BackupEdits
  <2> QED BY <1>2, <2>1, <2>2, <2>3
<1>4. ASSUME NEW foreground \in BOOLEAN, DeleteBackup(k, foreground) PROVE DueInv(k)'
  <2>1. CASE backup'[k] = Nil
    BY <2>1 DEF DueInv
  <2>2. CASE backup'[k] # Nil
    <3>1. /\ backup[k] # Nil /\ backup[k] \in BackupObject /\ UNCHANGED backupCache
          /\ backup'[k] = [backup[k] EXCEPT !.deleting = TRUE, !.gen = @ + 1,
                                            !.hold = foreground]
      BY <1>4, <2>2 DEF DeleteBackup, TypeOK, caches
    <3>2. backup'[k].gen = backup[k].gen + 1
      BY <3>1 DEF BackupObject
    <3> QED BY <1>2, <2>2, <3>1, <3>2
  <2> QED BY <2>1, <2>2
<1>5. ASSUME NEW kind \in Kinds, Tamper(kind) PROVE DueInv(k)'
  <2>1. UNCHANGED <<backup, caches, queue, worker>>
    BY <1>5 DEF Tamper
  <2>2. cronJob'[k] = cronJob[k] \/ cronJob'[k] = Nil
    BY <1>5 DEF Tamper, TypeOK
  <2> QED BY <2>1, <2>2 DEF RestInv, CoreInv, DueInv, Due, Live, caches, worker
<1> QED BY <1>0, <1>1, <1>3, <1>4, <1>5 DEF UserStep

\* A restart queues every Backup there is.
LEMMA DueRestart ==
  ASSUME NEW k \in Keys, Restart
  PROVE  DueInv(k)'
BY DEF Restart, api, DueInv, Due

\* The invariant is inductive.
LEMMA RestStep ==
  ASSUME OneBackup, Limit.create <= 1, Tamperable \cap {"clusterRole", "binding"} = {},
         NEW k \in Keys, TypeOK, TypeOK', OwnedInv, RestInv(k), [Next]_vars
  PROVE  RestInv(k)'
<1>1. CopiesInv(k)' /\ UnbornInv(k)' /\ GrantInv(k)'
  BY RestCopies, RestUnborn, RestGrant DEF RestInv
<1>2. DeletionInv(k)'
  BY RestDeletion DEF RestInv, CoreInv
<1>3. DueInv(k)'
  <2> USE DEF RestInv, CoreInv
  <2>1. ASSUME NEW l \in Keys, Reconcile(l) PROVE DueInv(k)'
    <3>1. l = k
      BY DEF OneBackup
    <3> QED BY <2>1, <3>1, DueReconcile
  <2>2. CASE WorkerStep
    BY <2>2, DueStages, DueFinalizer DEF WorkerStep
  <2>3. CASE UNCHANGED vars
    BY <2>3 DEF vars, api, caches, worker, DueInv, Due, Live
  <2> QED
    BY <2>1, <2>2, <2>3, DueError, DueCluster, DueUser, DueRestart DEF Next
<1> QED BY <1>1, <1>2, <1>3 DEF RestInv, CoreInv

\* The operator starts with it.
LEMMA RestInit ==
  ASSUME Init, NEW k \in Keys
  PROVE  RestInv(k)
<1>1. k.ns \in Namespaces
  BY DEF Keys
<1>2. /\ backup[k] = Nil /\ backupCache[k] = Nil /\ pc = "idle"
      /\ ~binding[k.ns] /\ ~bindingCache[k.ns] /\ ~roleCache
  BY <1>1 DEF Init
<1> QED BY <1>2 DEF RestInv, CoreInv, CopiesInv, UnbornInv, DeletionInv, GrantInv, DueInv

\* At rest the invariant says that everything is in place.
LEMMA RestConverged ==
  ASSUME OneBackup, TypeOK, OwnedInv, \A k \in Keys : RestInv(k)
  PROVE  IdleMeansConverged
<1> USE NilAssumption
<1> SUFFICES ASSUME Quiet, NEW k \in Keys, backup[k] # Nil
             PROVE  Live(k) /\ Converged(k)
  BY DEF IdleMeansConverged
<1>0. k.ns \in Namespaces /\ k = [ns |-> k.ns, name |-> k.name]
  BY DEF Keys
<1>1. /\ pc = "idle" /\ queue = {} /\ ~backup[k].hold
      /\ backupCache = backup /\ saCache = serviceAccount
      /\ roleCache = clusterRole /\ bindingCache = binding
      /\ cronJobCache = cronJob
  BY DEF Quiet, caches, api
<1>2. backup[k] \in BackupObject /\ RestInv(k)
  BY DEF TypeOK
<1>3. ~Due(k)
  BY <1>1 DEF Due
<1>4. backup[k].deleting # backup[k].fin
  BY <1>1, <1>2, <1>3 DEF RestInv, CoreInv, DueInv
<1>5. ~backup[k].deleting /\ backup[k].fin
  <2>1. backup[k].deleting \in BOOLEAN /\ backup[k].fin \in BOOLEAN
    BY <1>2 DEF BackupObject
  <2>2. backup[k].deleting => backup[k].fin
    BY <1>1, <1>2 DEF RestInv, CoreInv, DeletionInv
  <2> QED BY <1>4, <2>1, <2>2
<1>6. Live(k)
  BY <1>5 DEF Live
<1>7. clusterRole /\ binding[k.ns]
  BY <1>1, <1>2, <1>3, <1>6 DEF RestInv, CoreInv, DueInv, ToRole, ToBinding
<1>8. serviceAccount[k.ns] = ServiceAccountOf(k)
  <2> DEFINE sa == serviceAccount[k.ns]
  <2>1. sa # Nil
    BY <1>1, <1>2, <1>3 DEF RestInv, CoreInv, DueInv
  <2>2. sa \in OwnerRef /\ [ns |-> k.ns, name |-> sa.name] = k /\ sa.name = k.name
    BY <1>0, <2>1, OneKey DEF TypeOK, OwnerRef
  <2>3. sa.uid = backup[k].uid
    BY <1>0, <1>1, <2>1, <2>2 DEF Quiet, Collectable
  <2>4. sa = [name |-> k.name, uid |-> backup[k].uid]
    BY <2>2, <2>3 DEF OwnerRef
  <2> QED BY <2>4 DEF ServiceAccountOf, serviceAccountForBackup, ControllerRef
<1>9. cronJob[k] = cronJobForBackup(k, backup[k])
  <2> DEFINE cj == cronJob[k]
  <2>1. cj # Nil
    BY <1>1, <1>2, <1>3 DEF RestInv, CoreInv, DueInv, ToRole, ToBinding, ToCronJob
  <2>2. cj.arg = backup[k].spec.target
    BY <1>1, <1>2, <1>3, <2>1 DEF RestInv, CoreInv, DueInv, ToRole, ToBinding, ToCronJob
  <2>3. /\ cj \in CronJobObject /\ cj.owner # Nil /\ cj.owner.name = k.name
        /\ cj.schedule = EveryMinute /\ cj.ns = k.ns
    BY <2>1 DEF OwnedInv, TypeOK
  <2>4. cj.owner \in OwnerRef
    BY <2>3 DEF CronJobObject
  <2>5. cj.owner.uid = backup[k].uid
    BY <1>0, <2>1, <2>3 DEF Quiet, Collectable
  <2>6. cj.owner = [name |-> k.name, uid |-> backup[k].uid]
    BY <2>3, <2>4, <2>5 DEF OwnerRef
  <2>7. cj = [owner |-> cj.owner, ns |-> cj.ns, arg |-> cj.arg,
              schedule |-> cj.schedule]
    BY <2>3 DEF CronJobObject
  <2>8. cronJobForBackup(k, backup[k]) =
          [owner |-> [name |-> k.name, uid |-> backup[k].uid], ns |-> k.ns,
           arg |-> backup[k].spec.target, schedule |-> EveryMinute]
    BY OneKey DEF cronJobForBackup
  <2> QED BY <2>2, <2>3, <2>6, <2>7, <2>8
<1> QED BY <1>5, <1>6, <1>7, <1>8, <1>9 DEF Converged

\* IdleMeansConverged, for any specifications and any number of edits, faults,
\* lost replies, restarts and deletions of ServiceAccounts and CronJobs: a
\* controller at rest has set its Backup up.  Each hypothesis is needed: a
\* sibling takes the ServiceAccount and the ClusterRoleBinding with it (run
\* doc_sibling_rights), a Backup created again is registered while the cache
\* still has the ClusterRoleBinding of its predecessor, and the loss of a
\* ClusterRole or a ClusterRoleBinding queues nothing.
THEOREM RestTheorem ==
  ASSUME OneBackup, Limit.create <= 1,
         Tamperable \cap {"clusterRole", "binding"} = {}
  PROVE  Spec => []IdleMeansConverged
<1> DEFINE Inv == OwnedInv /\ \A k \in Keys : RestInv(k)
<1>1. Init => Inv
  BY OwnedInit, RestInit
<1>2. TypeOK /\ TypeOK' /\ Inv /\ [Next]_vars => Inv'
  <2> SUFFICES ASSUME TypeOK, TypeOK', Inv, [Next]_vars PROVE Inv'
    OBVIOUS
  <2>1. ASSUME NEW k \in Keys PROVE RestInv(k)'
    BY <2>1, RestStep
  <2>2. OwnedInv'
    <3>1. CASE Keys = {}
      BY <3>1 DEF OwnedInv
    <3>2. CASE Keys # {}
      <4>1. PICK k \in Keys : TRUE
        BY <3>2
      <4>2. Namespaces = {DefaultNS}
        BY <4>1, OneKey, DefaultNSAssumption
      <4> QED BY <4>2, OwnedStep
    <3> QED BY <3>1, <3>2
  <2> QED BY <2>1, <2>2
<1>3. TypeOK /\ Inv => IdleMeansConverged
  BY RestConverged
<1> HIDE DEF Inv
<1> QED BY <1>1, <1>2, <1>3, TypeCorrect, PTL DEF Spec
=============================================================================
