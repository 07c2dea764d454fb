------------------------- MODULE BackupSystemProofs -------------------------
(* Theorems about the operator and the runs of its CronJobs together.      *)
EXTENDS BackupSystem, BackupRestProofs

-----------------------------------------------------------------------------
(* Type correctness.                                                       *)

Outcomes == {"ok", "error", "fault", "moved"}

\* A run that deploys or saves has read the Backup its argument names, and where
\* the pod of its target is.
ReadRun(r) ==
  r.stage \in {"deploy", "save"} => r.arg \in Names /\ r.node \in Nodes

\* The runs there are: well-formed ones.
GoodRun == {r \in Run : ReadRun(r)}

\* SystemTypeOK, with the reason why only Backups have helpers.
SystemTypeInv == SystemTypeOK /\ run \in [Places -> GoodRun \cup {Nil}]

\* The steps of a run write well-formed runs.
LEMMA RunWrites ==
  ASSUME NEW r \in Run
  PROVE  /\ ReadRun(r) => [r EXCEPT !.token = FALSE] \in GoodRun
         /\ ReadRun(r) => [r EXCEPT !.pod = FALSE] \in GoodRun
         /\ \A n \in Nodes : r.arg \in Names =>
              [r EXCEPT !.node = n, !.stage = "deploy"] \in GoodRun
         /\ [r EXCEPT !.named = TRUE] \in Run
         /\ [r EXCEPT !.named = TRUE].arg = r.arg
         /\ [r EXCEPT !.named = TRUE].node = r.node
         /\ r.arg \in Names /\ r.node \in Nodes =>
              [r EXCEPT !.pod = TRUE, !.stage = "save"] \in GoodRun
         /\ \A o \in Outcomes :
              [r EXCEPT !.stage = "clean", !.outcome = o] \in GoodRun
<1>1. ASSUME ReadRun(r)
      PROVE  [r EXCEPT !.token = FALSE] \in GoodRun /\ [r EXCEPT !.pod = FALSE] \in GoodRun
  <2>1. [r EXCEPT !.token = FALSE] \in Run /\ [r EXCEPT !.pod = FALSE] \in Run
    BY DEF Run
  <2>2. /\ [r EXCEPT !.token = FALSE].stage = r.stage
        /\ [r EXCEPT !.token = FALSE].arg = r.arg
        /\ [r EXCEPT !.token = FALSE].node = r.node
    BY DEF Run
  <2>3. /\ [r EXCEPT !.pod = FALSE].stage = r.stage
        /\ [r EXCEPT !.pod = FALSE].arg = r.arg
        /\ [r EXCEPT !.pod = FALSE].node = r.node
    BY DEF Run
  <2> QED BY <1>1, <2>1, <2>2, <2>3 DEF GoodRun, ReadRun
<1>2. ASSUME r.arg \in Names, NEW q \in Run, q.arg = r.arg, q.node \in Nodes,
             NEW s \in {"deploy", "save"}
      PROVE  [q EXCEPT !.stage = s] \in GoodRun
  <2>1. /\ [q EXCEPT !.stage = s] \in Run /\ [q EXCEPT !.stage = s].arg = q.arg
        /\ [q EXCEPT !.stage = s].node = q.node
    BY <1>2 DEF Run
  <2> QED BY <1>2, <2>1 DEF GoodRun, ReadRun
<1>3. /\ [r EXCEPT !.named = TRUE] \in Run /\ [r EXCEPT !.named = TRUE].arg = r.arg
      /\ [r EXCEPT !.named = TRUE].node = r.node
  BY DEF Run
<1>4. /\ [r EXCEPT !.pod = TRUE] \in Run /\ [r EXCEPT !.pod = TRUE].arg = r.arg
      /\ [r EXCEPT !.pod = TRUE].node = r.node
  BY DEF Run
<1>7. ASSUME NEW n \in Nodes
      PROVE  /\ [r EXCEPT !.node = n] \in Run /\ [r EXCEPT !.node = n].arg = r.arg
             /\ [r EXCEPT !.node = n].node = n
  BY DEF Run
<1>5. [r EXCEPT !.stage = "clean"] \in Run /\ [r EXCEPT !.stage = "clean"].stage = "clean"
  BY DEF Run
<1>6. ASSUME NEW q \in Run, NEW o \in Outcomes, q.stage = "clean"
      PROVE  [q EXCEPT !.outcome = o] \in GoodRun
  <2>1. [q EXCEPT !.outcome = o] \in Run /\ [q EXCEPT !.outcome = o].stage = q.stage
    BY <1>6 DEF Run, Outcomes
  <2> QED BY <1>6, <2>1 DEF GoodRun, ReadRun
<1> QED BY <1>1, <1>2, <1>3, <1>4, <1>5, <1>6, <1>7

\* The runs of the CronJobs, their tokens and their places.
LEMMA RunsFollowType ==
  ASSUME run \in [Places -> GoodRun \cup {Nil}], RunsFollow
  PROVE  run' \in [Places -> GoodRun \cup {Nil}]
<1> DEFINE gone(k) == cronJob[k] # Nil /\ cronJob'[k] = Nil
           void == serviceAccount'[DefaultNS] = Nil
           Keeps(r) == IF r # Nil /\ void THEN [r EXCEPT !.token = FALSE] ELSE r
<1>1. ASSUME NEW r \in GoodRun \cup {Nil} PROVE Keeps(r) \in GoodRun \cup {Nil}
  BY RunWrites DEF GoodRun
<1>2. ASSUME NEW p \in Places PROVE <<p[1], "own">> \in Places
  BY DEF Places
<1>3. run' = [p \in Places |->
         IF gone(p[1]) /\ run[<<p[1], "own">>] # Nil
           THEN IF p[2] = "own" THEN Nil ELSE Keeps(run[<<p[1], "own">>])
           ELSE Keeps(run[p])]
  BY DEF RunsFollow
<1> HIDE DEF gone, Keeps
<1> QED BY <1>1, <1>2, <1>3

\* A run's own steps are well typed.
LEMMA RunStepType ==
  ASSUME SystemTypeInv, RunStep
  PROVE  /\ run' \in [Places -> GoodRun \cup {Nil}]
         /\ helpers' \subseteq Names \X Nodes /\ home' \in [Keys -> Nodes]
<1>0. /\ run \in [Places -> GoodRun \cup {Nil}] /\ TypeOK /\ GoodRun \subseteq Run
      /\ helpers \subseteq Names \X Nodes /\ home \in [Keys -> Nodes]
  BY DEF SystemTypeInv, SystemTypeOK, GoodRun
<1> DEFINE Typed == /\ run' \in [Places -> GoodRun \cup {Nil}]
                    /\ helpers' \subseteq Names \X Nodes
                    /\ home' \in [Keys -> Nodes]
<1>1. ASSUME NEW p \in Places, NEW r \in GoodRun \cup {Nil},
             run' = [run EXCEPT ![p] = r]
      PROVE  run' \in [Places -> GoodRun \cup {Nil}]
  BY <1>0, <1>1
<1>2. ASSUME NEW k \in Keys, StartRun(k) PROVE Typed
  <2> DEFINE r == [stage |-> "read", ns |-> cronJob[k].ns, arg |-> cronJob[k].arg,
                   token |-> TRUE, node |-> Nil, named |-> FALSE, pod |-> FALSE,
                   outcome |-> Nil]
  <2>1. cronJob[k] \in CronJobObject /\ <<k, "own">> \in Places
    BY <1>0, <1>2 DEF StartRun, TypeOK, Places
  <2>2. r \in Run
    BY <2>1 DEF CronJobObject, Run
  <2>3. r \in GoodRun
    BY <2>2 DEF GoodRun, ReadRun
  <2>4. run' = [run EXCEPT ![<<k, "own">>] = r] /\ UNCHANGED <<helpers, home>>
    BY <1>2 DEF StartRun
  <2> HIDE DEF r
  <2> QED BY <1>0, <1>1, <2>1, <2>3, <2>4
<1>3. ASSUME NEW p \in Places, NEW r \in Run, NEW o \in Outcomes, Finish(p, r, o)
      PROVE  run' \in [Places -> GoodRun \cup {Nil}]
  BY <1>0, <1>3, RunWrites DEF Finish
<1>4. ASSUME NEW p \in Places, ReadBackup(p) PROVE Typed
  <2>1. run[p] \in Run
    BY <1>0, <1>4 DEF ReadBackup, InStage
  <2>2. \/ /\ BackupOf(run[p]) \in Keys
           /\ run' = [run EXCEPT ![p] = [run[p] EXCEPT
                         !.node = home[BackupOf(run[p])], !.stage = "deploy"]]
        \/ Finish(p, run[p], "error")
        \/ Finish(p, run[p], "fault")
    BY <1>4 DEF ReadBackup
  <2>3. BackupOf(run[p]) \in Keys =>
          run[p].arg \in Names /\ home[BackupOf(run[p])] \in Nodes
    BY <1>0 DEF Keys, BackupOf
  <2>4. run' \in [Places -> GoodRun \cup {Nil}]
    BY <1>1, <1>3, <2>1, <2>2, <2>3, RunWrites DEF Outcomes
  <2> QED BY <1>0, <1>4, <2>4 DEF ReadBackup
<1>5. ASSUME NEW p \in Places, DeployHelper(p) PROVE Typed
  <2> DEFINE named == [run[p] EXCEPT !.named = TRUE]
  <2>1. run[p] \in Run /\ run[p].arg \in Names /\ run[p].node \in Nodes
    BY <1>0, <1>5 DEF DeployHelper, InStage, GoodRun, ReadRun
  <2>2. named \in Run /\ named.arg = run[p].arg /\ named.node = run[p].node
    BY <2>1, RunWrites
  <2>3. \/ run' = [run EXCEPT ![p] = [named EXCEPT !.pod = TRUE, !.stage = "save"]]
        \/ Finish(p, named, "error")
        \/ Finish(p, named, "fault")
    BY <1>5 DEF DeployHelper
  <2> HIDE DEF named
  <2>4. [named EXCEPT !.pod = TRUE, !.stage = "save"] \in GoodRun
    BY <2>1, <2>2, RunWrites
  <2>5. run' \in [Places -> GoodRun \cup {Nil}]
    BY <1>1, <1>3, <2>2, <2>3, <2>4 DEF Outcomes
  <2>6. helpers' \subseteq Names \X Nodes /\ home' \in [Keys -> Nodes]
    BY <1>0, <1>5, <2>1 DEF DeployHelper, DeployName
  <2> QED BY <2>5, <2>6
<1>6. ASSUME NEW p \in Places, Save(p) PROVE Typed
  <2>1. run[p] \in Run
    BY <1>0, <1>6 DEF Save, InStage
  <2>2. \E o \in Outcomes : Finish(p, run[p], o)
    BY <1>6 DEF Save, Outcomes
  <2> QED BY <1>0, <1>3, <1>6, <2>1, <2>2 DEF Save
<1>7. ASSUME NEW p \in Places, CleanUp(p) PROVE Typed
  <2>1. ASSUME NEW q \in Places, run[q] # Nil
        PROVE  [run[q] EXCEPT !.pod = FALSE] \in GoodRun
    BY <1>0, <2>1, RunWrites DEF GoodRun
  <2> QED BY <1>0, <1>7, <2>1 DEF CleanUp
<1>8. ASSUME NEW p \in Places, KillRun(p) PROVE Typed
  BY <1>0, <1>8 DEF KillRun
<1>9. ASSUME NEW k \in Keys, Reschedule(k) PROVE Typed
  BY <1>0, <1>9 DEF Reschedule
<1> QED BY <1>2, <1>4, <1>5, <1>6, <1>7, <1>8, <1>9 DEF RunStep, DoStep

\* They count what befalls them and leave the operator alone.
LEMMA RunStepLeaves ==
  ASSUME TypeOK, RunStep
  PROVE  TypeOK' /\ (spent' = spent \/ Spend("fault") \/ Spend("tamper"))
<1>1. UNCHANGED <<api, caches, queue, worker>>
  BY DEF RunStep
<1>2. spent' = spent \/ Spend("fault") \/ Spend("tamper")
  BY DEF RunStep, DoStep, StartRun, ReadBackup, DeployHelper, Save, CleanUp, KillRun,
         Reschedule
<1>3. spent' \in [Disturbances -> Nat]
  BY <1>2, SpendType DEF TypeOK, Disturbances
<1> QED BY <1>1, <1>2, <1>3 DEF TypeOK, api, caches, worker

\* SystemTypeInv is inductive.
LEMMA SystemTypeStep ==
  SystemTypeInv /\ [SystemNext]_<<vars, runVars>> => SystemTypeInv'
<1> SUFFICES ASSUME SystemTypeInv, [SystemNext]_<<vars, runVars>>
             PROVE  SystemTypeInv'
  OBVIOUS
<1>0. /\ TypeOK /\ run \in [Places -> GoodRun \cup {Nil}]
      /\ helpers \subseteq Names \X Nodes /\ home \in [Keys -> Nodes]
  BY DEF SystemTypeInv, SystemTypeOK
<1>1. ASSUME TypeOK', run' \in [Places -> GoodRun \cup {Nil}],
             helpers' \subseteq Names \X Nodes, home' \in [Keys -> Nodes]
      PROVE  SystemTypeInv'
  BY <1>1 DEF SystemTypeInv, SystemTypeOK, GoodRun
<1>2. CASE Next /\ RunsFollow
  <2>1. TypeOK'
    BY <1>0, <1>2, TypeStep
  <2>2. run' \in [Places -> GoodRun \cup {Nil}] /\ UNCHANGED <<helpers, home>>
    BY <1>0, <1>2, RunsFollowType DEF RunsFollow
  <2> QED BY <1>0, <1>1, <2>1, <2>2
<1>3. CASE RunStep
  BY <1>0, <1>1, <1>3, RunStepType, RunStepLeaves
<1>4. CASE UNCHANGED <<vars, runVars>>
  <2>1. TypeOK'
    BY <1>0, <1>4, TypeStep
  <2> QED BY <1>0, <1>1, <1>4, <2>1 DEF runVars
<1> QED BY <1>2, <1>3, <1>4 DEF SystemNext

\* SystemTypeOK, for any namespaces, names and targets: the operator and the
\* runs write well-formed objects, and only a Backup has helpers, although a
\* run's argument is the name of a target (Do reads the Backup of that name
\* first).
THEOREM SystemTypeCorrect == SystemSpec => []SystemTypeOK
<1>1. SystemInit => SystemTypeInv
  BY TypeInit, HomeAssumption DEF SystemInit, SystemTypeInv, SystemTypeOK
<1>2. SystemTypeInv => SystemTypeOK
  BY DEF SystemTypeInv
<1> QED BY <1>1, <1>2, SystemTypeStep, PTL DEF SystemSpec
-----------------------------------------------------------------------------
(* What an undisturbed Backup was granted it keeps.                        *)

Undisturbed(k) == Live(k) /\ spent.tamper = 0

\* What a run needs.
SetUp(k) == serviceAccount[k.ns] # Nil /\ clusterRole /\ binding[k.ns]

\* Before the first Backup nothing has been set up.
NothingInv(k) ==
  spent.create = 0 =>
    /\ serviceAccount[k.ns] = Nil /\ saCache[k.ns] = Nil
    /\ ~clusterRole /\ ~roleCache /\ cronJob[k] = Nil

\* What the cache shows exists, the worker has seen to the objects of the
\* stages behind it, and the CronJob comes last.
SetupInv(k) ==
  Undisturbed(k) =>
    /\ saCache[k.ns] # Nil => serviceAccount[k.ns] # Nil
    /\ roleCache => clusterRole
    /\ bindingCache[k.ns] => binding[k.ns]
    /\ serviceAccount[k.ns] # Nil => serviceAccount[k.ns].uid = backup[k].uid
    /\ cronJob[k] # Nil => cronJob[k].owner.uid = backup[k].uid /\ SetUp(k)
    /\ pc \notin {"idle", "serviceAccount"} => serviceAccount[k.ns] # Nil
    /\ pc \notin {"idle"} \cup ToRole => clusterRole
    /\ pc \notin {"idle"} \cup ToBinding => binding[k.ns]

\* Nothing of it is lost in a step.
Kept(k) ==
  /\ serviceAccount[k.ns] # Nil => serviceAccount'[k.ns] # Nil
  /\ clusterRole => clusterRole'
  /\ binding[k.ns] => binding'[k.ns]
  /\ cronJob[k] # Nil => cronJob'[k] # Nil

\* Deletions by hand are counted.
LEMMA TamperCount ==
  ASSUME TypeOK, [Next]_vars, spent'.tamper = 0
  PROVE  spent.tamper = 0 /\ \A kind \in Kinds : ~Tamper(kind)
<1>0. spent.tamper \in Nat /\ spent \in [Disturbances -> Nat]
  BY DEF TypeOK, Disturbances
<1>1. ASSUME NEW d \in Disturbances, Spend(d)
      PROVE  spent.tamper = 0 /\ d # "tamper"
  <2>1. CASE d = "tamper"
    BY <1>0, <1>1, <2>1 DEF Spend, Disturbances
  <2>2. CASE d # "tamper"
    BY <1>0, <1>1, <2>2 DEF Spend, Disturbances
  <2> QED BY <2>1, <2>2
<1>2. spent' = spent \/ \E d \in Disturbances : Spend(d)
  BY DEF Next, WorkerStep, APIError, ReconcileServiceAccount,
         ReconcileClusterRole, ReconcileClusterRoleBinding, ReconcileCronJob,
         AddFinalizer, FinalizerSettled, DeleteExternalResources,
         RemoveFinalizer, Proceed, Complete, Reconcile, ClusterStep, SyncBackup,
         SyncServiceAccount, SyncClusterRole, SyncClusterRoleBinding,
         SyncCronJob, CollectServiceAccount, CollectCronJob,
         ReleaseForeground, UserStep, CreateBackup, EditBackup, DeleteBackup,
         Tamper, Restart, vars, Disturbances
<1>3. ASSUME NEW kind \in Kinds, Tamper(kind) PROVE FALSE
  <2>1. Spend("tamper")
    BY <1>3 DEF Tamper
  <2> QED BY <1>1, <2>1 DEF Disturbances
<1> QED BY <1>1, <1>2, <1>3

\* A Backup that is undisturbed after a step was so before, or is created.
LEMMA UndisturbedBefore ==
  ASSUME OneBackup, NEW k \in Keys, TypeOK, DeletionInv(k), [Next]_vars,
         Undisturbed(k)'
  PROVE  \/ Undisturbed(k) /\ backup'[k].uid = backup[k].uid
         \/ \E spec \in BackupSpec : CreateBackup(k, spec)
<1>1. spent.tamper = 0
  BY TamperCount DEF Undisturbed
<1>2. ASSUME Newer(k) PROVE Undisturbed(k) /\ backup'[k].uid = backup[k].uid
  BY <1>1, <1>2 DEF Newer, Older, Live, Undisturbed
<1> QED BY <1>2, NewerStep

\* What is collected has lost its owner; what handleFinalizer deletes belongs to
\* a Backup in deletion.
LEMMA KeptStep ==
  ASSUME OneBackup, NEW k \in Keys, TypeOK, OwnedInv, CoreInv(k), SetupInv(k),
         [Next]_vars, Undisturbed(k), Undisturbed(k)'
  PROVE  Kept(k)
<1> USE NilAssumption
<1>0. /\ k.ns \in Namespaces /\ \A ns \in Namespaces : ns = k.ns
      /\ \A l \in Keys : l = k
      /\ \A n \in Names : [ns |-> k.ns, name |-> n] = k
  BY OneKey DEF Keys, OneBackup
<1>1. \A kind \in Kinds : ~Tamper(kind)
  BY TamperCount DEF Undisturbed
<1>2. backup[k] # Nil /\ ~backup[k].deleting /\ ~backup[k].hold
  BY DEF Undisturbed, Live, CoreInv, DeletionInv
<1>3. ASSUME NEW r \in OwnerRef, r.uid = backup[k].uid PROVE ~Collectable(k.ns, r)
  <2>1. [ns |-> k.ns, name |-> r.name] = k
    BY <1>0 DEF OwnerRef
  <2> QED BY <1>2, <1>3, <2>1 DEF Collectable
<1>4. ASSUME pc # "idle" PROVE ~obj.deleting
  BY <1>2, <1>4 DEF CoreInv, CopiesInv, Older
<1>5. ASSUME CollectServiceAccount(k.ns) PROVE FALSE
  <2>1. serviceAccount[k.ns] \in OwnerRef
    BY <1>0, <1>5 DEF CollectServiceAccount, Collectable, TypeOK
  <2>2. serviceAccount[k.ns].uid = backup[k].uid
    BY <2>1 DEF SetupInv
  <2> QED BY <1>3, <1>5, <2>1, <2>2 DEF CollectServiceAccount
<1>6. ASSUME CollectCronJob(k) PROVE FALSE
  <2>1. cronJob[k] \in CronJobObject /\ cronJob[k].owner # Nil
    BY <1>6 DEF CollectCronJob, TypeOK, OwnedInv
  <2>2. cronJob[k].owner \in OwnerRef
    BY <2>1 DEF CronJobObject
  <2>3. cronJob[k].owner.uid = backup[k].uid
    BY <2>1 DEF SetupInv
  <2> QED BY <1>3, <1>6, <2>2, <2>3 DEF CollectCronJob
<1>7. ASSUME UNCHANGED <<serviceAccount, clusterRole, binding, cronJob>> PROVE Kept(k)
  BY <1>7 DEF Kept
<1>8. CASE ReconcileServiceAccount
  <2>1. req = k /\ obj \in BackupObject
    BY <1>0, <1>8 DEF ReconcileServiceAccount, TypeOK
  <2>2. serviceAccountForBackup(req, obj) \in OwnerRef
    BY <2>1, CronJobForBackupType
  <2>3. serviceAccount[k.ns] # Nil => serviceAccount'[k.ns] # Nil
    BY <1>0, <1>8, <2>1, <2>2 DEF ReconcileServiceAccount, TypeOK
  <2> QED BY <1>8, <2>3 DEF ReconcileServiceAccount, Kept
<1>9. CASE ReconcileClusterRole
  BY <1>9 DEF ReconcileClusterRole, Kept
<1>10. CASE ReconcileClusterRoleBinding
  <2>1. binding' = binding \/ binding' = [binding EXCEPT ![req.ns] = TRUE]
    BY <1>10 DEF ReconcileClusterRoleBinding
  <2>2. binding \in [Namespaces -> BOOLEAN]
    BY DEF TypeOK
  <2>3. binding[k.ns] => binding'[k.ns]
    BY <1>0, <2>1, <2>2
  <2> QED BY <1>10, <2>3 DEF ReconcileClusterRoleBinding, Kept
<1>11. CASE ReconcileCronJob
  <2>1. req = k /\ obj \in BackupObject
    BY <1>0, <1>11 DEF ReconcileCronJob, TypeOK
  <2>2. cronJobForBackup(req, obj) \in CronJobObject /\ CronJobKey(req) = k
    BY <2>1, CronJobForBackupType, OneKey
  <2>3. cronJob[k] # Nil => cronJob'[k] # Nil
    BY <1>11, <2>1, <2>2 DEF ReconcileCronJob, TypeOK
  <2> QED BY <1>11, <2>3 DEF ReconcileCronJob, Kept
<1>12. CASE DeleteExternalResources
  BY <1>4, <1>12 DEF DeleteExternalResources
<1>13. CASE WorkerStep
  BY <1>7, <1>8, <1>9, <1>10, <1>11, <1>12, <1>13
     DEF WorkerStep, AddFinalizer, FinalizerSettled, RemoveFinalizer, api
<1>14. CASE ClusterStep
  BY <1>0, <1>5, <1>6, <1>7, <1>14
     DEF ClusterStep, SyncBackup, SyncServiceAccount, SyncClusterRole,
         SyncClusterRoleBinding, SyncCronJob, ReleaseForeground, api
<1>15. CASE UserStep
  BY <1>1, <1>7, <1>15 DEF UserStep, CreateBackup, EditBackup, DeleteBackup
<1>16. CASE APIError \/ Restart \/ (\E l \in Keys : Reconcile(l)) \/ UNCHANGED vars
  BY <1>7, <1>16 DEF APIError, Restart, Reconcile, vars, api
<1> QED BY <1>13, <1>14, <1>15, <1>16 DEF Next
\* The other caches, too, take over what the API server has.
LEMMA ManagedCacheMoves ==
  ASSUME OneBackup, NEW k \in Keys, TypeOK, [Next]_vars
  PROVE  /\ saCache'[k.ns] \in {saCache[k.ns], serviceAccount[k.ns]}
         /\ roleCache' \in {roleCache, clusterRole}
         /\ bindingCache'[k.ns] \in {bindingCache[k.ns], binding[k.ns]}
<1> DEFINE Moves ==
      /\ saCache'[k.ns] \in {saCache[k.ns], serviceAccount[k.ns]}
      /\ roleCache' \in {roleCache, clusterRole}
      /\ bindingCache'[k.ns] \in {bindingCache[k.ns], binding[k.ns]}
<1>0. k.ns \in Namespaces
  BY DEF Keys
<1>1. ASSUME UNCHANGED <<saCache, roleCache, bindingCache>> PROVE Moves
  BY <1>1
<1>2. ASSUME NEW ns \in Namespaces, SyncServiceAccount(ns) PROVE Moves
  <2>1. ns = k.ns
    BY OneKey
  <2> QED BY <1>0, <1>2, <2>1 DEF SyncServiceAccount, TypeOK
<1>3. ASSUME NEW ns \in Namespaces, SyncClusterRoleBinding(ns) PROVE Moves
  <2>1. ns = k.ns
    BY OneKey
  <2> QED BY <1>0, <1>3, <2>1 DEF SyncClusterRoleBinding, TypeOK
<1>4. CASE SyncClusterRole
  BY <1>4 DEF SyncClusterRole
<1>5. CASE Restart
  BY <1>5 DEF Restart
<1>6. CASE ClusterStep
  BY <1>1, <1>2, <1>3, <1>4, <1>6
     DEF ClusterStep, SyncBackup, SyncCronJob, CollectServiceAccount,
         CollectCronJob, ReleaseForeground, caches
<1>7. CASE WorkerStep \/ UserStep \/ APIError \/ (\E l \in Keys : Reconcile(l))
  BY <1>1, <1>7
     DEF WorkerStep, ReconcileServiceAccount, ReconcileClusterRole,
         ReconcileClusterRoleBinding, ReconcileCronJob, AddFinalizer,
         FinalizerSettled, DeleteExternalResources, RemoveFinalizer, UserStep,
         CreateBackup, EditBackup, DeleteBackup, Tamper, APIError, Reconcile,
         caches
<1>8. CASE UNCHANGED vars
  BY <1>1, <1>8 DEF vars, caches
<1> QED BY <1>5, <1>6, <1>7, <1>8 DEF Next

\* The ServiceAccount and the CronJob are what they were, are gone, or belong
\* to the Backup the worker has a copy of.
LEMMA ManagedWrites ==
  ASSUME OneBackup, NEW k \in Keys, TypeOK, [Next]_vars
  PROVE  /\ \/ serviceAccount'[k.ns] \in {serviceAccount[k.ns], Nil}
            \/ pc # "idle" /\ serviceAccount'[k.ns].uid = obj.uid
         /\ \/ cronJob'[k] \in {cronJob[k], Nil}
            \/ pc = "cronJob" /\ cronJob'[k].owner.uid = obj.uid
<1> DEFINE Writes ==
      /\ \/ serviceAccount'[k.ns] \in {serviceAccount[k.ns], Nil}
         \/ pc # "idle" /\ serviceAccount'[k.ns].uid = obj.uid
      /\ \/ cronJob'[k] \in {cronJob[k], Nil}
         \/ pc = "cronJob" /\ cronJob'[k].owner.uid = obj.uid
<1>0. k.ns \in Namespaces
  BY DEF Keys
<1>1. ASSUME UNCHANGED <<serviceAccount, cronJob>> PROVE Writes
  BY <1>1
<1>2. CASE ReconcileServiceAccount
  <2>1. pc # "idle" /\ req = k /\ UNCHANGED cronJob
    BY <1>2 DEF ReconcileServiceAccount, TypeOK, OneBackup
  <2>2. serviceAccountForBackup(k, obj).uid = obj.uid
    BY DEF serviceAccountForBackup, ControllerRef
  <2>3. \/ serviceAccount' = serviceAccount
        \/ serviceAccount' =
             [serviceAccount EXCEPT ![k.ns] = serviceAccountForBackup(k, obj)]
    BY <1>2, <2>1 DEF ReconcileServiceAccount
  <2>4. \/ serviceAccount'[k.ns] = serviceAccount[k.ns]
        \/ serviceAccount'[k.ns] = serviceAccountForBackup(k, obj)
    BY <1>0, <2>3 DEF TypeOK
  <2> QED BY <2>1, <2>2, <2>4
<1>3. CASE ReconcileCronJob
  <2>1. pc = "cronJob" /\ req = k /\ UNCHANGED serviceAccount
    BY <1>3 DEF ReconcileCronJob, TypeOK, OneBackup
  <2>2. cronJobForBackup(k, obj).owner.uid = obj.uid /\ CronJobKey(k) = k
    BY OneKey DEF cronJobForBackup
  <2>3. \/ cronJob' = cronJob
        \/ cronJob' = [cronJob EXCEPT ![k] = cronJobForBackup(k, obj)]
    BY <1>3, <2>1, <2>2 DEF ReconcileCronJob
  <2>4. cronJob'[k] = cronJob[k] \/ cronJob'[k] = cronJobForBackup(k, obj)
    BY <2>3 DEF TypeOK
  <2> QED BY <2>1, <2>2, <2>4
<1>4. ASSUME WorkerStep PROVE Writes
  BY <1>1, <1>2, <1>3, <1>4
     DEF WorkerStep, ReconcileClusterRole, ReconcileClusterRoleBinding,
         AddFinalizer, FinalizerSettled, DeleteExternalResources,
         RemoveFinalizer, api
<1>5. ASSUME NEW ns \in Namespaces, serviceAccount' = [serviceAccount EXCEPT ![ns] = Nil],
             UNCHANGED cronJob
      PROVE  Writes
  BY <1>0, <1>5 DEF TypeOK
<1>6. ASSUME NEW l \in Keys, cronJob' = [cronJob EXCEPT ![l] = Nil],
             UNCHANGED serviceAccount
      PROVE  Writes
  BY <1>6 DEF TypeOK
<1> HIDE DEF Writes
<1>7. ASSUME ClusterStep PROVE Writes
  BY <1>1, <1>5, <1>6, <1>7
     DEF ClusterStep, SyncBackup, SyncServiceAccount, SyncClusterRole,
         SyncClusterRoleBinding, SyncCronJob, CollectServiceAccount,
         CollectCronJob, ReleaseForeground, api
<1>8. ASSUME UserStep PROVE Writes
  <2>1. ASSUME NEW kind \in Kinds, Tamper(kind) PROVE Writes
    BY <1>1, <1>5, <1>6, <2>1 DEF Tamper
  <2> QED BY <1>1, <1>8, <2>1 DEF UserStep, CreateBackup, EditBackup, DeleteBackup
<1>9. ASSUME APIError \/ Restart \/ (\E l \in Keys : Reconcile(l)) \/ UNCHANGED vars
      PROVE  Writes
  BY <1>1, <1>9 DEF APIError, Restart, Reconcile, vars, api
<1>10. Writes
  BY <1>4, <1>7, <1>8, <1>9 DEF Next
<1> QED BY <1>10 DEF Writes

\* The worker's way through the stages: it leaves one behind when the cache
\* shows the object.
LEMMA StageMoves ==
  ASSUME OneBackup, NEW k \in Keys, TypeOK, [Next]_vars
  PROVE  \/ pc' \in {"idle", "serviceAccount"} \/ pc' = pc
         \/ pc = "serviceAccount" /\ pc' = "clusterRole" /\ saCache[k.ns] # Nil
         \/ pc = "clusterRole" /\ pc' = "binding" /\ roleCache
         \/ pc = "binding" /\ pc' = "cronJob" /\ bindingCache[k.ns]
         \/ pc = "cronJob" /\ pc' = "finalizer"
         \/ pc = "finalizer" /\ pc' = "removeFinalizer"
<1>1. pc # "idle" => req = k
  BY DEF TypeOK, OneBackup
<1>2. CASE WorkerStep
  BY <1>1, <1>2
     DEF WorkerStep, ReconcileServiceAccount, ReconcileClusterRole,
         ReconcileClusterRoleBinding, ReconcileCronJob, AddFinalizer,
         FinalizerSettled, DeleteExternalResources, RemoveFinalizer, Proceed, Complete,
         Goto, Return
<1>3. CASE APIError
  <2>1. CASE ErrorIgnored
    BY <1>1, <1>3, <2>1 DEF APIError, ErrorIgnored, Goto
  <2>2. CASE ~ErrorIgnored
    BY <1>3, <2>2 DEF APIError, Return
  <2> QED BY <2>1, <2>2
<1>4. CASE \E l \in Keys : Reconcile(l)
  BY <1>4 DEF Reconcile, worker
<1>5. CASE ClusterStep
  BY <1>5
     DEF ClusterStep, SyncBackup, SyncServiceAccount, SyncClusterRole,
         SyncClusterRoleBinding, SyncCronJob, CollectServiceAccount,
         CollectCronJob, ReleaseForeground, worker
<1>6. CASE UserStep \/ Restart \/ UNCHANGED vars
  BY <1>6
     DEF UserStep, CreateBackup, EditBackup, DeleteBackup, Tamper, Restart,
         vars, worker
<1> QED BY <1>2, <1>3, <1>4, <1>5, <1>6 DEF Next

\* NothingInv is kept.
LEMMA NothingStep ==
  ASSUME OneBackup, NEW k \in Keys, TypeOK, TypeOK', CoreInv(k), NothingInv(k),
         [Next]_vars
  PROVE  NothingInv(k)'
<1> SUFFICES ASSUME spent'.create = 0
             PROVE  /\ serviceAccount'[k.ns] = Nil /\ saCache'[k.ns] = Nil
                    /\ ~clusterRole' /\ ~roleCache' /\ cronJob'[k] = Nil
  BY DEF NothingInv
<1>1. spent.create = 0
  BY CreateCount DEF TypeOK, Disturbances
<1>2. /\ pc = "idle" /\ serviceAccount[k.ns] = Nil /\ saCache[k.ns] = Nil
      /\ ~clusterRole /\ ~roleCache /\ cronJob[k] = Nil
  BY <1>1 DEF CoreInv, UnbornInv, NothingInv
<1>3. serviceAccount'[k.ns] = Nil /\ cronJob'[k] = Nil
  BY <1>2, ManagedWrites
<1>4. saCache'[k.ns] = Nil /\ ~roleCache'
  BY <1>2, ManagedCacheMoves
<1>5. ~clusterRole'
  BY <1>2
  DEF Next, WorkerStep, APIError, ReconcileServiceAccount,
      ReconcileClusterRole, ReconcileClusterRoleBinding, ReconcileCronJob,
      AddFinalizer, FinalizerSettled, DeleteExternalResources,
      RemoveFinalizer, Reconcile, ClusterStep, SyncBackup,
      SyncServiceAccount, SyncClusterRole, SyncClusterRoleBinding,
      SyncCronJob, CollectServiceAccount, CollectCronJob,
      ReleaseForeground, UserStep, CreateBackup, EditBackup, DeleteBackup,
      Tamper, Restart, vars, api
<1> QED BY <1>3, <1>4, <1>5

\* SetupInv is kept.
LEMMA SetupStep ==
  ASSUME OneBackup, Limit.create <= 1, NEW k \in Keys, TypeOK, TypeOK', OwnedInv,
         CoreInv(k), NothingInv(k), SetupInv(k), [Next]_vars
  PROVE  SetupInv(k)'
<1> SUFFICES ASSUME Undisturbed(k)' PROVE SetupInv(k)'
  BY DEF SetupInv
<1>1. ASSUME NEW spec \in BackupSpec, CreateBackup(k, spec) PROVE SetupInv(k)'
  <2>1. /\ UNCHANGED <<serviceAccount, cronJob, clusterRole, saCache, roleCache>>
        /\ pc' = "idle" /\ ~bindingCache'[k.ns]
    BY <1>1, CreateFirst DEF CreateBackup, caches, CoreInv
  <2>2. spent.create = 0
    <3>1. spent.create \in Nat /\ Limit.create \in Nat
      BY LimitAssumption DEF TypeOK, Disturbances
    <3> QED BY <1>1, <3>1 DEF CreateBackup, Spend
  <2>3. /\ serviceAccount'[k.ns] = Nil /\ saCache'[k.ns] = Nil
        /\ ~roleCache' /\ cronJob'[k] = Nil
    BY <2>1, <2>2 DEF NothingInv
  <2> QED BY <2>1, <2>3 DEF SetupInv
<1>2. ASSUME Undisturbed(k), backup'[k].uid = backup[k].uid PROVE SetupInv(k)'
  <2>0. Kept(k)
    BY <1>2, KeptStep
  <2>1. pc # "idle" => obj.uid = backup'[k].uid
    BY <1>2 DEF CoreInv, CopiesInv, Older, Undisturbed, Live
  <2>2. /\ saCache'[k.ns] # Nil => serviceAccount'[k.ns] # Nil
        /\ roleCache' => clusterRole'
        /\ bindingCache'[k.ns] => binding'[k.ns]
    BY <1>2, <2>0, ManagedCacheMoves DEF Kept, SetupInv
  <2>3. serviceAccount'[k.ns] # Nil => serviceAccount'[k.ns].uid = backup'[k].uid
    BY <1>2, <2>1, ManagedWrites DEF SetupInv
  <2>4. SetUp(k) => SetUp(k)'
    BY <2>0 DEF Kept, SetUp
  <2>5. pc = "cronJob" => SetUp(k)
    BY <1>2 DEF SetupInv, SetUp, ToRole, ToBinding
  <2>6. cronJob'[k] # Nil =>
          cronJob'[k].owner.uid = backup'[k].uid /\ SetUp(k)'
    BY <1>2, <2>1, <2>4, <2>5, ManagedWrites DEF SetupInv
  <2>7. /\ pc' \notin {"idle", "serviceAccount"} => serviceAccount'[k.ns] # Nil
        /\ pc' \notin {"idle"} \cup ToRole => clusterRole'
        /\ pc' \notin {"idle"} \cup ToBinding => binding'[k.ns]
    BY <1>2, <2>0, StageMoves DEF Kept, SetupInv, ToRole, ToBinding
  <2> QED BY <2>2, <2>3, <2>6, <2>7 DEF SetupInv
<1> QED BY <1>1, <1>2, UndisturbedBefore DEF CoreInv
-----------------------------------------------------------------------------
(* Runs of an undisturbed Backup.                                          *)

\* Before the first Backup there are no runs.
NoRunsInv == spent.create = 0 => \A p \in Places : run[p] = Nil

\* A run of Backup k that has met no error.
Healthy(k, r) ==
  /\ r.token /\ r.ns = k.ns
  /\ r.stage = "save" => r.pod
  /\ r.arg = k.name => r.outcome # "error"

\* A run of an undisturbed Backup is the run of its CronJob, has what it needs,
\* and has met no error.
RunInv(k) ==
  Undisturbed(k) =>
    /\ run[<<k, "orphan">>] = Nil
    /\ run[<<k, "own">>] # Nil => SetUp(k) /\ Healthy(k, run[<<k, "own">>])

\* The ClusterRole of the template covers what Do does.
LEMMA RoleCovers ==
  /\ ReadRights \subseteq ClusterRoleForBackup
  /\ DeployRights \subseteq ClusterRoleForBackup
  /\ SaveRights \subseteq ClusterRoleForBackup
<1> USE DEF ClusterRoleForBackup, Rules, View
<1>1. ReadRights \subseteq ClusterRoleForBackup
  BY DEF ReadRights
<1>2. DeployRights \subseteq ClusterRoleForBackup
  BY DEF DeployRights
<1>3. SaveRights \subseteq ClusterRoleForBackup
  BY DEF SaveRights
<1> QED BY <1>1, <1>2, <1>3

\* The steps of the operator, the users and the cluster leave the run of an
\* undisturbed Backup alone.
LEMMA RunFollows ==
  ASSUME OneBackup, Limit.create <= 1, NEW k \in Keys, SystemTypeInv, TypeOK',
         OwnedInv, CoreInv(k), SetupInv(k), NoRunsInv, RunInv(k), Next, RunsFollow
  PROVE  NoRunsInv' /\ RunInv(k)'
<1> DEFINE gone(l) == cronJob[l] # Nil /\ cronJob'[l] = Nil
           void == serviceAccount'[DefaultNS] = Nil
           Keeps(r) == IF r # Nil /\ void THEN [r EXCEPT !.token = FALSE] ELSE r
<1>0. TypeOK /\ k.ns = DefaultNS
  BY OneKey DEF SystemTypeInv, SystemTypeOK
<1>1. run' = [p \in Places |->
         IF gone(p[1]) /\ run[<<p[1], "own">>] # Nil
           THEN IF p[2] = "own" THEN Nil ELSE Keeps(run[<<p[1], "own">>])
           ELSE Keeps(run[p])]
  BY DEF RunsFollow
<1>2. ASSUME NEW p \in Places PROVE <<p[1], "own">> \in Places
  BY DEF Places
<1>3. ASSUME \A p \in Places : run[p] = Nil PROVE \A p \in Places : run'[p] = Nil
  BY <1>1, <1>2, <1>3
<1>4. NoRunsInv'
  <2>1. spent'.create = 0 => spent.create = 0
    BY <1>0, CreateCount DEF TypeOK, Disturbances
  <2> QED BY <1>3, <2>1 DEF NoRunsInv
<1>5. <<k, "own">> \in Places /\ <<k, "orphan">> \in Places
  BY DEF Places
<1>6. ASSUME NEW spec \in BackupSpec, CreateBackup(k, spec) PROVE RunInv(k)'
  <2>1. spent.create = 0
    <3>1. spent.create \in Nat /\ Limit.create \in Nat
      BY <1>0, LimitAssumption DEF TypeOK, Disturbances
    <3> QED BY <1>6, <3>1 DEF CreateBackup, Spend
  <2> QED BY <1>3, <1>5, <2>1 DEF NoRunsInv, RunInv
<1>7. ASSUME Undisturbed(k), Undisturbed(k)' PROVE RunInv(k)'
  <2>1. Kept(k)
    BY <1>0, <1>7, KeptStep
  <2>2. SetUp(k) => SetUp(k)'
    BY <2>1 DEF Kept, SetUp
  <2>3. ~gone(k)
    BY <2>1 DEF Kept
  <2>4. run'[<<k, "orphan">>] = Nil
    <3>1. run[<<k, "orphan">>] = Nil
      BY <1>7 DEF RunInv
    <3>2. run'[<<k, "orphan">>] = Keeps(run[<<k, "orphan">>])
      BY <1>1, <1>5, <2>3
    <3> QED BY <3>1, <3>2
  <2>5. run'[<<k, "own">>] = run[<<k, "own">>]
    <3>1. run'[<<k, "own">>] = Keeps(run[<<k, "own">>])
      BY <1>1, <1>5, <2>3
    <3>2. run[<<k, "own">>] # Nil => ~void
      BY <1>0, <1>7, <2>1 DEF RunInv, SetUp, Kept
    <3> QED BY <3>1, <3>2
  <2> QED BY <1>7, <2>2, <2>4, <2>5 DEF RunInv
<1>8. RunInv(k)'
  <2>1. CASE ~Undisturbed(k)'
    BY <2>1 DEF RunInv
  <2>2. CASE Undisturbed(k)'
    BY <1>0, <1>6, <1>7, <2>2, UndisturbedBefore DEF CoreInv
  <2> QED BY <2>1, <2>2
<1> QED BY <1>4, <1>8

\* The steps of a run leave what the operator has set up alone.
LEMMA SetupLeft ==
  ASSUME NEW k \in Keys, TypeOK, RunStep, OwnedInv, CoreInv(k), NothingInv(k),
         SetupInv(k)
  PROVE  /\ OwnedInv' /\ CoreInv(k)' /\ NothingInv(k)' /\ SetupInv(k)'
         /\ Undisturbed(k)' => Undisturbed(k)
         /\ SetUp(k)' <=> SetUp(k)
         /\ spent'.create = spent.create
<1>1. /\ UNCHANGED <<backup, serviceAccount, clusterRole, binding, cronJob>>
      /\ UNCHANGED <<backupCache, saCache, roleCache, bindingCache, cronJobCache>>
      /\ UNCHANGED <<queue, pc, req, obj>>
  BY DEF RunStep, api, caches, worker
<1>2. spent'.create = spent.create /\ (spent'.tamper = 0 => spent.tamper = 0)
  BY RunStepLeaves DEF Spend, TypeOK, Disturbances
<1>3. OwnedInv'
  BY <1>1 DEF OwnedInv
<1>4. CoreInv(k)'
  BY <1>1, <1>2 DEF CoreInv, CopiesInv, UnbornInv, DeletionInv
<1>5. NothingInv(k)'
  BY <1>1, <1>2 DEF NothingInv
<1>6. /\ Undisturbed(k)' => Undisturbed(k)
      /\ SetUp(k)' <=> SetUp(k)
  BY <1>1, <1>2 DEF Undisturbed, Live, SetUp
<1>7. SetupInv(k)'
  BY <1>1, <1>6 DEF SetupInv
<1> QED BY <1>2, <1>3, <1>4, <1>5, <1>6, <1>7
\* What the stages of Do write keeps a run healthy.
LEMMA HealthyWrites ==
  ASSUME NEW k \in Keys, NEW r \in Run, Healthy(k, r)
  PROVE  /\ \A n \in Nodes : Healthy(k, [r EXCEPT !.node = n, !.stage = "deploy"])
         /\ Healthy(k, [r EXCEPT !.named = TRUE])
         /\ Healthy(k, [r EXCEPT !.pod = TRUE, !.stage = "save"])
         /\ \A o \in Outcomes : (r.arg = k.name => o # "error") =>
              Healthy(k, [r EXCEPT !.stage = "clean", !.outcome = o])
<1>1. ASSUME NEW n \in Nodes
      PROVE  Healthy(k, [r EXCEPT !.node = n, !.stage = "deploy"])
  <2> DEFINE q == [r EXCEPT !.node = n, !.stage = "deploy"]
  <2>1. /\ q.token = r.token /\ q.ns = r.ns /\ q.arg = r.arg
        /\ q.outcome = r.outcome /\ q.stage = "deploy"
    BY DEF Run
  <2> HIDE DEF q
  <2>2. Healthy(k, q)
    BY <2>1 DEF Healthy
  <2> QED BY <2>2 DEF q
<1>2. Healthy(k, [r EXCEPT !.named = TRUE])
  <2> DEFINE q == [r EXCEPT !.named = TRUE]
  <2>1. /\ q.token = r.token /\ q.ns = r.ns /\ q.arg = r.arg
        /\ q.outcome = r.outcome /\ q.stage = r.stage /\ q.pod = r.pod
    BY DEF Run
  <2> HIDE DEF q
  <2>2. Healthy(k, q)
    BY <2>1 DEF Healthy
  <2> QED BY <2>2 DEF q
<1>3. Healthy(k, [r EXCEPT !.pod = TRUE, !.stage = "save"])
  <2> DEFINE q == [r EXCEPT !.pod = TRUE, !.stage = "save"]
  <2>1. /\ q.token = r.token /\ q.ns = r.ns /\ q.arg = r.arg
        /\ q.outcome = r.outcome /\ q.pod
    BY DEF Run
  <2> HIDE DEF q
  <2>2. Healthy(k, q)
    BY <2>1 DEF Healthy
  <2> QED BY <2>2 DEF q
<1>4. ASSUME NEW o \in Outcomes, r.arg = k.name => o # "error"
      PROVE  Healthy(k, [r EXCEPT !.stage = "clean", !.outcome = o])
  <2> DEFINE q == [r EXCEPT !.stage = "clean", !.outcome = o]
  <2>1. /\ q.token = r.token /\ q.ns = r.ns /\ q.arg = r.arg
        /\ q.outcome = o /\ q.stage = "clean"
    BY DEF Run
  <2> HIDE DEF q
  <2>2. Healthy(k, q)
    BY <1>4, <2>1 DEF Healthy
  <2> QED BY <2>2 DEF q
<1> QED BY <1>1, <1>2, <1>3, <1>4

\* A healthy run of a Backup that is set up meets no error.
LEMMA RunSucceeds ==
  ASSUME OneBackup, NEW k \in Keys, SystemTypeInv, OwnedInv, CoreInv(k),
         NothingInv(k), SetupInv(k), NoRunsInv, RunInv(k), RunStep
  PROVE  NoRunsInv' /\ RunInv(k)'
<1> DEFINE own == <<k, "own">>
           orphan == <<k, "orphan">>
<1>0. /\ TypeOK /\ run \in [Places -> Run \cup {Nil}]
      /\ k.ns = DefaultNS /\ k = [ns |-> k.ns, name |-> k.name]
      /\ \A l \in Keys : l = k
  BY OneKey DEF SystemTypeInv, SystemTypeOK, Keys, OneBackup
<1>1. /\ own \in Places /\ orphan \in Places /\ own # orphan
      /\ \A p \in Places : p = own \/ p = orphan
  BY <1>0 DEF Places
<1>2. /\ Undisturbed(k)' => Undisturbed(k)
      /\ SetUp(k)' <=> SetUp(k)
      /\ spent'.create = spent.create
  BY <1>0, SetupLeft
<1>3. NoRunsInv'
  <2> SUFFICES ASSUME spent.create = 0 PROVE UNCHANGED run
    BY <1>2 DEF NoRunsInv
  <2>1. cronJob[k] = Nil /\ \A p \in Places : run[p] = Nil
    BY DEF NothingInv, NoRunsInv
  <2> QED
    BY <1>0, <2>1
       DEF RunStep, DoStep, StartRun, ReadBackup, DeployHelper, Save, CleanUp,
           KillRun, Reschedule, InStage
<1>4. RunInv(k)'
  <2> SUFFICES ASSUME Undisturbed(k) PROVE RunInv(k)'
    BY <1>2 DEF RunInv
  <2> HIDE DEF own, orphan
  <2>0. run[orphan] = Nil
    BY DEF RunInv, orphan
  <2>1. ASSUME NEW r, run' = [run EXCEPT ![own] = r],
               r # Nil => SetUp(k) /\ Healthy(k, r)
        PROVE  RunInv(k)'
    <3>1. run'[own] = r /\ run'[orphan] = Nil
      BY <1>0, <1>1, <2>0, <2>1
    <3> QED BY <1>2, <2>1, <3>1 DEF RunInv, own, orphan
  <2>2. CASE \E l \in Keys : StartRun(l)
    <3> DEFINE r == [stage |-> "read", ns |-> cronJob[k].ns, arg |-> cronJob[k].arg,
                     token |-> TRUE, node |-> Nil, named |-> FALSE, pod |-> FALSE,
                     outcome |-> Nil]
    <3>1. StartRun(k)
      BY <1>0, <2>2
    <3>2. run' = [run EXCEPT ![own] = r] /\ cronJob[k] # Nil
      BY <3>1 DEF StartRun, own
    <3>3. cronJob[k].ns = k.ns /\ SetUp(k)
      BY <3>2 DEF OwnedInv, SetupInv
    <3>4. Healthy(k, r)
      BY <3>3, OutcomeAssumption DEF Healthy
    <3> HIDE DEF r
    <3> QED BY <2>1, <3>2, <3>3, <3>4
  <2>3. ASSUME NEW p \in Places, DoStep(p) \/ KillRun(p)
        PROVE  p = own /\ run[own] \in Run /\ SetUp(k) /\ Healthy(k, run[own])
    <3>1. run[p] # Nil
      BY <2>3 DEF DoStep, KillRun, ReadBackup, DeployHelper, Save, CleanUp, InStage
    <3>2. p = own
      BY <1>1, <2>0, <2>3, <3>1
    <3> QED BY <1>0, <1>1, <3>1, <3>2 DEF RunInv, own
  <2>4. ASSUME NEW rights, rights \subseteq ClusterRoleForBackup,
               SetUp(k), Healthy(k, run[own])
        PROVE  Granted(own, rights)
    BY <1>0, <2>4 DEF Granted, SetUp, Healthy
  <2>5. ASSUME NEW r \in Run, NEW o \in Outcomes, Finish(own, r, o),
               SetUp(k), Healthy(k, r), r.arg = k.name => o # "error"
        PROVE  RunInv(k)'
    <3> DEFINE q == [r EXCEPT !.stage = "clean", !.outcome = o]
    <3>1. Healthy(k, q)
      BY <2>5, HealthyWrites
    <3>2. run' = [run EXCEPT ![own] = q]
      BY <2>5 DEF Finish
    <3> HIDE DEF q
    <3> QED BY <2>1, <2>5, <3>1, <3>2
  <2>6. ASSUME NEW p \in Places, ReadBackup(p) PROVE RunInv(k)'
    <3>1. p = own /\ run[own] \in Run /\ SetUp(k) /\ Healthy(k, run[own])
      BY <2>3, <2>6 DEF DoStep
    <3>2. Granted(own, ReadRights)
      BY <2>4, <3>1, RoleCovers
    <3> DEFINE of == BackupOf(run[own])
               q == [run[own] EXCEPT !.node = home[of], !.stage = "deploy"]
    <3>3. run[own].arg = k.name => of \in Keys /\ backup[of] # Nil
      BY <1>0, <3>1 DEF Healthy, Undisturbed, Live, BackupOf
    <3>4. \/ of \in Keys /\ run' = [run EXCEPT ![own] = q]
          \/ run[own].arg # k.name /\ Finish(own, run[own], "error")
          \/ Finish(own, run[own], "fault")
      BY <2>6, <3>1, <3>2, <3>3 DEF ReadBackup
    <3>5. of \in Keys => Healthy(k, q)
      BY <3>1, HealthyWrites DEF SystemTypeInv, SystemTypeOK
    <3> HIDE DEF q
    <3> QED BY <2>1, <2>5, <3>1, <3>4, <3>5 DEF Outcomes
  <2>7. ASSUME NEW p \in Places, DeployHelper(p) PROVE RunInv(k)'
    <3> DEFINE named == [run[own] EXCEPT !.named = TRUE]
               q == [named EXCEPT !.pod = TRUE, !.stage = "save"]
    <3>1. p = own /\ run[own] \in Run /\ SetUp(k) /\ Healthy(k, run[own])
      BY <2>3, <2>7 DEF DoStep
    <3>2. Granted(own, DeployRights)
      BY <2>4, <3>1, RoleCovers
    <3>3. named \in Run /\ Healthy(k, named)
      BY <3>1, RunWrites, HealthyWrites
    <3>4. run' = [run EXCEPT ![own] = q] \/ Finish(own, named, "fault")
      BY <2>7, <3>1, <3>2 DEF DeployHelper
    <3> HIDE DEF named
    <3>5. Healthy(k, q)
      BY <3>3, HealthyWrites
    <3> HIDE DEF q
    <3> QED BY <2>1, <2>5, <3>1, <3>3, <3>4, <3>5 DEF Outcomes
  <2>8. ASSUME NEW p \in Places, Save(p) PROVE RunInv(k)'
    <3>1. p = own /\ run[own] \in Run /\ SetUp(k) /\ Healthy(k, run[own])
      BY <2>3, <2>8 DEF DoStep
    <3>2. Granted(own, SaveRights) /\ run[own].pod
      BY <2>4, <2>8, <3>1, RoleCovers DEF Save, InStage, Healthy
    <3>3. \E o \in {"ok", "fault", "moved"} : Finish(own, run[own], o)
      BY <2>8, <3>1, <3>2 DEF Save
    <3> QED BY <2>5, <3>1, <3>3 DEF Outcomes
  <2>9. ASSUME NEW p \in Places, CleanUp(p) PROVE RunInv(k)'
    <3>1. p = own
      BY <2>3, <2>9 DEF DoStep
    <3>2. run'[own] = Nil /\ run'[orphan] = Nil
      BY <1>1, <2>0, <2>9, <3>1 DEF CleanUp
    <3> QED BY <3>2 DEF RunInv, own, orphan
  <2>10. ASSUME NEW p \in Places, KillRun(p) PROVE RunInv(k)'
    <3>1. p = own
      BY <2>3, <2>10
    <3> QED BY <2>1, <2>10, <3>1 DEF KillRun
  <2>11. ASSUME NEW l \in Keys, Reschedule(l) PROVE RunInv(k)'
    <3>1. UNCHANGED run
      BY <2>11 DEF Reschedule
    <3> QED BY <1>2, <3>1 DEF RunInv
  <2> QED BY <2>2, <2>6, <2>7, <2>8, <2>9, <2>10, <2>11 DEF RunStep, DoStep
<1> QED BY <1>3, <1>4

\* UndisturbedRunsSucceed, for any specifications and any number of edits,
\* faults, lost replies and restarts: Reconcile creates the CronJob when
\* everything its runs need is there, and what is there stays as long as the
\* Backup is live and nobody deletes managed objects by hand.  The hypotheses
\* are those of RestTheorem, but for the objects that may be deleted: a sibling,
\* or an earlier Backup of the same name, takes the rights with it.
THEOREM UndisturbedRuns ==
  ASSUME OneBackup, Limit.create <= 1
  PROVE  SystemSpec => []UndisturbedRunsSucceed
<1> DEFINE Inv == /\ SystemTypeInv /\ OwnedInv
                  /\ \A k \in Keys : /\ CoreInv(k) /\ NothingInv(k) /\ SetupInv(k)
                                     /\ RunInv(k)
                  /\ NoRunsInv
<1>1. SystemInit => Inv
  <2> SUFFICES ASSUME SystemInit PROVE Inv
    OBVIOUS
  <2>0. Init /\ SystemTypeInv /\ OwnedInv /\ NoRunsInv
    BY TypeInit, OwnedInit, HomeAssumption DEF SystemInit, SystemTypeInv, SystemTypeOK, NoRunsInv
  <2>1. ASSUME NEW k \in Keys
        PROVE  CoreInv(k) /\ NothingInv(k) /\ SetupInv(k) /\ RunInv(k)
    <3>1. k.ns \in Namespaces
      BY DEF Keys
    <3>2. CoreInv(k)
      BY <2>0, RestInit DEF RestInv
    <3>3. backup[k] = Nil
      BY <2>0 DEF Init
    <3>4. NothingInv(k)
      BY <2>0, <3>1 DEF Init, NothingInv
    <3> QED BY <3>2, <3>3, <3>4 DEF SetupInv, RunInv, Undisturbed, Live
  <2> QED BY <2>0, <2>1
<1>2. Inv /\ [SystemNext]_<<vars, runVars>> => Inv'
  <2> SUFFICES ASSUME Inv, [SystemNext]_<<vars, runVars>> PROVE Inv'
    OBVIOUS
  <2>0. SystemTypeInv' /\ TypeOK /\ TypeOK'
    BY SystemTypeStep DEF SystemTypeInv, SystemTypeOK
  <2>1. CASE Keys = {}
    BY <2>0, <2>1 DEF OwnedInv, NoRunsInv, Places
  <2>2. CASE Keys # {}
    <3>0. Namespaces = {DefaultNS}
      <4>1. PICK k \in Keys : TRUE
        BY <2>2
      <4> QED BY <4>1, OneKey, DefaultNSAssumption
    <3>1. CASE Next /\ RunsFollow
      <4>1. OwnedInv'
        BY <2>0, <3>0, <3>1, OwnedStep
      <4>2. ASSUME NEW k \in Keys
            PROVE  CoreInv(k)' /\ NothingInv(k)' /\ SetupInv(k)'
        BY <2>0, <3>1, RestCopies, RestUnborn, RestDeletion, NothingStep, SetupStep
           DEF CoreInv
      <4>3. ASSUME NEW k \in Keys PROVE NoRunsInv' /\ RunInv(k)'
        BY <2>0, <3>1, RunFollows
      <4> QED BY <2>0, <2>2, <4>1, <4>2, <4>3
    <3>2. CASE RunStep
      <4>1. ASSUME NEW k \in Keys
            PROVE  OwnedInv' /\ CoreInv(k)' /\ NothingInv(k)' /\ SetupInv(k)'
        BY <2>0, <3>2, SetupLeft
      <4>2. ASSUME NEW k \in Keys PROVE NoRunsInv' /\ RunInv(k)'
        BY <3>2, RunSucceeds
      <4> QED BY <2>0, <2>2, <4>1, <4>2
    <3>3. CASE UNCHANGED <<vars, runVars>>
      BY <2>0, <3>3
         DEF vars, runVars, api, caches, worker, OwnedInv, CoreInv, CopiesInv,
             UnbornInv, DeletionInv, NothingInv, SetupInv, RunInv, NoRunsInv,
             Undisturbed, Live, SetUp
    <3> QED BY <3>1, <3>2, <3>3 DEF SystemNext
  <2> QED BY <2>1, <2>2
<1>3. Inv => UndisturbedRunsSucceed
  <2> SUFFICES ASSUME Inv, NEW k \in Keys, run[<<k, "own">>] # Nil,
                      run[<<k, "own">>].outcome = "error", Live(k),
                      ~(spent.tamper > 0), run[<<k, "own">>].arg = k.name
               PROVE  FALSE
    BY DEF UndisturbedRunsSucceed
  <2>1. spent.tamper = 0
    BY DEF SystemTypeInv, SystemTypeOK, TypeOK, Disturbances
  <2> QED BY <2>1 DEF RunInv, Undisturbed, Healthy
<1> HIDE DEF Inv
<1> QED BY <1>1, <1>2, <1>3, PTL DEF SystemSpec
=============================================================================
