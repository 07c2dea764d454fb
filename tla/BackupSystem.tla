---------------------------- MODULE BackupSystem ----------------------------
(***************************************************************************)
(* The operator and the runs its CronJobs start, together: whether a       *)
(* Backup that a user creates is ever carried out.                         *)
(*                                                                         *)
(* The controller is that of BackupReconciler.  A run of "horusctl backup" *)
(* is taken in the four stages of Do that differ in the rights they need   *)
(* (BackupJob has the details).  Its pod lives in the CronJob's namespace  *)
(* and has the rights of the ServiceAccount there, which the controller    *)
(* and the garbage collector grant and take away while it works.           *)
(***************************************************************************)
EXTENDS BackupReconciler

CONSTANTS
  Nodes,     \* of the cluster
  Home       \* the node where the pod of each Backup's target runs at first

VARIABLES
  run,       \* the runs of each CronJob: of the one that exists, and of one
             \* that has been deleted
  helpers,   \* the helper Deployments, each named after a Backup and a node
  home       \* the node where the pod of each Backup's target runs now

runVars == <<run, helpers, home>>

Places == Keys \X {"own", "orphan"}

Run == [stage: {"read", "deploy", "save", "clean"},
        ns: Namespaces, arg: Targets, \* --namespace and the argument
        token: BOOLEAN,               \* its ServiceAccount has not been deleted
        node: Nodes \cup {Nil},        \* of the pod that was read
        named: BOOLEAN,               \* the DeployName... globals are set
        pod: BOOLEAN,                 \* its helper has not been deleted
        outcome: {"ok", "error", "fault", "moved"} \cup {Nil}]
                                      \* "fault": of a call that just failed;
                                      \* "moved": of a search in vain

ASSUME OutcomeAssumption == Nil \notin {"ok", "error", "fault", "moved"}
ASSUME NodesAssumption == Nil \notin Nodes
ASSUME HomeAssumption == Home \in [Keys -> Nodes]

\* Type correctness of the composition (Do, the CronJob template).
SystemTypeOK ==
  /\ TypeOK
  /\ run \in [Places -> Run \cup {Nil}]
  /\ helpers \subseteq Names \X Nodes
  /\ home \in [Keys -> Nodes]

-----------------------------------------------------------------------------
(* The rights of a run.                                                    *)

View == {"get", "list", "watch"}

\* The rules of the template, as far as Do makes use of them.
Rules(onDeployments) ==
  ({"deployments"} \X onDeployments)
  \cup ({"backups", "pods", "deployments", "statefulsets", "daemonsets",
         "replicasets", "secrets", "persistentvolumes",
         "persistentvolumeclaims"} \X View)
  \cup ({"pods/exec"} \X {"get", "create"})

\* Mutant of ClusterRoleForBackup: Deployments may not be deleted.
RoleWithoutDelete == Rules(View \cup {"create", "update", "patch"})

ClusterRoleForBackup == Rules(View \cup {"create", "delete", "update", "patch"})

\* The subject of the ClusterRoleBinding of a namespace is the ServiceAccount
\* "horusctl" there; the CronJob template puts every run in DefaultNS.
Granted(p, rights) ==
  /\ run[p].token
  /\ clusterRole /\ binding[DefaultNS]
  /\ rights \subseteq ClusterRoleForBackup

ReadRights ==
  {"backups", "pods", "deployments", "statefulsets", "daemonsets",
   "replicasets", "persistentvolumeclaims", "persistentvolumes"}
    \X {"get", "list"}
DeployRights ==
  ({"deployments"} \X {"get", "create", "update", "watch"})
  \cup {<<"secrets", "get">>, <<"pods", "list">>}
SaveRights == {<<"pods/exec", "create">>}
CleanRights == {<<"deployments", "delete">>}

-----------------------------------------------------------------------------
(* Runs.                                                                   *)

\* The CronJob controller starts a run unless one of the same CronJob is still
\* there (concurrencyPolicy Forbid); its pod needs the ServiceAccount.
StartRun(k) ==
  /\ cronJob[k] # Nil /\ run[<<k, "own">>] = Nil
  /\ serviceAccount[DefaultNS] # Nil
  /\ run' = [run EXCEPT ![<<k, "own">>] =
       [stage |-> "read", ns |-> cronJob[k].ns, arg |-> cronJob[k].arg,
        token |-> TRUE, node |-> Nil, named |-> FALSE, pod |-> FALSE,
        outcome |-> Nil]]
  /\ UNCHANGED <<helpers, home, spent>>

InStage(p, stage) == run[p] # Nil /\ run[p].stage = stage

BackupOf(r) == [ns |-> r.ns, name |-> r.arg]

\* The name of a run's helper.  The storage, which also enters the name, stays
\* the same.
DeployName(r) == <<r.arg, r.node>>

Finish(p, r, outcome) ==
  run' = [run EXCEPT ![p] = [r EXCEPT !.stage = "clean", !.outcome = outcome]]

\* The Backup and its target's pods and volumes are read.  The argument is the
\* name of the target, the object read is the Backup of that name.
ReadBackup(p) ==
  LET k == BackupOf(run[p]) IN
  /\ InStage(p, "read")
  /\ \/ /\ UNCHANGED spent
        /\ IF Granted(p, ReadRights) /\ k \in Keys /\ backup[k] # Nil
             THEN run' = [run EXCEPT ![p] =
                            [run[p] EXCEPT !.node = home[k], !.stage = "deploy"]]
             ELSE Finish(p, run[p], "error")
     \/ Spend("fault") /\ Finish(p, run[p], "fault")
  /\ UNCHANGED <<helpers, home>>

\* The helper is applied, its name remembered.
DeployHelper(p) ==
  LET named == [run[p] EXCEPT !.named = TRUE]
      applied == helpers \cup {DeployName(run[p])} IN
  /\ InStage(p, "deploy")
  /\ \/ /\ Granted(p, DeployRights)
        /\ helpers' = applied
        /\ run' = [run EXCEPT ![p] = [named EXCEPT !.pod = TRUE, !.stage = "save"]]
        /\ UNCHANGED spent
     \/ /\ ~Granted(p, DeployRights)
        /\ Finish(p, named, "error")
        /\ UNCHANGED <<helpers, spent>>
     \/ /\ Spend("fault") /\ Granted(p, DeployRights)
        /\ helpers' \in {helpers, applied}
        /\ Finish(p, named, "fault")
  /\ UNCHANGED home

\* restic is executed in the helper's pod.  If the target's pod is on another
\* node by now, the directory may be gone.
Save(p) ==
  LET able == Granted(p, SaveRights) /\ run[p].pod IN
  /\ InStage(p, "save")
  /\ \/ Finish(p, run[p], IF able THEN "ok" ELSE "error") /\ UNCHANGED spent
     \/ /\ able /\ run[p].node # home[BackupOf(run[p])]
        /\ Finish(p, run[p], "moved") /\ UNCHANGED spent
     \/ Spend("fault") /\ Finish(p, run[p], "fault")
  /\ UNCHANGED <<helpers, home>>

\* Mutant of CleanUp: the finished run keeps its place.
CleanUpKeepsRun(p) ==
  /\ InStage(p, "clean")
  /\ helpers' = helpers \ {DeployName(run[p])}
  /\ run' = [run EXCEPT ![p].stage = "done"]
  /\ UNCHANGED <<home, spent>>

\* The deferred deletions, whose errors are ignored; the process ends.  It
\* deletes what its own names say.  Other runs lose the helper too if theirs has
\* the same name.
CleanUp(p) ==
  LET deletes == run[p].named /\ Granted(p, CleanRights)
      loses(q) == /\ deletes /\ run[q] # Nil
                  /\ DeployName(run[q]) = DeployName(run[p]) IN
  /\ InStage(p, "clean")
  /\ helpers' = IF deletes THEN helpers \ {DeployName(run[p])} ELSE helpers
  /\ run' = [q \in Places |->
       IF q = p THEN Nil
       ELSE IF loses(q) THEN [run[q] EXCEPT !.pod = FALSE] ELSE run[q]]
  /\ UNCHANGED <<home, spent>>

\* The run's pod is evicted; or its CronJob is gone and the grace period over.
KillRun(p) ==
  /\ run[p] # Nil
  /\ IF p[2] = "orphan" THEN UNCHANGED spent ELSE Spend("fault")
  /\ run' = [run EXCEPT ![p] = Nil]
  /\ UNCHANGED <<helpers, home>>

\* The pod of a target is replaced by one on another node.  The bound on
\* interventions by hand counts it.
Reschedule(k) ==
  /\ \E n \in Nodes : home[k] # n /\ home' = [home EXCEPT ![k] = n]
  /\ Spend("tamper")
  /\ UNCHANGED <<run, helpers>>

DoStep(p) == ReadBackup(p) \/ DeployHelper(p) \/ Save(p) \/ CleanUp(p)

RunStep ==
  /\ \/ \E k \in Keys : StartRun(k)
     \/ \E p \in Places : DoStep(p) \/ KillRun(p)
     \/ \E k \in Keys : Reschedule(k)
  /\ UNCHANGED <<api, caches, queue, worker>>

\* What the runs notice of a step of the reconciler, the users and the
\* cluster: a deleted CronJob leaves its run without an owner, which takes the
\* place of an earlier one, by then killed; the token of a deleted
\* ServiceAccount is void.
RunsFollow ==
  LET gone(k) == cronJob[k] # Nil /\ cronJob'[k] = Nil
      void == serviceAccount'[DefaultNS] = Nil
      Keeps(r) == IF r # Nil /\ void THEN [r EXCEPT !.token = FALSE] ELSE r
  IN
  /\ run' = [p \in Places |->
       IF gone(p[1]) /\ run[<<p[1], "own">>] # Nil
         THEN IF p[2] = "own" THEN Nil ELSE Keeps(run[<<p[1], "own">>])
         ELSE Keeps(run[p])]
  /\ UNCHANGED <<helpers, home>>

SystemInit ==
  /\ Init
  /\ run = [p \in Places |-> Nil]
  /\ helpers = {}
  /\ home = Home

SystemNext ==
  \/ Next /\ RunsFollow
  \/ RunStep

\* The CronJob controller keeps the schedule, and a run that is not killed
\* goes on.
SystemSpec ==
  /\ SystemInit /\ [][SystemNext]_<<vars, runVars>>
  /\ Fairness
  /\ \A k \in Keys : WF_runVars(StartRun(k))
  /\ \A p \in Places : WF_runVars(DoStep(p))

-----------------------------------------------------------------------------
(* Properties.                                                             *)

\* The CronJob of the Backup asks for the Backup itself.
Named(k) == backup[k] # Nil /\ backup[k].spec.target = k.name

Succeeds(k) ==
  \E p \in Places : /\ InStage(p, "clean")
                    /\ run[p].outcome = "ok" /\ run[p].arg = k.name

Settled(k) == Registered(k) /\ Named(k)

\* A Backup that stays registered is carried out again and again, whatever
\* befell it, its managed objects, its target, its runs and the operator before:
\* what Reconcile leaves behind is enough for Do to succeed.
BackupHappens ==
  \A k \in Keys : <>[]Settled(k) => []<>Succeeds(k)

\* A helper Deployment that a run left on the node of the target, because it was
\* killed or its rights were gone when the deferred function of Do ran, does not
\* stay, if the Backup and the target do: a later run applies the one of the same
\* name and deletes it.  (On a node that the target left it stays.)
LeftoversGo ==
  \A k \in Keys, n \in Nodes :
    <>[](Settled(k) /\ home[k] = n) => []<>(<<k.name, n>> \notin helpers)

\* No run starts before it can succeed: Reconcile creates the CronJob last, so
\* a run of a live Backup fails only if a call of its own failed, its target's
\* pod was replaced under it, somebody deleted a managed object, or its argument
\* names no Backup.  Calls of the operator that failed are no excuse.
UndisturbedRunsSucceed ==
  \A k \in Keys : LET r == run[<<k, "own">>] IN
    r # Nil /\ r.outcome = "error" /\ Live(k) =>
      spent.tamper > 0 \/ r.arg # k.name
=============================================================================
