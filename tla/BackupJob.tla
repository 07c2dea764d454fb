----------------------------- MODULE BackupJob ------------------------------
(***************************************************************************)
(* "horusctl backup": what pkg/backup does for the Backups a process is    *)
(* given as arguments.  It lists the pods of the Backup's target, finds    *)
(* the directory of every volume they mount, and for every configured      *)
(* storage runs restic in a helper Deployment on the volume's node.        *)
(*                                                                         *)
(* Several processes run at once, one per CronJob run.  They share the     *)
(* operator's namespace, where all helper Deployments live, and the restic *)
(* repositories.  Every call to the API server, to a helper pod or to a    *)
(* storage is a step; calls fail, processes are killed and target pods are *)
(* rescheduled between any two of them.                                    *)
(***************************************************************************)
EXTENDS Naturals, Sequences, FiniteSets, Functions

CONSTANTS
  Jobs,        \* horusctl processes
  Args,        \* the Backups each process is given, in order
  Backups,     \* Backup objects
  Specs,       \* the part of each Backup the job reads
  Pods,        \* pods of the targets
  Claims,      \* the persistentvolumeclaims each pod mounts, in order
  VolumeSource,\* the type of each claim's volume
  Nodes,       \* Kubernetes nodes
  FirstNode,   \* where each pod runs at first
  Words,       \* the words between the dashes of a node's or a Backup's name
  Faults,      \* the kinds of failures that may happen
  MaxFaults,   \* how many of them may happen
  MaxMoves,    \* how often a target pod may be rescheduled
  Nil          \* an absent object, name or node

\* The fields of BackupTo.
StorageFields == {"nfs", "pvc", "cephfs", "s3", "minio", "restServer", "sftp",
                  "rclone"}

\* The helper Deployments, in the order Do deletes them.  The names for the
\* other storages are never assigned.
DeployKinds == <<"findpvdir", "nfs", "minio", "sftp">>

AllClaims == UNION {Range(Claims[p]) : p \in Pods}
Repos == UNION {Range(Specs[b].backupTo) : b \in Backups}
BackupNames == {Specs[b].name : b \in Backups}

FaultKinds == {"get", "lookup", "apply", "wait", "find", "exec", "secret",
               "mkdir", "fatal", "delete", "kill"}

\* The names of a node and a Backup, joined by a dash: where the one ends and the
\* other begins cannot be told.  The prefixes of the kinds can.
Joined(n, name) == Words[n] \o Words[name]

\* theDeployName: no part of the name tells the Backup's namespace.
DeployName ==
  [kind: Range(DeployKinds),
   rest: {Joined(n, name) : n \in Nodes \cup {Nil}, name \in BackupNames}]

\* The names the helpers of a Backup may have.
NamesOf(b) ==
  {d \in DeployName :
     \E n \in Nodes \cup {Nil} : d.rest = Joined(n, Specs[b].name)}

\* pvdataMeta.  "found" stands for a non-empty pvdir.
Meta == [pod: Pods, node: Nodes, uid: Nat, found: BOOLEAN]
ZeroMeta == [pod |-> Nil, node |-> Nil, uid |-> 0, found |-> FALSE]

PodObject == [pod: Pods, node: Nodes, uid: Nat]
HelperPod == [deploy: DeployName, id: Nat]
Deployment == [content: [node: Nodes \cup {Nil}, repo: Repos \cup {Nil}],
               id: Nat]

\* horusctl refuses an empty list of arguments.
ASSUME ArgsAssumption == Args \in [Jobs -> Seq(Backups) \ {<<>>}]
ASSUME SpecsAssumption ==
  \A b \in Backups : /\ Specs[b].pods \in Seq(Pods)
                     /\ DOMAIN Specs[b].backupTo \subseteq StorageFields
ASSUME ClaimsAssumption == Claims \in [Pods -> Seq(AllClaims)]
ASSUME VolumeSourceAssumption == DOMAIN VolumeSource = AllClaims
ASSUME NodesAssumption == FirstNode \in [Pods -> Nodes] /\ Nil \notin Nodes
ASSUME WordsAssumption ==
  \A x \in Nodes \cup {Nil} \cup BackupNames : Words[x] \in Seq(STRING)
ASSUME BoundsAssumption ==
  Faults \subseteq FaultKinds /\ MaxFaults \in Nat /\ MaxMoves \in Nat
ASSUME AbsenceAssumption ==
  /\ Nil \notin DeployName /\ Nil \notin Deployment /\ Nil \notin HelperPod
  /\ Nil \notin Meta /\ Nil \notin AllClaims

VARIABLES
  job,          \* the state of each process
  deployments,  \* the helper Deployments in the operator's namespace
  issued,       \* how many helper pods have been started
  repos,        \* the initialised restic repositories
  placement,    \* the node and uid of each target pod
  faults, moves \* how many failures and moves have happened

vars == <<job, deployments, issued, repos, placement, faults, moves>>

Snapshot == [arg: Nat, pvc: AllClaims, storage: StorageFields,
             repo: Repos, node: Nodes, meta: Meta,
             nth: Nat]  \* how often this argument, claim and storage came up
\* "refused" is the error of "restic init" for a repository that exists.
Outcomes == {"ok", "error", "refused", "panic", "exit", "killed"}

JobState ==
  [pc: {"idle", "list", "prepare", "find", "findExec", "choose", "deploy",
        "acquire", "check", "init", "backup", "clean", "done"},
   arg: Nat \ {0},                         \* which argument is processed
   pods: Seq(PodObject),                   \* podObjList still to iterate
   claims: Seq(AllClaims),                 \* pvcList still to search
   pvcpvMap: [AllClaims -> Meta \cup {Nil}],
   storages: Seq(StorageFields),           \* storages still to serve
   todo: SUBSET AllClaims,                 \* entries of pvcpvMap still to range over
   pvc: AllClaims \cup {Nil},              \* the entry in hand
   execPod: HelperPod \cup {Nil},
   deployNames: [Range(DeployKinds) -> DeployName \cup {Nil}],
                                           \* the DeployName... globals
   cleaning: Seq(Range(DeployKinds)),      \* deletions Do still has to make
   taken: SUBSET Snapshot,                 \* the snapshots made
   results: Seq(Outcomes)]                 \* how each argument ended

TypeOK ==
  /\ job \in [Jobs -> JobState]
  /\ \A j \in Jobs : job[j].arg \in DOMAIN Args[j]
  /\ deployments \in [DeployName -> Deployment \cup {Nil}]
  /\ issued \in Nat
  /\ repos \subseteq Repos
  /\ placement \in [Pods -> [node: Nodes, uid: Nat]]
  /\ faults \in 0..MaxFaults
  /\ moves \in 0..MaxMoves

Idle ==
  [pc |-> "idle", arg |-> 1, pods |-> <<>>, claims |-> <<>>,
   pvcpvMap |-> [c \in AllClaims |-> Nil], storages |-> <<>>, todo |-> {},
   pvc |-> Nil, execPod |-> Nil,
   deployNames |-> [k \in Range(DeployKinds) |-> Nil],
   cleaning |-> <<>>, taken |-> {}, results |-> <<>>]

Init ==
  /\ job = [j \in Jobs |-> Idle]
  /\ deployments = [d \in DeployName |-> Nil]
  /\ issued = 0
  /\ repos = {}
  /\ placement = [p \in Pods |-> [node |-> FirstNode[p], uid |-> 1]]
  /\ faults = 0
  /\ moves = 0

-----------------------------------------------------------------------------
(* What a process does with its own state.                                 *)

Backup(j) == Args[j][job[j].arg]

Fault(f) ==
  /\ f \in Faults /\ faults < MaxFaults
  /\ faults' = faults + 1

At(j, stage) == job[j].pc = stage

Goto(r, stage) == [r EXCEPT !.pc = stage]

\* What outlives a call of Do: globals, the argument, and the history.
Globals(r) ==
  [Idle EXCEPT !.arg = r.arg, !.deployNames = r.deployNames,
               !.taken = r.taken, !.results = r.results]

\* Do returns or panics: its deferred function is next.
Returned(r, outcome) ==
  [Globals(r) EXCEPT !.pc = "clean", !.cleaning = DeployKinds,
                     !.results = Append(@, outcome)]

\* The process ends and nothing deferred runs.
Ended(r, outcome) ==
  [Globals(r) EXCEPT !.pc = "done", !.results = Append(@, outcome)]

Becomes(j, r) == job' = [job EXCEPT ![j] = r]

\* What no step of a process other than the named ones changes.
LocalOnly == UNCHANGED <<deployments, issued, repos, placement, moves>>

Fails(j, f) == Fault(f) /\ Becomes(j, Returned(job[j], "error")) /\ LocalOnly

\* The metadata the code has for the claim: Go's zero value when the map has
\* no entry.
MetaOf(j, c) ==
  IF job[j].pvcpvMap[c] = Nil THEN ZeroMeta ELSE job[j].pvcpvMap[c]

\* A hostPath or local volume has a path of its own on the node.
PathSources == {"hostPath", "local"}

\* strings.Contains on the names of the kubelet's volume directories: the one
\* for iSCSI volumes contains "csi".
Contains(dir, source) == dir = source \/ (dir = "iscsi" /\ source = "csi")

\* What findpvdir prints: the directories below that of the pod's uid whose
\* names contain the type of the volume.
findpvdir(p, c) ==
  {dir \in {VolumeSource[d] : d \in Range(Claims[p])} \ PathSources :
     Contains(dir, VolumeSource[c])}

\* The directories recorded for a claim are there for a helper on node n: those of
\* a mounted volume are on the pod's node and go with the pod.
DirectoryExists(c, m, n) ==
  /\ m # ZeroMeta
  /\ \/ VolumeSource[c] \in PathSources
     \/ /\ placement[m.pod] = [node |-> n, uid |-> m.uid]
        /\ findpvdir(m.pod, c) # {}

\* pvpath of executeBackupCommand can be read: more than one line of findpvdir's
\* output makes no path.
PathExists(c, m, n) ==
  /\ DirectoryExists(c, m, n)
  /\ VolumeSource[c] \in PathSources \/ findpvdir(m.pod, c) = {VolumeSource[c]}

-----------------------------------------------------------------------------
(* Helper Deployments.                                                     *)

\* Mutant of theDeployName: the Backup's name is left out, as the code does
\* when it is given no Backup.
NameWithoutBackup(kind, b, m) ==
  [kind |-> kind, rest |-> Joined(m.node, CHOOSE n \in BackupNames : TRUE)]

\* Mutant of theDeployName: every name begins with the same prefix.
NameWithoutKind(kind, b, m) ==
  [kind |-> "nfs", rest |-> Joined(m.node, Specs[b].name)]

theDeployName(kind, b, m) ==
  [kind |-> kind, rest |-> Joined(m.node, Specs[b].name)]

\* The pod templates: what they say of the node and of the repository.  The
\* annotation with the time of the call is commented out of all of them.
TemplateFindpvdir(m) == [node |-> m.node, repo |-> Nil]
TemplateBackup2nfs(m, repo) == [node |-> m.node, repo |-> repo]
TemplateBackup2minio(m, repo) == [node |-> m.node, repo |-> repo]
TemplateBackup2sftp(m, repo) == [node |-> m.node, repo |-> repo]

\* Apply creates the Deployment or updates it; only another pod template
\* starts another pod.
Apply(d, content) ==
  IF deployments[d] # Nil /\ deployments[d].content = content
    THEN UNCHANGED <<deployments, issued>>
    ELSE /\ issued' = issued + 1
         /\ deployments' = [deployments EXCEPT
              ![d] = [content |-> content, id |-> issued']]

\* Mutant of Deploy: the name is remembered once Apply has succeeded.
DeployThenRemember(j, kind, m, content, stage) ==
  LET d == theDeployName(kind, Backup(j), m) IN
  /\ \/ /\ Apply(d, content)
        /\ Becomes(j, Goto([job[j] EXCEPT !.deployNames[kind] = d], stage))
        /\ UNCHANGED faults
     \/ /\ Fault("apply")
        /\ Apply(d, content) \/ UNCHANGED <<deployments, issued>>
        /\ Becomes(j, Returned(job[j], "error"))
  /\ UNCHANGED <<repos, placement, moves>>

\* Mutant of Deploy: only a Deployment this process creates is remembered.
DeployOwnOnly(j, kind, m, content, stage) ==
  LET d == theDeployName(kind, Backup(j), m) IN
  /\ Apply(d, content)
  /\ Becomes(j, IF deployments[d] = Nil
                  THEN Goto([job[j] EXCEPT !.deployNames[kind] = d], stage)
                  ELSE Goto(job[j], stage))
  /\ UNCHANGED <<repos, placement, faults, moves>>

\* The name is remembered for the deferred deletion, then the Deployment is
\* applied.  A failed call may or may not have reached the API server.
Deploy(j, kind, m, content, stage) ==
  LET d == theDeployName(kind, Backup(j), m)
      named == [job[j] EXCEPT !.deployNames[kind] = d] IN
  /\ \/ /\ Apply(d, content)
        /\ Becomes(j, Goto(named, stage))
        /\ UNCHANGED faults
     \/ /\ Fault("apply")
        /\ Apply(d, content) \/ UNCHANGED <<deployments, issued>>
        /\ Becomes(j, Returned(named, "error"))
  /\ UNCHANGED <<repos, placement, moves>>

\* A pod of the Deployment can be executed in as long as neither another
\* template nor a deletion has replaced it.
Running(h) ==
  /\ deployments[h.deploy] # Nil
  /\ deployments[h.deploy].id = h.id

-----------------------------------------------------------------------------
(* Do: read the Backup, prepare pvc and pv metadata.                       *)

\* A run of a CronJob with concurrencyPolicy Forbid waits for the previous.
Start(j) ==
  /\ At(j, "idle")
  /\ \A i \in Jobs \ {j} : Args[i] = Args[j] => job[i].pc \in {"idle", "done"}
  /\ Becomes(j, Goto(job[j], "list"))
  /\ LocalOnly /\ UNCHANGED faults

Listed(b) ==
  [i \in 1 .. Len(Specs[b].pods) |->
     LET p == Specs[b].pods[i] IN
     [pod |-> p, node |-> placement[p].node, uid |-> placement[p].uid]]

Resources == {"pod", "deployment", "statefulset", "daemonset"}

\* The Backup and the pods of its target are read; the pods' nodes and uids
\* are those of this moment.
List(j) ==
  LET b == Backup(j) IN
  /\ At(j, "list")
  /\ \/ /\ Becomes(j, IF Specs[b].resource \in Resources
                        THEN [job[j] EXCEPT !.pc = "prepare", !.pods = Listed(b),
                                !.pvcpvMap = [c \in AllClaims |-> Nil]]
                        ELSE Returned(job[j], "error"))
        /\ LocalOnly /\ UNCHANGED faults
     \/ Fails(j, "get")

\* The fields of BackupTo that are set, in the order of their declaration.
parseStorage(b) ==
  LET Field(s) == IF s \in DOMAIN Specs[b].backupTo THEN <<s>> ELSE <<>> IN
  Field("nfs") \o Field("pvc") \o Field("cephfs") \o Field("s3")
    \o Field("minio") \o Field("restServer") \o Field("sftp")
    \o Field("rclone")

\* The next pod's claims enter the map, without a directory yet, replacing
\* what an earlier pod left for a claim they share.  A claim whose volume
\* cannot be looked up is logged and skipped; a pod whose node, uid or claims
\* cannot be is an error.
Prepare(j) ==
  /\ At(j, "prepare") /\ job[j].pods # <<>>
  /\ LET p == Head(job[j].pods)
         Enter(failed) ==
           [job[j] EXCEPT !.pc = "find", !.claims = Claims[p.pod],
              !.pods = Tail(@),
              !.pvcpvMap = [c \in AllClaims |->
                 IF c \in Range(Claims[p.pod]) \ failed
                   THEN [pod |-> p.pod, node |-> p.node, uid |-> p.uid,
                         found |-> FALSE]
                   ELSE @[c]]]
     IN \/ Becomes(j, Enter({})) /\ UNCHANGED faults /\ LocalOnly
        \/ \E failed \in (SUBSET Range(Claims[p.pod])) \ {{}} :
             Fault("lookup") /\ Becomes(j, Enter(failed)) /\ LocalOnly
        \/ Fails(j, "get")

\* All pods are done.  Nothing mounted is an error.
Prepared(j) ==
  LET found == {c \in AllClaims : job[j].pvcpvMap[c] # Nil} IN
  /\ At(j, "prepare") /\ job[j].pods = <<>>
  /\ Becomes(j, IF found = {}
                  THEN Returned(job[j], "error")
                  ELSE [job[j] EXCEPT !.pc = "choose", !.todo = found,
                          !.storages = parseStorage(Backup(j))])
  /\ LocalOnly /\ UNCHANGED faults

\* createFindpvdirDeployment for the next claim of the pod, on the node its
\* metadata names; when that is empty the scheduler picks one.
Findpvdir(j) ==
  /\ At(j, "find")
  /\ IF job[j].claims = <<>>
       THEN Becomes(j, Goto(job[j], "prepare")) /\ LocalOnly /\ UNCHANGED faults
       ELSE LET m == MetaOf(j, Head(job[j].claims)) IN
            Deploy(j, "findpvdir", m, TemplateFindpvdir(m), "findExec")

\* Mutant of FindExec: the search for the directory is never given up.
FindUntilFound(j) ==
  LET c == Head(job[j].claims)
      m == MetaOf(j, c)
      helper == deployments[theDeployName("findpvdir", Backup(j), m)]
      next == [job[j] EXCEPT !.pc = "find", !.claims = Tail(@)] IN
  /\ At(j, "findExec")
  /\ helper # Nil /\ DirectoryExists(c, m, helper.content.node)
  /\ Becomes(j, [next EXCEPT !.pvcpvMap[c] = [m EXCEPT !.found = TRUE]])
  /\ LocalOnly /\ UNCHANGED faults

\* Mutant of FindExec: a claim whose directory is not found leaves the map.
FindOrForget(j) ==
  LET c == Head(job[j].claims)
      m == MetaOf(j, c)
      helper == deployments[theDeployName("findpvdir", Backup(j), m)]
      next == [job[j] EXCEPT !.pc = "find", !.claims = Tail(@)] IN
  /\ At(j, "findExec")
  /\ Becomes(j, IF helper # Nil /\ DirectoryExists(c, m, helper.content.node)
                  THEN [next EXCEPT !.pvcpvMap[c] = [m EXCEPT !.found = TRUE]]
                  ELSE [next EXCEPT !.pvcpvMap[c] = Nil])
  /\ LocalOnly /\ UNCHANGED faults

\* findpvdir is executed in the helper pod, up to twelve times.  A directory
\* that is not found leaves the map as it is.
FindExec(j) ==
  LET c == Head(job[j].claims)
      m == MetaOf(j, c)
      helper == deployments[theDeployName("findpvdir", Backup(j), m)]
      next == [job[j] EXCEPT !.pc = "find", !.claims = Tail(@)] IN
  /\ At(j, "findExec")
  /\ \/ /\ Becomes(j,
             CASE helper = Nil -> Returned(job[j], "error")
               [] helper # Nil /\ DirectoryExists(c, m, helper.content.node) ->
                    [next EXCEPT !.pvcpvMap[c] = [m EXCEPT !.found = TRUE]]
               [] OTHER -> next)
        /\ LocalOnly /\ UNCHANGED faults
     \/ VolumeSource[c] \notin PathSources /\ Fault("find") /\ Becomes(j, next) /\ LocalOnly
     \/ Fails(j, "wait")
     \/ Fails(j, "exec")

-----------------------------------------------------------------------------
(* Do: backup to remote storage.                                           *)

Storage(j) == Head(job[j].storages)
Repo(j) == Specs[Backup(j)].backupTo[Storage(j)]

\* The inner loop is over, or there is no storage at all.
NextStorage(j) ==
  /\ At(j, "choose")
  /\ job[j].storages = <<>> \/ job[j].todo = {}
  /\ Becomes(j, IF Len(job[j].storages) <= 1
                  THEN Returned(job[j], "ok")
                  ELSE [job[j] EXCEPT !.storages = Tail(@),
                          !.todo = {c \in AllClaims :
                                      job[j].pvcpvMap[c] # Nil}])
  /\ LocalOnly /\ UNCHANGED faults

\* Mutant of PickClaim: the loop does not advance.
PickClaimAgain(j) ==
  /\ At(j, "choose") /\ job[j].storages # <<>>
  /\ \E c \in job[j].todo :
       Becomes(j, [job[j] EXCEPT !.pc = "deploy", !.pvc = c])
  /\ LocalOnly /\ UNCHANGED faults

\* The loop takes any entry of the map.  A storage the switch does not know is
\* an error; one it knows but has no Deployment for leaves execPod nil, which
\* executeBackupCommand dereferences unless the directory is missing.
PickClaim(j) ==
  /\ At(j, "choose") /\ job[j].storages # <<>>
  /\ \E c \in job[j].todo :
       LET r == [job[j] EXCEPT !.pvc = c, !.todo = @ \ {c}] IN
       \/ /\ Becomes(j,
               CASE Storage(j) = "pvc" -> Returned(r, "error")
                 [] Storage(j) \in Range(DeployKinds) -> Goto(r, "deploy")
                 [] OTHER -> Returned(r, IF MetaOf(j, c).found
                                           THEN "panic" ELSE "error"))
          /\ UNCHANGED faults
       \/ Fault("wait") /\ Becomes(j, Returned(r, "error"))
  /\ LocalOnly

\* For NFS the repository is a volume of the helper.
createBackup2nfsDeployment(j) ==
  LET m == MetaOf(j, job[j].pvc) IN
  /\ At(j, "deploy") /\ Storage(j) = "nfs"
  /\ Deploy(j, "nfs", m, TemplateBackup2nfs(m, Repo(j)), "acquire")

\* minio.New and minio.MakeBucket call logrus.Fatal: the process is gone.
MakeBucketFails(j) ==
  Fault("fatal") /\ Becomes(j, Ended(job[j], "exit")) /\ LocalOnly

\* For MinIO the credential and the bucket come first.
createBackup2minioDepoyment(j) ==
  LET m == MetaOf(j, job[j].pvc) IN
  /\ At(j, "deploy") /\ Storage(j) = "minio"
  /\ \/ Fails(j, "secret")
     \/ MakeBucketFails(j)
     \/ Deploy(j, "minio", m, TemplateBackup2minio(m, Repo(j)), "acquire")

MakeDirOnSftpFails(j) == Fails(j, "mkdir")

\* For SFTP the credential and the directory come first.
createBackup2sftpDeployment(j) ==
  LET m == MetaOf(j, job[j].pvc) IN
  /\ At(j, "deploy") /\ Storage(j) = "sftp"
  /\ \/ Fails(j, "secret")
     \/ MakeDirOnSftpFails(j)
     \/ Deploy(j, "sftp", m, TemplateBackup2sftp(m, Repo(j)), "acquire")

\* filterRunningPod waits for the Deployment and takes its pod; then
\* executeBackupCommand refuses a claim without a directory.
filterRunningPod(j) ==
  LET d == theDeployName(Storage(j), Backup(j), MetaOf(j, job[j].pvc))
      pod == [deploy |-> d, id |-> deployments[d].id] IN
  /\ At(j, "acquire")
  /\ \/ /\ Becomes(j, IF deployments[d] # Nil /\ MetaOf(j, job[j].pvc).found
                        THEN [job[j] EXCEPT !.pc = "check", !.execPod = pod]
                        ELSE Returned(job[j], "error"))
        /\ LocalOnly /\ UNCHANGED faults
     \/ Fails(j, "wait")

\* The repository a running helper pod writes to, and its node.
Content(j) == deployments[job[j].execPod.deploy].content

\* "restic list keys": whatever makes it fail leads to "restic init".
CheckRepo(j) ==
  /\ At(j, "check")
  /\ \/ /\ Becomes(j, Goto(job[j],
             IF Running(job[j].execPod) /\ Content(j).repo \in repos
               THEN "backup" ELSE "init"))
        /\ UNCHANGED faults
     \/ Fault("exec") /\ Becomes(j, Goto(job[j], "init"))
  /\ LocalOnly

\* "restic init" refuses a repository that exists.
InitRepo(j) ==
  /\ At(j, "init")
  /\ \/ /\ IF Running(job[j].execPod) /\ Content(j).repo \notin repos
             THEN /\ repos' = repos \cup {Content(j).repo}
                  /\ Becomes(j, Goto(job[j], "backup"))
             ELSE /\ Becomes(j, Returned(job[j],
                       IF Running(job[j].execPod) THEN "refused" ELSE "error"))
                  /\ UNCHANGED repos
        /\ UNCHANGED <<deployments, issued, placement, faults, moves>>
     \/ Fails(j, "exec")

\* Mutant of ResticBackup: the error of the command is dropped.
BackupWithoutError(j) ==
  LET c == job[j].pvc
      m == MetaOf(j, c) IN
  /\ At(j, "backup")
  /\ ~(Running(job[j].execPod) /\ PathExists(c, m, Content(j).node))
  /\ Becomes(j, [job[j] EXCEPT !.pc = "choose", !.execPod = Nil])
  /\ LocalOnly /\ UNCHANGED faults

\* "restic backup" of the directory.
ResticBackup(j) ==
  LET c == job[j].pvc
      m == MetaOf(j, c)
      Snap == [arg |-> job[j].arg, pvc |-> c, storage |-> Storage(j),
               repo |-> Content(j).repo, node |-> Content(j).node, meta |-> m,
               nth |-> 1 + Cardinality({t \in job[j].taken :
                 t.arg = job[j].arg /\ t.pvc = c /\ t.storage = Storage(j)})]
  IN
  /\ At(j, "backup")
  /\ \/ /\ Becomes(j, IF Running(job[j].execPod) /\ PathExists(c, m, Content(j).node)
                        THEN [job[j] EXCEPT !.pc = "choose", !.execPod = Nil,
                                !.taken = @ \cup {Snap}]
                        ELSE Returned(job[j], "error"))
        /\ LocalOnly /\ UNCHANGED faults
     \/ Fails(j, "exec")

-----------------------------------------------------------------------------
(* The deferred deletions, the next argument, and what happens around.     *)

\* Mutant of Clean: the helpers of the kind go, whichever Backup they are for.
CleanByKind(j) ==
  /\ At(j, "clean") /\ job[j].cleaning # <<>>
  /\ Becomes(j, [job[j] EXCEPT !.cleaning = Tail(@)])
  /\ deployments' = [d \in DeployName |->
       IF d.kind = Head(job[j].cleaning) THEN Nil ELSE deployments[d]]
  /\ UNCHANGED <<issued, repos, placement, moves, faults>>

\* One deletion of the deferred function; its error is ignored.
Clean(j) ==
  /\ At(j, "clean") /\ job[j].cleaning # <<>>
  /\ Becomes(j, [job[j] EXCEPT !.cleaning = Tail(@)])
  /\ LET d == job[j].deployNames[Head(job[j].cleaning)] IN
     \/ /\ deployments' = IF d = Nil THEN deployments
                                     ELSE [deployments EXCEPT ![d] = Nil]
        /\ UNCHANGED faults
     \/ d # Nil /\ Fault("delete") /\ UNCHANGED deployments
  /\ UNCHANGED <<issued, repos, placement, moves>>

\* Mutant of NextArg: the last argument is followed by another.
NextArgPastLast(j) ==
  LET outcome == job[j].results[job[j].arg] IN
  /\ At(j, "clean") /\ job[j].cleaning = <<>>
  /\ Becomes(j, IF outcome = "panic" \/ job[j].arg > Len(Args[j])
                  THEN Goto(job[j], "done")
                  ELSE [job[j] EXCEPT !.pc = "list", !.arg = @ + 1])
  /\ LocalOnly /\ UNCHANGED faults

\* horusctl ignores what Do returns and goes on; a panic ends it.  The
\* DeployName... globals keep their values.
NextArg(j) ==
  LET outcome == job[j].results[job[j].arg] IN
  /\ At(j, "clean") /\ job[j].cleaning = <<>>
  /\ Becomes(j, IF outcome = "panic" \/ job[j].arg = Len(Args[j])
                  THEN Goto(job[j], "done")
                  ELSE [job[j] EXCEPT !.pc = "list", !.arg = @ + 1])
  /\ LocalOnly /\ UNCHANGED faults

\* The job's pod is evicted or its node dies.  The signal context of horusctl
\* is not used by Do, so a termination request ends the same way.
Kill(j) ==
  /\ job[j].pc \notin {"idle", "done"}
  /\ Fault("kill")
  /\ Becomes(j, Ended(job[j], "killed"))
  /\ LocalOnly

\* A target pod is replaced, on any node.
Reschedule(p) ==
  /\ moves < MaxMoves
  /\ moves' = moves + 1
  /\ \E n \in Nodes :
       placement' = [placement EXCEPT ![p] = [node |-> n, uid |-> @.uid + 1]]
  /\ UNCHANGED <<job, deployments, issued, repos, faults>>

JobStep(j) ==
  \/ Start(j) \/ List(j) \/ Prepare(j) \/ Prepared(j)
  \/ Findpvdir(j) \/ FindExec(j)
  \/ NextStorage(j) \/ PickClaim(j)
  \/ createBackup2nfsDeployment(j) \/ createBackup2minioDepoyment(j)
  \/ createBackup2sftpDeployment(j) \/ filterRunningPod(j)
  \/ CheckRepo(j) \/ InitRepo(j) \/ ResticBackup(j)
  \/ Clean(j) \/ NextArg(j)

Next ==
  \/ \E j \in Jobs : JobStep(j) \/ Kill(j)
  \/ \E p \in Pods : Reschedule(p)

Spec == Init /\ [][Next]_vars

\* A process that is not killed keeps running: every call returns.
FairSpec == Spec /\ \A j \in Jobs : WF_vars(JobStep(j))

-----------------------------------------------------------------------------
(* Properties.                                                             *)

\* Every snapshot is written to the repository its own Backup configures for
\* that storage, by a helper on the node the volume's directory was found on:
\* backupFactory hands executeBackupCommand a pod it got by name, and other
\* processes apply and delete Deployments all the time.
SnapshotsFaithful ==
  \A j \in Jobs : \A t \in job[j].taken :
    /\ t.repo = Specs[Args[j][t.arg]].backupTo[t.storage]
    /\ t.node = t.meta.node

\* A claim is backed up at most once per storage, however many pods mount it
\* (backup.go:256-263, the reason for pvcpvMap).
AtMostOnce ==
  \A j \in Jobs : \A t \in job[j].taken : t.nth = 1

Saved(j, i, c, s) ==
  \E t \in job[j].taken : t.arg = i /\ t.pvc = c /\ t.storage = s

\* When Do returns nil, every claim of every pod of the target has a snapshot
\* in every configured storage: a directory that was not found, a helper that
\* went away or a repository that was not there ends in an error.
SuccessIsComplete ==
  \A j \in Jobs : \A i \in DOMAIN job[j].results :
    LET b == Args[j][i] IN
    job[j].results[i] = "ok" =>
      \A p \in Range(Specs[b].pods), s \in DOMAIN Specs[b].backupTo :
        \A c \in Range(Claims[p]) : Saved(j, i, c, s)

Leftovers(b) == {d \in NamesOf(b) : deployments[d] # Nil}

Vanished(j) == Range(job[j].results) \cap {"killed", "exit"} # {}

Ends(j) == ~At(j, "done") /\ At(j, "done")' /\ ~Vanished(j)'

\* A process that ends by itself leaves no helper Deployment of its Backups
\* behind, whichever call failed (backup.go:84-95, "clean deployment"), unless
\* another process was killed or left through logrus.Fatal before.
CleanupComplete ==
  [][\A j \in Jobs : Ends(j) /\ ~(\E i \in Jobs : Vanished(i))' =>
       \A b \in Range(Args[j]) : Leftovers(b)' = {}]_vars

\* A Backup that succeeds is also rid of the helpers an earlier run left when
\* it was killed: Apply takes the Deployment over, and the deferred function
\* deletes it.
SuccessCleansUp ==
  [][\A j \in Jobs : Ends(j) =>
       \A i \in DOMAIN job'[j].results :
         job'[j].results[i] = "ok" => Leftovers(Args[j][i])' = {}]_vars

\* Another process is given a Backup of the same name.
Contended(j, i) ==
  \E k \in Jobs \ {j} : \E b \in Range(Args[k]) :
    Specs[b].name = Specs[Args[j][i]].name

\* A repository of the Backup, of which it has no snapshot, exists, and another
\* process may have initialised it.
Raced(j, i) ==
  \E s \in DOMAIN Specs[Args[j][i]].backupTo :
    LET r == Specs[Args[j][i]].backupTo[s] IN
    /\ r \in repos
    /\ ~\E t \in job[j].taken : t.arg = i /\ t.storage = s
    /\ \E k \in Jobs \ {j} : \E b \in Range(Args[k]) : r \in Range(Specs[b].backupTo)

\* "restic init" found the repository that "restic list keys" had not.
LostRace(j, i) == job[j].results[i] = "refused" /\ Raced(j, i)

\* Processes for different Backups disturb each other in one way only: if no
\* call fails and no pod moves, a Backup that no other process works on
\* succeeds, unless its own "restic init" is refused because another process has
\* initialised a repository they share since the check of executeBackupCommand.
\* In particular the helper names that outlive an argument of the other process
\* do it no harm.
NoFailureWithoutFault ==
  faults = 0 /\ moves = 0 =>
    \A j \in Jobs : \A i \in DOMAIN job[j].results :
      job[j].results[i] = "ok" \/ Contended(j, i) \/ LostRace(j, i)

\* The refinement mapping to BackupRun: what there is to save, and the helpers
\* that go by a Backup's name.
Items ==
  [b \in Backups |->
     (UNION {Range(Claims[p]) : p \in Range(Specs[b].pods)})
       \X (DOMAIN Specs[b].backupTo)]

HelpersNamed == [b \in Backups |-> NamesOf(b)]

PhaseOf(j) ==
  CASE At(j, "idle") -> "idle" [] At(j, "clean") -> "cleaning"
    [] At(j, "done") -> "ended" [] OTHER -> "working"

SavedOf(j) ==
  IF PhaseOf(j) # "working" THEN {}
    ELSE {<<t.pvc, t.storage>> :
            t \in {u \in job[j].taken : u.arg = job[j].arg}}

PhaseMap == [j \in Jobs |-> PhaseOf(j)]
SavedMap == [j \in Jobs |-> SavedOf(j)]
ResultMap ==
  [j \in Jobs |-> [i \in DOMAIN job[j].results |->
     IF job[j].results[i] = "ok" THEN "ok" ELSE "failed"]]
HelperSet == {d \in DeployName : deployments[d] # Nil}

Promise ==
  INSTANCE BackupRun WITH
    Runs <- Jobs,
    Work <- Items,
    HelpersOf <- HelpersNamed,
    phase <- PhaseMap,
    saved <- SavedMap,
    results <- ResultMap,
    helpers <- HelperSet

\* The processes keep the promise of BackupRun, although every item takes three
\* commands of executeBackupCommand in a pod that other processes may replace
\* or delete meanwhile, and the deferred function deletes by remembered names.
RefinesBackupRun == Promise!Spec

\* Every process comes to its end: no loop of pkg/backup runs forever.
Termination == <>(\A j \in Jobs : At(j, "done"))
=============================================================================
