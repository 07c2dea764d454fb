-------------------------- MODULE BackupRunProofs ---------------------------
(* Theorems about what the processes of BackupJob do to the helpers they   *)
(* share: every snapshot is faithful, and the processes implement          *)
(* BackupRun.                                                              *)
EXTENDS BackupJobProofs

-----------------------------------------------------------------------------
(* What a step does to the helpers.                                        *)

\* A helper of the Backup in hand is created or gets another template, for the
\* repository the Backup configures, and its name is remembered.
Adds(j) ==
  \E d \in NamesOf(Backup(j)), x \in Deployment :
    /\ d.rest = Joined(MetaIn(job[j], Subject(job[j])).node, Specs[Backup(j)].name)
    /\ d.kind = KindIn(job[j])
    /\ d.kind \in BackupKinds =>
         /\ d.kind \in DOMAIN Specs[Backup(j)].backupTo
         /\ x.content.repo = Specs[Backup(j)].backupTo[d.kind]
    /\ deployments' = [deployments EXCEPT ![d] = x]
    /\ job'[j].deployNames[d.kind] = d

\* The helper of a remembered name is deleted.
Removes(j) ==
  /\ job[j].cleaning # <<>>
  /\ LET d == job[j].deployNames[Head(job[j].cleaning)] IN
     d # Nil /\ deployments' = [deployments EXCEPT ![d] = Nil]

\* Deploy adds the helper it names, if anything changes.
LEMMA DeployAdds ==
  ASSUME TypeInv, NEW j \in Jobs, NEW kind \in Range(DeployKinds),
         kind = KindIn(job[j]),
         NEW m, m = MetaIn(job[j], Subject(job[j])), m.node \in Nodes \cup {Nil},
         NEW content \in [node: Nodes \cup {Nil}, repo: Repos \cup {Nil}],
         kind \in BackupKinds =>
           /\ kind \in DOMAIN Specs[Backup(j)].backupTo
           /\ content.repo = Specs[Backup(j)].backupTo[kind],
         NEW stage \in {"findExec", "acquire"},
         Deploy(j, kind, m, content, stage)
  PROVE  deployments' = deployments \/ (Adds(j) /\ job'[j].pc # "done")
<1> DEFINE d == theDeployName(kind, Backup(j), m)
           named == [job[j] EXCEPT !.deployNames[kind] = d]
           x == [content |-> content, id |-> issued']
<1>0. job[j] \in JobState /\ job \in [Jobs -> JobState] /\ Shared
  BY Hand
<1>1. /\ d \in NamesOf(Backup(j)) /\ d \in DeployName /\ d.kind = kind
      /\ d.rest = Joined(m.node, Specs[Backup(j)].name)
  BY Hand, NameFacts
<1>2. /\ Apply(d, content) \/ UNCHANGED <<deployments, issued>>
      /\ Becomes(j, Goto(named, stage)) \/ Becomes(j, Returned(named, "error"))
  BY DEF Deploy
<1> HIDE DEF d
<1>3. /\ named \in JobState
      /\ named.deployNames = [job[j].deployNames EXCEPT ![kind] = d]
      /\ Same(job[j], named, {"deployNames"})
  <2>1. job[j] \in JobState
    BY <1>0
  <2> QED BY <1>1, <2>1, NamedFacts, Zenon
<1>4. named.deployNames[kind] = d
  BY <1>0, <1>3 DEF JobState
<1> HIDE DEF named
<1>5. /\ Goto(named, stage).deployNames = named.deployNames
      /\ Returned(named, "error").deployNames = named.deployNames
  <2>1. Same(named, Goto(named, stage), {"pc"})
    BY <1>3, GotoFacts DEF Stages, Working, Looping, Serving, Searching
  <2>2. Same(named, Returned(named, "error"),
             LoopFields \cup {"pc", "cleaning", "results"})
    BY <1>3, ReturnedFacts DEF Outcomes
  <2> QED BY <2>1, <2>2 DEF Same, Fields, LoopFields
<1>6. job'[j].deployNames[kind] = d /\ job'[j].pc # "done"
  <2>1. Goto(named, stage).pc # "done" /\ Returned(named, "error").pc # "done"
    <3>1. stage \in Stages /\ stage # "done" /\ "error" \in Outcomes
      BY DEF Stages, Working, Looping, Serving, Searching, Outcomes
    <3>2. Goto(named, stage).pc = stage
      BY <1>3, <3>1, GotoFacts
    <3>3. Returned(named, "error").pc = "clean"
      BY <1>3, <3>1, ReturnedFacts
    <3> QED BY <3>1, <3>2, <3>3
  <2> QED BY <1>0, <1>2, <1>4, <1>5, <2>1 DEF Becomes
<1>7. CASE deployments' = deployments
  BY <1>7
<1>8. CASE issued' = issued + 1 /\ deployments' = [deployments EXCEPT ![d] = x]
  <2>1. x \in Deployment /\ x.content = content
    BY <1>0, <1>8 DEF Shared, Deployment
  <2> HIDE DEF x
  <2> QED BY <1>1, <1>6, <1>8, <2>1 DEF Adds
<1> QED BY <1>2, <1>7, <1>8 DEF Apply

\* Every step of a process leaves the helpers alone, adds one or removes one.
LEMMA HelperEffect ==
  ASSUME TypeInv, NEW j \in Jobs, JobStep(j) \/ Kill(j)
  PROVE  \/ deployments' = deployments
         \/ CanDeploy(job[j]) /\ job'[j].pc # "done" /\ Adds(j)
         \/ job[j].pc = "clean" /\ job'[j].pc # "done" /\ Removes(j)
<1>1. CASE Findpvdir(j)
  <2> DEFINE m == MetaOf(j, Head(job[j].claims))
  <2>0. job[j].pc = "find" /\ job[j].claims \in Seq(AllClaims)
    BY <1>1, Hand, FieldTypes DEF Findpvdir, At
  <2>1. CASE job[j].claims = <<>>
    BY <1>1, <2>1 DEF Findpvdir, LocalOnly
  <2>2. CASE job[j].claims # <<>>
    <3>1. m.node \in Nodes \cup {Nil} /\ m = MetaIn(job[j], Subject(job[j]))
      BY <2>0, <2>2, MetaFacts, TailFacts DEF MetaOf, MetaIn, Subject
    <3>2. Deploy(j, "findpvdir", m, TemplateFindpvdir(m), "findExec")
      BY <1>1, <2>2 DEF Findpvdir
    <3> HIDE DEF m
    <3>3. TemplateFindpvdir(m) \in [node: Nodes \cup {Nil}, repo: Repos \cup {Nil}]
      BY <3>1 DEF TemplateFindpvdir
    <3>4. /\ "findpvdir" \in Range(DeployKinds) /\ "findpvdir" \notin BackupKinds
          /\ KindIn(job[j]) = "findpvdir"
      BY <2>0, Kinds DEF BackupKinds, KindIn
    <3> QED BY <2>0, <2>2, <3>1, <3>2, <3>3, <3>4, DeployAdds DEF CanDeploy
  <2> QED BY <2>1, <2>2
<1>2. CASE \/ createBackup2nfsDeployment(j) \/ createBackup2minioDepoyment(j)
           \/ createBackup2sftpDeployment(j)
  <2> DEFINE m == MetaOf(j, job[j].pvc)
             content == [node |-> m.node, repo |-> Repo(j)]
  <2>0. job[j].pc = "deploy"
    BY <1>2 DEF createBackup2nfsDeployment, createBackup2minioDepoyment,
                createBackup2sftpDeployment, At
  <2>1. \/ Deploy(j, Storage(j), m, content, "acquire")
        \/ \E f : Fails(j, f)
        \/ MakeBucketFails(j)
    BY <1>2, Zenon
       DEF createBackup2nfsDeployment, createBackup2minioDepoyment,
           createBackup2sftpDeployment, TemplateBackup2nfs, TemplateBackup2minio,
           TemplateBackup2sftp, MakeDirOnSftpFails
  <2>2. CASE Deploy(j, Storage(j), m, content, "acquire")
    <3>1. /\ m.node \in Nodes \cup {Nil} /\ Storage(j) \in Range(DeployKinds)
          /\ Repo(j) \in Repos /\ Storage(j) \in DOMAIN Specs[Backup(j)].backupTo
          /\ Repo(j) = Specs[Backup(j)].backupTo[Storage(j)]
          /\ m = MetaIn(job[j], Subject(job[j])) /\ Storage(j) = KindIn(job[j])
      BY <2>0, ServingFacts DEF Serving, Repo, MetaOf, MetaIn, Subject, KindIn
    <3>2. /\ content \in [node: Nodes \cup {Nil}, repo: Repos \cup {Nil}]
          /\ content.repo = Specs[Backup(j)].backupTo[Storage(j)]
      BY <3>1
    <3> HIDE DEF m, content
    <3> QED BY <2>0, <2>2, <3>1, <3>2, DeployAdds DEF CanDeploy
  <2>3. CASE (\E f : Fails(j, f)) \/ MakeBucketFails(j)
    BY <2>3 DEF Fails, MakeBucketFails, LocalOnly
  <2> QED BY <2>1, <2>2, <2>3
<1>3. CASE Clean(j)
  <2>1. Becomes(j, [job[j] EXCEPT !.cleaning = Tail(@)]) /\ job[j].pc = "clean"
    BY <1>3 DEF Clean, At
  <2>2. job'[j].pc = "clean"
    BY <2>1, Hand DEF Becomes, JobState
  <2> QED BY <1>3, <2>2 DEF Clean, Removes, At
<1>4. CASE \/ Start(j) \/ List(j) \/ Prepare(j) \/ Prepared(j) \/ FindExec(j)
           \/ NextStorage(j) \/ PickClaim(j) \/ filterRunningPod(j)
  BY <1>4 DEF Start, List, Prepare, Prepared, FindExec, NextStorage, PickClaim,
              filterRunningPod, Fails, LocalOnly
<1>5. CASE \/ CheckRepo(j) \/ InitRepo(j) \/ ResticBackup(j) \/ NextArg(j)
           \/ Kill(j)
  BY <1>5 DEF CheckRepo, InitRepo, ResticBackup, NextArg, Kill, Fails, LocalOnly
<1> QED BY <1>1, <1>2, <1>3, <1>4, <1>5 DEF JobStep

\* A snapshot is written by the helper in hand, to what that has mounted.
Writes(j) ==
  /\ Running(job[j].execPod)
  /\ deployments' = deployments
  /\ \E t \in Snapshot :
       /\ t.arg = job[j].arg /\ t.pvc = job[j].pvc /\ t.storage = Storage(j)
       /\ t.repo = Content(j).repo /\ t.node = Content(j).node
       /\ t.meta = MetaOf(j, job[j].pvc)
       /\ job'[j].taken = job[j].taken \cup {t}

\* Only ResticBackup makes a snapshot.
LEMMA TakenOrWrites ==
  ASSUME TypeInv, NEW j \in Jobs, JobStep(j) \/ Kill(j)
  PROVE  job'[j].taken = job[j].taken \/ (job[j].pc = "backup" /\ Writes(j))
<1>0. /\ Takes(j) /\ job \in [Jobs -> JobState] /\ job[j] \in JobState
  BY Hand, ProcessTakes
<1>1. CASE ~Saves(job[j], job'[j])
  BY <1>0, <1>1 DEF Takes, LocalStep, Jumps, Lists, Enters, Finds, Deploys, Loops,
     Turns, Picks, Acquires, Returns, Cleans, Advances, Vanishes, Same, Fields,
     LoopFields
<1>2. CASE Saves(job[j], job'[j])
  <2>1. job[j].pc = "backup" /\ job'[j].pc = "choose"
    BY <1>2 DEF Saves
  <2>2. ResticBackup(j)
    <3>1. ~Kill(j)
      BY <1>0, <2>1, Hand, EndedFacts DEF Kill, Becomes, Outcomes
    <3> QED BY <2>1, <3>1 DEF JobStep, Start, List, Prepare, Prepared, Findpvdir,
         FindExec, NextStorage, PickClaim, createBackup2nfsDeployment,
         createBackup2minioDepoyment, createBackup2sftpDeployment,
         filterRunningPod, CheckRepo, InitRepo, Clean, NextArg, At
  <2> DEFINE c == job[j].pvc
             m == MetaOf(j, c)
             nth == 1 + Cardinality({u \in job[j].taken :
                      u.arg = job[j].arg /\ u.pvc = c /\ u.storage = Storage(j)})
             t == [arg |-> job[j].arg, pvc |-> c, storage |-> Storage(j),
                   repo |-> Content(j).repo, node |-> Content(j).node, meta |-> m,
                   nth |-> nth]
             q == [job[j] EXCEPT !.pc = "choose", !.execPod = Nil,
                     !.taken = @ \cup {t}]
  <2>3. /\ Running(job[j].execPod) /\ deployments' = deployments
        /\ Becomes(j, q)
    <3> DEFINE e == Returned(job[j], "error")
    <3>1. e.pc = "clean"
      BY <1>0, ReturnedFacts DEF Outcomes
    <3>2. ~Becomes(j, e)
      <4> HIDE DEF e
      <4> QED BY <1>0, <2>1, <3>1 DEF Becomes
    <3>3. \/ /\ Becomes(j, IF Running(job[j].execPod) /\ PathExists(c, m, Content(j).node)
                             THEN q ELSE e)
             /\ LocalOnly
          \/ Becomes(j, e)
      BY <2>2, Zenon DEF ResticBackup, Fails
    <3> HIDE DEF q, e, c, m
    <3> QED BY <3>2, <3>3 DEF LocalOnly
  <2>4. job'[j].taken = job[j].taken \cup {t}
    <3> HIDE DEF t
    <3> QED BY <1>0, <2>3 DEF Becomes, JobState
  <2>5. /\ t.arg = job[j].arg /\ t.pvc = job[j].pvc /\ t.storage = Storage(j)
        /\ t.repo = Content(j).repo /\ t.node = Content(j).node
        /\ t.meta = MetaOf(j, job[j].pvc)
    <3> HIDE DEF nth
    <3> QED OBVIOUS
  <2>6. t \in Snapshot
    <3>1. job'[j].taken \subseteq Snapshot
      BY <1>0, FieldTypes DEF Takes
    <3> HIDE DEF t
    <3> QED BY <2>4, <3>1
  <2> HIDE DEF t
  <2> QED BY <2>1, <2>3, <2>4, <2>5, <2>6 DEF Writes
<1> QED BY <1>1, <1>2

-----------------------------------------------------------------------------
(* Faithful snapshots.                                                     *)

\* Backups that go by one name configure the same storages: what the names of
\* the helpers rely on, for they do not tell the namespace.
NamesTell ==
  \A a, b \in Backups :
    Specs[a].name = Specs[b].name => Specs[a].backupTo = Specs[b].backupTo

\* The end of a helper's name tells its node and its Backup: theDeployName joins
\* them with a dash, which both may contain.
TellApart ==
  \A n1, n2 \in Nodes \cup {Nil}, name1, name2 \in BackupNames :
    Joined(n1, name1) = Joined(n2, name2) => n1 = n2 /\ name1 = name2

\* A helper for a storage has the repository that every Backup of its name
\* configures.
RepoInv ==
  \A d \in DeployName : deployments[d] # Nil /\ d.kind \in BackupKinds =>
    \A b \in Backups : d \in NamesOf(b) =>
      deployments[d].content.repo = Specs[b].backupTo[d.kind]

\* Backups whose helpers have a name in common have their own name in common.
LEMMA OneName ==
  ASSUME TellApart, NEW a \in Backups, NEW b \in Backups,
         NEW d \in NamesOf(a), d \in NamesOf(b)
  PROVE  Specs[a].name = Specs[b].name
<1>1. PICK n1 \in Nodes \cup {Nil} : d.rest = Joined(n1, Specs[a].name)
  BY DEF NamesOf
<1>2. PICK n2 \in Nodes \cup {Nil} : d.rest = Joined(n2, Specs[b].name)
  BY DEF NamesOf
<1>3. Specs[a].name \in BackupNames /\ Specs[b].name \in BackupNames
  BY SpecTypes
<1>4. Joined(n1, Specs[a].name) = Joined(n2, Specs[b].name)
  BY <1>1, <1>2
<1> QED BY <1>3, <1>4 DEF TellApart

\* The helper a process executes commands in is on the node of the entry.
LEMMA ContentNode ==
  ASSUME TypeInv, TellApart, NEW j \in Jobs, job[j].pc \in InHelper,
         Running(job[j].execPod)
  PROVE  Content(j).node = MetaOf(j, job[j].pvc).node
<1> DEFINE d == job[j].execPod.deploy
           m == MetaOf(j, job[j].pvc)
<1>1. /\ d \in DeployName /\ deployments[d] # Nil
      /\ d = theDeployName(Storage(j), Backup(j), m)
      /\ Content(j).node \in Nodes
  BY ContentFacts
<1>2. /\ Storage(j) \in Range(DeployKinds) /\ Backup(j) \in Backups
      /\ m.node \in Nodes
  BY ServingFacts, Hand, Kinds DEF Serving
<1> HIDE DEF m
<1>3. d.rest = Joined(m.node, Specs[Backup(j)].name)
  BY <1>1, <1>2, NameFacts
<1>4. PICK name \in BackupNames : d.rest = Joined(Content(j).node, name)
  BY <1>1 DEF TypeInv, HelperInv, Content
<1>5. Specs[Backup(j)].name \in BackupNames
  BY <1>2, SpecTypes
<1>6. Joined(m.node, Specs[Backup(j)].name) = Joined(Content(j).node, name)
  BY <1>3, <1>4
<1>7. m.node \in Nodes \cup {Nil} /\ Content(j).node \in Nodes \cup {Nil}
  BY <1>1, <1>2
<1>8. m.node = Content(j).node
  BY <1>5, <1>6, <1>7 DEF TellApart
<1> QED BY <1>8 DEF m

\* RepoInv and SnapshotsFaithful are inductive together.
LEMMA FaithfulStep ==
  ASSUME NamesTell, TellApart
  PROVE  TypeInv /\ RepoInv /\ SnapshotsFaithful /\ [Next]_vars =>
           RepoInv' /\ SnapshotsFaithful'
<1> SUFFICES ASSUME TypeInv, RepoInv, SnapshotsFaithful, [Next]_vars
             PROVE  RepoInv' /\ SnapshotsFaithful'
  OBVIOUS
<1>0. /\ deployments \in [DeployName -> Deployment \cup {Nil}]
      /\ job \in [Jobs -> JobState]
  BY DEF TypeInv, TypeOK
<1>1. ASSUME NEW j \in Jobs, JobStep(j) \/ Kill(j)
      PROVE  RepoInv' /\ SnapshotsFaithful'
  <2>1. RepoInv'
    <3>1. CASE deployments' = deployments
      BY <3>1 DEF RepoInv
    <3>2. CASE Adds(j)
      <4>1. PICK d \in NamesOf(Backup(j)), x \in Deployment :
              /\ d.kind \in BackupKinds =>
                   x.content.repo = Specs[Backup(j)].backupTo[d.kind]
              /\ deployments' = [deployments EXCEPT ![d] = x]
        BY <3>2 DEF Adds
      <4>2. Backup(j) \in Backups /\ d \in DeployName
        BY <1>1, Hand DEF NamesOf
      <4>3. /\ deployments'[d] = x
            /\ \A e \in DeployName : e # d => deployments'[e] = deployments[e]
        BY <1>0, <4>1, <4>2
      <4>4. ASSUME NEW b \in Backups, d \in NamesOf(b), d.kind \in BackupKinds
            PROVE  x.content.repo = Specs[b].backupTo[d.kind]
        BY <4>1, <4>2, <4>4, OneName DEF NamesTell
      <4> QED BY <4>3, <4>4 DEF RepoInv
    <3>3. CASE job[j].pc = "clean" /\ Removes(j)
      BY <1>0, <3>3 DEF Removes, RepoInv
    <3> QED BY <1>1, <3>1, <3>2, <3>3, HelperEffect
  <2>2. \A i \in Jobs : i # j => job'[i] = job[i]
    BY <1>1, ProcessTakes, TakesOne
  <2>3. CASE job'[j].taken = job[j].taken
    BY <2>1, <2>2, <2>3 DEF SnapshotsFaithful
  <2>4. CASE job[j].pc = "backup" /\ Writes(j)
    <3>1. PICK t \in Snapshot :
            /\ t.arg = job[j].arg /\ t.storage = Storage(j)
            /\ t.repo = Content(j).repo /\ t.node = Content(j).node
            /\ t.meta = MetaOf(j, job[j].pvc)
            /\ job'[j].taken = job[j].taken \cup {t}
      BY <2>4 DEF Writes
    <3> DEFINE d == job[j].execPod.deploy
    <3>2. /\ d \in DeployName /\ deployments[d] # Nil
          /\ d = theDeployName(Storage(j), Backup(j), MetaOf(j, job[j].pvc))
          /\ Content(j).node = MetaOf(j, job[j].pvc).node
      BY <2>4, ContentFacts, ContentNode DEF Writes, InHelper
    <3>3. /\ Storage(j) \in BackupKinds /\ Backup(j) \in Backups
          /\ Backup(j) = Args[j][job[j].arg]
          /\ MetaOf(j, job[j].pvc).node \in Nodes
      BY <2>4, ServingFacts, Hand DEF Serving, InHelper, Backup
    <3>4. d.kind = Storage(j) /\ d \in NamesOf(Backup(j))
      BY <3>2, <3>3, NameFacts, Kinds
    <3>5. Content(j).repo = Specs[Backup(j)].backupTo[Storage(j)]
      BY <3>2, <3>3, <3>4 DEF RepoInv, Content
    <3>6. /\ t.repo = Specs[Args[j][t.arg]].backupTo[t.storage]
          /\ t.node = t.meta.node
      BY <3>1, <3>2, <3>3, <3>5
    <3> QED BY <2>1, <2>2, <3>1, <3>6 DEF SnapshotsFaithful
  <2> QED BY <1>1, <2>3, <2>4, TakenOrWrites
<1>2. CASE \E p \in Pods : Reschedule(p)
  BY <1>2 DEF Reschedule, RepoInv, SnapshotsFaithful
<1>3. CASE UNCHANGED vars
  BY <1>3 DEF vars, RepoInv, SnapshotsFaithful
<1> QED BY <1>1, <1>2, <1>3 DEF Next

\* SnapshotsFaithful: although the helpers are shared and replaced at any time,
\* a snapshot goes to its own Backup's repository, from the volume's node.  Both
\* hypotheses are needed: Backups of one name in two namespaces write into each
\* other's repositories (run doc_same_name), and so do Backups "1-db" on node "w"
\* and "db" on node "w-1", whose helpers have one name.
THEOREM FaithfulSnapshots ==
  ASSUME NamesTell, TellApart
  PROVE  Spec => []SnapshotsFaithful
<1>1. Init => RepoInv /\ SnapshotsFaithful
  <2> SUFFICES ASSUME Init PROVE RepoInv /\ SnapshotsFaithful
    OBVIOUS
  <2>1. RepoInv
    BY DEF Init, RepoInv
  <2>2. \A j \in Jobs : job[j] = Idle /\ Idle.taken = {}
    BY DEF Init, Idle
  <2> QED BY <2>1, <2>2 DEF SnapshotsFaithful
<1>2. TypeInv /\ RepoInv /\ SnapshotsFaithful /\ [Next]_vars =>
        RepoInv' /\ SnapshotsFaithful'
  BY FaithfulStep
<1> QED BY <1>1, <1>2, TypeInvariant, PTL DEF Spec

-----------------------------------------------------------------------------
(* The refinement of BackupRun.                                            *)

Mapped(s) == [i \in DOMAIN s |-> IF s[i] = "ok" THEN "ok" ELSE "failed"]

\* The items that a record says are saved for the Backup in hand.
ItemsOf(r) == {<<t.pvc, t.storage>> : t \in {u \in r.taken : u.arg = r.arg}}

PhaseAt(stage) ==
  CASE stage = "idle" -> "idle" [] stage = "clean" -> "cleaning"
    [] stage = "done" -> "ended" [] OTHER -> "working"

\* The mapping in terms of the records, before and after a step.
LEMMA MappingFacts ==
  ASSUME NEW j \in Jobs
  PROVE  /\ PhaseMap[j] = PhaseAt(job[j].pc)
         /\ SavedMap[j] = IF PhaseAt(job[j].pc) # "working" THEN {}
                                                          ELSE ItemsOf(job[j])
         /\ ResultMap[j] = Mapped(job[j].results)
BY Zenon DEF PhaseMap, PhaseOf, PhaseAt, At, SavedMap, SavedOf, ItemsOf, ResultMap,
             Mapped

\* The phases.
LEMMA PhaseFacts ==
  /\ PhaseAt("idle") = "idle" /\ PhaseAt("clean") = "cleaning"
  /\ PhaseAt("done") = "ended"
  /\ \A stage \in Working : PhaseAt(stage) = "working"
BY DEF PhaseAt, Working, Looping, Serving, InHelper, Searching

\* A step of one process changes the mapping for that process only.
LEMMA MappingStep ==
  ASSUME TypeInv, NEW j \in Jobs, Takes(j),
         NEW ph, ph = PhaseAt(job'[j].pc),
         NEW sv, sv = IF ph # "working" THEN {} ELSE ItemsOf(job'[j]),
         NEW rs, rs = Mapped(job'[j].results)
  PROVE  /\ PhaseMap' = [PhaseMap EXCEPT ![j] = ph]
         /\ SavedMap' = [SavedMap EXCEPT ![j] = sv]
         /\ ResultMap' = [ResultMap EXCEPT ![j] = rs]
<1>1. \A i \in Jobs : i # j => job'[i] = job[i]
  BY TakesOne
<1>2. PhaseMap' = [PhaseMap EXCEPT ![j] = ph]
  <2>1. PhaseMap' = [i \in Jobs |-> PhaseAt(job'[i].pc)]
    BY Zenon DEF PhaseMap, PhaseOf, PhaseAt, At
  <2>2. PhaseMap = [i \in Jobs |-> PhaseAt(job[i].pc)]
    BY Zenon DEF PhaseMap, PhaseOf, PhaseAt, At
  <2> QED BY <1>1, <2>1, <2>2
<1>3. SavedMap' = [SavedMap EXCEPT ![j] = sv]
  <2> DEFINE S(r) == IF PhaseAt(r.pc) # "working" THEN {} ELSE ItemsOf(r)
  <2>1. SavedMap' = [i \in Jobs |-> S(job'[i])]
    BY Zenon DEF SavedMap, SavedOf, PhaseOf, PhaseAt, At, ItemsOf
  <2>2. SavedMap = [i \in Jobs |-> S(job[i])]
    BY Zenon DEF SavedMap, SavedOf, PhaseOf, PhaseAt, At, ItemsOf
  <2>3. sv = S(job'[j])
    OBVIOUS
  <2> HIDE DEF S
  <2> QED BY <1>1, <2>1, <2>2, <2>3
<1>4. ResultMap' = [ResultMap EXCEPT ![j] = rs]
  <2>1. ResultMap' = [i \in Jobs |-> Mapped(job'[i].results)]
    BY Zenon DEF ResultMap, Mapped
  <2>2. ResultMap = [i \in Jobs |-> Mapped(job[i].results)]
    BY Zenon DEF ResultMap, Mapped
  <2> QED BY <1>1, <2>1, <2>2
<1> QED BY <1>2, <1>3, <1>4

\* How many results there are, in both descriptions.
LEMMA ResultFacts ==
  ASSUME TypeInv, NEW j \in Jobs
  PROVE  /\ ResultMap[j] = Mapped(job[j].results)
         /\ Len(ResultMap[j]) = Len(job[j].results)
         /\ Len(job[j].results) \in Nat
         /\ ResultMap[j] \in Seq({"ok", "failed"})
<1>1. job[j].results \in Seq(Outcomes)
  BY Hand, FieldTypes
<1>2. ResultMap[j] = Mapped(job[j].results)
  BY Zenon DEF ResultMap, Mapped
<1>3. Len(Mapped(job[j].results)) = Len(job[j].results)
      /\ Mapped(job[j].results) \in Seq({"ok", "failed"})
  BY <1>1 DEF Mapped
<1> QED BY <1>1, <1>2, <1>3

\* An outcome that is added.
LEMMA MappedAppend ==
  ASSUME NEW s \in Seq(Outcomes), NEW o \in Outcomes
  PROVE  Mapped(Append(s, o)) = Append(Mapped(s), IF o = "ok" THEN "ok" ELSE "failed")
<1> DEFINE v == IF o = "ok" THEN "ok" ELSE "failed"
           a == Mapped(Append(s, o))
           b == Append(Mapped(s), v)
<1>1. /\ Append(s, o) \in Seq(Outcomes) /\ Len(Append(s, o)) = Len(s) + 1
      /\ Len(s) \in Nat
      /\ \A i \in 1 .. Len(s) : Append(s, o)[i] = s[i]
      /\ Append(s, o)[Len(s) + 1] = o
  OBVIOUS
<1>2. /\ Mapped(s) \in Seq({"ok", "failed"}) /\ Len(Mapped(s)) = Len(s)
      /\ \A i \in 1 .. Len(s) : Mapped(s)[i] = IF s[i] = "ok" THEN "ok" ELSE "failed"
  BY DEF Mapped
<1>3. /\ a \in Seq({"ok", "failed"}) /\ Len(a) = Len(s) + 1
      /\ \A i \in 1 .. Len(s) + 1 :
           a[i] = IF Append(s, o)[i] = "ok" THEN "ok" ELSE "failed"
  BY <1>1 DEF Mapped
<1>4. /\ b \in Seq({"ok", "failed"}) /\ Len(b) = Len(s) + 1
      /\ \A i \in 1 .. Len(s) : b[i] = Mapped(s)[i]
      /\ b[Len(s) + 1] = v
  BY <1>1, <1>2
<1> HIDE DEF a, b
<1>5. \A i \in 1 .. Len(s) + 1 : a[i] = b[i]
  BY <1>1, <1>2, <1>3, <1>4
<1>6. a = b
  BY <1>1, <1>3, <1>4, <1>5
<1> QED BY <1>6 DEF a, b

\* The Backup in hand and the helpers, as BackupRun sees them.
LEMMA PromiseTerms ==
  ASSUME TypeInv, NEW j \in Jobs
  PROVE  /\ job[j].pc \in Working \cup {"idle"} => Promise!InHand(j) = Backup(j)
         /\ HelpersNamed[Backup(j)] = NamesOf(Backup(j))
         /\ Items[Backup(j)] = Wanted(Backup(j)) \X DOMAIN Specs[Backup(j)].backupTo
<1>1. Backup(j) \in Backups /\ ResultInv(j, job[j])
  BY Hand
<1>2. job[j].pc \in Working \cup {"idle"} => Promise!InHand(j) = Backup(j)
  <2>1. ASSUME job[j].pc \in Working \cup {"idle"}
        PROVE  Len(ResultMap[j]) + 1 = job[j].arg
    <3>1. job[j].arg \in Nat
      BY Hand, FieldTypes
    <3>2. Len(job[j].results) = job[j].arg - 1
      BY <1>1, <2>1 DEF ResultInv
    <3>3. Len(ResultMap[j]) = Len(job[j].results)
      BY ResultFacts
    <3> QED BY <3>1, <3>2, <3>3
  <2>2. Promise!InHand(j) = Args[j][Len(ResultMap[j]) + 1]
    BY DEF Promise!InHand
  <2> QED BY <2>1, <2>2 DEF Backup
<1> QED BY <1>1, <1>2, Zenon DEF HelpersNamed, Items, Wanted

\* While a process works, helpers of the Backup in hand may appear.
LEMMA WorkingDeploys ==
  ASSUME TypeInv, NEW j \in Jobs, JobStep(j) \/ Kill(j), job[j].pc \in Working
  PROVE  Promise!MayDeploy(j)
<1>0. /\ deployments \in [DeployName -> Deployment \cup {Nil}]
      /\ Promise!InHand(j) = Backup(j)
  BY PromiseTerms DEF TypeInv, TypeOK
<1>1. CASE deployments' = deployments
  BY <1>1 DEF Promise!MayDeploy, HelperSet
<1>2. CASE Adds(j)
  <2>1. PICK d \in NamesOf(Backup(j)), x \in Deployment :
          deployments' = [deployments EXCEPT ![d] = x]
    BY <1>2 DEF Adds
  <2>0. d \in DeployName
    BY DEF NamesOf
  <2>2. HelperSet' = HelperSet \cup {d}
    BY <2>0, <1>0, <2>1, AbsenceAssumption DEF HelperSet
  <2>3. d \in HelpersNamed[Backup(j)]
    BY <2>1, PromiseTerms
  <2> QED BY <1>0, <2>2, <2>3 DEF Promise!MayDeploy
<1>3. job[j].pc # "clean"
  BY DEF Working, Looping, Serving, InHelper, Searching
<1> QED BY <1>1, <1>2, <1>3, HelperEffect


\* A step within a call of Do that saves nothing.
LEMMA PromiseDeploy ==
  ASSUME TypeInv, NEW j \in Jobs, JobStep(j) \/ Kill(j), Takes(j),
         job[j].pc \in Working, job'[j].pc \in Working,
         Same(job[j], job'[j], LoopFields \cup {"pc", "deployNames"})
  PROVE  Promise!Deploy(j)
<1>1. /\ job'[j].taken = job[j].taken /\ job'[j].arg = job[j].arg
      /\ job'[j].results = job[j].results
  BY DEF Same, Fields, LoopFields
<1>2. PhaseAt(job[j].pc) = "working" /\ PhaseAt(job'[j].pc) = "working"
  BY PhaseFacts
<1>3. ItemsOf(job'[j]) = ItemsOf(job[j])
  BY <1>1 DEF ItemsOf
<1>4. /\ PhaseMap[j] = "working" /\ SavedMap[j] = ItemsOf(job[j])
      /\ ResultMap[j] = Mapped(job[j].results)
  BY <1>2, MappingFacts
<1>5. /\ PhaseMap' = [PhaseMap EXCEPT ![j] = "working"]
      /\ SavedMap' = [SavedMap EXCEPT ![j] = ItemsOf(job[j])]
      /\ ResultMap' = [ResultMap EXCEPT ![j] = Mapped(job[j].results)]
  BY <1>1, <1>2, <1>3, MappingStep
<1>6. UNCHANGED <<PhaseMap, SavedMap, ResultMap>>
  BY <1>4, <1>5 DEF PhaseMap, SavedMap, ResultMap
<1> QED BY <1>4, <1>6, WorkingDeploys DEF Promise!Deploy

\* The first Backup or the next one: nothing of it is saved.
LEMMA PromiseBegin ==
  ASSUME TypeInv, NEW j \in Jobs, JobStep(j) \/ Kill(j), Takes(j),
         job'[j].pc = "list",
         \/ job[j].pc = "idle" /\ Same(job[j], job'[j], {"pc"})
         \/ Advances(j, job[j], job'[j])
  PROVE  Promise!Begin(j)
<1>1. /\ job'[j].results = job[j].results /\ job'[j].taken = job[j].taken
      /\ job[j].pc \in {"idle", "clean"}
  BY DEF Advances, Same, Fields
<1>2. /\ PhaseAt(job'[j].pc) = "working"
      /\ PhaseAt(job[j].pc) \in {"idle", "cleaning"}
  BY <1>1, PhaseFacts DEF Working
<1>3. ItemsOf(job'[j]) = {}
  <2>1. OnceInv(j, job'[j])
    BY Hand, OnceStep DEF Takes
  <2> QED BY <2>1 DEF OnceInv, ItemsOf
<1>4. /\ PhaseMap[j] = PhaseAt(job[j].pc) /\ SavedMap[j] = {}
      /\ ResultMap[j] = Mapped(job[j].results)
  BY <1>2, MappingFacts
<1>5. /\ PhaseMap' = [PhaseMap EXCEPT ![j] = "working"]
      /\ SavedMap' = [SavedMap EXCEPT ![j] = {}]
      /\ ResultMap' = [ResultMap EXCEPT ![j] = Mapped(job[j].results)]
  BY <1>1, <1>2, <1>3, MappingStep
<1>6. UNCHANGED <<SavedMap, ResultMap>>
  BY <1>4, <1>5 DEF SavedMap, ResultMap
<1>7. deployments' = deployments
  <2>1. CASE job[j].pc = "idle"
    BY <2>1, HelperEffect DEF CanDeploy
  <2>2. CASE job[j].pc = "clean"
    <3>1. ~Removes(j)
      BY <2>2 DEF Advances, Removes
    <3> QED BY <2>2, <3>1, HelperEffect DEF CanDeploy
  <2> QED BY <1>1, <2>1, <2>2
<1>8. UNCHANGED HelperSet
  BY <1>7 DEF HelperSet
<1>9. CASE job[j].pc = "idle"
  BY <1>4, <1>5, <1>6, <1>8, <1>9, PhaseFacts DEF Promise!Begin, Promise!Move
<1>10. CASE Advances(j, job[j], job'[j])
  <2>1. job[j].pc = "clean" /\ job[j].arg + 1 <= Len(Args[j])
    BY <1>10 DEF Advances
  <2>2. Len(ResultMap[j]) < Len(Args[j])
    <3>1. job[j].arg \in Nat /\ Len(Args[j]) \in Nat
      BY Hand, FieldTypes, ArgTypes
    <3>2. Len(job[j].results) = job[j].arg
      BY <2>1, Hand DEF ResultInv
    <3>3. Len(ResultMap[j]) = Len(job[j].results)
      BY ResultFacts
    <3> QED BY <2>1, <3>1, <3>2, <3>3
  <2>3. PhaseMap[j] = "cleaning"
    BY <1>4, <2>1, PhaseFacts
  <2> QED BY <1>5, <1>6, <1>8, <2>2, <2>3 DEF Promise!Begin, Promise!Move
<1> QED BY <1>9, <1>10

\* A snapshot.
LEMMA PromiseSave ==
  ASSUME TypeInv, ScopeInv, NEW j \in Jobs, JobStep(j) \/ Kill(j), Takes(j),
         Saves(job[j], job'[j])
  PROVE  Promise!Save(j)
<1>0. job[j].pc = "backup" /\ job'[j].pc = "choose"
  BY DEF Saves
<1>1. /\ job'[j].arg = job[j].arg /\ job'[j].results = job[j].results
  BY DEF Saves, Same, Fields
<1>2. /\ PhaseAt(job[j].pc) = "working" /\ PhaseAt(job'[j].pc) = "working"
      /\ job[j].pc \in Working /\ job[j].pc \in Serving /\ job[j].pc \in InHelper
  BY <1>0, PhaseFacts DEF Working, Looping, Serving, InHelper
<1> DEFINE item == <<job[j].pvc, job[j].storages[1]>>
<1>3. ItemsOf(job'[j]) = ItemsOf(job[j]) \cup {item}
  <2>1. PICK t \in job'[j].taken :
          /\ t.arg = job[j].arg /\ t.pvc = job[j].pvc
          /\ t.storage = job[j].storages[1]
          /\ job'[j].taken = job[j].taken \cup {t}
    BY DEF Saves
  <2> QED BY <1>1, <2>1 DEF ItemsOf
<1>4. item \notin ItemsOf(job[j])
  <2>1. Earlier(job[j]) = {}
    BY <1>0, Hand, FirstOfEntry
  <2> QED BY <2>1 DEF Earlier, ItemsOf
<1>5. item \in Items[Backup(j)]
  <2>1. job[j].pvc \in Wanted(Backup(j))
    BY <1>2, Hand DEF ScopeInv, NothingElseInv, StageInv, Looping
  <2>2. job[j].storages[1] \in DOMAIN Specs[Backup(j)].backupTo
    BY <1>2, ServingFacts
  <2> QED BY <2>1, <2>2, PromiseTerms
<1>6. Writes(j)
  <2>1. job'[j].taken # job[j].taken
    <3>1. item \in ItemsOf(job'[j])
      BY <1>3
    <3> QED BY <1>1, <1>4, <3>1 DEF ItemsOf
  <2> QED BY <2>1, TakenOrWrites
<1>7. UNCHANGED HelperSet
  BY <1>6 DEF Writes, HelperSet
<1>8. HelpersNamed[Backup(j)] \cap HelperSet # {}
  <2> DEFINE d == job[j].execPod.deploy
  <2>1. /\ d \in DeployName /\ deployments[d] # Nil
        /\ d = theDeployName(Storage(j), Backup(j), MetaOf(j, job[j].pvc))
    BY <1>2, <1>6, ContentFacts DEF Writes
  <2>2. d \in NamesOf(Backup(j))
    <3>1. /\ Storage(j) \in Range(DeployKinds) /\ Backup(j) \in Backups
          /\ MetaOf(j, job[j].pvc).node \in Nodes
      BY <1>2, ServingFacts, Hand, Kinds
    <3> QED BY <2>1, <3>1, NameFacts
  <2> QED BY <2>1, <2>2, PromiseTerms DEF HelperSet
<1>9. /\ PhaseMap[j] = "working" /\ SavedMap[j] = ItemsOf(job[j])
      /\ ResultMap[j] = Mapped(job[j].results)
  BY <1>2, MappingFacts
<1>10. /\ PhaseMap' = [PhaseMap EXCEPT ![j] = "working"]
       /\ SavedMap' = [SavedMap EXCEPT ![j] = ItemsOf(job[j]) \cup {item}]
       /\ ResultMap' = [ResultMap EXCEPT ![j] = Mapped(job[j].results)]
  <2> HIDE DEF item
  <2> QED BY <1>1, <1>2, <1>3, MappingStep
<1>11. UNCHANGED <<PhaseMap, ResultMap>>
  BY <1>9, <1>10 DEF PhaseMap, ResultMap
<1>12. Promise!InHand(j) = Backup(j)
  BY <1>2, PromiseTerms
<1> HIDE DEF item
<1>13. SavedMap' = [SavedMap EXCEPT ![j] = @ \cup {item}]
  BY <1>9, <1>10 DEF SavedMap
<1> QED BY <1>4, <1>5, <1>7, <1>8, <1>9, <1>11, <1>12, <1>13 DEF Promise!Save

\* Do returns: nil only if everything is saved.
LEMMA PromiseReturn ==
  ASSUME TypeInv, ScopeInv, AllComplete, NEW j \in Jobs, JobStep(j) \/ Kill(j),
         Takes(j), Returns(j, job[j], job'[j])
  PROVE  Promise!Return(j)
<1>0. job[j].pc \in Working /\ job'[j].pc = "clean"
  BY DEF Returns
<1>1. PICK o \in Outcomes :
        /\ job'[j].results = Append(job[j].results, o)
        /\ o = "ok" => /\ job[j].pc = "choose" /\ Len(job[j].storages) <= 1
                       /\ job[j].storages = <<>> \/ job[j].todo = {}
  BY DEF Returns
<1> DEFINE v == IF o = "ok" THEN "ok" ELSE "failed"
<1>2. Mapped(job'[j].results) = Append(Mapped(job[j].results), v)
  <2>1. job[j].results \in Seq(Outcomes)
    BY Hand, FieldTypes
  <2> QED BY <1>1, <2>1, MappedAppend
<1> HIDE DEF v
<1>3. PhaseAt(job[j].pc) = "working" /\ PhaseAt(job'[j].pc) = "cleaning"
  BY <1>0, PhaseFacts
<1>4. /\ PhaseMap[j] = "working" /\ SavedMap[j] = ItemsOf(job[j])
      /\ ResultMap[j] = Mapped(job[j].results)
  BY <1>3, MappingFacts
<1>5. /\ PhaseMap' = [PhaseMap EXCEPT ![j] = "cleaning"]
      /\ SavedMap' = [SavedMap EXCEPT ![j] = {}]
      /\ ResultMap' = [ResultMap EXCEPT ![j] = Append(Mapped(job[j].results), v)]
  <2>1. {} = IF "cleaning" # "working" THEN {} ELSE ItemsOf(job'[j])
    OBVIOUS
  <2> QED BY <2>1, <1>2, <1>3, MappingStep
<1>6. ResultMap' = [ResultMap EXCEPT ![j] = Append(@, v)]
  BY <1>4, <1>5 DEF ResultMap
<1>7. ASSUME v = "ok" PROVE ItemsOf(job[j]) = Items[Backup(j)]
  <2>1. /\ job[j].pc = "choose" /\ Len(job[j].storages) <= 1
        /\ job[j].storages = <<>> \/ job[j].todo = {}
    BY <1>1, <1>7 DEF v
  <2>2. /\ LoopComplete(j, job[j]) /\ NothingElseInv(j, job[j])
        /\ job[j].storages \in Seq(StorageFields)
    BY Hand, FieldTypes DEF AllComplete, CompleteInv, ScopeInv
  <2>3. \A c, s : ~Pending(job[j], c, s)
    BY <2>1, <2>2 DEF Pending, Serving, InHelper
  <2>4. ASSUME NEW c \in Wanted(Backup(j)), NEW s \in DOMAIN Specs[Backup(j)].backupTo
        PROVE  <<c, s>> \in ItemsOf(job[j])
    <3>1. c \in Found(job[j])
      BY <2>1, <2>2, Hand DEF LoopComplete, Looping
    <3>2. SavedIn(job[j], job[j].arg, c, s)
      BY <2>1, <2>2, <2>3, <3>1, Hand DEF LoopComplete, Looping
    <3> QED BY <3>2 DEF SavedIn, ItemsOf
  <2>5. ASSUME NEW t \in job[j].taken, t.arg = job[j].arg
        PROVE  /\ t.pvc \in Wanted(Backup(j))
               /\ t.storage \in DOMAIN Specs[Backup(j)].backupTo
    BY <2>2, <2>5 DEF NothingElseInv, Backup
  <2>6. Items[Backup(j)] = Wanted(Backup(j)) \X DOMAIN Specs[Backup(j)].backupTo
    BY PromiseTerms
  <2> QED BY <2>4, <2>5, <2>6 DEF ItemsOf
<1>8. Promise!InHand(j) = Backup(j) /\ Promise!MayDeploy(j)
  BY <1>0, PromiseTerms, WorkingDeploys
<1>9. v \in {"ok", "failed"}
  BY DEF v
<1> QED
  BY <1>4, <1>5, <1>6, <1>7, <1>8, <1>9 DEF Promise!Return, Promise!Move

\* A deletion: by a name the process remembers, of a Backup it is done with.
LEMMA PromiseClean ==
  ASSUME TypeInv, ScopeInv, NEW j \in Jobs, JobStep(j) \/ Kill(j), Takes(j),
         Cleans(job[j], job'[j])
  PROVE  Promise!Clean(j)
<1>0. job[j].pc = "clean" /\ job'[j].pc = "clean"
  BY DEF Cleans
<1>1. job'[j].results = job[j].results
  BY DEF Cleans, Same, Fields
<1>2. PhaseAt(job[j].pc) = "cleaning" /\ PhaseAt(job'[j].pc) = "cleaning"
  BY <1>0, PhaseFacts
<1>3. /\ PhaseMap[j] = "cleaning" /\ SavedMap[j] = {}
      /\ ResultMap[j] = Mapped(job[j].results)
  BY <1>2, MappingFacts
<1>4. /\ PhaseMap' = [PhaseMap EXCEPT ![j] = "cleaning"]
      /\ SavedMap' = [SavedMap EXCEPT ![j] = {}]
      /\ ResultMap' = [ResultMap EXCEPT ![j] = Mapped(job[j].results)]
  <2> DEFINE ph == PhaseAt(job'[j].pc)
             sv == IF ph # "working" THEN {} ELSE ItemsOf(job'[j])
             rs == Mapped(job'[j].results)
  <2>1. ph = "cleaning" /\ sv = {} /\ rs = Mapped(job[j].results)
    BY <1>1, <1>2
  <2>2. /\ ph = PhaseAt(job'[j].pc) /\ rs = Mapped(job'[j].results)
        /\ sv = IF ph # "working" THEN {} ELSE ItemsOf(job'[j])
    OBVIOUS
  <2> HIDE DEF ph, sv, rs
  <2>3. /\ PhaseMap' = [PhaseMap EXCEPT ![j] = ph]
        /\ SavedMap' = [SavedMap EXCEPT ![j] = sv]
        /\ ResultMap' = [ResultMap EXCEPT ![j] = rs]
    BY <2>2, MappingStep
  <2> QED BY <2>1, <2>3
<1>5. UNCHANGED <<PhaseMap, SavedMap, ResultMap>>
  BY <1>3, <1>4 DEF PhaseMap, SavedMap, ResultMap
<1>6. CASE deployments' = deployments
  BY <1>3, <1>5, <1>6 DEF Promise!Clean, HelperSet
<1>7. CASE Removes(j)
  <2> DEFINE k == Head(job[j].cleaning)
             d == job[j].deployNames[k]
  <2>1. k \in Range(DeployKinds) /\ d \in DeployName \cup {Nil}
    BY <1>7, Hand, TailFacts DEF Removes, JobState
  <2>2. d # Nil /\ deployments' = [deployments EXCEPT ![d] = Nil]
    BY <1>7 DEF Removes
  <2>3. PICK i \in 1 .. job[j].arg : d \in NamesOf(Args[j][i])
    BY <2>1, <2>2 DEF ScopeInv, NamesInv
  <2>4. /\ job[j].arg \in Nat /\ Len(ResultMap[j]) = job[j].arg
        /\ Args[j][i] \in Backups
    <3>1. job[j].arg \in Nat /\ job[j].arg \in 1 .. Len(Args[j])
      BY Hand, FieldTypes DEF StageInv
    <3>2. Len(job[j].results) = job[j].arg
      BY <1>0, Hand DEF ResultInv
    <3>3. Len(ResultMap[j]) = Len(job[j].results)
      BY ResultFacts
    <3>4. i \in 1 .. Len(Args[j])
      BY <3>1, ArgTypes
    <3> QED BY <3>1, <3>2, <3>3, <3>4, ArgTypes
  <2> HIDE DEF d
  <2>5. d \in HelpersNamed[Args[j][i]]
    BY <2>1, <2>2, <2>3, <2>4 DEF HelpersNamed
  <2>6. d \in Promise!Disposable(j)
    BY <2>4, <2>5 DEF Promise!Disposable
  <2>7. HelperSet' = HelperSet \ {d}
    BY <2>1, <2>2 DEF HelperSet, TypeInv, TypeOK
  <2> QED BY <1>3, <1>5, <2>6, <2>7 DEF Promise!Clean
<1> QED BY <1>0, <1>6, <1>7, HelperEffect DEF CanDeploy

\* The last argument has been dealt with.
LEMMA PromiseEnd ==
  ASSUME TypeInv, NEW j \in Jobs, JobStep(j) \/ Kill(j), Takes(j),
         job[j].pc = "clean", job'[j].pc = "done", Same(job[j], job'[j], {"pc"}),
         deployments' = deployments
  PROVE  Promise!End(j)
<1>1. job'[j].results = job[j].results
  BY DEF Same, Fields
<1>2. PhaseAt(job[j].pc) = "cleaning" /\ PhaseAt(job'[j].pc) = "ended"
  BY PhaseFacts
<1>3. /\ PhaseMap[j] = "cleaning" /\ SavedMap[j] = {}
      /\ ResultMap[j] = Mapped(job[j].results)
  BY <1>2, MappingFacts
<1>4. /\ PhaseMap' = [PhaseMap EXCEPT ![j] = "ended"]
      /\ SavedMap' = [SavedMap EXCEPT ![j] = {}]
      /\ ResultMap' = [ResultMap EXCEPT ![j] = Mapped(job[j].results)]
  BY <1>1, <1>2, MappingStep
<1>5. UNCHANGED <<SavedMap, ResultMap, HelperSet>>
  BY <1>3, <1>4 DEF SavedMap, ResultMap, HelperSet
<1> QED BY <1>3, <1>4, <1>5 DEF Promise!End, Promise!Move

\* The process is gone.
LEMMA PromiseDie ==
  ASSUME TypeInv, NEW j \in Jobs, JobStep(j) \/ Kill(j), Takes(j),
         Vanishes(job[j], job'[j]), deployments' = deployments
  PROVE  Promise!Die(j)
<1>0. /\ job[j].pc \in Working \cup {"clean"} /\ job'[j].pc = "done"
  BY Hand DEF Vanishes, Stages
<1>1. PICK o \in {"exit", "killed"} : job'[j].results = Append(job[j].results, o)
  BY DEF Vanishes
<1>2. Mapped(job'[j].results) = Append(Mapped(job[j].results), "failed")
  <2>1. job[j].results \in Seq(Outcomes) /\ o \in Outcomes /\ o # "ok"
    BY Hand, FieldTypes DEF Outcomes
  <2> QED BY <1>1, <2>1, MappedAppend
<1>3. PhaseAt(job[j].pc) \in {"working", "cleaning"} /\ PhaseAt(job'[j].pc) = "ended"
  BY <1>0, PhaseFacts
<1>4. PhaseMap[j] \in {"working", "cleaning"} /\ ResultMap[j] = Mapped(job[j].results)
  BY <1>3, MappingFacts
<1>5. /\ PhaseMap' = [PhaseMap EXCEPT ![j] = "ended"]
      /\ SavedMap' = [SavedMap EXCEPT ![j] = {}]
      /\ ResultMap' = [ResultMap EXCEPT ![j] = Append(Mapped(job[j].results), "failed")]
  BY <1>2, <1>3, MappingStep
<1>6. ResultMap' = [ResultMap EXCEPT ![j] = Append(@, "failed")]
  BY <1>4, <1>5 DEF ResultMap
<1>7. UNCHANGED HelperSet
  BY DEF HelperSet
<1> QED BY <1>4, <1>5, <1>6, <1>7 DEF Promise!Die, Promise!Move


\* Every step of a process is one of BackupRun's.
LEMMA PromiseProcess ==
  ASSUME TypeInv, ScopeInv, AllComplete, NEW j \in Jobs, JobStep(j) \/ Kill(j)
  PROVE  Promise!Next
<1>0. Takes(j) /\ LocalStep(j, job[j], job'[j])
  BY ProcessTakes DEF Takes
<1> USE DEF Working, Looping, Serving, InHelper, Searching
<1>1. CASE /\ job[j].pc \in Working /\ job'[j].pc \in Working
           /\ Same(job[j], job'[j], LoopFields \cup {"pc", "deployNames"})
  BY <1>0, <1>1, PromiseDeploy DEF Promise!Next
<1>2. CASE Jumps(job[j], job'[j])
  <2>1. CASE job[j].pc = "idle"
    <3>1. job'[j].pc = "list" /\ Same(job[j], job'[j], {"pc"})
      BY <1>2, <2>1 DEF Jumps
    <3> QED BY <1>0, <2>1, <3>1, PromiseBegin DEF Promise!Next
  <2>2. CASE job[j].pc = "clean"
    <3>1. job'[j].pc = "done" /\ Same(job[j], job'[j], {"pc"})
      BY <1>2, <2>2 DEF Jumps
    <3>2. deployments' = deployments
      BY <3>1, HelperEffect
    <3> QED BY <1>0, <2>2, <3>1, <3>2, PromiseEnd DEF Promise!Next
  <2>3. CASE job[j].pc \notin {"idle", "clean"}
    BY <1>1, <1>2, <2>3 DEF Jumps, Same
  <2> QED BY <2>1, <2>2, <2>3
<1>3. CASE Lists(j, job[j], job'[j]) \/ Enters(j, job[j], job'[j])
  BY <1>1, <1>3 DEF Lists, Enters, Same, LoopFields
<1>4. CASE Finds(job[j], job'[j]) \/ Deploys(j, job[j], job'[j])
  BY <1>1, <1>4 DEF Finds, Deploys, Same, LoopFields
<1>5. CASE Loops(j, job[j], job'[j]) \/ Turns(job[j], job'[j])
  BY <1>1, <1>5 DEF Loops, Turns, Same, LoopFields
<1>6. CASE Picks(job[j], job'[j]) \/ Acquires(j, job[j], job'[j])
  BY <1>1, <1>6 DEF Picks, Acquires, Same, LoopFields
<1>7. CASE Saves(job[j], job'[j])
  BY <1>0, <1>7, PromiseSave DEF Promise!Next
<1>8. CASE Returns(j, job[j], job'[j])
  BY <1>0, <1>8, PromiseReturn DEF Promise!Next
<1>9. CASE Cleans(job[j], job'[j])
  BY <1>0, <1>9, PromiseClean DEF Promise!Next
<1>10. CASE Advances(j, job[j], job'[j])
  BY <1>0, <1>10, PromiseBegin DEF Promise!Next, Advances
<1>11. CASE Vanishes(job[j], job'[j])
  <2>1. deployments' = deployments
    BY <1>11, HelperEffect DEF Vanishes
  <2> QED BY <1>0, <1>11, <2>1, PromiseDie DEF Promise!Next
<1> QED
  BY <1>0, <1>2, <1>3, <1>4, <1>5, <1>6, <1>7, <1>8, <1>9, <1>10, <1>11
     DEF LocalStep


\* Every step is one of BackupRun's, or changes nothing that it knows of.
LEMMA PromiseStep ==
  TypeInv /\ ScopeInv /\ AllComplete /\ [Next]_vars =>
    [Promise!Next]_<<PhaseMap, SavedMap, ResultMap, HelperSet>>
<1> SUFFICES ASSUME TypeInv, ScopeInv, AllComplete, [Next]_vars
             PROVE  [Promise!Next]_<<PhaseMap, SavedMap, ResultMap, HelperSet>>
  OBVIOUS
<1>1. CASE \E j \in Jobs : JobStep(j) \/ Kill(j)
  BY <1>1, PromiseProcess
<1>2. CASE job' = job /\ deployments' = deployments
  BY <1>2 DEF PhaseMap, PhaseOf, At, SavedMap, SavedOf, ResultMap, HelperSet
<1> QED BY <1>1, <1>2 DEF Next, Reschedule, vars

\* The initial states are initial states of BackupRun.
LEMMA PromiseInit == Init => Promise!Init
<1> SUFFICES ASSUME Init PROVE Promise!Init
  OBVIOUS
<1>1. \A j \in Jobs : job[j] = Idle /\ Idle.pc = "idle" /\ Idle.results = <<>>
  BY DEF Init, Idle
<1>2. HelperSet = {}
  BY DEF Init, HelperSet
<1>3. PhaseMap = [j \in Jobs |-> "idle"]
  BY <1>1 DEF PhaseMap, PhaseOf, At
<1>4. SavedMap = [j \in Jobs |-> {}]
  BY <1>1 DEF SavedMap, SavedOf, PhaseOf, At
<1>5. ResultMap = [j \in Jobs |-> <<>>]
  <2>1. Mapped(<<>>) = <<>>
    BY DEF Mapped
  <2>2. ResultMap = [j \in Jobs |-> Mapped(job[j].results)]
    BY Zenon DEF ResultMap, Mapped
  <2> QED BY <1>1, <2>1, <2>2
<1> QED BY <1>2, <1>3, <1>4, <1>5 DEF Promise!Init

\* RefinesBackupRun: for any processes, failures and moves, what pkg/backup does
\* in many calls is what BackupRun promises in one.  The hypothesis is that of
\* SuccessComplete: with failed lookups Do may return nil too early.
THEOREM RunRefinement ==
  ASSUME "lookup" \notin Faults
  PROVE  Spec => RefinesBackupRun
<1>1. TypeInv /\ ScopeInv /\ AllComplete /\ [Next]_vars =>
        [Promise!Next]_<<PhaseMap, SavedMap, ResultMap, HelperSet>>
  BY PromiseStep
<1>2. TypeInv /\ AllComplete /\ [Next]_vars => AllComplete'
  BY AllCompleteStep
<1>3. Init => AllComplete
  BY ScopeInit
<1> QED
  BY <1>1, <1>2, <1>3, PromiseInit, TypeInvariant, ScopeInvariant, PTL
     DEF Spec, RefinesBackupRun, Promise!Spec, Promise!vars

=============================================================================
