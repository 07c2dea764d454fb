------------------------ MODULE BackupCleanupProofs -------------------------
(* Theorems about the end of a run of BackupJob: the deferred function of  *)
(* Do leaves no helper behind, and a success removes those of killed runs. *)
EXTENDS BackupRunProofs

\* The pods of a target are found on one node: the cluster has one node, or the
\* pods are on one and stay there.
OneNode == \A b \in Backups : \A m, n \in TargetNodes(b) : m = n

\* Processes that are given Backups of a common name are runs of one CronJob.
OwnNames ==
  \A i, j \in Jobs :
    (\E a \in Range(Args[i]), b \in Range(Args[j]) : Specs[a].name = Specs[b].name)
      => Args[i] = Args[j]

Inactive == {"idle", "done"}

\* The name of helper d is that of one for Backup b, on a node of its target.
NamedFor(b, d) == \E n \in TargetNodes(b) : d.rest = Joined(n, Specs[b].name)

\* The kinds of helpers a Backup needs.
KindsOf(b) == {"findpvdir"} \cup DOMAIN Specs[b].backupTo

\* Runs of one CronJob do not overlap (concurrencyPolicy Forbid).
MutexInv ==
  \A i, j \in Jobs : i # j /\ Args[i] = Args[j] =>
    job[i].pc \in Inactive \/ job[j].pc \in Inactive

\* The metadata of the entries, and of the claims to come, name such a node.
SiteInv(j, r) ==
  /\ r.pc \in Searching => \A m \in 1 .. Len(r.pods) :
       r.pods[m].node \in TargetNodes(InHand(j, r))
  /\ r.pc \in Searching \cup Looping => \A c \in Found(r) :
       r.pvcpvMap[c].node \in TargetNodes(InHand(j, r))
  /\ r.pc \in {"find", "findExec"} => Range(r.claims) \subseteq Found(r)

\* Helper d is remembered by process j for the Backup in hand, and is not among
\* those the deferred function has dealt with.
Owns(j, d) ==
  /\ job[j].pc \notin Inactive \cup {"list"}
  /\ job[j].deployNames[d.kind] = d
  /\ NamedFor(Backup(j), d)
  /\ job[j].pc = "clean" => d.kind \in Range(job[j].cleaning)

\* Every helper is remembered by a process that will delete it, unless some
\* process has vanished.
OwnInv ==
  (\E i \in Jobs : Vanished(i)) \/
  \A d \in DeployName : deployments[d] # Nil => \E j \in Jobs : Owns(j, d)

-----------------------------------------------------------------------------
(* The parts of the invariant.                                             *)

\* A Backup has one helper of a kind.
LEMMA OneHelper ==
  ASSUME OneNode, NEW b \in Backups, NEW d \in DeployName, NEW e \in DeployName,
         d.kind = e.kind, NamedFor(b, d), NamedFor(b, e)
  PROVE  d = e
<1>1. d = [kind |-> d.kind, rest |-> d.rest]
  BY DEF DeployName
<1>2. e = [kind |-> e.kind, rest |-> e.rest]
  BY DEF DeployName
<1>3. d.rest = e.rest
  BY DEF OneNode, NamedFor
<1> QED BY <1>1, <1>2, <1>3

\* The nodes of a target are nodes, and what is named for a Backup has one of the
\* names its helpers may have.
LEMMA NamedForFacts ==
  ASSUME NEW b \in Backups, NEW d \in DeployName, NamedFor(b, d)
  PROVE  d \in NamesOf(b)
<1>1. TargetNodes(b) \subseteq Nodes
  <2>1. Range(Specs[b].pods) \subseteq Pods
    BY SpecTypes DEF Range
  <2> QED BY <2>1, NodesAssumption DEF TargetNodes
<1> QED BY <1>1 DEF NamedFor, NamesOf

\* SiteInv, if no lookup fails.
LEMMA SiteStep ==
  ASSUME NEW j \in Jobs, NEW r \in JobState, NEW q \in JobState,
         "lookup" \notin Faults,
         LocalInv(j, r), SiteInv(j, r), LocalStep(j, r, q)
  PROVE  SiteInv(j, q)
<1> USE DEF Searching, Looping, Serving, InHelper
<1>0. /\ r.pods \in Seq(PodObject) /\ r.claims \in Seq(AllClaims)
  BY FieldTypes
<1>1. CASE Lists(j, r, q)
  <2>1. q.arg = r.arg /\ Found(q) = {} /\ q.pc = "prepare"
    BY <1>1 DEF Lists, Same, Fields
  <2>2. \A m \in 1 .. Len(q.pods) : q.pods[m].node \in TargetNodes(InHand(j, r))
    BY <1>1 DEF Lists
  <2> QED BY <2>1, <2>2 DEF SiteInv, InHand
<1>2. CASE Enters(j, r, q)
  <2>1. /\ q.arg = r.arg /\ r.pc = "prepare" /\ q.pc = "find"
        /\ r.pods # <<>> /\ q.pods = Tail(r.pods)
        /\ q.claims = Claims[r.pods[1].pod]
    BY <1>2 DEF Enters, Same, Fields
  <2>2. \A m \in 1 .. Len(q.pods) : q.pods[m].node \in TargetNodes(InHand(j, r))
    BY <1>0, <2>1, TailFacts DEF SiteInv
  <2>3. r.pods[1].node \in TargetNodes(InHand(j, r))
    BY <1>0, <2>1, TailFacts DEF SiteInv
  <2>4. ASSUME NEW c \in Found(q)
        PROVE  q.pvcpvMap[c].node \in TargetNodes(InHand(j, r))
    <3>1. \/ q.pvcpvMap[c].node = r.pods[1].node
          \/ c \in Found(r) /\ q.pvcpvMap[c].node = r.pvcpvMap[c].node
      BY <1>2 DEF Enters
    <3> QED BY <2>1, <2>3, <3>1 DEF SiteInv
  <2>5. Range(q.claims) \subseteq Found(q)
    BY <1>2, <2>1 DEF Enters
  <2> QED BY <2>1, <2>2, <2>4, <2>5 DEF SiteInv, InHand
<1>3. CASE Finds(r, q)
  <2>1. /\ q.arg = r.arg /\ r.pc = "findExec" /\ q.pc = "find" /\ q.pods = r.pods
        /\ r.claims # <<>> /\ q.claims = Tail(r.claims) /\ Found(q) = Found(r)
        /\ \A c \in Found(r) : q.pvcpvMap[c].node = r.pvcpvMap[c].node
    BY <1>3 DEF Finds, Same, Fields
  <2>2. Range(q.claims) \subseteq Range(r.claims)
    BY <1>0, <2>1, TailFacts DEF Range
  <2> QED BY <2>1, <2>2 DEF SiteInv, InHand
<1>4. CASE q.pc \notin Searching \cup Looping
  BY <1>4 DEF SiteInv
<1>5. CASE /\ q.arg = r.arg /\ q.pods = r.pods /\ q.claims = r.claims
           /\ q.pvcpvMap = r.pvcpvMap
           /\ \/ r.pc = "find" /\ q.pc \in {"prepare", "findExec"}
              \/ r.pc = "prepare" /\ q.pc \in Looping
              \/ r.pc \in Looping /\ q.pc \in Looping
  BY <1>5 DEF SiteInv, InHand, Found
<1>6. CASE Jumps(r, q)
  BY <1>4, <1>5, <1>6 DEF Jumps, Same, Fields
<1>7. CASE Deploys(j, r, q)
  BY <1>5, <1>7 DEF Deploys, Same, Fields
<1>8. CASE Loops(j, r, q) \/ Turns(r, q) \/ Picks(r, q)
  BY <1>5, <1>8 DEF Loops, Turns, Picks, Same, Fields
<1>9. CASE Acquires(j, r, q) \/ Saves(r, q)
  BY <1>5, <1>9 DEF Acquires, Saves, Same, Fields
<1>10. CASE \/ Returns(j, r, q) \/ Cleans(r, q) \/ Advances(j, r, q)
            \/ Vanishes(r, q)
  BY <1>4, <1>10 DEF Returns, Cleans, Advances, Vanishes
<1> QED
  BY <1>1, <1>2, <1>3, <1>6, <1>7, <1>8, <1>9, <1>10 DEF LocalStep

\* The helper a process names is for a node of the target.
LEMMA SubjectSite ==
  ASSUME NEW j \in Jobs, NEW r \in JobState, LocalInv(j, r), SiteInv(j, r),
         CanDeploy(r)
  PROVE  MetaIn(r, Subject(r)).node \in TargetNodes(InHand(j, r))
<1> USE DEF Searching, Looping, Serving, InHelper
<1>1. Subject(r) \in Found(r)
  <2>1. CASE r.pc = "deploy"
    BY <2>1 DEF LocalInv, StageInv, Subject
  <2>2. CASE r.pc = "find" /\ r.claims # <<>>
    <3>1. r.claims \in Seq(AllClaims)
      BY FieldTypes
    <3>2. Head(r.claims) \in Range(r.claims)
      BY <2>2, <3>1, TailFacts DEF Range
    <3> QED BY <2>2, <3>2 DEF SiteInv, Subject
  <2> QED BY <2>1, <2>2 DEF CanDeploy
<1> QED BY <1>1 DEF SiteInv, MetaIn, Found, CanDeploy

\* Only Start leaves the idle stage.
LEMMA IdleStarts ==
  ASSUME TypeInv, NEW j \in Jobs, JobStep(j) \/ Kill(j), job[j].pc = "idle"
  PROVE  Start(j)
BY DEF JobStep, Kill, List, Prepare, Prepared, Findpvdir, FindExec, NextStorage,
       PickClaim, createBackup2nfsDeployment, createBackup2minioDepoyment,
       createBackup2sftpDeployment, filterRunningPod, CheckRepo, InitRepo,
       ResticBackup, Clean, NextArg, At

\* No step leaves the last stage.
LEMMA DoneStays ==
  ASSUME NEW j, NEW r, NEW q, LocalStep(j, r, q)
  PROVE  r.pc # "done"
BY DEF LocalStep, Jumps, Lists, Enters, Finds, Deploys, Loops, Turns, Picks,
       Acquires, Saves, Returns, Cleans, Advances, Vanishes, Working, Looping,
       Serving, InHelper, Searching

\* MutexInv: Start waits for the other runs of the CronJob.
LEMMA MutexStep ==
  ASSUME TypeInv, MutexInv, NEW j \in Jobs, JobStep(j) \/ Kill(j)
  PROVE  MutexInv'
<1>0. Takes(j) /\ \A i \in Jobs : i # j => job'[i] = job[i]
  BY ProcessTakes, TakesOne
<1>1. CASE job[j].pc = "idle"
  <2>1. \A i \in Jobs \ {j} : Args[i] = Args[j] => job[i].pc \in Inactive
    BY <1>1, IdleStarts DEF Start, Inactive
  <2> QED BY <1>0, <2>1 DEF MutexInv
<1>2. CASE job[j].pc # "idle"
  <2>1. job[j].pc \notin Inactive
    BY <1>0, <1>2, DoneStays DEF Takes, Inactive
  <2> QED BY <1>0, <2>1 DEF MutexInv
<1> QED BY <1>1, <1>2

\* Outcomes are not forgotten.
LEMMA ResultsGrow ==
  ASSUME NEW j \in Jobs, NEW r \in JobState, NEW q \in JobState, LocalStep(j, r, q)
  PROVE  /\ Range(r.results) \subseteq Range(q.results)
         /\ Vanishes(r, q) => Range(q.results) \cap {"killed", "exit"} # {}
<1>0. r.results \in Seq(Outcomes)
  BY FieldTypes
<1>1. \A o : /\ Range(r.results) \subseteq Range(Append(r.results, o))
             /\ o \in Range(Append(r.results, o))
  <2> TAKE o
  <2>1. /\ Len(Append(r.results, o)) = Len(r.results) + 1 /\ Len(r.results) \in Nat
        /\ DOMAIN Append(r.results, o) = 1 .. Len(r.results) + 1
        /\ DOMAIN r.results = 1 .. Len(r.results)
        /\ \A i \in 1 .. Len(r.results) : Append(r.results, o)[i] = r.results[i]
        /\ Append(r.results, o)[Len(r.results) + 1] = o
    BY <1>0
  <2> QED BY <2>1 DEF Range
<1>2. CASE q.results = r.results /\ ~Vanishes(r, q)
  BY <1>2
<1>3. CASE Returns(j, r, q) \/ Vanishes(r, q)
  BY <1>1, <1>3 DEF Returns, Vanishes, Working, Looping, Serving, InHelper, Searching
<1>4. CASE ~Returns(j, r, q) /\ ~Vanishes(r, q)
  <2>1. q.results = r.results
    BY <1>4 DEF LocalStep, Jumps, Lists, Enters, Finds, Deploys, Loops, Turns,
       Picks, Acquires, Saves, Cleans, Advances, Same, Fields
  <2> QED BY <1>2, <1>4, <2>1
<1> QED BY <1>3, <1>4

-----------------------------------------------------------------------------
(* Helpers and who remembers them.                                         *)

\* Owns, of a record.
Keeps(j, r, d) ==
  /\ r.pc \notin Inactive \cup {"list"}
  /\ r.deployNames[d.kind] = d
  /\ NamedFor(InHand(j, r), d)
  /\ r.pc = "clean" => d.kind \in Range(r.cleaning)

\* A helper a process remembers is remembered after its step, unless that deletes
\* it or the process is gone: another name takes its place only if it is equal.
LEMMA KeepsStep ==
  ASSUME OneNode, NEW j \in Jobs, NEW r \in JobState, NEW q \in JobState,
         LocalInv(j, r), SiteInv(j, r), LocalStep(j, r, q), ~Vanishes(r, q),
         NEW d \in DeployName, Keeps(j, r, d),
         Cleans(r, q) => d.kind # Head(r.cleaning)
  PROVE  Keeps(j, q, d)
<1> USE DEF Inactive
<1>0. /\ InHand(j, r) \in Backups /\ d.kind \in Range(DeployKinds)
      /\ r.deployNames \in [Range(DeployKinds) -> DeployName \cup {Nil}]
      /\ r.cleaning \in Seq(Range(DeployKinds))
  <2>1. d.kind \in Range(DeployKinds)
    BY DEF DeployName
  <2> QED BY <2>1, ArgTypes DEF LocalInv, StageInv, InHand, JobState
<1>1. ASSUME Remembers(j, r, q), CanDeploy(r)
      PROVE  q.deployNames[d.kind] = d
  <2>1. PICK e \in DeployName :
          /\ e.rest = Joined(MetaIn(r, Subject(r)).node, Specs[InHand(j, r)].name)
          /\ q.deployNames = [r.deployNames EXCEPT ![e.kind] = e]
    BY <1>1 DEF Remembers, NamesOf
  <2>2. CASE e.kind = d.kind
    <3>1. NamedFor(InHand(j, r), e)
      BY <1>1, <2>1, SubjectSite DEF NamedFor
    <3>2. e = d
      BY <1>0, <2>2, <3>1, OneHelper DEF Keeps
    <3> QED BY <1>0, <2>1, <3>2
  <2>3. CASE e.kind # d.kind
    BY <1>0, <2>1, <2>3 DEF Keeps
  <2> QED BY <2>2, <2>3
<1>2. CASE Cleans(r, q)
  <2>1. /\ q.pc = "clean" /\ q.arg = r.arg /\ q.deployNames = r.deployNames
        /\ q.cleaning = Tail(r.cleaning) /\ r.cleaning # <<>> /\ r.pc = "clean"
    BY <1>2 DEF Cleans, Same, Fields
  <2>2. PICK m \in 1 .. Len(r.cleaning) : r.cleaning[m] = d.kind
    BY <1>0, <2>1 DEF Keeps, Range
  <2>3. m # 1
    BY <1>0, <1>2, <2>1, <2>2, TailFacts
  <2>4. m - 1 \in 1 .. Len(q.cleaning) /\ q.cleaning[m - 1] = d.kind
    BY <1>0, <2>1, <2>2, <2>3
  <2>5. d.kind \in Range(q.cleaning)
    BY <1>0, <2>1, <2>4, TailFacts DEF Range
  <2> QED BY <2>1, <2>5 DEF Keeps, InHand
<1>3. CASE Returns(j, r, q)
  <2>1. /\ q.pc = "clean" /\ q.arg = r.arg /\ q.cleaning = DeployKinds
        /\ q.deployNames = r.deployNames \/ (CanDeploy(r) /\ Remembers(j, r, q))
    BY <1>3 DEF Returns, Same, Fields, LoopFields
  <2>2. q.deployNames[d.kind] = d
    <3>1. CASE q.deployNames = r.deployNames
      BY <3>1 DEF Keeps
    <3> QED BY <1>1, <2>1, <3>1
  <2> QED BY <1>0, <2>1, <2>2 DEF Keeps, InHand
<1>4. CASE Deploys(j, r, q)
  <2>1. /\ q.pc \in {"findExec", "acquire"} /\ q.arg = r.arg /\ Remembers(j, r, q)
        /\ CanDeploy(r)
    BY <1>4 DEF Deploys, Same, Fields, CanDeploy
  <2> QED BY <1>1, <2>1 DEF Keeps, InHand
<1>5. CASE /\ q.arg = r.arg /\ q.deployNames = r.deployNames
           /\ q.pc \notin Inactive \cup {"list", "clean"}
  BY <1>5 DEF Keeps, InHand
<1>6. CASE Jumps(r, q)
  <2>1. r.pc # "clean"
    BY <1>6 DEF Jumps, Keeps, Range
  <2> QED BY <1>5, <1>6, <2>1 DEF Jumps, Keeps, Same, Fields
<1>7. CASE Advances(j, r, q)
  BY <1>7 DEF Advances, Keeps, Range
<1>8. CASE Lists(j, r, q) \/ Enters(j, r, q) \/ Finds(r, q) \/ Loops(j, r, q)
  BY <1>5, <1>8 DEF Lists, Enters, Finds, Loops, Same, Fields
<1>9. CASE Turns(r, q) \/ Picks(r, q) \/ Acquires(j, r, q) \/ Saves(r, q)
  BY <1>5, <1>9 DEF Turns, Picks, Acquires, Saves, Same, Fields
<1> QED BY <1>2, <1>3, <1>4, <1>6, <1>7, <1>8, <1>9 DEF LocalStep

\* A deletion that cannot fail deletes.
LEMMA CleanDeletes ==
  ASSUME TypeInv, "delete" \notin Faults, NEW j \in Jobs, JobStep(j) \/ Kill(j),
         Cleans(job[j], job'[j]),
         NEW d \in DeployName, d = job[j].deployNames[Head(job[j].cleaning)]
  PROVE  deployments'[d] = Nil
<1>0. /\ job[j].pc = "clean" /\ job'[j].pc = "clean" /\ job[j] \in JobState
      /\ job \in [Jobs -> JobState]
      /\ deployments \in [DeployName -> Deployment \cup {Nil}] /\ d # Nil
  BY Hand, AbsenceAssumption DEF Cleans, TypeInv, TypeOK
<1>1. Clean(j) \/ NextArg(j) \/ Kill(j)
  BY <1>0 DEF JobStep, Start, List, Prepare, Prepared, Findpvdir, FindExec,
     NextStorage, PickClaim, createBackup2nfsDeployment,
     createBackup2minioDepoyment, createBackup2sftpDeployment, filterRunningPod,
     CheckRepo, InitRepo, ResticBackup, At
<1>2. ~NextArg(j)
  BY DEF NextArg, Cleans
<1>3. ~Kill(j)
  BY <1>0, EndedFacts DEF Kill, Becomes, Outcomes
<1>4. deployments' = [deployments EXCEPT ![d] = Nil]
  BY <1>0, <1>1, <1>2, <1>3 DEF Clean, Fault
<1> QED BY <1>0, <1>4

\* What is to be preserved, and what the step relies on.
CleanInv ==
  /\ MutexInv
  /\ \A j \in Jobs : SiteInv(j, job[j])
  /\ OwnInv

\* The process that adds a helper remembers it.
LEMMA AddedKept ==
  ASSUME TypeInv, NEW j \in Jobs, SiteInv(j, job[j]), LocalStep(j, job[j], job'[j]),
         CanDeploy(job[j]), job'[j].pc # "done", NEW d \in DeployName,
         d.rest = Joined(MetaIn(job[j], Subject(job[j])).node, Specs[Backup(j)].name),
         job'[j].deployNames[d.kind] = d
  PROVE  Keeps(j, job'[j], d)
<1>1. /\ job'[j].arg = job[j].arg
      /\ job'[j].pc \notin Inactive \cup {"list"}
      /\ job'[j].pc = "clean" => job'[j].cleaning = DeployKinds
  BY DEF CanDeploy, LocalStep, Jumps, Lists, Enters, Finds, Deploys, Loops, Turns,
     Picks, Acquires, Saves, Returns, Cleans, Advances, Vanishes, Same, Fields,
     LoopFields, Inactive
<1>2. /\ job[j] \in JobState /\ LocalInv(j, job[j])
      /\ Backup(j) = InHand(j, job[j])
  BY Hand
<1>3. NamedFor(InHand(j, job[j]), d)
  BY <1>2, SubjectSite DEF NamedFor
<1>4. d.kind \in Range(DeployKinds)
  BY DEF DeployName
<1> QED BY <1>1, <1>2, <1>3, <1>4 DEF Keeps, InHand

\* A helper that comes into being is one the Backup in hand needs, and the
\* process remembers it.
LEMMA NewKept ==
  ASSUME TypeInv, NEW j \in Jobs, SiteInv(j, job[j]), JobStep(j) \/ Kill(j),
         NEW d \in DeployName, deployments[d] = Nil, deployments'[d] # Nil
  PROVE  /\ CanDeploy(job[j])
         /\ NamedFor(Backup(j), d)
         /\ d.kind \in KindsOf(Backup(j))
         /\ Keeps(j, job'[j], d)
<1>0. /\ LocalStep(j, job[j], job'[j]) /\ Backup(j) = InHand(j, job[j])
      /\ job[j] \in JobState /\ LocalInv(j, job[j])
      /\ deployments \in [DeployName -> Deployment \cup {Nil}]
  BY Hand, ProcessTakes DEF Takes, TypeInv, TypeOK
<1>1. CanDeploy(job[j]) /\ job'[j].pc # "done" /\ Adds(j)
  <2>1. deployments' # deployments
    OBVIOUS
  <2>2. ~Removes(j)
    BY <1>0 DEF Removes
  <2> QED BY <2>1, <2>2, HelperEffect
<1>2. PICK e \in DeployName, x \in Deployment :
        /\ e.rest = Joined(MetaIn(job[j], Subject(job[j])).node, Specs[Backup(j)].name)
        /\ e.kind \in BackupKinds => e.kind \in DOMAIN Specs[Backup(j)].backupTo
        /\ deployments' = [deployments EXCEPT ![e] = x]
        /\ job'[j].deployNames[e.kind] = e
  BY <1>1 DEF Adds, NamesOf
<1>3. d = e
  BY <1>0, <1>2
<1>4. NamedFor(Backup(j), d)
  BY <1>0, <1>1, <1>2, <1>3, SubjectSite DEF NamedFor
<1>5. d.kind \in KindsOf(Backup(j))
  BY <1>2, <1>3, Kinds DEF DeployName, BackupKinds, KindsOf
<1>6. Keeps(j, job'[j], d)
  BY <1>0, <1>1, <1>2, <1>3, AddedKept
<1> QED BY <1>1, <1>2, <1>3, <1>4, <1>5, <1>6

\* OwnInv: a helper is added by a process that remembers it, and a name is
\* forgotten only after its helper is gone.
LEMMA OwnStep ==
  ASSUME OneNode, "delete" \notin Faults, TypeInv, CleanInv,
         NEW j \in Jobs, JobStep(j) \/ Kill(j)
  PROVE  OwnInv'
<1>0. /\ Takes(j) /\ LocalStep(j, job[j], job'[j])
      /\ job[j] \in JobState /\ job'[j] \in JobState
      /\ LocalInv(j, job[j]) /\ SiteInv(j, job[j])
      /\ \A i \in Jobs : i # j => job'[i] = job[i]
      /\ deployments \in [DeployName -> Deployment \cup {Nil}]
  BY Hand, ProcessTakes, TakesOne DEF Takes, CleanInv, TypeInv, TypeOK
<1>1. \A i \in Jobs, d \in DeployName : Owns(i, d) <=> Keeps(i, job[i], d)
  BY DEF Owns, Keeps, Backup, InHand
<1>2. \A i \in Jobs, d \in DeployName : Owns(i, d)' <=> Keeps(i, job'[i], d)
  BY DEF Owns, Keeps, Backup, InHand
<1>3. CASE \E i \in Jobs : Vanished(i)
  <2>1. \A i \in Jobs : Range(job[i].results) \subseteq Range(job'[i].results)
    BY <1>0, ResultsGrow
  <2> QED BY <1>3, <2>1 DEF OwnInv, Vanished
<1>4. CASE Vanishes(job[j], job'[j])
  <2>1. Range(job'[j].results) \cap {"killed", "exit"} # {}
    BY <1>0, <1>4, ResultsGrow
  <2> QED BY <2>1 DEF OwnInv, Vanished
<1>5. CASE ~(\E i \in Jobs : Vanished(i)) /\ ~Vanishes(job[j], job'[j])
  <2>1. ASSUME NEW d \in DeployName, deployments'[d] # Nil
        PROVE  \E i \in Jobs : Owns(i, d)'
    <3>1. CASE deployments[d] # Nil
      <4>1. PICK i \in Jobs : Keeps(i, job[i], d)
        BY <1>1, <1>5, <3>1 DEF CleanInv, OwnInv
      <4>2. CASE i # j
        BY <1>0, <1>2, <4>1, <4>2
      <4>3. CASE i = j
        <5>1. ASSUME Cleans(job[j], job'[j])
              PROVE  d.kind # Head(job[j].cleaning)
          <6>1. SUFFICES ASSUME d.kind = Head(job[j].cleaning) PROVE FALSE
            OBVIOUS
          <6>2. d = job[j].deployNames[Head(job[j].cleaning)]
            BY <4>1, <4>3, <6>1 DEF Keeps
          <6> QED BY <2>1, <5>1, <6>2, CleanDeletes
        <5>2. Keeps(j, job'[j], d)
          BY <1>0, <1>5, <4>1, <4>3, <5>1, KeepsStep
        <5> QED BY <1>2, <5>2
      <4> QED BY <4>2, <4>3
    <3>2. CASE deployments[d] = Nil
      BY <1>0, <1>2, <2>1, <3>2, NewKept
    <3> QED BY <3>1, <3>2
  <2> QED BY <2>1 DEF OwnInv
<1> QED BY <1>3, <1>4, <1>5

\* CleanInv is inductive.
LEMMA CleanInvStep ==
  ASSUME OneNode, "lookup" \notin Faults, "delete" \notin Faults
  PROVE  TypeInv /\ CleanInv /\ [Next]_vars => CleanInv'
<1> SUFFICES ASSUME TypeInv, CleanInv, [Next]_vars PROVE CleanInv'
  OBVIOUS
<1>1. ASSUME NEW j \in Jobs, JobStep(j) \/ Kill(j) PROVE CleanInv'
  <2>1. MutexInv' /\ OwnInv'
    BY <1>1, MutexStep, OwnStep DEF CleanInv
  <2>2. /\ Takes(j) /\ \A i \in Jobs : i # j => job'[i] = job[i]
        /\ job[j] \in JobState /\ job'[j] \in JobState
        /\ LocalInv(j, job[j]) /\ SiteInv(j, job[j])
        /\ LocalStep(j, job[j], job'[j])
    BY <1>1, Hand, ProcessTakes, TakesOne DEF Takes, CleanInv
  <2>3. SiteInv(j, job'[j])
    BY <2>2, SiteStep
  <2>4. \A i \in Jobs : SiteInv(i, job'[i])
    BY <2>2, <2>3 DEF CleanInv
  <2> QED BY <2>1, <2>4 DEF CleanInv
<1>2. CASE job' = job /\ deployments' = deployments
  BY <1>2 DEF CleanInv, MutexInv, OwnInv, Owns, Vanished, Backup
<1> QED BY <1>1, <1>2 DEF Next, Reschedule, vars

\* CleanInv holds at first.
LEMMA CleanInvInit == Init => CleanInv
<1> SUFFICES ASSUME Init PROVE CleanInv
  OBVIOUS
<1>1. \A j \in Jobs : job[j] = Idle /\ Idle.pc = "idle"
  BY DEF Init, Idle
<1>2. MutexInv /\ \A j \in Jobs : SiteInv(j, job[j])
  BY <1>1 DEF MutexInv, Inactive, SiteInv, Searching, Looping, Serving, InHelper
<1>3. OwnInv
  BY DEF Init, OwnInv
<1> QED BY <1>2, <1>3 DEF CleanInv

\* A process that ends by itself was not idle, and does not change the helpers.
LEMMA EndsFrom ==
  ASSUME TypeInv, NEW j \in Jobs, Ends(j), [Next]_vars
  PROVE  job[j].pc \notin Inactive
<1>1. job[j].pc # "done" /\ job'[j].pc = "done"
  BY DEF Ends, At
<1>2. PICK i \in Jobs : Takes(i)
  BY <1>1, NextTakes
<1>3. i = j /\ LocalStep(j, job[j], job'[j])
  BY <1>1, <1>2, TakesOne DEF Takes
<1>4. job[j].pc # "idle"
  BY <1>1, <1>3 DEF LocalStep, Jumps, Lists, Enters, Finds, Deploys, Loops, Turns,
     Picks, Acquires, Saves, Returns, Cleans, Advances, Vanishes
<1> QED BY <1>1, <1>4 DEF Inactive

\* Processes with Backups of one name among their arguments have the same
\* arguments.
LEMMA SameCronJob ==
  ASSUME OwnNames, NEW i \in Jobs, NEW j \in Jobs,
         NEW a \in Range(Args[i]), NEW b \in Range(Args[j]),
         Specs[a].name = Specs[b].name
  PROVE  Args[i] = Args[j]
BY DEF OwnNames

\* CleanupComplete, for any number of runs, Backups, claims, storages, moves and
\* failures: the deferred function of Do deletes by name what Do has named.  Each
\* hypothesis is needed: helpers on two nodes share one remembered name (run
\* doc_node_leak), a claim that is skipped gives a name without a node, a failed
\* deletion is ignored, and a process of another CronJob may be at work on a
\* Backup of the same name, or whose name makes the same helper name.
THEOREM CleanupTheorem ==
  ASSUME OneNode, OwnNames, TellApart,
         "lookup" \notin Faults, "delete" \notin Faults
  PROVE  Spec => CleanupComplete
<1>1. TypeInv /\ CleanInv /\ [Next]_vars => CleanInv'
  BY CleanInvStep
<1>2. TypeInv /\ TypeInv' /\ CleanInv /\ CleanInv' /\ [Next]_vars =>
        [\A j \in Jobs : Ends(j) /\ ~(\E i \in Jobs : Vanished(i))' =>
           \A b \in Range(Args[j]) : Leftovers(b)' = {}]_vars
  <2> SUFFICES ASSUME TypeInv, TypeInv', CleanInv, CleanInv', [Next]_vars,
                      NEW j \in Jobs, Ends(j), ~(\E i \in Jobs : Vanished(i))',
                      NEW b \in Range(Args[j]),
                      NEW d \in NamesOf(b), deployments'[d] # Nil
               PROVE  FALSE
    BY DEF Leftovers
  <2>0. d \in DeployName /\ b \in Backups
    BY ArgTypes DEF NamesOf, Range
  <2>1. PICK i \in Jobs : Owns(i, d)'
    BY <2>0 DEF CleanInv, OwnInv
  <2>2. job'[i].pc \notin Inactive /\ NamedFor(Args[i][job'[i].arg], d)
    BY <2>1 DEF Owns, Backup
  <2>3. job[j].pc \notin Inactive /\ job'[j].pc = "done"
    BY EndsFrom DEF Ends, At
  <2>4. i # j
    BY <2>2, <2>3 DEF Inactive
  <2>5. job'[i] = job[i]
    <3>1. CASE job' = job
      BY <3>1
    <3>2. ASSUME NEW k \in Jobs, Takes(k) PROVE job'[i] = job[i]
      <4>1. k = j
        BY <2>3, <3>2, TakesOne DEF Inactive
      <4> QED BY <2>4, <3>2, <4>1, TakesOne
    <3> QED BY <3>1, <3>2, NextTakes
  <2>6. Args[i][job[i].arg] \in Range(Args[i])
    <3>1. job[i].arg \in DOMAIN Args[i]
      BY DEF TypeInv, TypeOK
    <3> QED BY <3>1 DEF Range
  <2>7. Args[i] = Args[j]
    <3>1. PICK a \in Range(Args[i]) : a = Args[i][job[i].arg]
      BY <2>6
    <3>2. a \in Backups /\ d \in NamesOf(a)
      BY <2>0, <2>2, <2>5, <3>1, ArgTypes, NamedForFacts DEF Range
    <3>3. Specs[a].name = Specs[b].name
      BY <2>0, <3>2, OneName
    <3> QED BY <3>3, SameCronJob
  <2> QED BY <2>2, <2>3, <2>4, <2>5, <2>7 DEF CleanInv, MutexInv
<1> QED
  BY <1>1, <1>2, CleanInvInit, TypeInvariant, PTL DEF Spec, CleanupComplete
-----------------------------------------------------------------------------
(* A success also removes what earlier runs left.                          *)

\* A name is that of one Backup.
UniqueNames == \A a, b \in Backups : Specs[a].name = Specs[b].name => a = b

\* Every helper, whoever left it, is one some Backup of its name needs.
OriginInv ==
  \A d \in DeployName : deployments[d] # Nil =>
    \E b \in Backups : NamedFor(b, d) /\ d.kind \in KindsOf(b)

\* The process remembers a helper of that kind for the Backup in hand.
Covered(j, r, k) == \E d \in DeployName : d.kind = k /\ Keeps(j, r, d)

\* Once an entry of the map has been searched for, the helper of the search is
\* remembered.
SearchCovers(j, r) ==
  /\ r.pc = "prepare" => Found(r) = {} \/ Covered(j, r, "findpvdir")
  /\ r.pc = "find" =>
       Found(r) = {} \/ r.claims # <<>> \/ Covered(j, r, "findpvdir")
  /\ r.pc \in {"findExec"} \cup Looping => Covered(j, r, "findpvdir")

\* Storage s has not been reached yet.
Untouched(r, s) ==
  \/ \E m \in 2 .. Len(r.storages) : r.storages[m] = s
  \/ /\ r.storages # <<>> /\ s = r.storages[1]
     /\ r.pc = "deploy" \/ (r.pc = "choose" /\ r.todo = Found(r))

\* The helper of a storage is remembered from the first entry on.
StorageCovers(j, r) ==
  r.pc \in Looping =>
    /\ Found(r) # {}
    /\ \A s \in DOMAIN Specs[InHand(j, r)].backupTo :
         Covered(j, r, s) \/ Untouched(r, s)

CoverInv(j, r) ==
  /\ SearchCovers(j, r) /\ StorageCovers(j, r)
  /\ r.pc = "idle" => r.results = <<>>

\* While a process is at work, helpers of a Backup it has backed up are those it
\* is going to delete.
SuccessInv ==
  \A j \in Jobs : job[j].pc # "done" =>
    \A i \in 1 .. Len(job[j].results) : job[j].results[i] = "ok" =>
      \A d \in NamesOf(Args[j][i]) :
        deployments[d] # Nil => Keeps(j, job[j], d)

\* What a process remembers of a kind it remembers after its step, unless Do
\* is over.
LEMMA CoveredStep ==
  ASSUME OneNode, NEW j \in Jobs, NEW r \in JobState, NEW q \in JobState,
         LocalInv(j, r), SiteInv(j, r), LocalStep(j, r, q),
         ~Vanishes(r, q), ~Cleans(r, q), NEW k, Covered(j, r, k)
  PROVE  Covered(j, q, k)
<1>1. PICK d \in DeployName : d.kind = k /\ Keeps(j, r, d)
  BY DEF Covered
<1>2. Keeps(j, q, d)
  BY <1>1, KeepsStep
<1> QED BY <1>1, <1>2 DEF Covered

\* A helper that is deployed is remembered.
LEMMA DeployCovers ==
  ASSUME NEW j \in Jobs, NEW r \in JobState, NEW q \in JobState,
         LocalInv(j, r), SiteInv(j, r), Deploys(j, r, q)
  PROVE  Covered(j, q, KindIn(r))
<1>1. PICK d \in DeployName :
        /\ d.rest = Joined(MetaIn(r, Subject(r)).node, Specs[InHand(j, r)].name)
        /\ d.kind = KindIn(r)
        /\ q.deployNames = [r.deployNames EXCEPT ![d.kind] = d]
  BY DEF Deploys, Remembers, NamesOf
<1>2. q.arg = r.arg /\ q.pc \in {"findExec", "acquire"} /\ CanDeploy(r)
  BY DEF Deploys, Same, Fields, CanDeploy
<1>3. NamedFor(InHand(j, r), d)
  BY <1>1, <1>2, SubjectSite DEF NamedFor
<1>4. q.deployNames[d.kind] = d
  BY <1>1 DEF JobState, DeployName
<1> QED BY <1>1, <1>2, <1>3, <1>4 DEF Covered, Keeps, InHand, Inactive

\* SearchCovers: every pod with claims brings a search.
LEMMA SearchStep ==
  ASSUME OneNode, NEW j \in Jobs, NEW r \in JobState, NEW q \in JobState,
         LocalInv(j, r), SiteInv(j, r), LocalStep(j, r, q),
         SearchCovers(j, r)
  PROVE  SearchCovers(j, q)
<1> USE DEF Looping, Serving, InHelper
<1>1. CASE q.pc \notin {"prepare", "find", "findExec"} \cup Looping
  BY <1>1 DEF SearchCovers
<1>2. ASSUME Covered(j, r, "findpvdir"), ~Vanishes(r, q), ~Cleans(r, q)
      PROVE  SearchCovers(j, q)
  <2>1. Covered(j, q, "findpvdir")
    BY <1>2, CoveredStep
  <2> QED BY <2>1 DEF SearchCovers
<1>3. CASE Lists(j, r, q)
  BY <1>3 DEF Lists, SearchCovers
<1>4. CASE Enters(j, r, q)
  <2>1. /\ r.pc = "prepare" /\ q.pc = "find" /\ r.pods # <<>>
        /\ q.claims = Claims[r.pods[1].pod]
        /\ Found(q) \subseteq Found(r) \cup Range(Claims[r.pods[1].pod])
    BY <1>4 DEF Enters
  <2>2. CASE q.claims # <<>>
    BY <2>1, <2>2 DEF SearchCovers
  <2>3. CASE q.claims = <<>>
    <3>1. Range(Claims[r.pods[1].pod]) = {}
      BY <2>1, <2>3 DEF Range
    <3>2. CASE Found(r) = {}
      BY <2>1, <3>1, <3>2 DEF SearchCovers
    <3>3. CASE Found(r) # {}
      <4>1. ~Vanishes(r, q) /\ ~Cleans(r, q)
        BY <2>1 DEF Vanishes, Cleans
      <4> QED BY <1>2, <2>1, <3>3, <4>1 DEF SearchCovers
    <3> QED BY <3>2, <3>3
  <2> QED BY <2>2, <2>3
<1>5. CASE Deploys(j, r, q)
  <2>1. CASE r.pc = "find"
    <3>1. q.pc = "findExec" /\ KindIn(r) = "findpvdir"
      BY <1>5, <2>1 DEF Deploys, KindIn
    <3> QED BY <1>5, <3>1, DeployCovers DEF SearchCovers
  <2>2. CASE r.pc # "find"
    <3>1. r.pc = "deploy" /\ q.pc = "acquire"
      BY <1>5, <2>2 DEF Deploys
    <3> QED BY <1>2, <3>1 DEF SearchCovers, Vanishes, Cleans
  <2> QED BY <2>1, <2>2
<1>6. CASE r.pc = "find" /\ q.pc = "prepare" /\ Jumps(r, q)
  <2>1. r.claims = <<>> /\ Found(q) = Found(r)
    BY <1>6 DEF Jumps, Same, Fields, Found
  <2>2. CASE Found(r) = {}
    BY <1>6, <2>1, <2>2 DEF SearchCovers
  <2>3. CASE Found(r) # {}
    BY <1>2, <1>6, <2>1, <2>3 DEF SearchCovers, Vanishes, Cleans
  <2> QED BY <2>2, <2>3
<1>7. CASE Loops(j, r, q)
  BY <1>2, <1>7 DEF Loops, SearchCovers, Vanishes, Cleans
<1>8. CASE \/ Finds(r, q) \/ Turns(r, q) \/ Picks(r, q)
           \/ Acquires(j, r, q) \/ Saves(r, q)
           \/ (Jumps(r, q) /\ r.pc \in Looping)
  <2>1. /\ r.pc \in {"findExec"} \cup Looping
        /\ q.pc \in {"find"} \cup Looping
    BY <1>8 DEF Finds, Turns, Picks, Acquires, Saves, Jumps
  <2> QED BY <1>2, <2>1 DEF SearchCovers, Vanishes, Cleans
<1>9. CASE Jumps(r, q)
  BY <1>1, <1>6, <1>8, <1>9 DEF Jumps
<1>10. CASE \/ Returns(j, r, q) \/ Cleans(r, q) \/ Advances(j, r, q)
            \/ Vanishes(r, q)
  BY <1>1, <1>10 DEF Returns, Cleans, Advances, Vanishes
<1> QED BY <1>3, <1>4, <1>5, <1>7, <1>8, <1>9, <1>10 DEF LocalStep

\* StorageCovers: every storage is served with at least one entry.
LEMMA StorageCoversStep ==
  ASSUME OneNode, NEW j \in Jobs, NEW r \in JobState, NEW q \in JobState,
         LocalInv(j, r), SiteInv(j, r), LocalStep(j, r, q),
         StorageCovers(j, r)
  PROVE  StorageCovers(j, q)
<1> USE DEF Looping, Serving, InHelper
<1> DEFINE b == InHand(j, r)
<1>0. r.storages \in Seq(StorageFields) /\ b \in Backups
  BY FieldTypes, ArgTypes DEF LocalInv, StageInv, InHand
<1>1. CASE q.pc \notin Looping
  BY <1>1 DEF StorageCovers
<1>2. ASSUME r.pc \in Looping, q.pc \in Looping
      PROVE  \A s : Covered(j, r, s) => Covered(j, q, s)
  BY <1>2, CoveredStep DEF Vanishes, Cleans
<1>3. CASE Loops(j, r, q)
  <2>1. /\ q.pc = "choose" /\ q.arg = r.arg /\ Found(r) # {} /\ Found(q) = Found(r)
        /\ q.todo = Found(r) /\ q.storages = parseStorage(b)
    BY <1>3 DEF Loops, Same, Fields, Found
  <2>2. parseStorage(b) \in Seq(StorageFields) /\ Range(parseStorage(b)) = DOMAIN Specs[b].backupTo
    BY <1>0, ParseStorage
  <2>3. ASSUME NEW s \in DOMAIN Specs[b].backupTo PROVE Untouched(q, s)
    <3>1. PICK m \in 1 .. Len(q.storages) : q.storages[m] = s
      BY <2>1, <2>2 DEF Range
    <3>2. CASE m = 1
      BY <2>1, <2>2, <3>1, <3>2 DEF Untouched
    <3>3. CASE m # 1
      BY <2>1, <2>2, <3>1, <3>3 DEF Untouched
    <3> QED BY <3>2, <3>3
  <2> QED BY <2>1, <2>3 DEF StorageCovers, InHand
<1>4. CASE Turns(r, q)
  <2>1. /\ r.pc = "choose" /\ q.pc = "choose" /\ q.arg = r.arg
        /\ Found(q) = Found(r) /\ r.todo = {} /\ q.todo = Found(r)
        /\ Len(r.storages) > 1 /\ q.storages = Tail(r.storages)
    BY <1>4 DEF Turns, Same, Fields, Found
  <2>2. /\ Len(q.storages) = Len(r.storages) - 1 /\ q.storages # <<>>
        /\ \A m \in 2 .. Len(r.storages) : q.storages[m - 1] = r.storages[m]
    <3>1. r.storages # <<>> /\ Len(r.storages) \in Nat /\ Len(r.storages) > 1
      BY <1>0, <2>1
    <3>2. Len(q.storages) = Len(r.storages) - 1 /\ q.storages \in Seq(StorageFields)
      BY <1>0, <2>1, <3>1, TailFacts
    <3>3. ASSUME NEW m \in 2 .. Len(r.storages)
          PROVE  q.storages[m - 1] = r.storages[m]
      <4>1. m - 1 \in 1 .. Len(q.storages) /\ (m - 1) + 1 = m
        BY <3>1, <3>2
      <4> QED BY <1>0, <2>1, <3>1, <4>1, TailFacts
    <3>4. q.storages # <<>>
      <4>1. 1 \in 1 .. Len(q.storages)
        BY <3>1, <3>2
      <4>2. CASE q.storages = <<>>
        <5>1. Len(q.storages) = 0
          BY <4>2
        <5> QED BY <4>1, <5>1
      <4> QED BY <4>2
    <3> QED BY <3>2, <3>3, <3>4
  <2>3. ASSUME NEW s \in DOMAIN Specs[b].backupTo
        PROVE  Covered(j, q, s) \/ Untouched(q, s)
    <3>1. CASE Covered(j, r, s)
      BY <1>2, <2>1, <3>1
    <3>2. CASE ~Covered(j, r, s)
      <4>1. PICK m \in 2 .. Len(r.storages) : r.storages[m] = s
        BY <2>1, <3>2 DEF StorageCovers, Untouched
      <4>2. q.storages[m - 1] = s
        BY <2>2, <4>1
      <4>3. CASE m = 2
        BY <2>1, <2>2, <4>2, <4>3 DEF Untouched
      <4>4. CASE m # 2
        <5>1. m - 1 \in 2 .. Len(q.storages)
          BY <1>0, <2>2, <4>1, <4>4
        <5> QED BY <4>2, <5>1 DEF Untouched
      <4> QED BY <4>3, <4>4
    <3> QED BY <3>1, <3>2
  <2> QED BY <2>1, <2>3 DEF StorageCovers, InHand
<1>5. CASE Deploys(j, r, q)
  <2>1. CASE r.pc = "find"
    BY <1>1, <1>5, <2>1 DEF Deploys
  <2>2. CASE r.pc # "find"
    <3>1. /\ r.pc = "deploy" /\ q.pc = "acquire" /\ KindIn(r) = r.storages[1]
          /\ q.arg = r.arg /\ q.storages = r.storages /\ Found(q) = Found(r)
      BY <1>5, <2>2 DEF Deploys, KindIn, Same, Fields, Found
    <3>2. Covered(j, q, r.storages[1])
      BY <1>5, <3>1, DeployCovers
    <3>3. ASSUME NEW s \in DOMAIN Specs[b].backupTo
          PROVE  Covered(j, q, s) \/ Untouched(q, s)
      <4>1. Covered(j, r, s) \/ Untouched(r, s)
        BY <3>1 DEF StorageCovers
      <4> QED BY <1>2, <3>1, <3>2, <4>1 DEF Untouched
    <3> QED BY <3>1, <3>3 DEF StorageCovers, InHand
  <2> QED BY <2>1, <2>2
<1>6. CASE \/ Picks(r, q) \/ Acquires(j, r, q) \/ Saves(r, q)
           \/ (Jumps(r, q) /\ r.pc \in Looping)
  <2>1. /\ r.pc \in Looping /\ q.pc \in Looping
        /\ q.arg = r.arg /\ q.storages = r.storages /\ Found(q) = Found(r)
        /\ r.pc \in {"deploy", "choose"} => q.pc = "deploy"
    BY <1>6 DEF Picks, Acquires, Saves, Jumps, Same, Fields, Found
  <2>2. ASSUME NEW s \in DOMAIN Specs[b].backupTo
        PROVE  Covered(j, q, s) \/ Untouched(q, s)
    <3>1. Covered(j, r, s) \/ Untouched(r, s)
      BY <2>1 DEF StorageCovers
    <3> QED BY <1>2, <2>1, <3>1 DEF Untouched
  <2> QED BY <2>1, <2>2 DEF StorageCovers, InHand
<1>7. CASE Jumps(r, q)
  BY <1>1, <1>6, <1>7 DEF Jumps
<1>8. CASE \/ Lists(j, r, q) \/ Enters(j, r, q) \/ Finds(r, q)
           \/ Returns(j, r, q) \/ Cleans(r, q) \/ Advances(j, r, q)
           \/ Vanishes(r, q)
  BY <1>1, <1>8 DEF Lists, Enters, Finds, Returns, Cleans, Advances, Vanishes
<1> QED BY <1>3, <1>4, <1>5, <1>6, <1>7, <1>8 DEF LocalStep

\* OriginInv: helpers come from Deploy only.
LEMMA OriginStep ==
  ASSUME TypeInv, OriginInv, NEW j \in Jobs, SiteInv(j, job[j]),
         JobStep(j) \/ Kill(j)
  PROVE  OriginInv'
<1> SUFFICES ASSUME NEW d \in DeployName, deployments'[d] # Nil
             PROVE  \E b \in Backups : NamedFor(b, d) /\ d.kind \in KindsOf(b)
  BY DEF OriginInv
<1>1. CASE deployments[d] # Nil
  BY <1>1 DEF OriginInv
<1>2. CASE deployments[d] = Nil
  BY <1>2, NewKept, Hand
<1> QED BY <1>1, <1>2

\* A success is new when Do returns nil, after the loops.
LEMMA NewSuccess ==
  ASSUME NEW j \in Jobs, NEW r \in JobState, NEW q \in JobState,
         LocalInv(j, r), LocalStep(j, r, q), q.pc # "done",
         NEW i \in 1 .. Len(q.results), q.results[i] = "ok",
         ~(i \in 1 .. Len(r.results) /\ r.results[i] = "ok")
  PROVE  /\ Returns(j, r, q) /\ i = r.arg /\ r.pc = "choose"
         /\ Len(r.storages) <= 1
         /\ r.storages = <<>> \/ r.todo = {}
<1>0. /\ r.results \in Seq(Outcomes) /\ r.arg \in Nat
      /\ r.pc \in Working => Len(r.results) = r.arg - 1
  BY FieldTypes DEF LocalInv, ResultInv
<1>1. Returns(j, r, q)
  <2>1. CASE q.results = r.results
    BY <2>1
  <2>2. CASE q.results # r.results
    BY <2>2 DEF LocalStep, Jumps, Lists, Enters, Finds, Deploys, Loops, Turns, Picks,
       Acquires, Saves, Cleans, Advances, Vanishes, Same, Fields
  <2> QED BY <2>1, <2>2
<1>2. PICK outcome \in Outcomes :
        /\ q.results = Append(r.results, outcome)
        /\ outcome = "ok" => /\ r.pc = "choose" /\ Len(r.storages) <= 1
                             /\ r.storages = <<>> \/ r.todo = {}
  BY <1>1 DEF Returns
<1>3. /\ Len(q.results) = Len(r.results) + 1
      /\ q.results[Len(r.results) + 1] = outcome
      /\ \A m \in 1 .. Len(r.results) : q.results[m] = r.results[m]
  BY <1>0, <1>2
<1>4. i = Len(r.results) + 1
  BY <1>0, <1>3
<1>5. r.pc \in Working
  BY <1>1 DEF Returns
<1> QED BY <1>0, <1>1, <1>2, <1>3, <1>4, <1>5

\* When Do returns nil, it remembers every helper of the Backup there is.
LEMMA SuccessKeeps ==
  ASSUME OneNode, UniqueNames, TellApart, TypeInv, OriginInv, NEW j \in Jobs,
         CoverInv(j, job[j]), job[j].pc = "choose", Len(job[j].storages) <= 1,
         job[j].storages = <<>> \/ job[j].todo = {},
         NEW d \in NamesOf(Backup(j)), deployments[d] # Nil
  PROVE  Keeps(j, job[j], d)
<1>0. /\ job[j] \in JobState /\ Backup(j) = InHand(j, job[j]) /\ Backup(j) \in Backups
      /\ job[j].pc \in Looping /\ Len(job[j].storages) \in Nat /\ d \in DeployName
  BY Hand, FieldTypes DEF Looping, NamesOf
<1>1. NamedFor(Backup(j), d) /\ d.kind \in KindsOf(Backup(j))
  <2>1. PICK b \in Backups : NamedFor(b, d) /\ d.kind \in KindsOf(b)
    BY <1>0 DEF OriginInv
  <2>2. Specs[b].name = Specs[Backup(j)].name
    BY <1>0, <2>1, NamedForFacts, OneName
  <2> QED BY <1>0, <2>1, <2>2 DEF UniqueNames
<1>2. Covered(j, job[j], d.kind)
  <2>1. CASE d.kind = "findpvdir"
    BY <1>0, <2>1 DEF CoverInv, SearchCovers
  <2>2. CASE d.kind \in DOMAIN Specs[Backup(j)].backupTo
    <3>1. Found(job[j]) # {} /\ (Covered(j, job[j], d.kind) \/ Untouched(job[j], d.kind))
      BY <1>0, <2>2 DEF CoverInv, StorageCovers
    <3>2. ~Untouched(job[j], d.kind)
      BY <1>0, <3>1 DEF Untouched
    <3> QED BY <3>1, <3>2
  <2> QED BY <1>1, <2>1, <2>2 DEF KindsOf
<1>3. PICK e \in DeployName : e.kind = d.kind /\ Keeps(j, job[j], e)
  BY <1>2 DEF Covered
<1>4. e = d
  BY <1>0, <1>1, <1>3, OneHelper DEF Keeps
<1> QED BY <1>3, <1>4

\* The arguments that have an outcome are arguments.
LEMMA ResultArgs ==
  ASSUME NEW j \in Jobs, NEW r \in JobState, LocalInv(j, r), r.pc \in Stages \ {"done"},
         NEW i \in 1 .. Len(r.results)
  PROVE  i \in 1 .. Len(Args[j]) /\ Args[j][i] \in Range(Args[j])
<1>1. /\ Len(r.results) \in Nat /\ r.arg \in Nat
      /\ Len(r.results) <= r.arg /\ r.arg \in 1 .. Len(Args[j])
  BY FieldTypes DEF LocalInv, StageInv, ResultInv, Stages
<1>2. i \in 1 .. Len(Args[j])
  BY <1>1, ArgTypes
<1> QED BY <1>2, ArgTypes DEF Range

\* SuccessInv: the process that succeeds takes over what is there, and no other
\* works on a Backup of that name while it runs.
LEMMA SuccessStep ==
  ASSUME OneNode, OwnNames, UniqueNames, TellApart, "delete" \notin Faults,
         TypeInv, TypeInv', MutexInv, \A k \in Jobs : SiteInv(k, job[k]),
         OriginInv, \A k \in Jobs : CoverInv(k, job[k]), SuccessInv,
         NEW j \in Jobs, JobStep(j) \/ Kill(j)
  PROVE  SuccessInv'
<1> SUFFICES ASSUME NEW k \in Jobs, job'[k].pc # "done",
                    NEW i \in 1 .. Len(job'[k].results), job'[k].results[i] = "ok",
                    NEW d \in NamesOf(Args[k][i]), deployments'[d] # Nil
             PROVE  Keeps(k, job'[k], d)
  BY DEF SuccessInv
<1>9. d \in DeployName
  BY DEF NamesOf
<1>0. /\ LocalStep(j, job[j], job'[j])
      /\ job[j] \in JobState /\ job'[j] \in JobState /\ LocalInv(j, job[j])
      /\ \A l \in Jobs : l # j => job'[l] = job[l]
      /\ Backup(j) = InHand(j, job[j])
  BY Hand, ProcessTakes, TakesOne DEF Takes
<1>1. job[k].pc # "done"
  <2>1. CASE k = j
    BY <1>0, <2>1, DoneStays
  <2> QED BY <1>0, <2>1
<1>2. CASE k # j
  <2>0. job'[k] = job[k]
    BY <1>0, <1>2
  <2>1. CASE deployments[d] # Nil
    BY <1>1, <2>0, <2>1 DEF SuccessInv
  <2>2. CASE deployments[d] = Nil
    <3>1. CanDeploy(job[j]) /\ d \in NamesOf(Backup(j)) /\ Backup(j) \in Backups
      BY <1>9, <2>2, NewKept, NamedForFacts, Hand
    <3>2. Args[k][i] \in Range(Args[k])
      <4>1. job[k] \in JobState /\ LocalInv(k, job[k]) /\ job[k].pc \in Stages
        BY Hand
      <4> QED BY <1>1, <2>0, <4>1, ResultArgs
    <3>3. Backup(j) \in Range(Args[j])
      BY <1>0, ArgTypes DEF LocalInv, StageInv, InHand, Range
    <3>4. Args[k] = Args[j]
      <4>1. PICK a \in Range(Args[k]) : a = Args[k][i]
        BY <3>2
      <4>2. PICK b \in Range(Args[j]) : b = Backup(j)
        BY <3>3
      <4>3. Specs[a].name = Specs[b].name
        <5>1. a \in Backups
          BY <4>1, ArgTypes DEF Range
        <5> QED BY <3>1, <4>1, <4>2, <5>1, OneName
      <4> QED BY <4>3, SameCronJob
    <3>5. job[k].pc = "idle"
      <4>1. job[j].pc \notin Inactive
        BY <3>1 DEF CanDeploy, Inactive
      <4>2. job[k].pc \in Inactive
        BY <1>2, <3>4, <4>1, Zenon DEF MutexInv
      <4> QED BY <1>1, <4>2 DEF Inactive
    <3>6. job[k].results = <<>>
      BY <3>5 DEF CoverInv
    <3> QED BY <2>0, <3>6
  <2> QED BY <2>1, <2>2
<1>3. CASE k = j
  <2>0. ~Vanishes(job[j], job'[j])
    BY <1>3 DEF Vanishes
  <2>1. CASE deployments[d] = Nil
    BY <1>9, <1>3, <2>1, NewKept
  <2>2. CASE deployments[d] # Nil
    <3>1. Keeps(j, job[j], d)
      <4>1. CASE i \in 1 .. Len(job[j].results) /\ job[j].results[i] = "ok"
        BY <1>1, <1>3, <2>2, <4>1 DEF SuccessInv
      <4>2. CASE ~(i \in 1 .. Len(job[j].results) /\ job[j].results[i] = "ok")
        <5>1. /\ i = job[j].arg /\ job[j].pc = "choose"
              /\ Len(job[j].storages) <= 1
              /\ job[j].storages = <<>> \/ job[j].todo = {}
          BY <1>0, <1>3, <4>2, NewSuccess
        <5>2. d \in NamesOf(Backup(j))
          BY <1>0, <1>3, <5>1 DEF InHand
        <5> QED BY <2>2, <5>1, <5>2, SuccessKeeps
      <4> QED BY <4>1, <4>2
    <3>2. ASSUME Cleans(job[j], job'[j])
          PROVE  d.kind # Head(job[j].cleaning)
      <4>1. SUFFICES ASSUME d.kind = Head(job[j].cleaning) PROVE FALSE
        OBVIOUS
      <4>2. d = job[j].deployNames[Head(job[j].cleaning)]
        BY <3>1, <4>1 DEF Keeps
      <4> QED BY <1>9, <3>2, <4>2, CleanDeletes
    <3>3. Keeps(j, job'[j], d)
      BY <1>9, <1>0, <2>0, <3>1, <3>2, KeepsStep
    <3> QED BY <1>3, <3>3
  <2> QED BY <2>1, <2>2
<1> QED BY <1>2, <1>3

\* All of it.
TakeoverInv ==
  /\ MutexInv
  /\ \A j \in Jobs : SiteInv(j, job[j])
  /\ OriginInv
  /\ \A j \in Jobs : CoverInv(j, job[j])
  /\ SuccessInv

\* TakeoverInv is inductive.
LEMMA TakeoverStep ==
  ASSUME OneNode, OwnNames, UniqueNames, TellApart, "lookup" \notin Faults,
         "delete" \notin Faults
  PROVE  TypeInv /\ TypeInv' /\ TakeoverInv /\ [Next]_vars => TakeoverInv'
<1> SUFFICES ASSUME TypeInv, TypeInv', TakeoverInv, [Next]_vars PROVE TakeoverInv'
  OBVIOUS
<1>1. ASSUME NEW j \in Jobs, JobStep(j) \/ Kill(j) PROVE TakeoverInv'
  <2>1. /\ Takes(j) /\ \A i \in Jobs : i # j => job'[i] = job[i]
        /\ job[j] \in JobState /\ job'[j] \in JobState
        /\ LocalInv(j, job[j]) /\ SiteInv(j, job[j]) /\ CoverInv(j, job[j])
        /\ LocalStep(j, job[j], job'[j])
    BY <1>1, Hand, ProcessTakes, TakesOne DEF Takes, TakeoverInv
  <2>2. MutexInv'
    BY <1>1, MutexStep DEF TakeoverInv
  <2>3. SiteInv(j, job'[j])
    BY <2>1, SiteStep
  <2>4. CoverInv(j, job'[j])
    <3>1. SearchCovers(j, job'[j]) /\ StorageCovers(j, job'[j])
      BY <2>1, SearchStep, StorageCoversStep DEF CoverInv
    <3>2. job'[j].pc # "idle"
      BY <2>1 DEF LocalStep, Jumps, Lists, Enters, Finds, Deploys, Loops, Turns,
         Picks, Acquires, Saves, Returns, Cleans, Advances, Vanishes
    <3> QED BY <3>1, <3>2 DEF CoverInv
  <2>5. OriginInv'
    BY <1>1, OriginStep DEF TakeoverInv
  <2>6. SuccessInv'
    BY <1>1, SuccessStep DEF TakeoverInv
  <2>7. \A i \in Jobs : SiteInv(i, job'[i]) /\ CoverInv(i, job'[i])
    BY <2>1, <2>3, <2>4 DEF TakeoverInv
  <2> QED BY <2>2, <2>5, <2>6, <2>7 DEF TakeoverInv
<1>2. CASE job' = job /\ deployments' = deployments
  BY <1>2 DEF TakeoverInv, MutexInv, OriginInv, SuccessInv
<1> QED BY <1>1, <1>2 DEF Next, Reschedule, vars

\* TakeoverInv holds at first.
LEMMA TakeoverInit == Init => TakeoverInv
<1> SUFFICES ASSUME Init PROVE TakeoverInv
  OBVIOUS
<1>1. \A j \in Jobs : job[j] = Idle /\ Idle.pc = "idle" /\ Idle.results = <<>>
  BY DEF Init, Idle
<1>2. \A j \in Jobs : CoverInv(j, job[j])
  BY <1>1 DEF CoverInv, SearchCovers, StorageCovers, Looping, Serving, InHelper
<1>3. OriginInv /\ SuccessInv
  <2>1. \A d \in DeployName : deployments[d] = Nil
    BY DEF Init
  <2> QED BY <2>1 DEF OriginInv, SuccessInv, NamesOf
<1>4. MutexInv /\ \A j \in Jobs : SiteInv(j, job[j])
  BY CleanInvInit DEF CleanInv
<1> QED BY <1>2, <1>3, <1>4 DEF TakeoverInv

\* The last step of a process changes no helper, and comes after the deletions.
LEMMA LastStep ==
  ASSUME TypeInv, NEW j \in Jobs, Ends(j), [Next]_vars
  PROVE  /\ job[j].pc = "clean" /\ job[j].cleaning = <<>>
         /\ job'[j].results = job[j].results
         /\ deployments' = deployments
<1>1. job[j].pc # "done" /\ job'[j].pc = "done" /\ ~Vanished(j)'
  BY DEF Ends, At
<1>2. PICK i \in Jobs : JobStep(i) \/ Kill(i)
  BY <1>1 DEF Next, Reschedule, vars
<1>3. i = j /\ LocalStep(j, job[j], job'[j]) /\ job[j] \in JobState /\ job'[j] \in JobState
  BY <1>1, <1>2, ProcessTakes, TakesOne, Hand DEF Takes
<1>4. ~Vanishes(job[j], job'[j])
  BY <1>1, <1>3, ResultsGrow DEF Vanished
<1>5. Jumps(job[j], job'[j])
  BY <1>1, <1>3, <1>4 DEF LocalStep, Lists, Enters, Finds, Deploys, Loops, Turns,
     Picks, Acquires, Saves, Returns, Cleans, Advances
<1>6. deployments' = deployments
  BY <1>1, <1>2, <1>3, HelperEffect
<1> QED BY <1>1, <1>5, <1>6 DEF Jumps, Same, Fields

\* SuccessCleansUp, for any number of runs, kills and other failures: every
\* helper that an earlier run of the Backup may have left is one a successful run
\* applies itself, so that the deferred function of Do deletes it.  The hypotheses
\* are those of CleanupTheorem, and that a name is one Backup's: the helpers of a
\* Backup of the same name, but with other storages, are not taken over.
THEOREM TakeoverTheorem ==
  ASSUME OneNode, OwnNames, UniqueNames, TellApart, "lookup" \notin Faults,
         "delete" \notin Faults
  PROVE  Spec => SuccessCleansUp
<1>1. TypeInv /\ TypeInv' /\ TakeoverInv /\ [Next]_vars => TakeoverInv'
  BY TakeoverStep
<1>2. TypeInv /\ TakeoverInv /\ [Next]_vars =>
        [\A j \in Jobs : Ends(j) =>
           \A i \in DOMAIN job'[j].results :
             job'[j].results[i] = "ok" => Leftovers(Args[j][i])' = {}]_vars
  <2> SUFFICES ASSUME TypeInv, TakeoverInv, [Next]_vars, NEW j \in Jobs, Ends(j),
                      NEW i \in DOMAIN job'[j].results, job'[j].results[i] = "ok",
                      NEW d \in NamesOf(Args[j][i]), deployments'[d] # Nil
               PROVE  FALSE
    BY DEF Leftovers
  <2>1. /\ job[j].pc = "clean" /\ job[j].cleaning = <<>>
        /\ job'[j].results = job[j].results /\ deployments' = deployments
    BY LastStep
  <2>2. job[j].results \in Seq(Outcomes)
    BY Hand, FieldTypes
  <2>3. i \in 1 .. Len(job[j].results)
    BY <2>1, <2>2
  <2>4. Keeps(j, job[j], d)
    BY <2>1, <2>3 DEF TakeoverInv, SuccessInv
  <2> QED BY <2>1, <2>4 DEF Keeps, Range
<1> QED
  BY <1>1, <1>2, TakeoverInit, TypeInvariant, PTL DEF Spec, SuccessCleansUp
=============================================================================
