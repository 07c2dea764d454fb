----------------------- MODULE BackupFaultFreeProofs ------------------------
(* The theorem about BackupJob that says when a Backup succeeds: if no     *)
(* call fails and no pod moves, only another process can make it fail.     *)
EXTENDS BackupRunProofs

\* What the code can carry out: the target is of a kind it knows and mounts
\* something, the storages are among those it has helpers for, and findpvdir
\* tells the volumes of a pod apart.
Feasible ==
  \A b \in Backups :
    /\ Specs[b].resource \in Resources
    /\ Wanted(b) # {}
    /\ DOMAIN Specs[b].backupTo \subseteq BackupKinds
    /\ \A p \in Range(Specs[b].pods) : \A c \in Range(Claims[p]) :
         VolumeSource[c] \in PathSources \/ findpvdir(p, c) = {VolumeSource[c]}

-----------------------------------------------------------------------------
(* The invariant.                                                          *)

Calm == faults = 0 /\ moves = 0

\* The pods are where they were, and were not replaced.
HomeInv == \A p \in Pods : placement[p] = [node |-> FirstNode[p], uid |-> 1]

\* What is recorded of a pod says so.
HomeOf(x) == x.node = FirstNode[x.pod] /\ x.uid = 1

\* Every entry of the map is of a pod of the target that mounts the claim, and
\* its directory is found once the search has passed the claim; and the map
\* will not be empty.
SearchInv(j, r) ==
  /\ r.pc \in Searching => \A n \in 1 .. Len(r.pods) : HomeOf(r.pods[n])
  /\ r.pc \in Searching \cup Looping => \A c \in Found(r) :
       /\ HomeOf(r.pvcpvMap[c])
       /\ r.pvcpvMap[c].pod \in Range(Specs[InHand(j, r)].pods)
       /\ c \in Range(Claims[r.pvcpvMap[c].pod])
       /\ \/ r.pvcpvMap[c].found = TRUE
          \/ r.pc \in {"find", "findExec"} /\ c \in Range(r.claims)
  /\ r.pc \in {"find", "findExec"} => Range(r.claims) \subseteq Found(r)
  /\ r.pc \in Searching =>
       Found(r) # {} \/ \E n \in 1 .. Len(r.pods) : Claims[r.pods[n].pod] # <<>>

\* The helper a process works with is there, unless another process has a
\* Backup of the name.
ToolInv(j) ==
  \/ Contended(j, job[j].arg)
  \/ /\ job[j].pc = "findExec" =>
          deployments[theDeployName("findpvdir", Backup(j),
                                    MetaOf(j, Head(job[j].claims)))] # Nil
     /\ job[j].pc = "acquire" =>
          deployments[theDeployName(Storage(j), Backup(j),
                                    MetaOf(j, job[j].pvc))] # Nil
     /\ job[j].pc \in InHelper => Running(job[j].execPod)

\* A repository to be initialised is not there, or another process was faster.
RaceInv(j) ==
  job[j].pc = "init" =>
    Contended(j, job[j].arg) \/ Raced(j, job[j].arg) \/ Repo(j) \notin repos

\* The outcomes so far, one for each argument.
OutcomeInv(j) ==
  /\ Len(job[j].results) <= Len(Args[j])
  /\ \A i \in 1 .. Len(job[j].results) :
       job[j].results[i] = "ok" \/ Contended(j, i) \/ LostRace(j, i)

FaultFreeInv ==
  Calm => /\ HomeInv
          /\ \A j \in Jobs : /\ SearchInv(j, job[j]) /\ ToolInv(j)
                             /\ RaceInv(j) /\ OutcomeInv(j)

\* A snapshot is in a repository that was initialised, and so will the next be.
ReadyInv ==
  \A j \in Jobs :
    /\ job[j].pc = "backup" => Repo(j) \in repos
    /\ \A t \in job[j].taken : t.repo \in repos

-----------------------------------------------------------------------------
(* The search for the directories.                                         *)

\* The elements of a sequence.
LEMMA TailRange ==
  ASSUME NEW S, NEW q \in Seq(S), q # <<>>
  PROVE  Range(q) = {q[1]} \cup Range(Tail(q))
<1> DEFINE z == Tail(q)
<1>1. /\ DOMAIN q = 1 .. Len(q) /\ DOMAIN z = 1 .. Len(z)
      /\ Len(z) = Len(q) - 1 /\ Len(q) \in Nat /\ Len(q) >= 1
      /\ \A n \in 1 .. Len(z) : n + 1 \in 1 .. Len(q) /\ z[n] = q[n + 1]
  BY TailFacts
<1> HIDE DEF z
<1>2. ASSUME NEW n \in 1 .. Len(z) PROVE z[n] \in Range(q)
  BY <1>1 DEF Range
<1>3. ASSUME NEW n \in 1 .. Len(q), n # 1 PROVE q[n] \in Range(z)
  <2>1. n - 1 \in 1 .. Len(z) /\ (n - 1) + 1 = n
    BY <1>1, <1>3
  <2>2. z[n - 1] = q[n]
    BY <1>1, <2>1
  <2> QED BY <1>1, <2>1, <2>2 DEF Range
<1>4. q[1] \in Range(q)
  BY <1>1 DEF Range
<1>5. Range(z) \subseteq Range(q)
  BY <1>1, <1>2 DEF Range
<1>6. Range(q) \subseteq {q[1]} \cup Range(z)
  <2>1. ASSUME NEW x \in Range(q) PROVE x \in {q[1]} \cup Range(z)
    <3>1. PICK n \in 1 .. Len(q) : x = q[n]
      BY <1>1 DEF Range
    <3> QED BY <1>3, <3>1
  <2> QED BY <2>1
<1> QED BY <1>4, <1>5, <1>6 DEF z

\* What a step does if no call fails and no pod moves: the pods listed are at
\* home, all the claims of a pod enter the map, and a search finds its directory.
ListsHome(j, r, q) ==
  Lists(j, r, q) => \A n \in 1 .. Len(q.pods) : HomeOf(q.pods[n])

EntersAll(j, r, q) ==
  Enters(j, r, q) => \A c \in AllClaims :
    q.pvcpvMap[c] = IF c \in Range(Claims[r.pods[1].pod])
                      THEN [pod |-> r.pods[1].pod, node |-> r.pods[1].node,
                            uid |-> r.pods[1].uid, found |-> FALSE]
                      ELSE r.pvcpvMap[c]

FindsIt(r, q) ==
  Finds(r, q) =>
    /\ q.pvcpvMap[r.claims[1]].found = TRUE
    /\ q.pvcpvMap[r.claims[1]].pod = r.pvcpvMap[r.claims[1]].pod
    /\ q.pvcpvMap[r.claims[1]].node = r.pvcpvMap[r.claims[1]].node
    /\ q.pvcpvMap[r.claims[1]].uid = r.pvcpvMap[r.claims[1]].uid
    /\ \A c \in AllClaims : c # r.claims[1] => q.pvcpvMap[c] = r.pvcpvMap[c]

\* SearchInv is preserved by such steps.
LEMMA SearchInvStep ==
  ASSUME Feasible, NEW j \in Jobs, NEW r \in JobState, NEW q \in JobState,
         LocalInv(j, r), NothingElseInv(j, r), SearchInv(j, r), LocalStep(j, r, q),
         ListsHome(j, r, q), EntersAll(j, r, q), FindsIt(r, q)
  PROVE  SearchInv(j, q)
<1> USE DEF Searching, Looping, Serving, InHelper
<1>0. /\ InHand(j, r) \in Backups
      /\ r.pods \in Seq(PodObject) /\ Len(r.pods) \in Nat
      /\ r.claims \in Seq(AllClaims)
      /\ r.pvcpvMap \in [AllClaims -> Meta \cup {Nil}]
  BY ArgTypes, FieldTypes DEF LocalInv, StageInv, InHand
<1>1. CASE Lists(j, r, q)
  <2> DEFINE b == InHand(j, r)
  <2>1. /\ q.pc = "prepare" /\ Found(q) = {} /\ InHand(j, q) = b
        /\ Len(q.pods) = Len(Specs[b].pods)
        /\ \A n \in 1 .. Len(q.pods) : q.pods[n].pod = Specs[b].pods[n]
    BY <1>1 DEF Lists, Same, Fields, InHand
  <2>2. PICK p \in Range(Specs[b].pods) : Range(Claims[p]) # {}
    <3>1. Wanted(b) # {}
      BY <1>0 DEF Feasible
    <3> HIDE DEF b
    <3> QED BY <3>1, Zenon DEF Wanted
  <2>3. Specs[b].pods \in Seq(Pods)
    BY <1>0, SpecTypes
  <2> HIDE DEF b
  <2>4. PICK n \in 1 .. Len(Specs[b].pods) : Specs[b].pods[n] = p
    BY <2>2, <2>3 DEF Range
  <2>5. Claims[p] # <<>>
    BY <2>2 DEF Range
  <2>6. n \in 1 .. Len(q.pods) /\ Claims[q.pods[n].pod] # <<>>
    BY <2>1, <2>4, <2>5
  <2> QED BY <1>1, <2>1, <2>6 DEF SearchInv, ListsHome
<1>2. CASE Enters(j, r, q)
  <2> DEFINE p == r.pods[1]
             m == [pod |-> p.pod, node |-> p.node, uid |-> p.uid, found |-> FALSE]
  <2>1. /\ r.pc = "prepare" /\ q.pc = "find" /\ r.pods # <<>>
        /\ q.pods = Tail(r.pods) /\ q.claims = Claims[p.pod]
        /\ InHand(j, q) = InHand(j, r)
    BY <1>2 DEF Enters, Same, Fields, InHand
  <2>2. /\ p \in PodObject /\ 1 \in 1 .. Len(r.pods)
        /\ Len(q.pods) = Len(r.pods) - 1
        /\ \A n \in 1 .. Len(q.pods) : n + 1 \in 1 .. Len(r.pods) /\ q.pods[n] = r.pods[n + 1]
    BY <1>0, <2>1, TailFacts
  <2>3. /\ HomeOf(p) /\ p.pod \in Range(Specs[InHand(j, r)].pods)
    BY <2>1, <2>2 DEF SearchInv, NothingElseInv
  <2>4. /\ Range(Claims[p.pod]) \subseteq AllClaims
        /\ Claims[p.pod] \in Seq(AllClaims)
    BY <2>2, ClaimTypes DEF PodObject
  <2>5. m \in Meta /\ m # Nil
    <3>1. m \in Meta
      BY <2>2 DEF PodObject, Meta
    <3> HIDE DEF m
    <3> QED BY <3>1, AbsenceAssumption
  <2>6. /\ m.pod = p.pod /\ HomeOf(m)
    BY <2>3 DEF HomeOf
  <2>7. \A c \in AllClaims :
          q.pvcpvMap[c] = IF c \in Range(Claims[p.pod]) THEN m ELSE r.pvcpvMap[c]
    BY <1>2 DEF EntersAll
  <2> HIDE DEF m, p
  <2>8. /\ Range(Claims[p.pod]) \subseteq Found(q)
        /\ \A c \in Found(q) : c \notin Range(Claims[p.pod]) =>
             c \in Found(r) /\ q.pvcpvMap[c] = r.pvcpvMap[c]
        /\ \A c \in Found(q) : c \in Range(Claims[p.pod]) => q.pvcpvMap[c] = m
        /\ Found(r) \subseteq Found(q)
    BY <2>4, <2>5, <2>7 DEF Found
  <2>9. \A n \in 1 .. Len(q.pods) : HomeOf(q.pods[n])
    BY <2>1, <2>2 DEF SearchInv
  <2>10. ASSUME NEW c \in Found(q)
         PROVE  /\ HomeOf(q.pvcpvMap[c])
                /\ q.pvcpvMap[c].pod \in Range(Specs[InHand(j, r)].pods)
                /\ c \in Range(Claims[q.pvcpvMap[c].pod])
                /\ q.pvcpvMap[c].found = TRUE \/ c \in Range(q.claims)
    <3>1. CASE c \in Range(Claims[p.pod])
      BY <2>1, <2>3, <2>6, <2>8, <3>1
    <3>2. CASE c \notin Range(Claims[p.pod])
      <4>1. c \in Found(r) /\ q.pvcpvMap[c] = r.pvcpvMap[c]
        BY <2>8, <3>2
      <4> QED BY <2>1, <4>1 DEF SearchInv
    <3> QED BY <3>1, <3>2
  <2>11. Found(q) # {} \/ \E n \in 1 .. Len(q.pods) : Claims[q.pods[n].pod] # <<>>
    <3>1. CASE Found(r) # {}
      BY <2>8, <3>1
    <3>2. CASE Found(r) = {}
      <4>1. PICK n \in 1 .. Len(r.pods) : Claims[r.pods[n].pod] # <<>>
        BY <2>1, <3>2 DEF SearchInv
      <4>2. CASE n = 1
        <5>1. Claims[p.pod][1] \in Range(Claims[p.pod])
          BY <2>4, <4>1, <4>2 DEF p, Range
        <5> QED BY <2>8, <5>1
      <4>3. CASE n # 1
        <5>1. n - 1 \in 1 .. Len(q.pods) /\ (n - 1) + 1 = n
          BY <1>0, <2>2, <4>1, <4>3
        <5> QED BY <2>2, <4>1, <5>1
      <4> QED BY <4>2, <4>3
    <3> QED BY <3>1, <3>2
  <2>12. Range(q.claims) \subseteq Found(q)
    BY <2>1, <2>8
  <2> QED BY <2>1, <2>9, <2>10, <2>11, <2>12 DEF SearchInv
<1>3. CASE Finds(r, q)
  <2> DEFINE d == r.claims[1]
  <2>1. /\ r.pc = "findExec" /\ q.pc = "find" /\ r.claims # <<>>
        /\ q.claims = Tail(r.claims) /\ Found(q) = Found(r)
        /\ InHand(j, q) = InHand(j, r) /\ q.pods = r.pods
    BY <1>3 DEF Finds, Same, Fields, InHand
  <2>2. /\ d \in AllClaims
        /\ Range(r.claims) = {d} \cup Range(q.claims)
    <3>1. Range(r.claims) = {d} \cup Range(Tail(r.claims))
      BY <1>0, <2>1, TailRange
    <3>2. d \in AllClaims
      BY <1>0, <2>1
    <3> QED BY <2>1, <3>1, <3>2
  <2>3. \A c \in AllClaims : c # d => q.pvcpvMap[c] = r.pvcpvMap[c]
    BY <1>3 DEF FindsIt
  <2>4. d \in Found(r)
    BY <2>1, <2>2 DEF SearchInv
  <2>5. /\ q.pvcpvMap[d].found = TRUE /\ q.pvcpvMap[d].pod = r.pvcpvMap[d].pod
        /\ q.pvcpvMap[d].node = r.pvcpvMap[d].node
        /\ q.pvcpvMap[d].uid = r.pvcpvMap[d].uid
    BY <1>3 DEF FindsIt
  <2> HIDE DEF d
  <2>6. ASSUME NEW c \in Found(q)
        PROVE  /\ HomeOf(q.pvcpvMap[c])
               /\ q.pvcpvMap[c].pod \in Range(Specs[InHand(j, r)].pods)
               /\ c \in Range(Claims[q.pvcpvMap[c].pod])
               /\ q.pvcpvMap[c].found = TRUE \/ c \in Range(q.claims)
    <3>1. /\ HomeOf(r.pvcpvMap[c])
          /\ r.pvcpvMap[c].pod \in Range(Specs[InHand(j, r)].pods)
          /\ c \in Range(Claims[r.pvcpvMap[c].pod])
          /\ r.pvcpvMap[c].found = TRUE \/ c \in Range(r.claims)
          /\ c \in AllClaims
      BY <2>1 DEF SearchInv, Found
    <3>2. CASE c = d
      BY <2>5, <3>1, <3>2 DEF HomeOf
    <3>3. CASE c # d
      BY <2>2, <2>3, <3>1, <3>3
    <3> QED BY <3>2, <3>3
  <2>7. /\ \A n \in 1 .. Len(q.pods) : HomeOf(q.pods[n])
        /\ Range(q.claims) \subseteq Found(q)
        /\ Found(q) # {} \/ \E n \in 1 .. Len(q.pods) : Claims[q.pods[n].pod] # <<>>
    BY <2>1, <2>2 DEF SearchInv
  <2> QED BY <2>1, <2>6, <2>7 DEF SearchInv
<1>4. CASE q.pc \notin Searching \cup Looping
  BY <1>4 DEF SearchInv
<1>5. CASE \/ Jumps(r, q) \/ Deploys(j, r, q) \/ Loops(j, r, q) \/ Turns(r, q)
           \/ Picks(r, q) \/ Acquires(j, r, q) \/ Saves(r, q)
  <2>1. /\ Found(q) = Found(r) /\ q.pvcpvMap = r.pvcpvMap /\ q.pods = r.pods
        /\ q.claims = r.claims /\ InHand(j, q) = InHand(j, r)
    BY <1>5 DEF Jumps, Deploys, Loops, Turns, Picks, Acquires, Saves, Same, Fields,
       Found, InHand
  <2>2. \/ q.pc \notin Searching \cup Looping
        \/ q.pc \in Looping /\ r.pc \in Looping \cup {"prepare"}
        \/ r.pc = "find" /\ q.pc = "findExec"
        \/ r.pc = "find" /\ q.pc = "prepare" /\ r.claims = <<>>
    BY <1>5 DEF Jumps, Deploys, Loops, Turns, Picks, Acquires, Saves
  <2>3. CASE q.pc \in Looping /\ r.pc \in Looping \cup {"prepare"}
    BY <2>1, <2>3 DEF SearchInv
  <2>4. CASE r.pc = "find" /\ q.pc = "findExec"
    BY <2>1, <2>4 DEF SearchInv
  <2>5. CASE r.pc = "find" /\ q.pc = "prepare" /\ r.claims = <<>>
    <3>1. Range(r.claims) = {}
      BY <2>5 DEF Range
    <3> QED BY <2>1, <2>5, <3>1 DEF SearchInv
  <2> QED BY <1>4, <2>2, <2>3, <2>4, <2>5
<1>6. CASE \/ Returns(j, r, q) \/ Cleans(r, q) \/ Advances(j, r, q) \/ Vanishes(r, q)
  BY <1>4, <1>6 DEF Returns, Cleans, Advances, Vanishes
<1> QED BY <1>1, <1>2, <1>3, <1>5, <1>6 DEF LocalStep

-----------------------------------------------------------------------------
(* Steps without a fault.                                                  *)

\* A step that counts no fault has none.
LEMMA NoFault ==
  ASSUME TypeInv, UNCHANGED faults
  PROVE  /\ \A f : ~Fault(f)
         /\ \A i, f : ~Fails(i, f)
         /\ \A i : ~MakeBucketFails(i) /\ ~Kill(i)
<1>1. faults' # faults + 1
  BY BoundsAssumption DEF TypeInv, TypeOK
<1>2. \A f : ~Fault(f)
  BY <1>1 DEF Fault
<1> QED BY <1>2 DEF Fails, MakeBucketFails, Kill

\* The stage of a process tells what it does.
LEMMA ActionAt ==
  ASSUME NEW j \in Jobs, JobStep(j)
  PROVE  /\ job[j].pc = "list" => List(j)
         /\ job[j].pc = "prepare" => Prepare(j) \/ Prepared(j)
         /\ job[j].pc = "find" => Findpvdir(j)
         /\ job[j].pc = "findExec" => FindExec(j)
         /\ job[j].pc = "choose" => NextStorage(j) \/ PickClaim(j)
         /\ job[j].pc = "deploy" => \/ createBackup2nfsDeployment(j)
                                    \/ createBackup2minioDepoyment(j)
                                    \/ createBackup2sftpDeployment(j)
         /\ job[j].pc = "acquire" => filterRunningPod(j)
         /\ job[j].pc = "check" => CheckRepo(j)
         /\ job[j].pc = "init" => InitRepo(j)
         /\ job[j].pc = "backup" => ResticBackup(j)
         /\ job[j].pc = "clean" => Clean(j) \/ NextArg(j)
         /\ job[j].pc = "idle" => Start(j)
         /\ job[j].pc # "done"
<1>1. /\ Start(j) => job[j].pc = "idle"
      /\ List(j) => job[j].pc = "list"
      /\ Prepare(j) \/ Prepared(j) => job[j].pc = "prepare"
      /\ Findpvdir(j) => job[j].pc = "find"
      /\ FindExec(j) => job[j].pc = "findExec"
      /\ NextStorage(j) \/ PickClaim(j) => job[j].pc = "choose"
      /\ \/ createBackup2nfsDeployment(j)
         \/ createBackup2minioDepoyment(j)
         \/ createBackup2sftpDeployment(j)
         => job[j].pc = "deploy"
      /\ filterRunningPod(j) => job[j].pc = "acquire"
      /\ CheckRepo(j) => job[j].pc = "check"
      /\ InitRepo(j) => job[j].pc = "init"
      /\ ResticBackup(j) => job[j].pc = "backup"
      /\ Clean(j) \/ NextArg(j) => job[j].pc = "clean"
  BY Zenon DEF Start, List, Prepare, Prepared, Findpvdir, FindExec, NextStorage,
     PickClaim, createBackup2nfsDeployment, createBackup2minioDepoyment,
     createBackup2sftpDeployment, filterRunningPod, CheckRepo, InitRepo,
     ResticBackup, Clean, NextArg, At
<1> QED BY <1>1 DEF JobStep

\* List reads where the pods are.
LEMMA ListCalm ==
  ASSUME TypeInv, HomeInv, NEW j \in Jobs, List(j), job'[j].pc = "prepare"
  PROVE  \A n \in 1 .. Len(job'[j].pods) : HomeOf(job'[j].pods[n])
<1> DEFINE b == Backup(j)
           q == [job[j] EXCEPT !.pc = "prepare", !.pods = Listed(b),
                   !.pvcpvMap = [c \in AllClaims |-> Nil]]
           e == Returned(job[j], "error")
<1>0. job[j] \in JobState /\ job \in [Jobs -> JobState] /\ b \in Backups
  BY Hand
<1>1. e.pc = "clean"
  BY <1>0, ReturnedFacts DEF Outcomes
<1>2. Becomes(j, q)
  <2>1. Becomes(j, IF Specs[b].resource \in Resources THEN q ELSE e) \/ Becomes(j, e)
    BY Zenon DEF List, Fails
  <2> HIDE DEF q, e
  <2>2. ~Becomes(j, e)
    BY <1>0, <1>1 DEF Becomes
  <2> QED BY <2>1, <2>2
<1>3. job'[j].pods = Listed(b)
  <2> HIDE DEF b
  <2> QED BY <1>0, <1>2 DEF Becomes, JobState
<1>4. Specs[b].pods \in Seq(Pods)
  BY <1>0, SpecTypes
<1> HIDE DEF b
<1>5. ASSUME NEW n \in 1 .. Len(Specs[b].pods) PROVE HomeOf(Listed(b)[n])
  <2> DEFINE p == Specs[b].pods[n]
  <2>1. p \in Pods
    BY <1>4
  <2>2. Listed(b)[n] = [pod |-> p, node |-> placement[p].node, uid |-> placement[p].uid]
    BY DEF Listed
  <2> HIDE DEF p
  <2>3. placement[p].node = FirstNode[p] /\ placement[p].uid = 1
    <3>1. placement[p] = [node |-> FirstNode[p], uid |-> 1]
      BY <2>1 DEF HomeInv
    <3> QED BY <3>1
  <2> QED BY <2>2, <2>3 DEF HomeOf
<1>6. Len(Listed(b)) = Len(Specs[b].pods)
  BY <1>4 DEF Listed
<1> QED BY <1>3, <1>5, <1>6

\* Prepare enters all the claims of the pod.
LEMMA PrepareCalm ==
  ASSUME TypeInv, UNCHANGED faults, NEW j \in Jobs, Prepare(j)
  PROVE  EntersAll(j, job[j], job'[j])
<1> DEFINE p == Head(job[j].pods)
           map(failed) == [c \in AllClaims |->
             IF c \in Range(Claims[p.pod]) \ failed
               THEN [pod |-> p.pod, node |-> p.node, uid |-> p.uid,
                     found |-> FALSE]
               ELSE job[j].pvcpvMap[c]]
           q(failed) == [job[j] EXCEPT !.pc = "find", !.claims = Claims[p.pod],
                           !.pods = Tail(@), !.pvcpvMap = map(failed)]
<1>0. /\ job[j] \in JobState /\ job \in [Jobs -> JobState]
      /\ job[j].pods \in Seq(PodObject) /\ job[j].pods # <<>>
  BY Hand, FieldTypes DEF Prepare
<1>1. p = job[j].pods[1]
  BY <1>0, TailFacts
<1> HIDE DEF p
<1>2. Becomes(j, q({}))
  <2>1. Becomes(j, q({})) \/ Fault("lookup") \/ Fails(j, "get")
    BY DEF Prepare, p
  <2> QED BY <2>1, NoFault
<1>3. job'[j].pvcpvMap = map({})
  <2> HIDE DEF map
  <2> QED BY <1>0, <1>2 DEF Becomes, JobState
<1> QED BY <1>1, <1>3 DEF EntersAll

\* The directory of an entry of the map is there, and can be read.
LEMMA EntryFacts ==
  ASSUME TypeInv, HomeInv, Feasible, NEW j \in Jobs, SearchInv(j, job[j]),
         job[j].pc \in Searching \cup Looping, NEW c \in Found(job[j])
  PROVE  /\ DirectoryExists(c, MetaOf(j, c), MetaOf(j, c).node)
         /\ PathExists(c, MetaOf(j, c), MetaOf(j, c).node)
         /\ MetaOf(j, c) = job[j].pvcpvMap[c] /\ MetaOf(j, c) \in Meta
<1> DEFINE m == MetaOf(j, c)
           b == Backup(j)
<1>0. c \in AllClaims /\ b = InHand(j, job[j]) /\ b \in Backups
  BY Hand DEF Found
<1>1. m = job[j].pvcpvMap[c] /\ m \in Meta
  BY <1>0, MetaFacts
<1>2. HomeOf(m) /\ m.pod \in Range(Specs[b].pods) /\ c \in Range(Claims[m.pod])
  BY <1>0, <1>1 DEF SearchInv
<1>3. VolumeSource[c] \in PathSources \/ findpvdir(m.pod, c) = {VolumeSource[c]}
  <2> HIDE DEF m, b
  <2> QED BY <1>0, <1>2 DEF Feasible
<1> HIDE DEF m, b
<1>4. m # ZeroMeta
  <2>1. m.node \in Nodes /\ ZeroMeta.node = Nil
    BY <1>1 DEF Meta, ZeroMeta
  <2> QED BY <2>1, NodesAssumption
<1>5. placement[m.pod] = [node |-> m.node, uid |-> m.uid]
  <2>1. m.pod \in Pods /\ m.node = FirstNode[m.pod] /\ m.uid = 1
    BY <1>1, <1>2 DEF Meta, HomeOf
  <2> QED BY <2>1 DEF HomeInv
<1>6. DirectoryExists(c, m, m.node) /\ PathExists(c, m, m.node)
  BY <1>3, <1>4, <1>5 DEF DirectoryExists, PathExists
<1> QED BY <1>1, <1>6 DEF m

\* A helper of the name is on the node of the name.
LEMMA FindNode ==
  ASSUME TypeInv, TellApart, NEW j \in Jobs, NEW m, m.node \in Nodes,
         deployments[theDeployName("findpvdir", Backup(j), m)] # Nil
  PROVE  deployments[theDeployName("findpvdir", Backup(j), m)].content.node = m.node
<1> DEFINE d == theDeployName("findpvdir", Backup(j), m)
<1>0. /\ "findpvdir" \in Range(DeployKinds) /\ Backup(j) \in Backups
      /\ Specs[Backup(j)].name \in BackupNames
  BY Hand, SpecTypes, Kinds
<1>1. d \in DeployName /\ d.rest = Joined(m.node, Specs[Backup(j)].name)
  BY <1>0, NameFacts
<1>2. deployments[d] # Nil
  OBVIOUS
<1> HIDE DEF d
<1>3. deployments[d] \in Deployment
  BY <1>1, <1>2 DEF TypeInv, TypeOK
<1>4. PICK n : n = deployments[d].content.node
  OBVIOUS
<1>5. n \in Nodes \cup {Nil} /\ m.node \in Nodes \cup {Nil}
  BY <1>3, <1>4 DEF Deployment
<1>6. PICK name \in BackupNames : d.rest = Joined(n, name)
  BY <1>1, <1>2, <1>4 DEF TypeInv, HelperInv
<1>7. Joined(m.node, Specs[Backup(j)].name) = Joined(n, name)
  BY <1>1, <1>6
<1>8. m.node = n
  BY <1>0, <1>5, <1>7 DEF TellApart
<1> QED BY <1>4, <1>8 DEF d

\* FindExec notes the directory, if its helper is there.
LEMMA FindExecCalm ==
  ASSUME TypeInv, HomeInv, TellApart, Feasible, UNCHANGED faults, NEW j \in Jobs,
         SearchInv(j, job[j]), FindExec(j)
  PROVE  \/ /\ deployments[theDeployName("findpvdir", Backup(j),
                                         MetaOf(j, Head(job[j].claims)))] = Nil
            /\ Becomes(j, Returned(job[j], "error"))
         \/ /\ FindsIt(job[j], job'[j])
            /\ job'[j].pc = "find" /\ job'[j].results = job[j].results
<1> DEFINE c == Head(job[j].claims)
           m == MetaOf(j, c)
           next == [job[j] EXCEPT !.pc = "find", !.claims = Tail(@)]
           noted == [next EXCEPT !.pvcpvMap[c] = [m EXCEPT !.found = TRUE]]
           e == Returned(job[j], "error")
           d == theDeployName("findpvdir", Backup(j), m)
           D == deployments[d]
<1>0. /\ job[j] \in JobState /\ job \in [Jobs -> JobState] /\ job[j].pc = "findExec"
      /\ job[j].claims \in Seq(AllClaims) /\ job[j].claims # <<>>
      /\ job[j].pvcpvMap \in [AllClaims -> Meta \cup {Nil}]
  BY Hand, FieldTypes DEF FindExec, At, StageInv
<1>1. c \in AllClaims /\ c = job[j].claims[1] /\ c \in Range(job[j].claims)
  BY <1>0, TailFacts DEF Range
<1>2. c \in Found(job[j])
  BY <1>0, <1>1 DEF SearchInv
<1>3. DirectoryExists(c, m, m.node) /\ m = job[j].pvcpvMap[c] /\ m \in Meta
  BY <1>0, <1>2, EntryFacts DEF Searching
<1>4. Becomes(j, CASE D = Nil -> e
                   [] D # Nil /\ DirectoryExists(c, m, D.content.node) -> noted
                   [] OTHER -> next)
  BY NoFault, Zenon DEF FindExec
<1>5. (D = Nil /\ Becomes(j, e)) \/ Becomes(j, noted)
  <2>1. ASSUME D # Nil PROVE D.content.node = m.node
    BY <1>1, <1>3, <2>1, FindNode DEF Meta
  <2> HIDE DEF D, e, noted, next, c, m, d
  <2> QED BY <1>3, <1>4, <2>1
<1>6. ASSUME Becomes(j, noted)
      PROVE  /\ FindsIt(job[j], job'[j])
             /\ job'[j].pc = "find" /\ job'[j].results = job[j].results
  <2> DEFINE x == [m EXCEPT !.found = TRUE]
             map == [job[j].pvcpvMap EXCEPT ![c] = x]
  <2>1. /\ x.found = TRUE /\ x.pod = m.pod /\ x.node = m.node /\ x.uid = m.uid
    BY <1>3 DEF Meta
  <2> HIDE DEF c, m
  <2>2. /\ next.pvcpvMap = job[j].pvcpvMap /\ next.pc = "find"
        /\ next.results = job[j].results /\ next \in JobState
    <3>1. [job[j] EXCEPT !.pc = "find"] \in JobState
      BY <1>0 DEF JobState
    <3>2. Tail(job[j].claims) \in Seq(AllClaims)
      BY <1>0, TailFacts
    <3>3. next \in JobState
      BY <1>0, <3>1, <3>2 DEF JobState
    <3> QED BY <1>0, <3>3 DEF JobState
  <2> HIDE DEF x, next
  <2>3. /\ noted.pvcpvMap = map /\ noted.pc = "find"
        /\ noted.results = job[j].results
    <3>1. noted = [next EXCEPT !.pvcpvMap = map]
      BY <2>2 DEF JobState, x
    <3> HIDE DEF map, noted
    <3> QED BY <2>2, <3>1 DEF JobState
  <2> HIDE DEF noted
  <2>4. job'[j] = noted
    BY <1>0, <1>6 DEF Becomes
  <2>5. /\ job'[j].pvcpvMap[c] = x
        /\ \A o \in AllClaims : o # c => job'[j].pvcpvMap[o] = job[j].pvcpvMap[o]
    BY <1>0, <1>1, <2>3, <2>4
  <2>6. FindsIt(job[j], job'[j])
    BY <1>1, <1>3, <2>1, <2>5 DEF FindsIt
  <2> QED BY <2>3, <2>4, <2>6
<1> QED BY <1>5, <1>6

\* SearchInv holds after a step without a fault.
LEMMA SearchCalm ==
  ASSUME TypeInv, ScopeInv, HomeInv, TellApart, Feasible, UNCHANGED faults,
         NEW j \in Jobs, SearchInv(j, job[j]), JobStep(j)
  PROVE  SearchInv(j, job'[j])
<1>1. /\ job[j] \in JobState /\ job'[j] \in JobState /\ LocalInv(j, job[j])
      /\ NothingElseInv(j, job[j]) /\ LocalStep(j, job[j], job'[j])
  BY Hand, ProcessTakes DEF Takes, ScopeInv
<1>2. ListsHome(j, job[j], job'[j])
  <2>1. CASE Lists(j, job[j], job'[j])
    <3>1. job[j].pc = "list" /\ job'[j].pc = "prepare"
      BY <2>1 DEF Lists
    <3> QED BY <3>1, ActionAt, ListCalm DEF ListsHome
  <2> QED BY <2>1 DEF ListsHome
<1>3. EntersAll(j, job[j], job'[j])
  <2>1. CASE Enters(j, job[j], job'[j])
    <3>1. job[j].pc = "prepare" /\ job[j].pods # <<>>
      BY <2>1 DEF Enters
    <3>2. Prepare(j)
      BY <3>1, ActionAt DEF Prepared
    <3> QED BY <3>2, PrepareCalm
  <2> QED BY <2>1 DEF EntersAll
<1>4. FindsIt(job[j], job'[j])
  <2>1. CASE Finds(job[j], job'[j])
    <3>1. job[j].pc = "findExec" /\ job'[j].pc = "find"
      BY <2>1 DEF Finds
    <3>2. FindExec(j)
      BY <3>1, ActionAt
    <3>3. ~Becomes(j, Returned(job[j], "error"))
      <4>1. Returned(job[j], "error").pc = "clean"
        BY <1>1, ReturnedFacts DEF Outcomes
      <4> QED BY <3>1, <4>1, Hand DEF Becomes
    <3> QED BY <3>2, <3>3, FindExecCalm
  <2> QED BY <2>1 DEF FindsIt
<1> QED BY <1>1, <1>2, <1>3, <1>4, SearchInvStep

-----------------------------------------------------------------------------
(* A process whose helpers and repositories are its own goes on.           *)

\* Deploy creates the helper or finds it there.
LEMMA DeployCalm ==
  ASSUME TypeInv, UNCHANGED faults, NEW j \in Jobs, NEW kind \in Range(DeployKinds),
         NEW m, m.node \in Nodes \cup {Nil},
         NEW content \in [node: Nodes \cup {Nil}, repo: Repos \cup {Nil}],
         NEW stage \in {"findExec", "acquire"}, Deploy(j, kind, m, content, stage)
  PROVE  /\ deployments'[theDeployName(kind, Backup(j), m)] # Nil
         /\ job'[j].pc = stage
         /\ Same(job[j], job'[j], {"pc", "deployNames"})
<1> DEFINE d == theDeployName(kind, Backup(j), m)
           named == [job[j] EXCEPT !.deployNames[kind] = d]
           x == [content |-> content, id |-> issued']
<1>0. job[j] \in JobState /\ job \in [Jobs -> JobState] /\ Shared
  BY Hand
<1>1. d \in DeployName
  BY Hand, NameFacts
<1>2. Apply(d, content) /\ Becomes(j, Goto(named, stage))
  BY NoFault, Zenon DEF Deploy
<1> HIDE DEF d
<1>3. named \in JobState /\ Same(job[j], named, {"deployNames"})
  <2>1. job[j] \in JobState
    BY <1>0
  <2> QED BY <1>1, <2>1, NamedFacts, Zenon
<1> HIDE DEF named
<1>4. /\ Goto(named, stage).pc = stage /\ Same(named, Goto(named, stage), {"pc"})
      /\ job'[j] = Goto(named, stage)
  BY <1>0, <1>2, <1>3, GotoFacts DEF Becomes, Stages, Working, Looping, Serving,
     Searching
<1>5. deployments'[d] # Nil
  <2>1. CASE UNCHANGED <<deployments, issued>> /\ deployments[d] # Nil
    BY <2>1
  <2>2. CASE issued' = issued + 1 /\ deployments' = [deployments EXCEPT ![d] = x]
    <3>1. x \in Deployment
      BY <1>0, <2>2 DEF Shared, Deployment
    <3> HIDE DEF x
    <3>2. x # Nil
      BY <3>1, AbsenceAssumption
    <3> QED BY <1>0, <1>1, <2>2, <3>2 DEF Shared
  <2> QED BY <1>2, <2>1, <2>2 DEF Apply
<1> QED BY <1>3, <1>4, <1>5 DEF Same, d

\* Findpvdir and the functions that create the helpers for the storages.
LEMMA HelperCalm ==
  ASSUME TypeInv, UNCHANGED faults, NEW j \in Jobs, JobStep(j)
  PROVE  /\ job[j].pc = "find" /\ job[j].claims # <<>> =>
              /\ deployments'[theDeployName("findpvdir", Backup(j),
                                            MetaOf(j, Head(job[j].claims)))] # Nil
              /\ job'[j].pc = "findExec"
              /\ Same(job[j], job'[j], {"pc", "deployNames"})
         /\ job[j].pc = "deploy" =>
              /\ deployments'[theDeployName(Storage(j), Backup(j),
                                            MetaOf(j, job[j].pvc))] # Nil
              /\ job'[j].pc = "acquire"
              /\ Same(job[j], job'[j], {"pc", "deployNames"})
<1>1. ASSUME job[j].pc = "find", job[j].claims # <<>>
      PROVE  /\ deployments'[theDeployName("findpvdir", Backup(j),
                                           MetaOf(j, Head(job[j].claims)))] # Nil
             /\ job'[j].pc = "findExec"
             /\ Same(job[j], job'[j], {"pc", "deployNames"})
  <2> DEFINE m == MetaOf(j, Head(job[j].claims))
  <2>0. job[j].claims \in Seq(AllClaims)
    BY Hand, FieldTypes
  <2>1. m.node \in Nodes \cup {Nil}
    BY <1>1, <2>0, MetaFacts, TailFacts
  <2>2. Deploy(j, "findpvdir", m, TemplateFindpvdir(m), "findExec")
    BY <1>1, ActionAt DEF Findpvdir
  <2> HIDE DEF m
  <2>3. TemplateFindpvdir(m) \in [node: Nodes \cup {Nil}, repo: Repos \cup {Nil}]
    BY <2>1 DEF TemplateFindpvdir
  <2>4. "findpvdir" \in Range(DeployKinds)
    BY Kinds
  <2> QED BY <2>1, <2>2, <2>3, <2>4, DeployCalm DEF m
<1>2. ASSUME job[j].pc = "deploy"
      PROVE  /\ deployments'[theDeployName(Storage(j), Backup(j),
                                           MetaOf(j, job[j].pvc))] # Nil
             /\ job'[j].pc = "acquire"
             /\ Same(job[j], job'[j], {"pc", "deployNames"})
  <2> DEFINE m == MetaOf(j, job[j].pvc)
             content == [node |-> m.node, repo |-> Repo(j)]
  <2>1. /\ m.node \in Nodes \cup {Nil} /\ Storage(j) \in Range(DeployKinds)
        /\ Repo(j) \in Repos
    BY <1>2, ServingFacts DEF Serving
  <2>2. \/ createBackup2nfsDeployment(j) \/ createBackup2minioDepoyment(j)
        \/ createBackup2sftpDeployment(j)
    BY <1>2, ActionAt
  <2>3. Deploy(j, Storage(j), m, content, "acquire")
    BY <2>2, NoFault, Zenon
       DEF createBackup2nfsDeployment, createBackup2minioDepoyment,
           createBackup2sftpDeployment, TemplateBackup2nfs, TemplateBackup2minio,
           TemplateBackup2sftp, MakeDirOnSftpFails
  <2>4. content \in [node: Nodes \cup {Nil}, repo: Repos \cup {Nil}]
    BY <2>1
  <2> HIDE DEF m, content
  <2> QED BY <2>1, <2>3, <2>4, DeployCalm DEF m
<1> QED BY <1>1, <1>2

\* The helper in hand has the repository of the Backup in hand.
LEMMA ContentRepo ==
  ASSUME TypeInv, RepoInv, NEW j \in Jobs, job[j].pc \in InHelper,
         Running(job[j].execPod)
  PROVE  Content(j).repo = Repo(j)
<1> DEFINE d == job[j].execPod.deploy
<1>1. /\ d \in DeployName /\ deployments[d] # Nil
      /\ d = theDeployName(Storage(j), Backup(j), MetaOf(j, job[j].pvc))
  BY ContentFacts
<1>2. /\ Storage(j) \in BackupKinds /\ Storage(j) \in Range(DeployKinds)
      /\ Backup(j) \in Backups /\ MetaOf(j, job[j].pvc).node \in Nodes
  BY ServingFacts, Hand DEF Serving
<1>3. d.kind = Storage(j) /\ d \in NamesOf(Backup(j))
  BY <1>1, <1>2, NameFacts
<1> QED BY <1>1, <1>2, <1>3 DEF RepoInv, Content, Repo

\* The preparation of the Backup in hand does not fail.
LEMMA SearchGoesOn ==
  ASSUME TypeInv, HomeInv, TellApart, Feasible, UNCHANGED faults, NEW j \in Jobs,
         JobStep(j), SearchInv(j, job[j]), ToolInv(j), ~Contended(j, job[j].arg),
         job[j].pc \in {"list"} \cup Searching
  PROVE  job'[j].pc \notin {"clean", "done"}
<1>0. /\ job[j] \in JobState /\ job \in [Jobs -> JobState] /\ Backup(j) \in Backups
  BY Hand
<1> DEFINE e == Returned(job[j], "error")
<1>1. CASE job[j].pc = "list"
  <2> DEFINE q == [job[j] EXCEPT !.pc = "prepare", !.pods = Listed(Backup(j)),
                     !.pvcpvMap = [c \in AllClaims |-> Nil]]
  <2>1. Specs[Backup(j)].resource \in Resources
    BY <1>0 DEF Feasible
  <2>2. Becomes(j, IF Specs[Backup(j)].resource \in Resources THEN q ELSE e)
    BY <1>1, ActionAt, NoFault, Zenon DEF List
  <2>3. q.pc = "prepare"
    BY <1>0 DEF JobState
  <2> HIDE DEF q, e
  <2> QED BY <1>0, <2>1, <2>2, <2>3 DEF Becomes
<1>2. CASE job[j].pc = "prepare"
  <2> DEFINE found == {c \in AllClaims : job[j].pvcpvMap[c] # Nil}
             q == [job[j] EXCEPT !.pc = "choose", !.todo = found,
                     !.storages = parseStorage(Backup(j))]
  <2>1. CASE Prepare(j)
    <3>1. PICK p, map : Becomes(j, [job[j] EXCEPT !.pc = "find",
                                      !.claims = Claims[p.pod], !.pods = Tail(@),
                                      !.pvcpvMap = map])
      BY <2>1, NoFault DEF Prepare
    <3> DEFINE x == [job[j] EXCEPT !.pc = "find", !.claims = Claims[p.pod],
                       !.pods = Tail(@), !.pvcpvMap = map]
    <3>2. x.pc = "find"
      BY <1>0 DEF JobState
    <3>3. Becomes(j, x)
      BY <3>1
    <3> HIDE DEF x
    <3> QED BY <1>0, <3>2, <3>3 DEF Becomes
  <2>2. CASE Prepared(j)
    <3>1. job[j].pods = <<>> /\ Becomes(j, IF found = {} THEN e ELSE q)
      BY <2>2, Zenon DEF Prepared
    <3>2. found # {}
      <4>1. found = Found(job[j])
        BY DEF Found
      <4>2. 1 .. Len(job[j].pods) = {}
        BY <3>1
      <4> HIDE DEF found
      <4> QED BY <1>2, <4>1, <4>2 DEF SearchInv, Searching
    <3>3. q.pc = "choose"
      BY <1>0 DEF JobState
    <3> HIDE DEF q, e, found
    <3> QED BY <1>0, <3>1, <3>2, <3>3 DEF Becomes
  <2> QED BY <1>2, <2>1, <2>2, ActionAt
<1>3. CASE job[j].pc = "find"
  <2>1. CASE job[j].claims = <<>>
    <3>1. Becomes(j, Goto(job[j], "prepare"))
      BY <1>3, <2>1, ActionAt DEF Findpvdir
    <3>2. Goto(job[j], "prepare").pc = "prepare"
      BY <1>0, GotoFacts DEF Stages, Working, Searching
    <3> QED BY <1>0, <3>1, <3>2 DEF Becomes
  <2>2. CASE job[j].claims # <<>>
    BY <1>3, <2>2, HelperCalm
  <2> QED BY <2>1, <2>2
<1>4. CASE job[j].pc = "findExec"
  BY <1>4, ActionAt, FindExecCalm DEF ToolInv
<1> QED BY <1>1, <1>2, <1>3, <1>4 DEF Searching

\* Nor do the loops, unless "restic init" is refused, and what they return at the
\* end is nil.
LEMMA LoopGoesOn ==
  ASSUME TypeInv, RepoInv, HomeInv, TellApart, Feasible, UNCHANGED faults,
         NEW j \in Jobs, JobStep(j), SearchInv(j, job[j]), ToolInv(j), RaceInv(j),
         ~Contended(j, job[j].arg), job[j].pc \in Looping
  PROVE  \/ job'[j].pc \notin {"clean", "done"}
         \/ job'[j].results = Append(job[j].results, "ok")
         \/ /\ job'[j].results = Append(job[j].results, "refused")
            /\ Raced(j, job[j].arg)
<1>0. /\ job[j] \in JobState /\ job \in [Jobs -> JobState] /\ Backup(j) \in Backups
      /\ Backup(j) = InHand(j, job[j])
  BY Hand
<1> DEFINE e == Returned(job[j], "error")
<1>1. CASE NextStorage(j)
  <2> DEFINE o == Returned(job[j], "ok")
             q == [job[j] EXCEPT !.storages = Tail(@),
                     !.todo = {c \in AllClaims : job[j].pvcpvMap[c] # Nil}]
  <2>1. Becomes(j, o) \/ Becomes(j, q)
    BY <1>1, Zenon DEF NextStorage
  <2>2. o.results = Append(job[j].results, "ok")
    BY <1>0, ReturnedFacts DEF Outcomes
  <2>3. q.pc = job[j].pc /\ job[j].pc = "choose"
    BY <1>0, <1>1 DEF JobState, NextStorage, At
  <2> HIDE DEF o, q
  <2> QED BY <1>0, <2>1, <2>2, <2>3 DEF Becomes
<1>2. CASE PickClaim(j)
  <2>0. /\ job[j].pc = "choose" /\ job[j].storages # <<>>
        /\ job[j].storages \in Seq(StorageFields)
    BY <1>0, <1>2, FieldTypes DEF PickClaim, At
  <2>1. Storage(j) \in BackupKinds
    <3>1. Storage(j) \in Range(job[j].storages)
      BY <2>0, TailFacts DEF Storage, Range
    <3>2. Range(job[j].storages) \subseteq DOMAIN Specs[Backup(j)].backupTo
      BY <1>0, <2>0, Hand DEF StorageInv, Looping
    <3> QED BY <1>0, <3>1, <3>2 DEF Feasible
  <2>2. Storage(j) # "pvc" /\ Storage(j) \in Range(DeployKinds)
    BY <2>1, Kinds DEF BackupKinds
  <2>3. PICK c \in job[j].todo :
          LET r == [job[j] EXCEPT !.pvc = c, !.todo = @ \ {c}] IN
          Becomes(j, CASE Storage(j) = "pvc" -> Returned(r, "error")
                       [] Storage(j) \in Range(DeployKinds) -> Goto(r, "deploy")
                       [] OTHER -> Returned(r, IF MetaOf(j, c).found
                                                 THEN "panic" ELSE "error"))
    BY <1>2, NoFault, Zenon DEF PickClaim
  <2> DEFINE r == [job[j] EXCEPT !.pvc = c, !.todo = @ \ {c}]
             z == Returned(r, IF MetaOf(j, c).found THEN "panic" ELSE "error")
             y == Returned(r, "error")
             g == Goto(r, "deploy")
  <2>4. Becomes(j, CASE Storage(j) = "pvc" -> y
                     [] Storage(j) \in Range(DeployKinds) -> g
                     [] OTHER -> z)
    BY <2>3, Zenon
  <2>5. g.pc = "deploy"
    BY <1>0 DEF Goto, JobState
  <2> HIDE DEF r, z, y, g
  <2> QED BY <1>0, <2>2, <2>4, <2>5 DEF Becomes
<1>3. CASE job[j].pc = "deploy"
  BY <1>3, HelperCalm
<1>4. CASE job[j].pc = "acquire"
  <2> DEFINE m == MetaOf(j, job[j].pvc)
             d == theDeployName(Storage(j), Backup(j), m)
             q == [job[j] EXCEPT !.pc = "check",
                     !.execPod = [deploy |-> d, id |-> deployments[d].id]]
  <2>1. Becomes(j, IF deployments[d] # Nil /\ m.found THEN q ELSE e)
    BY <1>4, ActionAt, NoFault, Zenon DEF filterRunningPod
  <2>2. deployments[d] # Nil
    BY <1>4 DEF ToolInv
  <2>3. m.found
    <3>1. job[j].pvc \in Found(job[j])
      BY <1>4, Hand DEF StageInv, Serving
    <3>2. job[j].pvcpvMap[job[j].pvc].found = TRUE
      BY <1>4, <3>1 DEF SearchInv, Looping, Serving
    <3>3. m = job[j].pvcpvMap[job[j].pvc]
      BY <1>4, ServingFacts DEF Serving
    <3> QED BY <3>2, <3>3
  <2>4. q.pc = "check"
    BY <1>0 DEF JobState
  <2> HIDE DEF q, e, d, m
  <2> QED BY <1>0, <2>1, <2>2, <2>3, <2>4 DEF Becomes
<1>5. CASE job[j].pc = "check"
  <2>1. Becomes(j, Goto(job[j], "backup")) \/ Becomes(j, Goto(job[j], "init"))
    BY <1>5, ActionAt, Zenon DEF CheckRepo
  <2>2. Goto(job[j], "backup").pc = "backup" /\ Goto(job[j], "init").pc = "init"
    BY <1>0, GotoFacts DEF Stages, Working, Looping, Serving, InHelper
  <2> QED BY <1>0, <2>1, <2>2 DEF Becomes
<1>6. CASE job[j].pc = "init"
  <2>1. Running(job[j].execPod)
    BY <1>6 DEF ToolInv, InHelper
  <2>2. CASE Content(j).repo \notin repos
    <3>1. Becomes(j, Goto(job[j], "backup"))
      BY <1>6, <2>1, <2>2, ActionAt, NoFault DEF InitRepo
    <3>2. Goto(job[j], "backup").pc = "backup"
      BY <1>0, GotoFacts DEF Stages, Working, Looping, Serving, InHelper
    <3> QED BY <1>0, <3>1, <3>2 DEF Becomes
  <2>3. CASE Content(j).repo \in repos
    <3>1. Raced(j, job[j].arg)
      BY <1>6, <2>1, <2>3, ContentRepo DEF RaceInv, InHelper
    <3>2. Becomes(j, Returned(job[j], "refused"))
      BY <1>6, <2>1, <2>3, ActionAt, NoFault DEF InitRepo
    <3>3. Returned(job[j], "refused").results = Append(job[j].results, "refused")
      BY <1>0, ReturnedFacts DEF Outcomes
    <3> QED BY <1>0, <3>1, <3>2, <3>3 DEF Becomes
  <2> QED BY <2>2, <2>3
<1>7. CASE job[j].pc = "backup"
  <2> DEFINE c == job[j].pvc
             m == MetaOf(j, c)
  <2>1. Running(job[j].execPod)
    BY <1>7 DEF ToolInv, InHelper
  <2>2. PathExists(c, m, Content(j).node)
    <3>1. c \in Found(job[j])
      BY <1>7, Hand DEF StageInv, Serving, InHelper
    <3>2. job[j].pc \in Searching \cup Looping
      BY <1>7 DEF Looping, Serving, InHelper
    <3>3. Content(j).node = m.node
      BY <1>7, <2>1, ContentNode DEF InHelper
    <3>4. PathExists(c, m, m.node)
      BY <3>1, <3>2, EntryFacts
    <3> HIDE DEF c, m
    <3> QED BY <3>3, <3>4
  <2>3. PICK t : Becomes(j,
                   IF Running(job[j].execPod) /\ PathExists(c, m, Content(j).node)
                   THEN [job[j] EXCEPT !.pc = "choose", !.execPod = Nil,
                           !.taken = @ \cup {t}]
                   ELSE e)
    BY <1>7, ActionAt, NoFault, Zenon DEF ResticBackup
  <2> DEFINE q == [job[j] EXCEPT !.pc = "choose", !.execPod = Nil,
                     !.taken = @ \cup {t}]
  <2>4. q.pc = "choose"
    BY <1>0 DEF JobState
  <2>5. Becomes(j, IF Running(job[j].execPod) /\ PathExists(c, m, Content(j).node)
                     THEN q ELSE e)
    BY <2>3
  <2> HIDE DEF q, e, c, m
  <2> QED BY <1>0, <2>1, <2>2, <2>4, <2>5 DEF Becomes
<1> QED BY <1>1, <1>2, <1>3, <1>4, <1>5, <1>6, <1>7, ActionAt
        DEF Looping, Serving, InHelper

\* Another process may be the reason why the Backup in hand ends with outcome o.
Excused(j, o) ==
  Contended(j, job[j].arg) \/ (o = "refused" /\ Raced(j, job[j].arg))

\* An outcome that is added is nil, or excused by another process.
LEMMA OutcomeCalm ==
  ASSUME TypeInv, RepoInv, HomeInv, TellApart, Feasible, UNCHANGED faults,
         NEW j \in Jobs, JobStep(j), SearchInv(j, job[j]), ToolInv(j), RaceInv(j)
  PROVE  \/ job'[j].results = job[j].results
         \/ /\ Len(job[j].results) = job[j].arg - 1
            /\ job'[j].taken = job[j].taken
            /\ \E o \in Outcomes : /\ job'[j].results = Append(job[j].results, o)
                                   /\ o = "ok" \/ Excused(j, o)
<1>1. /\ LocalStep(j, job[j], job'[j]) /\ job[j].pc \in Stages
      /\ job[j].pc # "done" /\ job[j] \in JobState /\ job \in [Jobs -> JobState]
  BY Hand, ProcessTakes, ActionAt DEF Takes
<1>2. CASE job[j].pc \in {"idle", "clean"}
  <2>1. CASE Start(j)
    <3>1. Becomes(j, Goto(job[j], "list"))
      BY <2>1 DEF Start
    <3>2. Same(job[j], Goto(job[j], "list"), {"pc"})
      BY <1>1, GotoFacts DEF Stages, Working
    <3> QED BY <1>1, <3>1, <3>2 DEF Becomes, Same, Fields
  <2>2. CASE Clean(j)
    <3>1. Becomes(j, [job[j] EXCEPT !.cleaning = Tail(@)])
      BY <2>2 DEF Clean
    <3> QED BY <1>1, <3>1 DEF Becomes, JobState
  <2>3. CASE NextArg(j)
    <3>1. \/ Becomes(j, Goto(job[j], "done"))
          \/ Becomes(j, [job[j] EXCEPT !.pc = "list", !.arg = @ + 1])
      BY <2>3, Zenon DEF NextArg
    <3>2. Same(job[j], Goto(job[j], "done"), {"pc"})
      BY <1>1, GotoFacts DEF Stages
    <3>3. CASE Becomes(j, Goto(job[j], "done"))
      BY <1>1, <3>2, <3>3 DEF Becomes, Same, Fields
    <3>4. CASE Becomes(j, [job[j] EXCEPT !.pc = "list", !.arg = @ + 1])
      BY <1>1, <3>4 DEF Becomes, JobState
    <3> QED BY <3>1, <3>3, <3>4
  <2> QED BY <1>2, <2>1, <2>2, <2>3, ActionAt
<1>3. CASE job[j].pc \in Working /\ job'[j].results # job[j].results
  <2>1. Returns(j, job[j], job'[j]) \/ Vanishes(job[j], job'[j])
    BY <1>1, <1>3 DEF LocalStep, Jumps, Lists, Enters, Finds, Deploys, Loops, Turns,
       Picks, Acquires, Saves, Cleans, Advances, Same, Fields
  <2>2. /\ job'[j].pc \in {"clean", "done"} /\ job'[j].taken = job[j].taken
        /\ \E o \in Outcomes : job'[j].results = Append(job[j].results, o)
    BY <2>1 DEF Returns, Vanishes, Same, Fields, LoopFields, Outcomes
  <2>3. Len(job[j].results) = job[j].arg - 1
    BY <1>3, Hand DEF ResultInv
  <2>4. CASE Contended(j, job[j].arg)
    BY <2>2, <2>3, <2>4 DEF Excused
  <2>5. CASE ~Contended(j, job[j].arg)
    <3>1. \/ job'[j].results = Append(job[j].results, "ok")
          \/ /\ job'[j].results = Append(job[j].results, "refused")
             /\ Raced(j, job[j].arg)
      BY <1>3, <2>2, <2>5, SearchGoesOn, LoopGoesOn DEF Working
    <3> QED BY <2>2, <2>3, <3>1 DEF Outcomes, Excused
  <2> QED BY <2>4, <2>5
<1> QED BY <1>1, <1>2, <1>3 DEF Stages

-----------------------------------------------------------------------------
(* The invariant is inductive.                                             *)

\* Only InitRepo changes the set of repositories, and it adds the one of the
\* Backup in hand.
LEMMA ReposEffect ==
  ASSUME TypeInv, RepoInv, NEW k \in Jobs, JobStep(k) \/ Kill(k)
  PROVE  \/ repos' = repos
         \/ job[k].pc = "init" /\ repos' = repos \cup {Repo(k)}
<1>1. CASE InitRepo(k)
  <2>1. job[k].pc = "init" /\ job[k].pc \in InHelper
    BY <1>1 DEF InitRepo, At, InHelper
  <2>2. \/ repos' = repos
        \/ Running(job[k].execPod) /\ repos' = repos \cup {Content(k).repo}
    BY <1>1 DEF InitRepo, Fails, LocalOnly
  <2> QED BY <2>1, <2>2, ContentRepo
<1>2. CASE \/ Findpvdir(k) \/ createBackup2nfsDeployment(k)
           \/ createBackup2minioDepoyment(k) \/ createBackup2sftpDeployment(k)
  BY <1>2 DEF Findpvdir, createBackup2nfsDeployment, createBackup2minioDepoyment,
     createBackup2sftpDeployment, Deploy, Fails, MakeBucketFails,
     MakeDirOnSftpFails, LocalOnly
<1>3. CASE \/ Start(k) \/ List(k) \/ Prepare(k) \/ Prepared(k) \/ FindExec(k)
           \/ NextStorage(k) \/ PickClaim(k) \/ filterRunningPod(k)
  BY <1>3 DEF Start, List, Prepare, Prepared, FindExec, NextStorage, PickClaim,
              filterRunningPod, Fails, LocalOnly
<1>4. CASE CheckRepo(k) \/ ResticBackup(k) \/ Clean(k) \/ NextArg(k) \/ Kill(k)
  BY <1>4 DEF CheckRepo, ResticBackup, Clean, NextArg, Kill, Fails, LocalOnly
<1> QED BY <1>1, <1>2, <1>3, <1>4 DEF JobStep

\* ReadyInv is inductive: restic is not asked for a snapshot before the
\* repository is there.
LEMMA ReadyStep == TypeInv /\ RepoInv /\ ReadyInv /\ [Next]_vars => ReadyInv'
<1> SUFFICES ASSUME TypeInv, RepoInv, ReadyInv, [Next]_vars PROVE ReadyInv'
  OBVIOUS
<1>1. ASSUME NEW j \in Jobs, JobStep(j) \/ Kill(j) PROVE ReadyInv'
  <2>0. /\ Takes(j) /\ job[j] \in JobState /\ job'[j] \in JobState
        /\ \A i \in Jobs : i # j => job'[i] = job[i]
        /\ LocalStep(j, job[j], job'[j]) /\ job \in [Jobs -> JobState]
    BY <1>1, Hand, ProcessTakes, TakesOne DEF Takes
  <2>1. repos \subseteq repos'
    BY <1>1, ReposEffect
  <2>2. ASSUME NEW i \in Jobs, i # j
        PROVE  /\ job'[i].pc = "backup" => Repo(i)' \in repos'
               /\ \A t \in job'[i].taken : t.repo \in repos'
    <3>1. job'[i] = job[i]
      BY <2>0, <2>2
    <3>2. Repo(i)' = Repo(i)
      BY <3>1 DEF Repo, Backup, Storage
    <3> QED BY <2>1, <3>1, <3>2 DEF ReadyInv
  <2>3. ASSUME job'[j].pc = "backup" PROVE Repo(j)' \in repos'
    <3>1. Jumps(job[j], job'[j])
      BY <2>0, <2>3 DEF LocalStep, Lists, Enters, Finds, Deploys, Loops, Turns, Picks,
         Acquires, Saves, Returns, Cleans, Advances, Vanishes
    <3>2. /\ job[j].pc \in {"check", "init"} /\ job[j].pc \in InHelper
          /\ job'[j].arg = job[j].arg /\ job'[j].storages = job[j].storages
      BY <2>3, <3>1 DEF Jumps, Same, Fields, InHelper
    <3>3. Repo(j)' = Repo(j)
      BY <3>2 DEF Repo, Backup, Storage
    <3>4. JobStep(j)
      <4>1. ~Kill(j)
        BY <2>0, <2>3, EndedFacts DEF Kill, Becomes, Outcomes
      <4> QED BY <1>1, <4>1
    <3>5. CASE job[j].pc = "check"
      <4> DEFINE z == Goto(job[j], "init")
      <4>1. CheckRepo(j)
        BY <3>4, <3>5, ActionAt
      <4>2. z.pc = "init"
        BY <2>0, GotoFacts DEF Stages, Working, Looping, Serving, InHelper
      <4>3. ~Becomes(j, z)
        <5> HIDE DEF z
        <5> QED BY <2>0, <2>3, <4>2 DEF Becomes
      <4>4. Running(job[j].execPod) /\ Content(j).repo \in repos
        BY <4>1, <4>3 DEF CheckRepo
      <4> QED BY <2>1, <3>2, <3>3, <4>4, ContentRepo
    <3>6. CASE job[j].pc = "init"
      <4> DEFINE z == Returned(job[j], "error")
      <4>1. InitRepo(j)
        BY <3>4, <3>6, ActionAt
      <4>2. z.pc = "clean"
        BY <2>0, ReturnedFacts DEF Outcomes
      <4>3. ~Becomes(j, z)
        <5> HIDE DEF z
        <5> QED BY <2>0, <2>3, <4>2 DEF Becomes
      <4>4. Running(job[j].execPod) /\ repos' = repos \cup {Content(j).repo}
        BY <4>1, <4>3 DEF InitRepo, Fails
      <4> QED BY <3>2, <3>3, <4>4, ContentRepo
    <3> QED BY <3>2, <3>5, <3>6
  <2>4. ASSUME NEW t \in job'[j].taken PROVE t.repo \in repos'
    <3>1. CASE job'[j].taken = job[j].taken
      BY <2>1, <3>1 DEF ReadyInv
    <3>2. CASE job[j].pc = "backup" /\ Writes(j)
      <4>1. PICK u \in Snapshot : /\ u.repo = Content(j).repo
                                  /\ job'[j].taken = job[j].taken \cup {u}
        BY <3>2 DEF Writes
      <4>2. Content(j).repo = Repo(j)
        BY <3>2, ContentRepo DEF Writes, InHelper
      <4>3. Repo(j) \in repos
        BY <3>2 DEF ReadyInv
      <4> QED BY <2>1, <4>1, <4>2, <4>3 DEF ReadyInv
    <3> QED BY <1>1, <3>1, <3>2, TakenOrWrites
  <2> QED BY <2>2, <2>3, <2>4 DEF ReadyInv
<1>2. CASE UNCHANGED <<job, repos>>
  BY <1>2 DEF ReadyInv, Repo, Backup, Storage
<1> QED BY <1>1, <1>2 DEF Next, Reschedule, vars

\* A race that is lost stays lost, unless the repository gets a snapshot.
LEMMA RacedStays ==
  ASSUME NEW j \in Jobs, NEW i, Raced(j, i), repos \subseteq repos',
         \A t \in job'[j].taken : t.arg = i => t \in job[j].taken
  PROVE  Raced(j, i)'
<1>1. PICK s \in DOMAIN Specs[Args[j][i]].backupTo :
        LET r == Specs[Args[j][i]].backupTo[s] IN
        /\ r \in repos
        /\ ~\E t \in job[j].taken : t.arg = i /\ t.storage = s
        /\ \E k \in Jobs \ {j} : \E b \in Range(Args[k]) : r \in Range(Specs[b].backupTo)
  BY Zenon DEF Raced
<1>2. /\ Specs[Args[j][i]].backupTo[s] \in repos'
      /\ ~\E t \in job'[j].taken : t.arg = i /\ t.storage = s
  BY <1>1
<1> QED BY <1>1, <1>2 DEF Raced

\* OutcomeInv, for the process that takes the step.
LEMMA OutcomeOwn ==
  ASSUME TypeInv, RepoInv, HomeInv, TellApart, Feasible, UNCHANGED faults,
         NEW j \in Jobs, JobStep(j), SearchInv(j, job[j]), ToolInv(j), RaceInv(j),
         OutcomeInv(j)
  PROVE  OutcomeInv(j)'
<1>0. /\ job[j].results \in Seq(Outcomes) /\ Len(job[j].results) \in Nat
      /\ job[j].arg \in Nat /\ job[j].arg >= 1
  BY Hand, FieldTypes
<1>1. repos \subseteq repos'
  BY ReposEffect
<1>2. ASSUME NEW i \in 1 .. Len(job[j].results), job'[j].results[i] = job[j].results[i]
      PROVE  job'[j].results[i] = "ok" \/ Contended(j, i) \/ LostRace(j, i)'
  <2>1. ASSUME NEW t \in job'[j].taken, t.arg = i PROVE t \in job[j].taken
    <3>1. CASE job'[j].taken = job[j].taken
      BY <3>1
    <3>2. CASE job[j].pc = "backup" /\ Writes(j)
      <4>1. PICK u \in Snapshot : /\ u.arg = job[j].arg
                                  /\ job'[j].taken = job[j].taken \cup {u}
        BY <3>2 DEF Writes
      <4>2. Len(job[j].results) = job[j].arg - 1
        BY <3>2, Hand DEF ResultInv, Working, Looping, Serving, InHelper
      <4>3. i # job[j].arg
        BY <1>0, <1>2, <4>2
      <4> QED BY <2>1, <4>1, <4>3
    <3> QED BY <3>1, <3>2, TakenOrWrites
  <2>2. LostRace(j, i) => LostRace(j, i)'
    BY <1>1, <1>2, <2>1, RacedStays DEF LostRace
  <2> QED BY <1>2, <2>2 DEF OutcomeInv
<1>3. CASE job'[j].results = job[j].results
  <2>1. ASSUME NEW i \in 1 .. Len(job'[j].results)
        PROVE  job'[j].results[i] = "ok" \/ Contended(j, i) \/ LostRace(j, i)'
    BY <1>2, <1>3
  <2> QED BY <1>3, <2>1 DEF OutcomeInv, Contended
<1>4. CASE /\ Len(job[j].results) = job[j].arg - 1
           /\ job'[j].taken = job[j].taken
           /\ \E o \in Outcomes : /\ job'[j].results = Append(job[j].results, o)
                                  /\ o = "ok" \/ Excused(j, o)
  <2>1. PICK o \in Outcomes : /\ job'[j].results = Append(job[j].results, o)
                              /\ o = "ok" \/ Excused(j, o)
    BY <1>4
  <2>2. /\ Len(job'[j].results) = Len(job[j].results) + 1
        /\ job'[j].results[Len(job[j].results) + 1] = o
        /\ \A i \in 1 .. Len(job[j].results) : job'[j].results[i] = job[j].results[i]
    BY <1>0, <2>1
  <2>3. ASSUME NEW i \in 1 .. Len(job'[j].results)
        PROVE  job'[j].results[i] = "ok" \/ Contended(j, i) \/ LostRace(j, i)'
    <3>1. CASE i \in 1 .. Len(job[j].results)
      BY <1>2, <2>2, <3>1
    <3>2. CASE i = Len(job[j].results) + 1
      <4>1. i = job[j].arg /\ job'[j].results[i] = o
        <5>1. Len(job[j].results) = job[j].arg - 1
          BY <1>4
        <5> QED BY <1>0, <2>2, <3>2, <5>1
      <4>2. job'[j].taken = job[j].taken
        BY <1>4
      <4>3. Raced(j, i) => Raced(j, i)'
        BY <1>1, <4>2, RacedStays
      <4>4. o = "ok" \/ Contended(j, i) \/ (o = "refused" /\ Raced(j, i))
        BY <2>1, <4>1, Zenon DEF Excused
      <4> QED BY <4>1, <4>3, <4>4 DEF LostRace
    <3>3. i \in 1 .. Len(job[j].results) \/ i = Len(job[j].results) + 1
      <4>1. i \in 1 .. Len(job[j].results) + 1
        BY <2>2
      <4> QED BY <1>0, <4>1
    <3> QED BY <3>1, <3>2, <3>3, Zenon
  <2>4. Len(job'[j].results) <= Len(Args[j])
    <3>1. job[j].arg \in 1 .. Len(Args[j])
      BY Hand DEF StageInv
    <3> QED BY <1>0, <1>4, <2>2, <3>1
  <2> QED BY <2>3, <2>4 DEF OutcomeInv, Contended
<1> QED BY <1>3, <1>4, OutcomeCalm

\* ToolInv, for the process that takes the step.
LEMMA ToolOwn ==
  ASSUME TypeInv, UNCHANGED faults, NEW j \in Jobs, JobStep(j), ToolInv(j)
  PROVE  ToolInv(j)'
<1>0. /\ LocalStep(j, job[j], job'[j]) /\ job[j] \in JobState
      /\ job \in [Jobs -> JobState] /\ Backup(j) \in Backups
  BY Hand, ProcessTakes DEF Takes
<1>1. CASE job'[j].pc = "findExec"
  <2>1. job[j].pc = "find" /\ job[j].claims # <<>>
    BY <1>0, <1>1 DEF LocalStep, Jumps, Lists, Enters, Finds, Deploys, Loops, Turns,
       Picks, Acquires, Saves, Returns, Cleans, Advances, Vanishes
  <2>2. /\ deployments'[theDeployName("findpvdir", Backup(j),
                                      MetaOf(j, Head(job[j].claims)))] # Nil
        /\ Same(job[j], job'[j], {"pc", "deployNames"})
    BY <2>1, HelperCalm
  <2>3. /\ Backup(j)' = Backup(j) /\ job'[j].claims = job[j].claims
        /\ job'[j].pvcpvMap = job[j].pvcpvMap
    BY <2>2 DEF Same, Fields, Backup
  <2>4. deployments'[theDeployName("findpvdir", Backup(j)',
                                   MetaOf(j, Head(job[j].claims))')] # Nil
    BY <2>2, <2>3 DEF MetaOf
  <2> QED BY <1>1, <2>4 DEF ToolInv, InHelper
<1>2. CASE job'[j].pc = "acquire"
  <2>1. job[j].pc = "deploy"
    BY <1>0, <1>2 DEF LocalStep, Jumps, Lists, Enters, Finds, Deploys, Loops, Turns,
       Picks, Acquires, Saves, Returns, Cleans, Advances, Vanishes
  <2>2. /\ deployments'[theDeployName(Storage(j), Backup(j),
                                      MetaOf(j, job[j].pvc))] # Nil
        /\ Same(job[j], job'[j], {"pc", "deployNames"})
    BY <2>1, HelperCalm
  <2>3. /\ Backup(j)' = Backup(j) /\ job'[j].pvc = job[j].pvc
        /\ Storage(j)' = Storage(j) /\ job'[j].pvcpvMap = job[j].pvcpvMap
    BY <2>2 DEF Same, Fields, Backup, Storage
  <2>4. deployments'[theDeployName(Storage(j)', Backup(j)',
                                   MetaOf(j, job[j].pvc)')] # Nil
    BY <2>2, <2>3 DEF MetaOf
  <2> QED BY <1>2, <2>4 DEF ToolInv, InHelper
<1>3. CASE job'[j].pc = "check"
  <2> DEFINE m == MetaOf(j, job[j].pvc)
             d == theDeployName(Storage(j), Backup(j), m)
             pod == [deploy |-> d, id |-> deployments[d].id]
             q == [job[j] EXCEPT !.pc = "check", !.execPod = pod]
             e == Returned(job[j], "error")
  <2>1. job[j].pc = "acquire"
    BY <1>0, <1>3 DEF LocalStep, Jumps, Lists, Enters, Finds, Deploys, Loops, Turns,
       Picks, Acquires, Saves, Returns, Cleans, Advances, Vanishes
  <2>2. /\ Becomes(j, IF deployments[d] # Nil /\ m.found THEN q ELSE e)
        /\ deployments' = deployments
    BY <2>1, ActionAt, NoFault, Zenon DEF filterRunningPod, LocalOnly
  <2>3. e.pc = "clean"
    BY <1>0, ReturnedFacts DEF Outcomes
  <2>4. q.execPod = pod
    <3> HIDE DEF pod
    <3> QED BY <1>0 DEF JobState
  <2>5. pod.deploy = d /\ pod.id = deployments[d].id
    BY DEF pod
  <2> HIDE DEF q, e, d, m, pod
  <2>6. deployments[d] # Nil /\ job'[j] = q
    BY <1>0, <1>3, <2>2, <2>3 DEF Becomes
  <2>7. Running(job[j].execPod)'
    BY <2>2, <2>4, <2>5, <2>6 DEF Running
  <2> QED BY <1>3, <2>7 DEF ToolInv
<1>4. CASE job'[j].pc \in {"init", "backup"}
  <2>1. Jumps(job[j], job'[j])
    BY <1>0, <1>4 DEF LocalStep, Lists, Enters, Finds, Deploys, Loops, Turns,
       Picks, Acquires, Saves, Returns, Cleans, Advances, Vanishes
  <2>2. /\ job[j].pc \in {"check", "init"} /\ job'[j].execPod = job[j].execPod
        /\ job'[j].arg = job[j].arg
    BY <1>4, <2>1 DEF Jumps, Same, Fields
  <2>3. deployments' = deployments
    BY <2>2, HelperEffect DEF CanDeploy
  <2>4. Contended(j, job[j].arg) \/ Running(job[j].execPod)
    BY <2>2 DEF ToolInv, InHelper
  <2>5. CASE Running(job[j].execPod)
    BY <1>4, <2>2, <2>3, <2>5 DEF ToolInv, Running
  <2>6. CASE Contended(j, job[j].arg)
    <3>1. Contended(j, job[j].arg)'
      BY <2>2, <2>6 DEF Contended
    <3> QED BY <3>1 DEF ToolInv
  <2> QED BY <2>4, <2>5, <2>6
<1>5. CASE job'[j].pc \notin {"findExec", "acquire"} \cup InHelper
  BY <1>5 DEF ToolInv
<1> QED BY <1>1, <1>2, <1>3, <1>4, <1>5 DEF InHelper

\* No other process touches a helper of the name of a Backup that only this one
\* has: neither one it creates nor one it deletes by a remembered name.
LEMMA OthersKeep ==
  ASSUME TypeInv, ScopeInv, TellApart, NEW j \in Jobs, NEW k \in Jobs \ {j},
         JobStep(k) \/ Kill(k), ~Contended(j, job[j].arg), NEW d \in NamesOf(Backup(j))
  PROVE  deployments'[d] = deployments[d]
<1>0. /\ deployments \in [DeployName -> Deployment \cup {Nil}]
      /\ job[k] \in JobState /\ d \in DeployName
  BY Hand DEF Shared, NamesOf
<1>1. ASSUME NEW b \in Range(Args[k]) PROVE d \notin NamesOf(b)
  <2>1. Specs[b].name # Specs[Backup(j)].name
    BY DEF Contended, Backup
  <2>2. b \in Backups /\ Backup(j) \in Backups
    BY Hand, ArgTypes DEF Range
  <2> QED BY <2>1, <2>2, OneName
<1>2. CASE Adds(k)
  <2>1. PICK x \in NamesOf(Backup(k)), y \in Deployment :
          deployments' = [deployments EXCEPT ![x] = y]
    BY <1>2 DEF Adds
  <2>2. Backup(k) \in Range(Args[k])
    BY Hand, ArgTypes DEF Backup, StageInv, Range
  <2>3. x # d
    BY <1>1, <2>1, <2>2
  <2> QED BY <1>0, <2>1, <2>3
<1>3. CASE Removes(k)
  <2>1. job[k].cleaning \in Seq(Range(DeployKinds)) /\ job[k].cleaning # <<>>
    BY <1>0, <1>3 DEF JobState, Removes
  <2> DEFINE c == Head(job[k].cleaning)
             x == job[k].deployNames[c]
  <2>2. c \in Range(DeployKinds)
    BY <2>1, TailFacts
  <2>3. x # Nil /\ deployments' = [deployments EXCEPT ![x] = Nil]
    BY <1>3 DEF Removes
  <2> HIDE DEF c
  <2>4. PICK i \in 1 .. job[k].arg : x \in NamesOf(Args[k][i])
    BY <2>2, <2>3 DEF ScopeInv, NamesInv
  <2> HIDE DEF x
  <2>5. Args[k][i] \in Range(Args[k])
    <3>1. job[k].arg \in 1 .. Len(Args[k])
      BY Hand DEF StageInv
    <3>2. i \in 1 .. Len(Args[k])
      BY <3>1, <2>4, ArgTypes
    <3> QED BY <3>2, ArgTypes DEF Range
  <2>6. x # d
    BY <1>1, <2>4, <2>5
  <2> QED BY <1>0, <2>3, <2>6
<1> QED BY <1>2, <1>3, HelperEffect

\* ToolInv, for the other processes.
LEMMA ToolOther ==
  ASSUME TypeInv, ScopeInv, TellApart, NEW j \in Jobs, NEW k \in Jobs \ {j},
         JobStep(k) \/ Kill(k), ToolInv(j), job'[j] = job[j]
  PROVE  ToolInv(j)'
<1>0. /\ Backup(j)' = Backup(j) /\ Storage(j)' = Storage(j)
      /\ \A c : MetaOf(j, c)' = MetaOf(j, c)
      /\ Backup(j) \in Backups
  BY Hand DEF Backup, Storage, MetaOf
<1>1. CASE Contended(j, job[j].arg)
  <2>1. Contended(j, job[j].arg)'
    BY <1>1 DEF Contended
  <2> QED BY <2>1 DEF ToolInv
<1>2. CASE ~Contended(j, job[j].arg)
  <2>1. ASSUME job[j].pc = "findExec"
        PROVE  deployments'[theDeployName("findpvdir", Backup(j),
                                          MetaOf(j, Head(job[j].claims)))] # Nil
    <3> DEFINE m == MetaOf(j, Head(job[j].claims))
               d == theDeployName("findpvdir", Backup(j), m)
    <3>1. m.node \in Nodes \cup {Nil}
      <4>1. job[j].claims \in Seq(AllClaims) /\ job[j].claims # <<>>
        BY <2>1, Hand, FieldTypes DEF StageInv
      <4> QED BY <4>1, TailFacts, MetaFacts
    <3>2. d \in NamesOf(Backup(j))
      <4> HIDE DEF m
      <4> QED BY <1>0, <3>1, Kinds, NameFacts
    <3>3. deployments[d] # Nil
      BY <1>2, <2>1 DEF ToolInv
    <3> HIDE DEF d
    <3>4. deployments'[d] = deployments[d]
      BY <1>2, <3>2, OthersKeep
    <3>5. deployments'[d] # Nil
      BY <3>3, <3>4
    <3> QED BY <3>5 DEF d
  <2>2. ASSUME job[j].pc = "acquire"
        PROVE  deployments'[theDeployName(Storage(j), Backup(j),
                                          MetaOf(j, job[j].pvc))] # Nil
    <3> DEFINE m == MetaOf(j, job[j].pvc)
               d == theDeployName(Storage(j), Backup(j), m)
    <3>1. m.node \in Nodes /\ Storage(j) \in Range(DeployKinds)
      BY <2>2, ServingFacts DEF Serving
    <3>2. d \in NamesOf(Backup(j))
      <4> HIDE DEF m
      <4> QED BY <1>0, <3>1, NameFacts
    <3>3. deployments[d] # Nil
      BY <1>2, <2>2 DEF ToolInv
    <3> HIDE DEF d
    <3>4. deployments'[d] = deployments[d]
      BY <1>2, <3>2, OthersKeep
    <3>5. deployments'[d] # Nil
      BY <3>3, <3>4
    <3> QED BY <3>5 DEF d
  <2>3. ASSUME job[j].pc \in InHelper PROVE Running(job[j].execPod)'
    <3> DEFINE d == job[j].execPod.deploy
    <3>1. Running(job[j].execPod)
      BY <1>2, <2>3 DEF ToolInv
    <3>2. /\ d = theDeployName(Storage(j), Backup(j), MetaOf(j, job[j].pvc))
          /\ MetaOf(j, job[j].pvc).node \in Nodes /\ Storage(j) \in Range(DeployKinds)
      BY <2>3, <3>1, ContentFacts, ServingFacts DEF Serving
    <3>3. d \in NamesOf(Backup(j))
      BY <1>0, <3>2, NameFacts
    <3> HIDE DEF d
    <3>4. deployments'[d] = deployments[d]
      BY <1>2, <3>3, OthersKeep
    <3> QED BY <3>1, <3>4 DEF Running, d
  <2> QED BY <1>0, <2>1, <2>2, <2>3 DEF ToolInv
<1> QED BY <1>1, <1>2

\* RaceInv, for the process that takes the step: CheckRepo has seen that the
\* repository is not there.
LEMMA RaceOwn ==
  ASSUME TypeInv, RepoInv, UNCHANGED faults, NEW j \in Jobs, JobStep(j), ToolInv(j)
  PROVE  RaceInv(j)'
<1>0. /\ LocalStep(j, job[j], job'[j]) /\ job[j] \in JobState
      /\ job \in [Jobs -> JobState]
  BY Hand, ProcessTakes DEF Takes
<1>1. CASE job'[j].pc = "init"
  <2> DEFINE z == Goto(job[j], "backup")
  <2>1. Jumps(job[j], job'[j])
    BY <1>0, <1>1 DEF LocalStep, Lists, Enters, Finds, Deploys, Loops, Turns,
       Picks, Acquires, Saves, Returns, Cleans, Advances, Vanishes
  <2>2. /\ job[j].pc = "check" /\ job'[j].arg = job[j].arg
        /\ job'[j].storages = job[j].storages
    BY <1>1, <2>1 DEF Jumps, Same, Fields
  <2>3. Repo(j)' = Repo(j)
    BY <2>2 DEF Repo, Backup, Storage
  <2>4. z.pc = "backup"
    BY <1>0, GotoFacts DEF Stages, Working, Looping, Serving, InHelper
  <2>5. ~Becomes(j, z)
    <3> HIDE DEF z
    <3> QED BY <1>0, <1>1, <2>4 DEF Becomes
  <2>6. /\ ~(Running(job[j].execPod) /\ Content(j).repo \in repos)
        /\ repos' = repos
    BY <2>2, <2>5, ActionAt, NoFault DEF CheckRepo, LocalOnly
  <2>7. CASE Contended(j, job[j].arg)
    <3>1. Contended(j, job[j].arg)'
      BY <2>2, <2>7 DEF Contended
    <3> QED BY <3>1 DEF RaceInv
  <2>8. CASE ~Contended(j, job[j].arg)
    <3>1. Running(job[j].execPod)
      BY <2>2, <2>8 DEF ToolInv, InHelper
    <3>2. Content(j).repo = Repo(j)
      BY <2>2, <3>1, ContentRepo DEF InHelper
    <3>3. Repo(j)' \notin repos'
      BY <2>3, <2>6, <3>1, <3>2
    <3> QED BY <3>3 DEF RaceInv
  <2> QED BY <2>7, <2>8
<1>2. CASE job'[j].pc # "init"
  BY <1>2 DEF RaceInv
<1> QED BY <1>1, <1>2

\* RaceInv, for the other processes: whoever initialises the repository between
\* the check and the initialisation has it configured, and this process has no
\* snapshot in it.
LEMMA RaceOther ==
  ASSUME TypeInv, RepoInv, ReadyInv, SnapshotsFaithful, NEW j \in Jobs,
         NEW k \in Jobs \ {j}, JobStep(k) \/ Kill(k), RaceInv(j), job'[j] = job[j]
  PROVE  RaceInv(j)'
<1> SUFFICES ASSUME job[j].pc = "init" PROVE RaceInv(j)'
  BY DEF RaceInv
<1>0. Repo(j)' = Repo(j) /\ (Contended(j, job[j].arg) => Contended(j, job[j].arg)')
  BY DEF Repo, Backup, Storage, Contended
<1>1. repos \subseteq repos'
  BY ReposEffect
<1>2. PICK a : a = job[j].arg
  OBVIOUS
<1>3. Raced(j, a)' => Raced(j, job[j].arg)'
  BY <1>2
<1>4. CASE Contended(j, job[j].arg)
  BY <1>0, <1>4 DEF RaceInv
<1>5. CASE Raced(j, job[j].arg)
  <2>1. Raced(j, a)'
    BY <1>1, <1>2, <1>5, RacedStays
  <2> QED BY <1>3, <2>1 DEF RaceInv
<1>6. CASE Repo(j) \notin repos
  <2>1. CASE Repo(j) \notin repos'
    BY <1>0, <2>1 DEF RaceInv
  <2>2. CASE Repo(j) \in repos'
    <3> DEFINE s == Storage(j)
    <3>1. /\ job[k].pc = "init" /\ Repo(k) = Repo(j)
      BY <1>6, <2>2, ReposEffect
    <3>2. /\ Repo(k) \in Range(Specs[Backup(k)].backupTo)
          /\ Backup(k) \in Range(Args[k])
      <4>1. Storage(k) \in DOMAIN Specs[Backup(k)].backupTo
        BY <3>1, ServingFacts DEF Serving, InHelper
      <4>2. Backup(k) \in Range(Args[k])
        BY Hand, ArgTypes DEF Backup, StageInv, Range
      <4> QED BY <4>1, <4>2 DEF Repo, Range
    <3>3. /\ s \in DOMAIN Specs[Args[j][a]].backupTo
          /\ Specs[Args[j][a]].backupTo[s] = Repo(j)
      BY <1>2, ServingFacts DEF Serving, InHelper, Repo, Backup
    <3>4. ASSUME NEW t \in job[j].taken, t.arg = a, t.storage = s PROVE FALSE
      <4>1. t.repo = Specs[Args[j][t.arg]].backupTo[t.storage]
        BY DEF SnapshotsFaithful
      <4>2. t.repo \in repos
        BY DEF ReadyInv
      <4> HIDE DEF s
      <4> QED BY <1>6, <3>3, <3>4, <4>1, <4>2
    <3>5. PICK x : x = s
      OBVIOUS
    <3> HIDE DEF s
    <3>6. /\ Specs[Args[j][a]].backupTo[x] \in repos'
          /\ ~\E t \in job'[j].taken : t.arg = a /\ t.storage = x
          /\ \E i \in Jobs \ {j} : \E b \in Range(Args[i]) :
               Specs[Args[j][a]].backupTo[x] \in Range(Specs[b].backupTo)
      BY <2>2, <3>1, <3>2, <3>3, <3>4, <3>5
    <3>7. Raced(j, a)'
      BY <3>3, <3>5, <3>6 DEF Raced
    <3> QED BY <1>3, <3>7 DEF RaceInv
  <2> QED BY <2>1, <2>2
<1> QED BY <1>4, <1>5, <1>6 DEF RaceInv

\* OutcomeInv, for the other processes.
LEMMA OutcomeOther ==
  ASSUME TypeInv, RepoInv, NEW j \in Jobs, NEW k \in Jobs \ {j}, JobStep(k) \/ Kill(k),
         OutcomeInv(j), job'[j] = job[j]
  PROVE  OutcomeInv(j)'
<1>1. repos \subseteq repos'
  BY ReposEffect
<1>2. ASSUME NEW i \in 1 .. Len(job'[j].results)
      PROVE  job'[j].results[i] = "ok" \/ Contended(j, i) \/ LostRace(j, i)'
  <2>1. LostRace(j, i) => LostRace(j, i)'
    BY <1>1, RacedStays DEF LostRace
  <2> QED BY <2>1 DEF OutcomeInv
<1> QED BY <1>2 DEF OutcomeInv, Contended

\* What the proof needs of the other invariants.
Context == TypeInv /\ ScopeInv /\ RepoInv /\ SnapshotsFaithful /\ ReadyInv

\* FaultFreeInv is inductive: a fault or a move makes it trivial, for good.
LEMMA FaultFreeStep ==
  ASSUME TellApart, Feasible
  PROVE  Context /\ FaultFreeInv /\ [Next]_vars => FaultFreeInv'
<1> SUFFICES ASSUME Context, FaultFreeInv, [Next]_vars, Calm' PROVE FaultFreeInv'
  BY DEF FaultFreeInv
<1> USE DEF Context
<1>0. faults \in Nat /\ moves \in Nat
  BY BoundsAssumption DEF TypeInv, TypeOK
<1>1. ASSUME NEW k \in Jobs, JobStep(k) \/ Kill(k) PROVE FaultFreeInv'
  <2>1. moves' = moves /\ placement' = placement
    <3>1. CASE InitRepo(k) \/ Clean(k) \/ Kill(k)
      BY <3>1 DEF InitRepo, Clean, Kill, Fails, LocalOnly
    <3>2. CASE \/ Findpvdir(k) \/ createBackup2nfsDeployment(k)
               \/ createBackup2minioDepoyment(k) \/ createBackup2sftpDeployment(k)
      BY <3>2 DEF Findpvdir, createBackup2nfsDeployment,
         createBackup2minioDepoyment, createBackup2sftpDeployment, Deploy, Fails,
         MakeBucketFails, MakeDirOnSftpFails, LocalOnly
    <3>3. CASE \/ Start(k) \/ List(k) \/ Prepare(k) \/ Prepared(k) \/ FindExec(k)
               \/ NextStorage(k) \/ PickClaim(k) \/ filterRunningPod(k)
      BY <3>3 DEF Start, List, Prepare, Prepared, FindExec, NextStorage, PickClaim,
         filterRunningPod, Fails, LocalOnly
    <3>4. CASE CheckRepo(k) \/ ResticBackup(k) \/ NextArg(k)
      BY <3>4 DEF CheckRepo, ResticBackup, NextArg, Fails, LocalOnly
    <3> QED BY <1>1, <3>1, <3>2, <3>3, <3>4 DEF JobStep
  <2>2. faults' = faults \/ faults' = faults + 1
    <3>1. CASE InitRepo(k) \/ Clean(k) \/ Kill(k)
      BY <3>1 DEF InitRepo, Clean, Kill, Fails, Fault
    <3>2. CASE \/ Findpvdir(k) \/ createBackup2nfsDeployment(k)
               \/ createBackup2minioDepoyment(k) \/ createBackup2sftpDeployment(k)
      BY <3>2 DEF Findpvdir, createBackup2nfsDeployment,
         createBackup2minioDepoyment, createBackup2sftpDeployment, Deploy, Fails,
         MakeBucketFails, MakeDirOnSftpFails, Fault
    <3>3. CASE \/ Start(k) \/ List(k) \/ Prepare(k) \/ Prepared(k) \/ FindExec(k)
               \/ NextStorage(k) \/ PickClaim(k) \/ filterRunningPod(k)
      BY <3>3 DEF Start, List, Prepare, Prepared, FindExec, NextStorage, PickClaim,
         filterRunningPod, Fails, Fault
    <3>4. CASE CheckRepo(k) \/ ResticBackup(k) \/ NextArg(k)
      BY <3>4 DEF CheckRepo, ResticBackup, NextArg, Fails, Fault
    <3> QED BY <1>1, <3>1, <3>2, <3>3, <3>4 DEF JobStep
  <2>3. UNCHANGED faults /\ Calm
    BY <1>0, <2>1, <2>2 DEF Calm
  <2>4. JobStep(k) /\ HomeInv /\ HomeInv'
    <3>1. ~Kill(k)
      BY <2>3, NoFault
    <3> QED BY <1>1, <2>1, <2>3, <3>1 DEF FaultFreeInv, HomeInv
  <2>5. \A j \in Jobs : j # k => job'[j] = job[j]
    BY <1>1, ProcessTakes, TakesOne
  <2>6. \A j \in Jobs : SearchInv(j, job[j]) /\ ToolInv(j) /\ RaceInv(j) /\ OutcomeInv(j)
    BY <2>3 DEF FaultFreeInv
  <2>7. SearchInv(k, job'[k]) /\ ToolInv(k)' /\ RaceInv(k)' /\ OutcomeInv(k)'
    BY <2>3, <2>4, <2>6, SearchCalm, ToolOwn, RaceOwn, OutcomeOwn
  <2>8. ASSUME NEW j \in Jobs, j # k
        PROVE  SearchInv(j, job'[j]) /\ ToolInv(j)' /\ RaceInv(j)' /\ OutcomeInv(j)'
    <3>1. /\ job'[j] = job[j] /\ k \in Jobs \ {j}
          /\ SearchInv(j, job[j]) /\ ToolInv(j) /\ RaceInv(j) /\ OutcomeInv(j)
      BY <2>5, <2>6, <2>8
    <3>2. ToolInv(j)'
      BY <1>1, <3>1, ToolOther
    <3>3. RaceInv(j)'
      BY <1>1, <3>1, RaceOther
    <3>4. OutcomeInv(j)'
      BY <1>1, <3>1, OutcomeOther
    <3> QED BY <3>1, <3>2, <3>3, <3>4
  <2> QED BY <2>4, <2>7, <2>8 DEF FaultFreeInv
<1>2. CASE \E p \in Pods : Reschedule(p)
  <2>1. moves' = moves + 1
    BY <1>2 DEF Reschedule
  <2> QED BY <1>0, <2>1 DEF Calm
<1>3. CASE UNCHANGED vars
  <2>1. /\ job' = job /\ deployments' = deployments /\ repos' = repos
        /\ placement' = placement /\ Calm
    BY <1>3 DEF vars, Calm
  <2>2. HomeInv'
    BY <2>1 DEF FaultFreeInv, HomeInv
  <2>3. ASSUME NEW j \in Jobs
        PROVE  SearchInv(j, job'[j]) /\ ToolInv(j)' /\ RaceInv(j)' /\ OutcomeInv(j)'
    <3>1. SearchInv(j, job[j]) /\ ToolInv(j) /\ RaceInv(j) /\ OutcomeInv(j)
      BY <2>1 DEF FaultFreeInv
    <3>2. ToolInv(j)'
      BY <2>1, <3>1 DEF ToolInv, Contended, Backup, MetaOf, Storage, Running
    <3>3. RaceInv(j)'
      BY <2>1, <3>1 DEF RaceInv, Contended, Raced, Repo, Backup, Storage
    <3>4. OutcomeInv(j)'
      BY <2>1, <3>1 DEF OutcomeInv, Contended, LostRace, Raced
    <3> QED BY <2>1, <3>1, <3>2, <3>3, <3>4
  <2> QED BY <2>2, <2>3 DEF FaultFreeInv
<1> QED BY <1>1, <1>2, <1>3 DEF Next

\* The invariants hold at first.
LEMMA FaultFreeInit == Init => FaultFreeInv /\ ReadyInv
<1> SUFFICES ASSUME Init PROVE FaultFreeInv /\ ReadyInv
  OBVIOUS
<1>1. ASSUME NEW j \in Jobs
      PROVE  /\ job[j].pc = "idle" /\ job[j].taken = {} /\ job[j].results = <<>>
             /\ job[j] = Idle
  BY DEF Init, Idle
<1>2. HomeInv
  BY DEF Init, HomeInv
<1>3. ASSUME NEW j \in Jobs
      PROVE  SearchInv(j, job[j]) /\ ToolInv(j) /\ RaceInv(j) /\ OutcomeInv(j)
  BY <1>1 DEF SearchInv, ToolInv, RaceInv, OutcomeInv, Searching, Looping, Serving,
     InHelper
<1> QED BY <1>1, <1>2, <1>3 DEF FaultFreeInv, ReadyInv

\* FaultFreeInv holds throughout, and so does ReadyInv, whatever fails: Do asks
\* restic for a snapshot only in a repository that was initialised.
LEMMA FaultFreeInvariant ==
  ASSUME NamesTell, TellApart, Feasible
  PROVE  Spec => [](FaultFreeInv /\ ReadyInv)
<1>1. Init => RepoInv /\ SnapshotsFaithful
  <2> SUFFICES ASSUME Init PROVE RepoInv /\ SnapshotsFaithful
    OBVIOUS
  <2>1. RepoInv
    BY DEF Init, RepoInv
  <2>2. \A j \in Jobs : job[j] = Idle /\ Idle.taken = {}
    BY DEF Init, Idle
  <2> QED BY <2>1, <2>2 DEF SnapshotsFaithful
<1>2. TypeInv /\ RepoInv /\ SnapshotsFaithful /\ [Next]_vars =>
        RepoInv' /\ SnapshotsFaithful'
  BY FaithfulStep
<1>3. TypeInv /\ RepoInv /\ ReadyInv /\ [Next]_vars => ReadyInv'
  BY ReadyStep
<1>4. /\ TypeInv /\ ScopeInv /\ RepoInv /\ SnapshotsFaithful /\ ReadyInv
      /\ FaultFreeInv /\ [Next]_vars
      => FaultFreeInv'
  BY FaultFreeStep DEF Context
<1> QED BY <1>1, <1>2, <1>3, <1>4, FaultFreeInit, TypeInvariant,
           ScopeInvariant, PTL DEF Spec

\* NoFailureWithoutFault, for any number of processes, Backups and storages: if
\* no call fails and no pod moves, Do returns nil for every Backup that no other
\* process has one of the name of, unless its own "restic init" is refused:
\* another process initialised a shared repository since "restic list keys"
\* (executeBackupCommand).  What other processes create, replace and delete in
\* the common namespace does it no harm.  The hypotheses are needed: the code
\* cannot carry out an infeasible Backup, and Backups get each other's helpers
\* if they have one name, or if theirs and their nodes' join to one.
THEOREM FaultFreeTheorem ==
  ASSUME NamesTell, TellApart, Feasible
  PROVE  Spec => []NoFailureWithoutFault
<1>1. TypeInv /\ FaultFreeInv => NoFailureWithoutFault
  <2> SUFFICES ASSUME TypeInv, FaultFreeInv, Calm, NEW j \in Jobs,
                      NEW i \in DOMAIN job[j].results
               PROVE  job[j].results[i] = "ok" \/ Contended(j, i) \/ LostRace(j, i)
    BY Zenon DEF NoFailureWithoutFault, Calm
  <2>1. job[j].results \in Seq(Outcomes)
    BY Hand, FieldTypes
  <2>2. i \in 1 .. Len(job[j].results)
    BY <2>1
  <2> QED BY <2>2 DEF FaultFreeInv, OutcomeInv
<1> QED BY <1>1, FaultFreeInvariant, TypeInvariant, PTL

\* No two processes have Backups of one name, or a repository in common.
Apart ==
  \A j \in Jobs : \A k \in Jobs \ {j} :
    \A a \in Range(Args[j]) : \A b \in Range(Args[k]) :
      /\ Specs[a].name # Specs[b].name
      /\ Range(Specs[a].backupTo) \cap Range(Specs[b].backupTo) = {}

\* Processes that are apart do not disturb each other at all, although they
\* work in one namespace: if no call fails and no pod moves, Do returns nil for
\* every Backup of every process, however their steps interleave.  TellApart is
\* needed: Backups of different names may give their helpers one name.
THEOREM ApartRunsSucceed ==
  ASSUME NamesTell, TellApart, Feasible, Apart
  PROVE  Spec => [](Calm => \A j \in Jobs : \A i \in DOMAIN job[j].results :
                              job[j].results[i] = "ok")
<1> DEFINE Goal == Calm => \A j \in Jobs : \A i \in DOMAIN job[j].results :
                             job[j].results[i] = "ok"
<1>1. TypeInv /\ FaultFreeInv => Goal
  <2> SUFFICES ASSUME TypeInv, FaultFreeInv, Calm, NEW j \in Jobs,
                      NEW i \in DOMAIN job[j].results
               PROVE  job[j].results[i] = "ok"
    BY Zenon
  <2>1. Args[j][i] \in Range(Args[j])
    <3>1. job[j].results \in Seq(Outcomes)
      BY Hand, FieldTypes
    <3>2. i \in 1 .. Len(job[j].results) /\ Len(job[j].results) <= Len(Args[j])
      BY <3>1 DEF FaultFreeInv, OutcomeInv
    <3>3. Args[j] \in Seq(Backups)
      BY ArgsAssumption
    <3> QED BY <3>1, <3>2, <3>3 DEF Range
  <2>2. ~Contended(j, i)
    BY <2>1 DEF Contended, Apart
  <2>3. ~LostRace(j, i)
    <3> SUFFICES ASSUME LostRace(j, i) PROVE FALSE
      OBVIOUS
    <3>1. PICK s \in DOMAIN Specs[Args[j][i]].backupTo :
            \E k \in Jobs \ {j} : \E b \in Range(Args[k]) :
              Specs[Args[j][i]].backupTo[s] \in Range(Specs[b].backupTo)
      BY DEF LostRace, Raced
    <3>2. Specs[Args[j][i]].backupTo[s] \in Range(Specs[Args[j][i]].backupTo)
      BY DEF Range
    <3> QED BY <2>1, <3>1, <3>2 DEF Apart
  <2>4. i \in 1 .. Len(job[j].results)
    BY Hand, FieldTypes
  <2> QED BY <2>2, <2>3, <2>4 DEF FaultFreeInv, OutcomeInv
<1> QED BY <1>1, FaultFreeInvariant, TypeInvariant, PTL
=============================================================================
