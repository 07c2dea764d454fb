-------------------------- MODULE BackupJobProofs ---------------------------
(* Theorems about BackupJob, for every set of processes, Backups, pods,    *)
(* claims and nodes and any number of failures and moves.                  *)
(*                                                                         *)
(* Most of what has to be known about a process is a property of its own   *)
(* state.  The invariants are therefore predicates of a process and its    *)
(* record, and each action is shown to make a record that has them.        *)
EXTENDS BackupJob, FiniteSetTheorems, TLAPS

\* Where a process is in Do.
Searching == {"prepare", "find", "findExec"}
InHelper == {"check", "init", "backup"}
Serving == {"deploy", "acquire"} \cup InHelper
Looping == {"choose"} \cup Serving
Working == {"list"} \cup Searching \cup Looping

BackupKinds == {"nfs", "minio", "sftp"}

\* The Backup in hand, the entries of its map, and the claims it should have.
InHand(j, r) == Args[j][r.arg]
Found(r) == {c \in AllClaims : r.pvcpvMap[c] # Nil}
Wanted(b) == UNION {Range(Claims[p]) : p \in Range(Specs[b].pods)}

\* The nodes on which the target's pods may be found.
TargetNodes(b) ==
  IF MaxMoves = 0 THEN {FirstNode[p] : p \in Range(Specs[b].pods)} ELSE Nodes

\* The claim a helper is named for, and its metadata.
Subject(r) == IF r.pc = "find" THEN Head(r.claims) ELSE r.pvc
MetaIn(r, c) == IF r.pvcpvMap[c] = Nil THEN ZeroMeta ELSE r.pvcpvMap[c]

\* The kind of helper a process is about to create.
KindIn(r) == IF r.pc = "find" THEN "findpvdir" ELSE r.storages[1]

Distinct(q) == \A m, n \in 1 .. Len(q) : q[m] = q[n] => m = n

Fields == {"pc", "arg", "pods", "claims", "pvcpvMap", "storages", "todo", "pvc",
           "execPod", "deployNames", "cleaning", "taken", "results"}

\* Record q differs from r in the fields F at most.
Same(r, q, F) == \A f \in Fields \ F : q[f] = r[f]

\* The fields that are local to one call of Do.
LoopFields == {"pods", "claims", "pvcpvMap", "storages", "todo", "pvc",
               "execPod"}

-----------------------------------------------------------------------------
(* What the steps of a process do to its record, one relation for each     *)
(* kind of step.                                                           *)

\* The next command, in the same circumstances.
Jumps(r, q) ==
  /\ <<r.pc, q.pc>> \in {<<"idle", "list">>, <<"find", "prepare">>,
                         <<"check", "init">>, <<"check", "backup">>,
                         <<"init", "backup">>, <<"clean", "done">>}
  /\ r.pc = "clean" => r.cleaning = <<>>
  /\ r.pc = "find" => r.claims = <<>>
  /\ Same(r, q, {"pc"})

Lists(j, r, q) ==
  /\ r.pc = "list" /\ q.pc = "prepare"
  /\ Len(q.pods) = Len(Specs[InHand(j, r)].pods)
  /\ \A m \in 1 .. Len(q.pods) :
       /\ q.pods[m].pod = Specs[InHand(j, r)].pods[m]
       /\ q.pods[m].node \in TargetNodes(InHand(j, r))
  /\ Found(q) = {}
  /\ Same(r, q, {"pc", "pods", "pvcpvMap"})

\* The claims of the next pod enter the map, but for those whose lookup fails.
Enters(j, r, q) ==
  /\ r.pc = "prepare" /\ q.pc = "find"
  /\ r.pods # <<>> /\ q.pods = Tail(r.pods)
  /\ q.claims = Claims[r.pods[1].pod]
  /\ \A c \in Found(q) :
       \/ q.pvcpvMap[c].node = r.pods[1].node
       \/ c \in Found(r) /\ q.pvcpvMap[c].node = r.pvcpvMap[c].node
  /\ Found(r) \subseteq Found(q)
  /\ Found(q) \subseteq Found(r) \cup Range(Claims[r.pods[1].pod])
  /\ "lookup" \notin Faults => Range(Claims[r.pods[1].pod]) \subseteq Found(q)
  /\ Same(r, q, {"pc", "pods", "claims", "pvcpvMap"})

\* A directory is noted in an entry of the map, or not.
Finds(r, q) ==
  /\ r.pc = "findExec" /\ q.pc = "find"
  /\ r.claims # <<>> /\ q.claims = Tail(r.claims)
  /\ Found(q) = Found(r)
  /\ \A c \in Found(r) : q.pvcpvMap[c].node = r.pvcpvMap[c].node
  /\ Same(r, q, {"pc", "claims", "pvcpvMap"})

\* The process is at the creation of a helper.
CanDeploy(r) == r.pc = "deploy" \/ (r.pc = "find" /\ r.claims # <<>>)

\* The name of a helper for the Backup in hand is remembered.
Remembers(j, r, q) ==
  \E d \in NamesOf(InHand(j, r)) :
    /\ d.rest = Joined(MetaIn(r, Subject(r)).node, Specs[InHand(j, r)].name)
    /\ d.kind = KindIn(r)
    /\ q.deployNames = [r.deployNames EXCEPT ![d.kind] = d]

Deploys(j, r, q) ==
  /\ \/ r.pc = "find" /\ q.pc = "findExec" /\ r.claims # <<>>
     \/ r.pc = "deploy" /\ q.pc = "acquire"
  /\ Remembers(j, r, q)
  /\ Same(r, q, {"pc", "deployNames"})

\* The loops over the storages and the map begin.
Loops(j, r, q) ==
  /\ r.pc = "prepare" /\ q.pc = "choose"
  /\ r.pods = <<>> /\ Found(r) # {}
  /\ q.todo = Found(r) /\ q.storages = parseStorage(InHand(j, r))
  /\ Same(r, q, {"pc", "todo", "storages"})

\* The next storage.
Turns(r, q) ==
  /\ r.pc = "choose" /\ q.pc = "choose"
  /\ Len(r.storages) > 1 /\ r.todo = {}
  /\ q.storages = Tail(r.storages) /\ q.todo = Found(r)
  /\ Same(r, q, {"todo", "storages"})

\* The next entry.
Picks(r, q) ==
  /\ r.pc = "choose" /\ q.pc = "deploy"
  /\ r.storages # <<>> /\ r.storages[1] \in BackupKinds
  /\ q.pvc \in r.todo /\ q.todo = r.todo \ {q.pvc}
  /\ Same(r, q, {"pc", "pvc", "todo"})

Acquires(j, r, q) ==
  /\ r.pc = "acquire" /\ q.pc = "check"
  /\ q.execPod \in HelperPod
  /\ q.execPod.deploy =
       theDeployName(r.storages[1], InHand(j, r), r.pvcpvMap[r.pvc])
  /\ Same(r, q, {"pc", "execPod"})

\* The snapshots of the entry and the storage in hand.
Earlier(r) ==
  {u \in r.taken : u.arg = r.arg /\ u.pvc = r.pvc /\ u.storage = r.storages[1]}

\* A snapshot of the entry in hand.
Saves(r, q) ==
  /\ r.pc = "backup" /\ q.pc = "choose"
  /\ \E t \in q.taken :
       /\ t.arg = r.arg /\ t.pvc = r.pvc /\ t.storage = r.storages[1]
       /\ t.nth = 1 + Cardinality(Earlier(r))
       /\ q.taken = r.taken \cup {t}
  /\ Same(r, q, {"pc", "execPod", "taken"})

\* Do returns or panics.  It returns nil only after the last entry of the last
\* storage.
Returns(j, r, q) ==
  /\ r.pc \in Working /\ q.pc = "clean"
  /\ \E outcome \in Outcomes :
       /\ q.results = Append(r.results, outcome)
       /\ outcome = "ok" => /\ r.pc = "choose" /\ Len(r.storages) <= 1
                            /\ r.storages = <<>> \/ r.todo = {}
  /\ \/ q.deployNames = r.deployNames
     \/ CanDeploy(r) /\ Remembers(j, r, q)
  /\ q.cleaning = DeployKinds
  /\ Same(r, q, LoopFields \cup {"pc", "deployNames", "cleaning", "results"})

Cleans(r, q) ==
  /\ r.pc = "clean" /\ q.pc = "clean"
  /\ r.cleaning # <<>> /\ q.cleaning = Tail(r.cleaning)
  /\ Same(r, q, {"cleaning"})

\* The next argument.
Advances(j, r, q) ==
  /\ r.pc = "clean" /\ q.pc = "list"
  /\ r.cleaning = <<>>
  /\ q.arg = r.arg + 1 /\ q.arg <= Len(Args[j])
  /\ Same(r, q, {"pc", "arg"})

\* The process is gone.
Vanishes(r, q) ==
  /\ r.pc \notin {"idle", "done"} /\ q.pc = "done"
  /\ \E outcome \in {"exit", "killed"} : q.results = Append(r.results, outcome)
  /\ Same(r, q, LoopFields \cup {"pc", "cleaning", "results"})

LocalStep(j, r, q) ==
  \/ Jumps(r, q) \/ Lists(j, r, q) \/ Enters(j, r, q) \/ Finds(r, q)
  \/ Deploys(j, r, q) \/ Loops(j, r, q) \/ Turns(r, q) \/ Picks(r, q)
  \/ Acquires(j, r, q) \/ Saves(r, q) \/ Returns(j, r, q) \/ Cleans(r, q)
  \/ Advances(j, r, q) \/ Vanishes(r, q)

-----------------------------------------------------------------------------
(* Invariants.                                                             *)

\* What the stage says of the loops of Do: the claim, the entry, the storage
\* and the helper pod that the code dereferences are there.
StageInv(j, r) ==
  /\ r.arg \in 1 .. Len(Args[j])
  /\ r.pc = "findExec" => r.claims # <<>>
  /\ r.pc \in Looping => r.todo \subseteq Found(r)
  /\ r.pc \in Serving => /\ r.storages # <<>>
                         /\ r.storages[1] \in BackupKinds
                         /\ r.pvc \in Found(r) \ r.todo
  /\ r.pc \in InHelper =>
       /\ r.execPod \in HelperPod
       /\ r.execPod.deploy =
            theDeployName(r.storages[1], InHand(j, r), r.pvcpvMap[r.pvc])

\* The storages still to serve are configured, and each is served once.
StorageInv(j, r) ==
  r.pc \in Looping =>
    /\ Distinct(r.storages)
    /\ Range(r.storages) \subseteq DOMAIN Specs[InHand(j, r)].backupTo

\* Every argument before the one in hand has an outcome.
ResultInv(j, r) ==
  /\ r.pc \in Working \cup {"idle"} => Len(r.results) = r.arg - 1
  /\ r.pc = "clean" => Len(r.results) = r.arg

LocalInv(j, r) == StageInv(j, r) /\ StorageInv(j, r) /\ ResultInv(j, r)

\* The node of a Deployment is part of its name, and one for a storage has a node
\* and a repository.
HelperInv ==
  \A d \in DeployName : deployments[d] # Nil =>
    /\ \E name \in BackupNames :
         d.rest = Joined(deployments[d].content.node, name)
    /\ d.kind \in BackupKinds => /\ deployments[d].content.repo \in Repos
                                 /\ deployments[d].content.node \in Nodes

\* Without moves, the target's pods stay where they were.
PlacementInv == \A p \in Pods : moves = 0 => placement[p].node = FirstNode[p]

\* A snapshot of the argument in hand is of a storage that is not served any
\* more, or of an entry that the loop has passed.
OnceInv(j, r) ==
  \A t \in r.taken :
    /\ t.nth = 1
    /\ t.arg \in 1 .. r.arg
    /\ t.arg = r.arg =>
         /\ r.pc \notin {"idle", "list"} \cup Searching
         /\ r.pc \in Looping =>
              /\ \A m \in 2 .. Len(r.storages) : t.storage # r.storages[m]
              /\ r.storages # <<>> /\ t.storage = r.storages[1] =>
                   /\ t.pvc \notin r.todo
                   /\ r.pc \in Serving => t.pvc # r.pvc

\* The inductive invariant for types, and for AtMostOnce.
TypeInv ==
  /\ TypeOK
  /\ \A j \in Jobs : LocalInv(j, job[j]) /\ OnceInv(j, job[j])
  /\ HelperInv
  /\ PlacementInv

SavedIn(r, i, c, s) ==
  \E t \in r.taken : t.arg = i /\ t.pvc = c /\ t.storage = s

\* Entry c of the map is still to come for storage s.
Pending(r, c, s) ==
  \/ \E m \in 2 .. Len(r.storages) : r.storages[m] = s
  \/ /\ r.storages # <<>> /\ s = r.storages[1]
     /\ c \in r.todo \/ (r.pc \in Serving /\ c = r.pvc)

\* Every claim of the target is in the map, or of a pod still to come.
MapComplete(j, r) ==
  r.pc \in Searching => \A p \in Range(Specs[InHand(j, r)].pods) :
    \/ \E m \in 1 .. Len(r.pods) : r.pods[m].pod = p
    \/ Range(Claims[p]) \subseteq Found(r)

\* Every entry of the map is saved in every storage, or still to come.
LoopComplete(j, r) ==
  r.pc \in Looping =>
    /\ Wanted(InHand(j, r)) \subseteq Found(r)
    /\ \A s \in DOMAIN Specs[InHand(j, r)].backupTo, c \in Found(r) :
         SavedIn(r, r.arg, c, s) \/ Pending(r, c, s)

\* A Backup that has succeeded is saved.
OkComplete(j, r) ==
  \A i \in 1 .. Len(r.results) : r.results[i] = "ok" =>
    \A s \in DOMAIN Specs[Args[j][i]].backupTo, c \in Wanted(Args[j][i]) :
      SavedIn(r, i, c, s)

CompleteInv(j, r) == MapComplete(j, r) /\ LoopComplete(j, r) /\ OkComplete(j, r)

\* Only what the target mounts enters the map and is saved.
NothingElseInv(j, r) ==
  /\ r.pc \in Searching => \A m \in 1 .. Len(r.pods) :
       r.pods[m].pod \in Range(Specs[InHand(j, r)].pods)
  /\ r.pc \in Searching \cup Looping => Found(r) \subseteq Wanted(InHand(j, r))
  /\ \A t \in r.taken :
       /\ t.pvc \in Wanted(Args[j][t.arg])
       /\ t.storage \in DOMAIN Specs[Args[j][t.arg]].backupTo

\* The names a process remembers are of Backups it has had in hand.
NamesInv(j, r) ==
  \A k \in Range(DeployKinds) : r.deployNames[k] # Nil =>
    \E i \in 1 .. r.arg : r.deployNames[k] \in NamesOf(Args[j][i])

-----------------------------------------------------------------------------
(* Lemmas about the operators the model is built from.                     *)

\* The kinds of helpers.
LEMMA Kinds ==
  /\ Range(DeployKinds) = {"findpvdir"} \cup BackupKinds
  /\ DeployKinds \in Seq(Range(DeployKinds))
  /\ BackupKinds \subseteq StorageFields
BY DEF DeployKinds, Range, BackupKinds, StorageFields

\* The arguments are Backups.
LEMMA ArgTypes ==
  ASSUME NEW j \in Jobs
  PROVE  /\ Len(Args[j]) \in Nat /\ Len(Args[j]) # 0
         /\ DOMAIN Args[j] = 1 .. Len(Args[j])
         /\ \A i \in 1 .. Len(Args[j]) : Args[j][i] \in Backups
BY ArgsAssumption

\* What a Backup names is in the sets of pods, claims and repositories.
LEMMA SpecTypes ==
  ASSUME NEW b \in Backups
  PROVE  /\ Specs[b].pods \in Seq(Pods)
         /\ Specs[b].name \in BackupNames
         /\ \A s \in DOMAIN Specs[b].backupTo :
              s \in StorageFields /\ Specs[b].backupTo[s] \in Repos
<1>1. Specs[b].pods \in Seq(Pods) /\ Specs[b].name \in BackupNames
  BY SpecsAssumption DEF BackupNames
<1>2. ASSUME NEW s \in DOMAIN Specs[b].backupTo
      PROVE  s \in StorageFields /\ Specs[b].backupTo[s] \in Repos
  <2>1. Specs[b].backupTo[s] \in Range(Specs[b].backupTo)
    BY DEF Range
  <2> QED BY <2>1, SpecsAssumption DEF Repos
<1> QED BY <1>1, <1>2

\* The name of a helper is one of those its Backup's helpers may have.
LEMMA NameFacts ==
  ASSUME NEW kind \in Range(DeployKinds), NEW b \in Backups, NEW m,
         m.node \in Nodes \cup {Nil}
  PROVE  /\ theDeployName(kind, b, m) \in NamesOf(b)
         /\ theDeployName(kind, b, m) \in DeployName
         /\ theDeployName(kind, b, m).kind = kind
         /\ theDeployName(kind, b, m).rest = Joined(m.node, Specs[b].name)
<1> DEFINE rest == Joined(m.node, Specs[b].name)
           d == [kind |-> kind, rest |-> rest]
<1>1. rest \in {Joined(n, name) : n \in Nodes \cup {Nil}, name \in BackupNames}
  <2>1. Specs[b].name \in BackupNames
    BY SpecTypes
  <2>2. PICK n \in Nodes \cup {Nil} : n = m.node
    OBVIOUS
  <2>3. PICK name \in BackupNames : name = Specs[b].name
    BY <2>1
  <2>4. rest = Joined(n, name)
    BY <2>2, <2>3
  <2> HIDE DEF rest
  <2> QED BY <2>4
<1>2. \E n \in Nodes \cup {Nil} : rest = Joined(n, Specs[b].name)
  OBVIOUS
<1>3. theDeployName(kind, b, m) = d
  BY DEF theDeployName
<1> HIDE DEF rest
<1>4. d \in DeployName /\ d.kind = kind /\ d.rest = rest
  BY <1>1 DEF DeployName
<1> HIDE DEF d
<1>5. d \in NamesOf(b)
  BY <1>2, <1>4 DEF NamesOf
<1> QED BY <1>3, <1>4, <1>5 DEF rest

\* The claims of a pod.
LEMMA ClaimTypes ==
  ASSUME NEW p \in Pods
  PROVE  /\ Claims[p] \in Seq(AllClaims)
         /\ Range(Claims[p]) \subseteq AllClaims
BY ClaimsAssumption DEF Range, AllClaims

\* Taking the first element off a sequence.
LEMMA TailFacts ==
  ASSUME NEW S, NEW q \in Seq(S), q # <<>>
  PROVE  /\ Tail(q) \in Seq(S) /\ Head(q) \in S /\ Head(q) = q[1]
         /\ Len(q) \in Nat /\ Len(q) >= 1 /\ Len(Tail(q)) = Len(q) - 1
         /\ \A m \in 1 .. Len(Tail(q)) : m + 1 \in 1 .. Len(q) /\ Tail(q)[m] = q[m + 1]
OBVIOUS

\* q lists, without repetition, the members of D among those of S.
ListsOf(q, D, S) ==
  /\ q \in Seq(S) /\ Distinct(q)
  /\ Range(q) = D \cap S

\* One more field of BackupTo is examined.
LEMMA ListsOneMore ==
  ASSUME NEW D, NEW S, NEW s, s \notin S, NEW q, ListsOf(q, D, S),
         NEW f, f = IF s \in D THEN <<s>> ELSE <<>>
  PROVE  ListsOf(q \o f, D, S \cup {s})
<1>1. q \in Seq(S) /\ Len(q) \in Nat /\ DOMAIN q = 1 .. Len(q)
  BY DEF ListsOf
<1>2. \A m \in 1 .. Len(q) : q[m] \in S /\ q[m] \in D
  BY <1>1 DEF ListsOf, Range
<1>3. CASE s \in D
  <2>1. q \o f = Append(q, s)
    BY <1>1, <1>3
  <2>2. /\ Append(q, s) \in Seq(S \cup {s}) /\ Len(Append(q, s)) = Len(q) + 1
        /\ \A m \in 1 .. Len(q) : Append(q, s)[m] = q[m]
        /\ Append(q, s)[Len(q) + 1] = s
    BY <1>1
  <2>3. Distinct(Append(q, s))
    BY <1>1, <1>2, <2>2 DEF Distinct, ListsOf
  <2>4. Range(Append(q, s)) = Range(q) \cup {s}
    BY <1>1, <2>2 DEF Range
  <2> QED BY <1>3, <2>1, <2>2, <2>3, <2>4 DEF ListsOf
<1>4. CASE s \notin D
  <2>1. q \o f = q
    BY <1>1, <1>4
  <2> QED BY <1>1, <1>4, <2>1 DEF ListsOf
<1> QED BY <1>3, <1>4

\* parseStorage lists each configured storage once.
LEMMA ParseStorage ==
  ASSUME NEW b \in Backups
  PROVE  /\ parseStorage(b) \in Seq(StorageFields)
         /\ Distinct(parseStorage(b))
         /\ Range(parseStorage(b)) = DOMAIN Specs[b].backupTo
<1> DEFINE D == DOMAIN Specs[b].backupTo
           Field(s) == IF s \in D THEN <<s>> ELSE <<>>
           q1 == Field("nfs")
           q2 == q1 \o Field("pvc")
           q3 == q2 \o Field("cephfs")
           q4 == q3 \o Field("s3")
           q5 == q4 \o Field("minio")
           q6 == q5 \o Field("restServer")
           q7 == q6 \o Field("sftp")
           q8 == q7 \o Field("rclone")
<1>0. parseStorage(b) = q8
  BY DEF parseStorage
<1> HIDE DEF D
<1>1. ListsOf(q1, D, {"nfs"})
  <2>1. CASE "nfs" \in D
    BY <2>1 DEF ListsOf, Distinct, Range
  <2>2. CASE "nfs" \notin D
    BY <2>2 DEF ListsOf, Distinct, Range
  <2> QED BY <2>1, <2>2
<1> HIDE DEF q1
<1>2. ListsOf(q2, D, {"nfs"} \cup {"pvc"})
  BY <1>1, ListsOneMore
<1> HIDE DEF q2
<1>3. ListsOf(q3, D, {"nfs", "pvc"} \cup {"cephfs"})
  BY <1>2, ListsOneMore
<1> HIDE DEF q3
<1>4. ListsOf(q4, D, {"nfs", "pvc", "cephfs"} \cup {"s3"})
  BY <1>3, ListsOneMore
<1> HIDE DEF q4
<1>5. ListsOf(q5, D, {"nfs", "pvc", "cephfs", "s3"} \cup {"minio"})
  BY <1>4, ListsOneMore
<1> HIDE DEF q5
<1>6. ListsOf(q6, D, {"nfs", "pvc", "cephfs", "s3", "minio"} \cup {"restServer"})
  BY <1>5, ListsOneMore
<1> HIDE DEF q6
<1>7. ListsOf(q7, D, {"nfs", "pvc", "cephfs", "s3", "minio", "restServer"}
                     \cup {"sftp"})
  BY <1>6, ListsOneMore
<1> HIDE DEF q7
<1>8. ListsOf(q8, D, {"nfs", "pvc", "cephfs", "s3", "minio", "restServer", "sftp"}
                     \cup {"rclone"})
  BY <1>7, ListsOneMore
<1> HIDE DEF q8
<1>9. D \subseteq StorageFields
  BY SpecsAssumption DEF D
<1>10. ListsOf(q8, D, StorageFields)
  BY <1>8 DEF StorageFields
<1> QED BY <1>0, <1>9, <1>10 DEF ListsOf, D

-----------------------------------------------------------------------------
(* The invariants of a process are preserved by its steps.                 *)

\* The fields of a record have their types.
LEMMA FieldTypes ==
  ASSUME NEW r \in JobState
  PROVE  /\ r.arg \in Nat /\ r.arg >= 1
         /\ r.pods \in Seq(PodObject) /\ Len(r.pods) \in Nat
         /\ r.storages \in Seq(StorageFields) /\ Len(r.storages) \in Nat
         /\ r.claims \in Seq(AllClaims)
         /\ r.pvcpvMap \in [AllClaims -> Meta \cup {Nil}]
         /\ r.results \in Seq(Outcomes) /\ Len(r.results) \in Nat
         /\ r.taken \subseteq Snapshot
BY DEF JobState

\* StageInv.
LEMMA StageStep ==
  ASSUME NEW j \in Jobs, NEW r \in JobState, NEW q \in JobState,
         LocalInv(j, r), LocalStep(j, r, q)
  PROVE  StageInv(j, q)
<1> USE DEF Same, Fields, Working, Looping, Serving, InHelper, Searching,
            LoopFields
<1>0. /\ StageInv(j, r) /\ Len(Args[j]) \in Nat
      /\ r.arg \in Nat /\ q.arg \in Nat /\ r.arg >= 1
  BY ArgTypes, FieldTypes DEF LocalInv
<1>1. CASE Jumps(r, q)
  BY <1>0, <1>1 DEF Jumps, StageInv, InHand, Found
<1>2. CASE Lists(j, r, q)
  BY <1>0, <1>2 DEF Lists, StageInv
<1>3. CASE Enters(j, r, q)
  BY <1>0, <1>3 DEF Enters, StageInv
<1>4. CASE Finds(r, q)
  BY <1>0, <1>4 DEF Finds, StageInv
<1>5. CASE Deploys(j, r, q)
  BY <1>0, <1>5 DEF Deploys, StageInv, InHand, Found
<1>6. CASE Loops(j, r, q)
  BY <1>0, <1>6 DEF Loops, StageInv, InHand, Found
<1>7. CASE Turns(r, q)
  BY <1>0, <1>7 DEF Turns, StageInv, InHand, Found
<1>8. CASE Picks(r, q)
  BY <1>0, <1>8 DEF Picks, StageInv, InHand, Found
<1>9. CASE Acquires(j, r, q)
  BY <1>0, <1>9 DEF Acquires, StageInv, InHand, Found
<1>10. CASE Saves(r, q)
  BY <1>0, <1>10 DEF Saves, StageInv, InHand, Found
<1>11. CASE Returns(j, r, q)
  BY <1>0, <1>11 DEF Returns, StageInv
<1>12. CASE Cleans(r, q)
  BY <1>0, <1>12 DEF Cleans, StageInv
<1>13. CASE Advances(j, r, q)
  BY <1>0, <1>13 DEF Advances, StageInv
<1>14. CASE Vanishes(r, q)
  BY <1>0, <1>14 DEF Vanishes, StageInv
<1> QED
  BY <1>1, <1>2, <1>3, <1>4, <1>5, <1>6, <1>7, <1>8, <1>9, <1>10, <1>11, <1>12,
     <1>13, <1>14 DEF LocalStep

\* StorageInv: the loop over the storages begins with what parseStorage lists,
\* and leaves out the first of them in each round.
LEMMA StorageStep ==
  ASSUME NEW j \in Jobs, NEW r \in JobState, NEW q \in JobState,
         LocalInv(j, r), LocalStep(j, r, q)
  PROVE  StorageInv(j, q)
<1> USE DEF Working, Looping, Serving, InHelper, Searching
<1>0. StageInv(j, r) /\ StorageInv(j, r)
  BY DEF LocalInv
<1>1. CASE Loops(j, r, q)
  <2>1. q.arg = r.arg
    BY <1>1 DEF Loops, Same, Fields
  <2>2. InHand(j, r) \in Backups
    BY <1>0, ArgTypes DEF StageInv, InHand
  <2> QED BY <1>1, <2>1, <2>2, ParseStorage DEF Loops, StorageInv, InHand
<1>2. CASE Turns(r, q)
  <2>1. q.arg = r.arg /\ q.storages = Tail(r.storages)
    BY <1>2 DEF Turns, Same, Fields
  <2>2. r.storages \in Seq(StorageFields) /\ r.storages # <<>>
    BY <1>2, FieldTypes DEF Turns
  <2>3. Distinct(q.storages)
    BY <1>0, <1>2, <2>1, <2>2, TailFacts DEF Turns, StorageInv, Distinct
  <2>4. Range(q.storages) \subseteq Range(r.storages)
    BY <2>1, <2>2, TailFacts DEF Range
  <2> QED BY <1>0, <1>2, <2>1, <2>3, <2>4 DEF Turns, StorageInv, InHand
<1>3. CASE q.pc \notin Looping
  BY <1>3 DEF StorageInv
<1>4. CASE /\ r.pc \in Looping
           /\ q.arg = r.arg /\ q.storages = r.storages
  BY <1>0, <1>4 DEF StorageInv, InHand
<1>5. CASE Jumps(r, q)
  BY <1>3, <1>4, <1>5 DEF Jumps, Same, Fields
<1>6. CASE Deploys(j, r, q)
  BY <1>3, <1>4, <1>6 DEF Deploys, Same, Fields
<1>7. CASE Picks(r, q) \/ Acquires(j, r, q) \/ Saves(r, q)
  BY <1>4, <1>7 DEF Picks, Acquires, Saves, Same, Fields
<1>8. CASE \/ Lists(j, r, q) \/ Enters(j, r, q) \/ Finds(r, q)
           \/ Returns(j, r, q) \/ Cleans(r, q) \/ Advances(j, r, q)
           \/ Vanishes(r, q)
  BY <1>3, <1>8 DEF Lists, Enters, Finds, Returns, Cleans, Advances, Vanishes
<1> QED
  BY <1>1, <1>2, <1>5, <1>6, <1>7, <1>8 DEF LocalStep

\* ResultInv: each call of Do adds one outcome.
LEMMA ResultStep ==
  ASSUME NEW j \in Jobs, NEW r \in JobState, NEW q \in JobState,
         LocalInv(j, r), LocalStep(j, r, q)
  PROVE  ResultInv(j, q)
<1> USE DEF Working, Looping, Serving, InHelper, Searching, LoopFields, Same,
            Fields
<1>0. /\ ResultInv(j, r)
      /\ r.arg \in Nat /\ q.arg \in Nat
      /\ r.results \in Seq(Outcomes)
  BY FieldTypes DEF LocalInv
<1>1. CASE Jumps(r, q)
  BY <1>0, <1>1 DEF Jumps, ResultInv
<1>2. CASE Lists(j, r, q) \/ Enters(j, r, q) \/ Finds(r, q)
  BY <1>0, <1>2 DEF Lists, Enters, Finds, ResultInv
<1>3. CASE Deploys(j, r, q)
  BY <1>0, <1>3 DEF Deploys, ResultInv
<1>4. CASE Loops(j, r, q) \/ Turns(r, q) \/ Picks(r, q)
  BY <1>0, <1>4 DEF Loops, Turns, Picks, ResultInv
<1>5. CASE Acquires(j, r, q) \/ Saves(r, q)
  BY <1>0, <1>5 DEF Acquires, Saves, ResultInv
<1>6. CASE Returns(j, r, q)
  BY <1>0, <1>6 DEF Returns, ResultInv
<1>7. CASE Cleans(r, q) \/ Advances(j, r, q)
  BY <1>0, <1>7 DEF Cleans, Advances, ResultInv
<1>8. CASE Vanishes(r, q)
  BY <1>0, <1>8 DEF Vanishes, ResultInv
<1> QED
  BY <1>1, <1>2, <1>3, <1>4, <1>5, <1>6, <1>7, <1>8 DEF LocalStep

\* LocalInv.
LEMMA LocalInvStep ==
  ASSUME NEW j \in Jobs, NEW r \in JobState, NEW q \in JobState,
         LocalInv(j, r), LocalStep(j, r, q)
  PROVE  LocalInv(j, q)
BY StageStep, StorageStep, ResultStep DEF LocalInv

\* No snapshot of the entry in hand exists.
LEMMA FirstOfEntry ==
  ASSUME NEW j, NEW r, StageInv(j, r), OnceInv(j, r), r.pc = "backup"
  PROVE  Earlier(r) = {} /\ 1 + Cardinality(Earlier(r)) = 1
<1>1. Earlier(r) = {}
  BY DEF Earlier, OnceInv, StageInv, Looping, Serving, InHelper
<1>2. Cardinality({}) = 0
  BY FS_EmptySet, Zenon
<1> QED BY <1>1, <1>2

\* OnceInv.  The only step that makes a snapshot makes one of the entry in
\* hand; none exists, so its ordinal is one.
LEMMA OnceStep ==
  ASSUME NEW j \in Jobs, NEW r \in JobState, NEW q \in JobState,
         LocalInv(j, r), OnceInv(j, r), LocalStep(j, r, q)
  PROVE  OnceInv(j, q)
<1> USE DEF Working, Looping, Serving, InHelper, Searching, LoopFields, Same,
            Fields
<1>0. /\ StageInv(j, r) /\ StorageInv(j, r)
      /\ r.arg \in Nat /\ q.arg \in Nat /\ r.arg >= 1
      /\ Len(r.storages) \in Nat /\ Len(q.storages) \in Nat
      /\ r.storages \in Seq(StorageFields)
  BY FieldTypes DEF LocalInv
<1>1. CASE Jumps(r, q)
  BY <1>0, <1>1 DEF Jumps, OnceInv
<1>2. CASE Lists(j, r, q) \/ Enters(j, r, q) \/ Finds(r, q)
  BY <1>0, <1>2 DEF Lists, Enters, Finds, OnceInv
<1>3. CASE Deploys(j, r, q)
  BY <1>0, <1>3 DEF Deploys, OnceInv
<1>4. CASE Loops(j, r, q)
  BY <1>0, <1>4 DEF Loops, OnceInv
<1>5. CASE Turns(r, q)
  <2>1. /\ q.taken = r.taken /\ q.arg = r.arg /\ q.storages = Tail(r.storages)
        /\ r.storages # <<>> /\ q.pc = "choose" /\ r.pc = "choose"
    BY <1>5 DEF Turns
  <2>2. /\ Len(q.storages) = Len(r.storages) - 1
        /\ \A m \in 1 .. Len(q.storages) : q.storages[m] = r.storages[m + 1]
    BY <1>0, <2>1, TailFacts
  <2>3. ASSUME NEW t \in q.taken, t.arg = q.arg
        PROVE  \A m \in 1 .. Len(q.storages) : t.storage # q.storages[m]
    BY <1>0, <2>1, <2>2, <2>3 DEF OnceInv
  <2> QED BY <1>0, <2>1, <2>3 DEF OnceInv
<1>6. CASE Picks(r, q)
  BY <1>0, <1>6 DEF Picks, OnceInv
<1>7. CASE Acquires(j, r, q)
  BY <1>0, <1>7 DEF Acquires, OnceInv
<1>8. CASE Saves(r, q)
  <2>1. PICK t \in q.taken :
          /\ t.arg = r.arg /\ t.pvc = r.pvc /\ t.storage = r.storages[1]
          /\ t.nth = 1 + Cardinality(Earlier(r))
          /\ q.taken = r.taken \cup {t}
    BY <1>8 DEF Saves
  <2>3. t.nth = 1
    <3>1. r.pc = "backup"
      BY <1>8 DEF Saves
    <3> QED BY <1>0, <2>1, <3>1, FirstOfEntry
  <2>4. \A m \in 2 .. Len(r.storages) : t.storage # r.storages[m]
    BY <1>0, <1>8, <2>1 DEF Saves, StageInv, StorageInv, Distinct
  <2> QED BY <1>0, <1>8, <2>1, <2>3, <2>4 DEF Saves, OnceInv, StageInv
<1>9. CASE Returns(j, r, q)
  BY <1>0, <1>9 DEF Returns, OnceInv
<1>10. CASE Cleans(r, q) \/ Advances(j, r, q)
  BY <1>0, <1>10 DEF Cleans, Advances, OnceInv
<1>11. CASE Vanishes(r, q)
  BY <1>0, <1>11 DEF Vanishes, OnceInv
<1> QED
  BY <1>1, <1>2, <1>3, <1>4, <1>5, <1>6, <1>7, <1>8, <1>9, <1>10, <1>11
     DEF LocalStep

\* NamesInv.
LEMMA NamesStep ==
  ASSUME NEW j \in Jobs, NEW r \in JobState, NEW q \in JobState,
         LocalInv(j, r), NamesInv(j, r), LocalStep(j, r, q)
  PROVE  NamesInv(j, q)
<1> USE DEF LoopFields, Same, Fields
<1>0. r.arg \in Nat /\ q.arg \in Nat /\ r.arg >= 1
  BY FieldTypes
<1>1. CASE q.deployNames = r.deployNames /\ q.arg \in {r.arg, r.arg + 1}
  BY <1>0, <1>1 DEF NamesInv
<1>2. CASE Remembers(j, r, q) /\ q.arg = r.arg
  <2>1. PICK d \in NamesOf(InHand(j, r)) :
          q.deployNames = [r.deployNames EXCEPT ![d.kind] = d]
    BY <1>2 DEF Remembers
  <2>2. DOMAIN r.deployNames = Range(DeployKinds)
    BY DEF JobState
  <2> QED BY <1>0, <1>2, <2>1, <2>2 DEF NamesInv, InHand
<1>3. CASE Deploys(j, r, q)
  BY <1>2, <1>3 DEF Deploys
<1>4. CASE Returns(j, r, q)
  BY <1>1, <1>2, <1>4 DEF Returns
<1>5. CASE Vanishes(r, q)
  BY <1>1, <1>5 DEF Vanishes
<1>6. CASE \/ Jumps(r, q) \/ Lists(j, r, q) \/ Enters(j, r, q) \/ Finds(r, q)
           \/ Loops(j, r, q) \/ Turns(r, q) \/ Picks(r, q)
  BY <1>1, <1>6 DEF Jumps, Lists, Enters, Finds, Loops, Turns, Picks
<1>7. CASE \/ Acquires(j, r, q) \/ Saves(r, q) \/ Cleans(r, q)
           \/ Advances(j, r, q)
  BY <1>1, <1>7 DEF Acquires, Saves, Cleans, Advances
<1> QED BY <1>3, <1>4, <1>5, <1>6, <1>7 DEF LocalStep

\* MapComplete: the claims of each pod enter the map with it.
LEMMA MapCompleteStep ==
  ASSUME NEW j \in Jobs, NEW r \in JobState, NEW q \in JobState,
         "lookup" \notin Faults,
         LocalInv(j, r), CompleteInv(j, r), LocalStep(j, r, q)
  PROVE  MapComplete(j, q)
<1> USE DEF Searching
<1>0. MapComplete(j, r) /\ StageInv(j, r)
  BY DEF CompleteInv, LocalInv
<1>1. CASE Lists(j, r, q)
  <2>1. q.arg = r.arg
    BY <1>1 DEF Lists, Same, Fields
  <2>2. InHand(j, r) \in Backups
    BY <1>0, ArgTypes DEF StageInv, InHand
  <2>3. ASSUME NEW p \in Range(Specs[InHand(j, r)].pods)
        PROVE  \E m \in 1 .. Len(q.pods) : q.pods[m].pod = p
    <3>1. PICK m \in 1 .. Len(Specs[InHand(j, r)].pods) :
            Specs[InHand(j, r)].pods[m] = p
      BY <2>2, SpecTypes DEF Range
    <3> QED BY <1>1, <3>1 DEF Lists
  <2> QED BY <2>1, <2>3 DEF MapComplete, InHand
<1>2. CASE Enters(j, r, q)
  <2>1. q.arg = r.arg /\ r.pods # <<>> /\ q.pods = Tail(r.pods)
    BY <1>2 DEF Enters, Same, Fields
  <2>2. r.pods \in Seq(PodObject)
    BY FieldTypes
  <2>3. ASSUME NEW m \in 1 .. Len(r.pods), m # 1
        PROVE  \E n \in 1 .. Len(q.pods) : q.pods[n] = r.pods[m]
    <3>1. /\ m - 1 \in 1 .. Len(q.pods)
          /\ q.pods[m - 1] = r.pods[m]
      BY <2>1, <2>2, <2>3
    <3> QED BY <3>1
  <2>4. Range(Claims[r.pods[1].pod]) \subseteq Found(q) /\ Found(r) \subseteq Found(q)
    BY <1>2 DEF Enters
  <2>5. ASSUME NEW p \in Range(Specs[InHand(j, r)].pods)
        PROVE  \/ \E m \in 1 .. Len(q.pods) : q.pods[m].pod = p
               \/ Range(Claims[p]) \subseteq Found(q)
    <3>1. r.pc = "prepare"
      BY <1>2 DEF Enters
    <3>2. \/ \E m \in 1 .. Len(r.pods) : r.pods[m].pod = p
          \/ Range(Claims[p]) \subseteq Found(r)
      BY <1>0, <3>1 DEF MapComplete
    <3>3. CASE Range(Claims[p]) \subseteq Found(r)
      BY <2>4, <3>3
    <3>4. ASSUME NEW m \in 1 .. Len(r.pods), r.pods[m].pod = p
          PROVE  \/ \E n \in 1 .. Len(q.pods) : q.pods[n].pod = p
                 \/ Range(Claims[p]) \subseteq Found(q)
      BY <2>3, <2>4, <3>4
    <3> QED BY <3>2, <3>3, <3>4
  <2> QED BY <2>1, <2>5 DEF MapComplete, InHand
<1>3. CASE /\ r.pc \in Searching
           /\ q.arg = r.arg /\ q.pods = r.pods /\ Found(q) = Found(r)
  BY <1>0, <1>3 DEF MapComplete, InHand
<1>4. CASE q.pc \notin Searching
  BY <1>4 DEF MapComplete
<1>5. CASE Finds(r, q)
  BY <1>3, <1>5 DEF Finds, Same, Fields
<1>6. CASE Jumps(r, q)
  BY <1>3, <1>4, <1>6 DEF Jumps, Same, Fields, Found
<1>7. CASE Deploys(j, r, q)
  BY <1>3, <1>4, <1>7 DEF Deploys, Same, Fields, Found
<1>8. CASE \/ Loops(j, r, q) \/ Turns(r, q) \/ Picks(r, q)
           \/ Acquires(j, r, q) \/ Saves(r, q)
  BY <1>4, <1>8 DEF Loops, Turns, Picks, Acquires, Saves
<1>9. CASE \/ Returns(j, r, q) \/ Cleans(r, q) \/ Advances(j, r, q)
           \/ Vanishes(r, q)
  BY <1>4, <1>9 DEF Returns, Cleans, Advances, Vanishes
<1> QED BY <1>1, <1>2, <1>5, <1>6, <1>7, <1>8, <1>9 DEF LocalStep

\* An entry the inner loop has not reached is to come for every storage that is.
LEMMA PendingAll ==
  ASSUME NEW r, r.storages \in Seq(StorageFields), NEW c \in r.todo,
         NEW m \in 1 .. Len(r.storages)
  PROVE  Pending(r, c, r.storages[m])
<1>1. CASE m = 1
  BY <1>1 DEF Pending
<1>2. CASE m # 1
  BY <1>2 DEF Pending
<1> QED BY <1>1, <1>2

\* LoopComplete: the loops over the storages and the map leave nothing out.
LEMMA LoopCompleteStep ==
  ASSUME NEW j \in Jobs, NEW r \in JobState, NEW q \in JobState,
         LocalInv(j, r), CompleteInv(j, r), LocalStep(j, r, q)
  PROVE  LoopComplete(j, q)
<1> USE DEF Looping, Serving, InHelper
<1>0. /\ MapComplete(j, r) /\ LoopComplete(j, r) /\ StageInv(j, r)
      /\ r.storages \in Seq(StorageFields)
      /\ q.storages \in Seq(StorageFields)
      /\ InHand(j, r) \in Backups
  BY FieldTypes, ArgTypes DEF CompleteInv, LocalInv, StageInv, InHand
<1>1. CASE Loops(j, r, q)
  <2>1. /\ q.arg = r.arg /\ Found(q) = Found(r) /\ q.todo = Found(r)
        /\ q.storages = parseStorage(InHand(j, r)) /\ r.pods = <<>>
    BY <1>1 DEF Loops, Same, Fields, Found
  <2>2. Wanted(InHand(j, r)) \subseteq Found(r)
    BY <1>0, <1>1, <2>1 DEF MapComplete, Loops, Searching, Wanted
  <2>3. ASSUME NEW s \in DOMAIN Specs[InHand(j, r)].backupTo, NEW c \in Found(q)
        PROVE  Pending(q, c, s)
    <3>1. s \in Range(q.storages)
      BY <1>0, <2>1, ParseStorage
    <3>2. PICK m \in 1 .. Len(q.storages) : q.storages[m] = s
      BY <1>0, <3>1 DEF Range
    <3> QED BY <1>0, <2>1, <3>2, PendingAll
  <2> QED BY <2>1, <2>2, <2>3 DEF LoopComplete, InHand
<1>2. CASE Turns(r, q)
  <2>1. /\ q.arg = r.arg /\ Found(q) = Found(r) /\ q.todo = Found(r)
        /\ q.taken = r.taken /\ q.storages = Tail(r.storages)
        /\ r.storages # <<>> /\ r.todo = {} /\ r.pc = "choose"
    BY <1>2 DEF Turns, Same, Fields, Found
  <2>2. ASSUME NEW s, NEW c \in Found(q), Pending(r, c, s)
        PROVE  Pending(q, c, s)
    <3>1. PICK m \in 2 .. Len(r.storages) : r.storages[m] = s
      BY <2>1, <2>2 DEF Pending
    <3>2. m - 1 \in 1 .. Len(q.storages) /\ q.storages[m - 1] = s
      BY <1>0, <2>1, <3>1
    <3> QED BY <1>0, <2>1, <3>2, PendingAll
  <2> QED BY <1>0, <2>1, <2>2 DEF LoopComplete, InHand, SavedIn
<1>3. CASE Picks(r, q)
  <2>1. /\ q.arg = r.arg /\ Found(q) = Found(r) /\ q.taken = r.taken
        /\ q.storages = r.storages /\ q.todo = r.todo \ {q.pvc}
        /\ r.pc = "choose" /\ q.pc = "deploy"
    BY <1>3 DEF Picks, Same, Fields, Found
  <2>2. ASSUME NEW s, NEW c, Pending(r, c, s)
        PROVE  Pending(q, c, s)
    BY <2>1, <2>2 DEF Pending
  <2> QED BY <1>0, <2>1, <2>2 DEF LoopComplete, InHand, SavedIn
<1>4. CASE Saves(r, q)
  <2>1. /\ q.arg = r.arg /\ Found(q) = Found(r) /\ r.taken \subseteq q.taken
        /\ q.storages = r.storages /\ q.todo = r.todo
        /\ r.pc = "backup" /\ q.pc = "choose"
    BY <1>4 DEF Saves, Same, Fields, Found
  <2>2. SavedIn(q, q.arg, r.pvc, r.storages[1])
    BY <1>4, <2>1 DEF Saves, SavedIn
  <2>3. ASSUME NEW s, NEW c, Pending(r, c, s)
        PROVE  Pending(q, c, s) \/ SavedIn(q, q.arg, c, s)
    BY <2>1, <2>2, <2>3 DEF Pending
  <2>4. ASSUME NEW s, NEW c, SavedIn(r, r.arg, c, s)
        PROVE  SavedIn(q, q.arg, c, s)
    BY <2>1, <2>4 DEF SavedIn
  <2> QED BY <1>0, <2>1, <2>3, <2>4 DEF LoopComplete, InHand
<1>5. CASE q.pc \notin Looping
  BY <1>5 DEF LoopComplete
<1>6. CASE /\ r.pc \in Serving /\ q.pc \in Serving
           /\ q.arg = r.arg /\ Found(q) = Found(r) /\ q.taken = r.taken
           /\ q.storages = r.storages /\ q.todo = r.todo /\ q.pvc = r.pvc
  BY <1>0, <1>6 DEF LoopComplete, InHand, SavedIn, Pending
<1>7. CASE Jumps(r, q)
  BY <1>5, <1>6, <1>7 DEF Jumps, Same, Fields, Found
<1>8. CASE Deploys(j, r, q)
  BY <1>5, <1>6, <1>8 DEF Deploys, Same, Fields, Found
<1>9. CASE Acquires(j, r, q)
  BY <1>6, <1>9 DEF Acquires, Same, Fields, Found
<1>10. CASE \/ Lists(j, r, q) \/ Enters(j, r, q) \/ Finds(r, q)
            \/ Returns(j, r, q) \/ Cleans(r, q) \/ Advances(j, r, q)
            \/ Vanishes(r, q)
  BY <1>5, <1>10 DEF Lists, Enters, Finds, Returns, Cleans, Advances, Vanishes
<1> QED BY <1>1, <1>2, <1>3, <1>4, <1>7, <1>8, <1>9, <1>10 DEF LocalStep

\* OkComplete: nil is returned after the loops only.
LEMMA OkCompleteStep ==
  ASSUME NEW j \in Jobs, NEW r \in JobState, NEW q \in JobState,
         LocalInv(j, r), CompleteInv(j, r), LocalStep(j, r, q)
  PROVE  OkComplete(j, q)
<1> USE DEF LoopFields, Same, Fields
<1>0. /\ OkComplete(j, r) /\ LoopComplete(j, r) /\ ResultInv(j, r)
      /\ r.results \in Seq(Outcomes) /\ r.arg \in Nat
      /\ r.storages \in Seq(StorageFields)
  BY FieldTypes DEF CompleteInv, LocalInv
<1>1. CASE q.results = r.results /\ r.taken \subseteq q.taken
  <2>1. \A i, c, s : SavedIn(r, i, c, s) => SavedIn(q, i, c, s)
    BY <1>1 DEF SavedIn
  <2> QED BY <1>0, <1>1, <2>1 DEF OkComplete
<1>2. ASSUME NEW outcome \in Outcomes, q.results = Append(r.results, outcome),
             q.taken = r.taken,
             outcome = "ok" =>
               /\ Len(r.results) + 1 = r.arg
               /\ \A s \in DOMAIN Specs[InHand(j, r)].backupTo,
                     c \in Wanted(InHand(j, r)) : SavedIn(r, r.arg, c, s)
      PROVE  OkComplete(j, q)
  <2>1. \A i \in 1 .. Len(q.results) :
          \/ i \in 1 .. Len(r.results) /\ q.results[i] = r.results[i]
          \/ i = Len(r.results) + 1 /\ q.results[i] = outcome
    BY <1>0, <1>2
  <2>2. \A i, c, s : SavedIn(r, i, c, s) => SavedIn(q, i, c, s)
    BY <1>2 DEF SavedIn
  <2>3. ASSUME NEW i \in 1 .. Len(q.results), q.results[i] = "ok",
               NEW s \in DOMAIN Specs[Args[j][i]].backupTo,
               NEW c \in Wanted(Args[j][i])
        PROVE  SavedIn(r, i, c, s)
    <3>1. CASE i \in 1 .. Len(r.results) /\ q.results[i] = r.results[i]
      BY <1>0, <2>3, <3>1 DEF OkComplete
    <3>2. CASE i = Len(r.results) + 1 /\ q.results[i] = outcome
      BY <1>2, <2>3, <3>2 DEF InHand
    <3> QED BY <2>1, <3>1, <3>2
  <2> QED BY <2>2, <2>3 DEF OkComplete
<1>3. CASE Returns(j, r, q)
  <2>1. PICK outcome \in Outcomes :
          /\ q.results = Append(r.results, outcome)
          /\ outcome = "ok" => /\ r.pc = "choose" /\ Len(r.storages) <= 1
                               /\ r.storages = <<>> \/ r.todo = {}
    BY <1>3 DEF Returns
  <2>2. q.taken = r.taken
    BY <1>3 DEF Returns
  <2>3. ASSUME outcome = "ok"
        PROVE  /\ Len(r.results) + 1 = r.arg
               /\ \A s \in DOMAIN Specs[InHand(j, r)].backupTo,
                     c \in Wanted(InHand(j, r)) : SavedIn(r, r.arg, c, s)
    <3>1. /\ r.pc = "choose" /\ Len(r.storages) <= 1
          /\ r.storages = <<>> \/ r.todo = {}
      BY <2>1, <2>3
    <3>2. \A c, s : ~Pending(r, c, s)
      BY <1>0, <3>1 DEF Pending, Serving, InHelper
    <3>3. Len(r.results) + 1 = r.arg
      BY <1>0, <3>1 DEF ResultInv, Working, Looping
    <3> QED BY <1>0, <3>1, <3>2, <3>3 DEF LoopComplete, Looping
  <2> QED BY <1>2, <2>1, <2>2, <2>3
<1>4. CASE Vanishes(r, q)
  <2>1. q.taken = r.taken
    BY <1>4 DEF Vanishes
  <2>2. PICK outcome \in {"exit", "killed"} : q.results = Append(r.results, outcome)
    BY <1>4 DEF Vanishes
  <2> QED BY <1>2, <2>1, <2>2 DEF Outcomes
<1>5. CASE \/ Jumps(r, q) \/ Lists(j, r, q) \/ Enters(j, r, q) \/ Finds(r, q)
           \/ Loops(j, r, q) \/ Turns(r, q) \/ Picks(r, q)
  BY <1>1, <1>5 DEF Jumps, Lists, Enters, Finds, Loops, Turns, Picks
<1>6. CASE \/ Deploys(j, r, q) \/ Acquires(j, r, q) \/ Saves(r, q)
           \/ Cleans(r, q) \/ Advances(j, r, q)
  BY <1>1, <1>6 DEF Deploys, Acquires, Saves, Cleans, Advances
<1> QED BY <1>3, <1>4, <1>5, <1>6 DEF LocalStep

\* CompleteInv, if no lookup fails.
LEMMA CompleteStep ==
  ASSUME NEW j \in Jobs, NEW r \in JobState, NEW q \in JobState,
         "lookup" \notin Faults,
         LocalInv(j, r), CompleteInv(j, r), LocalStep(j, r, q)
  PROVE  CompleteInv(j, q)
BY MapCompleteStep, LoopCompleteStep, OkCompleteStep DEF CompleteInv

\* NothingElseInv: only claims of the target's pods enter the map, and only
\* entries of the map are saved.
LEMMA NothingElseStep ==
  ASSUME NEW j \in Jobs, NEW r \in JobState, NEW q \in JobState,
         LocalInv(j, r), NothingElseInv(j, r), LocalStep(j, r, q)
  PROVE  NothingElseInv(j, q)
<1> USE DEF LoopFields, Same, Fields, Searching, Looping, Serving, InHelper
<1>0. /\ StageInv(j, r) /\ StorageInv(j, r) /\ InHand(j, r) \in Backups
      /\ r.storages \in Seq(StorageFields)
      /\ r.pods \in Seq(PodObject)
  BY FieldTypes, ArgTypes DEF LocalInv, StageInv, InHand
<1>1. CASE Lists(j, r, q)
  <2>1. q.arg = r.arg /\ q.taken = r.taken /\ Found(q) = {} /\ q.pc = "prepare"
    BY <1>1 DEF Lists
  <2>2. \A m \in 1 .. Len(q.pods) :
          q.pods[m].pod \in Range(Specs[InHand(j, r)].pods)
    BY <1>0, <1>1, SpecTypes DEF Lists, Range
  <2> QED BY <2>1, <2>2 DEF NothingElseInv, InHand
<1>2. CASE Enters(j, r, q)
  <2>1. /\ q.arg = r.arg /\ q.taken = r.taken /\ r.pc = "prepare" /\ q.pc = "find"
        /\ r.pods # <<>> /\ q.pods = Tail(r.pods)
    BY <1>2 DEF Enters
  <2>2. \A m \in 1 .. Len(q.pods) :
          q.pods[m].pod \in Range(Specs[InHand(j, r)].pods)
    BY <1>0, <2>1, TailFacts DEF NothingElseInv
  <2>3. r.pods[1].pod \in Range(Specs[InHand(j, r)].pods)
    BY <1>0, <2>1, TailFacts DEF NothingElseInv
  <2>4. Found(q) \subseteq Wanted(InHand(j, r))
    BY <1>2, <2>1, <2>3 DEF Enters, NothingElseInv, Wanted
  <2> QED BY <2>1, <2>2, <2>4 DEF NothingElseInv, InHand
<1>3. CASE Finds(r, q)
  BY <1>3 DEF Finds, NothingElseInv, InHand
<1>4. CASE Saves(r, q)
  <2>1. /\ q.arg = r.arg /\ Found(q) = Found(r) /\ r.pc = "backup"
        /\ q.pc = "choose"
    BY <1>4 DEF Saves, Found
  <2>2. r.pvc \in Wanted(InHand(j, r))
    BY <1>0, <2>1 DEF StageInv, NothingElseInv
  <2>3. r.storages[1] \in DOMAIN Specs[InHand(j, r)].backupTo
    BY <1>0, <2>1 DEF StageInv, StorageInv, Range
  <2> QED BY <1>4, <2>1, <2>2, <2>3 DEF Saves, NothingElseInv, InHand
<1>5. CASE q.taken = r.taken /\ q.pc \notin Searching \cup Looping
  BY <1>5 DEF NothingElseInv
<1>6. CASE /\ q.taken = r.taken /\ q.arg = r.arg /\ q.pods = r.pods
           /\ q.pvcpvMap = r.pvcpvMap
           /\ \/ r.pc \in Searching /\ q.pc \in Searching \cup Looping
              \/ r.pc \in Looping /\ q.pc \in Looping
  BY <1>6 DEF NothingElseInv, InHand, Found
<1>7. CASE Jumps(r, q)
  BY <1>5, <1>6, <1>7 DEF Jumps
<1>8. CASE Deploys(j, r, q)
  BY <1>6, <1>8 DEF Deploys
<1>9. CASE \/ Loops(j, r, q) \/ Turns(r, q) \/ Picks(r, q)
           \/ Acquires(j, r, q)
  BY <1>6, <1>9 DEF Loops, Turns, Picks, Acquires
<1>10. CASE \/ Returns(j, r, q) \/ Cleans(r, q) \/ Advances(j, r, q)
            \/ Vanishes(r, q)
  BY <1>5, <1>10 DEF Returns, Cleans, Advances, Vanishes
<1> QED
  BY <1>1, <1>2, <1>3, <1>4, <1>7, <1>8, <1>9, <1>10 DEF LocalStep

-----------------------------------------------------------------------------
(* The records that the actions make.                                      *)

Stages == Working \cup {"idle", "clean", "done"}

\* The record a process begins with, and the one each call of Do begins and
\* ends with.
LEMMA IdleType == Idle \in JobState
<1>1. [k \in Range(DeployKinds) |-> Nil] \in [Range(DeployKinds) -> DeployName \cup {Nil}]
  OBVIOUS
<1>2. [c \in AllClaims |-> Nil] \in [AllClaims -> Meta \cup {Nil}]
  OBVIOUS
<1> QED BY <1>1, <1>2 DEF Idle, JobState

\* Between two arguments a process is idle but for its position in the list, the
\* names of its helpers, which are package globals, and its history.
LEMMA GlobalsFields ==
  ASSUME NEW r
  PROVE  /\ Same(r, Globals(r), LoopFields \cup {"pc", "cleaning"})
         /\ Same(Idle, Globals(r), {"arg", "deployNames", "taken", "results"})
BY DEF Same, Fields, LoopFields, Idle, Globals

\* What survives from one argument to the next is the state of a process.
LEMMA GlobalsType ==
  ASSUME NEW r \in JobState
  PROVE  Globals(r) \in JobState
<1>1. /\ r.arg \in Nat \ {0} /\ r.taken \in SUBSET Snapshot
      /\ r.deployNames \in [Range(DeployKinds) -> DeployName \cup {Nil}]
      /\ r.results \in Seq(Outcomes)
  BY DEF JobState
<1> DEFINE a == [Idle EXCEPT !.arg = r.arg]
           b == [a EXCEPT !.deployNames = r.deployNames]
           c == [b EXCEPT !.taken = r.taken]
<1>2. a \in JobState
  BY <1>1, IdleType DEF JobState
<1>3. b \in JobState
  BY <1>1, <1>2 DEF JobState
<1>4. c \in JobState
  BY <1>1, <1>3 DEF JobState
<1>5. [c EXCEPT !.results = r.results] \in JobState
  BY <1>1, <1>4 DEF JobState
<1> QED BY <1>5 DEF Globals

\* Goto changes the stage only.
LEMMA GotoFacts ==
  ASSUME NEW r \in JobState, NEW stage \in Stages
  PROVE  /\ Goto(r, stage) \in JobState
         /\ Goto(r, stage).pc = stage
         /\ Same(r, Goto(r, stage), {"pc"})
BY DEF Goto, JobState, Same, Fields, Stages, Working, Looping, Serving, InHelper,
       Searching

\* Returned keeps the globals, the argument and the history.
LEMMA ReturnedFacts ==
  ASSUME NEW r \in JobState, NEW outcome \in Outcomes
  PROVE  /\ Returned(r, outcome) \in JobState
         /\ Returned(r, outcome).pc = "clean"
         /\ Returned(r, outcome).cleaning = DeployKinds
         /\ Returned(r, outcome).results = Append(r.results, outcome)
         /\ Same(r, Returned(r, outcome), LoopFields \cup {"pc", "cleaning", "results"})
<1> DEFINE g == Globals(r)
           a == [g EXCEPT !.pc = "clean"]
           b == [a EXCEPT !.cleaning = DeployKinds]
           c == [b EXCEPT !.results = Append(@, outcome)]
<1>1. /\ g \in JobState /\ g.results = r.results
      /\ Same(r, g, LoopFields \cup {"pc", "cleaning"})
  BY GlobalsType, GlobalsFields DEF Same, Fields, LoopFields
<1>2. Returned(r, outcome) = c
  BY DEF Returned
<1> HIDE DEF g
<1>3. a \in JobState
  BY <1>1 DEF JobState
<1>4. b \in JobState
  BY <1>3, Kinds DEF JobState
<1>5. c \in JobState
  <2>1. \A x \in Seq(Outcomes) : Append(x, outcome) \in Seq(Outcomes)
    OBVIOUS
  <2>2. b.results \in Seq(Outcomes)
    BY <1>4, FieldTypes
  <2> QED BY <1>4, <2>1, <2>2 DEF JobState
<1>6. /\ c.pc = "clean" /\ c.cleaning = DeployKinds
      /\ c.results = Append(r.results, outcome)
      /\ Same(g, c, {"pc", "cleaning", "results"})
  BY <1>1 DEF JobState, Same, Fields
<1> QED BY <1>1, <1>2, <1>5, <1>6 DEF Same

\* Ended likewise.
LEMMA EndedFacts ==
  ASSUME NEW r \in JobState, NEW outcome \in Outcomes
  PROVE  /\ Ended(r, outcome) \in JobState
         /\ Ended(r, outcome).pc = "done"
         /\ Ended(r, outcome).results = Append(r.results, outcome)
         /\ Same(r, Ended(r, outcome), LoopFields \cup {"pc", "cleaning", "results"})
<1> DEFINE g == Globals(r)
           a == [g EXCEPT !.pc = "done"]
           c == [a EXCEPT !.results = Append(@, outcome)]
<1>1. /\ g \in JobState /\ g.results = r.results
      /\ Same(r, g, LoopFields \cup {"pc", "cleaning"})
  BY GlobalsType, GlobalsFields DEF Same, Fields, LoopFields
<1>2. Ended(r, outcome) = c
  BY DEF Ended
<1> HIDE DEF g
<1>3. a \in JobState
  BY <1>1 DEF JobState
<1>4. c \in JobState
  <2>1. \A x \in Seq(Outcomes) : Append(x, outcome) \in Seq(Outcomes)
    OBVIOUS
  <2>2. a.results \in Seq(Outcomes)
    BY <1>3, FieldTypes
  <2> QED BY <1>3, <2>1, <2>2 DEF JobState
<1>5. /\ c.pc = "done" /\ c.results = Append(r.results, outcome)
      /\ Same(g, c, {"pc", "results"})
  BY <1>1 DEF JobState, Same, Fields
<1> QED BY <1>1, <1>2, <1>4, <1>5 DEF Same

\* Remembering a name keeps everything else.
LEMMA NamedFacts ==
  ASSUME NEW r \in JobState, NEW k \in Range(DeployKinds), NEW d \in DeployName
  PROVE  /\ [r EXCEPT !.deployNames[k] = d] \in JobState
         /\ [r EXCEPT !.deployNames[k] = d].deployNames =
              [r.deployNames EXCEPT ![k] = d]
         /\ Same(r, [r EXCEPT !.deployNames[k] = d], {"deployNames"})
<1>1. [r.deployNames EXCEPT ![k] = d] \in [Range(DeployKinds) -> DeployName \cup {Nil}]
  BY DEF JobState
<1>2. [r EXCEPT !.deployNames[k] = d] =
        [r EXCEPT !.deployNames = [r.deployNames EXCEPT ![k] = d]]
  BY DEF JobState
<1> QED BY <1>1, <1>2 DEF JobState, Same, Fields

-----------------------------------------------------------------------------
(* The actions: what a process does to its record is one of the relations  *)
(* above, and what it does to the shared state is well typed.              *)

Takes(j) ==
  /\ job' = [job EXCEPT ![j] = job'[j]]
  /\ job'[j] \in JobState
  /\ LocalStep(j, job[j], job'[j])

Shared ==
  /\ deployments \in [DeployName -> Deployment \cup {Nil}]
  /\ issued \in Nat
  /\ repos \subseteq Repos
  /\ placement \in [Pods -> [node: Nodes, uid: Nat]]
  /\ faults \in 0..MaxFaults
  /\ moves \in 0..MaxMoves
  /\ HelperInv
  /\ PlacementInv

\* What TypeInv says of the process at hand.
LEMMA Hand ==
  ASSUME TypeInv, NEW j \in Jobs
  PROVE  /\ job \in [Jobs -> JobState] /\ job[j] \in JobState
         /\ LocalInv(j, job[j]) /\ OnceInv(j, job[j]) /\ StageInv(j, job[j])
         /\ StorageInv(j, job[j]) /\ ResultInv(j, job[j])
         /\ Backup(j) = InHand(j, job[j]) /\ Backup(j) \in Backups
         /\ job[j].pc \in Stages /\ Shared
<1>1. /\ job \in [Jobs -> JobState] /\ job[j] \in JobState
      /\ LocalInv(j, job[j]) /\ OnceInv(j, job[j]) /\ Shared
  BY DEF TypeInv, TypeOK, Shared
<1>2. StageInv(j, job[j]) /\ StorageInv(j, job[j]) /\ ResultInv(j, job[j])
  BY <1>1 DEF LocalInv
<1>3. Backup(j) = InHand(j, job[j]) /\ Backup(j) \in Backups
  BY <1>2, ArgTypes DEF Backup, InHand, StageInv
<1>4. job[j].pc \in Stages
  BY <1>1 DEF JobState, Stages, Working, Looping, Serving, InHelper, Searching
<1> QED BY <1>1, <1>2, <1>3, <1>4

\* An action that gives a process its next state, by one of the local steps, is a
\* step of that process alone.
LEMMA BecomesTakes ==
  ASSUME TypeInv, NEW j \in Jobs, NEW q \in JobState, Becomes(j, q),
         LocalStep(j, job[j], q)
  PROVE  Takes(j)
BY Hand DEF Becomes, Takes

\* A step that leaves the cluster alone.
LEMMA LocalShared ==
  ASSUME Shared, LocalOnly, UNCHANGED faults \/ \E f : Fault(f)
  PROVE  Shared'
<1>1. faults' \in 0..MaxFaults
  BY BoundsAssumption DEF Shared, Fault
<1>2. HelperInv' /\ PlacementInv'
  BY DEF Shared, LocalOnly, HelperInv, PlacementInv
<1> QED BY <1>1, <1>2 DEF Shared, LocalOnly

\* The next command.
LEMMA JumpTakes ==
  ASSUME TypeInv, NEW j \in Jobs, NEW stage \in Stages,
         Becomes(j, Goto(job[j], stage)),
         job[j].pc = "clean" => job[j].cleaning = <<>>,
         job[j].pc = "find" => job[j].claims = <<>>,
         <<job[j].pc, stage>> \in
            {<<"idle", "list">>, <<"find", "prepare">>, <<"check", "init">>,
             <<"check", "backup">>, <<"init", "backup">>, <<"clean", "done">>}
  PROVE  Takes(j)
<1>1. Jumps(job[j], Goto(job[j], stage))
  BY Hand, GotoFacts DEF Jumps
<1> QED BY <1>1, Hand, GotoFacts, BecomesTakes DEF LocalStep

\* Do returns an error or panics, having remembered a name at most.
LEMMA ReturnTakes ==
  ASSUME TypeInv, NEW j \in Jobs, job[j].pc \in Working,
         NEW outcome \in Outcomes \ {"ok"}, NEW r \in JobState,
         Same(job[j], r, LoopFields \cup {"pc", "deployNames"}),
         \/ r.deployNames = job[j].deployNames
         \/ CanDeploy(job[j]) /\ Remembers(j, job[j], r),
         Becomes(j, Returned(r, outcome))
  PROVE  Takes(j)
<1> DEFINE q == Returned(r, outcome)
<1>1. /\ q \in JobState /\ q.pc = "clean" /\ q.cleaning = DeployKinds
      /\ q.results = Append(r.results, outcome)
      /\ Same(r, q, LoopFields \cup {"pc", "cleaning", "results"})
  BY ReturnedFacts
<1> HIDE DEF q
<1>2. /\ q.results = Append(job[j].results, outcome)
      /\ q.deployNames = r.deployNames
  BY <1>1 DEF Same, Fields, LoopFields
<1>3. Same(job[j], q, LoopFields \cup {"pc", "deployNames", "cleaning", "results"})
  BY <1>1 DEF Same
<1>4. \/ q.deployNames = job[j].deployNames
      \/ CanDeploy(job[j]) /\ Remembers(j, job[j], q)
  BY <1>2 DEF Remembers
<1>5. Returns(j, job[j], q)
  BY <1>1, <1>2, <1>3, <1>4 DEF Returns
<1> QED BY <1>1, <1>5, BecomesTakes DEF LocalStep, q

\* A call fails.
LEMMA FailsTakes ==
  ASSUME TypeInv, NEW j \in Jobs, job[j].pc \in Working, NEW f, Fails(j, f)
  PROVE  Takes(j) /\ Shared'
<1>1. Takes(j)
  <2>1. Same(job[j], job[j], LoopFields \cup {"pc", "deployNames"})
    BY DEF Same
  <2> QED BY <2>1, Hand, ReturnTakes DEF Fails, Outcomes
<1>2. Shared'
  BY Hand, LocalShared DEF Fails
<1> QED BY <1>1, <1>2

\* The process is gone.
LEMMA VanishTakes ==
  ASSUME TypeInv, NEW j \in Jobs, job[j].pc \notin {"idle", "done"},
         NEW outcome \in {"exit", "killed"}, Becomes(j, Ended(job[j], outcome))
  PROVE  Takes(j)
<1>0. job[j] \in JobState /\ outcome \in Outcomes
  BY Hand DEF Outcomes
<1>1. /\ Ended(job[j], outcome) \in JobState
      /\ Ended(job[j], outcome).pc = "done"
      /\ Ended(job[j], outcome).results = Append(job[j].results, outcome)
      /\ Same(job[j], Ended(job[j], outcome),
              LoopFields \cup {"pc", "cleaning", "results"})
  BY <1>0, EndedFacts
<1>2. Vanishes(job[j], Ended(job[j], outcome))
  BY <1>1 DEF Vanishes
<1> QED BY <1>1, <1>2, BecomesTakes DEF LocalStep

\* Apply keeps a Deployment of a node in its name and, for a storage, with a
\* repository.
LEMMA ApplyShared ==
  ASSUME Shared, NEW d \in DeployName,
         NEW content \in [node: Nodes \cup {Nil}, repo: Repos \cup {Nil}],
         \E name \in BackupNames : d.rest = Joined(content.node, name),
         d.kind \in BackupKinds => content.repo \in Repos /\ content.node \in Nodes,
         Apply(d, content) \/ UNCHANGED <<deployments, issued>>,
         UNCHANGED <<repos, placement, moves>>,
         UNCHANGED faults \/ \E f : Fault(f)
  PROVE  Shared'
<1>1. faults' \in 0..MaxFaults
  BY BoundsAssumption DEF Shared, Fault
<1>2. CASE UNCHANGED <<deployments, issued>>
  BY <1>1, <1>2 DEF Shared, HelperInv, PlacementInv
<1>3. CASE /\ issued' = issued + 1
           /\ deployments' = [deployments EXCEPT
                ![d] = [content |-> content, id |-> issued']]
  <2>1. [content |-> content, id |-> issued'] \in Deployment /\ issued' \in Nat
    BY <1>3 DEF Deployment, Shared
  <2>2. deployments' \in [DeployName -> Deployment \cup {Nil}]
    BY <1>3, <2>1 DEF Shared
  <2>3. /\ deployments'[d].content = content
        /\ \A e \in DeployName : e # d => deployments'[e] = deployments[e]
    BY <1>3 DEF Shared
  <2>4. HelperInv' /\ PlacementInv'
    BY <2>3 DEF Shared, HelperInv, PlacementInv
  <2> QED BY <1>1, <2>1, <2>2, <2>4 DEF Shared
<1> QED BY <1>2, <1>3 DEF Apply

\* Deploy: a helper is named after the Backup in hand and applied.
LEMMA DeployTakes ==
  ASSUME TypeInv, NEW j \in Jobs, NEW kind \in Range(DeployKinds),
         kind = KindIn(job[j]),
         NEW m, m = MetaIn(job[j], Subject(job[j])), m.node \in Nodes \cup {Nil},
         NEW content \in [node: Nodes \cup {Nil}, repo: Repos \cup {Nil}],
         content.node = m.node,
         kind \in BackupKinds => content.repo \in Repos /\ content.node \in Nodes,
         NEW stage \in {"findExec", "acquire"},
         job[j].pc = "find" => stage = "findExec" /\ job[j].claims # <<>>,
         job[j].pc = "deploy" => stage = "acquire",
         job[j].pc \in {"find", "deploy"},
         Deploy(j, kind, m, content, stage)
  PROVE  Takes(j) /\ Shared'
<1> DEFINE d == theDeployName(kind, Backup(j), m)
           named == [job[j] EXCEPT !.deployNames[kind] = d]
<1>1. /\ d \in NamesOf(InHand(j, job[j])) /\ d \in DeployName /\ d.kind = kind
      /\ d.rest = Joined(m.node, Specs[InHand(j, job[j])].name)
      /\ Specs[InHand(j, job[j])].name \in BackupNames
  BY Hand, SpecTypes, NameFacts
<1>2. /\ \/ /\ Apply(d, content)
            /\ Becomes(j, Goto(named, stage))
            /\ UNCHANGED faults
         \/ /\ Fault("apply")
            /\ Apply(d, content) \/ UNCHANGED <<deployments, issued>>
            /\ Becomes(j, Returned(named, "error"))
      /\ UNCHANGED <<repos, placement, moves>>
  BY DEF Deploy
<1> HIDE DEF d
<1>3. /\ named \in JobState
      /\ named.deployNames = [job[j].deployNames EXCEPT ![kind] = d]
      /\ Same(job[j], named, {"deployNames"})
  <2>1. job[j] \in JobState
    BY Hand
  <2> QED BY <1>1, <2>1, NamedFacts, Zenon
<1> HIDE DEF named
<1>4. Remembers(j, job[j], named)
  BY <1>1, <1>3 DEF Remembers
<1>5. ASSUME Becomes(j, Goto(named, stage)) PROVE Takes(j)
  <2> DEFINE q == Goto(named, stage)
  <2>1. q \in JobState /\ q.pc = stage /\ Same(named, q, {"pc"})
    BY <1>3, GotoFacts DEF Stages, Working, Looping, Serving, Searching
  <2> HIDE DEF q
  <2>2. q.deployNames = named.deployNames
    BY <2>1 DEF Same, Fields
  <2>3. Same(job[j], q, {"pc", "deployNames"})
    BY <1>3, <2>1 DEF Same
  <2>4. Remembers(j, job[j], q)
    BY <1>4, <2>2 DEF Remembers
  <2>5. Deploys(j, job[j], q)
    BY <2>1, <2>3, <2>4 DEF Deploys
  <2> QED BY <1>5, <2>1, <2>5, BecomesTakes DEF LocalStep, q
<1>6. ASSUME Becomes(j, Returned(named, "error")) PROVE Takes(j)
  <2>1. Same(job[j], named, LoopFields \cup {"pc", "deployNames"})
    BY <1>3 DEF Same
  <2>2. /\ job[j].pc \in Working /\ "error" \in Outcomes \ {"ok"}
        /\ CanDeploy(job[j])
    BY DEF Working, Looping, Serving, Searching, Outcomes, CanDeploy
  <2> QED BY <1>3, <1>4, <1>6, <2>1, <2>2, ReturnTakes
<1>7. Shared'
  BY <1>1, <1>2, Hand, ApplyShared
<1> QED BY <1>2, <1>5, <1>6, <1>7

\* The metadata of an entry of the map.
LEMMA MetaFacts ==
  ASSUME TypeInv, NEW j \in Jobs, NEW c \in AllClaims
  PROVE  /\ MetaOf(j, c) \in Meta \cup {ZeroMeta}
         /\ MetaOf(j, c).node \in Nodes \cup {Nil}
         /\ c \in Found(job[j]) => /\ MetaOf(j, c) \in Meta
                                   /\ MetaOf(j, c) = job[j].pvcpvMap[c]
<1>1. job[j].pvcpvMap[c] \in Meta \cup {Nil}
  BY Hand, FieldTypes
<1>2. MetaOf(j, c) \in Meta \cup {ZeroMeta}
  BY <1>1 DEF MetaOf
<1>3. MetaOf(j, c).node \in Nodes \cup {Nil}
  BY <1>2 DEF Meta, ZeroMeta
<1>4. c \in Found(job[j]) => MetaOf(j, c) = job[j].pvcpvMap[c]
  BY DEF MetaOf, Found
<1> QED BY <1>1, <1>2, <1>3, <1>4 DEF Found

\* Start.
LEMMA StartTakes ==
  ASSUME TypeInv, NEW j \in Jobs, Start(j)
  PROVE  Takes(j) /\ Shared'
<1>1. Takes(j)
  BY JumpTakes DEF Start, At, Stages, Working
<1>2. Shared'
  BY Hand, LocalShared DEF Start
<1> QED BY <1>1, <1>2

\* List: the pods are the target's, the map is empty.
LEMMA ListTakes ==
  ASSUME TypeInv, NEW j \in Jobs, List(j)
  PROVE  Takes(j) /\ Shared'
<1> DEFINE b == Backup(j)
           q == [job[j] EXCEPT !.pc = "prepare", !.pods = Listed(b),
                   !.pvcpvMap = [c \in AllClaims |-> Nil]]
<1>0. /\ job[j] \in JobState /\ job[j].pc = "list" /\ job[j].pc \in Working
      /\ b = InHand(j, job[j]) /\ b \in Backups /\ Shared
  BY Hand DEF List, At, Working
<1>1. CASE Fails(j, "get")
  BY <1>0, <1>1, FailsTakes
<1>2. CASE /\ Specs[b].resource \in Resources /\ Becomes(j, q)
           /\ LocalOnly /\ UNCHANGED faults
  <2>1. /\ Listed(b) \in Seq(PodObject)
        /\ Len(Listed(b)) = Len(Specs[b].pods)
        /\ \A m \in 1 .. Len(Listed(b)) :
             /\ Listed(b)[m].pod = Specs[b].pods[m]
             /\ Listed(b)[m].node \in TargetNodes(b)
    <3>1. Specs[b].pods \in Seq(Pods) /\ Len(Specs[b].pods) \in Nat
      BY <1>0, SpecTypes
    <3>2. ASSUME NEW m \in 1 .. Len(Specs[b].pods)
          PROVE  LET p == Specs[b].pods[m] IN
                 [pod |-> p, node |-> placement[p].node, uid |-> placement[p].uid]
                    \in PodObject
      BY <1>0, <3>1 DEF PodObject, Shared
    <3>3. ASSUME NEW m \in 1 .. Len(Specs[b].pods)
          PROVE  placement[Specs[b].pods[m]].node \in TargetNodes(b)
      <4>1. Specs[b].pods[m] \in Pods /\ Specs[b].pods[m] \in Range(Specs[b].pods)
        BY <3>1 DEF Range
      <4>2. CASE MaxMoves = 0
        <5>1. moves = 0
          BY <1>0, <4>2 DEF Shared
        <5> QED BY <1>0, <4>1, <4>2, <5>1 DEF Shared, PlacementInv, TargetNodes
      <4>3. CASE MaxMoves # 0
        BY <1>0, <4>1, <4>3 DEF Shared, TargetNodes
      <4> QED BY <4>2, <4>3
    <3> QED BY <3>1, <3>2, <3>3 DEF Listed
  <2> HIDE DEF b
  <2>2. [c \in AllClaims |-> Nil] \in [AllClaims -> Meta \cup {Nil}]
    OBVIOUS
  <2>3. q \in JobState
    <3>1. [job[j] EXCEPT !.pc = "prepare"] \in JobState
      BY <1>0 DEF JobState
    <3>2. [[job[j] EXCEPT !.pc = "prepare"] EXCEPT !.pods = Listed(b)] \in JobState
      BY <2>1, <3>1 DEF JobState
    <3> QED BY <2>2, <3>2 DEF JobState
  <2>4. /\ q.pc = "prepare" /\ q.pods = Listed(b)
        /\ q.pvcpvMap = [c \in AllClaims |-> Nil]
        /\ Same(job[j], q, {"pc", "pods", "pvcpvMap"})
    BY <1>0 DEF JobState, Same, Fields
  <2> HIDE DEF q
  <2>5. Found(q) = {}
    BY <2>4 DEF Found
  <2>6. Lists(j, job[j], q)
    BY <1>0, <2>1, <2>4, <2>5 DEF Lists
  <2> QED BY <1>0, <1>2, <2>3, <2>6, BecomesTakes, LocalShared DEF LocalStep
<1>3. CASE Becomes(j, Returned(job[j], "error")) /\ LocalOnly /\ UNCHANGED faults
  <2>1. Same(job[j], job[j], LoopFields \cup {"pc", "deployNames"})
    BY DEF Same
  <2> QED BY <1>0, <1>3, <2>1, ReturnTakes, LocalShared DEF Outcomes
<1> QED BY <1>1, <1>2, <1>3 DEF List

\* Prepare: the claims of the pod enter the map but for those whose lookup fails.
LEMMA PrepareTakes ==
  ASSUME TypeInv, NEW j \in Jobs, Prepare(j)
  PROVE  Takes(j) /\ Shared'
<1> DEFINE p == Head(job[j].pods)
           map(failed) == [c \in AllClaims |->
             IF c \in Range(Claims[p.pod]) \ failed
               THEN [pod |-> p.pod, node |-> p.node, uid |-> p.uid,
                     found |-> FALSE]
               ELSE job[j].pvcpvMap[c]]
           q(failed) == [job[j] EXCEPT !.pc = "find", !.claims = Claims[p.pod],
                           !.pods = Tail(@), !.pvcpvMap = map(failed)]
<1>0. /\ job[j] \in JobState /\ job[j].pc = "prepare" /\ Shared
      /\ job[j].pods \in Seq(PodObject) /\ job[j].pods # <<>>
      /\ job[j].pvcpvMap \in [AllClaims -> Meta \cup {Nil}]
  BY Hand, FieldTypes DEF Prepare, At
<1>1. /\ Tail(job[j].pods) \in Seq(PodObject)
      /\ p \in PodObject /\ p = job[j].pods[1]
  BY <1>0, TailFacts
<1>2. /\ Claims[p.pod] \in Seq(AllClaims) /\ Range(Claims[p.pod]) \subseteq AllClaims
  BY <1>1, ClaimTypes DEF PodObject
<1> HIDE DEF p
<1>3. ASSUME NEW failed, Becomes(j, q(failed)),
             "lookup" \notin Faults => failed = {}
      PROVE  Takes(j)
  <2> DEFINE m == [pod |-> p.pod, node |-> p.node, uid |-> p.uid, found |-> FALSE]
             r == q(failed)
  <2>1. m \in Meta /\ m # Nil
    <3>1. m \in Meta
      BY <1>1 DEF PodObject, Meta
    <3> HIDE DEF m
    <3> QED BY <3>1, AbsenceAssumption
  <2>2. map(failed) \in [AllClaims -> Meta \cup {Nil}]
    BY <1>0, <2>1
  <2>3. r \in JobState
    <3> DEFINE r1 == [job[j] EXCEPT !.pc = "find"]
               r2 == [r1 EXCEPT !.claims = Claims[p.pod]]
               r3 == [r2 EXCEPT !.pods = Tail(@)]
    <3> HIDE DEF map
    <3>1. r1 \in JobState
      BY <1>0 DEF JobState
    <3>2. r2 \in JobState /\ r2.pods = job[j].pods
      BY <1>0, <1>2, <3>1 DEF JobState
    <3>3. r3 \in JobState
      BY <1>1, <3>2 DEF JobState
    <3> QED BY <2>2, <3>3 DEF JobState
  <2>4. /\ r.pc = "find" /\ r.pods = Tail(job[j].pods) /\ r.pvcpvMap = map(failed)
        /\ r.claims = Claims[p.pod]
        /\ Same(job[j], r, {"pc", "pods", "claims", "pvcpvMap"})
    <3> HIDE DEF map
    <3> QED BY <1>0 DEF JobState, Same, Fields
  <2> HIDE DEF q
  <2>5. /\ Found(job[j]) \subseteq Found(r)
        /\ Found(r) \subseteq Found(job[j]) \cup Range(Claims[p.pod])
        /\ "lookup" \notin Faults => Range(Claims[p.pod]) \subseteq Found(r)
    BY <1>2, <1>3, <2>1, <2>4 DEF Found
  <2>6. ASSUME NEW c \in Found(r)
        PROVE  \/ r.pvcpvMap[c].node = p.node
               \/ c \in Found(job[j]) /\ r.pvcpvMap[c].node = job[j].pvcpvMap[c].node
    BY <2>4 DEF Found
  <2>7. Enters(j, job[j], r)
    BY <1>0, <1>1, <2>4, <2>5, <2>6 DEF Enters
  <2> QED BY <1>3, <2>3, <2>7, BecomesTakes DEF LocalStep
<1>4. CASE /\ LocalOnly
           /\ \/ Becomes(j, q({})) /\ UNCHANGED faults
              \/ \E failed \in (SUBSET Range(Claims[p.pod])) \ {{}} :
                   Fault("lookup") /\ Becomes(j, q(failed))
  <2>1. Takes(j)
    <3> HIDE DEF q
    <3> QED BY <1>3, <1>4 DEF Fault
  <2>2. Shared'
    BY <1>0, <1>4, LocalShared
  <2> QED BY <2>1, <2>2
<1>5. CASE Fails(j, "get")
  <2>1. job[j].pc \in Working
    BY <1>0 DEF Working, Searching
  <2> QED BY <1>5, <2>1, FailsTakes
<1> QED BY <1>4, <1>5 DEF Prepare, p

\* Prepared: the loops begin, unless nothing is mounted.
LEMMA PreparedTakes ==
  ASSUME TypeInv, NEW j \in Jobs, Prepared(j)
  PROVE  Takes(j) /\ Shared'
<1> DEFINE b == Backup(j)
           found == {c \in AllClaims : job[j].pvcpvMap[c] # Nil}
           q == [job[j] EXCEPT !.pc = "choose", !.todo = found,
                   !.storages = parseStorage(b)]
<1>0. /\ job[j] \in JobState /\ job[j].pc = "prepare" /\ job[j].pc \in Working
      /\ b = InHand(j, job[j]) /\ b \in Backups /\ Shared
      /\ job[j].pods = <<>> /\ LocalOnly /\ UNCHANGED faults
  BY Hand DEF Prepared, At, Working, Searching
<1>1. Shared'
  BY <1>0, LocalShared
<1>2. ASSUME Becomes(j, Returned(job[j], "error")) PROVE Takes(j)
  <2>1. Same(job[j], job[j], LoopFields \cup {"pc", "deployNames"})
    BY DEF Same
  <2> QED BY <1>0, <1>2, <2>1, ReturnTakes DEF Outcomes
<1>3. ASSUME Becomes(j, q), found # {} PROVE Takes(j)
  <2>1. parseStorage(b) \in Seq(StorageFields) /\ found \in SUBSET AllClaims
    BY <1>0, ParseStorage
  <2> HIDE DEF b
  <2>2. found = Found(job[j])
    BY DEF Found
  <2> HIDE DEF found
  <2>3. q \in JobState
    <3>1. [job[j] EXCEPT !.pc = "choose"] \in JobState
      BY <1>0 DEF JobState
    <3>2. [[job[j] EXCEPT !.pc = "choose"] EXCEPT !.todo = found] \in JobState
      BY <2>1, <3>1 DEF JobState
    <3> QED BY <2>1, <3>2 DEF JobState
  <2>4. /\ q.pc = "choose" /\ q.todo = found /\ q.storages = parseStorage(b)
        /\ Same(job[j], q, {"pc", "todo", "storages"})
    BY <1>0 DEF JobState, Same, Fields
  <2> HIDE DEF q
  <2>5. Loops(j, job[j], q)
    BY <1>0, <1>3, <2>2, <2>4 DEF Loops
  <2> QED BY <1>3, <2>3, <2>5, BecomesTakes DEF LocalStep
<1> QED BY <1>1, <1>2, <1>3 DEF Prepared

\* Findpvdir: the helper is applied for the next claim.
LEMMA FindpvdirTakes ==
  ASSUME TypeInv, NEW j \in Jobs, Findpvdir(j)
  PROVE  Takes(j) /\ Shared'
<1> DEFINE m == MetaOf(j, Head(job[j].claims))
<1>0. /\ job[j] \in JobState /\ job[j].pc = "find" /\ Shared
      /\ job[j].claims \in Seq(AllClaims)
  BY Hand, FieldTypes DEF Findpvdir, At
<1>1. CASE job[j].claims = <<>>
  <2>1. /\ Becomes(j, Goto(job[j], "prepare")) /\ LocalOnly /\ UNCHANGED faults
    BY <1>1 DEF Findpvdir
  <2>2. Takes(j)
    BY <1>0, <1>1, <2>1, JumpTakes DEF Stages, Working, Searching
  <2>3. Shared'
    BY <1>0, <2>1, LocalShared
  <2> QED BY <2>2, <2>3
<1>2. CASE job[j].claims # <<>>
  <2>1. /\ m.node \in Nodes \cup {Nil}
        /\ m = MetaIn(job[j], Subject(job[j]))
    BY <1>0, <1>2, MetaFacts, TailFacts DEF MetaOf, MetaIn, Subject
  <2>2. Deploy(j, "findpvdir", m, TemplateFindpvdir(m), "findExec")
    BY <1>2 DEF Findpvdir
  <2> HIDE DEF m
  <2>3. /\ TemplateFindpvdir(m) \in [node: Nodes \cup {Nil}, repo: Repos \cup {Nil}]
        /\ TemplateFindpvdir(m).node = m.node
    BY <2>1 DEF TemplateFindpvdir
  <2>4. /\ "findpvdir" \in Range(DeployKinds) /\ "findpvdir" \notin BackupKinds
        /\ KindIn(job[j]) = "findpvdir"
    BY <1>0, Kinds DEF BackupKinds, KindIn
  <2> QED BY <1>0, <1>2, <2>1, <2>2, <2>3, <2>4, DeployTakes
<1> QED BY <1>1, <1>2

\* FindExec: a directory is noted only in an entry that is there.
LEMMA FindExecTakes ==
  ASSUME TypeInv, NEW j \in Jobs, FindExec(j)
  PROVE  Takes(j) /\ Shared'
<1> DEFINE c == Head(job[j].claims)
           m == MetaOf(j, c)
           helper == deployments[theDeployName("findpvdir", Backup(j), m)]
           next == [job[j] EXCEPT !.pc = "find", !.claims = Tail(@)]
           noted == [next EXCEPT !.pvcpvMap[c] = [m EXCEPT !.found = TRUE]]
<1>0. /\ job[j] \in JobState /\ job[j].pc = "findExec" /\ job[j].pc \in Working
      /\ Shared
      /\ job[j].claims \in Seq(AllClaims) /\ job[j].claims # <<>>
      /\ job[j].pvcpvMap \in [AllClaims -> Meta \cup {Nil}]
  BY Hand, FieldTypes DEF FindExec, At, StageInv, Working, Searching
<1>1. /\ c \in AllClaims /\ Tail(job[j].claims) \in Seq(AllClaims)
      /\ m \in Meta \cup {ZeroMeta}
      /\ m # ZeroMeta => job[j].pvcpvMap[c] # Nil
  <2>1. c \in AllClaims /\ Tail(job[j].claims) \in Seq(AllClaims)
    BY <1>0, TailFacts
  <2> QED BY <2>1, MetaFacts DEF MetaOf
<1> HIDE DEF c, m
<1>2. /\ next \in JobState /\ next.pc = "find"
      /\ next.claims = Tail(job[j].claims)
      /\ Same(job[j], next, {"pc", "claims"})
  <2>1. [job[j] EXCEPT !.pc = "find"] \in JobState
    BY <1>0 DEF JobState
  <2>2. next \in JobState
    BY <1>0, <1>1, <2>1 DEF JobState
  <2> QED BY <1>0, <2>2 DEF JobState, Same, Fields
<1> HIDE DEF next
<1>3. ASSUME Becomes(j, next) PROVE Takes(j)
  <2>1. next.pvcpvMap = job[j].pvcpvMap /\ Found(next) = Found(job[j])
    BY <1>2 DEF Same, Fields, Found
  <2>2. Finds(job[j], next)
    BY <1>0, <1>2, <2>1 DEF Finds, Same
  <2> QED BY <1>2, <1>3, <2>2, BecomesTakes DEF LocalStep
<1>4. ASSUME Becomes(j, noted), m # ZeroMeta PROVE Takes(j)
  <2> DEFINE e == [m EXCEPT !.found = TRUE]
             map == [job[j].pvcpvMap EXCEPT ![c] = e]
  <2>1. e \in Meta /\ e.node = m.node
    BY <1>1, <1>4 DEF Meta
  <2> HIDE DEF e
  <2>2. e # Nil
    BY <2>1, AbsenceAssumption
  <2>3. map \in [AllClaims -> Meta \cup {Nil}]
    BY <1>0, <2>1
  <2>4. next.pvcpvMap = job[j].pvcpvMap
    BY <1>2 DEF Same, Fields
  <2>5. /\ noted \in JobState /\ noted.pc = "find" /\ noted.pvcpvMap = map
        /\ Same(next, noted, {"pvcpvMap"})
    <3>1. noted = [next EXCEPT !.pvcpvMap = map]
      BY <1>2, <2>4 DEF JobState, e
    <3> HIDE DEF map, noted
    <3> QED BY <1>2, <2>3, <3>1 DEF JobState, Same, Fields
  <2>6. /\ Found(noted) = Found(job[j])
        /\ \A f \in Found(job[j]) : noted.pvcpvMap[f].node = job[j].pvcpvMap[f].node
    <3>1. m = job[j].pvcpvMap[c]
      BY <1>1, <1>4 DEF m, MetaOf
    <3> QED BY <1>0, <1>1, <1>4, <2>1, <2>2, <2>5, <3>1 DEF Found
  <2> HIDE DEF noted
  <2>7. noted.claims = Tail(job[j].claims)
    BY <1>2, <2>5 DEF Same, Fields
  <2>8. Finds(job[j], noted)
    BY <1>0, <1>2, <2>5, <2>6, <2>7 DEF Finds, Same
  <2> QED BY <1>4, <2>5, <2>8, BecomesTakes DEF LocalStep
<1>5. ASSUME Becomes(j, Returned(job[j], "error")) PROVE Takes(j)
  <2>1. Same(job[j], job[j], LoopFields \cup {"pc", "deployNames"})
    BY DEF Same
  <2> QED BY <1>0, <1>5, <2>1, ReturnTakes DEF Outcomes
<1>6. CASE Fails(j, "wait") \/ Fails(j, "exec")
  BY <1>0, <1>6, FailsTakes
<1>7. CASE Fault("find") /\ Becomes(j, next) /\ LocalOnly
  BY <1>0, <1>3, <1>7, LocalShared
<1>8. CASE /\ Becomes(j,
                CASE helper = Nil -> Returned(job[j], "error")
                  [] helper # Nil /\ DirectoryExists(c, m, helper.content.node) -> noted
                  [] OTHER -> next)
           /\ LocalOnly /\ UNCHANGED faults
  <2>1. \/ Becomes(j, Returned(job[j], "error"))
        \/ Becomes(j, noted) /\ m # ZeroMeta
        \/ Becomes(j, next)
    <3> HIDE DEF noted
    <3> QED BY <1>8 DEF DirectoryExists
  <2>2. Takes(j)
    <3> HIDE DEF noted
    <3> QED BY <1>3, <1>4, <1>5, <2>1
  <2> QED BY <1>0, <1>8, <2>2, LocalShared
<1> QED BY <1>6, <1>7, <1>8 DEF FindExec, c, m, helper, next

\* NextStorage: nil is returned after the last storage.
LEMMA NextStorageTakes ==
  ASSUME TypeInv, NEW j \in Jobs, NextStorage(j)
  PROVE  Takes(j) /\ Shared'
<1> DEFINE found == {c \in AllClaims : job[j].pvcpvMap[c] # Nil}
           q == [job[j] EXCEPT !.storages = Tail(@), !.todo = found]
<1>0. /\ job[j] \in JobState /\ job[j].pc = "choose" /\ job[j].pc \in Working
      /\ Shared /\ LocalOnly /\ UNCHANGED faults
      /\ job[j].storages = <<>> \/ job[j].todo = {}
      /\ job[j].storages \in Seq(StorageFields)
  BY Hand, FieldTypes DEF NextStorage, At, Working, Looping
<1>1. Shared'
  BY <1>0, LocalShared
<1>2. CASE Len(job[j].storages) <= 1
  <2> DEFINE r == Returned(job[j], "ok")
  <2>1. Becomes(j, r)
    BY <1>2 DEF NextStorage
  <2>2. /\ r \in JobState /\ r.pc = "clean" /\ r.cleaning = DeployKinds
        /\ r.results = Append(job[j].results, "ok")
        /\ Same(job[j], r, LoopFields \cup {"pc", "cleaning", "results"})
    BY <1>0, ReturnedFacts DEF Outcomes
  <2> HIDE DEF r
  <2>3. r.deployNames = job[j].deployNames
    BY <2>2 DEF Same, Fields, LoopFields
  <2>4. Same(job[j], r, LoopFields \cup {"pc", "deployNames", "cleaning", "results"})
    BY <2>2 DEF Same
  <2>5. Returns(j, job[j], r)
    BY <1>0, <1>2, <2>2, <2>3, <2>4 DEF Returns, Outcomes
  <2>6. Takes(j)
    BY <2>1, <2>2, <2>5, BecomesTakes DEF LocalStep
  <2> QED BY <1>1, <2>6
<1>3. CASE ~(Len(job[j].storages) <= 1)
  <2>1. /\ Becomes(j, q) /\ job[j].storages # <<>>
        /\ Len(job[j].storages) > 1 /\ job[j].todo = {}
    BY <1>0, <1>3 DEF NextStorage
  <2>2. Tail(job[j].storages) \in Seq(StorageFields)
    BY <1>0, <2>1, TailFacts
  <2>3. found = Found(job[j]) /\ found \in SUBSET AllClaims
    BY DEF Found
  <2> HIDE DEF found
  <2>4. q \in JobState
    <3>1. [job[j] EXCEPT !.storages = Tail(@)] \in JobState
      BY <1>0, <2>2 DEF JobState
    <3> QED BY <2>3, <3>1 DEF JobState
  <2>5. /\ q.pc = "choose" /\ q.storages = Tail(job[j].storages) /\ q.todo = found
        /\ Same(job[j], q, {"todo", "storages"})
    BY <1>0 DEF JobState, Same, Fields
  <2> HIDE DEF q
  <2>6. Turns(job[j], q)
    BY <1>0, <2>1, <2>3, <2>5 DEF Turns
  <2> QED BY <1>1, <2>1, <2>4, <2>6, BecomesTakes DEF LocalStep
<1> QED BY <1>2, <1>3

\* PickClaim: a storage with a helper leads on, another is an error.
LEMMA PickClaimTakes ==
  ASSUME TypeInv, NEW j \in Jobs, PickClaim(j)
  PROVE  Takes(j) /\ Shared'
<1>0. /\ job[j] \in JobState /\ job[j].pc = "choose" /\ job[j].pc \in Working
      /\ Shared /\ LocalOnly
      /\ job[j].storages # <<>> /\ job[j].storages \in Seq(StorageFields)
      /\ job[j].todo \subseteq AllClaims
  BY Hand, FieldTypes DEF PickClaim, At, Working, Looping, JobState
<1>1. Storage(j) = job[j].storages[1] /\ Storage(j) \in StorageFields
  BY <1>0, TailFacts DEF Storage
<1>2. PICK c \in job[j].todo :
        LET r == [job[j] EXCEPT !.pvc = c, !.todo = @ \ {c}] IN
        \/ /\ Becomes(j,
                CASE Storage(j) = "pvc" -> Returned(r, "error")
                  [] Storage(j) \in Range(DeployKinds) -> Goto(r, "deploy")
                  [] OTHER -> Returned(r, IF MetaOf(j, c).found
                                            THEN "panic" ELSE "error"))
           /\ UNCHANGED faults
        \/ Fault("wait") /\ Becomes(j, Returned(r, "error"))
  BY DEF PickClaim
<1> DEFINE r == [job[j] EXCEPT !.pvc = c, !.todo = @ \ {c}]
<1>3. /\ r \in JobState /\ r.pc = "choose"
      /\ r.pvc = c /\ r.todo = job[j].todo \ {c}
      /\ Same(job[j], r, {"pvc", "todo"})
  <2>1. [job[j] EXCEPT !.pvc = c] \in JobState
    BY <1>0 DEF JobState
  <2>2. r \in JobState
    BY <1>0, <2>1 DEF JobState
  <2> QED BY <1>0, <2>2 DEF JobState, Same, Fields
<1>4. \/ Becomes(j, Goto(r, "deploy")) /\ Storage(j) \in Range(DeployKinds)
      \/ \E outcome \in Outcomes \ {"ok"} : Becomes(j, Returned(r, outcome))
  <2> HIDE DEF r
  <2>1. "error" \in Outcomes \ {"ok"} /\ "panic" \in Outcomes \ {"ok"}
    BY DEF Outcomes
  <2>2. \/ Becomes(j, Goto(r, "deploy")) /\ Storage(j) \in Range(DeployKinds)
        \/ Becomes(j, Returned(r, "error")) \/ Becomes(j, Returned(r, "panic"))
    BY <1>2 DEF r
  <2> QED BY <2>1, <2>2
<1> HIDE DEF r
<1>5. ASSUME Becomes(j, Goto(r, "deploy")), Storage(j) \in Range(DeployKinds)
      PROVE  Takes(j)
  <2> DEFINE q == Goto(r, "deploy")
  <2>1. q \in JobState /\ q.pc = "deploy" /\ Same(r, q, {"pc"})
    BY <1>3, GotoFacts DEF Stages, Working, Looping, Serving
  <2> HIDE DEF q
  <2>2. /\ q.pvc = c /\ q.todo = job[j].todo \ {c}
        /\ Same(job[j], q, {"pc", "pvc", "todo"})
    BY <1>3, <2>1 DEF Same, Fields
  <2>3. Storage(j) \in BackupKinds
    BY <1>1, <1>5, Kinds DEF StorageFields
  <2>4. Picks(job[j], q)
    BY <1>0, <1>1, <2>1, <2>2, <2>3 DEF Picks
  <2> QED BY <1>5, <2>1, <2>4, BecomesTakes DEF LocalStep, q
<1>6. ASSUME NEW outcome \in Outcomes \ {"ok"}, Becomes(j, Returned(r, outcome))
      PROVE  Takes(j)
  <2>1. /\ r.deployNames = job[j].deployNames
        /\ Same(job[j], r, LoopFields \cup {"pc", "deployNames"})
    BY <1>3 DEF Same, Fields, LoopFields
  <2> QED BY <1>0, <1>3, <1>6, <2>1, ReturnTakes
<1>7. Shared'
  BY <1>0, <1>2, LocalShared
<1> QED BY <1>4, <1>5, <1>6, <1>7

\* The repository of the storage in hand, and the metadata of the entry.
LEMMA ServingFacts ==
  ASSUME TypeInv, NEW j \in Jobs, job[j].pc \in Serving
  PROVE  /\ job[j].storages # <<>> /\ Storage(j) = job[j].storages[1]
         /\ Storage(j) \in BackupKinds /\ Storage(j) \in Range(DeployKinds)
         /\ Storage(j) \in DOMAIN Specs[Backup(j)].backupTo
         /\ Repo(j) \in Repos
         /\ job[j].pvc \in AllClaims
         /\ MetaOf(j, job[j].pvc) = job[j].pvcpvMap[job[j].pvc]
         /\ MetaOf(j, job[j].pvc) \in Meta
         /\ MetaOf(j, job[j].pvc).node \in Nodes
<1>1. /\ job[j].storages # <<>> /\ job[j].storages[1] \in BackupKinds
      /\ job[j].pvc \in Found(job[j])
      /\ job[j].storages \in Seq(StorageFields) /\ Len(job[j].storages) \in Nat
  BY Hand, FieldTypes DEF StageInv
<1>2. Storage(j) = job[j].storages[1] /\ Storage(j) \in Range(job[j].storages)
  BY <1>1, TailFacts DEF Storage, Range
<1>3. Storage(j) \in DOMAIN Specs[Backup(j)].backupTo
  BY <1>2, Hand DEF StorageInv, Looping
<1>4. Repo(j) \in Repos
  BY <1>3, Hand, SpecTypes DEF Repo
<1>5. /\ MetaOf(j, job[j].pvc) = job[j].pvcpvMap[job[j].pvc]
      /\ MetaOf(j, job[j].pvc) \in Meta /\ job[j].pvc \in AllClaims
  BY <1>1, MetaFacts DEF Found
<1>6. MetaOf(j, job[j].pvc).node \in Nodes
  BY <1>5 DEF Meta
<1>7. Storage(j) \in Range(DeployKinds)
  BY <1>1, <1>2, Kinds
<1> QED BY <1>1, <1>2, <1>3, <1>4, <1>5, <1>6, <1>7

\* The helper for the storage in hand is applied.
LEMMA DeployForStorage ==
  ASSUME TypeInv, NEW j \in Jobs, job[j].pc = "deploy", NEW m, NEW content,
         m = MetaOf(j, job[j].pvc), content = [node |-> m.node, repo |-> Repo(j)],
         Deploy(j, Storage(j), m, content, "acquire")
  PROVE  Takes(j) /\ Shared'
<1>1. /\ m.node \in Nodes \cup {Nil} /\ Storage(j) \in Range(DeployKinds)
      /\ Repo(j) \in Repos /\ m = MetaIn(job[j], Subject(job[j]))
      /\ Storage(j) = KindIn(job[j]) /\ m.node \in Nodes
  BY ServingFacts DEF Serving, MetaOf, MetaIn, Subject, KindIn
<1>2. /\ content \in [node: Nodes \cup {Nil}, repo: Repos \cup {Nil}]
      /\ content.node = m.node /\ content.repo \in Repos
  BY <1>1
<1> QED BY <1>1, <1>2, DeployTakes

\* createBackup2nfsDeployment and the like.
LEMMA CreateTakes ==
  ASSUME TypeInv, NEW j \in Jobs,
         \/ createBackup2nfsDeployment(j)
         \/ createBackup2minioDepoyment(j)
         \/ createBackup2sftpDeployment(j)
  PROVE  Takes(j) /\ Shared'
<1> DEFINE m == MetaOf(j, job[j].pvc)
           content == [node |-> m.node, repo |-> Repo(j)]
<1>0. /\ job[j].pc = "deploy" /\ job[j].pc \in Working
      /\ job[j].pc \notin {"idle", "done"}
  BY DEF createBackup2nfsDeployment, createBackup2minioDepoyment,
         createBackup2sftpDeployment, At, Working, Looping, Serving
<1>1. \/ Deploy(j, Storage(j), m, content, "acquire")
      \/ \E f : Fails(j, f)
      \/ MakeBucketFails(j)
  BY Zenon DEF createBackup2nfsDeployment, createBackup2minioDepoyment,
         createBackup2sftpDeployment, TemplateBackup2nfs, TemplateBackup2minio,
         TemplateBackup2sftp, MakeDirOnSftpFails
<1>2. CASE Deploy(j, Storage(j), m, content, "acquire")
  BY <1>0, <1>2, DeployForStorage
<1>3. CASE \E f : Fails(j, f)
  BY <1>0, <1>3, FailsTakes
<1>4. CASE MakeBucketFails(j)
  BY <1>0, <1>4, Hand, VanishTakes, LocalShared DEF MakeBucketFails
<1> QED BY <1>1, <1>2, <1>3, <1>4

\* filterRunningPod takes a pod of the Deployment that was named.
LEMMA FilterTakes ==
  ASSUME TypeInv, NEW j \in Jobs, filterRunningPod(j)
  PROVE  Takes(j) /\ Shared'
<1> DEFINE d == theDeployName(Storage(j), Backup(j), MetaOf(j, job[j].pvc))
           pod == [deploy |-> d, id |-> deployments[d].id]
           q == [job[j] EXCEPT !.pc = "check", !.execPod = pod]
<1>0. /\ job[j] \in JobState /\ job[j].pc = "acquire" /\ job[j].pc \in Working
      /\ Shared /\ Backup(j) = InHand(j, job[j]) /\ Backup(j) \in Backups
  BY Hand DEF filterRunningPod, At, Working, Looping, Serving
<1>1. /\ d \in DeployName
      /\ d = theDeployName(job[j].storages[1], InHand(j, job[j]),
                           job[j].pvcpvMap[job[j].pvc])
  BY <1>0, ServingFacts, NameFacts DEF Serving
<1> HIDE DEF d
<1>2. CASE Fails(j, "wait")
  BY <1>0, <1>2, FailsTakes
<1>3. ASSUME deployments[d] # Nil, Becomes(j, q) PROVE Takes(j)
  <2>1. pod \in HelperPod /\ pod.deploy = d
    BY <1>0, <1>1, <1>3 DEF Shared, Deployment, HelperPod
  <2> HIDE DEF pod
  <2>2. q \in JobState
    <3>1. [job[j] EXCEPT !.pc = "check"] \in JobState
      BY <1>0 DEF JobState
    <3> QED BY <2>1, <3>1 DEF JobState
  <2>3. q.pc = "check" /\ q.execPod = pod /\ Same(job[j], q, {"pc", "execPod"})
    BY <1>0 DEF JobState, Same, Fields
  <2> HIDE DEF q
  <2>4. Acquires(j, job[j], q)
    BY <1>0, <1>1, <2>1, <2>3 DEF Acquires
  <2> QED BY <1>3, <2>2, <2>4, BecomesTakes DEF LocalStep
<1>4. ASSUME Becomes(j, Returned(job[j], "error")) PROVE Takes(j)
  <2>1. Same(job[j], job[j], LoopFields \cup {"pc", "deployNames"})
    BY DEF Same
  <2> QED BY <1>0, <1>4, <2>1, ReturnTakes DEF Outcomes
<1>5. CASE /\ Becomes(j, IF deployments[d] # Nil /\ MetaOf(j, job[j].pvc).found
                           THEN q ELSE Returned(job[j], "error"))
           /\ LocalOnly /\ UNCHANGED faults
  <2> HIDE DEF q
  <2> QED BY <1>0, <1>3, <1>4, <1>5, LocalShared
<1> QED BY <1>2, <1>5 DEF filterRunningPod, d

\* CheckRepo.
LEMMA CheckTakes ==
  ASSUME TypeInv, NEW j \in Jobs, CheckRepo(j)
  PROVE  Takes(j) /\ Shared'
<1>1. /\ job[j].pc = "check" /\ Shared /\ LocalOnly
      /\ \/ Becomes(j, Goto(job[j], "backup")) /\ UNCHANGED faults
         \/ Becomes(j, Goto(job[j], "init")) /\ UNCHANGED faults
         \/ Fault("exec") /\ Becomes(j, Goto(job[j], "init"))
  BY Hand DEF CheckRepo, At
<1>2. Takes(j)
  BY <1>1, JumpTakes DEF Stages, Working, Looping, Serving, InHelper
<1>3. Shared'
  BY <1>1, LocalShared
<1> QED BY <1>2, <1>3

\* The content of the helper a process executes commands in.
LEMMA ContentFacts ==
  ASSUME TypeInv, NEW j \in Jobs, job[j].pc \in InHelper, Running(job[j].execPod)
  PROVE  /\ job[j].execPod.deploy \in DeployName
         /\ job[j].execPod.deploy =
              theDeployName(Storage(j), Backup(j), MetaOf(j, job[j].pvc))
         /\ deployments[job[j].execPod.deploy] # Nil
         /\ Content(j).repo \in Repos
         /\ Content(j).node \in Nodes
<1> DEFINE d == job[j].execPod.deploy
<1>1. /\ d \in DeployName /\ deployments[d] # Nil
      /\ d = theDeployName(job[j].storages[1], InHand(j, job[j]),
                           job[j].pvcpvMap[job[j].pvc])
  BY Hand DEF StageInv, HelperPod, Running
<1>2. /\ Storage(j) = job[j].storages[1] /\ Storage(j) \in BackupKinds
      /\ MetaOf(j, job[j].pvc) = job[j].pvcpvMap[job[j].pvc]
      /\ Backup(j) = InHand(j, job[j])
  BY ServingFacts, Hand DEF Serving
<1>3. d.kind = Storage(j)
  BY <1>1, <1>2 DEF theDeployName
<1>4. /\ deployments[d].content.node \in Nodes
      /\ deployments[d].content.repo \in Repos
  BY <1>1, <1>2, <1>3 DEF TypeInv, HelperInv
<1> QED BY <1>1, <1>2, <1>3, <1>4 DEF Content

\* InitRepo.
LEMMA InitRepoTakes ==
  ASSUME TypeInv, NEW j \in Jobs, InitRepo(j)
  PROVE  Takes(j) /\ Shared'
<1>0. /\ job[j] \in JobState /\ job[j].pc = "init" /\ job[j].pc \in Working
      /\ job[j].pc \in InHelper /\ Shared
  BY Hand DEF InitRepo, At, Working, Looping, Serving, InHelper
<1>1. CASE Fails(j, "exec")
  BY <1>0, <1>1, FailsTakes
<1>2. CASE /\ Running(job[j].execPod)
           /\ repos' = repos \cup {Content(j).repo}
           /\ Becomes(j, Goto(job[j], "backup"))
           /\ UNCHANGED <<deployments, issued, placement, faults, moves>>
  <2>1. Takes(j)
    BY <1>0, <1>2, JumpTakes DEF Stages, Working, Looping, Serving, InHelper
  <2>2. Shared'
    BY <1>0, <1>2, ContentFacts DEF Shared, HelperInv, PlacementInv
  <2> QED BY <2>1, <2>2
<1>3. ASSUME NEW outcome \in {"error", "refused"},
             Becomes(j, Returned(job[j], outcome)), UNCHANGED repos,
             UNCHANGED <<deployments, issued, placement, faults, moves>>
      PROVE  Takes(j) /\ Shared'
  <2>1. Same(job[j], job[j], LoopFields \cup {"pc", "deployNames"})
    BY DEF Same
  <2> QED BY <1>0, <1>3, <2>1, ReturnTakes, LocalShared DEF Outcomes, LocalOnly
<1> QED BY <1>1, <1>2, <1>3 DEF InitRepo

\* ResticBackup.
LEMMA ResticTakes ==
  ASSUME TypeInv, NEW j \in Jobs, ResticBackup(j)
  PROVE  Takes(j) /\ Shared'
<1> DEFINE c == job[j].pvc
           m == MetaOf(j, c)
           nth == 1 + Cardinality({u \in job[j].taken :
                    u.arg = job[j].arg /\ u.pvc = c /\ u.storage = Storage(j)})
           t == [arg |-> job[j].arg, pvc |-> c, storage |-> Storage(j),
                 repo |-> Content(j).repo, node |-> Content(j).node, meta |-> m,
                 nth |-> nth]
           q == [job[j] EXCEPT !.pc = "choose", !.execPod = Nil,
                   !.taken = @ \cup {t}]
<1>0. /\ job[j] \in JobState /\ job[j].pc = "backup" /\ job[j].pc \in Working
      /\ job[j].pc \in InHelper /\ job[j].pc \in Serving /\ Shared
  BY Hand DEF ResticBackup, At, Working, Looping, Serving, InHelper
<1>1. CASE Fails(j, "exec")
  BY <1>0, <1>1, FailsTakes
<1>2. ASSUME Running(job[j].execPod), Becomes(j, q) PROVE Takes(j)
  <2>1. /\ c \in AllClaims /\ m \in Meta /\ m.node \in Nodes
        /\ Storage(j) \in StorageFields /\ Storage(j) = job[j].storages[1]
        /\ Content(j).repo \in Repos /\ Content(j).node \in Nodes
        /\ job[j].arg \in Nat
    BY <1>0, <1>2, ServingFacts, ContentFacts, FieldTypes, Kinds
  <2>2. nth = 1 + Cardinality(Earlier(job[j])) /\ nth = 1
    <3>1. nth = 1 + Cardinality(Earlier(job[j]))
      BY <2>1, Zenon DEF Earlier
    <3>2. StageInv(j, job[j]) /\ OnceInv(j, job[j])
      BY Hand
    <3>3. 1 + Cardinality(Earlier(job[j])) = 1
      BY <1>0, <3>2, FirstOfEntry
    <3> QED BY <3>1, <3>3, Zenon
  <2>3. t \in Snapshot
    <3> HIDE DEF nth, c, m
    <3> QED BY <2>1, <2>2 DEF Snapshot
  <2>4. /\ t.arg = job[j].arg /\ t.pvc = c /\ t.storage = Storage(j)
        /\ t.nth = nth
    <3> HIDE DEF nth, c, m
    <3> QED OBVIOUS
  <2> HIDE DEF t
  <2>5. q \in JobState
    <3>1. [job[j] EXCEPT !.pc = "choose"] \in JobState
      BY <1>0 DEF JobState
    <3>2. [[job[j] EXCEPT !.pc = "choose"] EXCEPT !.execPod = Nil] \in JobState
      BY <3>1 DEF JobState
    <3> QED BY <2>3, <3>2 DEF JobState
  <2>6. /\ q.pc = "choose" /\ q.taken = job[j].taken \cup {t}
        /\ Same(job[j], q, {"pc", "execPod", "taken"})
    BY <1>0 DEF JobState, Same, Fields
  <2> HIDE DEF q
  <2>7. Saves(job[j], q)
    <3> HIDE DEF nth, c, m
    <3>1. t.nth = 1 + Cardinality(Earlier(job[j]))
      BY <2>2, <2>4
    <3>2. t.arg = job[j].arg /\ t.pvc = job[j].pvc /\ t.storage = job[j].storages[1]
      BY <2>1, <2>4 DEF c
    <3> QED BY <1>0, <2>6, <3>1, <3>2 DEF Saves
  <2> QED BY <1>2, <2>5, <2>7, BecomesTakes DEF LocalStep
<1>3. ASSUME Becomes(j, Returned(job[j], "error")) PROVE Takes(j)
  <2>1. Same(job[j], job[j], LoopFields \cup {"pc", "deployNames"})
    BY DEF Same
  <2> QED BY <1>0, <1>3, <2>1, ReturnTakes DEF Outcomes
<1>4. CASE /\ Becomes(j, IF Running(job[j].execPod) /\ PathExists(c, m, Content(j).node)
                           THEN q ELSE Returned(job[j], "error"))
           /\ LocalOnly /\ UNCHANGED faults
  <2> HIDE DEF q, c, m
  <2> QED BY <1>0, <1>2, <1>3, <1>4, LocalShared
<1> QED BY <1>1, <1>4, Zenon DEF ResticBackup

\* Clean.
LEMMA CleanTakes ==
  ASSUME TypeInv, NEW j \in Jobs, Clean(j)
  PROVE  Takes(j) /\ Shared'
<1> DEFINE q == [job[j] EXCEPT !.cleaning = Tail(@)]
           d == job[j].deployNames[Head(job[j].cleaning)]
<1>0. /\ job[j] \in JobState /\ job[j].pc = "clean" /\ Shared /\ Becomes(j, q)
      /\ job[j].cleaning # <<>> /\ job[j].cleaning \in Seq(Range(DeployKinds))
      /\ job[j].deployNames \in [Range(DeployKinds) -> DeployName \cup {Nil}]
  BY Hand DEF Clean, At, JobState
<1>1. /\ Tail(job[j].cleaning) \in Seq(Range(DeployKinds))
      /\ d \in DeployName \cup {Nil}
  BY <1>0, TailFacts
<1>2. Takes(j)
  <2>1. q \in JobState
    BY <1>0, <1>1 DEF JobState
  <2>2. /\ q.pc = "clean" /\ q.cleaning = Tail(job[j].cleaning)
        /\ Same(job[j], q, {"cleaning"})
    BY <1>0 DEF JobState, Same, Fields
  <2> HIDE DEF q
  <2>3. Cleans(job[j], q)
    BY <1>0, <2>2 DEF Cleans
  <2> QED BY <1>0, <2>1, <2>3, BecomesTakes DEF LocalStep
<1> HIDE DEF d
<1>3. /\ \/ deployments' = deployments
         \/ d # Nil /\ deployments' = [deployments EXCEPT ![d] = Nil]
      /\ UNCHANGED faults \/ Fault("delete")
      /\ UNCHANGED <<issued, repos, placement, moves>>
  BY DEF Clean, d
<1>4. deployments' \in [DeployName -> Deployment \cup {Nil}]
  BY <1>0, <1>1, <1>3 DEF Shared
<1>5. HelperInv' /\ PlacementInv'
  BY <1>0, <1>1, <1>3 DEF Shared, HelperInv, PlacementInv
<1>6. faults' \in 0..MaxFaults
  BY <1>0, <1>3, BoundsAssumption DEF Shared, Fault
<1> QED BY <1>0, <1>2, <1>3, <1>4, <1>5, <1>6 DEF Shared

\* NextArg.
LEMMA NextArgTakes ==
  ASSUME TypeInv, NEW j \in Jobs, NextArg(j)
  PROVE  Takes(j) /\ Shared'
<1> DEFINE q == [job[j] EXCEPT !.pc = "list", !.arg = @ + 1]
<1>0. /\ job[j] \in JobState /\ job[j].pc = "clean" /\ Shared
      /\ job[j].cleaning = <<>> /\ LocalOnly /\ UNCHANGED faults
      /\ job[j].arg \in 1 .. Len(Args[j]) /\ Len(Args[j]) \in Nat
  BY Hand, ArgTypes DEF NextArg, At, StageInv
<1>1. ASSUME Becomes(j, Goto(job[j], "done")) PROVE Takes(j)
  BY <1>0, <1>1, JumpTakes DEF Stages
<1>2. ASSUME Becomes(j, q), job[j].arg # Len(Args[j]) PROVE Takes(j)
  <2>1. q \in JobState
    <3>1. [job[j] EXCEPT !.pc = "list"] \in JobState
      BY <1>0 DEF JobState
    <3>2. job[j].arg + 1 \in Nat \ {0} /\ [job[j] EXCEPT !.pc = "list"].arg = job[j].arg
      BY <1>0 DEF JobState
    <3> QED BY <1>0, <3>1, <3>2 DEF JobState
  <2>2. /\ q.pc = "list" /\ q.arg = job[j].arg + 1
        /\ Same(job[j], q, {"pc", "arg"})
    BY <1>0 DEF JobState, Same, Fields
  <2> HIDE DEF q
  <2>3. Advances(j, job[j], q)
    BY <1>0, <1>2, <2>2 DEF Advances
  <2> QED BY <1>2, <2>1, <2>3, BecomesTakes DEF LocalStep
<1>3. Takes(j)
  <2>1. \/ Becomes(j, Goto(job[j], "done"))
        \/ Becomes(j, q) /\ job[j].arg # Len(Args[j])
    BY Zenon DEF NextArg
  <2> HIDE DEF q
  <2> QED BY <1>1, <1>2, <2>1
<1> QED BY <1>0, <1>3, LocalShared

\* Kill.
LEMMA KillTakes ==
  ASSUME TypeInv, NEW j \in Jobs, Kill(j)
  PROVE  Takes(j) /\ Shared'
BY Hand, VanishTakes, LocalShared DEF Kill

\* Every step of a process.
LEMMA ProcessTakes ==
  ASSUME TypeInv, NEW j \in Jobs, JobStep(j) \/ Kill(j)
  PROVE  Takes(j) /\ Shared'
BY StartTakes, ListTakes, PrepareTakes, PreparedTakes, FindpvdirTakes,
   FindExecTakes, NextStorageTakes, PickClaimTakes, CreateTakes, FilterTakes,
   CheckTakes, InitRepoTakes, ResticTakes, CleanTakes, NextArgTakes, KillTakes
   DEF JobStep

\* Reschedule leaves the processes alone.
LEMMA RescheduleShared ==
  ASSUME TypeInv, NEW p \in Pods, Reschedule(p)
  PROVE  job' = job /\ Shared'
<1>1. Shared /\ job' = job
  BY DEF Reschedule, TypeInv, TypeOK, Shared
<1>2. PICK n \in Nodes :
        placement' = [placement EXCEPT ![p] = [node |-> n, uid |-> @.uid + 1]]
  BY DEF Reschedule
<1>3. placement' \in [Pods -> [node: Nodes, uid: Nat]]
  <2>1. placement[p].uid + 1 \in Nat
    BY <1>1 DEF Shared
  <2>2. [node |-> n, uid |-> placement[p].uid + 1] \in [node: Nodes, uid: Nat]
    BY <2>1
  <2> QED BY <1>1, <1>2, <2>2 DEF Shared
<1>4. moves' \in 0..MaxMoves
  BY <1>1, BoundsAssumption DEF Reschedule, Shared
<1>5. HelperInv' /\ PlacementInv'
  BY <1>1 DEF Reschedule, Shared, HelperInv, PlacementInv
<1> QED BY <1>1, <1>3, <1>4, <1>5 DEF Reschedule, Shared

-----------------------------------------------------------------------------
(* The theorems about types, and about what is saved.                      *)

\* In every step at most one process changes its record, and it does so by one
\* of the relations.
LEMMA NextTakes ==
  ASSUME TypeInv, [Next]_vars
  PROVE  /\ Shared'
         /\ job' = job \/ \E j \in Jobs : Takes(j)
<1>1. CASE \E j \in Jobs : JobStep(j) \/ Kill(j)
  BY <1>1, ProcessTakes
<1>2. CASE \E p \in Pods : Reschedule(p)
  BY <1>2, RescheduleShared
<1>3. CASE UNCHANGED vars
  BY <1>3 DEF vars, TypeInv, TypeOK, Shared, HelperInv, PlacementInv
<1> QED BY <1>1, <1>2, <1>3 DEF Next

\* The records after a step, seen by each process.
LEMMA TakesOne ==
  ASSUME TypeInv, NEW j \in Jobs, Takes(j)
  PROVE  /\ job' \in [Jobs -> JobState]
         /\ \A i \in Jobs : i # j => job'[i] = job[i]
BY Hand DEF Takes

\* What is known of the idle record.
LEMMA IdleInv ==
  ASSUME NEW j \in Jobs
  PROVE  /\ LocalInv(j, Idle) /\ OnceInv(j, Idle) /\ CompleteInv(j, Idle)
         /\ NothingElseInv(j, Idle) /\ NamesInv(j, Idle)
<1> USE DEF Looping, Serving, InHelper, Searching, Working
<1>0. /\ Idle.pc = "idle" /\ Idle.arg = 1 /\ Idle.taken = {} /\ Idle.results = <<>>
      /\ Idle.deployNames = [k \in Range(DeployKinds) |-> Nil]
      /\ Len(Args[j]) \in Nat /\ Len(Args[j]) # 0
  BY ArgTypes DEF Idle
<1>1. LocalInv(j, Idle)
  BY <1>0 DEF LocalInv, StageInv, StorageInv, ResultInv
<1>2. OnceInv(j, Idle) /\ NothingElseInv(j, Idle)
  BY <1>0 DEF OnceInv, NothingElseInv
<1>3. CompleteInv(j, Idle)
  BY <1>0 DEF CompleteInv, MapComplete, LoopComplete, OkComplete
<1>4. NamesInv(j, Idle)
  BY <1>0 DEF NamesInv
<1> QED BY <1>1, <1>2, <1>3, <1>4

\* TypeInv holds at first.
LEMMA TypeInvInit == Init => TypeInv
<1> SUFFICES ASSUME Init PROVE TypeInv
  OBVIOUS
<1>1. job = [j \in Jobs |-> Idle] /\ job \in [Jobs -> JobState]
  BY IdleType DEF Init
<1>2. \A j \in Jobs : job[j] = Idle
  BY <1>1
<1>3. \A j \in Jobs : LocalInv(j, job[j]) /\ OnceInv(j, job[j])
  BY <1>2, IdleInv
<1>4. \A j \in Jobs : job[j].arg \in DOMAIN Args[j]
  BY <1>3, ArgTypes DEF LocalInv, StageInv
<1>5. deployments \in [DeployName -> Deployment \cup {Nil}] /\ HelperInv
  BY DEF Init, HelperInv
<1>6. placement \in [Pods -> [node: Nodes, uid: Nat]] /\ PlacementInv
  BY NodesAssumption DEF Init, PlacementInv
<1>7. issued \in Nat /\ repos \subseteq Repos /\ faults \in 0..MaxFaults
      /\ moves \in 0..MaxMoves
  BY BoundsAssumption DEF Init
<1> QED BY <1>1, <1>3, <1>4, <1>5, <1>6, <1>7 DEF TypeInv, TypeOK

\* TypeInv is inductive.
LEMMA TypeInvStep == TypeInv /\ [Next]_vars => TypeInv'
<1> SUFFICES ASSUME TypeInv, [Next]_vars PROVE TypeInv'
  OBVIOUS
<1>1. Shared' /\ (job' = job \/ \E j \in Jobs : Takes(j))
  BY NextTakes
<1>2. /\ job' \in [Jobs -> JobState]
      /\ \A j \in Jobs : LocalInv(j, job'[j]) /\ OnceInv(j, job'[j])
  <2>1. CASE job' = job
    BY <2>1 DEF TypeInv, TypeOK
  <2>2. ASSUME NEW j \in Jobs, Takes(j)
        PROVE  /\ job' \in [Jobs -> JobState]
               /\ \A i \in Jobs : LocalInv(i, job'[i]) /\ OnceInv(i, job'[i])
    <3>1. /\ job[j] \in JobState /\ job'[j] \in JobState
          /\ LocalInv(j, job[j]) /\ OnceInv(j, job[j])
          /\ LocalStep(j, job[j], job'[j])
      BY <2>2, Hand DEF Takes
    <3>2. LocalInv(j, job'[j]) /\ OnceInv(j, job'[j])
      BY <3>1, LocalInvStep, OnceStep
    <3>3. /\ job' \in [Jobs -> JobState]
          /\ \A i \in Jobs : i # j => job'[i] = job[i]
      BY <2>2, TakesOne
    <3>4. ASSUME NEW i \in Jobs, i # j
          PROVE  LocalInv(i, job'[i]) /\ OnceInv(i, job'[i])
      BY <3>3, <3>4, Hand
    <3> QED BY <3>2, <3>3, <3>4
  <2> QED BY <1>1, <2>1, <2>2
<1>3. \A j \in Jobs : job'[j].arg \in DOMAIN Args[j]
  BY <1>2, ArgTypes DEF LocalInv, StageInv
<1> QED BY <1>1, <1>2, <1>3 DEF TypeInv, TypeOK, Shared

\* The inductive invariant.
THEOREM TypeInvariant == Spec => []TypeInv
<1>1. TypeInv /\ [Next]_vars => TypeInv'
  BY TypeInvStep
<1> QED BY <1>1, TypeInvInit, PTL DEF Spec

\* The processes keep to their types; in particular none has an argument in
\* hand that it was not given (cmd/horusctl/backup.go, the loop over args).
THEOREM JobTypeCorrect == Spec => []TypeOK
<1>1. TypeInv => TypeOK
  BY DEF TypeInv
<1> QED BY <1>1, TypeInvariant, PTL

\* AtMostOnce for all processes, Backups, failures and moves: the map of claims
\* and the loop over the storages let no claim be saved twice in a storage.
THEOREM SavedAtMostOnce == Spec => []AtMostOnce
<1>1. TypeInv => AtMostOnce
  BY DEF TypeInv, OnceInv, AtMostOnce
<1> QED BY <1>1, TypeInvariant, PTL

\* What the records of all processes satisfy beside TypeInv.
ScopeInv ==
  \A j \in Jobs : NothingElseInv(j, job[j]) /\ NamesInv(j, job[j])

AllComplete == \A j \in Jobs : CompleteInv(j, job[j])

\* ScopeInv holds throughout.
LEMMA ScopeStep == TypeInv /\ ScopeInv /\ [Next]_vars => ScopeInv'
<1> SUFFICES ASSUME TypeInv, ScopeInv, [Next]_vars PROVE ScopeInv'
  OBVIOUS
<1>1. CASE job' = job
  BY <1>1 DEF ScopeInv
<1>2. ASSUME NEW j \in Jobs, Takes(j) PROVE ScopeInv'
  <2>1. /\ job[j] \in JobState /\ job'[j] \in JobState /\ LocalInv(j, job[j])
        /\ NothingElseInv(j, job[j]) /\ NamesInv(j, job[j])
        /\ LocalStep(j, job[j], job'[j])
    BY <1>2, Hand DEF Takes, ScopeInv
  <2>2. NothingElseInv(j, job'[j]) /\ NamesInv(j, job'[j])
    BY <2>1, NothingElseStep, NamesStep
  <2> QED BY <1>2, <2>2, TakesOne DEF ScopeInv
<1> QED BY <1>1, <1>2, NextTakes

\* So does AllComplete, if no lookup of a volume fails.
LEMMA AllCompleteStep ==
  ASSUME "lookup" \notin Faults
  PROVE  TypeInv /\ AllComplete /\ [Next]_vars => AllComplete'
<1> SUFFICES ASSUME TypeInv, AllComplete, [Next]_vars PROVE AllComplete'
  OBVIOUS
<1>1. CASE job' = job
  BY <1>1 DEF AllComplete
<1>2. ASSUME NEW j \in Jobs, Takes(j) PROVE AllComplete'
  <2>1. /\ job[j] \in JobState /\ job'[j] \in JobState /\ LocalInv(j, job[j])
        /\ CompleteInv(j, job[j]) /\ LocalStep(j, job[j], job'[j])
    BY <1>2, Hand DEF Takes, AllComplete
  <2>2. CompleteInv(j, job'[j])
    BY <2>1, CompleteStep
  <2> QED BY <1>2, <2>2, TakesOne DEF AllComplete
<1> QED BY <1>1, <1>2, NextTakes

\* Both hold at first.
LEMMA ScopeInit == Init => ScopeInv /\ AllComplete
<1> SUFFICES ASSUME Init PROVE ScopeInv /\ AllComplete
  OBVIOUS
<1>1. \A j \in Jobs : job[j] = Idle
  BY DEF Init
<1> QED BY <1>1, IdleInv DEF ScopeInv, AllComplete

\* Nothing but the target's claims is saved, in configured storages only, and
\* the names a process deletes by are of Backups it has had in hand.
THEOREM ScopeInvariant == Spec => []ScopeInv
<1>1. TypeInv /\ ScopeInv /\ [Next]_vars => ScopeInv'
  BY ScopeStep
<1>2. Init => ScopeInv
  BY ScopeInit
<1> QED BY <1>1, <1>2, TypeInvariant, PTL DEF Spec

\* SuccessIsComplete: whatever else fails, dies or moves, Do returns nil only
\* when everything the target mounts is saved everywhere.  The hypothesis is
\* needed: a claim whose lookup fails is skipped while Do goes on with the others.
THEOREM SuccessComplete ==
  ASSUME "lookup" \notin Faults
  PROVE  Spec => []SuccessIsComplete
<1>1. TypeInv /\ AllComplete /\ [Next]_vars => AllComplete'
  BY AllCompleteStep
<1>2. Init => AllComplete
  BY ScopeInit
<1>3. TypeInv /\ AllComplete => SuccessIsComplete
  <2> SUFFICES ASSUME TypeInv, AllComplete, NEW j \in Jobs,
                      NEW i \in DOMAIN job[j].results, job[j].results[i] = "ok",
                      NEW p \in Range(Specs[Args[j][i]].pods),
                      NEW s \in DOMAIN Specs[Args[j][i]].backupTo,
                      NEW c \in Range(Claims[p])
               PROVE  Saved(j, i, c, s)
    BY Zenon DEF SuccessIsComplete
  <2>1. job[j].results \in Seq(Outcomes)
    BY Hand, FieldTypes
  <2>2. i \in 1 .. Len(job[j].results)
    BY <2>1
  <2>3. c \in Wanted(Args[j][i])
    BY DEF Wanted
  <2>4. OkComplete(j, job[j])
    BY DEF AllComplete, CompleteInv
  <2>5. SavedIn(job[j], i, c, s)
    BY <2>2, <2>3, <2>4 DEF OkComplete
  <2> QED BY <2>5 DEF SavedIn, Saved
<1> QED BY <1>1, <1>2, <1>3, TypeInvariant, PTL DEF Spec
=============================================================================
