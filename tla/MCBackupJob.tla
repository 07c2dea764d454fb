---------------------------- MODULE MCBackupJob -----------------------------
(* Small instances of BackupJob for TLC.                                   *)
EXTENDS BackupJob, TLC

Object(name, resource, pods, backupTo) ==
  [name |-> name, resource |-> resource, pods |-> pods, backupTo |-> backupTo]

\* Names without a dash; the name of no node is empty.
PlainNames ==
  [x \in Nodes \cup {Nil} \cup BackupNames |-> IF x = Nil THEN <<"">> ELSE <<x>>]

OnOneNode == [p \in Pods |-> CHOOSE n \in Nodes : TRUE]
OneClaim == [p \in Pods |-> <<"c1">>]
CsiSources == [c \in AllClaims |-> "csi"]

\* A run of three Backups: "a" of pods that share a claim, to two storages; "b"
\* of a pod with an iSCSI and a CSI volume, which findpvdir cannot tell apart;
\* "c" to a storage backupFactory has no helper for.
RunClaims ==
  ("p1" :> <<"c1", "c2">>) @@ ("p2" :> <<"c2">>) @@ ("p3" :> <<"c3", "c4">>)
RunSources ==
  ("c1" :> "local") @@ ("c2" :> "nfs") @@ ("c3" :> "csi") @@ ("c4" :> "iscsi")
RunSpecs ==
  ("a" :> Object("a", "daemonset", <<"p1", "p2">>, [nfs |-> "r1", sftp |-> "r3"])) @@
  ("b" :> Object("b", "statefulset", <<"p3">>, [minio |-> "r2"])) @@
  ("c" :> Object("c", "pod", <<"p2">>, [s3 |-> "r4"]))
ArgsThree == [j \in Jobs |-> <<"a", "b", "c">>]

\* "a" of a Deployment, "b" of its pod, to a storage of its own and to the
\* repository they share.  A process is started by hand for both beside the
\* CronJob run of "a".  The name of "b" has a dash in it.
OverlapSpecs ==
  ("a" :> Object("a", "deployment", <<"p1">>, [minio |-> "r2"])) @@
  ("b" :> Object("a-n1", "pod", <<"p1">>, [nfs |-> "r1", minio |-> "r2"]))
ArgsOverlap == ("j1" :> <<"b", "a">>) @@ ("j2" :> <<"a">>)
OverlapWords == ("a-n1" :> <<"a", "n1">>) @@ PlainNames

\* A Deployment with a pod on each node.
SpreadPair == ("p1" :> "n1") @@ ("p2" :> "n2")
TwoNodeSpecs ==
  "a" :> Object("a", "deployment", <<"p1", "p2">>, [nfs |-> "r1"])

\* Two Backups with a common name, that is, in two namespaces.
OneNameSpecs ==
  ("a" :> Object("same", "deployment", <<"p1">>, [nfs |-> "r1"])) @@
  ("b" :> Object("same", "deployment", <<"p2">>, [nfs |-> "r2"]))

ArgA == [j \in Jobs |-> <<"a">>]
ArgsEach == ("j1" :> <<"a">>) @@ ("j2" :> <<"b">>)
=============================================================================
