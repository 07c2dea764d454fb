------------------------- MODULE MCResticSnapshots --------------------------
(* A small instance of ResticSnapshots for TLC.                            *)
EXTENDS ResticSnapshots, TLC

SnapshotSpecs ==
  "a" :> [name |-> "a", resource |-> "deployment", pods |-> <<"p1">>,
          backupTo |-> [nfs |-> "r1", minio |-> "r2"]]
SnapshotArgs == [j \in Jobs |-> <<"a">>]
SnapshotClaims == [p \in Pods |-> <<"c1">>]
SnapshotSources == [c \in AllClaims |-> "csi"]
SnapshotWords == [x \in {"a", "n1", Nil} |-> IF x = Nil THEN <<"">> ELSE <<x>>]
SnapshotNodes == [p \in Pods |-> "n1"]
=============================================================================
