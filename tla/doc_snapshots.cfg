SPECIFICATION SnapshotsSpec
CONSTANTS
  Jobs = {"j1"}
  Args <- SnapshotArgs
  Backups = {"a"}
  Specs <- SnapshotSpecs
  Pods = {"p1"}
  Claims <- SnapshotClaims
  VolumeSource <- SnapshotSources
  Nodes = {"n1"}
  FirstNode <- SnapshotNodes
  Words <- SnapshotWords
  Faults = {}
  MaxFaults = 0
  MaxMoves = 0
  Asked = {"nfs", "minio", "sftp"}
  Nil = Nil
INVARIANT
  NilMeansListed
CHECK_DEADLOCK FALSE
