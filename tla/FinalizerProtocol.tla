------------------------- MODULE FinalizerProtocol --------------------------
(***************************************************************************)
(* What handleFinalizer promises, without queues, caches or retries        *)
(* (controllers/storage/backup_controller.go: "Add finalizers when add     *)
(* Backup object.  Delete finalizers and delete external                   *)
(* clusterrolebinding when delete Backup object.").                        *)
(*                                                                         *)
(* A Backup that has been registered never disappears directly: it has to  *)
(* be terminated, and it is released only at a moment when its namespace   *)
(* has no ClusterRoleBinding.                                              *)
(***************************************************************************)
CONSTANTS Keys, Namespaces

VARIABLES
  phase,   \* the life of each Backup
  bound    \* whether a namespace has its ClusterRoleBinding

Phases == {"absent", "fresh", "registered", "terminating", "lingering"}

Init ==
  /\ phase = [k \in Keys |-> "absent"]
  /\ bound = [ns \in Namespaces |-> FALSE]

Move(k, from, to) ==
  /\ phase[k] = from
  /\ phase' = [phase EXCEPT ![k] = to]

Create(k) == Move(k, "absent", "fresh") /\ UNCHANGED bound
Register(k) == Move(k, "fresh", "registered") /\ UNCHANGED bound
Terminate(k) == Move(k, "registered", "terminating") /\ UNCHANGED bound

\* A Backup without the finalizer is deleted, at once or in the foreground.
Drop(k) ==
  /\ Move(k, "fresh", "absent") \/ Move(k, "fresh", "lingering")
  /\ UNCHANGED bound

\* The finalizer is removed.
Release(k) ==
  /\ ~bound[k.ns]
  /\ Move(k, "terminating", "absent") \/ Move(k, "terminating", "lingering")
  /\ UNCHANGED bound

\* The last foreign finalizer of a Backup without ours goes.
Vanish(k) == Move(k, "lingering", "absent") /\ UNCHANGED bound

Bind(ns) == bound' = [bound EXCEPT ![ns] = TRUE] /\ UNCHANGED phase
Unbind(ns) == bound' = [bound EXCEPT ![ns] = FALSE] /\ UNCHANGED phase

Next ==
  \/ \E k \in Keys : \/ Create(k) \/ Register(k) \/ Terminate(k)
                     \/ Drop(k) \/ Release(k) \/ Vanish(k)
  \/ \E ns \in Namespaces : Bind(ns) \/ Unbind(ns)

Spec == Init /\ [][Next]_<<phase, bound>>
=============================================================================
