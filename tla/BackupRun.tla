------------------------------ MODULE BackupRun -----------------------------
(***************************************************************************)
(* What a run of "horusctl backup" promises, without pods, volumes, node   *)
(* names and restic commands (pkg/backup/backup.go, Do, and the loop over  *)
(* the arguments in cmd/horusctl/backup.go).                               *)
(*                                                                         *)
(* For each of its Backups in turn a run saves items, each at most once    *)
(* and only while a helper of that Backup exists; it reports success only  *)
(* when every item is saved; helpers are added for the Backup in hand, and *)
(* removed only after it has been dealt with and only if they belong to a  *)
(* Backup the run has had in hand.  A run may die at any moment.           *)
(***************************************************************************)
EXTENDS Naturals, Sequences

CONSTANTS
  Runs,       \* the runs
  Args,       \* the Backups each run is given, in order
  Work,       \* the items of each Backup: a claim and a storage
  HelpersOf   \* the helpers that go by the name of each Backup

VARIABLES
  phase,      \* "idle", "working", "cleaning" or "ended"
  saved,      \* the items saved for the Backup in hand
  results,    \* how the Backups before it ended
  helpers     \* the helpers that exist

vars == <<phase, saved, results, helpers>>

Init ==
  /\ phase = [r \in Runs |-> "idle"]
  /\ saved = [r \in Runs |-> {}]
  /\ results = [r \in Runs |-> <<>>]
  /\ helpers = {}

InHand(r) == Args[r][Len(results[r]) + 1]

\* The helpers of the Backups the run is done with.
Disposable(r) == UNION {HelpersOf[Args[r][i]] : i \in 1 .. Len(results[r])}

Move(r, from, to) == phase[r] = from /\ phase' = [phase EXCEPT ![r] = to]

\* Helpers of the Backup in hand may appear.
MayDeploy(r) ==
  /\ helpers \subseteq helpers'
  /\ helpers' \subseteq helpers \cup HelpersOf[InHand(r)]

\* The first Backup, or the next one.
Begin(r) ==
  /\ \/ Move(r, "idle", "working")
     \/ Move(r, "cleaning", "working") /\ Len(results[r]) < Len(Args[r])
  /\ UNCHANGED <<saved, results, helpers>>

Deploy(r) ==
  /\ phase[r] = "working"
  /\ UNCHANGED <<phase, saved, results>>
  /\ MayDeploy(r)

Save(r) ==
  /\ phase[r] = "working"
  /\ HelpersOf[InHand(r)] \cap helpers # {}
  /\ \E item \in Work[InHand(r)] \ saved[r] :
       saved' = [saved EXCEPT ![r] = @ \cup {item}]
  /\ UNCHANGED <<phase, results, helpers>>

Return(r) ==
  /\ Move(r, "working", "cleaning")
  /\ \E outcome \in {"ok", "failed"} :
       /\ outcome = "ok" => saved[r] = Work[InHand(r)]
       /\ results' = [results EXCEPT ![r] = Append(@, outcome)]
  /\ saved' = [saved EXCEPT ![r] = {}]
  /\ MayDeploy(r)

Clean(r) ==
  /\ phase[r] = "cleaning"
  /\ UNCHANGED <<phase, saved, results>>
  /\ helpers' \subseteq helpers
  /\ helpers \subseteq helpers' \cup Disposable(r)

End(r) == Move(r, "cleaning", "ended") /\ UNCHANGED <<saved, results, helpers>>

Die(r) ==
  /\ Move(r, "working", "ended") \/ Move(r, "cleaning", "ended")
  /\ results' = [results EXCEPT ![r] = Append(@, "failed")]
  /\ saved' = [saved EXCEPT ![r] = {}]
  /\ UNCHANGED helpers

Next ==
  \E r \in Runs : \/ Begin(r) \/ Deploy(r) \/ Save(r) \/ Return(r)
                  \/ Clean(r) \/ End(r) \/ Die(r)

Spec == Init /\ [][Next]_vars
=============================================================================
