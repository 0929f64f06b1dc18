---------------------------- MODULE RaftDecided ----------------------------
(***************************************************************************)
(* Raft with a history variable: the longest sequence of commands that any *)
(* peer has ever regarded as committed.  It outlives crashes, in which     *)
(* commitIndex is lost, and is the abstract log the services see.          *)
(***************************************************************************)
EXTENDS Raft, SequencesExt

VARIABLE decided

trackedVars == <<vars, decided>>

(* The commands in the log of s, those in its snapshot included.           *)
Commands(s) ==
    snapshot[s] \o [k \in 1 .. Len(log[s]) - 1 |-> log[s][k + 1].cmd]

CommittedCommands(s) == SubSeq(Commands(s), 1, commitIndex[s])

(* The longest of decided and what the peers regard as committed next.     *)
Track ==
    decided' = LET seen == {decided} \cup {CommittedCommands(s)' : s \in Server}
               IN  CHOOSE c \in seen : \A d \in seen : Len(d) <= Len(c)

TrackedInit == Init /\ decided = <<>>

TrackedNext == Next /\ Track

TrackedSpec == TrackedInit /\ [][TrackedNext]_trackedVars

Abstract == INSTANCE ReplicatedLog

(* The services of a Raft group see one growing log: what was ever         *)
(* committed stays where it is through crashes, elections and snapshots,   *)
(* and each service is handed it from the front.                           *)
ImplementsReplicatedLog == Abstract!Spec

(* No peer regards as committed anything else than the decided commands,   *)
(* not even after every peer that knew of them has crashed.                *)
CommittedIsDecided == \A s \in Server : IsPrefix(CommittedCommands(s), decided)

(* A leader no peer is ahead of in terms holds everything any peer regards *)
(* as committed (the election restriction in RequestVote).                 *)
LeaderCompleteness ==
    \A s \in Server :
        state[s] = "Leader" /\ (\A p \in Server : currentTerm[p] <= currentTerm[s])
        => \A p \in Server : IsPrefix(CommittedCommands(p), Commands(s))
=============================================================================
