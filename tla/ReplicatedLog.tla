---------------------------- MODULE ReplicatedLog ----------------------------
(***************************************************************************)
(* What raftapi.go promises to the services of a Raft group: there is one  *)
(* sequence of decided commands, it only ever grows at its end, and every  *)
(* service is handed that sequence from the front, command by command or   *)
(* in one piece as a snapshot.                                             *)
(***************************************************************************)
EXTENDS Integers, Sequences

CONSTANTS Server, Value

VARIABLES decided,   \* the commands decided so far
          applied    \* the commands each service has applied

vars == <<decided, applied>>

Init ==
    /\ decided = <<>>
    /\ applied = [s \in Server |-> <<>>]

(* Some commands, perhaps several at once, are decided.                    *)
Decide ==
    /\ Len(decided') > Len(decided)
    /\ SubSeq(decided', 1, Len(decided)) = decided
    /\ \A i \in Len(decided) + 1 .. Len(decided') : decided'[i] \in Value
    /\ UNCHANGED applied

(* A service is handed the next decided command.                           *)
Apply(s) ==
    /\ Len(applied[s]) < Len(decided)
    /\ applied' = [applied EXCEPT ![s] = Append(@, decided[Len(@) + 1])]
    /\ UNCHANGED decided

(* A service starts over from a snapshot of decided commands: one received *)
(* from Raft, or its own after a restart.                                  *)
Restore(s) ==
    /\ \E n \in 0 .. Len(decided) :
          applied' = [applied EXCEPT ![s] = SubSeq(decided, 1, n)]
    /\ UNCHANGED decided

Next == Decide \/ \E s \in Server : Apply(s) \/ Restore(s)

Spec == Init /\ [][Next]_vars
=============================================================================
