------------------------------- MODULE MCRaft -------------------------------
(* Small instances of Raft for TLC.                                        *)
EXTENDS RaftDecided, TLC

CONSTANTS Candidates,   \* bound: the peers whose election timers go off
          Successors,   \* bound: the same, but only once they are in a term
          Readers,      \* bound: the peers whose services are scheduled
          Followers,    \* bound: the peers that AppendEntries reaches
          PerTerm       \* bound: the commands proposed in one term

ASSUME ScheduleAssumption ==
    Candidates \cup Successors \cup Readers \cup Followers \subseteq Server /\ PerTerm \in Nat

(* Peers are told apart by the bounds on what they do only.                *)
Symmetry ==
    {f \in Permutations(Server) :
        \A S \in {Candidates, Successors, Readers, Followers, Restartable} : {f[s] : s \in S} = S}

(* States that differ only in values nobody reads before they are written  *)
(* are one state: nextIndex and matchIndex of a peer that does not lead    *)
(* are set anew when it wins, and votesReceived counts only for a peer     *)
(* that has voted for itself in its current term.                          *)
LiveState ==
    <<currentTerm, votedFor, state,
      [s \in Server |-> IF votedFor[s] = s THEN votesReceived[s] ELSE {}],
      log, commitIndex, lastApplied,
      [s \in Server |-> IF state[s] = "Leader" THEN <<nextIndex[s], matchIndex[s]>> ELSE <<>>],
      isSnapshotApplied, snapshotVars, disk, panicked, msgs, serviceVars, decided>>

(* What the network loses for good is never put on it.                     *)
Reached == \A m \in msgs : m.type = "AppendEntries" => m.dst \in Followers

Step == Track /\ Reached'

Proposed(s) == Cardinality({k \in DOMAIN log[s] : log[s][k].term = currentTerm[s]})

(* A leader proposes commands named after its term, which is enough to     *)
(* tell the proposals of different leaders apart.                          *)
ScheduledNext ==
    \/ \E s \in Candidates : startElection(s) /\ Step
    \/ \E s \in Successors : currentTerm[s] > 0 /\ startElection(s) /\ Step
    \/ \E s \in Server : runHeartbeatCycle(s) /\ Step
    \/ \E s \in Server : Proposed(s) < PerTerm /\ Start(s, currentTerm[s]) /\ Step
    \/ \E s \in Server : Make(s) /\ Step
    \/ \E s \in Readers : applyTicker(s) /\ Step
    \/ \E s \in Readers : applierSnap(s) /\ Step
    \/ \E s \in Readers : Snapshot(s) /\ Step
    \/ \E m \in msgs : RequestVote(m) /\ Step
    \/ \E m \in msgs : sendRequestVote(m) /\ Step
    \/ \E m \in msgs : AppendEntries(m) /\ Step
    \/ \E m \in msgs : sendEntries(m) /\ Step
    \/ \E m \in msgs : InstallSnapshot(m) /\ Step
    \/ \E m \in msgs : sendInstallSnapshot(m) /\ Step

ScheduledSpec == TrackedInit /\ [][ScheduledNext]_trackedVars
=============================================================================
