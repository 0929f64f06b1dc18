------------------------------- MODULE CatchUp -------------------------------
(***************************************************************************)
(* How a leader of raft1/raft.go brings one follower's log in line: the    *)
(* exchanges of AppendEntries or InstallSnapshot that its heartbeat starts *)
(* once it has been elected, with nobody crashing, no message lost and no  *)
(* new command.  A log entry is reduced to its term, which is all that     *)
(* this part of the code reads.                                            *)
(***************************************************************************)
EXTENDS RaftLog

CONSTANTS MaxTerm,   \* bound: the terms of log entries
          MaxIndex   \* bound: the length of a log

VARIABLES
    leaderLog, leaderSnap,       \* log and snapshotLastIndex of the leader
    followerLog, followerSnap,   \* log and snapshotLastIndex of the follower
    nextIndex                    \* the leader's nextIndex for the follower

vars == <<leaderLog, leaderSnap, followerLog, followerSnap, nextIndex>>

(* Histories of terms: what a peer's log would be without snapshots.       *)
History ==
    {h \in UNION {[1 .. n -> 1 .. MaxTerm] : n \in 0 .. MaxIndex} :
        \A i, j \in DOMAIN h : i <= j => h[i] <= h[j]}

(* Log matching between two histories.                                     *)
Matching(g, h) ==
    \A i \in DOMAIN g \cap DOMAIN h : g[i] = h[i] => \A j \in 1 .. i : g[j] = h[j]

TermOf(h, i) == IF i = 0 THEN 0 ELSE h[i]

(* The trimmed log of a peer with history h and a snapshot up to n.        *)
Trimmed(h, n) ==
    <<Placeholder(TermOf(h, n))>> \o [k \in 1 .. Len(h) - n |-> Placeholder(h[n + k])]

(* A leader just elected and a follower it has not heard from: the logs    *)
(* match, and what the follower has snapshotted, being committed, is in    *)
(* the leader's log.                                                       *)
Elected(ls, fs) ==
    \E g, h \in History :
        /\ Matching(g, h)
        /\ ls \in 0 .. Len(g)
        /\ fs \in 0 .. Min({Len(g), Len(h)})
        /\ \A i \in 1 .. fs : g[i] = h[i]
        /\ leaderLog = Trimmed(g, ls)
        /\ followerLog = Trimmed(h, fs)
        /\ nextIndex = Len(g) + 1

Init ==
    /\ leaderSnap \in 0 .. MaxIndex
    /\ followerSnap \in 0 .. MaxIndex
    /\ Elected(leaderSnap, followerSnap)

(* The follower's log holds the leader's, and the leader knows it.         *)
Reconciled ==
    nextIndex = logLength(leaderLog, leaderSnap) /\
    \A i \in Max({leaderSnap, followerSnap}) .. nextIndex - 1 :
        /\ InRange(followerLog, followerSnap, i)
        /\ EntryAt(followerLog, followerSnap, i) = EntryAt(leaderLog, leaderSnap, i)

SnapTerm(lg) == lg[1].term

(* A heartbeat's AppendEntries, its handler and its reply.                 *)
AppendExchange ==
    LET prev == nextIndex - 1
        entries == TailFrom(leaderLog, leaderSnap, nextIndex)
    IN  /\ nextIndex > leaderSnap
        /\ IF Accepts(followerLog, followerSnap, prev, EntryAt(leaderLog, leaderSnap, prev).term)
             THEN /\ followerLog' = MergeEntries(followerLog, followerSnap, prev, entries)
                  /\ nextIndex' = prev + Len(entries) + 1
             ELSE /\ nextIndex' = RejectionIndex(followerLog, followerSnap,
                                                 SnapTerm(followerLog), prev)
                  /\ UNCHANGED followerLog
        /\ UNCHANGED followerSnap

(* A heartbeat's InstallSnapshot, its handler and its reply.               *)
SnapshotExchange ==
    /\ nextIndex <= leaderSnap
    /\ IF followerSnap >= leaderSnap
         THEN UNCHANGED <<followerLog, followerSnap>>
         ELSE /\ followerLog' = InstalledLog(followerLog, followerSnap, leaderSnap,
                                             SnapTerm(leaderLog))
              /\ followerSnap' = leaderSnap
    /\ nextIndex' = Max({leaderSnap + 1, nextIndex})

Next ==
    /\ ~Reconciled
    /\ AppendExchange \/ SnapshotExchange
    /\ UNCHANGED <<leaderLog, leaderSnap>>

(* runHeartbeatCycle repeats for as long as the peer leads.                *)
Spec == Init /\ [][Next]_vars /\ WF_vars(Next)

-----------------------------------------------------------------------------
(* "A lagging follower is reconciled" (README.md): the exchanges end with  *)
(* the follower holding the leader's log, wherever the two have            *)
(* snapshotted (buildFailedReply, sendEntries, sendInstallSnapshot).  It   *)
(* does not hold: a follower that has snapshotted further than its leader  *)
(* and whose log is shorter sends nextIndex to its snapshot's index, then  *)
(* rejects the prevLogIndex below it with that same index, and an exchange *)
(* changes nothing any more.                                               *)
EventuallyReconciled == <>Reconciled
=============================================================================
