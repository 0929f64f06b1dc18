----------------------------- MODULE RaftProofs -----------------------------
(***************************************************************************)
(* Theorems about Raft for clusters, logs, terms and networks of any size: *)
(* type correctness, votes, and at most one leader per term when the       *)
(* number of peers is odd.                                                 *)
(***************************************************************************)
EXTENDS Raft, RaftLogProofs

-----------------------------------------------------------------------------
(* Messages.                                                               *)

(* The type field tells what else a message carries.                       *)
LEMMA MessageKinds ==
    ASSUME NEW m \in Message
    PROVE  /\ m.src \in Server /\ m.dst \in Server /\ m.term \in Nat
           /\ IsRequest(m) <=> m \in Request
           /\ m.type = "RequestVote" <=> m \in RequestVoteArgs
           /\ m.type = "RequestVoteReply" <=> m \in RequestVoteReply
           /\ m.type = "AppendEntries" <=> m \in AppendEntriesArgs
           /\ m.type = "AppendEntriesReply" <=> m \in AppendEntriesReply
           /\ m.type = "InstallSnapshot" <=> m \in InstallSnapshotArgs
           /\ m.type = "InstallSnapshotReply" <=> m \in InstallSnapshotReply
BY DEF Message, Request, Reply, RequestVoteArgs, RequestVoteReply, AppendEntriesArgs,
       AppendEntriesReply, InstallSnapshotArgs, InstallSnapshotReply, IsRequest

(* Sending messages leaves a network of messages.                          *)
LEMMA SendType ==
    ASSUME NEW base, NEW new, base \subseteq Message, new \subseteq Message,
           SendFrom(base, new)
    PROVE  msgs' \in SUBSET Message
BY DEF SendFrom

(* Answering a request leaves a network of messages.                       *)
LEMMA AnswerType ==
    ASSUME NEW m, NEW r \in Message, msgs \in SUBSET Message, Answer(m, r)
    PROVE  msgs' \in SUBSET Message
BY SendType DEF Answer

(* persist() writes a well-formed image when it is given one.              *)
LEMMA PersistType ==
    ASSUME NEW s \in Server, TypeOK, persist(s),
           currentTerm' \in [Server -> Nat],
           votedFor' \in [Server -> Server \cup {Nil}],
           log' \in [Server -> Log],
           snapshotLastIndex' \in [Server -> Nat],
           snapshotLastTerm' \in [Server -> Nat],
           snapshot' \in [Server -> Seq(Value \cup {Nil})]
    PROVE  disk' \in [Server -> DiskImage]
<1> DEFINE d == [currentTerm |-> currentTerm'[s], votedFor |-> votedFor'[s], log |-> log'[s],
                 snapshotLastIndex |-> snapshotLastIndex'[s],
                 snapshotLastTerm |-> snapshotLastTerm'[s], snapshot |-> snapshot'[s]]
<1>1. d \in DiskImage
  BY DEF DiskImage
<1>2. disk' = [disk EXCEPT ![s] = d] /\ disk \in [Server -> DiskImage]
  BY DEF persist, TypeOK
<1> HIDE DEF d
<1> QED BY <1>1, <1>2

-----------------------------------------------------------------------------
(* Type correctness, action by action.                                     *)

(* The state Make leaves on a first start is well formed.                  *)
LEMMA InitType == Init => TypeOK
<1> SUFFICES ASSUME Init PROVE TypeOK
  OBVIOUS
<1>1. <<Placeholder(0)>> \in Log
  <2>1. Placeholder(0) \in LogEntry
    BY DEF Placeholder, LogEntry
  <2> QED BY <2>1 DEF Log
<1>2. disk \in [Server -> DiskImage]
  BY <1>1 DEF Init, DiskImage
<1>3. /\ offer \in [Server -> Offer]
      /\ applied \in [Server -> Seq(Value \cup {Nil})]
      /\ snapshot \in [Server -> Seq(Value \cup {Nil})]
      /\ snapCall \in [Server -> Nat]
  BY DEF Init, Offer, NoCall
<1>4. /\ nextIndex \in [Server -> [Server -> Nat]]
      /\ matchIndex \in [Server -> [Server -> Nat]]
      /\ log \in [Server -> Log]
      /\ panicked \in SUBSET Server
      /\ msgs \in SUBSET Message
  BY <1>1 DEF Init
<1> QED BY <1>2, <1>3, <1>4, Zenon DEF Init, TypeOK

(* startElection: the requests for votes and the new term are well         *)
(* formed.                                                                 *)
LEMMA StartElectionType ==
    ASSUME TypeOK, NEW s \in Server, startElection(s)
    PROVE  TypeOK'
<1> USE DEF electionVars, snapshotVars, leaderVars, serviceVars
<1>1. msgs' \in SUBSET Message
  <2> DEFINE req(p) == [type |-> "RequestVote", src |-> s, dst |-> p, live |-> TRUE,
                        term |-> currentTerm[s] + 1, lastLogIndex |-> LogLength(s) - 1,
                        lastLogTerm |-> LastTerm(log[s])]
  <2>1. log[s] \in Log /\ snapshotLastIndex[s] \in Nat /\ currentTerm[s] \in Nat
    BY DEF TypeOK
  <2>2. LogLength(s) - 1 \in Nat /\ LastTerm(log[s]) \in Nat
    BY <2>1, LastTermType DEF LogLength, logLength
  <2>3. \A p \in Peers(s) : req(p) \in Message
    BY <2>1, <2>2 DEF Peers, Message, Request, RequestVoteArgs
  <2>4. {req(p) : p \in Peers(s)} \subseteq Message
    <3> HIDE DEF req
    <3> QED BY <2>3
  <2>5. SendFrom(msgs, {req(p) : p \in Peers(s)}) /\ msgs \subseteq Message
    BY DEF startElection, Send, TypeOK
  <2> HIDE DEF req
  <2> QED BY <2>4, <2>5, SendType
<1>2. /\ currentTerm' \in [Server -> Nat]
      /\ votedFor' \in [Server -> Server \cup {Nil}]
      /\ state' \in [Server -> {"Follower", "Candidate", "Leader"}]
      /\ votesReceived' \in [Server -> SUBSET Server]
  BY DEF startElection, OwnVote, TypeOK
<1>3. disk' \in [Server -> DiskImage]
  BY <1>2, PersistType, Zenon DEF startElection, TypeOK
<1> QED BY <1>1, <1>2, <1>3, Zenon DEF startElection, TypeOK

(* RequestVote: the vote and the reply are well formed.                    *)
LEMMA RequestVoteType ==
    ASSUME TypeOK, NEW m \in msgs, RequestVote(m)
    PROVE  TypeOK'
<1> USE DEF electionVars, snapshotVars, leaderVars, serviceVars
<1> DEFINE s == m.dst
           newer == m.term > currentTerm[s]
           vote == IF newer THEN Nil ELSE votedFor[s]
           grant == Grants(s, vote, m)
           r == [type |-> "RequestVoteReply", src |-> s, dst |-> m.src,
                 term |-> currentTerm[s], voteGranted |-> grant, argsTerm |-> m.term]
<1>1. m \in Message /\ m.src \in Server /\ s \in Server /\ m.term \in Nat
  BY MessageKinds DEF TypeOK
<1>2. grant \in BOOLEAN
  BY DEF Grants
<1>3. r \in Message
  <2> HIDE DEF s, grant
  <2>1. currentTerm[s] \in Nat
    BY <1>1 DEF TypeOK
  <2> QED BY <1>1, <1>2, <2>1 DEF Message, Reply, RequestVoteReply
<1>4. msgs' \in SUBSET Message
  <2>1. Answer(m, r) /\ msgs \in SUBSET Message
    BY DEF RequestVote, TypeOK
  <2> HIDE DEF r
  <2> QED BY <1>3, <2>1, AnswerType
<1>5. /\ currentTerm' \in [Server -> Nat]
      /\ votedFor' \in [Server -> Server \cup {Nil}]
      /\ state' \in [Server -> {"Follower", "Candidate", "Leader"}]
  BY <1>1, Zenon DEF RequestVote, TypeOK
<1>6. disk' \in [Server -> DiskImage]
  BY <1>1, <1>5, PersistType, Zenon DEF RequestVote, TypeOK
<1> QED BY <1>4, <1>5, <1>6, Zenon DEF RequestVote, TypeOK

(* Falling back to a follower keeps the election state well formed.        *)
LEMMA BecomeFollowerType ==
    ASSUME TypeOK, NEW s \in Server, NEW t \in Nat, becomeFollower(s, t)
    PROVE  /\ currentTerm' \in [Server -> Nat]
           /\ votedFor' \in [Server -> Server \cup {Nil}]
           /\ state' \in [Server -> {"Follower", "Candidate", "Leader"}]
<1>1. currentTerm' \in [Server -> Nat]
  BY Zenon DEF becomeFollower, TypeOK
<1>2. votedFor' \in [Server -> Server \cup {Nil}]
  BY Zenon DEF becomeFollower, TypeOK
<1>3. state' \in [Server -> {"Follower", "Candidate", "Leader"}]
  BY Zenon DEF becomeFollower, TypeOK
<1> QED BY <1>1, <1>2, <1>3

(* sendRequestVote: a counted vote, and what a new leader sets up for its  *)
(* peers, are well formed.                                                 *)
LEMMA SendRequestVoteType ==
    ASSUME TypeOK, NEW m \in msgs, sendRequestVote(m)
    PROVE  TypeOK'
<1> USE DEF electionVars, snapshotVars, leaderVars, serviceVars
<1>1. m \in Message /\ m.src \in Server /\ m.dst \in Server /\ m.term \in Nat
  BY MessageKinds DEF TypeOK
<1>2. LogLength(m.dst) \in Nat /\ LogLength(m.dst) - 1 \in Nat
  <2>1. log[m.dst] \in Log /\ snapshotLastIndex[m.dst] \in Nat
    BY <1>1 DEF TypeOK
  <2> QED BY <2>1, LastTermType DEF LogLength, logLength
<1> DEFINE E == /\ currentTerm' \in [Server -> Nat]
                /\ votedFor' \in [Server -> Server \cup {Nil}]
                /\ state' \in [Server -> {"Follower", "Candidate", "Leader"}]
                /\ votesReceived' \in [Server -> SUBSET Server]
           L == /\ nextIndex' \in [Server -> [Server -> Nat]]
                /\ matchIndex' \in [Server -> [Server -> Nat]]
           adopt == becomeFollower(m.dst, m.term) /\ UNCHANGED <<votesReceived, leaderVars>>
           ignore == UNCHANGED <<electionVars, leaderVars>>
           count == votesReceived' = [votesReceived EXCEPT ![m.dst] = votesReceived[m.dst] \cup {m.src}]
                      /\ UNCHANGED <<currentTerm, votedFor>>
           lead == /\ state' = [state EXCEPT ![m.dst] = "Leader"]
                   /\ nextIndex' = [nextIndex EXCEPT ![m.dst] =
                                       [p \in Server |-> LogLength(m.dst)]]
                   /\ matchIndex' = [matchIndex EXCEPT ![m.dst] =
                                       [p \in Server |-> IF p = m.dst THEN LogLength(m.dst) - 1
                                                         ELSE commitIndex[m.dst]]]
<1>3. adopt \/ ignore \/ (count /\ (lead \/ UNCHANGED <<state, leaderVars>>))
  BY Zenon DEF sendRequestVote
<1>4. E /\ L
  <2>1. CASE adopt
    BY <1>1, <2>1, Zenon DEF becomeFollower, TypeOK
  <2>2. CASE ignore
    BY <2>2 DEF TypeOK
  <2>3. ASSUME count
        PROVE  /\ currentTerm' \in [Server -> Nat]
               /\ votedFor' \in [Server -> Server \cup {Nil}]
               /\ votesReceived' \in [Server -> SUBSET Server]
    <3>1. votesReceived[m.dst] \cup {m.src} \in SUBSET Server
      BY <1>1 DEF TypeOK
    <3> QED BY <1>1, <2>3, <3>1, Zenon DEF TypeOK
  <2>4. CASE count /\ UNCHANGED <<state, leaderVars>>
    <3>1. L /\ state' \in [Server -> {"Follower", "Candidate", "Leader"}]
      BY <2>4, Zenon DEF TypeOK
    <3> HIDE DEF count
    <3> QED BY <2>3, <2>4, <3>1
  <2>5. CASE count /\ lead
    <3>1. state' \in [Server -> {"Follower", "Candidate", "Leader"}]
      BY <1>1, <2>5, Zenon DEF TypeOK
    <3>2. L
      BY <1>1, <1>2, <2>5, Zenon DEF TypeOK
    <3> HIDE DEF count, lead, L
    <3> QED BY <2>3, <2>5, <3>1, <3>2
  <2> QED BY <1>3, <2>1, <2>2, <2>4, <2>5
<1>5. msgs' \in SUBSET Message
  BY DEF sendRequestVote, Consume, TypeOK
<1>6. disk' \in [Server -> DiskImage]
  BY <1>1, <1>4, PersistType, Zenon DEF sendRequestVote, TypeOK
<1> QED BY <1>4, <1>5, <1>6, Zenon DEF sendRequestVote, TypeOK

(* What a leader sends from a log is well formed, also when it panics      *)
(* before it has sent to every peer.                                       *)
LEMMA StartSendEntriesType ==
    ASSUME TypeOK, NEW s \in Server, NEW lg \in Log, StartSendEntries(s, lg)
    PROVE  msgs' \in SUBSET Message /\ panicked' \in SUBSET Server
<1> DEFINE to == {q \in Peers(s) : CanSendTo(s, lg, q)}
           req(p) == IF nextIndex[s][p] > snapshotLastIndex[s] THEN EntriesFor(s, lg, p)
                                                               ELSE SnapshotFor(s, p)
<1>1. ASSUME NEW p \in to PROVE req(p) \in Message
  <2> DEFINE n == nextIndex[s][p]
             i == snapshotLastIndex[s]
  <2>1. p \in Server /\ n \in Nat /\ i \in Nat /\ n <= logLength(lg, i)
    BY DEF Peers, CanSendTo, TypeOK
  <2>2. /\ currentTerm[s] \in Nat /\ commitIndex[s] \in Nat /\ snapshotLastTerm[s] \in Nat
        /\ snapshot[s] \in Seq(Value \cup {Nil})
    BY DEF TypeOK
  <2>3. CASE n > i
    <3> HIDE DEF n, i
    <3>1. Len(lg) \in Nat /\ n - 1 \in Nat
      BY <2>1, <2>3, LastTermType
    <3>2. InRange(lg, i, n - 1)
      BY <3>1, <2>1, <2>3 DEF InRange, absoluteIndexToLogIndex, logLength
    <3>3. EntryAt(lg, i, n - 1).term \in Nat
      <4>1. EntryAt(lg, i, n - 1) \in LogEntry
        BY <3>1, <3>2, <2>1, EntryType
      <4> QED BY <4>1 DEF LogEntry
    <3>4. TailFrom(lg, i, n) \in Seq(LogEntry)
      BY <2>1, <2>3, TailType
    <3>5. EntriesFor(s, lg, p) \in AppendEntriesArgs
      BY <3>1, <3>3, <3>4, <2>1, <2>2 DEF EntriesFor, AppendEntriesArgs, n, i
    <3> QED BY <3>5, <2>3 DEF n, i, Message, Request
  <2>4. CASE ~(n > i)
    <3>1. SnapshotFor(s, p) \in InstallSnapshotArgs
      BY <2>1, <2>2 DEF SnapshotFor, InstallSnapshotArgs
    <3> QED BY <3>1, <2>4 DEF Message, Request
  <2> QED BY <2>3, <2>4
<1>2. {req(p) : p \in to} \subseteq Message
  <2> HIDE DEF req, to
  <2> QED BY <1>1
<1>3. SendFrom(msgs, {req(p) : p \in to}) /\ msgs \subseteq Message
  BY DEF StartSendEntries, Send, TypeOK
<1>4. msgs' \in SUBSET Message
  <2> HIDE DEF req, to
  <2> QED BY <1>2, <1>3, SendType
<1> QED BY <1>4 DEF StartSendEntries, TypeOK

(* runHeartbeatCycle changes only the network, or panics.                  *)
LEMMA HeartbeatType ==
    ASSUME TypeOK, NEW s \in Server, runHeartbeatCycle(s)
    PROVE  TypeOK'
<1>1. log[s] \in Log
  BY DEF TypeOK
<1>2. msgs' \in SUBSET Message /\ panicked' \in SUBSET Server
  BY <1>1, StartSendEntriesType DEF runHeartbeatCycle
<1> QED BY <1>2, Zenon DEF runHeartbeatCycle, TypeOK, electionVars, snapshotVars, leaderVars, serviceVars

(* Start: the log with the new command is a log.                           *)
LEMMA StartType ==
    ASSUME TypeOK, NEW s \in Server, NEW v \in Value, Start(s, v)
    PROVE  TypeOK'
<1> USE DEF electionVars, snapshotVars, leaderVars, serviceVars
<1> DEFINE e == [term |-> currentTerm[s], cmd |-> v]
           lg == Append(log[s], e)
<1>1. lg \in Log
  <2>1. log[s] \in Seq(LogEntry) /\ e \in LogEntry
    BY Zenon DEF TypeOK, Log, LogEntry
  <2> HIDE DEF e
  <2> QED BY <2>1, AppendProperties DEF Log
<1>2. msgs' \in SUBSET Message /\ panicked' \in SUBSET Server
  <2>1. StartSendEntries(s, lg)
    BY DEF Start
  <2> HIDE DEF lg
  <2> QED BY <1>1, <2>1, StartSendEntriesType
<1>3. log' \in [Server -> Log]
  <2>1. log' = [log EXCEPT ![s] = lg]
    BY DEF Start
  <2> HIDE DEF lg
  <2> QED BY <1>1, <2>1 DEF TypeOK
<1>4. matchIndex' \in [Server -> [Server -> Nat]]
  <2>1. LogLength(s) \in Nat
    <3>1. log[s] \in Log /\ snapshotLastIndex[s] \in Nat
      BY DEF TypeOK
    <3> QED BY <3>1, LastTermType DEF LogLength, logLength
  <2> QED BY <2>1 DEF Start, TypeOK
<1>5. disk' \in [Server -> DiskImage]
  BY <1>3, PersistType, Zenon DEF Start, TypeOK
<1> QED BY <1>2, <1>3, <1>4, <1>5, Zenon DEF Start, TypeOK

(* A follower's commitIndex stays a natural number.                        *)
LEMMA FollowerCommitType ==
    ASSUME NEW c \in Nat, NEW l \in Nat, NEW last \in Nat
    PROVE  FollowerCommit(c, l, last) \in Nat
BY MinMaxPair DEF FollowerCommit

(* AppendEntries: the merged log keeps its placeholder and the reply,      *)
(* accepting or rejecting, is well formed.                                 *)
LEMMA AppendEntriesType ==
    ASSUME TypeOK, NEW m \in msgs, AppendEntries(m)
    PROVE  TypeOK'
<1> USE DEF electionVars, snapshotVars, leaderVars, serviceVars
<1> DEFINE s == m.dst
           merged == MergeEntries(log[s], snapshotLastIndex[s], m.prevLogIndex, m.entries)
           last == logLength(merged, snapshotLastIndex[s]) - 1
           reply(ok, first) == [type |-> "AppendEntriesReply", src |-> s, dst |-> m.src,
                       term |-> currentTerm[s], success |-> ok, failedFirstIndex |-> first,
                       argsTerm |-> m.term, prevLogIndex |-> m.prevLogIndex,
                       numEntries |-> Len(m.entries)]
           rejected == RejectionIndex(log[s], snapshotLastIndex[s], snapshotLastTerm[s],
                                      m.prevLogIndex)
           E == /\ currentTerm' \in [Server -> Nat]
                /\ votedFor' \in [Server -> Server \cup {Nil}]
                /\ state' \in [Server -> {"Follower", "Candidate", "Leader"}]
                /\ votesReceived' \in [Server -> SUBSET Server]
           L == log' \in [Server -> Log] /\ commitIndex' \in [Server -> Nat]
           stale == Answer(m, reply(FALSE, 0)) /\ UNCHANGED <<electionVars, log, commitIndex>>
           adopt == \/ becomeFollower(s, m.term)
                    \/ state' = [state EXCEPT ![s] = "Follower"] /\ UNCHANGED <<currentTerm, votedFor>>
           accept == /\ Accepts(log[s], snapshotLastIndex[s], m.prevLogIndex, m.prevLogTerm)
                     /\ Answer(m, reply(TRUE, 0))
                     /\ log' = [log EXCEPT ![s] = merged]
                     /\ commitIndex' = [commitIndex EXCEPT ![s] =
                                          FollowerCommit(commitIndex[s], m.leaderCommit, last)]
           reject == Answer(m, reply(FALSE, rejected)) /\ UNCHANGED <<log, commitIndex>>
<1>1. /\ m \in AppendEntriesArgs /\ m.src \in Server /\ s \in Server /\ m.term \in Nat
      /\ m.prevLogIndex \in Nat /\ m.leaderCommit \in Nat /\ m.entries \in Seq(LogEntry)
  <2>1. m \in AppendEntriesArgs
    BY MessageKinds DEF TypeOK, AppendEntries
  <2> QED BY <2>1 DEF AppendEntriesArgs
<1>2. /\ log[s] \in Log /\ snapshotLastIndex[s] \in Nat /\ snapshotLastTerm[s] \in Nat
      /\ currentTerm[s] \in Nat /\ commitIndex[s] \in Nat
  BY <1>1 DEF TypeOK
<1>3. rejected \in Nat
  BY <1>1, <1>2, RejectionType, Zenon
<1>4. \A ok \in BOOLEAN, first \in Nat : reply(ok, first) \in Message
  <2>1. Len(m.entries) \in Nat
    BY <1>1, LenProperties
  <2> HIDE DEF s
  <2> QED BY <1>1, <1>2, <2>1 DEF Message, Reply, AppendEntriesReply
<1>5. stale \/ (adopt /\ UNCHANGED votesReceived /\ (accept \/ reject))
  BY Zenon DEF AppendEntries
<1>6. E /\ L /\ msgs' \in SUBSET Message
  <2> HIDE DEF rejected
  <2>1. \A ok \in BOOLEAN, first \in Nat : Answer(m, reply(ok, first)) => msgs' \in SUBSET Message
    <3> HIDE DEF reply
    <3> QED BY <1>4, AnswerType, Zenon DEF TypeOK
  <2>2. CASE stale
    <3>1. msgs' \in SUBSET Message
      BY <2>1, <2>2, Zenon
    <3> QED BY <2>2, <3>1 DEF TypeOK
  <2>3. ASSUME adopt, UNCHANGED votesReceived PROVE E
    <3>1. votesReceived' \in [Server -> SUBSET Server]
      BY <2>3, Zenon DEF TypeOK
    <3>2. CASE becomeFollower(s, m.term)
      BY <1>1, <3>1, <3>2, BecomeFollowerType, Zenon
    <3>3. CASE state' = [state EXCEPT ![s] = "Follower"] /\ UNCHANGED <<currentTerm, votedFor>>
      <4>1. state' \in [Server -> {"Follower", "Candidate", "Leader"}]
        BY <1>1, <3>3, Zenon DEF TypeOK
      <4>2. currentTerm' \in [Server -> Nat] /\ votedFor' \in [Server -> Server \cup {Nil}]
        BY <3>3, Zenon DEF TypeOK
      <4> QED BY <3>1, <4>1, <4>2
    <3> QED BY <2>3, <3>2, <3>3, Zenon
  <2>4. ASSUME accept PROVE L /\ msgs' \in SUBSET Message
    <3>1. merged \in Log
      <4> HIDE DEF s
      <4> QED BY <1>1, <1>2, <2>4, MergeType DEF Accepts
    <3>2. last \in Nat
      <4> HIDE DEF merged
      <4> QED BY <1>2, <3>1, LastTermType DEF logLength
    <3>3. FollowerCommit(commitIndex[s], m.leaderCommit, last) \in Nat
      <4> HIDE DEF last
      <4> QED BY <1>1, <1>2, <3>2, FollowerCommitType, Zenon
    <3>4. L
      <4> HIDE DEF merged, last
      <4> QED BY <1>1, <2>4, <3>1, <3>3, Zenon DEF TypeOK
    <3>5. msgs' \in SUBSET Message
      <4> HIDE DEF reply
      <4> QED BY <2>1, <2>4, Zenon
    <3> QED BY <3>4, <3>5
  <2>5. ASSUME reject PROVE L /\ msgs' \in SUBSET Message
    <3>1. msgs' \in SUBSET Message
      <4> HIDE DEF reply
      <4> QED BY <1>3, <2>1, <2>5, Zenon
    <3> QED BY <2>5, <3>1 DEF TypeOK
  <2> HIDE DEF stale, adopt, accept, reject
  <2> QED BY <1>5, <2>2, <2>3, <2>4, <2>5
<1>7. disk' \in [Server -> DiskImage]
  BY <1>1, <1>6, PersistType, Zenon DEF AppendEntries, TypeOK
<1> QED BY <1>6, <1>7, Zenon DEF AppendEntries, TypeOK

(* The median of natural numbers is one of them, so commitIndex stays one. *)
LEMMA UpdateCommitIndexType ==
    ASSUME TypeOK, NEW s \in Server, NEW match \in [Server -> Nat], updateCommitIndex(s, match)
    PROVE  commitIndex' \in [Server -> Nat] /\ panicked' \in SUBSET Server
<1>1. PICK median \in {match[p] : p \in Server} :
        \/ /\ commitIndex' = [commitIndex EXCEPT ![s] = LeaderCommit(s, median)]
           /\ UNCHANGED panicked
        \/ panicked' = panicked \cup {s} /\ UNCHANGED commitIndex
  BY DEF updateCommitIndex
<1>2. LeaderCommit(s, median) \in Nat
  BY DEF LeaderCommit, TypeOK
<1>3. commitIndex \in [Server -> Nat] /\ panicked \in SUBSET Server
  BY Zenon DEF TypeOK
<1>4. CASE /\ commitIndex' = [commitIndex EXCEPT ![s] = LeaderCommit(s, median)]
           /\ UNCHANGED panicked
  BY <1>2, <1>3, <1>4
<1>5. CASE panicked' = panicked \cup {s} /\ UNCHANGED commitIndex
  BY <1>3, <1>5
<1> QED BY <1>1, <1>4, <1>5

(* sendEntries: nextIndex, matchIndex and commitIndex stay naturals.       *)
LEMMA SendEntriesType ==
    ASSUME TypeOK, NEW m \in msgs, sendEntries(m)
    PROVE  TypeOK'
<1> USE DEF electionVars, snapshotVars, leaderVars, serviceVars
<1> DEFINE s == m.dst
           p == m.src
           last == m.prevLogIndex + m.numEntries
           E == /\ currentTerm' \in [Server -> Nat]
                /\ votedFor' \in [Server -> Server \cup {Nil}]
                /\ state' \in [Server -> {"Follower", "Candidate", "Leader"}]
           L == /\ nextIndex' \in [Server -> [Server -> Nat]]
                /\ matchIndex' \in [Server -> [Server -> Nat]]
           C == commitIndex' \in [Server -> Nat] /\ panicked' \in SUBSET Server
           adopt == becomeFollower(s, m.term) /\ UNCHANGED <<leaderVars, commitIndex, panicked>>
           ignore == UNCHANGED <<currentTerm, votedFor, state, leaderVars, commitIndex, panicked>>
           fail == /\ nextIndex' = [nextIndex EXCEPT ![s][p] = m.failedFirstIndex]
                   /\ UNCHANGED <<currentTerm, votedFor, state, matchIndex, commitIndex, panicked>>
           succeed == /\ nextIndex' = [nextIndex EXCEPT ![s][p] = last + 1]
                      /\ matchIndex' = [matchIndex EXCEPT ![s][p] = last]
                      /\ updateCommitIndex(s, [matchIndex[s] EXCEPT ![p] = last])
                      /\ UNCHANGED <<currentTerm, votedFor, state>>
<1>1. /\ s \in Server /\ p \in Server /\ m.term \in Nat
      /\ last \in Nat /\ m.failedFirstIndex \in Nat
  <2>1. m \in AppendEntriesReply
    BY MessageKinds DEF TypeOK, sendEntries
  <2> QED BY <2>1 DEF AppendEntriesReply
<1>2. adopt \/ ignore \/ fail \/ succeed
  BY Zenon DEF sendEntries
<1>3. E /\ L /\ C
  <2> HIDE DEF last
  <2>1. CASE adopt
    BY <1>1, <2>1, Zenon DEF becomeFollower, TypeOK
  <2>2. CASE ignore
    BY <2>2 DEF TypeOK
  <2>3. CASE fail
    BY <1>1, <2>3, Zenon DEF TypeOK
  <2>4. CASE succeed
    <3>1. [matchIndex[s] EXCEPT ![p] = last] \in [Server -> Nat]
      BY <1>1, Zenon DEF TypeOK
    <3>2. C
      BY <1>1, <2>4, <3>1, UpdateCommitIndexType
    <3>3. nextIndex' \in [Server -> [Server -> Nat]]
      <4>1. last + 1 \in Nat /\ nextIndex[s] \in [Server -> Nat]
        BY <1>1 DEF TypeOK
      <4>2. [nextIndex[s] EXCEPT ![p] = last + 1] \in [Server -> Nat]
        BY <1>1, <4>1
      <4> QED BY <1>1, <2>4, <4>2, Zenon DEF TypeOK
    <3>4. matchIndex' \in [Server -> [Server -> Nat]]
      BY <1>1, <2>4, <3>1, Zenon DEF TypeOK
    <3> QED BY <2>4, <3>2, <3>3, <3>4, Zenon DEF TypeOK
  <2> QED BY <1>2, <2>1, <2>2, <2>3, <2>4
<1>4. msgs' \in SUBSET Message
  BY DEF sendEntries, Consume, TypeOK
<1>5. disk' \in [Server -> DiskImage]
  BY <1>1, <1>3, PersistType, Zenon DEF sendEntries, TypeOK
<1> QED BY <1>3, <1>4, <1>5, Zenon DEF sendEntries, TypeOK

(* InstallSnapshot leaves a log with a placeholder.                        *)
LEMMA InstallSnapshotType ==
    ASSUME TypeOK, NEW m \in msgs, InstallSnapshot(m)
    PROVE  TypeOK'
<1> USE DEF electionVars, snapshotVars, leaderVars, serviceVars
<1> DEFINE s == m.dst
           r == [type |-> "InstallSnapshotReply", src |-> s, dst |-> m.src,
                 term |-> currentTerm[s], argsTerm |-> m.term,
                 snapshotIndex |-> m.lastIncludedIndex]
           I == /\ log' \in [Server -> Log]
                /\ commitIndex' \in [Server -> Nat]
                /\ snapshotLastIndex' \in [Server -> Nat]
                /\ snapshotLastTerm' \in [Server -> Nat]
                /\ snapshot' \in [Server -> Seq(Value \cup {Nil})]
                /\ isSnapshotApplied' \in [Server -> BOOLEAN]
<1>1. /\ m.src \in Server /\ s \in Server /\ m.term \in Nat
      /\ m.lastIncludedIndex \in Nat /\ m.lastIncludedTerm \in Nat
      /\ m.data \in Seq(Value \cup {Nil})
  <2>1. m \in InstallSnapshotArgs
    BY MessageKinds DEF TypeOK, InstallSnapshot
  <2> QED BY <2>1 DEF InstallSnapshotArgs
<1>2. currentTerm[s] \in Nat /\ log[s] \in Log /\ snapshotLastIndex[s] \in Nat
      /\ commitIndex[s] \in Nat
  BY <1>1, Zenon DEF TypeOK
<1>3. msgs' \in SUBSET Message
  <2>1. r \in Message
    <3> HIDE DEF s
    <3> QED BY <1>1, <1>2 DEF Message, Reply, InstallSnapshotReply
  <2>2. Answer(m, r) /\ msgs \in SUBSET Message
    BY DEF InstallSnapshot, TypeOK
  <2> HIDE DEF r
  <2> QED BY <2>1, <2>2, AnswerType
<1>4. I
  <2>1. CASE UNCHANGED <<log, commitIndex, snapshotVars, isSnapshotApplied>>
    BY <2>1 DEF TypeOK
  <2>2. CASE Install(s, m.lastIncludedIndex, m.lastIncludedTerm, m.data)
    <3>1. InstalledLog(log[s], snapshotLastIndex[s], m.lastIncludedIndex, m.lastIncludedTerm)
            \in Log
      BY <1>1, <1>2, InstalledType, Zenon
    <3>2. Max({commitIndex[s], m.lastIncludedIndex}) \in Nat
      BY <1>1, <1>2, MinMaxType, Zenon
    <3> QED BY <1>1, <2>2, <3>1, <3>2, Zenon DEF Install, TypeOK
  <2> QED BY <2>1, <2>2, Zenon DEF InstallSnapshot
<1>5. disk' \in [Server -> DiskImage]
  BY <1>1, <1>4, PersistType, Zenon DEF InstallSnapshot, TypeOK
<1> QED BY <1>3, <1>4, <1>5, Zenon DEF InstallSnapshot, TypeOK

(* sendInstallSnapshot: nextIndex, matchIndex and commitIndex stay         *)
(* naturals.                                                               *)
LEMMA SendInstallSnapshotType ==
    ASSUME TypeOK, NEW m \in msgs, sendInstallSnapshot(m)
    PROVE  TypeOK'
<1> USE DEF electionVars, snapshotVars, leaderVars, serviceVars
<1> DEFINE s == m.dst
           p == m.src
           i == m.snapshotIndex
           match == Max({i, matchIndex[s][p]})
           next == Max({i + 1, nextIndex[s][p]})
           E == /\ currentTerm' \in [Server -> Nat]
                /\ votedFor' \in [Server -> Server \cup {Nil}]
                /\ state' \in [Server -> {"Follower", "Candidate", "Leader"}]
           L == /\ nextIndex' \in [Server -> [Server -> Nat]]
                /\ matchIndex' \in [Server -> [Server -> Nat]]
           C == commitIndex' \in [Server -> Nat] /\ panicked' \in SUBSET Server
           adopt == becomeFollower(s, m.term) /\ UNCHANGED <<leaderVars, commitIndex, panicked>>
           ignore == UNCHANGED <<currentTerm, votedFor, state, leaderVars, commitIndex, panicked>>
           succeed == /\ nextIndex' = [nextIndex EXCEPT ![s][p] = next]
                      /\ matchIndex' = [matchIndex EXCEPT ![s][p] = match]
                      /\ updateCommitIndex(s, [matchIndex[s] EXCEPT ![p] = match])
                      /\ UNCHANGED <<currentTerm, votedFor, state>>
<1>1. s \in Server /\ p \in Server /\ m.term \in Nat /\ i \in Nat
  <2>1. m \in InstallSnapshotReply
    BY MessageKinds DEF TypeOK, sendInstallSnapshot
  <2> QED BY <2>1 DEF InstallSnapshotReply
<1>2. match \in Nat /\ next \in Nat
  <2>1. matchIndex[s][p] \in Nat /\ nextIndex[s][p] \in Nat
    BY <1>1, Zenon DEF TypeOK
  <2>2. i + 1 \in Nat
    BY <1>1
  <2> QED BY <1>1, <2>1, <2>2, MinMaxType, Zenon
<1>3. adopt \/ ignore \/ succeed
  BY Zenon DEF sendInstallSnapshot
<1>4. E /\ L /\ C
  <2> HIDE DEF match, next
  <2>1. CASE adopt
    BY <1>1, <2>1, Zenon DEF becomeFollower, TypeOK
  <2>2. CASE ignore
    BY <2>2 DEF TypeOK
  <2>3. CASE succeed
    <3>1. [matchIndex[s] EXCEPT ![p] = match] \in [Server -> Nat]
      BY <1>1, <1>2, Zenon DEF TypeOK
    <3>2. [nextIndex[s] EXCEPT ![p] = next] \in [Server -> Nat]
      BY <1>1, <1>2, Zenon DEF TypeOK
    <3>3. C
      BY <1>1, <2>3, <3>1, UpdateCommitIndexType
    <3>4. L
      BY <1>1, <2>3, <3>1, <3>2, Zenon DEF TypeOK
    <3> QED BY <2>3, <3>3, <3>4, Zenon DEF TypeOK
  <2> QED BY <1>3, <2>1, <2>2, <2>3
<1>5. msgs' \in SUBSET Message
  BY DEF sendInstallSnapshot, Consume, TypeOK
<1>6. disk' \in [Server -> DiskImage]
  BY <1>1, <1>4, PersistType, Zenon DEF sendInstallSnapshot, TypeOK
<1> QED BY <1>4, <1>5, <1>6, Zenon DEF sendInstallSnapshot, TypeOK

(* Snapshot trims to a log with a placeholder, or panics.                  *)
LEMMA SnapshotType ==
    ASSUME TypeOK, NEW s \in Server, Snapshot(s)
    PROVE  TypeOK'
<1> USE DEF electionVars, snapshotVars, leaderVars, serviceVars
<1> DEFINE index == snapCall[s]
           i == snapshotLastIndex[s]
           t == EntryAt(log[s], i, index).term
           I == /\ log' \in [Server -> Log]
                /\ snapshotLastIndex' \in [Server -> Nat]
                /\ snapshotLastTerm' \in [Server -> Nat]
                /\ snapshot' \in [Server -> Seq(Value \cup {Nil})]
                /\ panicked' \in SUBSET Server
           keep == UNCHANGED <<log, snapshotVars, panicked>>
           trim == /\ InRange(log[s], i, index)
                   /\ snapshotLastTerm' = [snapshotLastTerm EXCEPT ![s] = t]
                   /\ snapshot' = [snapshot EXCEPT ![s] = applied[s]]
                   /\ log' = [log EXCEPT ![s] = trimLogFrom(log[s], i, index, t)]
                   /\ snapshotLastIndex' = [snapshotLastIndex EXCEPT ![s] = index]
                   /\ UNCHANGED panicked
           panic == panicked' = panicked \cup {s} /\ UNCHANGED <<log, snapshotVars>>
<1>1. /\ index \in Nat /\ i \in Nat /\ log[s] \in Log /\ applied[s] \in Seq(Value \cup {Nil})
  BY DEF TypeOK
<1>2. keep \/ trim \/ panic
  BY Zenon DEF Snapshot
<1>3. I
  <2>1. CASE keep
    BY <2>1, Zenon DEF TypeOK
  <2>2. CASE trim
    <3> HIDE DEF index, i
    <3>1. t \in Nat
      <4>1. EntryAt(log[s], i, index) \in LogEntry
        BY <1>1, <2>2, EntryType
      <4> QED BY <4>1 DEF LogEntry
    <3> HIDE DEF t
    <3>2. trimLogFrom(log[s], i, index, t) \in Log
      BY <1>1, <2>2, <3>1, TrimType
    <3> QED BY <1>1, <2>2, <3>1, <3>2, Zenon DEF TypeOK
  <2>3. CASE panic
    BY <2>3, Zenon DEF TypeOK
  <2> QED BY <1>2, <2>1, <2>2, <2>3
<1>4. snapCall' \in [Server -> Nat]
  BY DEF Snapshot, NoCall, TypeOK
<1>5. disk' \in [Server -> DiskImage]
  BY <1>3, PersistType, Zenon DEF Snapshot, TypeOK
<1> QED BY <1>3, <1>4, <1>5, Zenon DEF Snapshot, TypeOK

(* applyTicker offers a snapshot or a command, or panics.                  *)
LEMMA ApplyTickerType ==
    ASSUME TypeOK, NEW s \in Server, applyTicker(s)
    PROVE  TypeOK'
<1> USE DEF electionVars, snapshotVars, leaderVars, serviceVars
<1> DEFINE i == snapshotLastIndex[s]
           next == lastApplied[s] + 1
           A == /\ lastApplied' \in [Server -> Nat]
                /\ offer' \in [Server -> Offer]
                /\ panicked' \in SUBSET Server
           install == [kind |-> "snapshot", index |-> i, data |-> snapshot[s]]
           command == [kind |-> "command", index |-> next, cmd |-> EntryAt(log[s], i, next).cmd]
           offerSnapshot == /\ lastApplied' = [lastApplied EXCEPT ![s] = i]
                            /\ offer' = [offer EXCEPT ![s] = install]
                            /\ UNCHANGED panicked
           offerCommand == /\ lastApplied' = [lastApplied EXCEPT ![s] = next]
                           /\ InRange(log[s], i, next)
                           /\ offer' = [offer EXCEPT ![s] = command]
                           /\ UNCHANGED panicked
           panic == /\ lastApplied' = [lastApplied EXCEPT ![s] = next]
                    /\ panicked' = panicked \cup {s} /\ UNCHANGED offer
           rest == offer' = [offer EXCEPT ![s] = Idle] /\ UNCHANGED <<lastApplied, panicked>>
<1>1. i \in Nat /\ log[s] \in Log /\ snapshot[s] \in Seq(Value \cup {Nil}) /\ lastApplied[s] \in Nat
  BY DEF TypeOK
<1>2. next \in Nat
  BY <1>1
<1>3. isSnapshotApplied' \in [Server -> BOOLEAN]
  <2>1. PICK done \in BOOLEAN : isSnapshotApplied' = [isSnapshotApplied EXCEPT ![s] = done]
    BY Zenon DEF applyTicker, TypeOK
  <2> QED BY <2>1, Zenon DEF TypeOK
<1>4. offerSnapshot \/ offerCommand \/ panic \/ rest
  BY Zenon DEF applyTicker
<1>5. A
  <2> HIDE DEF i, next
  <2>1. CASE offerSnapshot
    <3>1. install \in Offer
      BY <1>1 DEF Offer
    <3> HIDE DEF install
    <3> QED BY <1>1, <2>1, <3>1, Zenon DEF TypeOK
  <2>2. CASE offerCommand
    <3>1. EntryAt(log[s], i, next) \in LogEntry
      BY <1>1, <1>2, <2>2, EntryType
    <3>2. command \in Offer
      BY <1>2, <3>1 DEF Offer, LogEntry
    <3> HIDE DEF command
    <3> QED BY <1>2, <2>2, <3>2, Zenon DEF TypeOK
  <2>3. CASE panic
    BY <1>2, <2>3 DEF TypeOK
  <2>4. CASE rest
    <3>1. Idle \in Offer
      BY DEF Offer
    <3> QED BY <2>4, <3>1, Zenon DEF TypeOK
  <2> QED BY <1>4, <2>1, <2>2, <2>3, <2>4
<1> QED BY <1>3, <1>5, Zenon DEF applyTicker, TypeOK

(* The service, applierSnap, appends a command or takes over a snapshot.   *)
LEMMA ApplierSnapType ==
    ASSUME TypeOK, NEW s \in Server, applierSnap(s)
    PROVE  TypeOK'
<1> USE DEF electionVars, snapshotVars, leaderVars, serviceVars
<1>1. offer[s] \in Offer /\ applied[s] \in Seq(Value \cup {Nil})
  BY DEF TypeOK
<1>2. CASE /\ offer[s].kind = "snapshot"
           /\ applied' = [applied EXCEPT ![s] = offer[s].data]
           /\ offer' = [offer EXCEPT ![s] = [kind |-> "sent", index |-> offer[s].index]]
           /\ UNCHANGED snapCall
  <2>1. offer[s].data \in Seq(Value \cup {Nil}) /\ offer[s].index \in Nat
    BY <1>1, <1>2 DEF Offer, Idle
  <2>2. [kind |-> "sent", index |-> offer[s].index] \in Offer
    BY <2>1 DEF Offer
  <2>3. applied' \in [Server -> Seq(Value \cup {Nil})] /\ offer' \in [Server -> Offer]
    BY <1>2, <2>1, <2>2, Zenon DEF TypeOK
  <2> QED BY <1>2, <2>3, Zenon DEF applierSnap, TypeOK
<1>3. CASE /\ offer[s].kind = "command"
           /\ applied' = [applied EXCEPT ![s] = Append(applied[s], offer[s].cmd)]
           /\ offer' = [offer EXCEPT ![s] = Idle]
           /\ \/ UNCHANGED snapCall
              \/ snapCall' = [snapCall EXCEPT ![s] = offer[s].index]
  <2>1. offer[s].cmd \in Value \cup {Nil} /\ offer[s].index \in Nat
    BY <1>1, <1>3 DEF Offer, Idle
  <2>2. Append(applied[s], offer[s].cmd) \in Seq(Value \cup {Nil}) /\ Idle \in Offer
    BY <1>1, <2>1, AppendProperties DEF Offer
  <2>3. applied' \in [Server -> Seq(Value \cup {Nil})] /\ offer' \in [Server -> Offer]
    BY <1>3, <2>2, Zenon DEF TypeOK
  <2>4. snapCall' \in [Server -> Nat]
    BY <1>3, <2>1, Zenon DEF TypeOK
  <2> QED BY <2>3, <2>4, Zenon DEF applierSnap, TypeOK
<1> QED BY <1>2, <1>3, Zenon DEF applierSnap

(* A restart reads back a well-formed state from the Persister.            *)
LEMMA MakeType ==
    ASSUME TypeOK, NEW s \in Server, Make(s)
    PROVE  TypeOK'
<1>1. disk[s] \in DiskImage
  BY DEF TypeOK
<1>2. /\ disk[s].currentTerm \in Nat /\ disk[s].votedFor \in Server \cup {Nil}
      /\ disk[s].log \in Log /\ disk[s].snapshotLastIndex \in Nat
      /\ disk[s].snapshotLastTerm \in Nat /\ disk[s].snapshot \in Seq(Value \cup {Nil})
  BY <1>1 DEF DiskImage
<1>3. /\ currentTerm' \in [Server -> Nat]
      /\ votedFor' \in [Server -> Server \cup {Nil}]
      /\ log' \in [Server -> Log]
      /\ snapshotLastIndex' \in [Server -> Nat]
      /\ snapshotLastTerm' \in [Server -> Nat]
      /\ lastApplied' \in [Server -> Nat]
      /\ commitIndex' \in [Server -> Nat]
      /\ snapshot' \in [Server -> Seq(Value \cup {Nil})]
  BY <1>2, Zenon DEF Make, readPersist, TypeOK
<1>4. /\ applied' \in [Server -> Seq(Value \cup {Nil})]
      /\ offer' \in [Server -> Offer]
      /\ snapCall' \in [Server -> Nat]
  <2>1. Idle \in Offer /\ NoCall \in Nat
    BY DEF Offer, NoCall
  <2> QED BY <1>2, <2>1, Zenon DEF Make, newRfsrv, TypeOK
<1>5. /\ nextIndex' \in [Server -> [Server -> Nat]]
      /\ matchIndex' \in [Server -> [Server -> Nat]]
  <2>1. [p \in Server |-> 0] \in [Server -> Nat]
    OBVIOUS
  <2> QED BY <2>1, Zenon DEF Make, TypeOK
<1>6. /\ state' \in [Server -> {"Follower", "Candidate", "Leader"}]
      /\ votesReceived' \in [Server -> SUBSET Server]
      /\ isSnapshotApplied' \in [Server -> BOOLEAN]
      /\ panicked' \in SUBSET Server
      /\ disk' \in [Server -> DiskImage]
  BY Zenon DEF Make, TypeOK
<1>7. msgs' \in SUBSET Message
  <2>1. \A m \in msgs : IsRequest(m) => [m EXCEPT !.live = FALSE] \in Message
    <3> SUFFICES ASSUME NEW m \in msgs, IsRequest(m)
                 PROVE  [m EXCEPT !.live = FALSE] \in Request
      BY DEF Message
    <3>1. m \in RequestVoteArgs \/ m \in AppendEntriesArgs \/ m \in InstallSnapshotArgs
      BY MessageKinds DEF TypeOK, IsRequest
    <3>2. CASE m \in RequestVoteArgs
      BY <3>2, Zenon DEF Request, RequestVoteArgs
    <3>3. CASE m \in AppendEntriesArgs
      BY <3>3, Zenon DEF Request, AppendEntriesArgs
    <3>4. CASE m \in InstallSnapshotArgs
      BY <3>4, Zenon DEF Request, InstallSnapshotArgs
    <3> QED BY <3>1, <3>2, <3>3, <3>4
  <2>2. msgs' = Orphaned(s) /\ msgs \in SUBSET Message
    BY DEF Make, TypeOK
  <2> QED BY <2>1, <2>2, Zenon DEF Orphaned
<1> QED BY <1>3, <1>4, <1>5, <1>6, <1>7, Zenon DEF TypeOK

(* Every step of the cluster keeps every field of its Go type.             *)
LEMMA NextType ==
    ASSUME TypeOK, [Next]_vars
    PROVE  TypeOK'
<1>1. ASSUME NEW s \in Server, startElection(s) PROVE TypeOK'
  BY <1>1, StartElectionType
<1>2. ASSUME NEW s \in Server, runHeartbeatCycle(s) PROVE TypeOK'
  BY <1>2, HeartbeatType
<1>3. ASSUME NEW s \in Server, NEW v \in Value, Start(s, v) PROVE TypeOK'
  BY <1>3, StartType
<1>4. ASSUME NEW s \in Server, applyTicker(s) PROVE TypeOK'
  BY <1>4, ApplyTickerType
<1>5. ASSUME NEW s \in Server, applierSnap(s) PROVE TypeOK'
  BY <1>5, ApplierSnapType
<1>6. ASSUME NEW s \in Server, Snapshot(s) PROVE TypeOK'
  BY <1>6, SnapshotType
<1>7. ASSUME NEW s \in Server, Make(s) PROVE TypeOK'
  BY <1>7, MakeType
<1>8. ASSUME NEW m \in msgs, RequestVote(m) PROVE TypeOK'
  BY <1>8, RequestVoteType
<1>9. ASSUME NEW m \in msgs, sendRequestVote(m) PROVE TypeOK'
  BY <1>9, SendRequestVoteType
<1>10. ASSUME NEW m \in msgs, AppendEntries(m) PROVE TypeOK'
  BY <1>10, AppendEntriesType
<1>11. ASSUME NEW m \in msgs, sendEntries(m) PROVE TypeOK'
  BY <1>11, SendEntriesType
<1>12. ASSUME NEW m \in msgs, InstallSnapshot(m) PROVE TypeOK'
  BY <1>12, InstallSnapshotType
<1>13. ASSUME NEW m \in msgs, sendInstallSnapshot(m) PROVE TypeOK'
  BY <1>13, SendInstallSnapshotType
<1>14. CASE UNCHANGED vars
  BY <1>14, Zenon DEF vars, electionVars, snapshotVars, leaderVars, serviceVars, TypeOK
<1> QED BY <1>1, <1>2, <1>3, <1>4, <1>5, <1>6, <1>7, <1>8, <1>9, <1>10, <1>11, <1>12,
           <1>13, <1>14, Zenon DEF Next

(* In every reachable state each field of Raft, its Persister, the network *)
(* and the service holds a value of its Go type, and no log ever loses its *)
(* placeholder: LastTerm in startElection and RequestVote is never read    *)
(* from an empty log.                                                      *)
THEOREM TypeCorrect == Spec => []TypeOK
<1> QED BY InitType, NextType, PTL DEF Spec
=============================================================================
