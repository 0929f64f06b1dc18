-------------------------------- MODULE Raft --------------------------------
(***************************************************************************)
(* A cluster of raft1/raft.go peers over the labrpc network, each with the *)
(* service that reads its apply channel and the Persister that survives    *)
(* its crashes.  Every section that runs under rf.mu is one action; what   *)
(* happens between two locked sections of a goroutine (an RPC in flight, a *)
(* message offered on applyCh) is state.                                   *)
(***************************************************************************)
EXTENDS RaftLog

CONSTANTS Server,       \* the peers
          MaxTerm,      \* bound: no election beyond this term
          MaxIndex,     \* bound: no Start beyond this absolute index
          MaxInFlight,  \* bound: requests and replies in the network
          Restartable,  \* the peers that may crash and restart
          SnapshotAt    \* the indices after which the service may snapshot

ASSUME ServerAssumption == IsFiniteSet(Server) /\ Server # {} /\ Nil \notin Server
ASSUME BoundAssumption == MaxTerm \in Nat /\ MaxIndex \in Nat /\ MaxInFlight \in Nat
ASSUME ChoiceAssumption == Restartable \subseteq Server /\ SnapshotAt \subseteq Nat

VARIABLES
    currentTerm, votedFor, state, votesReceived,
    log, commitIndex, lastApplied, nextIndex, matchIndex,
    isSnapshotApplied, snapshotLastIndex, snapshotLastTerm, snapshot,
    disk,       \* what persist() last wrote to each peer's Persister
    panicked,   \* peers whose process died of an index out of range
    msgs,       \* requests and replies in the network
    offer,      \* what each applyTicker is handing to its service
    applied,    \* the commands each service has applied, in order
    snapCall    \* a service that is about to call Snapshot, and for which index

electionVars == <<currentTerm, votedFor, state, votesReceived>>
snapshotVars == <<snapshotLastIndex, snapshotLastTerm, snapshot>>
leaderVars == <<nextIndex, matchIndex>>
serviceVars == <<offer, applied, snapCall>>
vars == <<electionVars, log, commitIndex, lastApplied, leaderVars, isSnapshotApplied,
          snapshotVars, disk, panicked, msgs, serviceVars>>

majorityThreshold == (Cardinality(Server) + 1) \div 2

Peers(s) == Server \ {s}

Live(s) == s \notin panicked

LogLength(s) == logLength(log[s], snapshotLastIndex[s])

-----------------------------------------------------------------------------
(* Messages.  A reply also carries what its caller's goroutine remembers   *)
(* of the request.  A request whose caller has crashed is no longer live:  *)
(* it can still arrive, but nobody waits for the reply.                    *)

RequestVoteArgs ==
    [type : {"RequestVote"}, src : Server, dst : Server, live : BOOLEAN, term : Nat,
     lastLogIndex : Nat, lastLogTerm : Nat]

RequestVoteReply ==
    [type : {"RequestVoteReply"}, src : Server, dst : Server, term : Nat,
     voteGranted : BOOLEAN, argsTerm : Nat]

AppendEntriesArgs ==
    [type : {"AppendEntries"}, src : Server, dst : Server, live : BOOLEAN, term : Nat,
     leaderCommit : Nat, prevLogIndex : Nat, prevLogTerm : Nat, entries : Seq(LogEntry)]

AppendEntriesReply ==
    [type : {"AppendEntriesReply"}, src : Server, dst : Server, term : Nat,
     success : BOOLEAN, failedFirstIndex : Nat,
     argsTerm : Nat, prevLogIndex : Nat, numEntries : Nat]

InstallSnapshotArgs ==
    [type : {"InstallSnapshot"}, src : Server, dst : Server, live : BOOLEAN, term : Nat,
     lastIncludedIndex : Nat, lastIncludedTerm : Nat, data : Seq(Value \cup {Nil})]

InstallSnapshotReply ==
    [type : {"InstallSnapshotReply"}, src : Server, dst : Server, term : Nat,
     argsTerm : Nat, snapshotIndex : Nat]

Request == RequestVoteArgs \cup AppendEntriesArgs \cup InstallSnapshotArgs
Reply == RequestVoteReply \cup AppendEntriesReply \cup InstallSnapshotReply
Message == Request \cup Reply

(* The network loses any of the new messages and never exceeds its bound.  *)
SendFrom(base, new) ==
    \E kept \in SUBSET new :
        /\ Cardinality(base \cup kept) <= MaxInFlight
        /\ msgs' = base \cup kept

Send(new) == SendFrom(msgs, new)

(* Handling m and answering r.  The heartbeat loop repeats a leader's      *)
(* requests verbatim, so a second copy of one may still be on its way; a   *)
(* candidate asks for each vote once.                                      *)
Answer(m, r) ==
    LET replies == IF m.live THEN {r} ELSE {}
    IN  \/ SendFrom(msgs \ {m}, replies)
        \/ m.type # "RequestVote" /\ SendFrom(msgs, replies)

(* A reply is handled once.                                                *)
Consume(m) == msgs' = msgs \ {m}

-----------------------------------------------------------------------------
(* persist(): every locked section that changes persistent state ends with *)
(* it, so it writes the values the section leaves behind.  The first two   *)
(* are mutations: one loses the vote, one the log.                         *)
persistForgettingVote(s) ==
    disk' = [disk EXCEPT ![s] =
        [currentTerm |-> currentTerm'[s], votedFor |-> Nil, log |-> log'[s],
         snapshotLastIndex |-> snapshotLastIndex'[s],
         snapshotLastTerm |-> snapshotLastTerm'[s], snapshot |-> snapshot'[s]]]

persistForgettingLog(s) ==
    disk' = [disk EXCEPT ![s] =
        [currentTerm |-> currentTerm'[s], votedFor |-> votedFor'[s], log |-> disk[s].log,
         snapshotLastIndex |-> snapshotLastIndex'[s],
         snapshotLastTerm |-> snapshotLastTerm'[s], snapshot |-> snapshot'[s]]]

persist(s) ==
    disk' = [disk EXCEPT ![s] =
        [currentTerm |-> currentTerm'[s], votedFor |-> votedFor'[s], log |-> log'[s],
         snapshotLastIndex |-> snapshotLastIndex'[s],
         snapshotLastTerm |-> snapshotLastTerm'[s], snapshot |-> snapshot'[s]]]

Idle == [kind |-> "idle"]

NoCall == 0

Init ==
    /\ currentTerm = [s \in Server |-> 0]
    /\ votedFor = [s \in Server |-> Nil]
    /\ state = [s \in Server |-> "Follower"]
    /\ votesReceived = [s \in Server |-> {}]
    /\ log = [s \in Server |-> <<Placeholder(0)>>]
    /\ commitIndex = [s \in Server |-> 0]
    /\ lastApplied = [s \in Server |-> 0]
    /\ nextIndex = [s \in Server |-> [p \in Server |-> 0]]
    /\ matchIndex = [s \in Server |-> [p \in Server |-> 0]]
    /\ isSnapshotApplied = [s \in Server |-> TRUE]
    /\ snapshotLastIndex = [s \in Server |-> 0]
    /\ snapshotLastTerm = [s \in Server |-> 0]
    /\ snapshot = [s \in Server |-> <<>>]
    /\ disk = [s \in Server |->
                 [currentTerm |-> 0, votedFor |-> Nil, log |-> <<Placeholder(0)>>,
                  snapshotLastIndex |-> 0, snapshotLastTerm |-> 0, snapshot |-> <<>>]]
    /\ panicked = {}
    /\ msgs = {}
    /\ offer = [s \in Server |-> Idle]
    /\ applied = [s \in Server |-> <<>>]
    /\ snapCall = [s \in Server |-> NoCall]

-----------------------------------------------------------------------------
(* Leader election.                                                        *)

becomeFollower(s, term) ==
    /\ currentTerm' = [currentTerm EXCEPT ![s] = term]
    /\ votedFor' = [votedFor EXCEPT ![s] = Nil]
    /\ state' = [state EXCEPT ![s] = "Follower"]

(* The votes a new candidate starts with.  The mutation keeps those of its *)
(* last election.                                                          *)
OwnVoteAndOld(s) == votesReceived[s] \cup {s}

OwnVote(s) == {s}

(* ticker fires startElection on a goroutine of its own, which takes the   *)
(* lock later and rechecks nothing: it can run in any state.               *)
startElection(s) ==
    /\ Live(s)
    /\ currentTerm[s] < MaxTerm
    /\ currentTerm' = [currentTerm EXCEPT ![s] = @ + 1]
    /\ state' = [state EXCEPT ![s] = "Candidate"]
    /\ votedFor' = [votedFor EXCEPT ![s] = s]
    /\ votesReceived' = [votesReceived EXCEPT ![s] = OwnVote(s)]
    /\ Send({[type |-> "RequestVote", src |-> s, dst |-> p, live |-> TRUE,
              term |-> currentTerm[s] + 1, lastLogIndex |-> LogLength(s) - 1,
              lastLogTerm |-> LastTerm(log[s])] : p \in Peers(s)})
    /\ UNCHANGED <<log, commitIndex, lastApplied, leaderVars, isSnapshotApplied,
                   snapshotVars, panicked, serviceVars>>
    /\ persist(s)

(* s, whose vote in the term of m is vote, grants it to the sender of m.   *)
(* The mutation gives a vote that is already given.                        *)
GrantsTwice(s, vote, m) ==
    /\ m.term >= currentTerm[s]
    /\ ~MyLogOlder(LogLength(s) - 1, LastTerm(log[s]), m.lastLogIndex, m.lastLogTerm)

Grants(s, vote, m) ==
    /\ m.term >= currentTerm[s]
    /\ vote \in {Nil, m.src}
    /\ ~MyLogOlder(LogLength(s) - 1, LastTerm(log[s]), m.lastLogIndex, m.lastLogTerm)

RequestVote(m) ==
    LET s == m.dst
        newer == m.term > currentTerm[s]
        vote == IF newer THEN Nil ELSE votedFor[s]
        grant == Grants(s, vote, m)
    IN  /\ m.type = "RequestVote"
        /\ Live(s)
        /\ currentTerm' = [currentTerm EXCEPT ![s] = IF newer THEN m.term ELSE @]
        /\ state' = [state EXCEPT ![s] = IF newer THEN "Follower" ELSE @]
        /\ votedFor' = [votedFor EXCEPT ![s] = IF grant THEN m.src ELSE vote]
        /\ Answer(m, [type |-> "RequestVoteReply", src |-> s, dst |-> m.src,
                      term |-> currentTerm[s], voteGranted |-> grant, argsTerm |-> m.term])
        /\ UNCHANGED <<votesReceived, log, commitIndex, lastApplied, leaderVars,
                       isSnapshotApplied, snapshotVars, panicked, serviceVars>>
        /\ persist(s)

(* The goroutine of sendRequestVote once its Call has returned true.       *)
(* Votes are accepted by anyone but a leader, as long as the term is still *)
(* the one they were asked for.                                            *)
sendRequestVote(m) ==
    LET s == m.dst
        votes == votesReceived[s] \cup {m.src}
        ignored == state[s] = "Leader" \/ m.argsTerm # currentTerm[s] \/ ~m.voteGranted
    IN  /\ m.type = "RequestVoteReply"
        /\ Live(s)
        /\ Consume(m)
        /\ \/ /\ m.term > currentTerm[s]
              /\ becomeFollower(s, m.term)
              /\ UNCHANGED <<votesReceived, leaderVars>>
           \/ /\ m.term <= currentTerm[s]
              /\ ignored
              /\ UNCHANGED <<electionVars, leaderVars>>
           \/ /\ m.term <= currentTerm[s]
              /\ ~ignored
              /\ votesReceived' = [votesReceived EXCEPT ![s] = votes]
              /\ UNCHANGED <<currentTerm, votedFor>>
              /\ IF Cardinality(votes) >= majorityThreshold
                   THEN /\ state' = [state EXCEPT ![s] = "Leader"]
                        /\ nextIndex' = [nextIndex EXCEPT ![s] =
                                           [p \in Server |-> LogLength(s)]]
                        /\ matchIndex' = [matchIndex EXCEPT ![s] =
                                           [p \in Server |-> IF p = s THEN LogLength(s) - 1
                                                             ELSE commitIndex[s]]]
                   ELSE UNCHANGED <<state, leaderVars>>
        /\ UNCHANGED <<log, commitIndex, lastApplied, isSnapshotApplied, snapshotVars,
                       panicked, serviceVars>>
        /\ persist(s)

-----------------------------------------------------------------------------
(* Log replication.                                                        *)

(* StartSendEntries indexes the log just below nextIndex.                  *)
CanSendTo(s, lg, p) == nextIndex[s][p] <= logLength(lg, snapshotLastIndex[s])

EntriesFor(s, lg, p) ==
    [type |-> "AppendEntries", src |-> s, dst |-> p, live |-> TRUE, term |-> currentTerm[s],
     leaderCommit |-> commitIndex[s], prevLogIndex |-> nextIndex[s][p] - 1,
     prevLogTerm |-> EntryAt(lg, snapshotLastIndex[s], nextIndex[s][p] - 1).term,
     entries |-> TailFrom(lg, snapshotLastIndex[s], nextIndex[s][p])]

SnapshotFor(s, p) ==
    [type |-> "InstallSnapshot", src |-> s, dst |-> p, live |-> TRUE, term |-> currentTerm[s],
     lastIncludedIndex |-> snapshotLastIndex[s], lastIncludedTerm |-> snapshotLastTerm[s],
     data |-> snapshot[s]]

(* A panic on one peer's nextIndex kills the process; the goroutines it    *)
(* had already started for other peers may or may not get to send.         *)
StartSendEntries(s, lg) ==
    /\ Send({IF nextIndex[s][p] > snapshotLastIndex[s] THEN EntriesFor(s, lg, p)
                                                       ELSE SnapshotFor(s, p) :
               p \in {q \in Peers(s) : CanSendTo(s, lg, q)}})
    /\ panicked' = IF \A p \in Peers(s) : CanSendTo(s, lg, p) THEN panicked
                                                              ELSE panicked \cup {s}

(* One round of runHeartbeatCycle.                                         *)
runHeartbeatCycle(s) ==
    /\ Live(s)
    /\ state[s] = "Leader"
    /\ StartSendEntries(s, log[s])
    /\ UNCHANGED <<electionVars, log, commitIndex, lastApplied, leaderVars,
                   isSnapshotApplied, snapshotVars, disk, serviceVars>>

(* Start on a peer that is not the leader changes nothing.                 *)
Start(s, command) ==
    LET lg == Append(log[s], [term |-> currentTerm[s], cmd |-> command])
    IN  /\ Live(s)
        /\ state[s] = "Leader"
        /\ LogLength(s) <= MaxIndex
        /\ log' = [log EXCEPT ![s] = lg]
        /\ matchIndex' = [matchIndex EXCEPT ![s][s] = LogLength(s)]
        /\ StartSendEntries(s, lg)
        /\ UNCHANGED <<electionVars, commitIndex, lastApplied, nextIndex,
                       isSnapshotApplied, snapshotVars, serviceVars>>
        /\ persist(s)

(* The follower's commitIndex after an accepted AppendEntries that leaves  *)
(* last as its last index.                                                 *)
FollowerCommit(commit, leaderCommit, last) ==
    IF leaderCommit > commit THEN Min({leaderCommit, last}) ELSE commit

AppendEntries(m) ==
    LET s == m.dst
        merged == MergeEntries(log[s], snapshotLastIndex[s], m.prevLogIndex, m.entries)
        last == logLength(merged, snapshotLastIndex[s]) - 1
        answer(ok, first) ==
            Answer(m, [type |-> "AppendEntriesReply", src |-> s, dst |-> m.src,
                       term |-> currentTerm[s], success |-> ok, failedFirstIndex |-> first,
                       argsTerm |-> m.term, prevLogIndex |-> m.prevLogIndex,
                       numEntries |-> Len(m.entries)])
    IN  /\ m.type = "AppendEntries"
        /\ Live(s)
        /\ IF m.term < currentTerm[s]
             THEN answer(FALSE, 0) /\ UNCHANGED <<electionVars, log, commitIndex>>
             ELSE /\ IF m.term > currentTerm[s]
                       THEN becomeFollower(s, m.term)
                       ELSE /\ state' = [state EXCEPT ![s] = "Follower"]
                            /\ UNCHANGED <<currentTerm, votedFor>>
                  /\ UNCHANGED votesReceived
                  /\ IF Accepts(log[s], snapshotLastIndex[s], m.prevLogIndex, m.prevLogTerm)
                       THEN /\ answer(TRUE, 0)
                            /\ log' = [log EXCEPT ![s] = merged]
                            /\ commitIndex' = [commitIndex EXCEPT ![s] =
                                 FollowerCommit(@, m.leaderCommit, last)]
                       ELSE /\ answer(FALSE, RejectionIndex(log[s], snapshotLastIndex[s],
                                                snapshotLastTerm[s], m.prevLogIndex))
                            /\ UNCHANGED <<log, commitIndex>>
        /\ UNCHANGED <<lastApplied, leaderVars, isSnapshotApplied, snapshotVars, panicked,
                       serviceVars>>
        /\ persist(s)

(* A leader counts replicas only for entries of its own term.  The         *)
(* mutation counts them for any entry.                                     *)
LeaderCommitAnyTerm(s, median) == Max({commitIndex[s], median})

LeaderCommit(s, median) ==
    IF EntryAt(log[s], snapshotLastIndex[s], median).term = currentTerm[s]
      THEN median
      ELSE commitIndex[s]

(* updateCommitIndex, with the matchIndex values it sorts.                 *)
updateCommitIndex(s, match) ==
    \E median \in {match[p] : p \in Server} :
        /\ IsMedian(match, median)
        /\ IF InRange(log[s], snapshotLastIndex[s], median)
             THEN /\ commitIndex' = [commitIndex EXCEPT ![s] = LeaderCommit(s, median)]
                  /\ UNCHANGED panicked
             ELSE panicked' = panicked \cup {s} /\ UNCHANGED commitIndex

(* A mutant: a reply counts also after nextIndex has moved on.             *)
StaleReplyAnyIndex(m) == state[m.dst] # "Leader" \/ m.argsTerm # currentTerm[m.dst]

(* A reply that sendEntries ignores: its sender leads no more, leads in    *)
(* another term, or has moved nextIndex since.                             *)
StaleReply(m) ==
    \/ state[m.dst] # "Leader"
    \/ m.argsTerm # currentTerm[m.dst]
    \/ m.prevLogIndex # nextIndex[m.dst][m.src] - 1

(* The goroutine of sendEntries once its Call has returned true.           *)
sendEntries(m) ==
    LET s == m.dst
        p == m.src
        last == m.prevLogIndex + m.numEntries
    IN  /\ m.type = "AppendEntriesReply"
        /\ Live(s)
        /\ Consume(m)
        /\ \/ /\ m.term > currentTerm[s]
              /\ becomeFollower(s, m.term)
              /\ UNCHANGED <<leaderVars, commitIndex, panicked>>
           \/ /\ m.term <= currentTerm[s]
              /\ StaleReply(m)
              /\ UNCHANGED <<currentTerm, votedFor, state, leaderVars, commitIndex, panicked>>
           \/ /\ m.term <= currentTerm[s]
              /\ ~StaleReply(m)
              /\ ~m.success
              /\ nextIndex' = [nextIndex EXCEPT ![s][p] = m.failedFirstIndex]
              /\ UNCHANGED <<currentTerm, votedFor, state, matchIndex, commitIndex, panicked>>
           \/ /\ m.term <= currentTerm[s]
              /\ ~StaleReply(m)
              /\ m.success
              /\ nextIndex' = [nextIndex EXCEPT ![s][p] = last + 1]
              /\ matchIndex' = [matchIndex EXCEPT ![s][p] = last]
              /\ updateCommitIndex(s, [matchIndex[s] EXCEPT ![p] = last])
              /\ UNCHANGED <<currentTerm, votedFor, state>>
        /\ UNCHANGED <<votesReceived, log, lastApplied, isSnapshotApplied, snapshotVars,
                       serviceVars>>
        /\ persist(s)

-----------------------------------------------------------------------------
(* Snapshots.                                                              *)

(* What a newer snapshot replaces.  The mutation forgets to have it        *)
(* handed to the service.                                                  *)
InstallUnannounced(s, i, term, data) ==
    /\ log' = [log EXCEPT ![s] = InstalledLog(@, snapshotLastIndex[s], i, term)]
    /\ commitIndex' = [commitIndex EXCEPT ![s] = Max({@, i})]
    /\ snapshotLastIndex' = [snapshotLastIndex EXCEPT ![s] = i]
    /\ snapshotLastTerm' = [snapshotLastTerm EXCEPT ![s] = term]
    /\ snapshot' = [snapshot EXCEPT ![s] = data]
    /\ UNCHANGED isSnapshotApplied

Install(s, i, term, data) ==
    /\ log' = [log EXCEPT ![s] = InstalledLog(@, snapshotLastIndex[s], i, term)]
    /\ commitIndex' = [commitIndex EXCEPT ![s] = Max({@, i})]
    /\ snapshotLastIndex' = [snapshotLastIndex EXCEPT ![s] = i]
    /\ snapshotLastTerm' = [snapshotLastTerm EXCEPT ![s] = term]
    /\ snapshot' = [snapshot EXCEPT ![s] = data]
    /\ isSnapshotApplied' = [isSnapshotApplied EXCEPT ![s] = FALSE]

(* Neither the term nor the role of the receiver changes.                  *)
InstallSnapshot(m) ==
    LET s == m.dst
    IN  /\ m.type = "InstallSnapshot"
        /\ Live(s)
        /\ Answer(m, [type |-> "InstallSnapshotReply", src |-> s, dst |-> m.src,
                      term |-> currentTerm[s], argsTerm |-> m.term,
                      snapshotIndex |-> m.lastIncludedIndex])
        /\ IF m.term < currentTerm[s] \/ snapshotLastIndex[s] >= m.lastIncludedIndex
             THEN UNCHANGED <<log, commitIndex, snapshotVars, isSnapshotApplied>>
             ELSE Install(s, m.lastIncludedIndex, m.lastIncludedTerm, m.data)
        /\ UNCHANGED <<electionVars, lastApplied, leaderVars, panicked, serviceVars>>
        /\ persist(s)

(* The goroutine of sendInstallSnapshot once its Call has returned true.   *)
sendInstallSnapshot(m) ==
    LET s == m.dst
        p == m.src
        i == m.snapshotIndex
        match == Max({i, matchIndex[s][p]})
        stale == \/ state[s] # "Leader"
                 \/ m.argsTerm # currentTerm[s]
                 \/ i # snapshotLastIndex[s]
    IN  /\ m.type = "InstallSnapshotReply"
        /\ Live(s)
        /\ Consume(m)
        /\ \/ /\ m.term > currentTerm[s]
              /\ becomeFollower(s, m.term)
              /\ UNCHANGED <<leaderVars, commitIndex, panicked>>
           \/ /\ m.term <= currentTerm[s]
              /\ stale
              /\ UNCHANGED <<currentTerm, votedFor, state, leaderVars, commitIndex, panicked>>
           \/ /\ m.term <= currentTerm[s]
              /\ ~stale
              /\ nextIndex' = [nextIndex EXCEPT ![s][p] = Max({i + 1, @})]
              /\ matchIndex' = [matchIndex EXCEPT ![s][p] = match]
              /\ updateCommitIndex(s, [matchIndex[s] EXCEPT ![p] = match])
              /\ UNCHANGED <<currentTerm, votedFor, state>>
        /\ UNCHANGED <<votesReceived, log, lastApplied, isSnapshotApplied, snapshotVars,
                       serviceVars>>
        /\ persist(s)

(* The service's call of Snapshot, with all it has applied as the data.    *)
Snapshot(s) ==
    LET index == snapCall[s]
        t == EntryAt(log[s], snapshotLastIndex[s], index).term
    IN  /\ Live(s)
        /\ index # NoCall
        /\ snapCall' = [snapCall EXCEPT ![s] = NoCall]
        /\ IF snapshotLastIndex[s] >= index
             THEN UNCHANGED <<log, snapshotVars, panicked>>
             ELSE IF InRange(log[s], snapshotLastIndex[s], index)
                    THEN /\ snapshotLastTerm' = [snapshotLastTerm EXCEPT ![s] = t]
                         /\ snapshot' = [snapshot EXCEPT ![s] = applied[s]]
                         /\ log' = [log EXCEPT ![s] =
                                      trimLogFrom(@, snapshotLastIndex[s], index, t)]
                         /\ snapshotLastIndex' = [snapshotLastIndex EXCEPT ![s] = index]
                         /\ UNCHANGED panicked
                    ELSE panicked' = panicked \cup {s} /\ UNCHANGED <<log, snapshotVars>>
        /\ UNCHANGED <<electionVars, commitIndex, lastApplied, leaderVars,
                       isSnapshotApplied, msgs, offer, applied>>
        /\ persist(s)

-----------------------------------------------------------------------------
(* Applying.  offer[s] is where applyTicker stands: "idle" when it is      *)
(* about to take the lock, "snapshot" or "command" while it blocks on      *)
(* applyCh, "sent" when a snapshot has been taken over by the service and  *)
(* the lock is not yet retaken.                                            *)

(* applyTicker's locked section: note a snapshot that is still the latest  *)
(* as applied, then take the next snapshot or command to hand over.        *)
applyTicker(s) ==
    LET done == \/ isSnapshotApplied[s]
                \/ offer[s].kind = "sent" /\ offer[s].index = snapshotLastIndex[s]
        next == lastApplied[s] + 1
    IN  /\ Live(s)
        /\ offer[s].kind \in {"idle", "sent"}
        /\ isSnapshotApplied' = [isSnapshotApplied EXCEPT ![s] = done]
        /\ \/ /\ ~done
              /\ lastApplied' = [lastApplied EXCEPT ![s] = snapshotLastIndex[s]]
              /\ offer' = [offer EXCEPT ![s] = [kind |-> "snapshot",
                              index |-> snapshotLastIndex[s], data |-> snapshot[s]]]
              /\ UNCHANGED panicked
           \/ /\ done
              /\ commitIndex[s] >= next
              /\ lastApplied' = [lastApplied EXCEPT ![s] = next]
              /\ IF InRange(log[s], snapshotLastIndex[s], next)
                   THEN /\ offer' = [offer EXCEPT ![s] = [kind |-> "command", index |-> next,
                              cmd |-> EntryAt(log[s], snapshotLastIndex[s], next).cmd]]
                        /\ UNCHANGED panicked
                   ELSE panicked' = panicked \cup {s} /\ UNCHANGED offer
           \/ /\ done
              /\ commitIndex[s] < next
              /\ offer[s].kind = "sent"
              /\ offer' = [offer EXCEPT ![s] = Idle]
              /\ UNCHANGED <<lastApplied, panicked>>
        /\ UNCHANGED <<electionVars, log, commitIndex, leaderVars, snapshotVars, disk, msgs,
                       applied, snapCall>>

(* The service takes a message off applyCh: it replaces its state by a     *)
(* snapshot, or applies a command and may go on to call Snapshot.          *)
applierSnap(s) ==
    /\ Live(s)
    /\ snapCall[s] = NoCall
    /\ \/ /\ offer[s].kind = "snapshot"
          /\ applied' = [applied EXCEPT ![s] = offer[s].data]
          /\ offer' = [offer EXCEPT ![s] = [kind |-> "sent", index |-> offer[s].index]]
          /\ UNCHANGED snapCall
       \/ /\ offer[s].kind = "command"
          /\ applied' = [applied EXCEPT ![s] = Append(@, offer[s].cmd)]
          /\ offer' = [offer EXCEPT ![s] = Idle]
          /\ \/ UNCHANGED snapCall
             \/ /\ offer[s].index \in SnapshotAt
                /\ snapCall' = [snapCall EXCEPT ![s] = offer[s].index]
    /\ UNCHANGED <<electionVars, log, commitIndex, lastApplied, leaderVars,
                   isSnapshotApplied, snapshotVars, disk, panicked, msgs>>

-----------------------------------------------------------------------------
(* Crash and restart.                                                      *)

(* The callers of s's outstanding requests die with it.                    *)
IsRequest(m) == m.type \in {"RequestVote", "AppendEntries", "InstallSnapshot"}

Orphaned(s) ==
    {IF IsRequest(m) /\ m.src = s THEN [m EXCEPT !.live = FALSE] ELSE m :
        m \in {n \in msgs : IsRequest(n) \/ n.dst # s}}

readPersist(s) ==
    LET d == disk[s]
    IN  /\ currentTerm' = [currentTerm EXCEPT ![s] = d.currentTerm]
        /\ votedFor' = [votedFor EXCEPT ![s] = d.votedFor]
        /\ log' = [log EXCEPT ![s] = d.log]
        /\ snapshotLastIndex' = [snapshotLastIndex EXCEPT ![s] = d.snapshotLastIndex]
        /\ snapshotLastTerm' = [snapshotLastTerm EXCEPT ![s] = d.snapshotLastTerm]
        /\ lastApplied' = [lastApplied EXCEPT ![s] = d.snapshotLastIndex]
        /\ commitIndex' = [commitIndex EXCEPT ![s] = d.snapshotLastIndex]

(* newRfsrv loads the snapshot before it reads applyCh.                    *)
newRfsrv(s) ==
    /\ applied' = [applied EXCEPT ![s] = disk[s].snapshot]
    /\ offer' = [offer EXCEPT ![s] = Idle]
    /\ snapCall' = [snapCall EXCEPT ![s] = NoCall]

(* Crash and restart with the Persister of the crashed process.            *)
Make(s) ==
    /\ s \in Restartable
    /\ readPersist(s)
    /\ newRfsrv(s)
    /\ snapshot' = [snapshot EXCEPT ![s] = disk[s].snapshot]
    /\ state' = [state EXCEPT ![s] = "Follower"]
    /\ votesReceived' = [votesReceived EXCEPT ![s] = {}]
    /\ nextIndex' = [nextIndex EXCEPT ![s] = [p \in Server |-> 0]]
    /\ matchIndex' = [matchIndex EXCEPT ![s] = [p \in Server |-> 0]]
    /\ isSnapshotApplied' = [isSnapshotApplied EXCEPT ![s] = TRUE]
    /\ panicked' = panicked \ {s}
    /\ msgs' = Orphaned(s)
    /\ UNCHANGED disk

-----------------------------------------------------------------------------
Next ==
    \/ \E s \in Server :
          \/ startElection(s)
          \/ runHeartbeatCycle(s)
          \/ \E v \in Value : Start(s, v)
          \/ applyTicker(s)
          \/ applierSnap(s)
          \/ Snapshot(s)
          \/ Make(s)
    \/ \E m \in msgs :
          \/ RequestVote(m)
          \/ sendRequestVote(m)
          \/ AppendEntries(m)
          \/ sendEntries(m)
          \/ InstallSnapshot(m)
          \/ sendInstallSnapshot(m)

Spec == Init /\ [][Next]_vars

-----------------------------------------------------------------------------
Offer == {Idle}
    \cup [kind : {"sent"}, index : Nat]
    \cup [kind : {"snapshot"}, index : Nat, data : Seq(Value \cup {Nil})]
    \cup [kind : {"command"}, index : Nat, cmd : Value \cup {Nil}]

DiskImage ==
    [currentTerm : Nat, votedFor : Server \cup {Nil}, log : Log,
     snapshotLastIndex : Nat, snapshotLastTerm : Nat, snapshot : Seq(Value \cup {Nil})]

(* The fields of Raft, its Persister, the network and the service hold     *)
(* values of their Go types; a log is never without its placeholder.       *)
TypeOK ==
    /\ currentTerm \in [Server -> Nat]
    /\ votedFor \in [Server -> Server \cup {Nil}]
    /\ state \in [Server -> {"Follower", "Candidate", "Leader"}]
    /\ votesReceived \in [Server -> SUBSET Server]
    /\ log \in [Server -> Log]
    /\ commitIndex \in [Server -> Nat]
    /\ lastApplied \in [Server -> Nat]
    /\ nextIndex \in [Server -> [Server -> Nat]]
    /\ matchIndex \in [Server -> [Server -> Nat]]
    /\ isSnapshotApplied \in [Server -> BOOLEAN]
    /\ snapshotLastIndex \in [Server -> Nat]
    /\ snapshotLastTerm \in [Server -> Nat]
    /\ snapshot \in [Server -> Seq(Value \cup {Nil})]
    /\ disk \in [Server -> DiskImage]
    /\ panicked \in SUBSET Server
    /\ msgs \in SUBSET Message
    /\ offer \in [Server -> Offer]
    /\ applied \in [Server -> Seq(Value \cup {Nil})]
    /\ snapCall \in [Server -> Nat]

(* checkOneLeader in test.go: no term has two leaders.                     *)
ElectionSafety ==
    \A s, p \in Server :
        /\ state[s] = "Leader" /\ state[p] = "Leader"
        /\ currentTerm[s] = currentTerm[p]
        => s = p

(* A vote outlives everything but a higher term: terms never go back, and  *)
(* within a term a vote once cast is never changed, not even by a crash    *)
(* and restart (RequestVote, startElection, persist, readPersist).         *)
VoteOncePerTerm ==
    [][\A s \in Server :
          /\ currentTerm'[s] >= currentTerm[s]
          /\ currentTerm'[s] = currentTerm[s] /\ votedFor[s] # Nil
               => votedFor'[s] = votedFor[s]]_vars

(* Why there is one leader: the vote of v for s in term t is on its way    *)
(* back or counted by s.                                                   *)
Granted(m) == m.type = "RequestVoteReply" /\ m.voteGranted

Voted(v, s, t) ==
    \/ votedFor[s] = s /\ currentTerm[s] = t /\ v \in votesReceived[s]
    \/ \E m \in msgs : Granted(m) /\ m.src = v /\ m.dst = s /\ m.argsTerm = t

VoteTerms == {currentTerm[s] : s \in Server} \cup {m.argsTerm : m \in {n \in msgs : Granted(n)}}

(* What persist() wrote is what a peer has promised (RequestVote and       *)
(* startElection do not answer or ask before they persist).                *)
DiskHoldsVotes ==
    \A s \in Server :
        disk[s].currentTerm = currentTerm[s] /\ disk[s].votedFor = votedFor[s]

(* A peer asks others, and only them, for votes in a term in which it has  *)
(* voted for itself (startElection).                                       *)
AskedAsCandidate ==
    \A m \in msgs :
        /\ m.type = "RequestVote" =>
              /\ m.src # m.dst
              /\ m.term <= currentTerm[m.src]
              /\ m.term = currentTerm[m.src] => votedFor[m.src] = m.src
        /\ Granted(m) =>
              /\ m.argsTerm <= currentTerm[m.dst]
              /\ m.argsTerm = currentTerm[m.dst] => votedFor[m.dst] = m.dst

(* A voter has reached the term of its vote, and remembers the vote for as *)
(* long as it stays in that term (RequestVote).                            *)
VotesAreKept ==
    \A v, s \in Server, t \in VoteTerms :
        Voted(v, s, t) => /\ t <= currentTerm[v]
                          /\ t = currentTerm[v] => votedFor[v] = s

(* Nobody's vote in a term is good for two candidates, also if the voter   *)
(* has moved on or crashed since (RequestVote, persist, readPersist).      *)
VotesAreUnique ==
    \A v, s, p \in Server, t \in VoteTerms : Voted(v, s, t) /\ Voted(v, p, t) => s = p

(* A leader voted for itself and has counted enough votes in its term      *)
(* (countVotes, sendRequestVote).                                          *)
LeadersWereElected ==
    \A s \in Server : state[s] = "Leader" =>
        votedFor[s] = s /\ Cardinality(votesReceived[s]) >= majorityThreshold

(* The inductive invariant behind ElectionSafety: every vote a candidate   *)
(* counts, or will count, is a promise its voter has made to no one else   *)
(* (startElection, RequestVote, sendRequestVote, persist).                 *)
ElectionInv ==
    /\ DiskHoldsVotes
    /\ AskedAsCandidate
    /\ VotesAreKept
    /\ VotesAreUnique
    /\ LeadersWereElected

-----------------------------------------------------------------------------
(* Log matching, on the indices both peers still hold: if two logs have    *)
(* the same term at an index they have the same entries up to that index   *)
(* (AppendEntries' consistency check and merge loop, trimLogFrom).         *)
LogMatching ==
    \A s, p \in Server :
        LET low == 1 + Max({snapshotLastIndex[s], snapshotLastIndex[p]})
            high == Min({LogLength(s), LogLength(p)}) - 1
            at(q, i) == EntryAt(log[q], snapshotLastIndex[q], i)
        IN  \A i \in low .. high :
                at(s, i).term = at(p, i).term => \A j \in low .. i : at(s, j) = at(p, j)

(* A running peer never takes back what it has committed.  A leader's      *)
(* updateCommitIndex assigns the median of matchIndex whatever commitIndex *)
(* is: replies arrive out of order and for overlapping ranges of entries,  *)
(* and still the median never falls below an index the leader has          *)
(* committed, here or as a follower.  Only a restart resets commitIndex.   *)
CommitNeverRetreats ==
    [][\A s \in Server : commitIndex'[s] >= commitIndex[s] \/ Make(s)]_vars

-----------------------------------------------------------------------------
(* Commands reach the service in order: the one on offer is the next one   *)
(* after those applied, it is a real command and not the placeholder of a  *)
(* trimmed log, and a snapshot on offer is as long as it says (applyTicker *)
(* against InstallSnapshot and Snapshot; checked by applierSnap).          *)
AppliesInOrder ==
    \A s \in Server :
        /\ offer[s].kind = "command" =>
              offer[s].index = Len(applied[s]) + 1 /\ offer[s].cmd \in Value
        /\ offer[s].kind = "snapshot" => offer[s].index = Len(offer[s].data)

(* No peer indexes its log out of range.                                   *)
NoPanic == panicked = {}
=============================================================================
