--------------------------- MODULE ElectionProofs ---------------------------
(***************************************************************************)
(* Votes and leaders in clusters of any size: a vote is never taken back,  *)
(* and no term has two leaders if the number of peers is odd.              *)
(***************************************************************************)
EXTENDS RaftProofs

(* The body of VoteOncePerTerm.                                            *)
VotesStand ==
    \A s \in Server :
        /\ currentTerm'[s] >= currentTerm[s]
        /\ currentTerm'[s] = currentTerm[s] /\ votedFor[s] # Nil => votedFor'[s] = votedFor[s]

(* A step that neither asks for, grants nor counts a vote: it keeps votes, *)
(* makes no candidate and no leader, and persists what it promises.        *)
NoNewVotes ==
    /\ \A s \in Server : votedFor'[s] = s =>
          /\ currentTerm'[s] = currentTerm[s] /\ votedFor[s] = s
          /\ votesReceived'[s] \subseteq votesReceived[s]
    /\ \A s \in Server : state'[s] = "Leader" =>
          /\ state[s] = "Leader" /\ votedFor'[s] = s /\ votesReceived'[s] = votesReceived[s]
    /\ \A m \in msgs' :
          /\ Granted(m) => m \in msgs
          /\ m.type = "RequestVote" =>
                \E n \in msgs : /\ n.type = "RequestVote"
                                /\ n.src = m.src /\ n.dst = m.dst /\ n.term = m.term

(* A vote that is counted or under way is in one of the terms of VoteTerms.*)
LEMMA VotedInTerm ==
    ASSUME NEW v \in Server, NEW s \in Server, NEW t, Voted(v, s, t)
    PROVE  t \in VoteTerms
BY DEF Voted, VoteTerms

(* VotesAreKept and VotesAreUnique from what a step does to single votes.  *)
LEMMA VotesStepwise ==
    ASSUME TypeOK, TypeOK', VotesAreKept, VotesAreUnique, VotesStand,
           \A v, s \in Server, t \in Nat : Voted(v, s, t)' =>
              \/ Voted(v, s, t)
              \/ /\ currentTerm'[v] = t /\ votedFor'[v] = s
                 /\ \/ t > currentTerm[v]
                    \/ t = currentTerm[v] /\ votedFor[v] \in {Nil, s}
    PROVE  VotesAreKept' /\ VotesAreUnique'
<1>1. VoteTerms' \subseteq Nat
  <2>1. \A m \in msgs' : Granted(m) => m.argsTerm \in Nat
    BY MessageKinds DEF TypeOK, Granted, RequestVoteReply
  <2>2. \A s \in Server : currentTerm'[s] \in Nat
    BY DEF TypeOK
  <2>3. VoteTerms' = {currentTerm'[s] : s \in Server}
                        \cup {m.argsTerm : m \in {n \in msgs' : Granted(n)}}
    BY Zenon DEF VoteTerms, Granted
  <2> QED BY <2>1, <2>2, <2>3
<1>2. ASSUME NEW v \in Server, NEW s \in Server, NEW t \in Nat, Voted(v, s, t)
      PROVE  t <= currentTerm[v] /\ (t = currentTerm[v] => votedFor[v] = s)
  BY <1>2, VotedInTerm, Zenon DEF VotesAreKept
<1>3. ASSUME NEW v \in Server, NEW s \in Server, NEW p \in Server, NEW t \in Nat,
             Voted(v, s, t), Voted(v, p, t)
      PROVE  s = p
  BY <1>3, VotedInTerm, Zenon DEF VotesAreUnique
<1>4. ASSUME NEW v \in Server
      PROVE  currentTerm[v] \in Nat /\ currentTerm'[v] \in Nat
  BY DEF TypeOK
<1>5. VotesAreKept'
  <2> SUFFICES ASSUME NEW v \in Server, NEW s \in Server, NEW t \in Nat, Voted(v, s, t)'
               PROVE  t <= currentTerm'[v] /\ (t = currentTerm'[v] => votedFor'[v] = s)
    BY <1>1 DEF VotesAreKept
  <2>1. CASE Voted(v, s, t)
    <3>1. t <= currentTerm[v] /\ (t = currentTerm[v] => votedFor[v] = s) /\ s # Nil
      BY <1>2, <2>1, ServerAssumption
    <3> QED BY <1>4, <3>1 DEF VotesStand
  <2>2. CASE currentTerm'[v] = t /\ votedFor'[v] = s
    BY <2>2
  <2> QED BY <2>1, <2>2
<1>6. VotesAreUnique'
  <2> SUFFICES ASSUME NEW v \in Server, NEW s \in Server, NEW p \in Server, NEW t \in Nat,
                      Voted(v, s, t)', Voted(v, p, t)'
               PROVE  s = p
    BY <1>1 DEF VotesAreUnique
  <2> DEFINE fresh(c) == /\ currentTerm'[v] = t /\ votedFor'[v] = c
                         /\ \/ t > currentTerm[v]
                            \/ t = currentTerm[v] /\ votedFor[v] \in {Nil, c}
  <2>1. Voted(v, s, t) \/ fresh(s)
    OBVIOUS
  <2>2. Voted(v, p, t) \/ fresh(p)
    OBVIOUS
  <2>3. ASSUME NEW c \in Server, NEW d \in Server, Voted(v, c, t), fresh(d)
        PROVE  c = d
    <3>1. t <= currentTerm[v] /\ (t = currentTerm[v] => votedFor[v] = c) /\ c # Nil
      BY <1>2, <2>3, ServerAssumption
    <3> QED BY <1>4, <2>3, <3>1
  <2>4. ASSUME fresh(s), fresh(p) PROVE s = p
    BY <2>4
  <2> HIDE DEF fresh
  <2> QED BY <1>3, <2>1, <2>2, <2>3, <2>4
<1> QED BY <1>5, <1>6

(* A step without new votes keeps the election invariant.                  *)
LEMMA QuietStep ==
    ASSUME TypeOK, TypeOK', ElectionInv, VotesStand, NoNewVotes, DiskHoldsVotes'
    PROVE  ElectionInv'
<1>1. VotesAreKept' /\ VotesAreUnique'
  <2>1. \A v, s \in Server, t \in Nat : Voted(v, s, t)' => Voted(v, s, t)
    BY DEF Voted, NoNewVotes, Granted
  <2> QED BY <2>1, VotesStepwise DEF ElectionInv
<1>2. AskedAsCandidate'
  <2>1. ASSUME NEW n \in Server, NEW t \in Nat,
               t <= currentTerm[n], t = currentTerm[n] => votedFor[n] = n
        PROVE  t <= currentTerm'[n] /\ (t = currentTerm'[n] => votedFor'[n] = n)
    <3>1. currentTerm[n] \in Nat /\ currentTerm'[n] \in Nat /\ n # Nil
      BY ServerAssumption DEF TypeOK
    <3> QED BY <2>1, <3>1 DEF VotesStand
  <2> SUFFICES ASSUME NEW m \in msgs'
      PROVE  /\ m.type = "RequestVote" =>
                  /\ m.src # m.dst
                  /\ m.term <= currentTerm'[m.src]
                  /\ m.term = currentTerm'[m.src] => votedFor'[m.src] = m.src
             /\ Granted(m) =>
                  /\ m.argsTerm <= currentTerm'[m.dst]
                  /\ m.argsTerm = currentTerm'[m.dst] => votedFor'[m.dst] = m.dst
    BY Zenon DEF AskedAsCandidate, Granted
  <2>2. m \in Message
    BY DEF TypeOK
  <2>3. ASSUME m.type = "RequestVote"
        PROVE  /\ m.src # m.dst
               /\ m.term <= currentTerm'[m.src]
               /\ m.term = currentTerm'[m.src] => votedFor'[m.src] = m.src
    <3>1. PICK n \in msgs : /\ n.type = "RequestVote"
                            /\ n.src = m.src /\ n.dst = m.dst /\ n.term = m.term
      BY <2>3, Zenon DEF NoNewVotes
    <3>2. /\ m.src # m.dst
          /\ m.term <= currentTerm[m.src]
          /\ m.term = currentTerm[m.src] => votedFor[m.src] = m.src
      BY <3>1, Zenon DEF ElectionInv, AskedAsCandidate
    <3>3. m.src \in Server /\ m.term \in Nat
      BY <2>2, MessageKinds
    <3> QED BY <2>1, <3>2, <3>3
  <2>4. ASSUME Granted(m)
        PROVE  /\ m.argsTerm <= currentTerm'[m.dst]
               /\ m.argsTerm = currentTerm'[m.dst] => votedFor'[m.dst] = m.dst
    <3>1. /\ m.argsTerm <= currentTerm[m.dst]
          /\ m.argsTerm = currentTerm[m.dst] => votedFor[m.dst] = m.dst
      BY <2>4, Zenon DEF NoNewVotes, ElectionInv, AskedAsCandidate
    <3>2. m.dst \in Server /\ m.argsTerm \in Nat
      BY <2>2, <2>4, MessageKinds DEF Granted, RequestVoteReply
    <3> QED BY <2>1, <3>1, <3>2
  <2> QED BY <2>3, <2>4
<1>3. LeadersWereElected'
  BY DEF LeadersWereElected, NoNewVotes, ElectionInv
<1> QED BY <1>1, <1>2, <1>3 DEF ElectionInv

-----------------------------------------------------------------------------
(* The election invariant, action by action.                               *)

(* Nobody has voted when the cluster starts.                               *)
LEMMA InitElection == Init => ElectionInv
<1> SUFFICES ASSUME Init PROVE ElectionInv
  OBVIOUS
<1>1. \A v, s \in Server, t \in VoteTerms : ~Voted(v, s, t)
  BY DEF Init, Voted
<1>2. VotesAreKept /\ VotesAreUnique
  BY <1>1, Zenon DEF VotesAreKept, VotesAreUnique
<1>3. DiskHoldsVotes /\ AskedAsCandidate /\ LeadersWereElected
  BY DEF Init, DiskHoldsVotes, AskedAsCandidate, LeadersWereElected
<1> QED BY <1>2, <1>3 DEF ElectionInv

(* What persist() writes keeps the disk in step with memory.               *)
LEMMA PersistVotes ==
    ASSUME TypeOK, DiskHoldsVotes, NEW s \in Server, persist(s),
           \A p \in Server \ {s} : currentTerm'[p] = currentTerm[p] /\ votedFor'[p] = votedFor[p]
    PROVE  DiskHoldsVotes'
<1> DEFINE d == [currentTerm |-> currentTerm'[s], votedFor |-> votedFor'[s], log |-> log'[s],
                 snapshotLastIndex |-> snapshotLastIndex'[s],
                 snapshotLastTerm |-> snapshotLastTerm'[s], snapshot |-> snapshot'[s]]
<1>1. disk' = [disk EXCEPT ![s] = d] /\ disk \in [Server -> DiskImage]
  BY DEF persist, TypeOK
<1>2. d.currentTerm = currentTerm'[s] /\ d.votedFor = votedFor'[s]
  OBVIOUS
<1> HIDE DEF d
<1>3. disk'[s] = d /\ \A p \in Server \ {s} : disk'[p] = disk[p]
  BY <1>1
<1> QED BY <1>2, <1>3 DEF DiskHoldsVotes

(* A peer keeps its term and vote, or follows a higher term with no vote.  *)
LEMMA FollowerVotes ==
    ASSUME TypeOK, TypeOK', ElectionInv, NEW s \in Server, persist(s), UNCHANGED votesReceived,
           \/ UNCHANGED <<currentTerm, votedFor>> /\ UNCHANGED state
           \/ /\ UNCHANGED <<currentTerm, votedFor>>
              /\ state' = [state EXCEPT ![s] = "Follower"]
           \/ \E t \in Nat : t > currentTerm[s] /\ becomeFollower(s, t),
           \A m \in msgs' : Granted(m) \/ m.type = "RequestVote" => m \in msgs
    PROVE  ElectionInv' /\ VotesStand
<1>1. ASSUME UNCHANGED <<currentTerm, votedFor>>
      PROVE  /\ VotesStand /\ DiskHoldsVotes'
             /\ \A p \in Server : votedFor'[p] = p =>
                   /\ currentTerm'[p] = currentTerm[p] /\ votedFor[p] = p
                   /\ votesReceived'[p] \subseteq votesReceived[p]
  <2>1. DiskHoldsVotes'
    BY <1>1, PersistVotes DEF ElectionInv
  <2>2. VotesStand
    BY <1>1 DEF VotesStand, TypeOK
  <2> QED BY <1>1, <2>1, <2>2
<1>2. \A m \in msgs' :
          /\ Granted(m) => m \in msgs
          /\ m.type = "RequestVote" =>
                \E n \in msgs : /\ n.type = "RequestVote"
                                /\ n.src = m.src /\ n.dst = m.dst /\ n.term = m.term
  BY Zenon
<1>3. CASE UNCHANGED <<currentTerm, votedFor>> /\ UNCHANGED state
  <2>1. NoNewVotes
    BY <1>1, <1>2, <1>3 DEF NoNewVotes, ElectionInv, LeadersWereElected
  <2> QED BY <1>1, <1>3, <2>1, QuietStep
<1>4. CASE /\ UNCHANGED <<currentTerm, votedFor>>
           /\ state' = [state EXCEPT ![s] = "Follower"]
  <2>1. \A p \in Server : state'[p] = "Leader" => state[p] = "Leader"
    BY <1>4 DEF TypeOK
  <2>2. NoNewVotes
    BY <1>1, <1>2, <1>4, <2>1 DEF NoNewVotes, ElectionInv, LeadersWereElected
  <2> QED BY <1>1, <1>4, <2>2, QuietStep
<1>5. ASSUME NEW t \in Nat, t > currentTerm[s], becomeFollower(s, t)
      PROVE  ElectionInv' /\ VotesStand
  <2>1. /\ currentTerm'[s] = t /\ votedFor'[s] = Nil /\ state'[s] = "Follower"
        /\ \A p \in Server \ {s} : /\ currentTerm'[p] = currentTerm[p]
                                   /\ votedFor'[p] = votedFor[p]
                                   /\ state'[p] = state[p]
    BY <1>5 DEF becomeFollower, TypeOK
  <2>2. \A p \in Server : currentTerm[p] \in Nat
    BY DEF TypeOK
  <2>3. VotesStand
    BY <1>5, <2>1, <2>2 DEF VotesStand
  <2>4. DiskHoldsVotes'
    BY <2>1, PersistVotes DEF ElectionInv
  <2>5. NoNewVotes
    <3>1. \A p \in Server : votedFor'[p] = p => p # s
      BY <2>1, ServerAssumption
    <3>2. \A p \in Server : state'[p] = "Leader" => p # s
      BY <2>1
    <3> QED BY <1>2, <2>1, <3>1, <3>2 DEF NoNewVotes, ElectionInv, LeadersWereElected
  <2> QED BY <2>3, <2>4, <2>5, QuietStep
<1> QED BY <1>3, <1>4, <1>5

(* A step that touches no election state and sends no vote keeps it all.   *)
LEMMA SilentStep ==
    ASSUME TypeOK, TypeOK', ElectionInv, UNCHANGED electionVars, DiskHoldsVotes',
           \A m \in msgs' : Granted(m) \/ m.type = "RequestVote" => m \in msgs
    PROVE  ElectionInv' /\ VotesStand
<1> USE DEF electionVars
<1>1. VotesStand
  BY DEF VotesStand, TypeOK
<1>2. \A m \in msgs' :
          /\ Granted(m) => m \in msgs
          /\ m.type = "RequestVote" =>
                \E n \in msgs : /\ n.type = "RequestVote"
                                /\ n.src = m.src /\ n.dst = m.dst /\ n.term = m.term
  BY Zenon
<1>3. NoNewVotes
  BY <1>2 DEF NoNewVotes, ElectionInv, LeadersWereElected
<1> QED BY <1>1, <1>3, QuietStep

(* An answer adds nothing to the network but itself.                       *)
LEMMA AnswerAdds ==
    ASSUME NEW m, NEW r, Answer(m, r)
    PROVE  msgs' \subseteq msgs \cup {r}
BY DEF Answer, SendFrom

(* A leader's broadcast contains no vote and asks for none.                *)
LEMMA BroadcastAsksNoVotes ==
    ASSUME NEW s \in Server, NEW lg, StartSendEntries(s, lg), NEW m \in msgs',
           Granted(m) \/ m.type = "RequestVote"
    PROVE  m \in msgs
<1> DEFINE req(p) == IF nextIndex[s][p] > snapshotLastIndex[s] THEN EntriesFor(s, lg, p)
                                                               ELSE SnapshotFor(s, p)
           to == {q \in Peers(s) : CanSendTo(s, lg, q)}
<1>1. \A p : req(p).type \in {"AppendEntries", "InstallSnapshot"}
  BY DEF EntriesFor, SnapshotFor
<1>2. msgs' \subseteq msgs \cup {req(p) : p \in to}
  BY DEF StartSendEntries, Send, SendFrom
<1> HIDE DEF req, to
<1>3. m \in msgs \/ \E p : m = req(p)
  BY <1>2
<1> QED BY <1>1, <1>3 DEF Granted

(* runHeartbeatCycle touches no vote.                                      *)
LEMMA HeartbeatElection ==
    ASSUME TypeOK, TypeOK', ElectionInv, NEW s \in Server, runHeartbeatCycle(s)
    PROVE  ElectionInv' /\ VotesStand
<1>1. UNCHANGED electionVars /\ UNCHANGED disk /\ StartSendEntries(s, log[s])
  BY DEF runHeartbeatCycle
<1>2. DiskHoldsVotes'
  BY <1>1 DEF ElectionInv, DiskHoldsVotes, electionVars
<1> QED BY <1>1, <1>2, BroadcastAsksNoVotes, SilentStep

(* Start touches no vote, and persists the one it finds.                   *)
LEMMA StartCommandElection ==
    ASSUME TypeOK, TypeOK', ElectionInv, NEW s \in Server, NEW v \in Value, Start(s, v)
    PROVE  ElectionInv' /\ VotesStand
<1> DEFINE lg == Append(log[s], [term |-> currentTerm[s], cmd |-> v])
<1>1. UNCHANGED electionVars /\ persist(s) /\ StartSendEntries(s, lg)
  BY Zenon DEF Start
<1> HIDE DEF lg
<1>2. DiskHoldsVotes'
  BY <1>1, PersistVotes DEF ElectionInv, electionVars
<1> QED BY <1>1, <1>2, BroadcastAsksNoVotes, SilentStep

(* applyTicker and the service touch no vote.                              *)
LEMMA ApplyElection ==
    ASSUME TypeOK, TypeOK', ElectionInv, NEW s \in Server, applyTicker(s) \/ applierSnap(s)
    PROVE  ElectionInv' /\ VotesStand
<1>1. UNCHANGED electionVars /\ UNCHANGED disk /\ UNCHANGED msgs
  BY Zenon DEF applyTicker, applierSnap
<1>2. DiskHoldsVotes'
  BY <1>1 DEF ElectionInv, DiskHoldsVotes, electionVars
<1> QED BY <1>1, <1>2, SilentStep

(* Snapshot touches no vote, and persists the one it finds.                *)
LEMMA SnapshotElection ==
    ASSUME TypeOK, TypeOK', ElectionInv, NEW s \in Server, Snapshot(s)
    PROVE  ElectionInv' /\ VotesStand
<1>1. UNCHANGED electionVars /\ persist(s) /\ UNCHANGED msgs
  BY Zenon DEF Snapshot
<1>2. DiskHoldsVotes'
  BY <1>1, PersistVotes DEF ElectionInv, electionVars
<1> QED BY <1>1, <1>2, SilentStep

(* InstallSnapshot changes neither term nor vote.                          *)
LEMMA InstallSnapshotElection ==
    ASSUME TypeOK, TypeOK', ElectionInv, NEW m \in msgs, InstallSnapshot(m)
    PROVE  ElectionInv' /\ VotesStand
<1> DEFINE r == [type |-> "InstallSnapshotReply", src |-> m.dst, dst |-> m.src,
                 term |-> currentTerm[m.dst], argsTerm |-> m.term,
                 snapshotIndex |-> m.lastIncludedIndex]
<1>1. UNCHANGED electionVars /\ persist(m.dst) /\ Answer(m, r)
  BY Zenon DEF InstallSnapshot
<1>2. r.type = "InstallSnapshotReply"
  OBVIOUS
<1>3. m.dst \in Server
  BY MessageKinds DEF TypeOK
<1> HIDE DEF r
<1>4. \A n \in msgs' : Granted(n) \/ n.type = "RequestVote" => n \in msgs
  BY <1>1, <1>2, AnswerAdds DEF Granted
<1>5. DiskHoldsVotes'
  BY <1>1, <1>3, PersistVotes DEF ElectionInv, electionVars
<1> QED BY <1>1, <1>4, <1>5, SilentStep

(* The replies to AppendEntries and InstallSnapshot.                       *)
LEMMA RepliesElection ==
    ASSUME TypeOK, TypeOK', ElectionInv, NEW m \in msgs, sendEntries(m) \/ sendInstallSnapshot(m)
    PROVE  ElectionInv' /\ VotesStand
<1>1. m.dst \in Server /\ m.term \in Nat
  BY MessageKinds DEF TypeOK
<1>2. /\ msgs' = msgs \ {m} /\ persist(m.dst) /\ UNCHANGED votesReceived
      /\ \/ UNCHANGED <<currentTerm, votedFor, state>>
         \/ m.term > currentTerm[m.dst] /\ becomeFollower(m.dst, m.term)
  <2>1. CASE sendEntries(m)
    BY <2>1, Zenon DEF sendEntries, Consume
  <2>2. CASE sendInstallSnapshot(m)
    BY <2>2, Zenon DEF sendInstallSnapshot, Consume
  <2> QED BY <2>1, <2>2
<1>3. \A n \in msgs' : Granted(n) \/ n.type = "RequestVote" => n \in msgs
  BY <1>2
<1> QED BY <1>1, <1>2, <1>3, FollowerVotes

(* AppendEntries follows a leader of a higher term with no vote given,     *)
(* and keeps the vote in its own term.                                     *)
LEMMA AppendEntriesElection ==
    ASSUME TypeOK, TypeOK', ElectionInv, NEW m \in msgs, AppendEntries(m)
    PROVE  ElectionInv' /\ VotesStand
<1> DEFINE s == m.dst
           reply(ok, first) == [type |-> "AppendEntriesReply", src |-> s, dst |-> m.src,
                       term |-> currentTerm[s], success |-> ok, failedFirstIndex |-> first,
                       argsTerm |-> m.term, prevLogIndex |-> m.prevLogIndex,
                       numEntries |-> Len(m.entries)]
<1>1. s \in Server /\ m.term \in Nat
  BY MessageKinds DEF TypeOK
<1>2. /\ \E ok, first : Answer(m, reply(ok, first))
      /\ persist(s) /\ UNCHANGED votesReceived
      /\ \/ UNCHANGED <<currentTerm, votedFor, state>>
         \/ UNCHANGED <<currentTerm, votedFor>> /\ state' = [state EXCEPT ![s] = "Follower"]
         \/ m.term > currentTerm[s] /\ becomeFollower(s, m.term)
  BY Zenon DEF AppendEntries, electionVars
<1>3. \A ok, first : reply(ok, first).type = "AppendEntriesReply"
  OBVIOUS
<1> HIDE DEF reply
<1>4. PICK ok, first : Answer(m, reply(ok, first))
  BY <1>2
<1>5. \A n \in msgs' : Granted(n) \/ n.type = "RequestVote" => n \in msgs
  <2>1. msgs' \subseteq msgs \cup {reply(ok, first)}
    BY <1>4, AnswerAdds
  <2> QED BY <1>3, <2>1 DEF Granted
<1> QED BY <1>1, <1>2, <1>5, FollowerVotes

(* A restart reads back the term and the vote that persist() wrote, and    *)
(* its replies are lost.                                                   *)
LEMMA MakeElection ==
    ASSUME TypeOK, TypeOK', ElectionInv, NEW s \in Server, Make(s)
    PROVE  ElectionInv' /\ VotesStand
<1>1. UNCHANGED <<currentTerm, votedFor, disk>>
  <2>1. disk[s].currentTerm = currentTerm[s] /\ disk[s].votedFor = votedFor[s]
    BY DEF ElectionInv, DiskHoldsVotes
  <2> QED BY <2>1 DEF Make, readPersist, TypeOK
<1>2. /\ state'[s] = "Follower" /\ votesReceived'[s] = {}
      /\ \A p \in Server \ {s} : state'[p] = state[p] /\ votesReceived'[p] = votesReceived[p]
  BY DEF Make, TypeOK
<1>3. ASSUME NEW m \in msgs'
      PROVE  /\ Granted(m) => m \in msgs
             /\ m.type = "RequestVote" =>
                  \E n \in msgs : /\ n.type = "RequestVote"
                                  /\ n.src = m.src /\ n.dst = m.dst /\ n.term = m.term
  <2>1. PICK n \in msgs : m = IF IsRequest(n) /\ n.src = s THEN [n EXCEPT !.live = FALSE] ELSE n
    BY Zenon DEF Make, Orphaned
  <2>2. CASE IsRequest(n) /\ n.src = s
    <3>1. m.type = n.type /\ m.src = n.src /\ m.dst = n.dst /\ m.term = n.term
      <4>1. m = [n EXCEPT !.live = FALSE] /\ n \in Request
        BY <2>1, <2>2, MessageKinds DEF TypeOK
      <4> QED BY <4>1 DEF Request, RequestVoteArgs, AppendEntriesArgs, InstallSnapshotArgs
    <3> QED BY <2>2, <3>1 DEF Granted, IsRequest
  <2>3. CASE ~(IsRequest(n) /\ n.src = s)
    BY <2>1, <2>3
  <2> QED BY <2>2, <2>3
<1>4. NoNewVotes
  <2>1. \A p \in Server : votesReceived'[p] \subseteq votesReceived[p]
    BY <1>2
  <2>2. \A p \in Server : state'[p] = "Leader" =>
          /\ state[p] = "Leader" /\ votedFor[p] = p /\ votesReceived'[p] = votesReceived[p]
    BY <1>2 DEF ElectionInv, LeadersWereElected
  <2> QED BY <1>1, <1>3, <2>1, <2>2, Zenon DEF NoNewVotes
<1>5. VotesStand
  BY <1>1 DEF VotesStand, TypeOK
<1>6. DiskHoldsVotes'
  BY <1>1 DEF ElectionInv, DiskHoldsVotes
<1> QED BY <1>4, <1>5, <1>6, QuietStep

(* A new candidate votes for itself in a term nobody has its vote in.      *)
LEMMA CandidateElection ==
    ASSUME TypeOK, TypeOK', ElectionInv, NEW s \in Server, startElection(s)
    PROVE  ElectionInv' /\ VotesStand
<1> DEFINE t == currentTerm[s] + 1
           req(p) == [type |-> "RequestVote", src |-> s, dst |-> p, live |-> TRUE,
                      term |-> t, lastLogIndex |-> LogLength(s) - 1,
                      lastLogTerm |-> LastTerm(log[s])]
<1>1. /\ currentTerm'[s] = t /\ votedFor'[s] = s /\ state'[s] = "Candidate"
      /\ votesReceived'[s] = {s}
      /\ \A p \in Server \ {s} :
            /\ currentTerm'[p] = currentTerm[p] /\ votedFor'[p] = votedFor[p]
            /\ state'[p] = state[p] /\ votesReceived'[p] = votesReceived[p]
  <2>1. /\ currentTerm' = [currentTerm EXCEPT ![s] = t]
        /\ votedFor' = [votedFor EXCEPT ![s] = s]
        /\ state' = [state EXCEPT ![s] = "Candidate"]
        /\ votesReceived' = [votesReceived EXCEPT ![s] = {s}]
    BY Zenon DEF startElection, OwnVote
  <2>2. DOMAIN currentTerm = Server /\ DOMAIN votedFor = Server
    BY DEF TypeOK
  <2>3. DOMAIN state = Server /\ DOMAIN votesReceived = Server
    BY DEF TypeOK
  <2> HIDE DEF t
  <2>4. /\ currentTerm'[s] = t /\ votedFor'[s] = s
        /\ \A p \in Server \ {s} : currentTerm'[p] = currentTerm[p] /\ votedFor'[p] = votedFor[p]
    BY <2>1, <2>2
  <2>5. /\ state'[s] = "Candidate" /\ votesReceived'[s] = {s}
        /\ \A p \in Server \ {s} : state'[p] = state[p] /\ votesReceived'[p] = votesReceived[p]
    BY <2>1, <2>3
  <2> QED BY <2>4, <2>5, Zenon
<1>2. \A p \in Server : currentTerm[p] \in Nat
  BY DEF TypeOK
<1>3. msgs' \subseteq msgs \cup {req(p) : p \in Peers(s)}
  BY DEF startElection, Send, SendFrom
<1>4. \A p : /\ req(p).type = "RequestVote" /\ req(p).src = s /\ req(p).dst = p
             /\ req(p).term = t
  OBVIOUS
<1> HIDE DEF req
<1>5. \A m \in msgs' : Granted(m) => m \in msgs
  BY <1>3, <1>4 DEF Granted
<1>6. VotesStand
  <2>1. currentTerm'[s] > currentTerm[s]
    BY <1>1, <1>2
  <2> HIDE DEF t
  <2>2. ~(currentTerm'[s] = currentTerm[s]) /\ currentTerm'[s] >= currentTerm[s]
    <3>1. currentTerm[s] \in Nat /\ currentTerm'[s] \in Nat
      BY DEF TypeOK
    <3> QED BY <2>1, <3>1
  <2>3. ASSUME NEW p \in Server \ {s}
        PROVE  currentTerm'[p] >= currentTerm[p] /\ votedFor'[p] = votedFor[p]
    <3>1. currentTerm'[p] = currentTerm[p] /\ votedFor'[p] = votedFor[p]
      BY <1>1, Zenon
    <3> QED BY <1>2, <3>1
  <2> QED BY <2>2, <2>3 DEF VotesStand
<1>7. DiskHoldsVotes'
  BY <1>1, PersistVotes DEF startElection, ElectionInv
<1>8. VotesAreKept' /\ VotesAreUnique'
  <2>1. ASSUME NEW v \in Server, NEW c \in Server, NEW u \in Nat, Voted(v, c, u)'
        PROVE  \/ Voted(v, c, u)
               \/ currentTerm'[v] = u /\ votedFor'[v] = c /\ u > currentTerm[v]
    <3>1. CASE \E m \in msgs' : Granted(m) /\ m.src = v /\ m.dst = c /\ m.argsTerm = u
      BY <1>5, <3>1 DEF Voted
    <3>2. CASE (votedFor'[c] = c /\ currentTerm'[c] = u /\ v \in votesReceived'[c]) /\ c # s
      BY <1>1, <3>2 DEF Voted
    <3>3. CASE (votedFor'[c] = c /\ currentTerm'[c] = u /\ v \in votesReceived'[c]) /\ c = s
      <4>1. v = s /\ u = t
        BY <1>1, <3>3
      <4> QED BY <1>1, <1>2, <3>3, <4>1
    <3> QED BY <2>1, <3>1, <3>2, <3>3, Zenon DEF Voted, Granted
  <2> QED BY <1>6, <2>1, VotesStepwise DEF ElectionInv
<1>9. AskedAsCandidate'
  <2> SUFFICES ASSUME NEW m \in msgs'
      PROVE  /\ m.type = "RequestVote" =>
                  /\ m.src # m.dst
                  /\ m.term <= currentTerm'[m.src]
                  /\ m.term = currentTerm'[m.src] => votedFor'[m.src] = m.src
             /\ Granted(m) =>
                  /\ m.argsTerm <= currentTerm'[m.dst]
                  /\ m.argsTerm = currentTerm'[m.dst] => votedFor'[m.dst] = m.dst
    BY Zenon DEF AskedAsCandidate, Granted
  <2>1. CASE m \in msgs
    <3>1. /\ m.src \in Server /\ m.dst \in Server /\ m.term \in Nat
          /\ Granted(m) => m.argsTerm \in Nat
      BY <2>1, MessageKinds DEF TypeOK, Granted, RequestVoteReply
    <3>2. /\ m.type = "RequestVote" =>
                  /\ m.src # m.dst
                  /\ m.term <= currentTerm[m.src]
                  /\ m.term = currentTerm[m.src] => votedFor[m.src] = m.src
          /\ Granted(m) =>
                  /\ m.argsTerm <= currentTerm[m.dst]
                  /\ m.argsTerm = currentTerm[m.dst] => votedFor[m.dst] = m.dst
      BY <2>1, Zenon DEF ElectionInv, AskedAsCandidate
    <3> QED BY <1>1, <1>2, <3>1, <3>2
  <2>2. CASE \E p \in Peers(s) : m = req(p)
    <3>1. PICK p \in Peers(s) : m = req(p)
      BY <2>2
    <3>2. m.type = "RequestVote" /\ m.src = s /\ m.dst = p /\ m.term = t
      BY <1>4, <3>1, Zenon
    <3>3. p # s /\ ~Granted(m)
      BY <3>2 DEF Peers, Granted
    <3>4. t \in Nat
      BY <1>2
    <3> HIDE DEF t
    <3>5. t <= t
      BY <3>4
    <3>6. m.term <= currentTerm'[m.src] /\ votedFor'[m.src] = m.src
      BY <1>1, <3>2, <3>5, Zenon
    <3>7. m.src # m.dst
      BY <3>2, <3>3, Zenon
    <3> QED BY <3>3, <3>6, <3>7, Zenon
  <2> QED BY <1>3, <2>1, <2>2
<1>10. LeadersWereElected'
  BY <1>1 DEF ElectionInv, LeadersWereElected
<1> QED BY <1>6, <1>7, <1>8, <1>9, <1>10 DEF ElectionInv

(* A voter grants one vote per term, to someone else than itself.          *)
LEMMA VoterElection ==
    ASSUME TypeOK, TypeOK', ElectionInv, NEW m \in msgs, RequestVote(m)
    PROVE  ElectionInv' /\ VotesStand
<1> DEFINE s == m.dst
           newer == m.term > currentTerm[s]
           vote == IF newer THEN Nil ELSE votedFor[s]
           grant == Grants(s, vote, m)
           r == [type |-> "RequestVoteReply", src |-> s, dst |-> m.src,
                 term |-> currentTerm[s], voteGranted |-> grant, argsTerm |-> m.term]
<1>1. s \in Server /\ m.src \in Server /\ m.term \in Nat
  BY MessageKinds DEF TypeOK
<1>2. \A p \in Server : currentTerm[p] \in Nat
  BY DEF TypeOK
<1>3. /\ m.type = "RequestVote" /\ m.src # s
      /\ m.term <= currentTerm[m.src]
      /\ m.term = currentTerm[m.src] => votedFor[m.src] = m.src
  BY Zenon DEF RequestVote, ElectionInv, AskedAsCandidate
<1>4. /\ currentTerm'[s] = IF newer THEN m.term ELSE currentTerm[s]
      /\ votedFor'[s] = IF grant THEN m.src ELSE vote
      /\ state'[s] = IF newer THEN "Follower" ELSE state[s]
      /\ UNCHANGED votesReceived /\ persist(s) /\ Answer(m, r)
      /\ \A p \in Server \ {s} : /\ currentTerm'[p] = currentTerm[p]
                                 /\ votedFor'[p] = votedFor[p] /\ state'[p] = state[p]
  <2>1. /\ currentTerm' = [currentTerm EXCEPT ![s] = IF newer THEN m.term ELSE currentTerm[s]]
        /\ state' = [state EXCEPT ![s] = IF newer THEN "Follower" ELSE state[s]]
        /\ votedFor' = [votedFor EXCEPT ![s] = IF grant THEN m.src ELSE vote]
        /\ UNCHANGED votesReceived /\ persist(s) /\ Answer(m, r)
    BY Zenon DEF RequestVote
  <2>2. DOMAIN currentTerm = Server /\ DOMAIN votedFor = Server /\ DOMAIN state = Server
    BY DEF TypeOK
  <2> HIDE DEF newer, vote, grant, r
  <2> QED BY <1>1, <2>1, <2>2
<1>5. grant => m.term >= currentTerm[s] /\ vote \in {Nil, m.src}
  BY DEF Grants
<1>6. /\ r.type = "RequestVoteReply" /\ r.src = s /\ r.dst = m.src
      /\ r.voteGranted = grant /\ r.argsTerm = m.term
  OBVIOUS
<1>7. msgs' \subseteq msgs \cup {r}
  <2> HIDE DEF r
  <2> QED BY <1>4, AnswerAdds
<1> HIDE DEF r, grant
<1>8. VotesStand
  <2>1. /\ currentTerm'[s] >= currentTerm[s]
        /\ currentTerm'[s] = currentTerm[s] => ~newer
    <3>1. currentTerm'[s] = IF newer THEN m.term ELSE currentTerm[s]
      BY <1>4
    <3>2. currentTerm[s] \in Nat
      BY <1>1, <1>2
    <3> QED BY <1>1, <3>1, <3>2
  <2>2. ~newer /\ votedFor[s] # Nil => votedFor'[s] = votedFor[s]
    BY <1>4, <1>5
  <2> HIDE DEF newer, vote
  <2>3. \A p \in Server \ {s} : currentTerm'[p] >= currentTerm[p] /\ votedFor'[p] = votedFor[p]
    BY <1>2, <1>4
  <2> QED BY <1>1, <2>1, <2>2, <2>3 DEF VotesStand
<1>9. DiskHoldsVotes'
  BY <1>1, <1>4, PersistVotes DEF ElectionInv
<1>10. \A p \in Server : votedFor'[p] = p =>
          currentTerm'[p] = currentTerm[p] /\ votedFor[p] = p
  <2>1. s # Nil
    BY <1>1, ServerAssumption
  <2> QED BY <1>1, <1>3, <1>4, <2>1
<1>11. VotesAreKept' /\ VotesAreUnique'
  <2>1. ASSUME NEW v \in Server, NEW c \in Server, NEW u \in Nat, Voted(v, c, u)'
        PROVE  \/ Voted(v, c, u)
               \/ /\ currentTerm'[v] = u /\ votedFor'[v] = c
                  /\ \/ u > currentTerm[v]
                     \/ u = currentTerm[v] /\ votedFor[v] \in {Nil, c}
    <3>1. CASE votedFor'[c] = c /\ currentTerm'[c] = u /\ v \in votesReceived'[c]
      BY <1>4, <1>10, <3>1 DEF Voted
    <3>2. CASE \E n \in msgs : Granted(n) /\ n.src = v /\ n.dst = c /\ n.argsTerm = u
      BY <3>2 DEF Voted
    <3>3. CASE Granted(r) /\ r.src = v /\ r.dst = c /\ r.argsTerm = u
      <4>1. grant /\ v = s /\ c = m.src /\ u = m.term
        BY <1>6, <3>3 DEF Granted
      <4>2. CASE newer
        BY <1>1, <1>4, <4>1, <4>2
      <4>3. CASE ~newer
        <5>1. m.term = currentTerm[s]
          BY <1>1, <1>2, <1>5, <4>1, <4>3
        <5> QED BY <1>4, <1>5, <4>1, <4>3, <5>1
      <4> QED BY <4>2, <4>3
    <3>4. \/ votedFor'[c] = c /\ currentTerm'[c] = u /\ v \in votesReceived'[c]
          \/ \E n \in msgs' : Granted(n) /\ n.src = v /\ n.dst = c /\ n.argsTerm = u
      BY <2>1, Zenon DEF Voted, Granted
    <3> QED BY <1>7, <3>1, <3>2, <3>3, <3>4
  <2> QED BY <1>8, <2>1, VotesStepwise DEF ElectionInv
<1>12. AskedAsCandidate'
  <2>1. ASSUME NEW p \in Server, NEW u \in Nat,
               u <= currentTerm[p], u = currentTerm[p] => votedFor[p] = p
        PROVE  u <= currentTerm'[p] /\ (u = currentTerm'[p] => votedFor'[p] = p)
    <3>1. currentTerm'[p] \in Nat /\ p # Nil
      BY ServerAssumption DEF TypeOK
    <3> QED BY <1>2, <1>8, <2>1, <3>1 DEF VotesStand
  <2> SUFFICES ASSUME NEW n \in msgs'
      PROVE  /\ n.type = "RequestVote" =>
                  /\ n.src # n.dst
                  /\ n.term <= currentTerm'[n.src]
                  /\ n.term = currentTerm'[n.src] => votedFor'[n.src] = n.src
             /\ Granted(n) =>
                  /\ n.argsTerm <= currentTerm'[n.dst]
                  /\ n.argsTerm = currentTerm'[n.dst] => votedFor'[n.dst] = n.dst
    BY Zenon DEF AskedAsCandidate, Granted
  <2>2. CASE n \in msgs
    <3>1. /\ n.src \in Server /\ n.dst \in Server /\ n.term \in Nat
          /\ Granted(n) => n.argsTerm \in Nat
      BY <2>2, MessageKinds DEF TypeOK, Granted, RequestVoteReply
    <3>2. /\ n.type = "RequestVote" =>
                  /\ n.src # n.dst
                  /\ n.term <= currentTerm[n.src]
                  /\ n.term = currentTerm[n.src] => votedFor[n.src] = n.src
          /\ Granted(n) =>
                  /\ n.argsTerm <= currentTerm[n.dst]
                  /\ n.argsTerm = currentTerm[n.dst] => votedFor[n.dst] = n.dst
      BY <2>2, Zenon DEF ElectionInv, AskedAsCandidate
    <3> QED BY <2>1, <3>1, <3>2
  <2>3. CASE n = r
    BY <1>1, <1>3, <1>6, <2>1, <2>3 DEF Granted
  <2> QED BY <1>7, <2>2, <2>3
<1>13. LeadersWereElected'
  <2> SUFFICES ASSUME NEW p \in Server, state'[p] = "Leader"
               PROVE  votedFor'[p] = p /\ Cardinality(votesReceived'[p]) >= majorityThreshold
    BY DEF LeadersWereElected
  <2>1. state[p] = "Leader" /\ currentTerm'[p] = currentTerm[p]
    BY <1>1, <1>4
  <2>2. votedFor[p] = p /\ Cardinality(votesReceived[p]) >= majorityThreshold
    BY <2>1 DEF ElectionInv, LeadersWereElected
  <2>3. p # Nil
    BY ServerAssumption
  <2> QED BY <1>4, <1>8, <2>1, <2>2, <2>3 DEF VotesStand
<1> QED BY <1>8, <1>9, <1>11, <1>12, <1>13 DEF ElectionInv

(* A counted vote was on its way, and enough of them make a leader of a    *)
(* peer that has voted for itself.                                         *)
LEMMA CountElection ==
    ASSUME TypeOK, TypeOK', ElectionInv, NEW m \in msgs, sendRequestVote(m)
    PROVE  ElectionInv' /\ VotesStand
<1> DEFINE s == m.dst
           votes == votesReceived[s] \cup {m.src}
<1>1. s \in Server /\ m.src \in Server /\ m.term \in Nat
  BY MessageKinds DEF TypeOK
<1>2. msgs' = msgs \ {m} /\ persist(s) /\ m.type = "RequestVoteReply"
  BY DEF sendRequestVote, Consume
<1>3. \A n \in msgs' : n \in msgs
  BY <1>2
<1>4. \/ m.term > currentTerm[s] /\ becomeFollower(s, m.term) /\ UNCHANGED votesReceived
      \/ UNCHANGED electionVars
      \/ /\ m.argsTerm = currentTerm[s] /\ m.voteGranted /\ state[s] # "Leader"
         /\ votesReceived' = [votesReceived EXCEPT ![s] = votes]
         /\ UNCHANGED <<currentTerm, votedFor>>
         /\ \/ UNCHANGED state
            \/ /\ Cardinality(votes) >= majorityThreshold
               /\ state' = [state EXCEPT ![s] = "Leader"]
  BY Zenon DEF sendRequestVote
<1>5. CASE m.term > currentTerm[s] /\ becomeFollower(s, m.term) /\ UNCHANGED votesReceived
  BY <1>1, <1>2, <1>3, <1>5, FollowerVotes
<1>6. CASE UNCHANGED electionVars
  BY <1>1, <1>2, <1>3, <1>6, FollowerVotes DEF electionVars
<1>7. CASE /\ m.argsTerm = currentTerm[s] /\ m.voteGranted /\ state[s] # "Leader"
           /\ votesReceived' = [votesReceived EXCEPT ![s] = votes]
           /\ UNCHANGED <<currentTerm, votedFor>>
           /\ \/ UNCHANGED state
              \/ /\ Cardinality(votes) >= majorityThreshold
                 /\ state' = [state EXCEPT ![s] = "Leader"]
  <2>1. VotesStand
    <3>1. \A p \in Server : currentTerm[p] \in Nat
      BY DEF TypeOK
    <3>2. UNCHANGED <<currentTerm, votedFor>>
      BY <1>7
    <3> QED BY <3>1, <3>2 DEF VotesStand
  <2>2. DiskHoldsVotes'
    BY <1>1, <1>2, <1>7, PersistVotes DEF ElectionInv
  <2>3. Granted(m)
    BY <1>2, <1>7 DEF Granted
  <2>4. votedFor[s] = s
    BY <1>7, <2>3, Zenon DEF ElectionInv, AskedAsCandidate
  <2>5. /\ votesReceived'[s] = votes
        /\ \A p \in Server \ {s} : votesReceived'[p] = votesReceived[p]
    <3>1. DOMAIN votesReceived = Server
      BY DEF TypeOK
    <3>2. votesReceived' = [votesReceived EXCEPT ![s] = votes]
      BY <1>7
    <3> HIDE DEF votes
    <3> QED BY <1>1, <3>1, <3>2
  <2>6. VotesAreKept' /\ VotesAreUnique'
    <3>1. ASSUME NEW v \in Server, NEW c \in Server, NEW u \in Nat, Voted(v, c, u)'
          PROVE  Voted(v, c, u)
      <4>1. \/ votedFor'[c] = c /\ currentTerm'[c] = u /\ v \in votesReceived'[c]
            \/ \E n \in msgs' : Granted(n) /\ n.src = v /\ n.dst = c /\ n.argsTerm = u
        BY <3>1, Zenon DEF Voted, Granted
      <4>2. CASE \E n \in msgs' : Granted(n) /\ n.src = v /\ n.dst = c /\ n.argsTerm = u
        BY <1>3, <4>2 DEF Voted
      <4>3. CASE /\ votedFor'[c] = c /\ currentTerm'[c] = u /\ v \in votesReceived'[c]
                 /\ v \in votesReceived[c]
        BY <1>7, <4>3 DEF Voted
      <4>4. CASE /\ votedFor'[c] = c /\ currentTerm'[c] = u /\ v \in votesReceived'[c]
                 /\ v \notin votesReceived[c]
        <5>1. c = s /\ v = m.src /\ u = m.argsTerm
          BY <1>7, <2>5, <4>4
        <5> QED BY <2>3, <5>1, Zenon DEF Voted
      <4> QED BY <4>1, <4>2, <4>3, <4>4
    <3> QED BY <2>1, <3>1, VotesStepwise DEF ElectionInv
  <2>7. AskedAsCandidate'
    BY <1>3, <1>7, Zenon DEF ElectionInv, AskedAsCandidate, Granted
  <2>8. LeadersWereElected'
    <3> HIDE DEF votes
    <3>1. ASSUME NEW p \in Server, state'[p] = "Leader", p # s
          PROVE  votedFor'[p] = p /\ Cardinality(votesReceived'[p]) >= majorityThreshold
      <4>1. state' = state \/ state' = [state EXCEPT ![s] = "Leader"]
        BY <1>7
      <4>2. state[p] = "Leader"
        BY <1>1, <3>1, <4>1 DEF TypeOK
      <4> QED BY <1>7, <2>5, <3>1, <4>2 DEF ElectionInv, LeadersWereElected
    <3>2. ASSUME state'[s] = "Leader"
          PROVE  votedFor'[s] = s /\ Cardinality(votesReceived'[s]) >= majorityThreshold
      <4>1. Cardinality(votes) >= majorityThreshold
        BY <1>7, <3>2
      <4> QED BY <1>7, <2>4, <2>5, <4>1
    <3> QED BY <1>1, <3>1, <3>2 DEF LeadersWereElected
  <2> QED BY <2>1, <2>2, <2>6, <2>7, <2>8 DEF ElectionInv
<1> QED BY <1>4, <1>5, <1>6, <1>7

(* Every step keeps the election invariant and every vote.                 *)
LEMMA NextElection ==
    ASSUME TypeOK, ElectionInv, [Next]_vars
    PROVE  ElectionInv' /\ VotesStand
<1>1. TypeOK'
  BY NextType
<1>2. ASSUME NEW s \in Server,
             \/ startElection(s) \/ runHeartbeatCycle(s) \/ (\E v \in Value : Start(s, v))
             \/ applyTicker(s) \/ applierSnap(s) \/ Snapshot(s) \/ Make(s)
      PROVE  ElectionInv' /\ VotesStand
  BY <1>1, <1>2, CandidateElection, HeartbeatElection, StartCommandElection, ApplyElection,
     SnapshotElection, MakeElection
<1>3. ASSUME NEW m \in msgs,
             \/ RequestVote(m) \/ sendRequestVote(m) \/ AppendEntries(m) \/ sendEntries(m)
             \/ InstallSnapshot(m) \/ sendInstallSnapshot(m)
      PROVE  ElectionInv' /\ VotesStand
  BY <1>1, <1>3, VoterElection, CountElection, AppendEntriesElection, RepliesElection,
     InstallSnapshotElection
<1>4. CASE UNCHANGED vars
  <2>1. DiskHoldsVotes' /\ UNCHANGED electionVars /\ UNCHANGED msgs
    BY <1>4 DEF vars, electionVars, ElectionInv, DiskHoldsVotes
  <2> QED BY <1>1, <2>1, SilentStep
<1> QED BY <1>2, <1>3, <1>4 DEF Next

-----------------------------------------------------------------------------
(* In every reachable state of a cluster of any size, each vote that is    *)
(* counted or on its way is a promise its voter has made to nobody else in *)
(* that term and holds on disk, and each leader has counted enough of them *)
(* (startElection, RequestVote, sendRequestVote, persist, readPersist).    *)
THEOREM ElectionInvariant == Spec => []ElectionInv
<1>1. TypeOK /\ ElectionInv /\ [Next]_vars => ElectionInv'
  BY NextElection
<1> QED BY InitElection, TypeCorrect, <1>1, PTL DEF Spec

(* Terms never go back and a vote once cast is never changed within its    *)
(* term, crashes and restarts included (RequestVote, persist, readPersist).*)
THEOREM VotesOutliveCrashes == Spec => VoteOncePerTerm
<1>1. TypeOK /\ ElectionInv /\ [Next]_vars =>
        [\A s \in Server :
          /\ currentTerm'[s] >= currentTerm[s]
          /\ currentTerm'[s] = currentTerm[s] /\ votedFor[s] # Nil
               => votedFor'[s] = votedFor[s]]_vars
  BY NextElection DEF VotesStand
<1> QED BY TypeCorrect, ElectionInvariant, <1>1, PTL DEF Spec, VoteOncePerTerm

(* Two sets of peers that both reach the threshold have a peer in common,  *)
(* if the number of peers is odd.                                          *)
LEMMA QuorumsIntersect ==
    ASSUME Cardinality(Server) % 2 = 1, NEW Q \in SUBSET Server, NEW R \in SUBSET Server,
           Cardinality(Q) >= majorityThreshold, Cardinality(R) >= majorityThreshold
    PROVE  Q \cap R # {}
<1>1. IsFiniteSet(Server) /\ IsFiniteSet(Q) /\ IsFiniteSet(R) /\ IsFiniteSet(Q \cup R)
  BY ServerAssumption, FS_Subset
<1>2. /\ Cardinality(Server) \in Nat /\ Cardinality(Q) \in Nat /\ Cardinality(R) \in Nat
      /\ Cardinality(Q \cup R) <= Cardinality(Server)
  BY <1>1, FS_CardinalityType, FS_Subset
<1>3. Cardinality(Q \cup R) = Cardinality(Q) + Cardinality(R) - Cardinality(Q \cap R)
  BY <1>1, FS_Union
<1>4. 2 * majorityThreshold = Cardinality(Server) + 1 /\ majorityThreshold \in Nat
  BY <1>2 DEF majorityThreshold
<1>5. ASSUME Q \cap R = {} PROVE FALSE
  <2>1. Cardinality(Q \cap R) = 0
    BY <1>5, FS_EmptySet
  <2> QED BY <1>2, <1>3, <1>4, <2>1
<1> QED BY <1>5

(* No term has two leaders in a cluster with an odd number of peers, of    *)
(* any size: the threshold (n+1)/2 of sendRequestVote is then a majority.  *)
THEOREM OneLeaderPerTerm ==
    ASSUME Cardinality(Server) % 2 = 1
    PROVE  Spec => []ElectionSafety
<1>1. ASSUME TypeOK, ElectionInv PROVE ElectionSafety
  <2> SUFFICES ASSUME NEW s \in Server, NEW p \in Server,
                      state[s] = "Leader", state[p] = "Leader", currentTerm[s] = currentTerm[p]
               PROVE  s = p
    BY DEF ElectionSafety
  <2>1. /\ votedFor[s] = s /\ Cardinality(votesReceived[s]) >= majorityThreshold
        /\ votedFor[p] = p /\ Cardinality(votesReceived[p]) >= majorityThreshold
    BY <1>1 DEF ElectionInv, LeadersWereElected
  <2>2. votesReceived[s] \in SUBSET Server /\ votesReceived[p] \in SUBSET Server
    BY <1>1 DEF TypeOK
  <2>3. PICK v \in votesReceived[s] \cap votesReceived[p] : v \in Server
    BY <2>1, <2>2, QuorumsIntersect
  <2>4. Voted(v, s, currentTerm[s]) /\ Voted(v, p, currentTerm[s]) /\ currentTerm[s] \in VoteTerms
    BY <2>1, <2>3 DEF Voted, VoteTerms
  <2> QED BY <1>1, <2>3, <2>4 DEF ElectionInv, VotesAreUnique
<1> QED BY <1>1, TypeCorrect, ElectionInvariant, PTL
=============================================================================
