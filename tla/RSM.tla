--------------------------------- MODULE RSM ---------------------------------
(***************************************************************************)
(* The replicated state machine of kvraft1/rsm/rsm.go, the key/value       *)
(* server on it (kvraft1/server.go) and its clerks (kvraft1/client.go).    *)
(* Raft is what ReplicatedLog says of it: leaders propose commands at an   *)
(* index, one command is decided for each index in turn, and every server  *)
(* is handed the decided commands or a snapshot of them.                   *)
(***************************************************************************)
EXTENDS Naturals, Sequences, FiniteSets, TLC

CONSTANTS NServers, Client, Key, Value, Nil,
          MaxVersion,   \* bound: versions clients put
          MaxLog,       \* bound: commands decided
          MaxId,        \* bound: commands a server starts in one life
          MaxCrash      \* bound: crashes

ASSUME RSMAssumption ==
    /\ NServers \in Nat \ {0}
    /\ MaxVersion \in Nat /\ MaxLog \in Nat /\ MaxId \in Nat /\ MaxCrash \in Nat

Server == 0 .. NServers - 1

VARIABLES
    proposed,   \* Raft: what leaders have started and is not yet decided
    decided,    \* Raft: the decided commands
    snapshot,   \* Raft: the snapshot each server has stored
    applied,    \* Raft: the index each server was last handed
    keyValue,   \* KVServer.keyValue of each server
    id,         \* RSM.id
    results,    \* RSM.results: the clients whose Submit waits; its key is the
                \* clerk's call.  A Submit whose clerk has gone on is left out:
                \* nobody sees what it returns
    clerk,      \* per client the call its clerk is in
    truth,      \* history: the key/value map after all decided commands
    crashes,
    strayed     \* history: a snapshot was mixed with other state, or the key of
                \* a Submit had been used before

raftVars == <<proposed, decided>>
serverVars == <<snapshot, applied, keyValue, id, results>>
vars == <<raftVars, serverVars, clerk, truth, crashes, strayed>>

NoData == [value |-> Nil, version |-> 0]   \* no such key
Empty == [k \in Key |-> NoData]

Request ==
    [op : {"Get"}, key : Key] \cup
    [op : {"Put"}, key : Key, value : Value, version : 0 .. MaxVersion]

NoReply == [err |-> "none"]
NoCall == [me |-> 0, id |-> 0, index |-> 0]   \* Key{} of rsm.go; indices start at 1

(* call is the key of the Submit the clerk waits for.  done and answer are *)
(* history: has the Put under way taken effect, and what the command of    *)
(* this call gave when it was decided.                                     *)
Idle(result, leader) ==
    [args |-> Nil, leader |-> leader, isFirstTry |-> TRUE, call |-> NoCall, reply |-> NoReply,
     result |-> result, done |-> FALSE, answer |-> NoReply]

Init ==
    /\ proposed = {}
    /\ decided = <<>>
    /\ snapshot = [s \in Server |-> [index |-> 0, data |-> Empty]]
    /\ applied = [s \in Server |-> 0]
    /\ keyValue = [s \in Server |-> Empty]
    /\ id = [s \in Server |-> 0]
    /\ results = [s \in Server |-> {}]
    /\ clerk = [c \in Client |-> Idle(NoReply, 0)]
    /\ truth = Empty
    /\ crashes = 0
    /\ strayed = FALSE

-----------------------------------------------------------------------------
(* KVServer.DoOp on the map kv: its answer, and the map it leaves.         *)

PutErr(data, version) ==
    IF data.version = 0
      THEN IF version # 0 THEN "ErrNoKey" ELSE "OK"
      ELSE IF version # data.version THEN "ErrVersion" ELSE "OK"

Answer(kv, r) ==
    LET data == kv[r.key]
    IN  IF r.op = "Put" THEN [err |-> PutErr(data, r.version)]
        ELSE [err |-> IF data.version = 0 THEN "ErrNoKey" ELSE "OK",
              value |-> data.value, version |-> data.version]

TakesEffect(kv, r) == r.op = "Put" /\ PutErr(kv[r.key], r.version) = "OK"

DoOp(kv, r) ==
    IF TakesEffect(kv, r)
      THEN [kv EXCEPT ![r.key] = [value |-> r.value, version |-> r.version + 1]]
      ELSE kv

(* Decoding a snapshot into a map that is there already: entries the       *)
(* snapshot lacks stay.                                                    *)
Restored(kv, data) == [k \in Key |-> IF data[k] = NoData THEN kv[k] ELSE data[k]]

-----------------------------------------------------------------------------
(* The clerk.                                                              *)

Call(c, r) ==
    /\ clerk[c].args = Nil
    /\ clerk' = [clerk EXCEPT ![c].args = r]
    /\ UNCHANGED <<raftVars, serverVars, truth, crashes, strayed>>

NextServer(s) == (s + 1) % NServers

(* Call fails, or its answer is ErrWrongLeader, from Start or because the  *)
(* periodic check of Submit finds the leadership or the term gone.         *)
Retry(c) ==
    /\ clerk[c].args # Nil
    /\ clerk' = [clerk EXCEPT ![c].leader = NextServer(@), ![c].isFirstTry = FALSE,
                              ![c].call = NoCall, ![c].reply = NoReply, ![c].answer = NoReply]
    /\ results' = [results EXCEPT ![clerk[c].leader] = @ \ {c}]
    /\ UNCHANGED <<raftVars, snapshot, applied, keyValue, id, truth, crashes, strayed>>

(* A mutant: a refusal is passed on, also of a repeated request.           *)
ResultCertain(c) == clerk[c].reply

Result(c) ==
    IF clerk[c].args.op = "Put" /\ ~clerk[c].isFirstTry /\ clerk[c].reply.err = "ErrVersion"
      THEN [err |-> "ErrMaybe"]
      ELSE clerk[c].reply

Return(c) ==
    /\ clerk[c].reply # NoReply
    /\ clerk' = [clerk EXCEPT ![c] = Idle(Result(c), @.leader)]
    /\ proposed' = {IF p.from = c THEN [p EXCEPT !.current = FALSE] ELSE p : p \in proposed}
    /\ UNCHANGED <<decided, serverVars, truth, crashes, strayed>>

-----------------------------------------------------------------------------
(* Submit and what Raft does with it.                                      *)

(* Start on a leader; not being one is a Retry of the clerk.  A deposed    *)
(* leader may still give out an index that is decided already; no leader   *)
(* leaves a gap in its log.  A refused Start uses up an id too: ids only   *)
(* tell Submits apart, and the gaps are left out.                          *)
Submit(c) ==
    LET s == clerk[c].leader
    IN  /\ clerk[c].args # Nil
        /\ clerk[c].call = NoCall
        /\ id[s] < MaxId
        /\ \E index \in applied[s] + 1 .. MaxLog :
             LET key == [me |-> s, id |-> id[s], index |-> index]
             IN  /\ index <= Len(decided) + 1 \/ \E q \in proposed : q.key.index = index - 1
                 /\ proposed' = IF index <= Len(decided) THEN proposed ELSE proposed \cup
                       {[key |-> key, req |-> clerk[c].args, from |-> c, current |-> TRUE]}
                 /\ strayed' = (\/ strayed
                                \/ \E p \in proposed : p.key = key
                                \/ index <= Len(decided) /\ decided[index].key = key)
                 /\ results' = [results EXCEPT ![s] = @ \cup {c}]
                 /\ clerk' = [clerk EXCEPT ![c].call = key]
        /\ id' = [id EXCEPT ![s] = @ + 1]
        /\ UNCHANGED <<decided, snapshot, applied, keyValue, truth, crashes>>

(* The next command is decided.  What else was proposed for its index will *)
(* not be.                                                                 *)
Decide(p) ==
    LET c == p.from
        takes == TakesEffect(truth, p.req)
    IN  /\ p.key.index = Len(decided) + 1
        /\ decided' = Append(decided, [key |-> p.key, req |-> p.req])
        /\ proposed' = {q \in proposed : q.key.index # p.key.index}
        /\ truth' = DoOp(truth, p.req)
        /\ clerk' = [clerk EXCEPT
              ![c].done = @ \/ (p.current /\ takes),
              ![c].answer = IF p.current /\ clerk[c].call = p.key THEN Answer(truth, p.req) ELSE @]
        /\ UNCHANGED <<serverVars, crashes, strayed>>

-----------------------------------------------------------------------------
(* Read: what comes from applyCh.                                          *)

(* A mutant: the channels are found by index only.                         *)
WaitingAt(s, p) == {c \in results[s] : clerk[c].call.index = p.key.index}

(* The Submits at s that wait under the command's key.                     *)
Waiting(s, p) == {c \in results[s] : clerk[c].call = p.key}

(* The command is run, its result handed to the Submit that waits under    *)
(* its key, and a snapshot taken if Raft's state has grown enough.         *)
applyCommand(s) ==
    LET n == applied[s] + 1
        p == decided[n]
        opResult == Answer(keyValue[s], p.req)
        waiting == Waiting(s, p)
    IN  /\ applied[s] < Len(decided)
        /\ keyValue' = [keyValue EXCEPT ![s] = DoOp(@, p.req)]
        /\ applied' = [applied EXCEPT ![s] = n]
        /\ results' = [results EXCEPT ![s] = @ \ waiting]
        /\ clerk' = [c \in Client |->
              IF c \in waiting THEN [clerk[c] EXCEPT !.reply = opResult] ELSE clerk[c]]
        /\ \/ UNCHANGED snapshot
           \/ snapshot' = [snapshot EXCEPT ![s] =
                  IF @.index >= n THEN @ ELSE [index |-> n, data |-> keyValue'[s]]]
        /\ UNCHANGED <<raftVars, id, truth, crashes, strayed>>

(* A snapshot of another server arrives through InstallSnapshot, which     *)
(* compares it with the stored one only.                                   *)
Restore(s) ==
    /\ \E t \in Server :
        /\ snapshot[t].index > snapshot[s].index
        /\ snapshot' = [snapshot EXCEPT ![s] = snapshot[t]]
        /\ applied' = [applied EXCEPT ![s] = snapshot[t].index]
        /\ keyValue' = [keyValue EXCEPT ![s] = Restored(@, snapshot[t].data)]
        /\ strayed' = (strayed \/ keyValue'[s] # snapshot[t].data)
    /\ UNCHANGED <<raftVars, id, results, clerk, truth, crashes>>

(* A mutant: the stored snapshot is not restored.                          *)
MakeRSMEmpty(s) ==
    /\ crashes < MaxCrash
    /\ crashes' = crashes + 1
    /\ applied' = [applied EXCEPT ![s] = snapshot[s].index]
    /\ keyValue' = [keyValue EXCEPT ![s] = Empty]
    /\ id' = [id EXCEPT ![s] = 0]
    /\ results' = [results EXCEPT ![s] = {}]
    /\ UNCHANGED <<raftVars, snapshot, clerk, truth, strayed>>

(* A crash, and MakeRSM on what was stored.  Calls to the server fail.     *)
MakeRSM(s) ==
    /\ crashes < MaxCrash
    /\ crashes' = crashes + 1
    /\ applied' = [applied EXCEPT ![s] = snapshot[s].index]
    /\ keyValue' = [keyValue EXCEPT ![s] = snapshot[s].data]
    /\ id' = [id EXCEPT ![s] = 0]
    /\ results' = [results EXCEPT ![s] = {}]
    /\ UNCHANGED <<raftVars, snapshot, clerk, truth, strayed>>

Next ==
    \/ \E c \in Client : Retry(c) \/ Return(c) \/ Submit(c) \/ \E r \in Request : Call(c, r)
    \/ \E p \in proposed : Decide(p)
    \/ \E s \in Server : applyCommand(s) \/ Restore(s) \/ MakeRSM(s)

Spec == Init /\ [][Next]_vars

-----------------------------------------------------------------------------
(* The map after the first n decided commands.                             *)
After(n) ==
    LET map[i \in 0 .. n] == IF i = 0 THEN Empty ELSE DoOp(map[i - 1], decided[i].req)
    IN  map[n]

(* Servers that were handed the same commands hold the same map.           *)
Agree == \A s \in Server : keyValue[s] = After(applied[s])
ReplicasAgree == ~strayed => Agree

(* What a waiting clerk is given is what its own command gave.             *)
OwnAnswer == ~strayed => \A c \in Client : clerk[c].reply \in {NoReply, clerk[c].answer}

Dangling ==
    {p.req : p \in {q \in proposed : q.req.op = "Put" /\ ~q.current
                                     /\ q.req.version >= truth[q.req.key].version}}

Model ==
    INSTANCE KVModel WITH
        Version <- 0 .. MaxVersion,
        store <- truth,
        pending <- [c \in Client |->
                       [call |-> clerk[c].args, done |-> clerk[c].done, answer |-> clerk[c].answer]],
        last <- [c \in Client |-> clerk[c].result],
        dangling <- Dangling

(* Clients put version 0 or, for a key that is there, any other: they have *)
(* a version from the store itself, and no key ever vanishes.  For a       *)
(* version of a missing key the server's answer is ErrNoKey, which         *)
(* models1/kv.go does not allow.                                           *)
VersionsKnown ==
    \A c \in Client :
        LET r == clerk[c].args
        IN  r # Nil /\ r.op = "Put" /\ r.version # 0 => truth[r.key].version # 0

(* The replicated server is the store of models1/kv.go to its clients, for *)
(* clients with VersionsKnown, through crashes, changes of leader and      *)
(* snapshots.                                                              *)
ImplementsKVModel == Model!Spec

OnCourse == ~strayed
Symmetry == Permutations(Client)
=============================================================================
