------------------------------ MODULE ShardKV ------------------------------
(***************************************************************************)
(* The sharded key/value service: the controllers and groups of            *)
(* ShardCtrler with the clerks of shardkv1/client.go and                   *)
(* shardkv1/shardgrp/client.go.  Every shard has one key, named after it.  *)
(***************************************************************************)
EXTENDS ShardCtrler, TLC

CONSTANTS Client,
          Key,         \* the shards whose keys clients use
          MaxVersion   \* bound: versions clients put

VARIABLES
    clerk,   \* per client the call its clerk is in
    truth    \* history: what the last Put of each key that took effect left

clerkVars == <<clerk, truth>>
vars == <<grp, ctrlVars, late, clerk, truth>>

Request ==
    [op : {"Get"}, key : Key] \cup
    [op : {"Put"}, key : Key, value : Value, version : 0 .. MaxVersion]

NoReply == [err |-> "none"]

Idle(result) ==
    [args |-> Nil, gid |-> NoGroup, isFirstTry |-> TRUE, reply |-> NoReply, result |-> result,
     done |-> FALSE]

Init ==
    /\ CtrlInit
    /\ clerk = [c \in Client |-> Idle(NoReply)]
    /\ truth = [s \in Key |-> NoKey]

-----------------------------------------------------------------------------
Call(c, r) ==
    /\ clerk[c].args = Nil
    /\ clerk' = [clerk EXCEPT ![c].args = r]
    /\ UNCHANGED <<grp, ctrlVars, late, truth>>

(* The loop of the sharded clerk begins: which group has the shard?        *)
QueryGroup(c) ==
    /\ clerk[c].args # Nil
    /\ clerk[c].gid = NoGroup
    /\ clerk' = [clerk EXCEPT ![c].gid = GidServers(config.value, clerk[c].args.key)]
    /\ UNCHANGED <<grp, ctrlVars, late, truth>>

GroupOp(r, gid) ==
    [op |-> "Put", gid |-> gid, shard |-> r.key, value |-> r.value, version |-> r.version]

TakesEffect(r, gid) == r.op = "Put" /\ PutErr(gid, r.key, r.version) = "OK"

Written(r, gid) ==
    IF TakesEffect(r, gid)
      THEN [truth EXCEPT ![r.key] = [value |-> r.value, version |-> r.version + 1]]
      ELSE truth

Serve(c) ==
    LET r == clerk[c].args
        gid == clerk[c].gid
    IN  /\ gid # NoGroup
        /\ clerk[c].reply = NoReply
        /\ IF r.op = "Get"
             THEN /\ clerk' = [clerk EXCEPT ![c].reply = GetReply(gid, r.key)]
                  /\ UNCHANGED grp
             ELSE /\ PutErr(gid, r.key, r.version) # "panic"
                  /\ DoOp(GroupOp(r, gid))
                  /\ clerk' = [clerk EXCEPT
                        ![c].reply = [err |-> PutErr(gid, r.key, r.version)],
                        ![c].done = @ \/ TakesEffect(r, gid)]
        /\ truth' = Written(r, gid)
        /\ UNCHANGED <<ctrlVars, late>>

(* A call fails or meets no leader.  The group's clerk tries another       *)
(* server or, in the end, answers ErrorNoResponse.                         *)
Retry(c) ==
    /\ clerk[c].gid # NoGroup
    /\ \E gid \in {NoGroup, clerk[c].gid} :
          clerk' = [clerk EXCEPT ![c].isFirstTry = FALSE, ![c].reply = NoReply, ![c].gid = gid]
    /\ IF clerk[c].reply = NoReply /\ clerk[c].args.op = "Put"
         THEN GiveUp(GroupOp(clerk[c].args, clerk[c].gid) @@ [from |-> c, current |-> TRUE])
         ELSE UNCHANGED late
    /\ UNCHANGED <<grp, ctrlVars, truth>>

WrongGroup(c) ==
    /\ clerk[c].reply.err = "ErrWrongGroup"
    /\ clerk' = [clerk EXCEPT ![c].isFirstTry = FALSE, ![c].reply = NoReply, ![c].gid = NoGroup]
    /\ UNCHANGED <<grp, ctrlVars, late, truth>>

(* A mutant: a refusal is passed on, also of a repeated request.           *)
ResultCertain(c) == clerk[c].reply

Result(c) ==
    IF clerk[c].args.op = "Put" /\ ~clerk[c].isFirstTry /\ clerk[c].reply.err = "ErrVersion"
      THEN [err |-> "ErrMaybe"]
      ELSE clerk[c].reply

Return(c) ==
    /\ clerk[c].reply.err \notin {"none", "ErrWrongGroup"}
    /\ clerk' = [clerk EXCEPT ![c] = Idle(Result(c))]
    /\ late' = {IF m.op = "Put" /\ m.from = c THEN [m EXCEPT !.current = FALSE] ELSE m : m \in late}
    /\ UNCHANGED <<grp, ctrlVars, truth>>

(* An operation whose call was given up runs.                              *)
RunLate(m) ==
    /\ DoOp(m)
    /\ late' = late \ {m}
    /\ IF m.op = "Put" /\ PutErr(m.gid, m.shard, m.version) = "OK"
         THEN /\ truth' = [truth EXCEPT ![m.shard] =
                              [value |-> m.value, version |-> m.version + 1]]
              /\ clerk' = [clerk EXCEPT ![m.from].done = @ \/ m.current]
         ELSE UNCHANGED <<truth, clerk>>
    /\ UNCHANGED ctrlVars

Next ==
    \/ \E c \in Ctrler :
        \/ ChangeConfigTo(c) /\ UNCHANGED clerkVars
        \/ InitController(c) /\ UNCHANGED clerkVars
        \/ saveApplyGet(c) /\ UNCHANGED clerkVars
        \/ saveApplyPut(c) /\ UNCHANGED clerkVars
        \/ lockPut(c) /\ UNCHANGED clerkVars
        \/ lockGet(c) /\ UNCHANGED clerkVars
        \/ releaseLock(c) /\ UNCHANGED clerkVars
        \/ Query(c) /\ UNCHANGED clerkVars
        \/ GetConfigToApply(c) /\ UNCHANGED clerkVars
        \/ configGet(c) /\ UNCHANGED clerkVars
        \/ configPut(c) /\ UNCHANGED clerkVars
        \/ NoResponse(c) /\ UNCHANGED clerkVars
        \/ FreezeShard(c) /\ UNCHANGED clerkVars
        \/ InstallShard(c) /\ UNCHANGED clerkVars
        \/ DeleteShard(c) /\ UNCHANGED clerkVars
    \/ \E c \in Client :
        \/ QueryGroup(c) \/ Serve(c) \/ Retry(c) \/ WrongGroup(c) \/ Return(c)
        \/ \E r \in Request : Call(c, r)
    \/ \E m \in late : RunLate(m)

Spec == Init /\ [][Next]_vars

-----------------------------------------------------------------------------
TypeOK ==
    /\ grp \in [Gid -> [Shard ->
          [state : {"DontOwn", "Frozen", "Working"}, num : 0 .. MaxNum,
           data : [value : Value \cup {Nil}, version : -1 .. MaxVersion + 1]]]]
    /\ config.value \in [Num : 1 .. MaxNum, Shards : [Shard -> Gid], Groups : SUBSET Gid]
    /\ applyConfig.value \in [Num : 1 .. MaxNum, Shards : [Shard -> Gid], Groups : SUBSET Gid]
    /\ lockHolder \in Ctrler \cup {Available, Nil}
    /\ \A c \in Ctrler : ctl[c].ahead \in -2 .. 2 /\ ctl[c].shard \in 0 .. NShards

(* A shard is served by one group at a time.                               *)
OneOwner ==
    ~strayed => \A s \in Shard, g, h \in Gid : Serves(g, s) /\ Serves(h, s) => g = h

(* The group that serves a shard has every Put that took effect, and no    *)
(* group ever serves a nil map.                                            *)
NothingLost == ~strayed => \A s \in Key, g \in Gid : Serves(g, s) => grp[g][s].data = truth[s]

(* A Put that was acknowledged is there for as long as its shard is served *)
(* ("must move shards to the new group", whoever moves them).              *)
AcknowledgedKept ==
    \A s \in Key, g \in Gid : Serves(g, s) => grp[g][s].data.version >= truth[s].version
                             \/ truth[s] = NoKey

(* A configuration is saved only when every shard has reached its group.   *)
Moved ==
    \A s \in Shard : grp[config.value.Shards[s]][s].num > config.value.Num
                     \/ grp[config.value.Shards[s]][s].state # "DontOwn"
ConfigMoved == ~strayed => Moved

(* The next configuration is one ahead at most.                            *)
OneAhead == applyConfig.value.Num \in {config.value.Num, config.value.Num + 1}

(* Rebalance on a larger instance than the one the controllers run with,   *)
(* and on one in which groups outnumber shards.                            *)
Larger == INSTANCE ShardCfg WITH NShards <- 4, Gid <- 1 .. 3
Crowded == INSTANCE ShardCfg WITH NShards <- 2, Gid <- 1 .. 4

(* From the configuration callers find when all controllers are idle, from *)
(* any with four shards and three groups, and from any with two shards and *)
(* up to four groups, JoinBalance and LeaveBalance balance and move no     *)
(* more shards than they must.                                             *)
RebalanceMinimal ==
    /\ (\A c \in Ctrler : ctl[c].pc = "idle") => FewestMoves(config.value)
    /\ Larger!AlwaysFewestMoves
    /\ Crowded!AlwaysFewestMoves
-----------------------------------------------------------------------------
(* Late Puts of calls that have returned and may still take effect.        *)
Dangling ==
    {[op |-> "Put", key |-> m.shard, value |-> m.value, version |-> m.version] :
        m \in {l \in late : l.op = "Put" /\ ~l.current /\ l.version >= truth[l.shard].version}}

Model ==
    INSTANCE KVModel WITH
        Version <- 0 .. MaxVersion,
        store <- truth,
        pending <- [c \in Client |->
                       [call |-> clerk[c].args, done |-> clerk[c].done,
                        answer |-> IF clerk[c].reply.err = "ErrWrongGroup"
                                     THEN NoReply ELSE clerk[c].reply]],
        last <- [c \in Client |-> clerk[c].result],
        dangling <- Dangling

(* Clients put version 0 or, for a key that is there, any other: they have *)
(* a version from the store itself, and no key ever vanishes.  For a       *)
(* version of a missing key the server's answer is ErrNoKey, which         *)
(* models1/kv.go does not allow.                                           *)
VersionsKnown ==
    \A c \in Client :
        LET r == clerk[c].args
        IN  r # Nil /\ r.op = "Put" /\ r.version # 0 => truth[r.key].version # 0

(* Shards move, controllers take over from each other and calls are lost,  *)
(* repeated or late: to clients with VersionsKnown the service is still    *)
(* the store of models1/kv.go.                                             *)
ImplementsKVModel == Model!Spec

Symmetry == Permutations(Ctrler)

(* Nothing is claimed about what follows once a controller has strayed.    *)
OnCourse == ~strayed
=============================================================================
