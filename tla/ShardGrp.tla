------------------------------ MODULE ShardGrp ------------------------------
(***************************************************************************)
(* The state machine of a shard group (shardkv1/shardgrp/server.go, DoOp). *)
(* The replicas of a group are one machine here: module RSM is about what  *)
(* makes them one.  Every shard has one key; what matters of a shard's map *)
(* is that key's value and version.                                        *)
(***************************************************************************)
EXTENDS ShardCfg

CONSTANTS Value, Nil

VARIABLE grp   \* per group and shard: shardConfiguration and keyValue

NoKey == [value |-> Nil, version |-> 0]    \* no such key in the shard's map
NilMap == [value |-> Nil, version |-> -1]  \* a nil map: creating the key panics

DontOwn == [state |-> "DontOwn", num |-> 0, data |-> NoKey]
Owned(num) == [state |-> "Working", num |-> num, data |-> NoKey]

(* Gid1 starts with every shard.                                           *)
StartServerShardGrp ==
    grp = [g \in Gid |-> [s \in Shard |-> IF g = Gid1 THEN Owned(NumFirst) ELSE DontOwn]]

Serves(g, s) == grp[g][s].state = "Working"

-----------------------------------------------------------------------------
(* The cases of DoOp: what each answers, and what it leaves in grp.        *)

GetReply(g, s) ==
    IF ~Serves(g, s) THEN [err |-> "ErrWrongGroup"]
    ELSE IF grp[g][s].data.version <= 0 THEN [err |-> "ErrNoKey", value |-> Nil, version |-> 0]
    ELSE [err |-> "OK", value |-> grp[g][s].data.value, version |-> grp[g][s].data.version]

(* A mutant: a frozen shard takes Puts.                                    *)
PutErrFrozen(g, s, version) ==
    LET data == grp[g][s].data
    IN  IF grp[g][s].state = "DontOwn" THEN "ErrWrongGroup"
        ELSE IF data.version <= 0 THEN IF version # 0 THEN "ErrNoKey" ELSE "OK"
        ELSE IF version # data.version THEN "ErrVersion" ELSE "OK"

PutErr(g, s, version) ==
    LET data == grp[g][s].data
    IN  IF ~Serves(g, s) THEN "ErrWrongGroup"
        ELSE IF data.version <= 0
          THEN IF version # 0 THEN "ErrNoKey" ELSE IF data = NilMap THEN "panic" ELSE "OK"
        ELSE IF version # data.version THEN "ErrVersion" ELSE "OK"

Put(g, s, value, version) ==
    IF PutErr(g, s, version) = "OK"
      THEN grp' = [grp EXCEPT ![g][s].data = [value |-> value, version |-> version + 1]]
      ELSE UNCHANGED grp

FreezeErr(g, s, num) ==
    IF grp[g][s].num > num \/ grp[g][s].state = "DontOwn" THEN "ErrVersion" ELSE "OK"

(* Mutants: the shard is already put under the number after; the group     *)
(* goes on serving.                                                        *)
FreezeAhead(g, s, num) ==
    IF FreezeErr(g, s, num) = "OK"
      THEN grp' = [grp EXCEPT ![g][s].state = "Frozen", ![g][s].num = num + 1]
      ELSE UNCHANGED grp

FreezeServing(g, s, num) ==
    IF FreezeErr(g, s, num) = "OK"
      THEN grp' = [grp EXCEPT ![g][s].num = num]
      ELSE UNCHANGED grp

Freeze(g, s, num) ==
    IF FreezeErr(g, s, num) = "OK"
      THEN grp' = [grp EXCEPT ![g][s].state = "Frozen", ![g][s].num = num]
      ELSE UNCHANGED grp

(* The encoded map that Freeze answers with; an answer without one decodes *)
(* to a nil map.                                                           *)
FrozenState(g, s, num) ==
    IF FreezeErr(g, s, num) = "OK" THEN grp[g][s].data ELSE NilMap

Install(g, s, data, num) ==
    IF grp[g][s].num < num
      THEN grp' = [grp EXCEPT ![g][s] = [state |-> "Working", num |-> num, data |-> data]]
      ELSE UNCHANGED grp

Delete(g, s, num) ==
    IF grp[g][s].num <= num
      THEN grp' = [grp EXCEPT ![g][s] = [state |-> "DontOwn", num |-> num, data |-> NoKey]]
      ELSE UNCHANGED grp

(* An operation as it stands in the log of the group.                      *)
DoOp(m) ==
    CASE m.op = "Put" -> Put(m.gid, m.shard, m.value, m.version)
      [] m.op = "Freeze" -> Freeze(m.gid, m.shard, m.num)
      [] m.op = "Install" -> Install(m.gid, m.shard, m.data, m.num)
      [] m.op = "Delete" -> Delete(m.gid, m.shard, m.num)
=============================================================================
