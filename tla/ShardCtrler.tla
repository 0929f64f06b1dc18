---------------------------- MODULE ShardCtrler ----------------------------
(***************************************************************************)
(* The shard controllers of shardkv1/shardctrler/shardctrler.go, several   *)
(* at a time, over the groups of ShardGrp.  They keep the configuration,   *)
(* the one to apply next and a lock in a key/value server; each call of    *)
(* its clerk is one step here, with the answers KVModel allows.            *)
(*                                                                         *)
(* Versions of the lock only matter for whether a controller's             *)
(* lockVersion is the server's, or one release away from it, so ahead is   *)
(* kept instead: lockVersion minus the version at the server, Behind for   *)
(* anything that cannot match again.                                       *)
(***************************************************************************)
EXTENDS ShardGrp

CONSTANTS Ctrler,
          Caller,       \* the controllers asked for changes; the others only recover
          MaxNum,       \* bound: configuration numbers
          MaxLate,      \* bound: operations of unanswered calls still to run
          LostReplies   \* may replies of the key/value server be lost?

VARIABLES
    config,       \* what the server has under ConfigKey
    applyConfig,  \* and under ApplyConfigKey
    lockHolder,   \* and under LockKey
    ctl,          \* per controller: where it is and its locals
    late,         \* operations of calls that were given up and may still run
    strayed       \* history: a controller skipped a shard or a configuration

ctrlVars == <<config, applyConfig, lockHolder, ctl, strayed>>

Available == "Available"
Behind == -2

NoConfig == MakeShardConfig
Stopped(ahead, wasLeader) ==
    [pc |-> "idle", ret |-> "none", ahead |-> ahead, wasLeader |-> wasLeader,
     new |-> NoConfig, old |-> NoConfig, version |-> 0, shard |-> 0, data |-> NoKey]

InitConfig ==
    /\ config = [value |-> JoinBalance(MakeShardConfig, Gid1), version |-> 1]
    /\ applyConfig = config

CtrlInit ==
    /\ StartServerShardGrp
    /\ InitConfig
    /\ lockHolder = Nil
    /\ ctl = [c \in Ctrler |-> Stopped(0, FALSE)]
    /\ late = {}
    /\ strayed = FALSE

(* What the clerk of the key/value server answers to a Put.                *)
PutAnswers(matches) ==
    {IF matches THEN "OK" ELSE "ErrVersion"} \cup (IF LostReplies THEN {"ErrMaybe"} ELSE {})

Goto(c, pc) == ctl' = [ctl EXCEPT ![c].pc = pc]

-----------------------------------------------------------------------------
(* ChangeConfigTo and InitController.                                      *)

(* The caller has queried the configuration and joined or left a group; a  *)
(* configuration without groups leaves the controller nobody to call.      *)
NextConfigs(c) ==
    {JoinBalance(c, g) : g \in Gid \ c.Groups} \cup
    {LeaveBalance(c, g) : g \in {h \in c.Groups : c.Groups # {h}}}

ChangeConfigTo(c) ==
    /\ c \in Caller
    /\ ctl[c].pc = "idle"
    /\ config.value.Num < MaxNum
    /\ \E new \in NextConfigs(config.value) :
          ctl' = [ctl EXCEPT ![c].pc = "saveGet", ![c].new = new]
    /\ UNCHANGED <<config, applyConfig, lockHolder, grp, late, strayed>>

InitController(c) ==
    /\ ctl[c].pc = "idle"
    /\ ctl' = [ctl EXCEPT ![c].pc = "lock", ![c].ret = "start"]
    /\ UNCHANGED <<config, applyConfig, lockHolder, grp, late, strayed>>

(* A mutant: numbers are not compared.                                     *)
saveApplyAny(c) ==
    /\ ctl[c].pc = "saveGet"
    /\ ctl' = [ctl EXCEPT ![c].pc = "savePut", ![c].version = applyConfig.version]
    /\ UNCHANGED <<config, applyConfig, lockHolder, grp, late, strayed>>

saveApplyGet(c) ==
    /\ ctl[c].pc = "saveGet"
    /\ ctl' = [ctl EXCEPT ![c] =
          IF applyConfig.value.Num >= @.new.Num
            THEN [@ EXCEPT !.pc = "lock", !.ret = "start", !.new = NoConfig]
            ELSE [@ EXCEPT !.pc = "savePut", !.version = applyConfig.version]]
    /\ UNCHANGED <<config, applyConfig, lockHolder, grp, late, strayed>>

saveApplyPut(c) ==
    /\ ctl[c].pc = "savePut"
    /\ LET matches == ctl[c].version = applyConfig.version
       IN  \E err \in PutAnswers(matches) :
             /\ applyConfig' = IF matches
                                 THEN [value |-> ctl[c].new, version |-> ctl[c].version + 1]
                                 ELSE applyConfig
             /\ ctl' = [ctl EXCEPT ![c] =
                   IF err = "OK"
                     THEN [@ EXCEPT !.pc = "lock", !.ret = "start", !.new = NoConfig, !.version = 0]
                     ELSE [@ EXCEPT !.pc = "saveGet", !.version = 0]]
    /\ UNCHANGED <<config, lockHolder, grp, late, strayed>>

-----------------------------------------------------------------------------
(* acquireLock.  ret says where it was called: "start" before anything     *)
(* else, "next" after each shard, "freeze", "install" or "delete" when one *)
(* of these went unanswered.  "abandoned" is "next" after a move that was  *)
(* given up before the shard was installed.                                *)

(* The version at the server grows by one.                                 *)
Passed(ctls) ==
    [d \in Ctrler |-> [ctls[d] EXCEPT !.ahead = IF @ = Behind THEN Behind ELSE @ - 1]]

(* A mutant: the last shard is left out.                                   *)
AtShardButLast(l) ==
    CASE l.shard = NShards - 1 -> [l EXCEPT !.pc = "configGet", !.ret = "none", !.shard = 0]
      [] l.shard # NShards - 1 /\ l.old.Shards[l.shard] # l.new.Shards[l.shard] ->
           [l EXCEPT !.pc = "freeze", !.ret = "none"]
      [] OTHER -> [l EXCEPT !.pc = "lock", !.ret = "next"]

(* The head of the loop over the shards: is there one left, and has it to  *)
(* be moved?                                                               *)
AtShard(l) ==
    CASE l.shard = NShards -> [l EXCEPT !.pc = "configGet", !.ret = "none", !.shard = 0]
      [] l.shard # NShards /\ l.old.Shards[l.shard] # l.new.Shards[l.shard] ->
           [l EXCEPT !.pc = "freeze", !.ret = "none"]
      [] OTHER -> [l EXCEPT !.pc = "lock", !.ret = "next"]

(* acquireLock returns true, true.                                         *)
Acquired(l) ==
    CASE l.ret = "start" -> [l EXCEPT !.pc = "query", !.ret = "none"]
      [] l.ret \in {"next", "abandoned"} -> AtShard([l EXCEPT !.shard = @ + 1])
      [] OTHER -> [l EXCEPT !.pc = l.ret, !.ret = "none"]

(* acquireLock returns false, false: moveShardToGroup returns too, to the  *)
(* acquireLock that follows each shard.                                    *)
Superseded(l) ==
    CASE l.ret = "start" -> Stopped(l.ahead, l.wasLeader)
      [] l.ret \in {"next", "abandoned"} -> [l EXCEPT !.pc = "release", !.ret = "none"]
      [] l.ret = "delete" -> [l EXCEPT !.pc = "lock", !.ret = "next"]
      [] OTHER -> [l EXCEPT !.pc = "lock", !.ret = "abandoned", !.data = NoKey]

(* Did this step of c go on with the next shard, this one not moved?       *)
Skips(c) == ctl[c].ret = "abandoned" /\ ctl'[c].pc \in {"freeze", "lock", "configGet"}

lockPut(c) ==
    /\ ctl[c].pc = "lock"
    /\ LET matches == ctl[c].ahead = 0
           passed == IF matches THEN Passed(ctl) ELSE ctl
       IN  \E err \in PutAnswers(matches) :
             /\ lockHolder' = IF matches THEN c ELSE lockHolder
             /\ ctl' = IF err = "OK"
                         THEN [passed EXCEPT ![c] =
                                  Acquired([@ EXCEPT !.ahead = 0, !.wasLeader = TRUE])]
                         ELSE [passed EXCEPT ![c].pc = "lockGet"]
    /\ strayed' = (strayed \/ Skips(c))
    /\ UNCHANGED <<config, applyConfig, grp, late>>

(* The lock found held by oneself, free, or held by another.               *)
lockGet(c) ==
    /\ ctl[c].pc = "lockGet"
    /\ ctl' = [ctl EXCEPT ![c] =
          IF lockHolder = c
            THEN Acquired([@ EXCEPT !.ahead = 1, !.wasLeader = TRUE])
          ELSE IF @.wasLeader THEN Superseded(@)
          ELSE [@ EXCEPT !.ahead = 0, !.pc = "lock"]]
    /\ strayed' = (strayed \/ Skips(c))
    /\ UNCHANGED <<config, applyConfig, lockHolder, grp, late>>

releaseLock(c) ==
    /\ ctl[c].pc = "release"
    /\ LET matches == ctl[c].ahead = 0
       IN  /\ lockHolder' = IF matches THEN Available ELSE lockHolder
           /\ ctl' = [(IF matches THEN Passed(ctl) ELSE ctl) EXCEPT ![c] =
                 Stopped(IF ctl[c].ahead = Behind THEN Behind
                         ELSE IF matches THEN 0 ELSE ctl[c].ahead + 1, TRUE)]
    /\ UNCHANGED <<config, applyConfig, grp, late, strayed>>
-----------------------------------------------------------------------------
(* changeConfiguration, holding the lock.                                  *)

Query(c) ==
    /\ ctl[c].pc = "query"
    /\ ctl' = [ctl EXCEPT ![c].old = config.value, ![c].pc = "queryApply"]
    /\ UNCHANGED <<config, applyConfig, lockHolder, grp, late, strayed>>

GetConfigToApply(c) ==
    /\ ctl[c].pc = "queryApply"
    /\ ctl' = [ctl EXCEPT ![c] =
          IF @.old.Num >= applyConfig.value.Num
            THEN [@ EXCEPT !.pc = "release"]
            ELSE AtShard([@ EXCEPT !.new = applyConfig.value])]
    /\ strayed' = (strayed \/ applyConfig.value.Num > ctl[c].old.Num + 1)
    /\ UNCHANGED <<config, applyConfig, lockHolder, grp, late>>

(* The loop that saves the new configuration.                              *)
configGet(c) ==
    /\ ctl[c].pc = "configGet"
    /\ ctl' = [ctl EXCEPT ![c] =
          IF config.value.Num >= @.new.Num THEN [@ EXCEPT !.pc = "release"]
          ELSE [@ EXCEPT !.pc = "configPut", !.version = config.version]]
    /\ UNCHANGED <<config, applyConfig, lockHolder, grp, late, strayed>>

configPut(c) ==
    /\ ctl[c].pc = "configPut"
    /\ LET matches == ctl[c].version = config.version
       IN  \E err \in PutAnswers(matches) :
             /\ config' = IF matches
                            THEN [value |-> ctl[c].new, version |-> config.version + 1]
                            ELSE config
             /\ Goto(c, IF err = "OK" THEN "release" ELSE "configGet")
    /\ UNCHANGED <<applyConfig, lockHolder, grp, late, strayed>>

-----------------------------------------------------------------------------
(* moveShardToGroup.                                                       *)

Op(c) ==
    LET l == ctl[c]
    IN  CASE l.pc = "freeze" ->
               [op |-> "Freeze", gid |-> l.old.Shards[l.shard], shard |-> l.shard, num |-> l.new.Num]
          [] l.pc = "install" ->
               [op |-> "Install", gid |-> l.new.Shards[l.shard], shard |-> l.shard, num |-> l.new.Num,
                data |-> l.data]
          [] l.pc = "delete" ->
               [op |-> "Delete", gid |-> l.old.Shards[l.shard], shard |-> l.shard, num |-> l.new.Num]

(* A clerk's call goes unanswered: lost, or its operation runs some time.  *)
GiveUp(m) ==
    \/ UNCHANGED late
    \/ Cardinality(late) < MaxLate /\ late' = late \cup {m}

NoResponse(c) ==
    /\ ctl[c].pc \in {"freeze", "install", "delete"}
    /\ GiveUp(Op(c))
    /\ ctl' = [ctl EXCEPT ![c].ret = ctl[c].pc, ![c].pc = "lock"]
    /\ UNCHANGED <<config, applyConfig, lockHolder, grp, strayed>>

(* The group runs the operation and its answer arrives.                    *)
FreezeShard(c) ==
    /\ ctl[c].pc = "freeze"
    /\ DoOp(Op(c))
    /\ ctl' = [ctl EXCEPT ![c].pc = "install",
                          ![c].data = FrozenState(Op(c).gid, Op(c).shard, Op(c).num)]
    /\ UNCHANGED <<config, applyConfig, lockHolder, late, strayed>>

InstallShard(c) ==
    /\ ctl[c].pc = "install"
    /\ DoOp(Op(c))
    /\ ctl' = [ctl EXCEPT ![c].pc = "delete", ![c].data = NoKey]
    /\ UNCHANGED <<config, applyConfig, lockHolder, late, strayed>>

DeleteShard(c) ==
    /\ ctl[c].pc = "delete"
    /\ DoOp(Op(c))
    /\ ctl' = [ctl EXCEPT ![c].pc = "lock", ![c].ret = "next"]
    /\ UNCHANGED <<config, applyConfig, lockHolder, late, strayed>>
=============================================================================
