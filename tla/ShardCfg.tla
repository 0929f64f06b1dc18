------------------------------ MODULE ShardCfg ------------------------------
(***************************************************************************)
(* Shard configurations: shardkv1/shardcfg/shardcfg.go.  A configuration   *)
(* says which group serves each shard; the groups' server lists are left   *)
(* out.  Group 0 is no group.                                              *)
(***************************************************************************)
EXTENDS Integers, FiniteSets

CONSTANTS NShards,
          Gid     \* group ids, positive numbers

ASSUME ShardCfgAssumption ==
    /\ NShards \in Nat \ {0}
    /\ Gid \subseteq Nat \ {0}
    /\ 1 \in Gid

NoGroup == 0
Gid1 == 1
NumFirst == 1

Shard == 0 .. NShards - 1
Assignment == [Shard -> Gid \cup {NoGroup}]
ShardConfig == [Num : Nat, Shards : Assignment, Groups : SUBSET Gid]

MakeShardConfig == [Num |-> 0, Shards |-> [s \in Shard |-> NoGroup], Groups |-> {}]

-----------------------------------------------------------------------------
Count(sh, g) == Cardinality({s \in Shard : sh[s] = g})

(* The first of the sorted groups with the fewest, and the most, shards.   *)
Least(sh, groups) ==
    CHOOSE g \in groups : \A h \in groups :
        Count(sh, g) < Count(sh, h) \/ (Count(sh, g) = Count(sh, h) /\ g <= h)
Most(sh, groups) ==
    CHOOSE g \in groups : \A h \in groups :
        Count(sh, g) > Count(sh, h) \/ (Count(sh, g) = Count(sh, h) /\ g <= h)

(* A mutant: every shard is assigned afresh.                               *)
AssignAll(sh, groups) ==
    LET after[n \in 0 .. NShards] ==
          IF n = 0 THEN [s \in Shard |-> NoGroup]
          ELSE [after[n - 1] EXCEPT ![n - 1] = Least(after[n - 1], groups)]
    IN  after[NShards]

(* Every shard of no member group goes to the least loaded one, in turn.   *)
AssignUnassigned(sh, groups) ==
    LET after[n \in 0 .. NShards] ==
          IF n = 0 THEN sh
          ELSE LET acc == after[n - 1]
               IN  IF acc[n - 1] \in groups THEN acc
                   ELSE [acc EXCEPT ![n - 1] = Least(acc, groups)]
    IN  after[NShards]

(* Shards go from the most to the least loaded group, the first one first, *)
(* until the two differ by at most one.                                    *)
MoveShards(sh, groups) ==
    LET move[a \in Assignment] ==
          LET mg == Most(a, groups)
              lg == Least(a, groups)
              first == CHOOSE s \in Shard : a[s] = mg /\ \A t \in Shard : a[t] = mg => s <= t
          IN  IF Count(a, mg) < Count(a, lg) + 2 THEN a
              ELSE move[[a EXCEPT ![first] = lg]]
    IN  move[sh]

Rebalance(c) ==
    [c EXCEPT !.Shards =
        IF c.Groups = {} THEN [s \in Shard |-> NoGroup]
        ELSE MoveShards(AssignUnassigned(c.Shards, c.Groups), c.Groups)]

Join(c, g) == [c EXCEPT !.Groups = @ \cup {g}, !.Num = @ + 1]
Leave(c, g) == [c EXCEPT !.Groups = @ \ {g}, !.Num = @ + 1]

JoinBalance(c, g) == Rebalance(Join(c, g))
LeaveBalance(c, g) == Rebalance(Leave(c, g))

GidServers(c, s) == c.Shards[s]

-----------------------------------------------------------------------------
(* CheckConfig: with any group at all, every shard has a member group and  *)
(* the loads differ by at most one.                                        *)
CheckConfig(c) ==
    c.Groups # {} =>
        /\ \A s \in Shard : c.Shards[s] \in c.Groups
        /\ \A g, h \in c.Groups : Count(c.Shards, g) <= Count(c.Shards, h) + 1

(* Every configuration that passes CheckConfig, any number.                *)
Checked ==
    {c \in UNION {[Num : {NumFirst}, Shards : [Shard -> G], Groups : {G}] : G \in SUBSET Gid \ {{}}} :
        CheckConfig(c)}

Moves(c, d) == Cardinality({s \in Shard : c.Shards[s] # d.Shards[s]})

(* Joining or leaving a group gives a configuration that passes            *)
(* CheckConfig, and none that does would move fewer shards.                *)
FewestMoves(c) ==
    \A new \in {JoinBalance(c, g) : g \in Gid \ c.Groups} \cup
               {LeaveBalance(c, g) : g \in {h \in c.Groups : c.Groups # {h}}} :
        /\ CheckConfig(new)
        /\ \A d \in Checked : d.Groups = new.Groups => Moves(c, new) <= Moves(c, d)

AlwaysFewestMoves == \A c \in Checked : FewestMoves(c)
=============================================================================
