----------------------------- MODULE LockProofs -----------------------------
(***************************************************************************)
(* LockInv is an invariant of Lock, and with it MutualExclusion and        *)
(* ReleaseFrees, for any clients and any bounds.  Lock's clients are       *)
(* clients of KVServer, so that Lock implements KVModel as well.           *)
(***************************************************************************)
EXTENDS Lock, KVServerProofs

Label == {"released", "acquiring", "resync", "resyncing", "acquired", "releasing"}
-----------------------------------------------------------------------------
(* What the steps of a client do to ClientI.                               *)

LEMMA NoReplyErr == NoReply.err = "none"
  BY SMT DEF NoReply

(* A client keeps its part when some of its Puts are gone.                 *)
LEMMA FewerPuts ==
    ASSUME NEW c, NEW p, NEW v, NEW f, NEW a, NEW y, NEW P, NEW K, NEW Q, Q \subseteq P,
           ClientI(c, p, v, f, a, y, P, K)
    PROVE  ClientI(c, p, v, f, a, y, Q, K)
<1>1. CallI(c, p, v, a, y, Q, K)
  BY Zenon DEF ClientI, CallI
<1>2. K.value # c => OtherI(c, p, v, y, Q, K)
  BY Zenon DEF ClientI, OtherI
<1>3. K.value = c => OwnerI(c, p, v, f, y, Q, K)
  BY Zenon DEF ClientI, OwnerI
<1> QED
  BY <1>1, <1>2, <1>3, Zenon DEF ClientI

(* Its reply is lost.                                                      *)
LEMMA ReplyLost ==
    ASSUME NEW c, NEW p, NEW v, NEW f, NEW a, NEW y, NEW P, NEW K,
           ClientI(c, p, v, f, a, y, P, K)
    PROVE  ClientI(c, p, v, f, a, NoReply, P, K)
<1>1. CallI(c, p, v, a, NoReply, P, K)
  BY NoReplyErr, Zenon DEF ClientI, CallI
<1>2. K.value # c => OtherI(c, p, v, NoReply, P, K)
  BY NoReplyErr, Zenon DEF ClientI, OtherI
<1>3. K.value = c => OwnerI(c, p, v, f, NoReply, P, K)
  BY NoReplyErr, Zenon DEF ClientI, OwnerI
<1> QED
  BY <1>1, <1>2, <1>3, Zenon DEF ClientI

(* Acquire sends its Put.                                                  *)
LEMMA AcquireI ==
    ASSUME NEW c \in Client, NEW p, NEW v \in Nat, NEW f, NEW a, NEW P, NEW K \in Data,
           NEW Q, Q \subseteq P \cup {Claim(c, v)},
           p \in {"released", "acquiring"},
           ClientI(c, p, v, f, a, NoReply, P, K)
    PROVE  ClientI(c, "acquiring", v, f, Claim(c, v), NoReply, Q, K)
<1> DEFINE q == Claim(c, v)
<1>0. q.version = v /\ q.value = c
  BY SMT DEF Claim
<1>1. CallI(c, "acquiring", v, q, NoReply, Q, K)
  BY <1>0, NoReplyErr, Zenon DEF ClientI, CallI
<1> HIDE DEF q
<1>2. K.value # c => OtherI(c, "acquiring", v, NoReply, Q, K)
  <2> SUFFICES ASSUME K.value # c PROVE OtherI(c, "acquiring", v, NoReply, Q, K)
    OBVIOUS
  <2>1. OtherI(c, p, v, NoReply, P, K)
    BY Zenon DEF ClientI
  <2>2. /\ Passed(v, K)
        /\ \A r \in P : Passed(r.version, K) /\ (r.version >= K.version => r.value = c)
    BY <2>1, Zenon DEF OtherI
  <2>3. \A r \in Q : Passed(r.version, K) /\ (r.version >= K.version => r.value = c)
    BY <1>0, <2>2, Zenon DEF q
  <2> QED
    BY <2>2, <2>3, NoReplyErr, Zenon DEF OtherI
<1>3. K.value = c => OwnerI(c, "acquiring", v, f, NoReply, Q, K)
  <2> SUFFICES ASSUME K.value = c PROVE OwnerI(c, "acquiring", v, f, NoReply, Q, K)
    OBVIOUS
  <2>1. OwnerI(c, p, v, f, NoReply, P, K)
    BY Zenon DEF ClientI
  <2>2. v # K.version /\ \A r \in P : r.version # K.version
    BY <2>1, Zenon DEF OwnerI
  <2>3. \A r \in Q : r.version # K.version
    BY <1>0, <2>2, Zenon DEF q
  <2> QED
    BY <2>2, <2>3, NoReplyErr, Zenon DEF OwnerI
<1> QED
  BY <1>1, <1>2, <1>3, Zenon DEF ClientI, q

(* Acquire's Put returns, in each of its three ways.                       *)
LEMMA AcquiredI ==
    ASSUME NEW c \in Client, NEW v \in Nat, NEW f, NEW a, NEW y, NEW P \in SUBSET PutRequest,
           NEW K \in Data, y.err = "OK",
           ClientI(c, "acquiring", v, f, a, y, P, K)
    PROVE  ClientI(c, "acquired", v + 1, FALSE, Nil, NoReply, P, K)
<1>1. CallI(c, "acquired", v + 1, Nil, NoReply, P, K)
  BY NoReplyErr, Zenon DEF ClientI, CallI
<1>2. K.value = c /\ OwnerI(c, "acquiring", v, f, y, P, K)
  BY Zenon DEF ClientI, OtherI
<1>3. /\ v + 1 = K.version /\ \A r \in P : r.version # K.version
      /\ \A r \in P : r.version <= K.version
  BY <1>2, Zenon DEF OwnerI
<1>4. OwnerI(c, "acquired", v + 1, FALSE, NoReply, P, K)
  BY <1>3, NoReplyErr, SMT DEF OwnerI
<1> QED
  BY <1>1, <1>2, <1>4, Zenon DEF ClientI

LEMMA RefusedI ==
    ASSUME NEW c \in Client, NEW v \in Nat, NEW f, NEW a, NEW y, NEW P, NEW K \in Data,
           y.err = "ErrVersion",
           ClientI(c, "acquiring", v, f, a, y, P, K)
    PROVE  ClientI(c, "resync", v, FALSE, Nil, NoReply, P, K)
<1>1. CallI(c, "resync", v, Nil, NoReply, P, K)
  BY NoReplyErr, Zenon DEF ClientI, CallI
<1>2. K.value # c => OtherI(c, "resync", v, NoReply, P, K)
  BY NoReplyErr, Zenon DEF ClientI, OtherI
<1>3. K.value = c => OwnerI(c, "resync", v, FALSE, NoReply, P, K)
  BY NoReplyErr, Zenon DEF ClientI, OwnerI
<1> QED
  BY <1>1, <1>2, <1>3, Zenon DEF ClientI

LEMMA AgainI ==
    ASSUME NEW c \in Client, NEW v \in Nat, NEW f, NEW a, NEW y, NEW P, NEW K \in Data,
           ClientI(c, "acquiring", v, f, a, y, P, K)
    PROVE  ClientI(c, "acquiring", v, FALSE, Nil, NoReply, P, K)
<1>1. CallI(c, "acquiring", v, Nil, NoReply, P, K)
  BY NoReplyErr, Zenon DEF ClientI, CallI
<1>2. K.value # c => OtherI(c, "acquiring", v, NoReply, P, K)
  BY NoReplyErr, Zenon DEF ClientI, OtherI
<1>3. K.value = c => OwnerI(c, "acquiring", v, FALSE, NoReply, P, K)
  BY NoReplyErr, Zenon DEF ClientI, OwnerI
<1> QED
  BY <1>1, <1>2, <1>3, Zenon DEF ClientI

(* resync asks and learns.                                                 *)
LEMMA ResyncI ==
    ASSUME NEW c \in Client, NEW v \in Nat, NEW f, NEW a, NEW P, NEW K \in Data,
           ClientI(c, "resync", v, f, a, NoReply, P, K)
    PROVE  ClientI(c, "resyncing", v, f, GetLock, NoReply, P, K)
<1>1. CallI(c, "resyncing", v, GetLock, NoReply, P, K)
  BY NoReplyErr, Zenon DEF ClientI, CallI
<1>2. K.value # c => OtherI(c, "resyncing", v, NoReply, P, K)
  BY NoReplyErr, Zenon DEF ClientI, OtherI
<1>3. K.value = c => OwnerI(c, "resyncing", v, f, NoReply, P, K)
  BY NoReplyErr, Zenon DEF ClientI, OwnerI
<1> QED
  BY <1>1, <1>2, <1>3, Zenon DEF ClientI

LEMMA FoundI ==
    ASSUME NEW c \in Client, NEW v \in Nat, NEW f, NEW a, NEW y, NEW P \in SUBSET PutRequest,
           NEW K \in Data, y # NoReply, y.value = c,
           ClientI(c, "resyncing", v, f, a, y, P, K)
    PROVE  ClientI(c, "acquired", y.version + 1, TRUE, Nil, NoReply, P, K)
<1>1. CallI(c, "acquired", y.version + 1, Nil, NoReply, P, K)
  BY NoReplyErr, Zenon DEF ClientI, CallI
<1>2. K.value = c /\ OwnerI(c, "resyncing", v, f, y, P, K)
  BY Zenon DEF ClientI, OtherI
<1>3. y.version = K.version /\ \A r \in P : r.version # K.version
  BY <1>2, Zenon DEF OwnerI
<1>4. K.version \in Nat
  BY SMT DEF Data
<1>5. OwnerI(c, "acquired", y.version + 1, TRUE, NoReply, P, K)
  BY <1>3, <1>4, NoReplyErr, SMT DEF OwnerI
<1> QED
  BY <1>1, <1>2, <1>5, Zenon DEF ClientI

LEMMA LearntI ==
    ASSUME NEW c \in Client, NEW v \in Nat, NEW f, NEW a, NEW y, NEW P \in SUBSET PutRequest,
           NEW K \in Data, y # NoReply, y.value # c,
           Odd(K.version) <=> K.value \in Client, LockAssumption,
           ClientI(c, "resyncing", v, f, a, y, P, K)
    PROVE  ClientI(c, "acquiring", IF y.value = Available THEN y.version ELSE y.version + 1,
                   FALSE, Nil, NoReply, P, K)
<1> DEFINE w == IF y.value = Available THEN y.version ELSE y.version + 1
<1>1. CallI(c, "acquiring", w, Nil, NoReply, P, K)
  BY NoReplyErr, Zenon DEF ClientI, CallI
<1>2. /\ y \in [err : {"OK"}, value : Value, version : 1 .. K.version]
      /\ Odd(y.version) <=> y.value \in Client
  BY Zenon DEF ClientI, CallI
<1>3. K.version \in Nat
  BY SMT DEF Data
<1>4. y.version \in 1 .. K.version /\ (y.value \in Client \/ y.value = Available)
  BY <1>2, SMT DEF LockAssumption
<1>5. w \in Nat /\ ~Odd(w) /\ w <= K.version + 1
  <2>1. CASE y.value = Available
    <3>1. ~Odd(y.version)
      BY <1>2, <2>1, Zenon DEF LockAssumption
    <3> QED
      BY <1>3, <1>4, <2>1, <3>1, SMT
  <2>2. CASE y.value # Available
    <3>1. Odd(y.version)
      BY <1>2, <1>4, <2>2, Zenon
    <3> QED
      BY <1>3, <1>4, <2>2, <3>1, SMT DEF Odd
  <2> QED
    BY <2>1, <2>2
<1> HIDE DEF w
<1>6. K.value # c => OtherI(c, "acquiring", w, NoReply, P, K)
  <2>1. Passed(w, K)
    BY <1>5 DEF Passed
  <2> QED
    BY <2>1, NoReplyErr, Zenon DEF ClientI, OtherI
<1>7. K.value = c => OwnerI(c, "acquiring", w, FALSE, NoReply, P, K)
  <2> SUFFICES ASSUME K.value = c PROVE OwnerI(c, "acquiring", w, FALSE, NoReply, P, K)
    OBVIOUS
  <2>1. w # K.version
    BY <1>5, Zenon
  <2> QED
    BY <2>1, NoReplyErr, Zenon DEF ClientI, OwnerI
<1> QED
  BY <1>1, <1>6, <1>7, Zenon DEF ClientI, w

(* Release sends its Put.                                                  *)
LEMMA ReleaseI ==
    ASSUME NEW c \in Client, NEW v \in Nat, NEW f, NEW a, NEW P \in SUBSET PutRequest,
           NEW K \in Data, NEW Q, Q \subseteq P \cup {Waiver(v)},
           ClientI(c, "acquired", v, f, a, NoReply, P, K)
    PROVE  ClientI(c, "releasing", v, f, Waiver(v), NoReply, Q, K)
<1> DEFINE q == Waiver(v)
<1>0. q.version = v /\ q.value = Available
  BY SMT DEF Waiver
<1>1. CallI(c, "releasing", v, q, NoReply, Q, K)
  BY <1>0, NoReplyErr, Zenon DEF ClientI, CallI
<1>2. K.value = c /\ OwnerI(c, "acquired", v, f, NoReply, P, K)
  BY Zenon DEF ClientI, OtherI
<1> HIDE DEF q
<1>3. /\ \A r \in P : r.version # K.version
      /\ v = K.version => \A r \in P : r.version <= K.version
      /\ v \in {K.version, K.version + 1} /\ (v # K.version => f)
  BY <1>2, Zenon DEF OwnerI
<1>4. K.version \in Nat
  BY SMT DEF Data
<1>5. /\ \A r \in Q : r.version = K.version => v = K.version /\ r.value = Available
      /\ v = K.version => \A r \in Q : r.version <= K.version
  <2> SUFFICES ASSUME NEW r \in Q
               PROVE  /\ r.version = K.version => v = K.version /\ r.value = Available
                      /\ v = K.version => r.version <= K.version
    OBVIOUS
  <2>1. r \in P \/ r = q
    BY Zenon DEF q
  <2> QED
    BY <1>0, <1>3, <1>4, <2>1, SMT
<1>6. OwnerI(c, "releasing", v, f, NoReply, Q, K)
  BY <1>3, <1>5, NoReplyErr, Zenon DEF OwnerI
<1> QED
  BY <1>1, <1>2, <1>6, Zenon DEF ClientI, q

(* Release's Put returns.                                                  *)
LEMMA ReleasedI ==
    ASSUME NEW c \in Client, NEW v \in Nat, NEW f, NEW a, NEW y, NEW P \in SUBSET PutRequest,
           NEW K \in Data, y # NoReply,
           ClientI(c, "releasing", v, f, a, y, P, K)
    PROVE  ClientI(c, "released", v + 1, f, Nil, NoReply, P, K)
<1>0. K.version \in Nat
  BY SMT DEF Data
<1>1. CallI(c, "released", v + 1, Nil, NoReply, P, K)
  BY NoReplyErr, Zenon DEF ClientI, CallI
<1>2. K.value # c => OtherI(c, "released", v + 1, NoReply, P, K)
  <2> SUFFICES ASSUME K.value # c PROVE OtherI(c, "released", v + 1, NoReply, P, K)
    OBVIOUS
  <2>1. OtherI(c, "releasing", v, y, P, K)
    BY Zenon DEF ClientI
  <2>2. Odd(v) /\ v < K.version
    BY <2>1, Zenon DEF OtherI
  <2>3. Passed(v + 1, K)
    BY <1>0, <2>2, SMT DEF Passed, Odd
  <2> QED
    BY <2>1, <2>3, NoReplyErr, Zenon DEF OtherI
<1>3. K.value = c => OwnerI(c, "released", v + 1, f, NoReply, P, K)
  <2> SUFFICES ASSUME K.value = c PROVE OwnerI(c, "released", v + 1, f, NoReply, P, K)
    OBVIOUS
  <2>1. OwnerI(c, "releasing", v, f, y, P, K)
    BY Zenon DEF ClientI
  <2>2. /\ v # K.version /\ v \in {K.version, K.version + 1}
        /\ f /\ \A r \in P : r.version # K.version
    BY <2>1, Zenon DEF OwnerI
  <2>3. v + 1 # K.version
    BY <1>0, <2>2, SMT
  <2> QED
    BY <2>2, <2>3, NoReplyErr, Zenon DEF OwnerI
<1> QED
  BY <1>1, <1>2, <1>3, Zenon DEF ClientI

(* The server answers resync's Get.                                        *)
LEMMA GetServedI ==
    ASSUME NEW c \in Client, NEW v \in Nat, NEW f, NEW a, NEW P, NEW K \in Data,
           Odd(K.version) <=> K.value \in Client, K.version > 0 => K.value # Nil,
           ClientI(c, "resyncing", v, f, a, NoReply, P, K)
    PROVE  ClientI(c, "resyncing", v, f, a, GetReply(K), P, K)
<1> DEFINE y == GetReply(K)
<1>1. K.version > 0 /\ K.version \in Nat /\ K.value \in Value
  <2>1. K.version > 0
    BY Zenon DEF ClientI, CallI
  <2> QED
    BY <2>1, SMT DEF Data
<1>2. y = [err |-> "OK", value |-> K.value, version |-> K.version]
  BY <1>1, SMT DEF GetReply
<1> HIDE DEF y
<1>3. y.value = K.value /\ y.version = K.version
  BY <1>2, SMT
<1>4. y \in [err : {"OK"}, value : Value, version : 1 .. K.version]
  BY <1>1, <1>2, SMT
<1>5. CallI(c, "resyncing", v, a, y, P, K)
  BY <1>1, <1>3, <1>4, Zenon DEF ClientI, CallI
<1>6. K.value # c => OtherI(c, "resyncing", v, y, P, K)
  BY <1>3, Zenon DEF ClientI, OtherI
<1>7. K.value = c => OwnerI(c, "resyncing", v, f, y, P, K)
  BY <1>3, Zenon DEF ClientI, OwnerI
<1> QED
  BY <1>5, <1>6, <1>7, Zenon DEF ClientI, y

(* It refuses a Put.                                                       *)
LEMMA PutRefusedI ==
    ASSUME NEW c \in Client, NEW p \in {"acquiring", "releasing"}, NEW v \in Nat, NEW f,
           NEW a, a # Nil, NEW P, NEW K \in Data, NEW e, e = PutErr(K, a.version), e # "OK",
           ClientI(c, p, v, f, a, NoReply, P, K)
    PROVE  ClientI(c, p, v, f, a, [err |-> e], P, K)
<1> DEFINE y == [err |-> e]
<1>1. y.err = e
  OBVIOUS
<1> HIDE DEF y
<1>2. a.version = v
  <2>1. a = Claim(c, v) \/ a = Waiver(v)
    BY Zenon DEF ClientI, CallI
  <2> QED
    BY <2>1, SMT DEF Claim, Waiver
<1>3. K.version # v
  BY <1>2, SMT DEF PutErr, Data
<1>4. e = "ErrVersion" => K.version > 0
  BY SMT DEF PutErr, Data
<1>5. CallI(c, p, v, a, y, P, K)
  BY <1>1, <1>4, Zenon DEF ClientI, CallI
<1>6. K.value # c => OtherI(c, p, v, y, P, K)
  BY <1>1, NoReplyErr, Zenon DEF ClientI, OtherI
<1>7. K.value = c => OwnerI(c, p, v, f, y, P, K)
  BY <1>1, <1>3, NoReplyErr, Zenon DEF ClientI, OwnerI
<1> QED
  BY <1>5, <1>6, <1>7, Zenon DEF ClientI, y

(* The Put r of the client writes K2 over K.                               *)
Overwrites(c, p, v, f, a, y, P, K, K2, r) ==
    /\ c \in Client /\ v \in Nat /\ ClientI(c, p, v, f, a, y, P, K)
    /\ P \in SUBSET PutRequest /\ K \in Data /\ r \in P
    /\ r.version = K.version /\ K2.value = r.value /\ K2.version = K.version + 1
    /\ Odd(K.version) <=> K.value \in Client

(* A Put of the client takes effect: it then has the lock, or gives it     *)
(* back.                                                                   *)
LEMMA EffectI ==
    ASSUME NEW c, NEW p, NEW v, NEW f, NEW a, NEW y, NEW P, NEW K, NEW K2, NEW r,
           Overwrites(c, p, v, f, a, y, P, K, K2, r), LockAssumption
    PROVE  /\ ClientI(c, p, v, f, a, y, P, K2)
           /\ K.value # c => K.value \notin Client /\ r.value = c
           /\ K.value = c => r.value = Available /\ p = "releasing"
<1> /\ c \in Client /\ v \in Nat /\ ClientI(c, p, v, f, a, y, P, K)
    /\ P \in SUBSET PutRequest /\ K \in Data /\ r \in P
    /\ r.version = K.version /\ K2.value = r.value /\ K2.version = K.version + 1
    /\ Odd(K.version) <=> K.value \in Client
  BY DEF Overwrites
<1>1. K.version \in Nat /\ \A q \in P : q.version \in Nat
  BY SMT DEF Data, PutRequest
<1>2. CallI(c, p, v, a, y, P, K2)
  <2>1. CallI(c, p, v, a, y, P, K)
    BY Zenon DEF ClientI
  <2>2. K2.version > 0
    BY <1>1, SMT
  <2>3. ASSUME y \in [err : {"OK"}, value : Value, version : 1 .. K.version]
        PROVE  y \in [err : {"OK"}, value : Value, version : 1 .. K2.version]
    BY <1>1, <2>3, SMT
  <2> QED
    BY <2>1, <2>2, <2>3, Zenon DEF CallI
<1>3. CASE K.value # c
  <2>1. OtherI(c, p, v, y, P, K)
    BY <1>3, Zenon DEF ClientI
  <2>2. /\ \A q \in P : Passed(q.version, K)
        /\ r.version >= K.version => r.value = c
        /\ p \in {"releasing", "released"} => r.version < K.version
        /\ p \in {"released", "acquiring"} => Passed(v, K)
    BY <2>1, Zenon DEF OtherI
  <2>3. r.value = c /\ ~Odd(K.version) /\ p \notin {"releasing", "released"}
    BY <1>1, <2>2, SMT DEF Passed
  <2>4. \A q \in P : q.version # K2.version
    BY <1>1, <2>2, <2>3, SMT DEF Passed, Odd
  <2>5. p = "acquiring" => v # K2.version
    BY <1>1, <2>2, <2>3, SMT DEF Passed, Odd
  <2>6. OwnerI(c, p, v, f, y, P, K2)
    BY <2>1, <2>3, <2>4, <2>5, Zenon DEF OwnerI, OtherI
  <2> QED
    BY <1>2, <1>3, <2>3, <2>6, Zenon DEF ClientI
<1>4. CASE K.value = c
  <2>1. OwnerI(c, p, v, f, y, P, K)
    BY <1>4, Zenon DEF ClientI
  <2>2. p = "releasing" /\ v = K.version /\ r.value = Available
    BY <2>1, Zenon DEF OwnerI
  <2>3. \A q \in P : q.version <= K.version
    BY <2>1, <2>2, Zenon DEF OwnerI
  <2>4. /\ \A q \in P : q.version < K2.version /\ Passed(q.version, K2)
        /\ \A q \in P : ~(q.version >= K2.version)
        /\ v < K2.version
    BY <1>1, <2>2, <2>3, SMT DEF Passed
  <2>5. Odd(v) /\ K2.value # c
    BY <1>4, <2>2, Zenon DEF LockAssumption
  <2>6. OtherI(c, p, v, y, P, K2)
    BY <2>2, <2>4, <2>5, Zenon DEF OtherI
  <2> QED
    BY <1>2, <1>4, <2>2, <2>5, <2>6, Zenon DEF ClientI
<1> QED
  BY <1>3, <1>4

(* The same, for the Put the client waits for: it is answered OK.          *)
LEMMA EffectAnsweredI ==
    ASSUME NEW c \in Client, NEW p \in {"acquiring", "releasing"}, NEW v \in Nat, NEW f,
           NEW P \in SUBSET PutRequest, NEW K \in Data, NEW K2,
           NEW a \in P, a # Nil, a.version = K.version,
           K2.value = a.value, K2.version = K.version + 1,
           Odd(K.version) <=> K.value \in Client, LockAssumption,
           ClientI(c, p, v, f, a, NoReply, P, K)
    PROVE  ClientI(c, p, v, f, a, [err |-> "OK"], P, K2)
<1> DEFINE y == [err |-> "OK"]
<1>1. y.err = "OK"
  OBVIOUS
<1> HIDE DEF y
<1>2. K.version \in Nat /\ \A q \in P : q.version \in Nat
  BY SMT DEF Data, PutRequest
<1>3. /\ ClientI(c, p, v, f, a, NoReply, P, K2)
      /\ K.value # c => a.value = c
      /\ K.value = c => a.value = Available /\ p = "releasing"
  <2>1. Overwrites(c, p, v, f, a, NoReply, P, K, K2, a)
    BY DEF Overwrites
  <2> QED
    BY <2>1, EffectI
<1>4. CallI(c, p, v, a, y, P, K2)
  BY <1>1, <1>3, Zenon DEF ClientI, CallI
<1>5. a.version = v
  <2>1. a = Claim(c, v) \/ a = Waiver(v)
    BY Zenon DEF ClientI, CallI
  <2> QED
    BY <2>1, SMT DEF Claim, Waiver
<1>6. CASE K.value # c
  <2>1. OtherI(c, p, v, NoReply, P, K)
    BY <1>6, Zenon DEF ClientI
  <2>2. /\ \A q \in P : Passed(q.version, K)
        /\ p = "releasing" => a.version < K.version
    BY <2>1, Zenon DEF OtherI
  <2>3. p = "acquiring"
    BY <1>2, <2>2, SMT
  <2>4. v + 1 = K2.version /\ \A q \in P : q.version <= K2.version
    BY <1>2, <1>5, <2>2, SMT DEF Passed
  <2>5. K2.value = c
    BY <1>3, <1>6
  <2>6. OwnerI(c, p, v, f, NoReply, P, K2)
    BY <1>3, <2>5, Zenon DEF ClientI
  <2>7. OwnerI(c, p, v, f, y, P, K2)
    BY <2>3, <2>4, <2>6, Zenon DEF OwnerI
  <2> QED
    BY <1>4, <2>5, <2>7, Zenon DEF ClientI, y
<1>7. CASE K.value = c
  <2>1. p = "releasing" /\ K2.value # c
    BY <1>3, <1>7, Zenon DEF LockAssumption
  <2>2. OtherI(c, p, v, y, P, K2)
    BY <1>3, <2>1, Zenon DEF ClientI, OtherI
  <2> QED
    BY <1>4, <2>1, <2>2, Zenon DEF ClientI, y
<1> QED
  BY <1>6, <1>7

(* A Put of another client takes effect.                                   *)
LEMMA OtherEffectI ==
    ASSUME NEW c \in Client, NEW p, NEW v \in Nat, NEW f, NEW a, NEW y,
           NEW P \in SUBSET PutRequest, NEW K \in Data, NEW K2,
           K.value # c, K2.value # c, K2.version = K.version + 1,
           ClientI(c, p, v, f, a, y, P, K)
    PROVE  ClientI(c, p, v, f, a, y, P, K2)
<1>1. K.version \in Nat /\ \A q \in P : q.version \in Nat
  BY SMT DEF Data, PutRequest
<1>2. CallI(c, p, v, a, y, P, K2)
  <2>1. CallI(c, p, v, a, y, P, K)
    BY Zenon DEF ClientI
  <2>2. K2.version > 0
    BY <1>1, SMT
  <2>3. ASSUME y \in [err : {"OK"}, value : Value, version : 1 .. K.version]
        PROVE  y \in [err : {"OK"}, value : Value, version : 1 .. K2.version]
    BY <1>1, <2>3, SMT
  <2> QED
    BY <2>1, <2>2, <2>3, Zenon DEF CallI
<1>3. OtherI(c, p, v, y, P, K)
  BY Zenon DEF ClientI
<1>4. \A n \in Nat : /\ Passed(n, K) => Passed(n, K2)
                     /\ n < K.version => n < K2.version
                     /\ n >= K2.version => n >= K.version
  BY <1>1, SMT DEF Passed
<1>5. OtherI(c, p, v, y, P, K2)
  <2>1. /\ \A r \in P : Passed(r.version, K) /\ (r.version >= K.version => r.value = c)
        /\ p \in {"released", "acquiring"} => Passed(v, K)
        /\ p \in {"releasing", "released"} => \A r \in P : r.version < K.version
        /\ p = "releasing" => Odd(v) /\ v < K.version
    BY <1>3, Zenon DEF OtherI
  <2>2. \A r \in P : Passed(r.version, K2) /\ (r.version >= K2.version => r.value = c)
    BY <1>1, <1>4, <2>1, Zenon
  <2>3. p \in {"released", "acquiring"} => Passed(v, K2)
    BY <1>4, <2>1, Zenon
  <2>4. p \in {"releasing", "released"} => \A r \in P : r.version < K2.version
    BY <1>1, <1>4, <2>1, Zenon
  <2>5. p = "releasing" => Odd(v) /\ v < K2.version
    BY <1>4, <2>1, Zenon
  <2> QED
    BY <1>3, <2>2, <2>3, <2>4, <2>5, Zenon DEF OtherI
<1> QED
  BY <1>2, <1>5, Zenon DEF ClientI
-----------------------------------------------------------------------------
(* What the steps of KVServer do to the state LockInv is about.            *)

LEMMA PutsTyped ==
    ASSUME KVInv, NEW c \in Client
    PROVE  Puts(c) \in SUBSET PutRequest
<1>1. /\ clerk[c] \in Clerk /\ LateInv
      /\ late \subseteq [from : Client, args : Request, current : BOOLEAN]
  BY KVInvParts, TypeParts
<1> SUFFICES ASSUME NEW r \in Puts(c) PROVE r \in PutRequest
  OBVIOUS
<1>2. CASE \E l \in late : r = l.args
  <2>1. PICK l \in late : r = l.args
    BY <1>2
  <2>2. l.args \in Request /\ l.args.op = "Put"
    BY <1>1, SMT DEF LateInv
  <2> QED
    BY <2>1, <2>2, PutIsPut
<1>3. CASE r = clerk[c].args /\ r # Nil /\ r.op = "Put"
  <2>1. clerk[c].args \in Request \cup {Nil}
    BY <1>1, SMT DEF Clerk
  <2> QED
    BY <1>3, <2>1, PutIsPut, Zenon
<1> QED
  BY <1>2, <1>3, Zenon DEF Puts

LEMMA LockFacts ==
    ASSUME LockInv
    PROVE  /\ KVInv /\ State \in Data /\ clerk \in [Client -> Clerk] /\ lockname \in Key
           /\ late \subseteq [from : Client, args : Request, current : BOOLEAN]
           /\ \A c \in Client : /\ clerk[c] \in Clerk /\ ClerkInv(c) /\ ClientInv(c)
                                 /\ Puts(c) \in SUBSET PutRequest
                                 /\ version[c] \in 0 .. MaxVersion + 2 /\ version[c] \in Nat
           /\ Odd(State.version) <=> State.value \in Client
           /\ State.version > 0 => State.value # Nil
<1>1. KVInv /\ LockTypeOK
  BY DEF LockInv
<1>2. /\ keyValue \in [Key -> Data] /\ clerk \in [Client -> Clerk]
      /\ late \subseteq [from : Client, args : Request, current : BOOLEAN]
      /\ \A c \in Client : ClerkInv(c)
  BY <1>1, KVInvParts, TypeParts
<1>3. lockname \in Key
  BY LockAssumption
<1>4. State \in Data
  BY <1>2, <1>3 DEF State
<1>5. \A c \in Client : version[c] \in 0 .. MaxVersion + 2 /\ version[c] \in Nat
  BY <1>1, SMT DEF LockTypeOK
<1>6. \A c \in Client : clerk[c] \in Clerk /\ Puts(c) \in SUBSET PutRequest
  BY <1>1, <1>2, PutsTyped
<1>7. /\ \A c \in Client : ClientInv(c)
      /\ Odd(State.version) <=> State.value \in Client
      /\ State.version > 0 => State.value # Nil
  BY Zenon DEF LockInv
<1> QED
  BY <1>1, <1>2, <1>3, <1>4, <1>5, <1>6, <1>7, Zenon

LEMMA StateKept == ASSUME keyValue' = keyValue PROVE State' = State
  BY DEF State

(* Which Puts a client may have after a step.                              *)
LEMMA PutsAfter ==
    ASSUME NEW d, NEW S,
           clerk'[d].args # Nil /\ clerk'[d].args.op = "Put" => clerk'[d].args \in S,
           \A m \in late' : m.from = d => m.args \in S
    PROVE  Puts(d)' \subseteq S
  BY Zenon DEF Puts

LEMMA PutsNow ==
    ASSUME NEW d
    PROVE  /\ \A l \in late : l.from = d => l.args \in Puts(d)
           /\ clerk[d].args # Nil /\ clerk[d].args.op = "Put" => clerk[d].args \in Puts(d)
  BY Zenon DEF Puts

LEMMA SendFacts ==
    ASSUME LockInv, NEW c \in Client, NEW r \in Request, Send(c, r)
    PROVE  /\ clerk[c].args = Nil /\ clerk[c].reply = NoReply
           /\ clerk'[c].args = r /\ clerk'[c].reply = NoReply
           /\ State' = State
           /\ Puts(c)' \subseteq Puts(c) \cup {r}
           /\ r.op = "Get" => Puts(c)' \subseteq Puts(c)
           /\ \A d \in Client \ {c} : clerk'[d] = clerk[d] /\ Puts(d)' \subseteq Puts(d)
<1>1. clerk \in [Client -> Clerk] /\ clerk[c] \in Clerk /\ ClerkInv(c)
  BY LockFacts
<1> DEFINE new == [clerk[c] EXCEPT !.args = r]
<1>2. /\ clerk[c].args = Nil
      /\ clerk' = [clerk EXCEPT ![c] = new]
      /\ keyValue' = keyValue /\ late' = late
  BY Zenon DEF Send
<1>3. new.reply = clerk[c].reply /\ new.args = r
  BY <1>1, SMT DEF Clerk
<1> HIDE DEF new
<1>4. clerk'[c] = new /\ \A d \in Client \ {c} : clerk'[d] = clerk[d]
  BY <1>1, <1>2
<1>5. clerk[c].reply = NoReply
  BY <1>1, <1>2, Zenon DEF ClerkInv
<1>6. Puts(c)' \subseteq Puts(c) \cup {r}
  <2> DEFINE S == Puts(c) \cup {r}
  <2>1. clerk'[c].args \in S
    BY <1>3, <1>4
  <2>2. \A m \in late' : m.from = c => m.args \in S
    BY <1>2, PutsNow
  <2> HIDE DEF S
  <2>3. Puts(c)' \subseteq S
    BY <2>1, <2>2, PutsAfter
  <2> QED
    BY <2>3 DEF S
<1>7. ASSUME r.op = "Get" PROVE Puts(c)' \subseteq Puts(c)
  <2>1. clerk'[c].args.op # "Put"
    BY <1>3, <1>4, <1>7
  <2> QED
    BY <1>2, <2>1, PutsAfter, PutsNow
<1>8. \A d \in Client \ {c} : Puts(d)' \subseteq Puts(d)
  BY <1>2, <1>4, PutsAfter, PutsNow
<1> QED
  BY <1>2, <1>3, <1>4, <1>5, <1>6, <1>7, <1>8, StateKept

LEMMA ReturnFacts ==
    ASSUME LockInv, NEW c \in Client, Return(c)
    PROVE  /\ clerk[c].reply # NoReply /\ clerk[c].args # Nil
           /\ clerk'[c].args = Nil /\ clerk'[c].reply = NoReply
           /\ State' = State
           /\ Puts(c)' \subseteq Puts(c)
           /\ \A d \in Client \ {c} : clerk'[d] = clerk[d] /\ Puts(d)' \subseteq Puts(d)
<1> DEFINE res == Result(c)
           new == Idle(res)
<1>1. /\ clerk \in [Client -> Clerk] /\ ClerkInv(c)
      /\ late \subseteq [from : Client, args : Request, current : BOOLEAN]
  BY LockFacts
<1>2. /\ clerk' = [clerk EXCEPT ![c] = new] /\ keyValue' = keyValue
      /\ clerk[c].reply # NoReply
  BY Zenon DEF Return
<1> HIDE DEF res
<1>3. new.args = Nil /\ new.reply = NoReply
  BY SMT DEF Idle
<1> HIDE DEF new
<1>4. clerk'[c] = new /\ \A d \in Client \ {c} : clerk'[d] = clerk[d]
  BY <1>1, <1>2
<1>5. \A m \in late' : \E l \in late : m.from = l.from /\ m.args = l.args
  BY <1>1, ReturnLate
<1>6. Puts(c)' \subseteq Puts(c)
  <2>1. clerk'[c].args = Nil
    BY <1>3, <1>4
  <2>2. \A m \in late' : m.from = c => m.args \in Puts(c)
    BY <1>5, PutsNow
  <2> QED
    BY <2>1, <2>2, PutsAfter
<1>7. \A d \in Client \ {c} : Puts(d)' \subseteq Puts(d)
  <2> SUFFICES ASSUME NEW d \in Client \ {c} PROVE Puts(d)' \subseteq Puts(d)
    OBVIOUS
  <2>1. clerk'[d] = clerk[d]
    BY <1>4
  <2>2. \A m \in late' : m.from = d => m.args \in Puts(d)
    BY <1>5, PutsNow
  <2> QED
    BY <2>1, <2>2, PutsAfter, PutsNow
<1>8. clerk[c].args # Nil
  BY <1>1, <1>2, Zenon DEF ClerkInv
<1> QED
  BY <1>2, <1>3, <1>4, <1>6, <1>7, <1>8, StateKept

LEMMA RetryFacts ==
    ASSUME LockInv, NEW c \in Client, Retry(c)
    PROVE  /\ clerk'[c].args = clerk[c].args /\ clerk'[c].reply = NoReply
           /\ State' = State
           /\ Puts(c)' \subseteq Puts(c)
           /\ \A d \in Client \ {c} : clerk'[d] = clerk[d] /\ Puts(d)' \subseteq Puts(d)
<1> DEFINE new == Repeated(clerk[c])
           r == clerk[c].args
           copy == [from |-> c, args |-> r, current |-> TRUE]
<1>1. clerk \in [Client -> Clerk] /\ clerk[c] \in Clerk
  BY LockFacts
<1>2. /\ clerk' = [clerk EXCEPT ![c] = new] /\ keyValue' = keyValue /\ r # Nil
      /\ late' = late \/ (r.op = "Put" /\ late' = late \cup {copy})
  BY Zenon DEF Retry, Repeated
<1>3. new.reply = NoReply /\ new.args = r
  BY <1>1, ClerkRepeated
<1> HIDE DEF new
<1>4. clerk'[c] = new /\ \A d \in Client \ {c} : clerk'[d] = clerk[d]
  BY <1>1, <1>2
<1>5. copy.from = c /\ copy.args = r
  OBVIOUS
<1> HIDE DEF copy
<1>6. \A m \in late' : m \in late \/ (m = copy /\ r.op = "Put")
  BY <1>2, Zenon
<1>7. Puts(c)' \subseteq Puts(c)
  <2>1. \A m \in late' : m.from = c => m.args \in Puts(c)
    BY <1>2, <1>5, <1>6, PutsNow
  <2>2. clerk'[c].args = r
    BY <1>3, <1>4
  <2> QED
    BY <2>1, <2>2, PutsAfter, PutsNow
<1>8. \A d \in Client \ {c} : Puts(d)' \subseteq Puts(d)
  <2> SUFFICES ASSUME NEW d \in Client \ {c} PROVE Puts(d)' \subseteq Puts(d)
    OBVIOUS
  <2>1. clerk'[d] = clerk[d]
    BY <1>4
  <2>2. \A m \in late' : m.from = d => m.args \in Puts(d)
    BY <1>5, <1>6, PutsNow
  <2> QED
    BY <2>1, <2>2, PutsAfter, PutsNow
<1> QED
  BY <1>2, <1>3, <1>4, <1>7, <1>8, StateKept

(* The server changes the lock's key only by a Put that matches, and so.   *)
LEMMA StateAfterPut ==
    ASSUME LockInv, NEW c \in Client, NEW r \in Puts(c), Put(r)
    PROVE  /\ TakesEffect(r) => /\ r.version = State.version
                                /\ State'.value = r.value
                                /\ State'.version = State.version + 1
           /\ ~TakesEffect(r) => State' = State
           /\ TakesEffect(r) <=> PutErr(State, r.version) = "OK"
<1>1. r \in PutRequest /\ KVInv /\ lockname \in Key /\ ClientInv(c)
  BY LockFacts
<1>2. r.key = lockname /\ r.op = "Put"
  <2>1. r = Claim(c, r.version) \/ r = Waiver(r.version)
    BY <1>1, Zenon DEF ClientInv, ClientI, CallI
  <2> QED
    BY <2>1, SMT DEF Claim, Waiver
<1>3. keyValue \in [Key -> Data]
  BY <1>1, KVInvParts, TypeParts
<1>4. /\ TakesEffect(r) => /\ keyValue[r.key].version = r.version
                           /\ keyValue' = [keyValue EXCEPT ![r.key] = Model!Stored(r)]
      /\ ~TakesEffect(r) => keyValue' = keyValue
  BY <1>1, <1>3, PutEffect, Zenon
<1>5. Model!Stored(r).value = r.value /\ Model!Stored(r).version = r.version + 1
  BY SMT DEF Model!Stored
<1>6. TakesEffect(r) => keyValue'[lockname] = Model!Stored(r)
  BY <1>1, <1>2, <1>3, <1>4, Zenon
<1> QED
  BY <1>2, <1>4, <1>5, <1>6, Zenon DEF State, TakesEffect

LEMMA ServeFacts ==
    ASSUME LockInv, NEW c \in Client, Serve(c)
    PROVE  /\ clerk[c].args # Nil /\ clerk[c].reply = NoReply
           /\ clerk'[c].args = clerk[c].args
           /\ clerk[c].args.op = "Get" => /\ clerk'[c].reply = GetReply(keyValue[clerk[c].args.key])
                                          /\ keyValue' = keyValue
           /\ clerk[c].args.op # "Get" =>
                /\ Put(clerk[c].args)
                /\ clerk'[c].reply =
                     [err |-> PutErr(keyValue[clerk[c].args.key], clerk[c].args.version)]
           /\ Puts(c)' \subseteq Puts(c)
           /\ \A d \in Client \ {c} : clerk'[d] = clerk[d] /\ Puts(d)' \subseteq Puts(d)
<1> DEFINE r == clerk[c].args
           reply == IF r.op = "Get" THEN GetReply(keyValue[r.key])
                    ELSE [err |-> PutErr(keyValue[r.key], r.version)]
           done == clerk[c].done \/ TakesEffect(r)
<1>1. clerk \in [Client -> Clerk] /\ clerk[c] \in Clerk
  BY LockFacts
<1>2. /\ late' = late /\ r # Nil /\ clerk[c].reply = NoReply
      /\ r.op = "Get" => keyValue' = keyValue
      /\ r.op # "Get" => Put(r)
  BY Zenon DEF Serve
<1>3. PICK new : /\ clerk' = [clerk EXCEPT ![c] = new]
                 /\ new.args = r /\ new.reply = reply
  <2>1. CASE r.op = "Get"
    <3>1. clerk' = [clerk EXCEPT ![c] = [clerk[c] EXCEPT !.reply = reply]]
      BY <2>1, Zenon DEF Serve
    <3> HIDE DEF reply
    <3>2. [clerk[c] EXCEPT !.reply = reply].args = r /\ [clerk[c] EXCEPT !.reply = reply].reply = reply
      BY <1>1, SMT DEF Clerk
    <3> QED
      BY <3>1, <3>2, Zenon
  <2>2. CASE r.op # "Get"
    <3>1. clerk' = [clerk EXCEPT ![c] = Answered(clerk[c], reply, done)]
      BY <2>2, Zenon DEF Serve, Answered
    <3>2. Answered(clerk[c], reply, done) = [[clerk[c] EXCEPT !.reply = reply] EXCEPT !.done = done]
      BY Zenon DEF Answered
    <3> HIDE DEF reply, done
    <3> DEFINE v == [clerk[c] EXCEPT !.reply = reply]
               u == [v EXCEPT !.done = done]
    <3>3. v.args = r /\ v.reply = reply /\ v = [k \in DOMAIN clerk[c] |-> v[k]]
          /\ DOMAIN clerk[c] = {"args", "isFirstTry", "reply", "result", "done"}
      BY <1>1, SMT DEF Clerk
    <3> HIDE DEF v
    <3>4. u.args = v.args /\ u.reply = v.reply
      BY <3>3, SMT
    <3> HIDE DEF u
    <3>5. clerk' = [clerk EXCEPT ![c] = u]
      BY <3>1, <3>2, Zenon DEF u, v
    <3> QED
      BY <3>3, <3>4, <3>5, Zenon
  <2> QED
    BY <2>1, <2>2
<1>4. clerk'[c] = new /\ \A d \in Client \ {c} : clerk'[d] = clerk[d]
  BY <1>1, <1>3
<1>5. Puts(c)' \subseteq Puts(c)
  <2>1. clerk'[c].args = r
    BY <1>3, <1>4
  <2> QED
    BY <1>2, <2>1, PutsAfter, PutsNow
<1>6. \A d \in Client \ {c} : Puts(d)' \subseteq Puts(d)
  BY <1>2, <1>4, PutsAfter, PutsNow
<1> QED
  BY <1>2, <1>3, <1>4, <1>5, <1>6, Zenon

LEMMA ServeLateFacts ==
    ASSUME LockInv, NEW l \in late, ServeLate(l)
    PROVE  /\ l.from \in Client /\ l.args \in Puts(l.from) /\ Put(l.args)
           /\ \A d \in Client : /\ clerk'[d].args = clerk[d].args
                                /\ clerk'[d].reply = clerk[d].reply
                                /\ Puts(d)' \subseteq Puts(d)
<1> DEFINE c == l.from
           done == clerk[c].done \/ (l.current /\ TakesEffect(l.args))
           new == [clerk[c] EXCEPT !.done = done]
<1>1. /\ clerk \in [Client -> Clerk]
      /\ late \subseteq [from : Client, args : Request, current : BOOLEAN]
  BY LockFacts
<1>2. c \in Client /\ clerk[c] \in Clerk
  BY <1>1, SMT
<1>3. Put(l.args) /\ late' = late \ {l} /\ clerk' = [clerk EXCEPT ![c] = new]
  BY Zenon DEF ServeLate
<1> HIDE DEF done
<1>4. new.args = clerk[c].args /\ new.reply = clerk[c].reply
  BY <1>2, SMT DEF Clerk
<1> HIDE DEF new
<1>5. \A d \in Client : clerk'[d].args = clerk[d].args /\ clerk'[d].reply = clerk[d].reply
  BY <1>1, <1>3, <1>4
<1>6. \A d \in Client : Puts(d)' \subseteq Puts(d)
  <2> SUFFICES ASSUME NEW d \in Client PROVE Puts(d)' \subseteq Puts(d)
    OBVIOUS
  <2>1. clerk'[d].args = clerk[d].args
    BY <1>5
  <2> QED
    BY <1>3, <2>1, PutsAfter, PutsNow
<1> QED
  BY <1>2, <1>3, <1>5, <1>6, PutsNow
-----------------------------------------------------------------------------
(* LockInv is inductive.                                                   *)

(* A client that does nothing while the key stays.                         *)
LEMMA QuietInv ==
    ASSUME NEW d \in Client, ClientInv(d), State' = State,
           pc'[d] = pc[d], version'[d] = version[d], found'[d] = found[d],
           clerk'[d].args = clerk[d].args, clerk'[d].reply = clerk[d].reply,
           Puts(d)' \subseteq Puts(d)
    PROVE  ClientInv(d)'
<1>1. ClientI(d, pc[d], version[d], found[d], clerk[d].args, clerk[d].reply, Puts(d)', State)
  BY FewerPuts, Zenon DEF ClientInv
<1> QED
  BY <1>1, Zenon DEF ClientInv

(* Another client's Put takes effect; d does nothing.                      *)
LEMMA QuietEffect ==
    ASSUME LockInv, NEW d \in Client, State.value # d, State'.value # d,
           State'.version = State.version + 1,
           pc'[d] = pc[d], version'[d] = version[d], found'[d] = found[d],
           clerk'[d].args = clerk[d].args, clerk'[d].reply = clerk[d].reply,
           Puts(d)' \subseteq Puts(d)
    PROVE  ClientInv(d)'
<1>1. ClientInv(d) /\ version[d] \in Nat /\ Puts(d) \in SUBSET PutRequest /\ State \in Data
  BY LockFacts
<1>2. ClientI(d, pc[d], version[d], found[d], clerk[d].args, clerk[d].reply, Puts(d), State')
  BY <1>1, OtherEffectI, Zenon DEF ClientInv
<1>3. ClientI(d, pc[d], version[d], found[d], clerk[d].args, clerk[d].reply, Puts(d)', State')
  BY <1>2, FewerPuts, Zenon
<1> QED
  BY <1>3, Zenon DEF ClientInv

LEMMA Closing ==
    ASSUME LockInv, KVInv', LockTypeOK', State' = State, \A d \in Client : ClientInv(d)'
    PROVE  LockInv'
<1>1. /\ Odd(State.version) <=> State.value \in Client
      /\ State.version > 0 => State.value # Nil
  BY Zenon DEF LockInv
<1>2. /\ Odd(State'.version) <=> State'.value \in Client
      /\ State'.version > 0 => State'.value # Nil
  BY <1>1, Zenon
<1> QED
  BY <1>2, Zenon DEF LockInv

(* A step of c alone.                                                      *)
LEMMA ClientStep ==
    ASSUME LockInv, KVInv', LockTypeOK', NEW c \in Client, State' = State, ClientInv(c)',
           \A d \in Client \ {c} :
             pc'[d] = pc[d] /\ version'[d] = version[d] /\ found'[d] = found[d],
           \A d \in Client \ {c} : clerk'[d] = clerk[d] /\ Puts(d)' \subseteq Puts(d)
    PROVE  LockInv'
<1>1. \A d \in Client : ClientInv(d)
  BY Zenon DEF LockInv
<1>2. \A d \in Client \ {c} : ClientInv(d)'
  BY <1>1, QuietInv, Zenon
<1> QED
  BY <1>2, Closing, Zenon

LEMMA AcquireInv ==
    ASSUME LockInv, KVInv', NEW c \in Client, Acquire(c)
    PROVE  LockInv'
<1> DEFINE v == version[c]
           r == Claim(c, v)
<1>1. /\ ClientInv(c) /\ v \in Nat /\ v \in 0 .. MaxVersion + 2 /\ State \in Data
      /\ lockname \in Key /\ LockTypeOK
  BY LockFacts, Zenon DEF LockInv
<1>2. /\ pc[c] \in {"released", "acquiring"} /\ v <= MaxVersion /\ Send(c, r)
      /\ pc' = [pc EXCEPT ![c] = "acquiring"] /\ version' = version /\ found' = found
  BY Zenon DEF Acquire, CallPut, Claim, Goto
<1>3. r \in Request
  <2>1. c \in Value /\ v \in 0 .. MaxVersion
    BY <1>1, <1>2, LockAssumption, SMT
  <2> QED
    BY <1>1, <2>1, Zenon DEF Request, Claim
<1> HIDE DEF r
<1>4. /\ clerk[c].reply = NoReply
      /\ clerk'[c].args = r /\ clerk'[c].reply = NoReply
      /\ State' = State
      /\ Puts(c)' \subseteq Puts(c) \cup {r}
      /\ \A d \in Client \ {c} : clerk'[d] = clerk[d] /\ Puts(d)' \subseteq Puts(d)
  BY <1>2, <1>3, SendFacts
<1>5. ClientI(c, "acquiring", v, found[c], r, NoReply, Puts(c)', State)
  <2>1. ClientI(c, pc[c], v, found[c], clerk[c].args, NoReply, Puts(c), State)
    BY <1>1, <1>4, Zenon DEF ClientInv
  <2> QED
    BY <1>1, <1>2, <1>4, <2>1, AcquireI, Zenon DEF r
<1>6. /\ LockTypeOK'
      /\ pc'[c] = "acquiring" /\ version'[c] = v /\ found'[c] = found[c]
      /\ \A d \in Client \ {c} :
           pc'[d] = pc[d] /\ version'[d] = version[d] /\ found'[d] = found[d]
  BY <1>1, <1>2, Zenon DEF LockTypeOK, KVInv
<1>7. ClientInv(c)'
  BY <1>4, <1>5, <1>6, Zenon DEF ClientInv
<1> QED
  BY <1>4, <1>6, <1>7, ClientStep

(* What Acquire's Put returns says how it was answered.                    *)
LEMMA AcquireResult ==
    ASSUME LockInv, NEW c \in Client, pc[c] = "acquiring", clerk[c].reply # NoReply
    PROVE  /\ Result(c).err = "OK" => clerk[c].reply.err = "OK"
           /\ Result(c).err \in {"ErrVersion", "ErrMaybe"} => clerk[c].reply.err = "ErrVersion"
           /\ version[c] \in 0 .. MaxVersion
<1>1. KVInv /\ ClientInv(c) /\ clerk[c] \in Clerk
  BY LockFacts
<1>2. /\ clerk[c].args # Nil
      /\ \/ Result(c) = clerk[c].reply
         \/ clerk[c].reply.err = "ErrVersion" /\ Result(c) = Model!PutAnswer("ErrMaybe")
  BY <1>1, ReturnAnswer, Zenon
<1>3. clerk[c].reply.err \in Err
  BY <1>1, SMT DEF Clerk, Reply
<1>4. Model!PutAnswer("ErrMaybe").err = "ErrMaybe"
  BY SMT DEF Model!PutAnswer
<1>5. clerk[c].args = Claim(c, version[c]) /\ clerk[c].args \in Request
  <2>1. clerk[c].args \in {Nil, Claim(c, version[c])}
    BY <1>1, Zenon DEF ClientInv, ClientI, CallI
  <2> QED
    BY <1>1, <1>2, <2>1, SMT DEF Clerk
<1>6. version[c] \in 0 .. MaxVersion
  BY <1>5, SMT DEF Claim, Request
<1> QED
  BY <1>2, <1>3, <1>4, <1>6, SMT DEF Err

LEMMA AcquireReturnInv ==
    ASSUME LockInv, KVInv', NEW c \in Client, AcquireReturn(c)
    PROVE  LockInv'
<1> DEFINE v == version[c]
           err == Result(c).err
<1>1. /\ ClientInv(c) /\ v \in Nat /\ v \in 0 .. MaxVersion + 2 /\ State \in Data
      /\ LockTypeOK /\ Puts(c) \in SUBSET PutRequest
  BY LockFacts, Zenon DEF LockInv
<1>2. /\ pc[c] = "acquiring" /\ Return(c)
      /\ found' = [found EXCEPT ![c] = FALSE]
  BY Zenon DEF AcquireReturn
<1>3. /\ clerk[c].reply # NoReply
      /\ clerk'[c].args = Nil /\ clerk'[c].reply = NoReply
      /\ State' = State
      /\ Puts(c)' \subseteq Puts(c)
      /\ \A d \in Client \ {c} : clerk'[d] = clerk[d] /\ Puts(d)' \subseteq Puts(d)
  BY <1>2, ReturnFacts
<1>4. /\ err = "OK" => clerk[c].reply.err = "OK"
      /\ err \in {"ErrVersion", "ErrMaybe"} => clerk[c].reply.err = "ErrVersion"
      /\ v \in 0 .. MaxVersion
  BY <1>2, <1>3, AcquireResult, Zenon
<1>5. ClientI(c, "acquiring", v, found[c], clerk[c].args, clerk[c].reply, Puts(c), State)
  BY <1>1, <1>2, Zenon DEF ClientInv
<1>6. PICK p \in Label, w \in 0 .. MaxVersion + 2 :
        /\ pc' = [pc EXCEPT ![c] = p] /\ version' = [version EXCEPT ![c] = w]
        /\ ClientI(c, p, w, FALSE, Nil, NoReply, Puts(c), State)
  <2>1. CASE err = "OK"
    <3>1. pc' = [pc EXCEPT ![c] = "acquired"] /\ version' = [version EXCEPT ![c] = v + 1]
      BY <2>1, Zenon DEF AcquireReturn, Goto
    <3>2. ClientI(c, "acquired", v + 1, FALSE, Nil, NoReply, Puts(c), State)
      BY <1>1, <1>4, <1>5, <2>1, AcquiredI, Zenon
    <3>3. v + 1 \in 0 .. MaxVersion + 2
      BY <1>4, KVAssumption, SMT
    <3> QED
      BY <3>1, <3>2, <3>3, Zenon DEF Label
  <2>2. CASE err \in {"ErrVersion", "ErrMaybe"}
    <3>1. pc' = [pc EXCEPT ![c] = "resync"] /\ version' = [version EXCEPT ![c] = v]
      BY <2>2, Zenon DEF AcquireReturn, Goto
    <3>2. ClientI(c, "resync", v, FALSE, Nil, NoReply, Puts(c), State)
      BY <1>1, <1>4, <1>5, <2>2, RefusedI, Zenon
    <3> QED
      BY <1>1, <3>1, <3>2, Zenon DEF Label
  <2>3. CASE err \notin {"OK", "ErrVersion", "ErrMaybe"}
    <3>1. pc' = [pc EXCEPT ![c] = "acquiring"] /\ version' = [version EXCEPT ![c] = v]
      BY <2>3, Zenon DEF AcquireReturn, Goto
    <3>2. ClientI(c, "acquiring", v, FALSE, Nil, NoReply, Puts(c), State)
      BY <1>1, <1>5, AgainI, Zenon
    <3> QED
      BY <1>1, <3>1, <3>2, Zenon DEF Label
  <2> QED
    BY <2>1, <2>2, <2>3, Zenon
<1>7. /\ LockTypeOK'
      /\ pc'[c] = p /\ version'[c] = w /\ found'[c] = FALSE
      /\ \A d \in Client \ {c} :
           pc'[d] = pc[d] /\ version'[d] = version[d] /\ found'[d] = found[d]
  BY <1>1, <1>2, <1>6, Zenon DEF LockTypeOK, KVInv, Label
<1>8. ClientInv(c)'
  <2>1. ClientI(c, p, w, FALSE, Nil, NoReply, Puts(c)', State)
    BY <1>3, <1>6, FewerPuts, Zenon
  <2> QED
    BY <1>3, <1>7, <2>1, Zenon DEF ClientInv
<1> QED
  BY <1>3, <1>7, <1>8, ClientStep

LEMMA resyncInv ==
    ASSUME LockInv, KVInv', NEW c \in Client, resync(c)
    PROVE  LockInv'
<1> DEFINE v == version[c]
<1>1. /\ ClientInv(c) /\ v \in Nat /\ State \in Data /\ lockname \in Key /\ LockTypeOK
  BY LockFacts, Zenon DEF LockInv
<1>2. /\ pc[c] = "resync" /\ Send(c, GetLock)
      /\ pc' = [pc EXCEPT ![c] = "resyncing"] /\ version' = version /\ found' = found
  BY Zenon DEF resync, CallGet, GetLock, Goto
<1>3. GetLock \in Request /\ GetLock.op = "Get"
  BY <1>1, SMT DEF Request, GetLock
<1>4. /\ clerk[c].reply = NoReply
      /\ clerk'[c].args = GetLock /\ clerk'[c].reply = NoReply
      /\ State' = State
      /\ Puts(c)' \subseteq Puts(c)
      /\ \A d \in Client \ {c} : clerk'[d] = clerk[d] /\ Puts(d)' \subseteq Puts(d)
  BY <1>2, <1>3, SendFacts
<1>5. ClientI(c, "resyncing", v, found[c], GetLock, NoReply, Puts(c)', State)
  <2>1. ClientI(c, "resync", v, found[c], clerk[c].args, NoReply, Puts(c), State)
    BY <1>1, <1>2, <1>4, Zenon DEF ClientInv
  <2>2. ClientI(c, "resyncing", v, found[c], GetLock, NoReply, Puts(c), State)
    BY <1>1, <2>1, ResyncI, Zenon
  <2> QED
    BY <1>4, <2>2, FewerPuts, Zenon
<1>6. /\ LockTypeOK'
      /\ pc'[c] = "resyncing" /\ version'[c] = v /\ found'[c] = found[c]
      /\ \A d \in Client \ {c} :
           pc'[d] = pc[d] /\ version'[d] = version[d] /\ found'[d] = found[d]
  BY <1>1, <1>2, Zenon DEF LockTypeOK, KVInv
<1>7. ClientInv(c)'
  BY <1>4, <1>5, <1>6, Zenon DEF ClientInv
<1> QED
  BY <1>4, <1>6, <1>7, ClientStep

LEMMA resyncReturnInv ==
    ASSUME LockInv, KVInv', NEW c \in Client, resyncReturn(c)
    PROVE  LockInv'
<1> DEFINE v == version[c]
           y == clerk[c].reply
           w == IF y.value = Available THEN y.version ELSE y.version + 1
<1>1. /\ ClientInv(c) /\ v \in Nat /\ State \in Data
      /\ LockTypeOK /\ Puts(c) \in SUBSET PutRequest
      /\ Odd(State.version) <=> State.value \in Client
  BY LockFacts, Zenon DEF LockInv
<1>2. pc[c] = "resyncing" /\ Return(c)
  BY Zenon DEF resyncReturn
<1>3. /\ y # NoReply
      /\ clerk'[c].args = Nil /\ clerk'[c].reply = NoReply
      /\ State' = State
      /\ Puts(c)' \subseteq Puts(c)
      /\ \A d \in Client \ {c} : clerk'[d] = clerk[d] /\ Puts(d)' \subseteq Puts(d)
  BY <1>2, ReturnFacts
<1>4. /\ ClientI(c, "resyncing", v, found[c], clerk[c].args, y, Puts(c), State)
      /\ CallI(c, "resyncing", v, clerk[c].args, y, Puts(c), State)
  BY <1>1, <1>2, Zenon DEF ClientInv, ClientI
<1>5. Result(c) = y
  <2>1. clerk[c].args.op = "Get"
    BY <1>4, SMT DEF CallI, GetLock
  <2> QED
    BY <2>1, Zenon DEF Result
<1>6. /\ version' = [version EXCEPT ![c] = w]
      /\ found' = [found EXCEPT ![c] = (y.value = c)]
      /\ pc' = [pc EXCEPT ![c] = IF y.value = c THEN "acquired" ELSE "acquiring"]
  BY <1>5, Zenon DEF resyncReturn, Goto
<1>7. w \in 0 .. MaxVersion + 2 /\ y.version \in Nat
  <2>1. y \in [err : {"OK"}, value : Value, version : 1 .. State.version]
    BY <1>3, <1>4, Zenon DEF CallI
  <2> QED
    BY <1>1, <2>1, KVAssumption, SMT DEF Data
<1>8. PICK p \in Label, f \in BOOLEAN :
        /\ pc' = [pc EXCEPT ![c] = p] /\ found' = [found EXCEPT ![c] = f]
        /\ ClientI(c, p, w, f, Nil, NoReply, Puts(c), State)
  <2>1. CASE y.value = c
    <3>1. w = y.version + 1
      BY <2>1, LockAssumption, Zenon
    <3>2. ClientI(c, "acquired", y.version + 1, TRUE, Nil, NoReply, Puts(c), State)
      BY <1>1, <1>3, <1>4, <2>1, FoundI, Zenon
    <3>3. ClientI(c, "acquired", w, TRUE, Nil, NoReply, Puts(c), State)
      BY <3>1, <3>2
    <3>4. pc' = [pc EXCEPT ![c] = "acquired"] /\ found' = [found EXCEPT ![c] = TRUE]
      BY <1>6, <2>1, Zenon
    <3> QED
      BY <3>3, <3>4, Zenon DEF Label
  <2>2. CASE y.value # c
    <3>1. ClientI(c, "acquiring", w, FALSE, Nil, NoReply, Puts(c), State)
      BY <1>1, <1>3, <1>4, <2>2, LearntI, LockAssumption, Zenon
    <3>2. pc' = [pc EXCEPT ![c] = "acquiring"] /\ found' = [found EXCEPT ![c] = FALSE]
      BY <1>6, <2>2, Zenon
    <3> QED
      BY <3>1, <3>2, Zenon DEF Label
  <2> QED
    BY <2>1, <2>2
<1> HIDE DEF w
<1>9. /\ LockTypeOK'
      /\ pc'[c] = p /\ version'[c] = w /\ found'[c] = f
      /\ \A d \in Client \ {c} :
           pc'[d] = pc[d] /\ version'[d] = version[d] /\ found'[d] = found[d]
  BY <1>1, <1>6, <1>7, <1>8, Zenon DEF LockTypeOK, KVInv, Label
<1>10. ClientInv(c)'
  <2>1. ClientI(c, p, w, f, Nil, NoReply, Puts(c)', State)
    BY <1>3, <1>8, FewerPuts, Zenon
  <2> QED
    BY <1>3, <1>9, <2>1, Zenon DEF ClientInv
<1> QED
  BY <1>3, <1>9, <1>10, ClientStep

LEMMA ReleaseInv ==
    ASSUME LockInv, KVInv', NEW c \in Client, Release(c)
    PROVE  LockInv'
<1> DEFINE v == version[c]
           r == Waiver(v)
<1>1. /\ ClientInv(c) /\ v \in Nat /\ State \in Data /\ lockname \in Key /\ LockTypeOK
      /\ Puts(c) \in SUBSET PutRequest
  BY LockFacts, Zenon DEF LockInv
<1>2. /\ pc[c] = "acquired" /\ v <= MaxVersion /\ Send(c, r)
      /\ pc' = [pc EXCEPT ![c] = "releasing"] /\ version' = version /\ found' = found
  BY Zenon DEF Release, CallPut, Waiver, Goto
<1>3. r \in Request
  <2>1. Available \in Value /\ v \in 0 .. MaxVersion
    BY <1>1, <1>2, KVAssumption, LockAssumption, SMT
  <2> QED
    BY <1>1, <2>1, Zenon DEF Request, Waiver
<1> HIDE DEF r
<1>4. /\ clerk[c].reply = NoReply
      /\ clerk'[c].args = r /\ clerk'[c].reply = NoReply
      /\ State' = State
      /\ Puts(c)' \subseteq Puts(c) \cup {r}
      /\ \A d \in Client \ {c} : clerk'[d] = clerk[d] /\ Puts(d)' \subseteq Puts(d)
  BY <1>2, <1>3, SendFacts
<1>5. ClientI(c, "releasing", v, found[c], r, NoReply, Puts(c)', State)
  <2>1. ClientI(c, "acquired", v, found[c], clerk[c].args, NoReply, Puts(c), State)
    BY <1>1, <1>2, <1>4, Zenon DEF ClientInv
  <2> QED
    BY <1>1, <1>4, <2>1, ReleaseI, Zenon DEF r
<1>6. /\ LockTypeOK'
      /\ pc'[c] = "releasing" /\ version'[c] = v /\ found'[c] = found[c]
      /\ \A d \in Client \ {c} :
           pc'[d] = pc[d] /\ version'[d] = version[d] /\ found'[d] = found[d]
  BY <1>1, <1>2, Zenon DEF LockTypeOK, KVInv
<1>7. ClientInv(c)'
  BY <1>4, <1>5, <1>6, Zenon DEF ClientInv
<1> QED
  BY <1>4, <1>6, <1>7, ClientStep

LEMMA ReleaseReturnInv ==
    ASSUME LockInv, KVInv', NEW c \in Client, ReleaseReturn(c)
    PROVE  LockInv'
<1> DEFINE v == version[c]
           y == clerk[c].reply
<1>1. /\ ClientInv(c) /\ v \in Nat /\ State \in Data /\ clerk[c] \in Clerk
      /\ LockTypeOK /\ Puts(c) \in SUBSET PutRequest
  BY LockFacts, Zenon DEF LockInv
<1>2. /\ pc[c] = "releasing" /\ Return(c) /\ found' = found
      /\ pc' = [pc EXCEPT ![c] = "released"] /\ version' = [version EXCEPT ![c] = v + 1]
  BY Zenon DEF ReleaseReturn, Goto
<1>3. /\ y # NoReply /\ clerk[c].args # Nil
      /\ clerk'[c].args = Nil /\ clerk'[c].reply = NoReply
      /\ State' = State
      /\ Puts(c)' \subseteq Puts(c)
      /\ \A d \in Client \ {c} : clerk'[d] = clerk[d] /\ Puts(d)' \subseteq Puts(d)
  BY <1>2, ReturnFacts
<1>4. /\ ClientI(c, "releasing", v, found[c], clerk[c].args, y, Puts(c), State)
      /\ clerk[c].args = Waiver(v)
  BY <1>1, <1>2, Zenon DEF ClientInv, ClientI, CallI
<1>5. v + 1 \in 0 .. MaxVersion + 2
  <2>1. Waiver(v) \in Request
    BY <1>1, <1>3, <1>4, SMT DEF Clerk
  <2>2. v \in 0 .. MaxVersion
    BY <2>1, SMT DEF Waiver, Request
  <2> QED
    BY <2>2, KVAssumption, SMT
<1>6. ClientI(c, "released", v + 1, found[c], Nil, NoReply, Puts(c)', State)
  <2>1. ClientI(c, "released", v + 1, found[c], Nil, NoReply, Puts(c), State)
    BY <1>1, <1>3, <1>4, ReleasedI, Zenon
  <2> QED
    BY <1>3, <2>1, FewerPuts, Zenon
<1>7. /\ LockTypeOK'
      /\ pc'[c] = "released" /\ version'[c] = v + 1 /\ found'[c] = found[c]
      /\ \A d \in Client \ {c} :
           pc'[d] = pc[d] /\ version'[d] = version[d] /\ found'[d] = found[d]
  BY <1>1, <1>2, <1>5, Zenon DEF LockTypeOK, KVInv
<1>8. ClientInv(c)'
  BY <1>3, <1>6, <1>7, Zenon DEF ClientInv
<1> QED
  BY <1>3, <1>7, <1>8, ClientStep

LEMMA LockTypeKept ==
    ASSUME LockInv, KVInv', UNCHANGED lockVars
    PROVE  LockTypeOK' /\ pc' = pc /\ version' = version /\ found' = found
<1>1. pc' = pc /\ version' = version /\ found' = found
  BY Zenon DEF lockVars
<1> QED
  BY <1>1, Zenon DEF LockInv, LockTypeOK, KVInv

LEMMA LockRetryInv ==
    ASSUME LockInv, KVInv', NEW c \in Client, Retry(c), UNCHANGED lockVars
    PROVE  LockInv'
<1>1. LockTypeOK' /\ pc' = pc /\ version' = version /\ found' = found
  BY LockTypeKept
<1>2. /\ clerk'[c].args = clerk[c].args /\ clerk'[c].reply = NoReply
      /\ State' = State
      /\ Puts(c)' \subseteq Puts(c)
      /\ \A d \in Client \ {c} : clerk'[d] = clerk[d] /\ Puts(d)' \subseteq Puts(d)
  BY RetryFacts
<1>3. ClientI(c, pc[c], version[c], found[c], clerk[c].args, clerk[c].reply, Puts(c), State)
  BY LockFacts, Zenon DEF ClientInv
<1>4. ClientI(c, pc[c], version[c], found[c], clerk[c].args, NoReply, Puts(c), State)
  BY <1>3, ReplyLost, Zenon
<1>5. ClientI(c, pc[c], version[c], found[c], clerk[c].args, NoReply, Puts(c)', State)
  BY <1>2, <1>4, FewerPuts, Zenon
<1>6. ClientInv(c)'
  BY <1>1, <1>2, <1>5, Zenon DEF ClientInv
<1> QED
  BY <1>1, <1>2, <1>6, ClientStep

(* A Put of c takes effect, whether c waits for it or not.                 *)
LEMMA EffectInv ==
    ASSUME LockInv, KVInv', UNCHANGED lockVars, NEW c \in Client, NEW r \in Puts(c),
           Put(r), TakesEffect(r), ClientInv(c)',
           \A d \in Client \ {c} : /\ clerk'[d].args = clerk[d].args
                                    /\ clerk'[d].reply = clerk[d].reply
                                    /\ Puts(d)' \subseteq Puts(d)
    PROVE  LockInv'
<1>1. LockTypeOK' /\ pc' = pc /\ version' = version /\ found' = found
  BY LockTypeKept
<1>2. /\ ClientInv(c) /\ version[c] \in Nat /\ State \in Data /\ State.version \in Nat
      /\ Puts(c) \in SUBSET PutRequest
      /\ Odd(State.version) <=> State.value \in Client
  BY LockFacts, SMT DEF Data
<1>3. /\ r.version = State.version /\ State'.value = r.value
      /\ State'.version = State.version + 1
  BY StateAfterPut, Zenon
<1>4. /\ State.value # c => State.value \notin Client /\ r.value = c
      /\ State.value = c => r.value = Available
  <2>1. ClientI(c, pc[c], version[c], found[c], clerk[c].args, clerk[c].reply, Puts(c), State)
    BY <1>2, Zenon DEF ClientInv
  <2>2. r.version \in Nat
    BY <1>2, SMT DEF PutRequest
  <2>3. CASE State.value # c
    <3>1. OtherI(c, pc[c], version[c], clerk[c].reply, Puts(c), State)
      BY <2>1, <2>3, Zenon DEF ClientI
    <3>2. Passed(r.version, State) /\ (r.version >= State.version => r.value = c)
      BY <3>1, Zenon DEF OtherI
    <3>3. ~Odd(State.version) /\ r.value = c
      BY <1>2, <1>3, <2>2, <3>2, SMT DEF Passed
    <3> QED
      BY <1>2, <2>3, <3>3, Zenon
  <2>4. CASE State.value = c
    BY <1>3, <2>1, <2>4, Zenon DEF ClientI, OwnerI
  <2> QED
    BY <2>3, <2>4, Zenon
<1>5. \A d \in Client \ {c} : State.value # d /\ State'.value # d
  <2> SUFFICES ASSUME NEW d \in Client \ {c} PROVE State.value # d /\ State'.value # d
    OBVIOUS
  <2>1. d # Available /\ d # c /\ d \in Client
    BY LockAssumption, Zenon
  <2>2. CASE State.value # c
    BY <1>3, <1>4, <2>1, <2>2, SMT
  <2>3. CASE State.value = c
    BY <1>3, <1>4, <2>1, <2>3, SMT
  <2> QED
    BY <2>2, <2>3
<1>6. \A d \in Client \ {c} : ClientInv(d)'
  BY <1>1, <1>3, <1>5, QuietEffect, Zenon
<1>7. Odd(State'.version) <=> State'.value \in Client
  <2>1. Odd(State.version + 1) <=> ~Odd(State.version)
    BY <1>2, SMT DEF Odd
  <2>2. CASE State.value # c
    <3>1. ~Odd(State.version) /\ State'.value = c
      BY <1>2, <1>3, <1>4, <2>2, Zenon
    <3> QED
      BY <1>3, <2>1, <3>1, Zenon
  <2>3. CASE State.value = c
    <3>1. Odd(State.version) /\ State'.value \notin Client
      BY <1>2, <1>3, <1>4, <2>3, LockAssumption, Zenon
    <3> QED
      BY <1>3, <2>1, <3>1, Zenon
  <2> QED
    BY <2>2, <2>3
<1>8. State'.value # Nil
  BY <1>3, <1>4, KVAssumption, LockAssumption, Zenon
<1>9. \A d \in Client : ClientInv(d)'
  BY <1>6, Zenon
<1> QED
  BY <1>1, <1>7, <1>8, <1>9, Zenon DEF LockInv

LEMMA LockServeLateInv ==
    ASSUME LockInv, KVInv', NEW l \in late, ServeLate(l), UNCHANGED lockVars
    PROVE  LockInv'
<1> DEFINE c == l.from
           r == l.args
<1>1. LockTypeOK' /\ pc' = pc /\ version' = version /\ found' = found
  BY LockTypeKept
<1>2. /\ c \in Client /\ r \in Puts(c) /\ Put(r)
      /\ \A d \in Client : /\ clerk'[d].args = clerk[d].args
                           /\ clerk'[d].reply = clerk[d].reply
                           /\ Puts(d)' \subseteq Puts(d)
  BY ServeLateFacts
<1>3. \A d \in Client : ClientInv(d)
  BY LockFacts
<1>4. CASE TakesEffect(r)
  <2>1. /\ ClientInv(c) /\ version[c] \in Nat /\ State \in Data
        /\ Puts(c) \in SUBSET PutRequest
        /\ Odd(State.version) <=> State.value \in Client
    BY <1>2, LockFacts
  <2>2. /\ r.version = State.version /\ State'.value = r.value
        /\ State'.version = State.version + 1
    BY <1>2, <1>4, StateAfterPut, Zenon
  <2>3. ClientI(c, pc[c], version[c], found[c], clerk[c].args, clerk[c].reply, Puts(c), State')
    <3>1. Overwrites(c, pc[c], version[c], found[c], clerk[c].args, clerk[c].reply, Puts(c), State,
                     State', r)
      BY <1>2, <2>1, <2>2, Zenon DEF Overwrites, ClientInv
    <3> QED
      BY <3>1, EffectI, LockAssumption
  <2>4. ClientI(c, pc[c], version[c], found[c], clerk[c].args, clerk[c].reply, Puts(c)', State')
    BY <1>2, <2>3, FewerPuts, Zenon
  <2>5. ClientInv(c)'
    BY <1>1, <1>2, <2>4, Zenon DEF ClientInv
  <2> HIDE DEF c, r
  <2> QED
    BY <1>2, <1>4, <2>5, EffectInv
<1>5. CASE ~TakesEffect(r)
  <2>1. State' = State
    BY <1>2, <1>5, StateAfterPut, Zenon
  <2>2. \A d \in Client : ClientInv(d)'
    BY <1>1, <1>2, <1>3, <2>1, QuietInv, Zenon
  <2> QED
    BY <1>1, <2>1, <2>2, Closing
<1> QED
  BY <1>4, <1>5

LEMMA LockServeInv ==
    ASSUME LockInv, KVInv', NEW c \in Client, Serve(c), UNCHANGED lockVars
    PROVE  LockInv'
<1> DEFINE r == clerk[c].args
           v == version[c]
<1>1. LockTypeOK' /\ pc' = pc /\ version' = version /\ found' = found
  BY LockTypeKept
<1>2. /\ r # Nil /\ clerk[c].reply = NoReply /\ clerk'[c].args = r
      /\ r.op = "Get" => /\ clerk'[c].reply = GetReply(keyValue[r.key])
                         /\ keyValue' = keyValue
      /\ r.op # "Get" => /\ Put(r)
                         /\ clerk'[c].reply = [err |-> PutErr(keyValue[r.key], r.version)]
      /\ Puts(c)' \subseteq Puts(c)
      /\ \A d \in Client \ {c} : clerk'[d] = clerk[d] /\ Puts(d)' \subseteq Puts(d)
  BY ServeFacts
<1>3. /\ ClientInv(c) /\ v \in Nat /\ State \in Data /\ Puts(c) \in SUBSET PutRequest
      /\ Odd(State.version) <=> State.value \in Client
      /\ State.version > 0 => State.value # Nil
  BY LockFacts
<1>4. /\ ClientI(c, pc[c], v, found[c], r, NoReply, Puts(c), State)
      /\ CallI(c, pc[c], v, r, NoReply, Puts(c), State)
  BY <1>2, <1>3, Zenon DEF ClientInv, ClientI
<1>5. pc[c] \in Label
  BY Zenon DEF LockInv, LockTypeOK, Label
<1>6. CASE pc[c] = "resyncing"
  <2>1. r = GetLock
    BY <1>4, <1>6, Zenon DEF CallI
  <2>2. r.op = "Get" /\ r.key = lockname
    BY <2>1, SMT DEF GetLock
  <2>3. clerk'[c].reply = GetReply(State) /\ State' = State
    BY <1>2, <2>2, StateKept, Zenon DEF State
  <2>4. ClientI(c, "resyncing", v, found[c], r, GetReply(State), Puts(c), State)
    BY <1>3, <1>4, <1>6, GetServedI, Zenon
  <2>5. ClientI(c, "resyncing", v, found[c], r, GetReply(State), Puts(c)', State)
    BY <1>2, <2>4, FewerPuts, Zenon
  <2>6. ClientInv(c)'
    BY <1>1, <1>2, <1>6, <2>3, <2>5, Zenon DEF ClientInv
  <2> QED
    BY <1>1, <1>2, <2>3, <2>6, ClientStep
<1>7. CASE pc[c] \in {"acquiring", "releasing"}
  <2>1. r = Claim(c, v) \/ r = Waiver(v)
    BY <1>2, <1>4, <1>7, Zenon DEF CallI
  <2>2. r.op = "Put" /\ r.op # "Get" /\ r.key = lockname
    BY <2>1, SMT DEF Claim, Waiver
  <2>3. r \in Puts(c) /\ Put(r) /\ clerk'[c].reply = [err |-> PutErr(State, r.version)]
    BY <1>2, <2>2, PutsNow, Zenon DEF State
  <2>4. /\ TakesEffect(r) => /\ r.version = State.version /\ State'.value = r.value
                             /\ State'.version = State.version + 1
        /\ ~TakesEffect(r) => State' = State
        /\ TakesEffect(r) <=> PutErr(State, r.version) = "OK"
    BY <2>3, StateAfterPut, Zenon
  <2>5. CASE TakesEffect(r)
    <3>1. ClientI(c, pc[c], v, found[c], r, [err |-> "OK"], Puts(c), State')
      BY <1>2, <1>3, <1>4, <1>7, <2>3, <2>4, <2>5, EffectAnsweredI, LockAssumption, Zenon
    <3>2. ClientI(c, pc[c], v, found[c], r, [err |-> "OK"], Puts(c)', State')
      BY <1>2, <3>1, FewerPuts, Zenon
    <3>3. clerk'[c].reply = [err |-> "OK"]
      BY <2>3, <2>4, <2>5, Zenon
    <3>4. ClientInv(c)'
      BY <1>1, <1>2, <3>2, <3>3, Zenon DEF ClientInv
    <3> HIDE DEF r
    <3> QED
      BY <1>2, <2>3, <2>5, <3>4, EffectInv
  <2>6. CASE ~TakesEffect(r)
    <3> DEFINE e == PutErr(State, r.version)
    <3>1. ClientI(c, pc[c], v, found[c], r, [err |-> e], Puts(c), State)
      BY <1>2, <1>3, <1>4, <1>7, <2>4, <2>6, PutRefusedI, Zenon
    <3>2. ClientI(c, pc[c], v, found[c], r, [err |-> e], Puts(c)', State)
      BY <1>2, <3>1, FewerPuts, Zenon
    <3>3. ClientInv(c)'
      BY <1>1, <1>2, <2>3, <2>4, <2>6, <3>2, Zenon DEF ClientInv
    <3>4. State' = State
      BY <2>4, <2>6
    <3> QED
      BY <1>1, <1>2, <3>3, <3>4, ClientStep
  <2> QED
    BY <2>5, <2>6
<1>8. pc[c] \in {"released", "resync", "acquired"} => FALSE
  BY <1>2, <1>4, Zenon DEF CallI
<1> QED
  BY <1>5, <1>6, <1>7, <1>8, Zenon DEF Label

LEMMA LockInitInv == Init => LockInv
<1> SUFFICES ASSUME Init PROVE LockInv
  OBVIOUS
<1>1. KVInit /\ MakeLock
  BY DEF Init
<1>2. KVInv
  BY <1>1, KVInitInv
<1>3. LockTypeOK
  <2>1. 0 \in 0 .. MaxVersion + 2
    BY KVAssumption, SMT
  <2> QED
    BY <1>1, <1>2, <2>1, Zenon DEF MakeLock, LockTypeOK, KVInv
<1>4. State.version = 0 /\ State.value = Nil
  <2>1. State = NoData
    BY <1>1, LockAssumption, Zenon DEF KVInit, MakeKVServer, State
  <2> QED
    BY <2>1, SMT DEF NoData
<1>5. State.value \notin Client /\ ~Odd(0)
  <2>1. Nil \notin Client
    BY KVAssumption, LockAssumption, Zenon
  <2> QED
    BY <1>4, <2>1, SMT DEF Odd
<1>6. \A c \in Client : clerk[c].args = Nil /\ clerk[c].reply = NoReply /\ Puts(c) = {}
  <2> SUFFICES ASSUME NEW c \in Client
               PROVE  clerk[c].args = Nil /\ clerk[c].reply = NoReply /\ Puts(c) = {}
    OBVIOUS
  <2>1. clerk[c] = Idle(NoReply) /\ late = {}
    BY <1>1, Zenon DEF KVInit, MakeClerk
  <2>2. clerk[c].args = Nil /\ clerk[c].reply = NoReply
    BY <2>1, SMT DEF Idle
  <2> QED
    BY <2>1, <2>2, Zenon DEF Puts
<1>7. \A c \in Client : ClientInv(c)
  <2> SUFFICES ASSUME NEW c \in Client PROVE ClientInv(c)
    OBVIOUS
  <2>1. pc[c] = "released" /\ version[c] = 0
    BY <1>1, Zenon DEF MakeLock
  <2>2. CallI(c, "released", 0, Nil, NoReply, {}, State)
    BY Zenon DEF CallI
  <2>3. Passed(0, State)
    BY <1>4, <1>5, SMT DEF Passed
  <2>4. OtherI(c, "released", 0, NoReply, {}, State)
    BY <2>3, Zenon DEF OtherI
  <2>5. State.value # c
    BY <1>5
  <2>6. ClientI(c, "released", 0, found[c], Nil, NoReply, {}, State)
    BY <2>2, <2>4, <2>5, Zenon DEF ClientI
  <2> QED
    BY <1>6, <2>1, <2>6, Zenon DEF ClientInv
<1>8. ~(State.version > 0)
  BY <1>4, SMT
<1> QED
  BY <1>2, <1>3, <1>4, <1>5, <1>7, <1>8, Zenon DEF LockInv

(* What Lock's clients do, clients of KVServer may do.                     *)
LEMMA LockIsKV ==
    ASSUME LockInv, [Next]_vars
    PROVE  [KVNext]_kvVars
<1>1. \A c \in Client : c \in Value /\ version[c] \in Nat
  BY LockFacts, LockAssumption, Zenon
<1>2. lockname \in Key /\ Available \in Value
  BY LockAssumption, Zenon
<1>3. \A n \in Nat : n <= MaxVersion => n \in 0 .. MaxVersion
  BY KVAssumption, SMT
<1>4. ASSUME NEW c \in Client, Acquire(c) PROVE KVNext
  <2>1. CallPut(c, lockname, c, version[c]) /\ version[c] \in 0 .. MaxVersion
    BY <1>1, <1>3, <1>4, Zenon DEF Acquire, CallPut
  <2> QED
    BY <1>1, <1>2, <2>1, Zenon DEF KVNext
<1>5. ASSUME NEW c \in Client, Release(c) PROVE KVNext
  <2>1. CallPut(c, lockname, Available, version[c]) /\ version[c] \in 0 .. MaxVersion
    BY <1>1, <1>3, <1>5, Zenon DEF Release, CallPut
  <2> QED
    BY <1>2, <2>1, Zenon DEF KVNext
<1>6. ASSUME NEW c \in Client, resync(c) PROVE KVNext
  BY <1>2, <1>6, Zenon DEF resync, KVNext
<1>7. ASSUME NEW c \in Client, AcquireReturn(c) \/ resyncReturn(c) \/ ReleaseReturn(c)
      PROVE  KVNext
  BY <1>7, Zenon DEF AcquireReturn, resyncReturn, ReleaseReturn, KVNext
<1>8. ASSUME NEW c \in Client, Serve(c) \/ Retry(c) PROVE KVNext
  BY <1>8, Zenon DEF KVNext
<1>9. ASSUME NEW l \in late, ServeLate(l) PROVE KVNext
  BY <1>9, Zenon DEF KVNext
<1>10. CASE UNCHANGED vars
  BY <1>10, Zenon DEF vars, kvVars
<1> QED
  BY <1>4, <1>5, <1>6, <1>7, <1>8, <1>9, <1>10, Zenon DEF Next

LEMMA LockStepInv == ASSUME LockInv, [Next]_vars PROVE LockInv'
<1>1. KVInv'
  BY LockIsKV, KVStepInv, Zenon DEF LockInv
<1>2. ASSUME NEW c \in Client,
             Acquire(c) \/ AcquireReturn(c) \/ resync(c) \/ resyncReturn(c)
      PROVE  LockInv'
  BY <1>1, <1>2, AcquireInv, AcquireReturnInv, resyncInv, resyncReturnInv, Zenon
<1>3. ASSUME NEW c \in Client, Release(c) \/ ReleaseReturn(c) PROVE LockInv'
  BY <1>1, <1>3, ReleaseInv, ReleaseReturnInv, Zenon
<1>4. ASSUME NEW c \in Client, (Serve(c) \/ Retry(c)) /\ UNCHANGED lockVars PROVE LockInv'
  BY <1>1, <1>4, LockServeInv, LockRetryInv, Zenon
<1>5. ASSUME NEW l \in late, ServeLate(l) /\ UNCHANGED lockVars PROVE LockInv'
  BY <1>1, <1>5, LockServeLateInv, Zenon
<1>6. ASSUME UNCHANGED vars PROVE LockInv'
  <2>1. /\ UNCHANGED lockVars /\ keyValue' = keyValue /\ clerk' = clerk /\ late' = late
    BY <1>6, Zenon DEF vars, kvVars
  <2>2. LockTypeOK' /\ pc' = pc /\ version' = version /\ found' = found
    BY <1>1, <2>1, LockTypeKept
  <2>3. State' = State
    BY <2>1, StateKept
  <2>4. \A d \in Client : Puts(d)' = Puts(d)
    BY <2>1, Zenon DEF Puts
  <2>5. \A d \in Client : ClientInv(d)'
    BY <2>1, <2>2, <2>3, <2>4, QuietInv, LockFacts, Zenon
  <2> QED
    BY <1>1, <2>2, <2>3, <2>5, Closing
<1> QED
  BY <1>2, <1>3, <1>4, <1>5, <1>6, Zenon DEF Next

(* LockInv holds in every state of Lock.                                   *)
THEOREM LockInvariant == Spec => []LockInv
<1>1. LockInv /\ [Next]_vars => LockInv'
  BY LockStepInv
<1> QED
  BY <1>1, LockInitInv, PTL DEF Spec

(* Two clients never hold the lock at once: the key bears the name of one. *)
THEOREM LockMutualExclusion == Spec => []MutualExclusion
<1>1. LockInv => MutualExclusion
  <2> SUFFICES ASSUME LockInv, NEW c \in Client, NEW d \in Client,
                      pc[c] = "acquired", pc[d] = "acquired"
               PROVE  c = d
    BY Zenon DEF MutualExclusion
  <2>1. \A b \in Client : pc[b] = "acquired" => State.value = b
    BY LockFacts, Zenon DEF ClientInv, ClientI, OtherI
  <2> QED
    BY <2>1, Zenon
<1> QED
  BY <1>1, LockInvariant, PTL

(* A client that has released the lock no longer owns the key, unless it   *)
(* had learnt of its ownership from resync.                                *)
THEOREM LockReleaseFrees == Spec => []ReleaseFrees
<1>1. LockInv => ReleaseFrees
  BY LockFacts, Zenon DEF ReleaseFrees, ClientInv, ClientI, OwnerI, State
<1> QED
  BY <1>1, LockInvariant, PTL

(* The variables of Lock stay within their types and bounds.               *)
THEOREM LockType == Spec => []LockTypeOK
<1>1. LockInv => LockTypeOK
  BY Zenon DEF LockInv
<1> QED
  BY <1>1, LockInvariant, PTL

(* A client that puts another version than 0 has it from the lock's key.   *)
LEMMA LockVersionsKnown == ASSUME LockInv PROVE VersionsKnown
<1> SUFFICES ASSUME NEW c \in Client,
                    clerk[c].args # Nil, clerk[c].args.op = "Put", clerk[c].args.version # 0
             PROVE  keyValue[clerk[c].args.key].version # 0
  BY Zenon DEF VersionsKnown
<1> DEFINE r == clerk[c].args
<1>1. r \in Puts(c)
  BY Zenon DEF Puts
<1>2. r = Claim(c, r.version) \/ r = Waiver(r.version)
  BY <1>1, LockFacts, Zenon DEF ClientInv, ClientI, CallI
<1>3. r.key = lockname
  BY <1>2, SMT DEF Claim, Waiver
<1>4. ASSUME State.version = 0 PROVE FALSE
  <2>1. State.value # c
    <3>1. ~Odd(State.version)
      BY <1>4, SMT DEF Odd
    <3> QED
      BY <3>1, LockFacts, Zenon
  <2>2. Passed(r.version, State)
    BY <1>1, <2>1, LockFacts, Zenon DEF ClientInv, ClientI, OtherI
  <2>3. r.version \in Nat
    BY <1>1, LockFacts, SMT DEF PutRequest
  <2> QED
    BY <1>4, <2>2, <2>3, SMT DEF Passed, Odd
<1> QED
  BY <1>3, <1>4, Zenon DEF State

(* The clients of the lock put no version of a key that is not there: to   *)
(* them server and clerks are the store of models1/kv.go.                  *)
THEOREM LockRefines == Spec => ImplementsKVModel
<1>1. Init => KVInit
  BY DEF Init
<1>2. LockInv /\ [Next]_vars => [KVNext]_kvVars
  BY LockIsKV
<1>3. LockInv => VersionsKnown
  BY LockVersionsKnown
<1> QED
  BY <1>1, <1>2, <1>3, LockInvariant, KVRefines, PTL DEF Spec, KVSpec
=============================================================================
