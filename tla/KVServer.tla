------------------------------ MODULE KVServer ------------------------------
(***************************************************************************)
(* The key/value server of kvsrv1/server.go and its clerks                 *)
(* (kvsrv1/client.go), over the network of labrpc.  A call that fails is   *)
(* repeated; the handler of a call that was given up may still run.        *)
(***************************************************************************)
EXTENDS Naturals, FiniteSets

CONSTANTS Client,       \* one clerk each
          Key, Value,
          Nil,          \* the empty string, and the absence of a request
          MaxVersion,   \* bound: versions clients put
          MaxLate       \* bound: requests that were given up and still run

ASSUME KVAssumption ==
    /\ Nil \notin Value
    /\ MaxVersion \in Nat
    /\ MaxLate \in Nat

VARIABLES
    keyValue,   \* KVServer.keyValue; version 0 stands for a missing key
    clerk,      \* per client the call its clerk is in
    late        \* requests nobody waits for: their client and whether its clerk
                \* is still in the call that sent them

kvVars == <<keyValue, clerk, late>>

NoData == [value |-> Nil, version |-> 0]

Request ==
    [op : {"Get"}, key : Key] \cup
    [op : {"Put"}, key : Key, value : Value, version : 0 .. MaxVersion]

NoReply == [err |-> "none"]

(* result is what the last call returned.  done is a history variable: has *)
(* the Put under way taken effect?                                         *)
Idle(result) ==
    [args |-> Nil, isFirstTry |-> TRUE, reply |-> NoReply, result |-> result, done |-> FALSE]

Err == {"OK", "ErrNoKey", "ErrVersion"}
Reply ==
    {NoReply} \cup [err : Err] \cup
    [err : Err, value : Value \cup {Nil}, version : 0 .. MaxVersion + 1]

TypeOK ==
    /\ keyValue \in [Key -> [value : Value \cup {Nil}, version : 0 .. MaxVersion + 1]]
    /\ clerk \in [Client -> [args : Request \cup {Nil}, isFirstTry : BOOLEAN, reply : Reply,
                             result : Reply \cup {[err |-> "ErrMaybe"]}, done : BOOLEAN]]
    /\ late \subseteq [from : Client, args : Request, current : BOOLEAN]

MakeKVServer == keyValue = [k \in Key |-> NoData]

MakeClerk == clerk = [c \in Client |-> Idle(NoReply)]

KVInit == MakeKVServer /\ MakeClerk /\ late = {}

-----------------------------------------------------------------------------
(* The handlers.                                                           *)

GetReply(data) ==
    IF data.version = 0
      THEN [err |-> "ErrNoKey", value |-> Nil, version |-> 0]
      ELSE [err |-> "OK", value |-> data.value, version |-> data.version]

(* A mutant: versions are not compared.                                    *)
PutErrAnyVersion(data, version) == IF data.version = 0 /\ version # 0 THEN "ErrNoKey" ELSE "OK"

PutErr(data, version) ==
    IF data.version = 0
      THEN IF version # 0 THEN "ErrNoKey" ELSE "OK"
      ELSE IF version # data.version THEN "ErrVersion" ELSE "OK"

(* A mutant: the version advances by two.                                  *)
PutTwice(r) ==
    IF PutErr(keyValue[r.key], r.version) = "OK"
      THEN keyValue' = [keyValue EXCEPT ![r.key] =
                           [value |-> r.value, version |-> r.version + 2]]
      ELSE UNCHANGED keyValue

(* What KVServer.Put leaves under r.key.                                   *)
Put(r) ==
    IF PutErr(keyValue[r.key], r.version) = "OK"
      THEN keyValue' = [keyValue EXCEPT ![r.key] =
                           [value |-> r.value, version |-> r.version + 1]]
      ELSE UNCHANGED keyValue

TakesEffect(r) == r.op = "Put" /\ PutErr(keyValue[r.key], r.version) = "OK"

-----------------------------------------------------------------------------
(* The clerk.                                                              *)

(* The first Call of Clerk.Get and of Clerk.Put.                           *)
Send(c, r) ==
    /\ clerk[c].args = Nil
    /\ clerk' = [clerk EXCEPT ![c].args = r]
    /\ UNCHANGED <<keyValue, late>>

CallGet(c, k) == Send(c, [op |-> "Get", key |-> k])

CallPut(c, k, value, version) ==
    version <= MaxVersion /\
    Send(c, [op |-> "Put", key |-> k, value |-> value, version |-> version])

(* The server handles the request a clerk is waiting for.                  *)
Serve(c) ==
    LET r == clerk[c].args
    IN  /\ r # Nil
        /\ clerk[c].reply = NoReply
        /\ IF r.op = "Get"
             THEN /\ clerk' = [clerk EXCEPT ![c].reply = GetReply(keyValue[r.key])]
                  /\ UNCHANGED keyValue
             ELSE /\ Put(r)
                  /\ clerk' = [clerk EXCEPT ![c] =
                        [clerk[c] EXCEPT !.reply = [err |-> PutErr(keyValue[r.key], r.version)],
                                         !.done = clerk[c].done \/ TakesEffect(r)]]
        /\ UNCHANGED late

(* Call returns false: the request or the reply was dropped, or the end    *)
(* was disabled while the handler had yet to run.  The clerk's loop sends  *)
(* the same request again.                                                 *)
Retry(c) ==
    /\ clerk[c].args # Nil
    /\ clerk' = [clerk EXCEPT ![c] = [clerk[c] EXCEPT !.isFirstTry = FALSE, !.reply = NoReply]]
    /\ \/ UNCHANGED late
       \/ /\ clerk[c].reply = NoReply
          /\ clerk[c].args.op = "Put"
          /\ Cardinality(late) < MaxLate
          /\ late' = late \cup {[from |-> c, args |-> clerk[c].args, current |-> TRUE]}
    /\ UNCHANGED keyValue

(* The handler of a call that was given up runs.  A late Get changes       *)
(* nothing and is left out.                                                *)
ServeLate(l) ==
    /\ Put(l.args)
    /\ late' = late \ {l}
    /\ clerk' = [clerk EXCEPT ![l.from].done =
                     clerk[l.from].done \/ (l.current /\ TakesEffect(l.args))]

(* A mutant: a refusal is passed on, also of a repeated request.           *)
PutResultCertain(c) == clerk[c].reply

(* What Clerk.Put returns once a call has been answered.                   *)
PutResult(c) ==
    IF ~clerk[c].isFirstTry /\ clerk[c].reply.err = "ErrVersion"
      THEN [err |-> "ErrMaybe"]
      ELSE clerk[c].reply

Result(c) == IF clerk[c].args.op = "Get" THEN clerk[c].reply ELSE PutResult(c)

Return(c) ==
    /\ clerk[c].reply # NoReply
    /\ clerk' = [clerk EXCEPT ![c] = Idle(Result(c))]
    /\ late' = {IF l.from = c THEN [l EXCEPT !.current = FALSE] ELSE l : l \in late}
    /\ UNCHANGED keyValue

-----------------------------------------------------------------------------
(* Clients that call anything.                                             *)
KVNext ==
    \/ \E c \in Client : Serve(c) \/ Retry(c) \/ Return(c)
    \/ \E c \in Client, k \in Key : CallGet(c, k)
    \/ \E c \in Client, k \in Key, v \in Value, n \in 0 .. MaxVersion : CallPut(c, k, v, n)
    \/ \E l \in late : ServeLate(l)

(* Late requests whose version the key has not passed.                     *)
Dangling ==
    {l.args : l \in {m \in late : ~m.current /\ m.args.version >= keyValue[m.args.key].version}}

Pending ==
    [c \in Client |-> [call |-> clerk[c].args, done |-> clerk[c].done, answer |-> clerk[c].reply]]
Last == [c \in Client |-> clerk[c].result]

Model ==
    INSTANCE KVModel WITH
        Version <- 0 .. MaxVersion,
        store <- keyValue, pending <- Pending, last <- Last, dangling <- Dangling

(* Clients put version 0 or, for a key that is there, any other: they have *)
(* a version from the store itself, and no key ever vanishes.  For a       *)
(* version of a missing key the server's answer is ErrNoKey, which         *)
(* models1/kv.go does not allow.                                           *)
VersionsKnown ==
    \A c \in Client :
        LET r == clerk[c].args
        IN  r # Nil /\ r.op = "Put" /\ r.version # 0 => keyValue[r.key].version # 0

(* Server, clerks and network together are the store of models1/kv.go, for *)
(* clients with VersionsKnown: however requests are lost, repeated or      *)
(* late, a Put takes effect at most once, Clerk.Put answers OK only if it  *)
(* did and ErrVersion only if it never will.                               *)
ImplementsKVModel == Model!Spec

KVSpec == KVInit /\ [][KVNext]_kvVars

(* The invariant behind it: of the copies of a Put one at most has taken   *)
(* effect, the key has then passed its version, and a clerk that has not   *)
(* repeated itself knows which way it went.                                *)
KVInv ==
    /\ TypeOK
    /\ \A c \in Client :
        /\ clerk[c].args = Nil => clerk[c].reply = NoReply /\ ~clerk[c].done
        /\ clerk[c].done => /\ clerk[c].args # Nil
                            /\ clerk[c].args.op = "Put"
                            /\ keyValue[clerk[c].args.key].version > clerk[c].args.version
        /\ clerk[c].args # Nil /\ clerk[c].args.op = "Put" /\ clerk[c].reply.err = "OK"
             => clerk[c].done
        /\ clerk[c].isFirstTry => /\ clerk[c].reply.err # "OK" => ~clerk[c].done
                                  /\ \A l \in late : l.from = c => ~l.current
    /\ \A l \in late : /\ l.args.op = "Put"
                       /\ l.current => l.args = clerk[l.from].args /\ l.args # Nil
=============================================================================
