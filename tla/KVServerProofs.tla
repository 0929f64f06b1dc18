--------------------------- MODULE KVServerProofs ---------------------------
(***************************************************************************)
(* KVServer implements KVModel, for any clients, keys, values and bounds.  *)
(***************************************************************************)
EXTENDS KVServer, TLAPS

USE KVAssumption

(* The part of KVInv about one client, and the part about late requests.   *)
ClerkInv(c) ==
    /\ clerk[c].args = Nil => clerk[c].reply = NoReply /\ ~clerk[c].done
    /\ clerk[c].done => /\ clerk[c].args # Nil
                        /\ clerk[c].args.op = "Put"
                        /\ keyValue[clerk[c].args.key].version > clerk[c].args.version
    /\ clerk[c].args # Nil /\ clerk[c].args.op = "Put" /\ clerk[c].reply.err = "OK"
         => clerk[c].done
    /\ clerk[c].isFirstTry => /\ clerk[c].reply.err # "OK" => ~clerk[c].done
                              /\ \A l \in late : l.from = c => ~l.current

LateInv ==
    \A l \in late : /\ l.args.op = "Put"
                    /\ l.current => l.args = clerk[l.from].args /\ l.args # Nil

(* KVInv in three parts.                                                   *)
LEMMA KVInvParts == KVInv <=> TypeOK /\ (\A c \in Client : ClerkInv(c)) /\ LateInv
  BY Zenon DEF KVInv, ClerkInv, LateInv

Data == [value : Value \cup {Nil}, version : 0 .. MaxVersion + 1]
PutRequest == [op : {"Put"}, key : Key, value : Value, version : 0 .. MaxVersion]
Clerk ==
    [args : Request \cup {Nil}, isFirstTry : BOOLEAN, reply : Reply,
     result : Reply \cup {[err |-> "ErrMaybe"]}, done : BOOLEAN]

(* The types, by name.                                                     *)
LEMMA TypeParts ==
    TypeOK <=> /\ keyValue \in [Key -> Data]
               /\ clerk \in [Client -> Clerk]
               /\ late \subseteq [from : Client, args : Request, current : BOOLEAN]
  BY Zenon DEF TypeOK, Data, Clerk

(* A request that is a Put has the fields of one.                          *)
LEMMA PutIsPut == ASSUME NEW r \in Request, r.op = "Put" PROVE r \in PutRequest
  BY SMT DEF Request, PutRequest

(* What the two modules call the outcome of a Put is the same.             *)
LEMMA SamePutErr ==
    ASSUME NEW d \in Data, NEW v \in 0 .. MaxVersion
    PROVE  /\ PutErr(d, v) = "ErrNoKey" \/ PutErr(d, v) = Model!PutErr(d, v)
           /\ PutErr(d, v) = "ErrNoKey" <=> d.version = 0 /\ v # 0
           /\ PutErr(d, v) = "OK" => d.version = v
           /\ PutErr(d, v) \in Err
  BY SMT DEF PutErr, Model!PutErr, Data, Err

(* Put keeps the type, changes only its own key, and that from version to  *)
(* version + 1.                                                            *)
LEMMA PutEffect ==
    ASSUME keyValue \in [Key -> Data], NEW r \in PutRequest, Put(r)
    PROVE  /\ keyValue' \in [Key -> Data]
           /\ \A k \in Key : keyValue'[k].version >= keyValue[k].version
           /\ TakesEffect(r) => /\ keyValue[r.key].version = r.version
                                /\ keyValue'[r.key].version = r.version + 1
                                /\ keyValue' = [keyValue EXCEPT ![r.key] = Model!Stored(r)]
           /\ ~TakesEffect(r) => keyValue' = keyValue
<1> DEFINE new == [value |-> r.value, version |-> r.version + 1]
<1>1. new \in Data
  BY SMT DEF PutRequest, Data
<1>2. r.key \in Key /\ r.version \in 0 .. MaxVersion /\ r.op = "Put"
  BY SMT DEF PutRequest
<1>3. keyValue[r.key] \in Data /\ \A k \in Key : keyValue[k].version \in Nat
  BY <1>2, SMT DEF Data
<1>4. CASE TakesEffect(r)
  <2>1. keyValue' = [keyValue EXCEPT ![r.key] = new]
    BY <1>4, Zenon DEF Put, TakesEffect
  <2>2. keyValue[r.key].version = r.version
    BY <1>2, <1>3, <1>4, SamePutErr, SMT DEF TakesEffect
  <2> QED
    BY <1>1, <1>2, <1>3, <1>4, <2>1, <2>2, SMT DEF Model!Stored
<1>5. CASE ~TakesEffect(r)
  BY <1>2, <1>3, <1>5, SMT DEF Put, TakesEffect
<1> QED
  BY <1>4, <1>5
Answered(w, reply, done) == [w EXCEPT !.reply = reply, !.done = done]
Repeated(w) == [w EXCEPT !.isFirstTry = FALSE, !.reply = NoReply]

(* A clerk that is answered, and one that tries again, are clerks.         *)
LEMMA ClerkAnswered ==
    ASSUME NEW w \in Clerk, NEW reply \in Reply, NEW done \in BOOLEAN,
           NEW u, u = Answered(w, reply, done)
    PROVE  /\ u \in Clerk /\ u.reply = reply /\ u.args = w.args /\ u.done = done
           /\ u.isFirstTry = w.isFirstTry /\ u.result = w.result
<1> DEFINE v == [w EXCEPT !.reply = reply]
<1>1. /\ v \in Clerk /\ v.reply = reply /\ v.args = w.args
      /\ v.isFirstTry = w.isFirstTry /\ v.result = w.result
  BY SMT DEF Clerk
<1>2. u = [v EXCEPT !.done = done]
  BY Zenon DEF Answered
<1> HIDE DEF v
<1>3. /\ u \in Clerk /\ u.reply = v.reply /\ u.args = v.args /\ u.done = done
      /\ u.isFirstTry = v.isFirstTry /\ u.result = v.result
  BY <1>1, <1>2, SMT DEF Clerk
<1> QED
  BY <1>1, <1>3, Zenon

LEMMA ClerkRepeated ==
    ASSUME NEW w \in Clerk,
           NEW u, u = Repeated(w)
    PROVE  /\ u \in Clerk /\ u.reply = NoReply /\ u.args = w.args /\ u.done = w.done
           /\ u.isFirstTry = FALSE /\ u.result = w.result
<1>9. PICK first \in BOOLEAN : first = FALSE
  OBVIOUS
<1> DEFINE v == [w EXCEPT !.isFirstTry = first]
<1>0. NoReply \in Reply
  BY Zenon DEF Reply
<1>1. /\ v \in Clerk /\ v.done = w.done /\ v.args = w.args
      /\ v.isFirstTry = first /\ v.result = w.result
  BY SMT DEF Clerk
<1>2. u = [v EXCEPT !.reply = NoReply]
  BY <1>9, Zenon DEF Repeated
<1> HIDE DEF v
<1>3. /\ u \in Clerk /\ u.reply = NoReply /\ u.args = v.args /\ u.done = v.done
      /\ u.isFirstTry = v.isFirstTry /\ u.result = v.result
  BY <1>0, <1>1, <1>2, SMT DEF Clerk
<1> QED
  BY <1>1, <1>3, <1>9, Zenon
-----------------------------------------------------------------------------
(* KVInv is inductive.                                                     *)

(* What a step leaves alone of a client keeps that client's part, as long  *)
(* as versions do not go back and no copy of its call appears.             *)
LEMMA ClerkFrame ==
    ASSUME NEW d \in Client, ClerkInv(d), clerk'[d] = clerk[d],
           clerk[d] \in Clerk, keyValue \in [Key -> Data], keyValue' \in [Key -> Data],
           \A k \in Key : keyValue'[k].version >= keyValue[k].version,
           \A l \in late' : l.from = d /\ l.current => l \in late
    PROVE  ClerkInv(d)'
<1> DEFINE r == clerk[d].args
<1>1. clerk[d].done => keyValue'[r.key].version > r.version
  <2> SUFFICES ASSUME clerk[d].done PROVE keyValue'[r.key].version > r.version
    OBVIOUS
  <2>1. r \in Request /\ r.op = "Put"
    BY SMT DEF ClerkInv, Clerk
  <2>2. r \in PutRequest
    BY <2>1, PutIsPut
  <2>3. r.key \in Key /\ r.version \in Nat
    BY <2>2, SMT DEF PutRequest
  <2>4. keyValue[r.key].version > r.version
    BY DEF ClerkInv
  <2> QED
    BY <2>3, <2>4, SMT DEF Data
<1> QED
  BY <1>1, Zenon DEF ClerkInv

LEMMA SendInv ==
    ASSUME KVInv, NEW c \in Client, NEW r \in Request, Send(c, r)
    PROVE  KVInv'
<1>0. TypeOK /\ (\A d \in Client : ClerkInv(d)) /\ LateInv
  BY KVInvParts
<1>1. /\ keyValue \in [Key -> Data]
      /\ clerk \in [Client -> Clerk]
      /\ late \subseteq [from : Client, args : Request, current : BOOLEAN]
  BY <1>0, TypeParts
<1> DEFINE new == [clerk[c] EXCEPT !.args = r]
<1>2. /\ clerk[c].args = Nil
      /\ clerk' = [clerk EXCEPT ![c] = new]
      /\ keyValue' = keyValue /\ late' = late
  BY Zenon DEF Send
<1>3. /\ new \in Clerk
      /\ new.reply = clerk[c].reply /\ new.done = clerk[c].done
  BY <1>1, SMT DEF Clerk
<1> HIDE DEF new
<1>4. /\ clerk' \in [Client -> Clerk]
      /\ clerk'[c] = new /\ \A d \in Client \ {c} : clerk'[d] = clerk[d]
  BY <1>1, <1>2, <1>3
<1>5. TypeOK'
  <2>1. /\ keyValue' \in [Key -> Data]
        /\ late' \subseteq [from : Client, args : Request, current : BOOLEAN]
    BY <1>1, <1>2
  <2> QED
    BY <1>4, <2>1, Zenon DEF TypeOK, Data, Clerk
<1>6. \A l \in late : l.from = c => ~l.current
  BY <1>0, <1>2, Zenon DEF LateInv
<1>7. ClerkInv(c)'
  <2>1. /\ clerk'[c].reply = NoReply /\ ~clerk'[c].done /\ NoReply.err # "OK"
    <3>1. NoReply.err # "OK"
      BY SMT DEF NoReply
    <3> QED
      BY <1>0, <1>2, <1>3, <1>4, <3>1, Zenon DEF ClerkInv
  <2> QED
    BY <2>1, <1>2, <1>6, Zenon DEF ClerkInv
<1>8. \A d \in Client \ {c} : ClerkInv(d)'
  <2> SUFFICES ASSUME NEW d \in Client \ {c} PROVE ClerkInv(d)'
    OBVIOUS
  <2>1. \A k \in Key : keyValue'[k].version >= keyValue[k].version
    BY <1>1, <1>2, SMT DEF Data
  <2> QED
    BY <1>0, <1>1, <1>2, <1>4, <2>1, ClerkFrame, Zenon
<1>9. LateInv'
  BY <1>0, <1>1, <1>2, <1>4, <1>6, Zenon DEF LateInv
<1> QED
  BY <1>5, <1>7, <1>8, <1>9, Zenon DEF KVInv, ClerkInv, LateInv

(* Serve gives the clerk an answer of the right type; the rest of KVInv    *)
(* follows from what Put does.                                             *)
LEMMA ServeInv ==
    ASSUME KVInv, NEW c \in Client, Serve(c)
    PROVE  KVInv'
<1> DEFINE r == clerk[c].args
<1>0. TypeOK /\ (\A d \in Client : ClerkInv(d)) /\ LateInv
  BY KVInvParts
<1>1. /\ keyValue \in [Key -> Data]
      /\ clerk \in [Client -> Clerk]
      /\ late \subseteq [from : Client, args : Request, current : BOOLEAN]
  BY <1>0, TypeParts
<1>2. clerk[c] \in Clerk /\ r \in Request /\ r # Nil /\ clerk[c].reply = NoReply /\ late' = late
  BY <1>1, SMT DEF Serve, Clerk
<1>3. PICK reply, done :
        /\ reply \in Reply /\ done \in BOOLEAN
        /\ clerk' \in [Client -> Clerk]
        /\ clerk'[c].reply = reply /\ clerk'[c].done = done
        /\ clerk'[c].args = r /\ clerk'[c].isFirstTry = clerk[c].isFirstTry
        /\ \A d \in Client \ {c} : clerk'[d] = clerk[d]
        /\ keyValue' \in [Key -> Data]
        /\ \A k \in Key : keyValue'[k].version >= keyValue[k].version
        /\ done => r.op = "Put" /\ keyValue'[r.key].version > r.version
        /\ r.op = "Put" => (reply.err = "OK" => done)
        /\ reply.err # "OK" => done = clerk[c].done
  <2>1. CASE r.op = "Get"
    <3> DEFINE reply == GetReply(keyValue[r.key])
               done == clerk[c].done
    <3>1. r.key \in Key
      BY <1>2, <2>1, SMT DEF Request
    <3>2. reply \in Reply
      BY <1>1, <3>1, SMT DEF GetReply, Data, Reply, Err
    <3>3. clerk' = [clerk EXCEPT ![c].reply = reply] /\ keyValue' = keyValue
      BY <2>1, Zenon DEF Serve
    <3>4. /\ clerk' \in [Client -> Clerk]
          /\ clerk'[c].reply = reply /\ clerk'[c].done = done
          /\ clerk'[c].args = r /\ clerk'[c].isFirstTry = clerk[c].isFirstTry
          /\ \A d \in Client \ {c} : clerk'[d] = clerk[d]
      <4> HIDE DEF reply
      <4> QED
        BY <1>1, <1>2, <3>2, <3>3, SMT DEF Clerk
    <3>5. ~done /\ done \in BOOLEAN
      BY <1>0, <1>2, <2>1, SMT DEF ClerkInv, Clerk
    <3>6. \A k \in Key : keyValue'[k].version >= keyValue[k].version
      BY <1>1, <3>3, SMT DEF Data
    <3> HIDE DEF reply, done
    <3>7. r.op # "Put"
      BY <2>1
    <3> WITNESS reply, done
    <3> QED
      BY <1>1, <3>2, <3>3, <3>4, <3>5, <3>6, <3>7
  <2>2. CASE r.op # "Get"
    <3> DEFINE reply == [err |-> PutErr(keyValue[r.key], r.version)]
               done == clerk[c].done \/ TakesEffect(r)
    <3>1. r.op = "Put"
      BY <1>2, <2>2, SMT DEF Request
    <3>2. r \in PutRequest
      BY <1>2, <3>1, PutIsPut
    <3>3. r.key \in Key /\ r.version \in 0 .. MaxVersion
      BY <3>2, SMT DEF PutRequest
    <3>4. PutErr(keyValue[r.key], r.version) \in Err
      BY <1>1, <3>3, SamePutErr
    <3>5. reply \in Reply /\ (reply.err = "OK" <=> TakesEffect(r))
      BY <3>1, <3>4, SMT DEF Reply, Err, TakesEffect
    <3> DEFINE new == Answered(clerk[c], reply, done)
    <3>6. clerk' = [clerk EXCEPT ![c] = new] /\ Put(r)
      BY <2>2, Zenon DEF Serve, Answered
    <3>7. /\ keyValue' \in [Key -> Data]
          /\ \A k \in Key : keyValue'[k].version >= keyValue[k].version
          /\ TakesEffect(r) => keyValue'[r.key].version = r.version + 1
      BY <1>1, <3>2, <3>6, PutEffect, Zenon
    <3>8. done => keyValue'[r.key].version > r.version
      <4>1. clerk[c].done => keyValue[r.key].version > r.version
        BY <1>0, Zenon DEF ClerkInv
      <4>2. keyValue[r.key].version \in Nat /\ keyValue'[r.key].version \in Nat
        BY <1>1, <3>3, <3>7, SMT DEF Data
      <4> QED
        BY <3>3, <3>7, <4>1, <4>2, SMT
    <3>9. done \in BOOLEAN
      BY <1>2, SMT DEF Clerk, TakesEffect
    <3>10. /\ reply.err # "OK" => done = clerk[c].done
           /\ reply.err = "OK" => done
      BY <1>2, <3>5, Zenon DEF Clerk
    <3> HIDE DEF reply, done
    <3>11. /\ clerk' \in [Client -> Clerk]
           /\ clerk'[c].reply = reply /\ clerk'[c].done = done
           /\ clerk'[c].args = r /\ clerk'[c].isFirstTry = clerk[c].isFirstTry
           /\ \A d \in Client \ {c} : clerk'[d] = clerk[d]
      <4>0. clerk[c] \in Clerk /\ reply \in Reply /\ done \in BOOLEAN
        BY <1>2, <3>5, <3>9
      <4>a. new = Answered(clerk[c], reply, done)
        OBVIOUS
      <4> HIDE DEF new
      <4>1. /\ new \in Clerk /\ new.reply = reply /\ new.done = done
            /\ new.args = clerk[c].args /\ new.isFirstTry = clerk[c].isFirstTry
        BY <4>0, <4>a, ClerkAnswered
      <4> QED
        BY <1>1, <3>6, <4>1
    <3> WITNESS reply, done
    <3> QED
      BY <3>1, <3>5, <3>7, <3>8, <3>9, <3>10, <3>11
  <2> QED
    BY <2>1, <2>2
<1>5. TypeOK'
  BY <1>1, <1>2, <1>3, Zenon DEF TypeOK, Data, Clerk
<1>6. ClerkInv(c)'
  <2>1. NoReply.err # "OK"
    BY SMT DEF NoReply
  <2> QED
    BY <1>0, <1>2, <1>3, <2>1, Zenon DEF ClerkInv
<1>7. \A d \in Client \ {c} : ClerkInv(d)'
  BY <1>0, <1>1, <1>2, <1>3, ClerkFrame, Zenon
<1>8. LateInv'
  <2>1. \A d \in Client : clerk'[d].args = clerk[d].args
    BY <1>3
  <2>2. \A l \in late : l.from \in Client
    BY <1>1, SMT
  <2> QED
    BY <1>0, <1>2, <2>1, <2>2, Zenon DEF LateInv
<1> QED
  BY <1>5, <1>6, <1>7, <1>8, Zenon DEF KVInv, ClerkInv, LateInv

(* A repeated request may leave a copy behind, of the call under way.      *)
LEMMA RetryInv ==
    ASSUME KVInv, NEW c \in Client, Retry(c)
    PROVE  KVInv'
<1> DEFINE r == clerk[c].args
           copy == [from |-> c, args |-> r, current |-> TRUE]
           new == Repeated(clerk[c])
<1>0. TypeOK /\ (\A d \in Client : ClerkInv(d)) /\ LateInv
  BY KVInvParts
<1>1. /\ keyValue \in [Key -> Data]
      /\ clerk \in [Client -> Clerk]
      /\ late \subseteq [from : Client, args : Request, current : BOOLEAN]
  BY <1>0, TypeParts
<1>2. clerk[c] \in Clerk /\ r \in Request /\ r # Nil
  BY <1>1, SMT DEF Retry, Clerk
<1>3. /\ clerk' = [clerk EXCEPT ![c] = new] /\ keyValue' = keyValue
      /\ \/ late' = late
         \/ r.op = "Put" /\ late' = late \cup {copy}
  BY Zenon DEF Retry, Repeated
<1>4. /\ new \in Clerk /\ new.reply = NoReply /\ new.args = r /\ new.done = clerk[c].done
      /\ new.isFirstTry = FALSE
  BY <1>2, ClerkRepeated
<1> HIDE DEF new
<1>5. /\ clerk' \in [Client -> Clerk]
      /\ clerk'[c] = new /\ \A d \in Client \ {c} : clerk'[d] = clerk[d]
  BY <1>1, <1>3, <1>4
<1>6. /\ copy \in [from : Client, args : Request, current : BOOLEAN]
      /\ copy.from = c /\ copy.args = r
  BY <1>2, Zenon
<1> HIDE DEF copy
<1>7. \A l \in late' : l \in late \/ (l = copy /\ r.op = "Put")
  BY <1>3, Zenon
<1>8. TypeOK'
  <2>1. late' \subseteq [from : Client, args : Request, current : BOOLEAN]
    BY <1>1, <1>6, <1>7, Zenon
  <2>2. keyValue' \in [Key -> Data]
    BY <1>1, <1>3
  <2> QED
    BY <1>5, <2>1, <2>2, Zenon DEF TypeOK, Data, Clerk
<1>9. ClerkInv(c)'
  <2>1. NoReply.err # "OK"
    BY SMT DEF NoReply
  <2> QED
    BY <1>0, <1>2, <1>3, <1>4, <1>5, <2>1, Zenon DEF ClerkInv
<1>10. \A d \in Client \ {c} : ClerkInv(d)'
  <2>1. \A k \in Key : keyValue'[k].version >= keyValue[k].version
    BY <1>1, <1>3, SMT DEF Data
  <2> SUFFICES ASSUME NEW d \in Client \ {c} PROVE ClerkInv(d)'
    OBVIOUS
  <2>2. \A l \in late' : l.from = d /\ l.current => l \in late
    BY <1>6, <1>7, Zenon
  <2>3. clerk'[d] = clerk[d] /\ clerk[d] \in Clerk /\ keyValue' \in [Key -> Data]
    BY <1>1, <1>3, <1>5
  <2> QED
    BY <1>0, <1>1, <2>1, <2>2, <2>3, ClerkFrame, Zenon
<1>11. LateInv'
  <2>1. \A d \in Client : clerk'[d].args = clerk[d].args
    BY <1>4, <1>5
  <2>2. \A l \in late : l.from \in Client
    BY <1>1, SMT
  <2> QED
    <3> SUFFICES ASSUME NEW l \in late'
                 PROVE  l.args.op = "Put" /\ (l.current => l.args = clerk'[l.from].args /\ l.args # Nil)
      BY Zenon DEF LateInv
    <3>1. CASE l \in late
      BY <1>0, <2>1, <2>2, <3>1, Zenon DEF LateInv
    <3>2. CASE l = copy /\ r.op = "Put"
      BY <1>2, <1>6, <2>1, <3>2, SMT
    <3> QED
      BY <1>7, <3>1, <3>2
<1> QED
  BY <1>8, <1>9, <1>10, <1>11, Zenon DEF KVInv, ClerkInv, LateInv

(* A copy that takes effect is the only one to: the key has then passed    *)
(* its version.                                                            *)
LEMMA ServeLateInv ==
    ASSUME KVInv, NEW l \in late, ServeLate(l)
    PROVE  KVInv'
<1> DEFINE c == l.from
           r == l.args
           done == clerk[c].done \/ (l.current /\ TakesEffect(r))
           new == [clerk[c] EXCEPT !.done = done]
<1>0. TypeOK /\ (\A d \in Client : ClerkInv(d)) /\ LateInv
  BY KVInvParts
<1>1. /\ keyValue \in [Key -> Data]
      /\ clerk \in [Client -> Clerk]
      /\ late \subseteq [from : Client, args : Request, current : BOOLEAN]
  BY <1>0, TypeParts
<1>2. /\ c \in Client /\ r \in Request /\ l.current \in BOOLEAN
      /\ clerk[c] \in Clerk /\ clerk[c].done \in BOOLEAN
  BY <1>1, SMT DEF Clerk
<1>3. r.op = "Put" /\ (l.current => r = clerk[c].args /\ r # Nil)
  BY <1>0, Zenon DEF LateInv
<1>4. r \in PutRequest /\ r.key \in Key /\ r.version \in Nat
  BY <1>2, <1>3, PutIsPut, SMT DEF PutRequest
<1>5. Put(r) /\ late' = late \ {l} /\ clerk' = [clerk EXCEPT ![c] = new]
  BY Zenon DEF ServeLate
<1>6. /\ keyValue' \in [Key -> Data]
      /\ \A k \in Key : keyValue'[k].version >= keyValue[k].version
      /\ TakesEffect(r) => keyValue'[r.key].version = r.version + 1
  BY <1>1, <1>4, <1>5, PutEffect, Zenon
<1>7. done \in BOOLEAN
  BY <1>2, SMT DEF TakesEffect
<1>8. done => clerk[c].done \/ (l.current /\ TakesEffect(r))
  OBVIOUS
<1>9. ~l.current => done = clerk[c].done
  BY <1>2, Zenon
<1>10. clerk[c].done => done
  OBVIOUS
<1> HIDE DEF done
<1>11. /\ new \in Clerk /\ new.done = done /\ new.args = clerk[c].args
       /\ new.reply = clerk[c].reply /\ new.isFirstTry = clerk[c].isFirstTry
  BY <1>2, <1>7, SMT DEF Clerk
<1> HIDE DEF new
<1>12. /\ clerk' \in [Client -> Clerk]
       /\ clerk'[c] = new /\ \A d \in Client \ {c} : clerk'[d] = clerk[d]
  BY <1>1, <1>2, <1>5, <1>11
<1>13. TypeOK'
  <2>1. late' \subseteq [from : Client, args : Request, current : BOOLEAN]
    BY <1>1, <1>5, Zenon
  <2> QED
    BY <1>6, <1>12, <2>1, Zenon DEF TypeOK, Data, Clerk
<1>14. ClerkInv(c)'
  <2>1. done => /\ clerk[c].args # Nil /\ clerk[c].args.op = "Put"
                /\ keyValue'[clerk[c].args.key].version > clerk[c].args.version
    <3>1. CASE clerk[c].done
      <4>1. ClerkInv(c)
        BY <1>0, <1>2
      <4>2. /\ clerk[c].args # Nil /\ clerk[c].args.op = "Put"
            /\ keyValue[clerk[c].args.key].version > clerk[c].args.version
        BY <4>1, <3>1, Zenon DEF ClerkInv
      <4>3. clerk[c].args \in PutRequest
        BY <1>2, <4>2, PutIsPut, SMT DEF Clerk
      <4>4. clerk[c].args.key \in Key /\ clerk[c].args.version \in Nat
        BY <4>3, SMT DEF PutRequest
      <4> QED
        BY <1>1, <1>6, <4>2, <4>4, SMT DEF Data
    <3>2. CASE l.current /\ TakesEffect(r)
      <4>1. keyValue'[r.key].version > r.version
        BY <1>4, <1>6, <3>2, SMT
      <4> QED
        BY <1>3, <3>2, <4>1, Zenon
    <3> QED
      BY <1>8, <3>1, <3>2
  <2>2. clerk[c].isFirstTry => ~l.current
    BY <1>0, <1>2, Zenon DEF ClerkInv
  <2>3. clerk[c].args = Nil => clerk[c].reply = NoReply /\ ~done
    BY <1>0, <1>2, <2>1, Zenon DEF ClerkInv
  <2>4. clerk[c].isFirstTry => (clerk[c].reply.err # "OK" => ~done)
    BY <1>0, <1>2, <1>9, <2>2, Zenon DEF ClerkInv
  <2>5. clerk[c].args # Nil /\ clerk[c].args.op = "Put" /\ clerk[c].reply.err = "OK" => done
    BY <1>0, <1>2, <1>10, Zenon DEF ClerkInv
  <2>6. clerk[c].isFirstTry => \A m \in late' : m.from = c => ~m.current
    BY <1>0, <1>2, <1>5, Zenon DEF ClerkInv
  <2> QED
    BY <1>11, <1>12, <2>1, <2>3, <2>4, <2>5, <2>6, Zenon DEF ClerkInv
<1>15. \A d \in Client \ {c} : ClerkInv(d)'
  <2> SUFFICES ASSUME NEW d \in Client \ {c} PROVE ClerkInv(d)'
    OBVIOUS
  <2>1. clerk'[d] = clerk[d] /\ clerk[d] \in Clerk
    BY <1>1, <1>12
  <2>2. \A m \in late' : m \in late
    BY <1>5
  <2> QED
    BY <1>0, <1>1, <1>6, <2>1, <2>2, ClerkFrame, Zenon
<1>16. LateInv'
  <2>1. \A d \in Client : clerk'[d].args = clerk[d].args
    BY <1>11, <1>12
  <2>2. \A m \in late : m.from \in Client
    BY <1>1, SMT
  <2> QED
    BY <1>0, <1>5, <2>1, <2>2, Zenon DEF LateInv
<1> QED
  BY <1>13, <1>14, <1>15, <1>16, Zenon DEF KVInv, ClerkInv, LateInv

Settle(l) == [l EXCEPT !.current = FALSE]

(* The copies of a call that has returned stay, as nobody's.               *)
LEMMA Settled ==
    ASSUME NEW l \in [from : Client, args : Request, current : BOOLEAN],
           NEW m, m = Settle(l)
    PROVE  /\ m \in [from : Client, args : Request, current : BOOLEAN]
           /\ m.from = l.from /\ m.args = l.args /\ ~m.current
<1>1. PICK b \in BOOLEAN : b = FALSE
  OBVIOUS
<1>2. m = [l EXCEPT !.current = b]
  BY <1>1, Zenon DEF Settle
<1>3. /\ m \in [from : Client, args : Request, current : BOOLEAN]
      /\ m.from = l.from /\ m.args = l.args /\ m.current = b
  BY <1>2, SMT
<1> QED
  BY <1>1, <1>3, Zenon

LEMMA ReturnLate ==
    ASSUME late \subseteq [from : Client, args : Request, current : BOOLEAN],
           NEW c \in Client, Return(c), NEW m \in late'
    PROVE  /\ m \in [from : Client, args : Request, current : BOOLEAN]
           /\ \E l \in late : /\ m.from = l.from /\ m.args = l.args
                              /\ (l.current /\ ~m.current => l.from = c)
           /\ m.current => m \in late /\ m.from # c
<1>1. late' = {IF l.from = c THEN Settle(l) ELSE l : l \in late}
  BY Zenon DEF Return, Settle
<1>2. PICK l \in late : m = IF l.from = c THEN Settle(l) ELSE l
  BY <1>1, Zenon
<1>3. CASE l.from = c
  <2>1. m = Settle(l)
    BY <1>2, <1>3
  <2>2. /\ m \in [from : Client, args : Request, current : BOOLEAN]
        /\ m.from = l.from /\ m.args = l.args /\ ~m.current
    BY <2>1, Settled
  <2> QED
    BY <1>3, <2>2
<1>4. CASE l.from # c
  BY <1>2, <1>4
<1> QED
  BY <1>3, <1>4

LEMMA ResultType ==
    ASSUME NEW c \in Client, clerk[c] \in Clerk
    PROVE  Result(c) \in Reply \cup {[err |-> "ErrMaybe"]}
<1>1. clerk[c].reply \in Reply
  BY SMT DEF Clerk
<1> QED
  BY <1>1, Zenon DEF Result, PutResult

LEMMA ReturnInv ==
    ASSUME KVInv, NEW c \in Client, Return(c)
    PROVE  KVInv'
<1> DEFINE res == Result(c)
           new == Idle(res)
<1>0. TypeOK /\ (\A d \in Client : ClerkInv(d)) /\ LateInv
  BY KVInvParts
<1>1. /\ keyValue \in [Key -> Data]
      /\ clerk \in [Client -> Clerk]
      /\ late \subseteq [from : Client, args : Request, current : BOOLEAN]
  BY <1>0, TypeParts
<1>2. clerk' = [clerk EXCEPT ![c] = new] /\ keyValue' = keyValue
  BY Zenon DEF Return
<1>3. /\ new \in Clerk /\ new.args = Nil /\ new.reply = NoReply /\ ~new.done
  <2>1. res \in Reply \cup {[err |-> "ErrMaybe"]} /\ NoReply \in Reply
    BY <1>1, ResultType, Zenon DEF Reply
  <2> HIDE DEF res
  <2> QED
    BY <2>1, SMT DEF Idle, Clerk
<1> HIDE DEF new
<1>4. /\ clerk' \in [Client -> Clerk]
      /\ clerk'[c] = new /\ \A d \in Client \ {c} : clerk'[d] = clerk[d]
  BY <1>1, <1>2, <1>3
<1>5. \A m \in late' :
        /\ m \in [from : Client, args : Request, current : BOOLEAN]
        /\ \E l \in late : m.from = l.from /\ m.args = l.args
        /\ m.current => m \in late /\ m.from # c
  BY <1>1, ReturnLate
<1>6. TypeOK'
  <2>1. late' \subseteq [from : Client, args : Request, current : BOOLEAN]
    BY <1>5, Zenon
  <2>2. keyValue' \in [Key -> Data]
    BY <1>1, <1>2
  <2> QED
    BY <1>4, <2>1, <2>2, Zenon DEF TypeOK, Data, Clerk
<1>7. ClerkInv(c)'
  <2>1. NoReply.err # "OK"
    BY SMT DEF NoReply
  <2> QED
    BY <1>3, <1>4, <1>5, <2>1, Zenon DEF ClerkInv
<1>8. \A d \in Client \ {c} : ClerkInv(d)'
  <2>1. \A k \in Key : keyValue'[k].version >= keyValue[k].version
    BY <1>1, <1>2, SMT DEF Data
  <2> SUFFICES ASSUME NEW d \in Client \ {c} PROVE ClerkInv(d)'
    OBVIOUS
  <2>2. \A m \in late' : m.from = d /\ m.current => m \in late
    BY <1>5
  <2>3. clerk'[d] = clerk[d] /\ clerk[d] \in Clerk /\ keyValue' \in [Key -> Data]
    BY <1>1, <1>2, <1>4
  <2> QED
    BY <1>0, <1>1, <2>1, <2>2, <2>3, ClerkFrame, Zenon
<1>9. LateInv'
  <2> SUFFICES ASSUME NEW m \in late'
               PROVE  m.args.op = "Put" /\ (m.current => m.args = clerk'[m.from].args /\ m.args # Nil)
    BY Zenon DEF LateInv
  <2>1. m.args.op = "Put"
    BY <1>0, <1>5, Zenon DEF LateInv
  <2>2. ASSUME m.current PROVE m.args = clerk'[m.from].args /\ m.args # Nil
    <3>1. m \in late /\ m.from # c /\ m.from \in Client
      BY <1>1, <1>5, <2>2, SMT
    <3>2. clerk'[m.from] = clerk[m.from]
      BY <1>4, <3>1
    <3> QED
      BY <1>0, <2>2, <3>1, <3>2, Zenon DEF LateInv
  <2> QED
    BY <2>1, <2>2
<1> QED
  BY <1>6, <1>7, <1>8, <1>9, Zenon DEF KVInv, ClerkInv, LateInv

LEMMA KVInitInv == KVInit => KVInv
<1> SUFFICES ASSUME KVInit PROVE KVInv
  OBVIOUS
<1>1. NoData \in Data
  BY SMT DEF NoData, Data
<1>2. /\ Idle(NoReply) \in Clerk /\ Idle(NoReply).args = Nil
      /\ Idle(NoReply).reply = NoReply /\ ~Idle(NoReply).done
  <2>1. NoReply \in Reply
    BY Zenon DEF Reply
  <2> QED
    BY <2>1, SMT DEF Idle, Clerk
<1>3. keyValue \in [Key -> Data]
  BY <1>1, Zenon DEF KVInit, MakeKVServer
<1>4. clerk \in [Client -> Clerk] /\ \A c \in Client : clerk[c] = Idle(NoReply)
  BY <1>2, Zenon DEF KVInit, MakeClerk
<1>5. late = {}
  BY DEF KVInit
<1>6. NoReply.err # "OK"
  BY SMT DEF NoReply
<1>7. \A c \in Client : ClerkInv(c)
  BY <1>2, <1>4, <1>5, <1>6, Zenon DEF ClerkInv
<1> QED
  BY <1>3, <1>4, <1>5, <1>7, KVInvParts, TypeParts, Zenon DEF LateInv

LEMMA KVStutterInv == ASSUME KVInv, UNCHANGED kvVars PROVE KVInv'
<1>1. keyValue' = keyValue /\ clerk' = clerk /\ late' = late
  BY DEF kvVars
<1> QED
  BY <1>1, Zenon DEF KVInv, TypeOK

LEMMA KVStepInv == ASSUME KVInv, [KVNext]_kvVars PROVE KVInv'
<1>1. CASE \E c \in Client : Serve(c) \/ Retry(c) \/ Return(c)
  BY <1>1, ServeInv, RetryInv, ReturnInv, Zenon
<1>2. CASE \E c \in Client, k \in Key : CallGet(c, k)
  <2>1. PICK c \in Client, k \in Key : CallGet(c, k)
    BY <1>2
  <2>2. [op |-> "Get", key |-> k] \in Request
    BY SMT DEF Request
  <2> QED
    BY <2>1, <2>2, SendInv, Zenon DEF CallGet
<1>3. CASE \E c \in Client, k \in Key, v \in Value, n \in 0 .. MaxVersion : CallPut(c, k, v, n)
  <2>1. PICK c \in Client, k \in Key, v \in Value, n \in 0 .. MaxVersion : CallPut(c, k, v, n)
    BY <1>3
  <2>2. [op |-> "Put", key |-> k, value |-> v, version |-> n] \in Request
    BY SMT DEF Request
  <2> QED
    BY <2>1, <2>2, SendInv, Zenon DEF CallPut
<1>4. CASE \E l \in late : ServeLate(l)
  BY <1>4, ServeLateInv, Zenon
<1>5. CASE UNCHANGED kvVars
  BY <1>5, KVStutterInv
<1> QED
  BY <1>1, <1>2, <1>3, <1>4, <1>5, Zenon DEF KVNext

(* KVInv holds in every state of KVSpec.                                   *)
THEOREM KVInvariant == KVSpec => []KVInv
<1>1. KVInv /\ [KVNext]_kvVars => KVInv'
  BY KVStepInv
<1> QED
  BY <1>1, KVInitInv, PTL DEF KVSpec
-----------------------------------------------------------------------------
(* The refinement.                                                         *)

(* One clerk changes: so do its pending call and its last result.          *)
LEMMA OneClerk ==
    ASSUME clerk \in [Client -> Clerk], NEW c \in Client, NEW w,
           clerk' = [clerk EXCEPT ![c] = w]
    PROVE  /\ Pending' = [Pending EXCEPT ![c] =
                            [call |-> w.args, done |-> w.done, answer |-> w.reply]]
           /\ Last' = [Last EXCEPT ![c] = w.result]
           /\ w.result = clerk[c].result => Last' = Last
<1>1. clerk'[c] = w /\ \A d \in Client \ {c} : clerk'[d] = clerk[d]
  OBVIOUS
<1> QED
  BY <1>1, Zenon DEF Pending, Last

LEMMA PendingOf ==
    ASSUME NEW c \in Client
    PROVE  /\ Pending[c] = [call |-> clerk[c].args, done |-> clerk[c].done,
                            answer |-> clerk[c].reply]
           /\ Pending[c].call = clerk[c].args /\ Pending[c].done = clerk[c].done
           /\ Pending[c].answer = clerk[c].reply
  BY Zenon DEF Pending

(* Requests stop dangling as versions grow.                                *)
LEMMA DanglingShrinks ==
    ASSUME KVInv, NEW S, S \subseteq late, keyValue' \in [Key -> Data],
           \A k \in Key : keyValue'[k].version >= keyValue[k].version,
           \A m \in late' : m.current \/ m \in S
    PROVE  /\ Dangling' \subseteq Dangling
           /\ \A q \in Dangling' : \E m \in late' : m.args = q /\ ~m.current
           /\ \A q \in Dangling' : q.version >= keyValue'[q.key].version
<1>1. late \subseteq [from : Client, args : Request, current : BOOLEAN] /\ LateInv
      /\ keyValue \in [Key -> Data]
  BY KVInvParts, TypeParts
<1> SUFFICES ASSUME NEW q \in Dangling'
             PROVE  /\ q \in Dangling /\ \E m \in late' : m.args = q /\ ~m.current
                    /\ q.version >= keyValue'[q.key].version
  OBVIOUS
<1>2. PICK m \in late' : /\ m.args = q /\ ~m.current
                         /\ m.args.version >= keyValue'[m.args.key].version
  BY Zenon DEF Dangling
<1>3. m \in late
  BY <1>2
<1>4. m.args \in PutRequest
  BY <1>1, <1>3, PutIsPut, SMT DEF LateInv
<1>5. m.args.key \in Key /\ m.args.version \in Nat
  BY <1>4, SMT DEF PutRequest
<1>6. m.args.version >= keyValue[m.args.key].version
  BY <1>1, <1>2, <1>5, SMT DEF Data
<1> QED
  BY <1>2, <1>3, <1>6, Zenon DEF Dangling

LEMMA InitRefines == KVInit => Model!Init
<1> SUFFICES ASSUME KVInit PROVE Model!Init
  OBVIOUS
<1>1. keyValue = [k \in Key |-> Model!Missing]
  BY Zenon DEF KVInit, MakeKVServer, NoData, Model!Missing
<1>2. \A c \in Client : clerk[c] = Idle(NoReply)
  BY Zenon DEF KVInit, MakeClerk
<1>3. /\ Idle(NoReply).args = Nil /\ Idle(NoReply).done = FALSE
      /\ Idle(NoReply).reply = NoReply /\ Idle(NoReply).result = NoReply
  BY SMT DEF Idle
<1>4. Pending = [c \in Client |-> Model!NoCall]
  BY <1>2, <1>3, Zenon DEF Pending, Model!NoCall, Model!Calling, Model!NoAnswer, NoReply
<1>5. Last = [c \in Client |-> Model!NoAnswer]
  BY <1>2, <1>3, Zenon DEF Last, Model!NoAnswer, NoReply
<1>6. Dangling = {}
  BY Zenon DEF KVInit, Dangling
<1> QED
  BY <1>1, <1>4, <1>5, <1>6, Zenon DEF Model!Init

LEMMA SendRefines ==
    ASSUME KVInv, NEW c \in Client, NEW r \in Request, Send(c, r)
    PROVE  Model!Call(c, r)
<1>1. clerk \in [Client -> Clerk] /\ clerk[c] \in Clerk /\ ClerkInv(c)
  BY KVInvParts, TypeParts
<1> DEFINE new == [clerk[c] EXCEPT !.args = r]
<1>2. /\ clerk[c].args = Nil
      /\ clerk' = [clerk EXCEPT ![c] = new]
      /\ keyValue' = keyValue /\ late' = late
  BY Zenon DEF Send
<1>3. /\ new.reply = clerk[c].reply /\ new.done = clerk[c].done /\ new.args = r
      /\ new.result = clerk[c].result
  BY <1>1, SMT DEF Clerk
<1> HIDE DEF new
<1>4. clerk[c].reply = NoReply /\ clerk[c].done = FALSE
  <2>1. clerk[c].done \in BOOLEAN
    BY <1>1, SMT DEF Clerk
  <2> QED
    BY <1>1, <1>2, <2>1, Zenon DEF ClerkInv
<1>5. Pending[c] = Model!NoCall
  BY <1>2, <1>4, PendingOf, Zenon DEF Model!NoCall, Model!Calling, Model!NoAnswer, NoReply
<1>6. Pending' = [Pending EXCEPT ![c] = Model!Calling(r)] /\ Last' = Last
  <2>1. [call |-> new.args, done |-> new.done, answer |-> new.reply] = Model!Calling(r)
    BY <1>3, <1>4, Zenon DEF Model!Calling, Model!NoAnswer, NoReply
  <2>2. /\ Pending' = [Pending EXCEPT ![c] =
                         [call |-> new.args, done |-> new.done, answer |-> new.reply]]
        /\ Last' = Last
    BY <1>1, <1>2, <1>3, OneClerk, Zenon
  <2> QED
    BY <2>1, <2>2, Zenon
<1>7. Dangling' = Dangling
  BY <1>2, Zenon DEF Dangling
<1> QED
  BY <1>2, <1>5, <1>6, <1>7, Zenon DEF Model!Call

(* A Put that takes effect finds the key at its version: none of its       *)
(* copies has taken effect before.                                         *)
LEMMA NotDoneYet ==
    ASSUME KVInv, NEW c \in Client, clerk[c].args # Nil, TakesEffect(clerk[c].args)
    PROVE  clerk[c].done = FALSE
<1> DEFINE r == clerk[c].args
<1>1. clerk[c] \in Clerk /\ ClerkInv(c) /\ keyValue \in [Key -> Data]
  BY KVInvParts, TypeParts
<1>2. r \in PutRequest
  BY <1>1, PutIsPut, SMT DEF Clerk, TakesEffect
<1>3. r.key \in Key /\ r.version \in 0 .. MaxVersion /\ keyValue[r.key] \in Data
  BY <1>1, <1>2, SMT DEF PutRequest
<1>4. keyValue[r.key].version = r.version
  BY <1>3, SamePutErr, SMT DEF TakesEffect
<1>5. ~(keyValue[r.key].version > r.version)
  BY <1>3, <1>4, SMT
<1>6. clerk[c].done \in BOOLEAN
  BY <1>1, SMT DEF Clerk
<1> QED
  BY <1>1, <1>5, <1>6, Zenon DEF ClerkInv

LEMMA ServeRefines ==
    ASSUME KVInv, VersionsKnown, NEW c \in Client, Serve(c)
    PROVE  Model!Look(c) \/ Model!Take(c, Model!PutAnswer("OK"))
<1> DEFINE r == clerk[c].args
<1>1. /\ clerk \in [Client -> Clerk] /\ clerk[c] \in Clerk /\ ClerkInv(c)
      /\ keyValue \in [Key -> Data]
  BY KVInvParts, TypeParts
<1>2. r \in Request /\ r # Nil /\ late' = late
  BY <1>1, SMT DEF Serve, Clerk
<1>3. CASE r.op = "Get"
  <2> DEFINE reply == GetReply(keyValue[r.key])
             new == [clerk[c] EXCEPT !.reply = reply]
  <2>1. clerk' = [clerk EXCEPT ![c] = new] /\ keyValue' = keyValue
    BY <1>3, Zenon DEF Serve
  <2>2. reply = Model!GetAnswer(keyValue[r.key])
    BY Zenon DEF GetReply, Model!GetAnswer
  <2> HIDE DEF reply
  <2>3. /\ new.reply = reply /\ new.done = clerk[c].done /\ new.args = r
        /\ new.result = clerk[c].result
    BY <1>1, SMT DEF Clerk
  <2> HIDE DEF new
  <2>4. Model!Progress(c, Pending[c].done, reply) /\ Last' = Last
    <3>1. /\ Pending' = [Pending EXCEPT ![c] =
                         [call |-> new.args, done |-> new.done, answer |-> new.reply]]
          /\ Last' = Last
      BY <1>1, <2>1, <2>3, OneClerk, Zenon
    <3>2. [call |-> new.args, done |-> new.done, answer |-> new.reply] =
          [call |-> Pending[c].call, done |-> Pending[c].done, answer |-> reply]
      BY <2>3, PendingOf, Zenon
    <3> QED
      BY <3>1, <3>2, Zenon DEF Model!Progress
  <2>5. Dangling' = Dangling
    BY <1>2, <2>1, Zenon DEF Dangling
  <2>6. Model!Look(c)
    <3>1. Pending[c].call = r
      BY PendingOf
    <3> QED
      BY <1>2, <1>3, <2>1, <2>2, <2>4, <2>5, <3>1, Zenon DEF Model!Look
  <2> QED
    BY <2>6
<1>4. CASE r.op # "Get"
  <2> DEFINE err == PutErr(keyValue[r.key], r.version)
             reply == [err |-> err]
             done == clerk[c].done \/ TakesEffect(r)
             new == Answered(clerk[c], reply, done)
  <2>1. r.op = "Put"
    BY <1>2, <1>4, SMT DEF Request
  <2>2. r \in PutRequest
    BY <1>2, <2>1, PutIsPut
  <2>3. r.key \in Key /\ r.version \in 0 .. MaxVersion
    BY <2>2, SMT DEF PutRequest
  <2>4. clerk' = [clerk EXCEPT ![c] = new] /\ Put(r)
    BY <1>4, Zenon DEF Serve, Answered
  <2>5. /\ keyValue' \in [Key -> Data]
        /\ \A k \in Key : keyValue'[k].version >= keyValue[k].version
        /\ TakesEffect(r) => keyValue' = [keyValue EXCEPT ![r.key] = Model!Stored(r)]
        /\ ~TakesEffect(r) => keyValue' = keyValue
    BY <1>1, <2>2, <2>4, PutEffect, Zenon
  <2>6. err = Model!PutErr(keyValue[r.key], r.version) /\ err \in Err
    <3>1. r.version = 0 \/ keyValue[r.key].version # 0
      BY <1>2, <2>1, Zenon DEF VersionsKnown
    <3> QED
      BY <1>1, <2>3, <3>1, SamePutErr
  <2>7. TakesEffect(r) <=> err = "OK"
    BY <2>1, Zenon DEF TakesEffect
  <2>8. reply \in Reply
    BY <2>6, SMT DEF Reply
  <2>9. done \in BOOLEAN
    BY <1>1, SMT DEF Clerk, TakesEffect
  <2>10. reply = Model!PutAnswer(err)
    BY Zenon DEF Model!PutAnswer
  <2>11. TakesEffect(r) => done = TRUE /\ clerk[c].done = FALSE
    BY <1>2, NotDoneYet, Zenon
  <2>12. ~TakesEffect(r) => done = clerk[c].done
    BY <1>1, Zenon DEF Clerk
  <2> HIDE DEF reply, done, err
  <2>13. /\ new.reply = reply /\ new.done = done /\ new.args = r
         /\ new.result = clerk[c].result
    BY <1>1, <2>8, <2>9, ClerkAnswered
  <2> HIDE DEF new
  <2>14. Model!Progress(c, done, reply) /\ Last' = Last
    <3>1. /\ Pending' = [Pending EXCEPT ![c] =
                         [call |-> new.args, done |-> new.done, answer |-> new.reply]]
          /\ Last' = Last
      BY <1>1, <2>4, <2>13, OneClerk, Zenon
    <3>2. [call |-> new.args, done |-> new.done, answer |-> new.reply] =
          [call |-> Pending[c].call, done |-> done, answer |-> reply]
      BY <2>13, PendingOf, Zenon
    <3> QED
      BY <3>1, <3>2, Zenon DEF Model!Progress
  <2>15. Dangling' \subseteq Dangling
    BY <1>2, <2>5, DanglingShrinks, Zenon
  <2>16. Pending[c].call = r /\ Pending[c].done = clerk[c].done
    BY PendingOf
  <2>17. CASE TakesEffect(r)
    <3>1. Model!Take(c, Model!PutAnswer("OK"))
      BY <1>2, <2>1, <2>5, <2>6, <2>7, <2>10, <2>11, <2>14, <2>15, <2>16, <2>17, Zenon
         DEF Model!Take
    <3> QED
      BY <3>1
  <2>18. CASE ~TakesEffect(r)
    <3>1. Model!Look(c)
      BY <1>2, <2>1, <2>5, <2>6, <2>7, <2>10, <2>12, <2>14, <2>15, <2>16, <2>18, Zenon
         DEF Model!Look
    <3> QED
      BY <3>1
  <2> QED
    BY <2>17, <2>18
<1> QED
  BY <1>3, <1>4

LEMMA RetryRefines ==
    ASSUME KVInv, NEW c \in Client, Retry(c)
    PROVE  Model!Forget(c)
<1> DEFINE copy == [from |-> c, args |-> clerk[c].args, current |-> TRUE]
           new == Repeated(clerk[c])
<1>1. clerk \in [Client -> Clerk] /\ clerk[c] \in Clerk
  BY KVInvParts, TypeParts
<1>2. /\ clerk' = [clerk EXCEPT ![c] = new] /\ keyValue' = keyValue
      /\ late' = late \/ late' = late \cup {copy}
  BY Zenon DEF Retry, Repeated
<1>3. /\ new.reply = NoReply /\ new.args = clerk[c].args /\ new.done = clerk[c].done
      /\ new.result = clerk[c].result
  BY <1>1, ClerkRepeated
<1> HIDE DEF new
<1>4. Model!Progress(c, Pending[c].done, Model!NoAnswer) /\ Last' = Last
  <2>1. /\ Pending' = [Pending EXCEPT ![c] =
                         [call |-> new.args, done |-> new.done, answer |-> new.reply]]
        /\ Last' = Last
    BY <1>1, <1>2, <1>3, OneClerk, Zenon
  <2>2. [call |-> new.args, done |-> new.done, answer |-> new.reply] =
        [call |-> Pending[c].call, done |-> Pending[c].done, answer |-> Model!NoAnswer]
    BY <1>3, PendingOf, Zenon DEF Model!NoAnswer, NoReply
  <2> QED
    BY <2>1, <2>2, Zenon DEF Model!Progress
<1>5. Dangling' = Dangling
  <2>1. copy.current
    OBVIOUS
  <2> HIDE DEF copy
  <2>2. \A m : m \in late' /\ ~m.current <=> m \in late /\ ~m.current
    BY <1>2, <2>1, Zenon
  <2>3. {m \in late' : ~m.current /\ m.args.version >= keyValue'[m.args.key].version} =
        {m \in late : ~m.current /\ m.args.version >= keyValue[m.args.key].version}
    BY <1>2, <2>2, Zenon
  <2> QED
    BY <2>3, Zenon DEF Dangling
<1> QED
  BY <1>2, <1>4, <1>5, Zenon DEF Model!Forget

LEMMA ServeLateRefines ==
    ASSUME KVInv, NEW l \in late, ServeLate(l)
    PROVE  \/ l.from \in Client /\ Model!Take(l.from, Pending[l.from].answer)
           \/ l.args \in Dangling /\ Model!TakeLate(l.args)
           \/ Model!Drop
<1> DEFINE c == l.from
           r == l.args
           done == clerk[c].done \/ (l.current /\ TakesEffect(r))
           new == [clerk[c] EXCEPT !.done = done]
<1>1. /\ keyValue \in [Key -> Data] /\ clerk \in [Client -> Clerk] /\ LateInv
      /\ late \subseteq [from : Client, args : Request, current : BOOLEAN]
  BY KVInvParts, TypeParts
<1>2. /\ c \in Client /\ r \in Request /\ l.current \in BOOLEAN
      /\ clerk[c] \in Clerk /\ clerk[c].done \in BOOLEAN
  BY <1>1, SMT DEF Clerk
<1>3. r.op = "Put" /\ (l.current => r = clerk[c].args /\ r # Nil)
  BY <1>1, Zenon DEF LateInv
<1>4. r \in PutRequest
  BY <1>2, <1>3, PutIsPut
<1>5. r.key \in Key /\ r.version \in 0 .. MaxVersion
  BY <1>4, SMT DEF PutRequest
<1>6. Put(r) /\ late' = late \ {l} /\ clerk' = [clerk EXCEPT ![c] = new]
  BY Zenon DEF ServeLate
<1>7. /\ keyValue' \in [Key -> Data]
      /\ \A k \in Key : keyValue'[k].version >= keyValue[k].version
      /\ TakesEffect(r) => /\ keyValue[r.key].version = r.version
                           /\ keyValue'[r.key].version = r.version + 1
                           /\ keyValue' = [keyValue EXCEPT ![r.key] = Model!Stored(r)]
      /\ ~TakesEffect(r) => keyValue' = keyValue
  BY <1>1, <1>4, <1>6, PutEffect, Zenon
<1>9. TakesEffect(r) => Model!PutErr(keyValue[r.key], r.version) = "OK"
  BY <1>1, <1>5, SamePutErr, Zenon DEF TakesEffect
<1>10. done \in BOOLEAN
  BY <1>2, SMT DEF TakesEffect
<1>11. ~(l.current /\ TakesEffect(r)) => done = clerk[c].done
  BY <1>2, Zenon
<1>12. l.current /\ TakesEffect(r) => done = TRUE
  BY Zenon
<1> HIDE DEF done
<1>13. /\ new.done = done /\ new.args = clerk[c].args /\ new.reply = clerk[c].reply
       /\ new.result = clerk[c].result
  BY <1>2, <1>10, SMT DEF Clerk
<1> HIDE DEF new
<1>14. /\ Pending' = [Pending EXCEPT ![c] =
                        [call |-> new.args, done |-> new.done, answer |-> new.reply]]
       /\ Last' = Last
  BY <1>1, <1>2, <1>6, <1>13, OneClerk, Zenon
<1>15. /\ Dangling' \subseteq Dangling
       /\ \A q \in Dangling' : q.version >= keyValue'[q.key].version
  BY <1>6, <1>7, DanglingShrinks, Zenon
<1>16. /\ Pending[c] = [call |-> clerk[c].args, done |-> clerk[c].done, answer |-> clerk[c].reply]
       /\ Pending[c].call = clerk[c].args /\ Pending[c].done = clerk[c].done
       /\ Pending[c].answer = clerk[c].reply
  BY <1>2, PendingOf
<1>17. ~(l.current /\ TakesEffect(r)) => Pending' = Pending
  <2> SUFFICES ASSUME ~(l.current /\ TakesEffect(r)) PROVE Pending' = Pending
    OBVIOUS
  <2>1. [call |-> new.args, done |-> new.done, answer |-> new.reply] = Pending[c]
    BY <1>11, <1>13, <1>16, Zenon
  <2>2. Pending' = [Pending EXCEPT ![c] = Pending[c]]
    BY <1>14, <2>1, Zenon
  <2> QED
    BY <1>2, <2>2, Zenon DEF Pending
<1>18. CASE TakesEffect(r) /\ l.current
  <2>1. clerk[c].done = FALSE
    BY <1>2, <1>3, <1>18, NotDoneYet, Zenon
  <2>2. Model!Progress(c, TRUE, Pending[c].answer)
    <3>1. [call |-> new.args, done |-> new.done, answer |-> new.reply] =
          [call |-> Pending[c].call, done |-> TRUE, answer |-> Pending[c].answer]
      BY <1>12, <1>13, <1>16, <1>18, Zenon
    <3> QED
      BY <1>14, <3>1, Zenon DEF Model!Progress
  <2>3. Pending[c].call = r /\ Pending[c].done = FALSE /\ r # Nil
    BY <1>3, <1>16, <1>18, <2>1
  <2>4. Model!Take(c, Pending[c].answer)
    BY <1>3, <1>7, <1>9, <1>14, <1>15, <1>18, <2>2, <2>3, Zenon DEF Model!Take
  <2> QED
    BY <1>2, <2>4
<1>19. CASE TakesEffect(r) /\ ~l.current
  <2>1. r.version >= keyValue[r.key].version
    BY <1>5, <1>7, <1>19, SMT
  <2>2. r \in Dangling
    BY <1>19, <2>1, Zenon DEF Dangling
  <2>3. r \notin Dangling'
    <3>1. ~(r.version >= keyValue'[r.key].version)
      BY <1>5, <1>7, <1>19, SMT
    <3> QED
      BY <1>15, <3>1, Zenon
  <2>4. Model!TakeLate(r)
    BY <1>7, <1>9, <1>14, <1>15, <1>17, <1>19, <2>3, Zenon DEF Model!TakeLate
  <2> QED
    BY <2>2, <2>4
<1>20. CASE ~TakesEffect(r)
  <2>1. Model!Drop
    BY <1>7, <1>14, <1>15, <1>17, <1>20, Zenon DEF Model!Drop
  <2> QED
    BY <2>1
<1> QED
  BY <1>18, <1>19, <1>20

(* With VersionsKnown no Put is answered ErrNoKey.                         *)
NoKeyForGetsOnly ==
    \A c \in Client :
        clerk[c].args # Nil /\ clerk[c].args.op = "Put" => clerk[c].reply.err # "ErrNoKey"

LEMMA NoKeyStep ==
    ASSUME KVInv, VersionsKnown, NoKeyForGetsOnly, [KVNext]_kvVars
    PROVE  NoKeyForGetsOnly'
<1> USE DEF NoKeyForGetsOnly
<1>1. /\ clerk \in [Client -> Clerk] /\ keyValue \in [Key -> Data]
      /\ \A c \in Client : clerk[c] \in Clerk /\ ClerkInv(c)
  BY KVInvParts, TypeParts
<1>2. NoReply.err # "ErrNoKey"
  BY DEF NoReply
<1>3. ASSUME NEW c \in Client, NEW r \in Request, Send(c, r) PROVE NoKeyForGetsOnly'
  <2> DEFINE new == [clerk[c] EXCEPT !.args = r]
  <2>1. clerk[c].args = Nil /\ clerk' = [clerk EXCEPT ![c] = new]
    BY <1>3, Zenon DEF Send
  <2>2. new.reply = clerk[c].reply
    BY <1>1, SMT DEF Clerk
  <2> HIDE DEF new
  <2>3. clerk[c].reply = NoReply
    BY <1>1, <2>1, Zenon DEF ClerkInv
  <2> QED
    BY <1>1, <1>2, <2>1, <2>2, <2>3, Zenon
<1>4. ASSUME NEW c \in Client, Serve(c) PROVE NoKeyForGetsOnly'
  <2> DEFINE r == clerk[c].args
  <2>1. CASE r.op = "Get"
    <3> DEFINE new == [clerk[c] EXCEPT !.reply = GetReply(keyValue[r.key])]
    <3>1. clerk' = [clerk EXCEPT ![c] = new]
      BY <1>4, <2>1, Zenon DEF Serve
    <3>2. new.args = r
      BY <1>1, SMT DEF Clerk
    <3> HIDE DEF new
    <3> QED
      BY <1>1, <2>1, <3>1, <3>2, Zenon
  <2>2. CASE r.op # "Get"
    <3> DEFINE reply == [err |-> PutErr(keyValue[r.key], r.version)]
               done == clerk[c].done \/ TakesEffect(r)
               new == Answered(clerk[c], reply, done)
    <3>1. r \in Request /\ r # Nil
      BY <1>1, <1>4, SMT DEF Serve, Clerk
    <3>2. r.op = "Put"
      BY <2>2, <3>1, SMT DEF Request
    <3>3. r.key \in Key /\ r.version \in 0 .. MaxVersion
      BY <3>1, <3>2, PutIsPut, SMT DEF PutRequest
    <3>4. r.version = 0 \/ keyValue[r.key].version # 0
      BY <3>1, <3>2, Zenon DEF VersionsKnown
    <3>5. reply.err # "ErrNoKey" /\ reply \in Reply
      <4>1. PutErr(keyValue[r.key], r.version) \in Err \ {"ErrNoKey"}
        BY <1>1, <3>3, <3>4, SamePutErr
      <4> QED
        BY <4>1, SMT DEF Reply
    <3>6. done \in BOOLEAN
      BY <1>1, SMT DEF Clerk, TakesEffect
    <3>7. clerk' = [clerk EXCEPT ![c] = new]
      BY <1>4, <2>2, Zenon DEF Serve, Answered
    <3> HIDE DEF reply, done
    <3>8. new.reply = reply
      BY <1>1, <3>5, <3>6, ClerkAnswered
    <3> HIDE DEF new
    <3> QED
      BY <1>1, <3>5, <3>7, <3>8, Zenon
  <2> QED
    BY <2>1, <2>2
<1>5. ASSUME NEW c \in Client, Retry(c) PROVE NoKeyForGetsOnly'
  <2> DEFINE new == Repeated(clerk[c])
  <2>1. clerk' = [clerk EXCEPT ![c] = new]
    BY <1>5, Zenon DEF Retry, Repeated
  <2>2. new.reply = NoReply
    BY <1>1, ClerkRepeated
  <2> HIDE DEF new
  <2> QED
    BY <1>1, <1>2, <2>1, <2>2, Zenon
<1>6. ASSUME NEW c \in Client, Return(c) PROVE NoKeyForGetsOnly'
  <2> DEFINE new == Idle(Result(c))
  <2>1. clerk' = [clerk EXCEPT ![c] = new]
    BY <1>6, Zenon DEF Return
  <2>2. new.args = Nil
    BY SMT DEF Idle
  <2> HIDE DEF new
  <2> QED
    BY <1>1, <2>1, <2>2, Zenon
<1>7. ASSUME NEW l \in late, ServeLate(l) PROVE NoKeyForGetsOnly'
  <2> DEFINE c == l.from
             new == [clerk[c] EXCEPT !.done = clerk[c].done \/ (l.current /\ TakesEffect(l.args))]
  <2>1. c \in Client
    BY KVInvParts, TypeParts, SMT
  <2>2. clerk' = [clerk EXCEPT ![c] = new]
    BY <1>7, Zenon DEF ServeLate
  <2>3. new.args = clerk[c].args /\ new.reply = clerk[c].reply
    BY <1>1, <2>1, SMT DEF Clerk
  <2> HIDE DEF new
  <2> QED
    BY <1>1, <2>1, <2>2, <2>3, Zenon
<1>8. CASE UNCHANGED kvVars
  BY <1>8, Zenon DEF kvVars
<1>9. ASSUME NEW c \in Client, NEW k \in Key, CallGet(c, k) PROVE NoKeyForGetsOnly'
  <2>1. [op |-> "Get", key |-> k] \in Request
    BY SMT DEF Request
  <2> QED
    BY <1>3, <1>9, <2>1, Zenon DEF CallGet
<1>10. ASSUME NEW c \in Client, NEW k \in Key, NEW v \in Value, NEW n \in 0 .. MaxVersion,
              CallPut(c, k, v, n)
       PROVE  NoKeyForGetsOnly'
  <2>1. [op |-> "Put", key |-> k, value |-> v, version |-> n] \in Request
    BY SMT DEF Request
  <2> QED
    BY <1>3, <1>10, <2>1, Zenon DEF CallPut
<1> HIDE DEF NoKeyForGetsOnly
<1> QED
  BY <1>4, <1>5, <1>6, <1>7, <1>8, <1>9, <1>10, Zenon DEF KVNext

(* What is answered, and what may still dangle, when a clerk returns.      *)
LEMMA ReturnAnswer ==
    ASSUME KVInv, NEW c \in Client, clerk[c].reply # NoReply
    PROVE  /\ clerk[c].args # Nil
           /\ \/ Result(c) = clerk[c].reply
              \/ /\ clerk[c].args.op = "Put" /\ clerk[c].reply.err = "ErrVersion"
                 /\ Result(c) = Model!PutAnswer("ErrMaybe")
           /\ clerk[c].args.op = "Put" /\ Result(c).err = "OK" => clerk[c].done
           /\ clerk[c].args.op = "Put" /\ Result(c).err = "ErrVersion" =>
                ~clerk[c].done /\ clerk[c].isFirstTry
           /\ clerk[c].args.op = "Put" =>
                Result(c).err \in {"OK", "ErrVersion", "ErrMaybe", "ErrNoKey"}
<1>1. ClerkInv(c) /\ clerk[c] \in Clerk
  BY KVInvParts, TypeParts
<1>2. clerk[c].args # Nil
  BY <1>1, Zenon DEF ClerkInv
<1>3. clerk[c].args \in Request /\ clerk[c].reply \in Reply /\ clerk[c].reply.err \in Err
  BY <1>1, <1>2, SMT DEF Clerk, Reply
<1>4. clerk[c].args.op \in {"Get", "Put"}
  BY <1>3, SMT DEF Request
<1>5. [err |-> "ErrMaybe"].err = "ErrMaybe"
  OBVIOUS
<1>6. CASE clerk[c].args.op = "Get"
  BY <1>2, <1>6, Zenon DEF Result
<1>7. CASE clerk[c].args.op = "Put" /\ ~clerk[c].isFirstTry /\ clerk[c].reply.err = "ErrVersion"
  <2>1. Result(c) = [err |-> "ErrMaybe"]
    BY <1>7, Zenon DEF Result, PutResult
  <2> QED
    BY <1>2, <1>5, <1>7, <2>1, Zenon DEF Model!PutAnswer
<1>8. CASE clerk[c].args.op = "Put" /\ (clerk[c].isFirstTry \/ clerk[c].reply.err # "ErrVersion")
  <2>1. Result(c) = clerk[c].reply
    BY <1>8, Zenon DEF Result, PutResult
  <2>2. clerk[c].reply.err = "OK" => clerk[c].done
    BY <1>1, <1>2, <1>8, Zenon DEF ClerkInv
  <2>3. clerk[c].isFirstTry /\ clerk[c].reply.err # "OK" => ~clerk[c].done
    BY <1>1, Zenon DEF ClerkInv
  <2> QED
    BY <1>2, <1>3, <1>8, <2>1, <2>2, <2>3, Zenon DEF Err
<1> QED
  BY <1>4, <1>6, <1>7, <1>8

LEMMA ReturnRefines ==
    ASSUME KVInv, NoKeyForGetsOnly, NEW c \in Client, Return(c)
    PROVE  Model!Return(c)
<1> DEFINE r == clerk[c].args
           res == Result(c)
           new == Idle(res)
<1>1. /\ keyValue \in [Key -> Data] /\ clerk \in [Client -> Clerk] /\ clerk[c] \in Clerk
      /\ ClerkInv(c) /\ LateInv
      /\ late \subseteq [from : Client, args : Request, current : BOOLEAN]
  BY KVInvParts, TypeParts
<1>2. clerk' = [clerk EXCEPT ![c] = new] /\ keyValue' = keyValue /\ clerk[c].reply # NoReply
  BY Zenon DEF Return
<1>3. /\ r # Nil
      /\ \/ res = clerk[c].reply
         \/ r.op = "Put" /\ clerk[c].reply.err = "ErrVersion" /\ res = Model!PutAnswer("ErrMaybe")
      /\ r.op = "Put" /\ res.err = "OK" => clerk[c].done
      /\ r.op = "Put" /\ res.err = "ErrVersion" => ~clerk[c].done /\ clerk[c].isFirstTry
      /\ r.op = "Put" => res.err \in {"OK", "ErrVersion", "ErrMaybe"}
  <2>1. Model!PutAnswer("ErrMaybe").err = "ErrMaybe"
    BY SMT DEF Model!PutAnswer
  <2>2. clerk[c].args # Nil /\ r.op = "Put" => clerk[c].reply.err # "ErrNoKey"
    BY Zenon DEF NoKeyForGetsOnly
  <2> QED
    BY <1>2, <2>1, <2>2, ReturnAnswer, Zenon
<1> HIDE DEF res
<1>4. new.args = Nil /\ new.reply = NoReply /\ new.done = FALSE /\ new.result = res
  BY SMT DEF Idle
<1> HIDE DEF new
<1>5. Pending' = [Pending EXCEPT ![c] = Model!NoCall] /\ Last' = [Last EXCEPT ![c] = res]
  <2>1. /\ Pending' = [Pending EXCEPT ![c] =
                         [call |-> new.args, done |-> new.done, answer |-> new.reply]]
        /\ Last' = [Last EXCEPT ![c] = new.result]
    BY <1>1, <1>2, OneClerk, Zenon
  <2>2. [call |-> new.args, done |-> new.done, answer |-> new.reply] = Model!NoCall
    BY <1>4, Zenon DEF Model!NoCall, Model!Calling, Model!NoAnswer, NoReply
  <2> QED
    BY <1>4, <2>1, <2>2, Zenon
<1>6. Last'[c] = res
  BY <1>5, Zenon DEF Last
<1>7. Pending[c].call = r /\ Pending[c].done = clerk[c].done /\ Pending[c].answer = clerk[c].reply
  BY PendingOf
<1>8. Dangling' \subseteq Dangling \cup (IF res.err = "ErrMaybe" THEN {r} ELSE {})
  <2> SUFFICES ASSUME NEW q \in Dangling'
               PROVE  q \in Dangling \/ (q = r /\ res.err = "ErrMaybe")
    BY Zenon
  <2>1. PICK m \in late' : /\ m.args = q /\ ~m.current
                           /\ m.args.version >= keyValue[m.args.key].version
    BY <1>2, Zenon DEF Dangling
  <2>2. PICK l \in late : m.args = l.args /\ (l.current => l.from = c)
    BY <1>1, <2>1, ReturnLate, Zenon
  <2>3. CASE ~l.current
    BY <2>1, <2>2, <2>3, Zenon DEF Dangling
  <2>4. CASE l.current
    <3>1. l.from = c /\ l.args = r /\ q = r /\ r.op = "Put"
      BY <1>1, <2>1, <2>2, <2>4, Zenon DEF LateInv
    <3>2. r \in PutRequest
      BY <1>1, <1>3, <3>1, PutIsPut, SMT DEF Clerk
    <3>3. ~clerk[c].isFirstTry
      BY <1>1, <2>4, <3>1, Zenon DEF ClerkInv
    <3>4. ~clerk[c].done
      <4>1. r.version >= keyValue[r.key].version /\ r.key \in Key /\ r.version \in Nat
        BY <2>1, <3>1, <3>2, SMT DEF PutRequest
      <4>2. ~(keyValue[r.key].version > r.version)
        BY <1>1, <4>1, SMT DEF Data
      <4> QED
        BY <1>1, <4>2, Zenon DEF ClerkInv
    <3> QED
      BY <1>3, <3>1, <3>3, <3>4, Zenon
  <2> QED
    BY <2>3, <2>4
<1>9. clerk[c].reply # Model!NoAnswer
  BY <1>2, Zenon DEF Model!NoAnswer, NoReply
<1>10. Last' = [Last EXCEPT ![c] = Pending[c].answer] \/
       (/\ r.op = "Put" /\ Pending[c].answer.err = "ErrVersion"
        /\ Last' = [Last EXCEPT ![c] = Model!PutAnswer("ErrMaybe")])
  BY <1>3, <1>5, <1>7, Zenon
<1> QED
  BY <1>2, <1>3, <1>5, <1>6, <1>7, <1>8, <1>9, <1>10, Zenon DEF Model!Return

(* However requests are lost, repeated or late, server and clerks are the  *)
(* store of models1/kv.go, with the answers it allows and no others, as    *)
(* long as nobody puts a version of a key that is not there: Put's         *)
(* ErrNoKey is no answer of that model.                                    *)
THEOREM KVRefines == KVSpec /\ []VersionsKnown => ImplementsKVModel
<1>1. KVInit => Model!Init
  BY InitRefines
<1>2. KVInv /\ VersionsKnown /\ NoKeyForGetsOnly /\ [KVNext]_kvVars
      => [Model!Next]_(Model!vars)
  <2> SUFFICES ASSUME KVInv, VersionsKnown, NoKeyForGetsOnly, [KVNext]_kvVars
               PROVE  Model!Next \/ UNCHANGED Model!vars
    OBVIOUS
  <2>1. CASE \E c \in Client : Serve(c) \/ Retry(c) \/ Return(c)
    BY <2>1, ServeRefines, RetryRefines, ReturnRefines, Zenon DEF Model!Next
  <2>2. CASE \E c \in Client, k \in Key : CallGet(c, k)
    <3>1. PICK c \in Client, k \in Key : CallGet(c, k)
      BY <2>2
    <3> DEFINE r == [op |-> "Get", key |-> k]
    <3>2. r \in Request
      BY SMT DEF Request
    <3>3. Model!Call(c, r)
      BY <3>1, <3>2, SendRefines, Zenon DEF CallGet
    <3> QED
      BY <3>2, <3>3, Zenon DEF Model!Next, Model!Request, Request
  <2>3. CASE \E c \in Client, k \in Key, v \in Value, n \in 0 .. MaxVersion : CallPut(c, k, v, n)
    <3>1. PICK c \in Client, k \in Key, v \in Value, n \in 0 .. MaxVersion : CallPut(c, k, v, n)
      BY <2>3
    <3> DEFINE r == [op |-> "Put", key |-> k, value |-> v, version |-> n]
    <3>2. r \in Request
      BY SMT DEF Request
    <3>3. Model!Call(c, r)
      BY <3>1, <3>2, SendRefines, Zenon DEF CallPut
    <3> QED
      BY <3>2, <3>3, Zenon DEF Model!Next, Model!Request, Request
  <2>4. CASE \E l \in late : ServeLate(l)
    BY <2>4, ServeLateRefines, Zenon DEF Model!Next
  <2>5. CASE UNCHANGED kvVars
    <3>1. keyValue' = keyValue /\ clerk' = clerk /\ late' = late
      BY <2>5 DEF kvVars
    <3>2. Pending' = Pending /\ Last' = Last /\ Dangling' = Dangling
      BY <3>1, Zenon DEF Pending, Last, Dangling
    <3> QED
      BY <3>1, <3>2 DEF Model!vars
  <2> QED
    BY <2>1, <2>2, <2>3, <2>4, <2>5, Zenon DEF KVNext
<1>3. KVInit => NoKeyForGetsOnly
  <2> SUFFICES ASSUME KVInit, NEW c \in Client PROVE clerk[c].args = Nil
    BY Zenon DEF NoKeyForGetsOnly
  <2>1. clerk[c] = Idle(NoReply)
    BY Zenon DEF KVInit, MakeClerk
  <2> QED
    BY <2>1, SMT DEF Idle
<1>4. KVInv /\ VersionsKnown /\ NoKeyForGetsOnly /\ [KVNext]_kvVars => NoKeyForGetsOnly'
  BY NoKeyStep
<1> QED
  BY <1>1, <1>2, <1>3, <1>4, KVInvariant, PTL DEF KVSpec, ImplementsKVModel, Model!Spec
=============================================================================
