------------------------------ MODULE KVModel ------------------------------
(***************************************************************************)
(* What a versioned key/value store promises its clients: the sequential   *)
(* model of models1/kv.go, which the tests hand to the linearizability     *)
(* checker, with the calls of concurrent clients around it.  A Put takes   *)
(* effect at most once.  A clerk that answers ErrMaybe does not say when:  *)
(* such a Put is dangling and may still take effect.  The model knows no   *)
(* ErrNoKey for a Put, which the servers do answer.                        *)
(***************************************************************************)
EXTENDS Naturals

CONSTANTS Client, Key, Value, Version, Nil

VARIABLES
    store,      \* per key its value and version; version 0: no such key
    pending,    \* per client the call under way
    last,       \* per client what its last call returned
    dangling    \* Puts that returned ErrMaybe

vars == <<store, pending, last, dangling>>

Request ==
    [op : {"Get"}, key : Key] \cup
    [op : {"Put"}, key : Key, value : Value, version : Version]

Missing == [value |-> Nil, version |-> 0]

(* The outcome of a Put for version on a key in state d.                   *)
PutErr(d, version) == IF d.version = version THEN "OK" ELSE "ErrVersion"

Stored(r) == [value |-> r.value, version |-> r.version + 1]

NoAnswer == [err |-> "none"]
PutAnswer(err) == [err |-> err]
GetAnswer(d) ==
    IF d.version = 0
      THEN [err |-> "ErrNoKey", value |-> Nil, version |-> 0]
      ELSE [err |-> "OK", value |-> d.value, version |-> d.version]

Calling(r) == [call |-> r, done |-> FALSE, answer |-> NoAnswer]
NoCall == Calling(Nil)

Init ==
    /\ store = [k \in Key |-> Missing]
    /\ pending = [c \in Client |-> NoCall]
    /\ last = [c \in Client |-> NoAnswer]
    /\ dangling = {}

(* The call of c goes on, with these facts about it.                       *)
Progress(c, done, answer) ==
    pending' = [pending EXCEPT ![c] = [call |-> pending[c].call, done |-> done, answer |-> answer]]

Call(c, r) ==
    /\ pending[c] = NoCall
    /\ pending' = [pending EXCEPT ![c] = Calling(r)]
    /\ UNCHANGED <<store, last, dangling>>

(* The one effect of a Put: somewhere between its call and its return.     *)
Take(c, answer) ==
    LET r == pending[c].call
    IN  /\ r # Nil /\ r.op = "Put" /\ ~pending[c].done
        /\ PutErr(store[r.key], r.version) = "OK"
        /\ store' = [store EXCEPT ![r.key] = Stored(r)]
        /\ Progress(c, TRUE, answer)
        /\ dangling' \subseteq dangling
        /\ UNCHANGED last

(* The effect of a Put whose caller has gone on.                           *)
TakeLate(r) ==
    /\ PutErr(store[r.key], r.version) = "OK"
    /\ store' = [store EXCEPT ![r.key] = Stored(r)]
    /\ dangling' \subseteq dangling \ {r}
    /\ UNCHANGED <<pending, last>>

(* A dangling Put is lost or refused for good.                             *)
Drop ==
    /\ dangling' \subseteq dangling
    /\ UNCHANGED <<store, pending, last>>

(* A Get, or a Put that is refused.                                        *)
Look(c) ==
    LET r == pending[c].call
    IN  /\ r # Nil
        /\ r.op = "Put" => PutErr(store[r.key], r.version) # "OK"
        /\ Progress(c, pending[c].done,
                    IF r.op = "Get" THEN GetAnswer(store[r.key])
                    ELSE PutAnswer(PutErr(store[r.key], r.version)))
        /\ dangling' \subseteq dangling
        /\ UNCHANGED <<store, last>>

(* The answer is lost; the clerk asks again.                               *)
Forget(c) ==
    /\ Progress(c, pending[c].done, NoAnswer)
    /\ UNCHANGED <<store, last, dangling>>

(* OK is returned for a Put that took effect, ErrVersion for one that did  *)
(* not and never will.  Only ErrMaybe leaves it dangling.                  *)
Return(c) ==
    LET r == pending[c].call
        answer == pending[c].answer
    IN  /\ answer # NoAnswer
        /\ \/ last' = [last EXCEPT ![c] = answer]
           \/ /\ r.op = "Put" /\ answer.err = "ErrVersion"
              /\ last' = [last EXCEPT ![c] = PutAnswer("ErrMaybe")]
        /\ r.op = "Put" /\ last'[c].err = "OK" => pending[c].done
        /\ r.op = "Put" /\ last'[c].err = "ErrVersion" => ~pending[c].done
        /\ dangling' \subseteq dangling \cup (IF last'[c].err = "ErrMaybe" THEN {r} ELSE {})
        /\ pending' = [pending EXCEPT ![c] = NoCall]
        /\ UNCHANGED store

Next ==
    \/ \E c \in Client, r \in Request : Call(c, r)
    \/ \E c \in Client :
        \/ Look(c) \/ Forget(c) \/ Return(c)
        \/ Take(c, PutAnswer("OK")) \/ Take(c, pending[c].answer)
    \/ \E r \in dangling : TakeLate(r)
    \/ Drop

Spec == Init /\ [][Next]_vars
=============================================================================
