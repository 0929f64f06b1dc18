-------------------------------- MODULE Lock --------------------------------
(***************************************************************************)
(* The lock of kvsrv1/lock/lock.go: one key of the key/value server holds  *)
(* the owner's id, or Available.  Clients acquire and release in turn.     *)
(* The server, the clerks and the network are those of KVServer.           *)
(***************************************************************************)
EXTENDS KVServer

CONSTANTS lockname, Available

ASSUME LockAssumption ==
    /\ lockname \in Key
    /\ Value = Client \cup {Available}
    /\ Available \notin Client

VARIABLES
    pc,        \* where each client is
    version,   \* Lock.version
    found      \* history: the client learnt from resync that it has the lock

lockVars == <<pc, version, found>>
vars == <<kvVars, lockVars>>

LockTypeOK ==
    /\ TypeOK
    /\ pc \in [Client -> {"released", "acquiring", "resync", "resyncing", "acquired", "releasing"}]
    /\ version \in [Client -> 0 .. MaxVersion + 2]
    /\ found \in [Client -> BOOLEAN]

(* MakeLock; the id is drawn at random and stands for the client.          *)
MakeLock ==
    /\ pc = [c \in Client |-> "released"]
    /\ version = [c \in Client |-> 0]
    /\ found = [c \in Client |-> FALSE]

Init == KVInit /\ MakeLock

Goto(c, label) == pc' = [pc EXCEPT ![c] = label]

(* The Put at the head of Acquire's loop.                                  *)
Acquire(c) ==
    /\ pc[c] \in {"released", "acquiring"}
    /\ CallPut(c, lockname, c, version[c])
    /\ Goto(c, "acquiring")
    /\ UNCHANGED <<version, found>>

(* A mutant: lk.version is left behind.                                    *)
AcquireReturnStale(c) ==
    LET err == Result(c).err
    IN  /\ pc[c] = "acquiring"
        /\ Return(c)
        /\ Goto(c, CASE err = "OK" -> "acquired"
                     [] err \in {"ErrVersion", "ErrMaybe"} -> "resync"
                     [] OTHER -> "acquiring")
        /\ found' = [found EXCEPT ![c] = FALSE]
        /\ UNCHANGED version

(* That Put returns.  For an error other than these the loop goes on.      *)
AcquireReturn(c) ==
    LET err == Result(c).err
    IN  /\ pc[c] = "acquiring"
        /\ Return(c)
        /\ version' = [version EXCEPT ![c] = IF err = "OK" THEN @ + 1 ELSE @]
        /\ Goto(c, CASE err = "OK" -> "acquired"
                     [] err \in {"ErrVersion", "ErrMaybe"} -> "resync"
                     [] OTHER -> "acquiring")
        /\ found' = [found EXCEPT ![c] = FALSE]

resync(c) ==
    /\ pc[c] = "resync"
    /\ CallGet(c, lockname)
    /\ Goto(c, "resyncing")
    /\ UNCHANGED <<version, found>>

resyncReturn(c) ==
    LET state == Result(c).value
        current == Result(c).version
    IN  /\ pc[c] = "resyncing"
        /\ Return(c)
        /\ version' = [version EXCEPT ![c] =
                          IF state = Available THEN current ELSE current + 1]
        /\ found' = [found EXCEPT ![c] = (state = c)]
        /\ Goto(c, IF state = c THEN "acquired" ELSE "acquiring")

(* Release ignores what its Put returns.                                   *)
Release(c) ==
    /\ pc[c] = "acquired"
    /\ CallPut(c, lockname, Available, version[c])
    /\ Goto(c, "releasing")
    /\ UNCHANGED <<version, found>>

ReleaseReturn(c) ==
    /\ pc[c] = "releasing"
    /\ Return(c)
    /\ version' = [version EXCEPT ![c] = @ + 1]
    /\ Goto(c, "released")
    /\ UNCHANGED found

Next ==
    \/ \E c \in Client :
        \/ Acquire(c) \/ AcquireReturn(c) \/ resync(c) \/ resyncReturn(c)
        \/ Release(c) \/ ReleaseReturn(c)
        \/ (Serve(c) \/ Retry(c)) /\ UNCHANGED lockVars
    \/ \E l \in late : ServeLate(l) /\ UNCHANGED lockVars

Spec == Init /\ [][Next]_vars

-----------------------------------------------------------------------------
(* "two clients acquired lock" (lock_test.go): between the return of       *)
(* Acquire and the call of Release no other client is there, whatever      *)
(* became of the requests of either.                                       *)
MutualExclusion ==
    \A c, d \in Client : pc[c] = "acquired" /\ pc[d] = "acquired" => c = d

(* A client that has released the lock is not its owner, unless it had     *)
(* learnt of its own success from resync: then lk.version is one too high, *)
(* Release's Put is refused, and the key keeps its name.                   *)
ReleaseFrees ==
    \A c \in Client :
        pc[c] = "released" /\ keyValue[lockname].value = c => found[c]

-----------------------------------------------------------------------------
(* The invariant behind MutualExclusion.  The key's version is odd while   *)
(* somebody owns the lock; Puts to take it bear even versions, so that     *)
(* only the owner's own Put to give it back can match an odd one.          *)
Odd(n) == n % 2 = 1

State == keyValue[lockname]
Puts(c) ==
    {l.args : l \in {m \in late : m.from = c}} \cup
    {r \in {clerk[c].args} : r # Nil /\ r.op = "Put"}

Claim(c, n) == [op |-> "Put", key |-> lockname, value |-> c, version |-> n]
Waiver(n) == [op |-> "Put", key |-> lockname, value |-> Available, version |-> n]

GetLock == [op |-> "Get", key |-> lockname]

(* What a client's part depends on: the client c, its pc p, version v and  *)
(* found f, its clerk's request a and reply y, its Puts P, and the key's   *)
(* data K.  A version is passed, or the key has it when it is next free.   *)
Passed(n, K) == n < K.version \/ (~Odd(n) /\ n <= K.version + 1)

(* What the client is waiting for.                                        *)
CallI(c, p, v, a, y, P, K) ==
    /\ p \in {"released", "resync", "acquired"} => a = Nil
    /\ p = "acquiring" => a \in {Nil, Claim(c, v)}
    /\ p = "resyncing" => a = GetLock
    /\ p = "releasing" => a = Waiver(v)
    /\ \A r \in P : r = Claim(c, r.version) \/ r = Waiver(r.version)
    /\ p \in {"resync", "resyncing"} \/ (p = "acquiring" /\ y.err = "ErrVersion") => K.version > 0
    /\ p = "resyncing" /\ y # NoReply =>
         /\ y \in [err : {"OK"}, value : Value, version : 1 .. K.version]
         /\ Odd(y.version) <=> y.value \in Client

(* It does not own the lock.                                               *)
OtherI(c, p, v, y, P, K) ==
    /\ p # "acquired"
    /\ ~(p = "acquiring" /\ y.err = "OK")
    /\ ~(p = "resyncing" /\ y # NoReply /\ y.value = c)
    /\ \A r \in P : Passed(r.version, K) /\ (r.version >= K.version => r.value = c)
    /\ p \in {"released", "acquiring"} => Passed(v, K)
    /\ p \in {"releasing", "released"} => \A r \in P : r.version < K.version
    /\ p = "releasing" => Odd(v) /\ v < K.version

(* It owns the lock.                                                       *)
OwnerI(c, p, v, f, y, P, K) ==
    /\ \A r \in P : r.version = K.version =>
         p = "releasing" /\ v = K.version /\ r.value = Available
    /\ (p \in {"acquired", "releasing"} /\ v = K.version) \/ (p = "acquiring" /\ y.err = "OK")
         => \A r \in P : r.version <= K.version
    /\ p \in {"released", "acquiring"} => v # K.version
    /\ p \in {"acquired", "releasing"} => v \in {K.version, K.version + 1}
    /\ p = "releasing" /\ y # NoReply => v # K.version
    /\ p = "acquiring" /\ y.err = "OK" => v + 1 = K.version
    /\ p = "resyncing" /\ y # NoReply /\ y.value = c => y.version = K.version
    /\ p \in {"acquired", "releasing"} /\ v # K.version => f
    /\ p = "released" => f

ClientI(c, p, v, f, a, y, P, K) ==
    /\ CallI(c, p, v, a, y, P, K)
    /\ K.value # c => OtherI(c, p, v, y, P, K)
    /\ K.value = c => OwnerI(c, p, v, f, y, P, K)

ClientInv(c) ==
    ClientI(c, pc[c], version[c], found[c], clerk[c].args, clerk[c].reply, Puts(c), State)

LockInv ==
    /\ KVInv /\ LockTypeOK
    /\ Odd(State.version) <=> State.value \in Client
    /\ State.version > 0 => State.value # Nil
    /\ \A c \in Client : ClientInv(c)
=============================================================================
