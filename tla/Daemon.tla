------------------------------- MODULE Daemon -------------------------------
(***************************************************************************)
(* A server of the tester: the process that tester1/group.go and srv.go    *)
(* start, checkpoint and kill, and the connection of tester1/demux and     *)
(* tester1/sockrpc that takes the calls of Labrpc to it.  Daemons of one   *)
(* server are numbered; each starts from what the one before it had saved. *)
(*                                                                         *)
(* Of the server's code it is assumed, as raft1 and rsm do, that it        *)
(* persists what a reply or a request of its own tells others first.  What *)
(* is persisted is told by the calls and requests it comes from.           *)
(***************************************************************************)
EXTENDS Labrpc

CONSTANTS ServerEnd,   \* the ends of the group's servers
          Out,         \* requests that the server sends
          MaxDaemon    \* bound: daemons started

ASSUME DaemonAssumption ==
    /\ ServerEnd \subseteq End
    /\ MaxDaemon \in Nat
    /\ Out \cap Calls = {}

VARIABLES
    tester,     \* what the tester has done with the server
    num,        \* the number of the last daemon
    disk,       \* the Persister of that daemon
    saved,      \* the Persister the tester holds
    forwarding, \* ds.rpcc is open
    requests,   \* calls on their way to the daemon, or in its handlers
    replies,    \* replies on their way back
    reader,     \* per daemon: the reader of the tester's DemuxClnt
    outstanding,\* and the calls it has yet to fail
    out         \* per request of the server: "none", "persisted" or "sent"

srvVars == <<num, disk, saved, forwarding>>
dmxVars == <<rpc, requests, replies, reader, outstanding>>
vars == <<netVars, dmxVars, srvVars, tester, out>>

DaemonNum == 1 .. MaxDaemon

Init ==
    /\ MakeNetwork
    /\ tester = "down"
    /\ num = 0
    /\ disk = {}
    /\ saved = {}
    /\ forwarding = FALSE
    /\ rpc = [c \in Calls |-> "none"]
    /\ requests = {}
    /\ replies = {}
    /\ reader = [i \in DaemonNum |-> "reading"]
    /\ outstanding = [i \in DaemonNum |-> {}]
    /\ out = [o \in Out |-> "none"]

Alive == tester # "down"

-----------------------------------------------------------------------------
(* The tester: StartServer and ShutdownServer.                             *)

(* startServer, runDaemon and init: the daemon starts from saved.          *)
StartDaemon ==
    /\ tester = "down"
    /\ num < MaxDaemon
    /\ tester' = "started"
    /\ num' = num + 1
    /\ disk' = saved
    /\ forwarding' = TRUE
    /\ UNCHANGED <<netVars, dmxVars, saved, out>>

(* After waitInit.                                                         *)
Register ==
    /\ tester = "started"
    /\ AddServer(num)
    /\ tester' = "up"
    /\ UNCHANGED <<dmxVars, srvVars, out>>

ShutdownServer ==
    /\ tester = "up"
    /\ DeleteServer(ServerEnd)
    /\ tester' = "deleted"
    /\ UNCHANGED <<dmxVars, srvVars, out>>

(* A mutant: the daemon goes on forwarding.                                *)
StillForwarding ==
    /\ tester = "deleted"
    /\ tester' = "closed"
    /\ UNCHANGED <<netVars, dmxVars, srvVars, out>>

(* CheckpointPersister closes ds.rpcc.  The connection that calls come in  *)
(* by stays open: ds.rpcs.Close only stops new ones.                       *)
CloseForwarding ==
    /\ tester = "deleted"
    /\ tester' = "closed"
    /\ forwarding' = FALSE
    /\ UNCHANGED <<netVars, dmxVars, num, disk, saved, out>>

CheckpointPersister ==
    /\ tester = "closed"
    /\ tester' = "copied"
    /\ saved' = disk
    /\ UNCHANGED <<netVars, dmxVars, num, disk, forwarding, out>>

kill ==
    /\ tester = "copied"
    /\ tester' = "down"
    /\ requests' = {}
    /\ out' = [o \in Out |-> IF out[o] = "sent" THEN "sent" ELSE "none"]
    /\ UNCHANGED <<netVars, rpc, replies, reader, outstanding, srvVars>>

-----------------------------------------------------------------------------
(* SendReceive of the tester's DemuxClnt, from DaemonClnt.forward.         *)

InCallMap(i) == {c \in Calls : at[c] = i /\ rpc[c] \in {"put", "wait"}}

(* A mutant: put does not look at closed.                                  *)
putUnchecked(c) ==
    /\ Dispatch(c)
    /\ rpc' = [rpc EXCEPT ![c] = "put"]
    /\ UNCHANGED <<requests, replies, reader, outstanding, srvVars, tester, out>>

put(c) ==
    /\ Dispatch(c)
    /\ rpc' = [rpc EXCEPT ![c] = IF reader[at[c]] = "reading" THEN "put" ELSE "fail"]
    /\ UNCHANGED <<requests, replies, reader, outstanding, srvVars, tester, out>>

(* A write that fails is waited for all the same.                          *)
WriteCall(c) ==
    /\ rpc[c] = "put"
    /\ rpc' = [rpc EXCEPT ![c] = "wait"]
    /\ requests' = IF Alive /\ at[c] = num THEN requests \cup {c} ELSE requests
    /\ UNCHANGED <<netVars, replies, reader, outstanding, srvVars, tester, out>>

(* reader hands a reply to its call.                                       *)
reply(c) ==
    /\ c \in replies
    /\ reader[at[c]] = "reading"
    /\ rpc[c] = "wait"
    /\ rpc' = [rpc EXCEPT ![c] = "ok"]
    /\ replies' = replies \ {c}
    /\ UNCHANGED <<netVars, requests, reader, outstanding, srvVars, tester, out>>

(* The daemon is gone: reader closes the callMap, takes the calls that are *)
(* outstanding and fails them one by one.                                  *)
ReadError(i) ==
    /\ i < num \/ (i = num /\ ~Alive)
    /\ reader[i] = "reading"
    /\ reader' = [reader EXCEPT ![i] = "closed"]
    /\ replies' = {c \in replies : at[c] # i}
    /\ UNCHANGED <<netVars, rpc, requests, outstanding, srvVars, tester, out>>

TakeOutstanding(i) ==
    /\ reader[i] = "closed"
    /\ reader' = [reader EXCEPT ![i] = "failing"]
    /\ outstanding' = [outstanding EXCEPT ![i] = InCallMap(i)]
    /\ UNCHANGED <<netVars, rpc, requests, replies, srvVars, tester, out>>

FailOutstanding(i) ==
    /\ reader[i] = "failing"
    /\ \E c \in outstanding[i] :
          /\ rpc[c] = "wait"
          /\ rpc' = [rpc EXCEPT ![c] = "fail"]
          /\ outstanding' = [outstanding EXCEPT ![i] = @ \ {c}]
    /\ UNCHANGED <<netVars, requests, replies, reader, srvVars, tester, out>>

-----------------------------------------------------------------------------
(* The daemon.                                                             *)

(* DemuxSrv's reader, ServeRequest and the handler.                        *)
ServeRequest(c) ==
    /\ c \in requests
    /\ disk' = disk \cup {c}
    /\ requests' = requests \ {c}
    /\ replies' = replies \cup {c}
    /\ UNCHANGED <<netVars, rpc, reader, outstanding, num, saved, forwarding, tester, out>>

(* The server makes a request of its own, first persisting what it says.   *)
Persist(o) ==
    /\ Alive
    /\ out[o] = "none"
    /\ out' = [out EXCEPT ![o] = "persisted"]
    /\ disk' = disk \cup {o}
    /\ UNCHANGED <<netVars, dmxVars, num, saved, forwarding, tester>>

(* ds.forward.                                                             *)
forward(o) ==
    /\ Alive
    /\ out[o] = "persisted"
    /\ forwarding
    /\ out' = [out EXCEPT ![o] = "sent"]
    /\ UNCHANGED <<netVars, dmxVars, srvVars, tester>>

-----------------------------------------------------------------------------
Env ==
    \/ \E c \in Calls : Call(c)
    \/ \E e \in End, b \in BOOLEAN : Enable(e, b)

SendReceive(c) == put(c) \/ WriteCall(c) \/ reply(c)
Reader(i) == ReadError(i) \/ TakeOutstanding(i) \/ FailOutstanding(i)
Tester == StartDaemon \/ Register \/ ShutdownServer \/ CloseForwarding \/ CheckpointPersister \/ kill

Next ==
    \/ Env /\ UNCHANGED <<dmxVars, srvVars, tester, out>>
    \/ \E c \in Calls : Process(c) /\ UNCHANGED <<dmxVars, srvVars, tester, out>>
    \/ \E c \in Calls : SendReceive(c) \/ ServeRequest(c)
    \/ \E i \in DaemonNum : Reader(i)
    \/ \E o \in Out : Persist(o) \/ forward(o)
    \/ Tester

(* The goroutines of the network and of the demultiplexer run; handlers    *)
(* need not return, and the tester need not go on.  No call or reader      *)
(* takes more than a few steps, so that one of several goroutines cannot   *)
(* keep the others from theirs.                                            *)
Running(c) == (Process(c) /\ UNCHANGED <<dmxVars, srvVars, tester, out>>) \/ SendReceive(c)

Fairness ==
    /\ \A c \in Calls : WF_vars(Running(c))
    /\ WF_vars(\E i \in DaemonNum : Reader(i))

Spec == Init /\ [][Next]_vars /\ Fairness

-----------------------------------------------------------------------------
(* What the server's next daemon will start from, or its present one has.  *)
Durable == IF tester \in {"copied", "down"} THEN saved ELSE disk

(* A call that returns true was handled by a server that had not been      *)
(* deleted, so what its handler persisted survives every restart: the last *)
(* test of processReq, and the order of ShutdownServer.                    *)
AckSaved == \A c \in Calls : call[c] = "true" => c \in Durable

(* A request that left a daemon was persisted before the checkpoint: the   *)
(* order of CheckpointPersister.                                           *)
SentSaved == \A o \in Out : out[o] = "sent" => o \in Durable

(* What makes the two hold: only the last daemon can be in the network;    *)
(* what it has answered and what it is about to send are on its disk; no   *)
(* call is known to a daemon before it is dispatched.                      *)
CallInv(c) ==
    /\ at[c] <= num
    /\ c \in requests => at[c] = num /\ Alive
    /\ (c \in replies \/ rpc[c] = "ok") /\ at[c] = num /\ tester \notin {"copied", "down"}
          => c \in disk
    /\ call[c] \in {"new", "sent", "found"} =>
          rpc[c] = "none" /\ c \notin requests /\ c \notin replies
    /\ call[c] \in {"found", "waiting"} => at[c] # 0
    /\ call[c] \in {"passing", "true"} => c \in Durable

OutInv(o) ==
    /\ out[o] = "persisted" => Alive
    /\ out[o] = "persisted" /\ tester \in {"started", "up", "deleted"} => o \in disk
    /\ out[o] = "sent" => o \in Durable

DaemonInv ==
    /\ num \in Nat
    /\ at \in [Calls -> Nat]
    /\ call \in [Calls -> Stage]
    /\ rpc \in [Calls -> {"none", "put", "wait", "ok", "fail"}]
    /\ out \in [Out -> {"none", "persisted", "sent"}]
    /\ server # 0 => tester = "up" /\ server = num
    /\ forwarding => tester \in {"started", "up", "deleted"}
    /\ \A c \in Calls : CallInv(c)
    /\ \A o \in Out : OutInv(o)

(* In a handler that has not returned, of a server still there.            *)
Hung(c) == c \in requests /\ server = at[c]

(* "Call() is guaranteed to return (perhaps after a delay) except if the   *)
(* handler function on the server side does not return", and it returns    *)
(* also then once the server is deleted.                                   *)
EventuallyReturns ==
    \A c \in Calls : <>[]Hung(c) \/ ((call[c] = "sent") ~> (call[c] \in {"true", "false"}))

(* No goroutine is left waiting in SendReceive for a daemon that is gone.  *)
EventuallyAnswered ==
    \A c \in Calls :
        (rpc[c] \in {"put", "wait"} /\ (at[c] < num \/ ~Alive)) ~> (rpc[c] \in {"ok", "fail"})
=============================================================================
