------------------------------- MODULE Labrpc -------------------------------
(***************************************************************************)
(* The network of labrpc/labrpc.go, for the calls that go to one server    *)
(* name.  A *Server is told by the number of the daemon it stands for, 0   *)
(* is nil.  The network is unreliable and reorders throughout: whatever it *)
(* does when set to reliable it may also do then.  Nothing tells apart a   *)
(* failure on its way to the caller and one that has reached it.           *)
(***************************************************************************)
EXTENDS Naturals, FiniteSets

CONSTANTS End,     \* client ends connected to the server's name
          PerEnd   \* bound: calls made at an end

ASSUME LabrpcAssumption == PerEnd \in Nat

Calls == End \X (1 .. PerEnd)
EndOf(c) == c[1]

VARIABLES
    enabled,   \* rn.enabled
    server,    \* rn.servers[servername]
    call,      \* per call: where its Call and processReq are
    at,        \* per call: the server that processReq found
    rpc        \* per call: where the dispatch goroutine is, see Daemon

netVars == <<enabled, server, call, at>>

Stage == {"new", "sent", "found", "waiting", "passing", "true", "false"}

(* An end is made disabled; Enable connects it.                            *)
MakeNetwork ==
    /\ enabled = [e \in End |-> FALSE]
    /\ server = 0
    /\ call = [c \in Calls |-> "new"]
    /\ at = [c \in Calls |-> 0]

Goto(c, stage) == call' = [call EXCEPT ![c] = stage]

-----------------------------------------------------------------------------
(* Call and Forward: the request is handed to the network's goroutine, or  *)
(* the network is found cleaned up, as it may be any time.                 *)
Call(c) ==
    /\ call[c] = "new"
    /\ Goto(c, "sent") \/ Goto(c, "false")
    /\ UNCHANGED <<enabled, server, at>>

(* The start of processReq.                                                *)
readEndnameInfo(c) ==
    /\ call[c] = "sent"
    /\ IF enabled[EndOf(c)] /\ server # 0
         THEN Goto(c, "found") /\ at' = [at EXCEPT ![c] = server]
         ELSE Goto(c, "false") /\ UNCHANGED at
    /\ UNCHANGED <<enabled, server>>

DropRequest(c) ==
    /\ call[c] = "found"
    /\ Goto(c, "false")
    /\ UNCHANGED <<enabled, server, at>>

(* The dispatch goroutine begins: rpc leaves "none" in Daemon.             *)
Dispatch(c) ==
    /\ call[c] = "found"
    /\ Goto(c, "waiting")
    /\ UNCHANGED <<enabled, server, at>>

(* A mutant: only the end is looked at.                                    *)
isEndDisabled(c) == ~enabled[EndOf(c)]

isServerDead(c) == ~enabled[EndOf(c)] \/ server # at[c]

(* A mutant: the wait ends when the end is disabled, not with the server.  *)
TimeoutWhenDisabled(c) ==
    /\ call[c] = "waiting"
    /\ isEndDisabled(c)
    /\ Goto(c, "false")
    /\ UNCHANGED <<enabled, server, at>>

(* time.After in the loop that waits for the handler.                      *)
Timeout(c) ==
    /\ call[c] = "waiting"
    /\ isServerDead(c)
    /\ Goto(c, "false")
    /\ UNCHANGED <<enabled, server, at>>

(* The handler's reply comes in and is checked, dropped or passed on.      *)
Receive(c) ==
    /\ call[c] = "waiting"
    /\ rpc[c] \in {"ok", "fail"}
    /\ \/ Goto(c, IF isServerDead(c) \/ rpc[c] = "fail" THEN "false" ELSE "passing")
       \/ Goto(c, "false")
    /\ UNCHANGED <<enabled, server, at>>

(* The reply on replyCh, some time later.                                  *)
Deliver(c) ==
    /\ call[c] = "passing"
    /\ Goto(c, "true")
    /\ UNCHANGED <<enabled, server, at>>

Process(c) ==
    readEndnameInfo(c) \/ DropRequest(c) \/ Timeout(c) \/ Receive(c) \/ Deliver(c)

-----------------------------------------------------------------------------
Enable(e, b) ==
    /\ enabled' = [enabled EXCEPT ![e] = b]
    /\ UNCHANGED <<server, call, at>>

AddServer(i) ==
    /\ server' = i
    /\ UNCHANGED <<enabled, call, at>>

(* ShutdownServer disconnects the servers' ends first.                     *)
DeleteServer(ends) ==
    /\ enabled' = [e \in End |-> enabled[e] /\ e \notin ends]
    /\ server' = 0
    /\ UNCHANGED <<call, at>>
=============================================================================
