---------------------------- MODULE DaemonProofs ----------------------------
(***************************************************************************)
(* Nothing that a server of the tester has told others is lost by a        *)
(* restart, for any number of ends, calls, requests and daemons.  DaemonInv*)
(* is inductive: it is preserved by the steps of the network, of the       *)
(* demultiplexer, of the daemon and of the tester, one lemma each.         *)
(***************************************************************************)
EXTENDS Daemon, TLAPS

LEMMA DaemonInitInv == Init => DaemonInv
  BY DEF Init, MakeNetwork, DaemonInv, CallInv, OutInv, Durable, Alive, Stage

LEMMA ProcessInv ==
    ASSUME DaemonInv, NEW c \in Calls, Process(c) \/ Call(c),
           UNCHANGED <<dmxVars, srvVars, tester, out>>
    PROVE  DaemonInv'
<1> USE DEF DaemonInv, CallInv, OutInv, Durable, Alive, Stage, dmxVars, srvVars, Goto
<1>1. CASE Call(c)
  BY <1>1 DEF Call
<1>2. CASE readEndnameInfo(c)
  BY <1>2 DEF readEndnameInfo
<1>3. CASE DropRequest(c)
  BY <1>3 DEF DropRequest
<1>4. CASE Timeout(c)
  BY <1>4 DEF Timeout
<1>5. CASE Receive(c)
  BY <1>5 DEF Receive, isServerDead
<1>6. CASE Deliver(c)
  BY <1>6 DEF Deliver
<1> QED
  BY <1>1, <1>2, <1>3, <1>4, <1>5, <1>6, Zenon DEF Process

LEMMA EnableInv ==
    ASSUME DaemonInv, NEW e \in End, NEW b \in BOOLEAN, Enable(e, b),
           UNCHANGED <<dmxVars, srvVars, tester, out>>
    PROVE  DaemonInv'
  BY DEF DaemonInv, CallInv, OutInv, Durable, Alive, dmxVars, srvVars, Enable

LEMMA SendReceiveInv ==
    ASSUME DaemonInv, NEW c \in Calls, SendReceive(c) \/ ServeRequest(c)
    PROVE  DaemonInv'
<1> USE DEF DaemonInv, CallInv, OutInv, Durable, Alive, Stage, netVars, srvVars
<1>1. CASE put(c)
  BY <1>1 DEF put, Dispatch, Goto
<1>2. CASE WriteCall(c)
  BY <1>2 DEF WriteCall
<1>3. CASE reply(c)
  BY <1>3 DEF reply
<1>4. CASE ServeRequest(c)
  BY <1>4 DEF ServeRequest
<1> QED
  BY <1>1, <1>2, <1>3, <1>4, Zenon DEF SendReceive

LEMMA ReaderInv ==
    ASSUME DaemonInv, NEW i \in DaemonNum, Reader(i)
    PROVE  DaemonInv'
<1> USE DEF DaemonInv, CallInv, OutInv, Durable, Alive, netVars, srvVars
<1>1. CASE ReadError(i)
  BY <1>1 DEF ReadError
<1>2. CASE TakeOutstanding(i)
  BY <1>2 DEF TakeOutstanding
<1>3. CASE FailOutstanding(i)
  BY <1>3 DEF FailOutstanding
<1> QED
  BY <1>1, <1>2, <1>3, Zenon DEF Reader

LEMMA ServerInv ==
    ASSUME DaemonInv, NEW o \in Out, Persist(o) \/ forward(o)
    PROVE  DaemonInv'
<1> USE DEF DaemonInv, CallInv, OutInv, Durable, Alive, netVars, srvVars, dmxVars
<1>1. CASE Persist(o)
  BY <1>1 DEF Persist
<1>2. CASE forward(o)
  BY <1>2 DEF forward
<1> QED
  BY <1>1, <1>2

LEMMA TesterInv ==
    ASSUME DaemonInv, Tester
    PROVE  DaemonInv'
<1> USE DEF DaemonInv, CallInv, OutInv, Durable, Alive, netVars, dmxVars, srvVars
<1>1. CASE StartDaemon
  BY <1>1 DEF StartDaemon
<1>2. CASE Register
  BY <1>2 DEF Register, AddServer
<1>3. CASE ShutdownServer
  BY <1>3 DEF ShutdownServer, DeleteServer
<1>4. CASE CloseForwarding
  BY <1>4 DEF CloseForwarding
<1>5. CASE CheckpointPersister
  BY <1>5 DEF CheckpointPersister
<1>6. CASE kill
  BY <1>6 DEF kill
<1> QED
  BY <1>1, <1>2, <1>3, <1>4, <1>5, <1>6, Zenon DEF Tester

(* DaemonInv holds in every behaviour of the network, the tester and the   *)
(* daemons it starts and kills.                                            *)
THEOREM DaemonInvariant == Spec => []DaemonInv
<1>1. DaemonInv /\ [Next]_vars => DaemonInv'
  <2> SUFFICES ASSUME DaemonInv, [Next]_vars PROVE DaemonInv'
    OBVIOUS
  <2>1. CASE UNCHANGED vars
    BY <2>1 DEF DaemonInv, CallInv, OutInv, Durable, Alive, vars, netVars, dmxVars, srvVars
  <2>2. CASE Next
    BY <2>2, ProcessInv, EnableInv, SendReceiveInv, ReaderInv, ServerInv, TesterInv, Zenon DEF Next, Env
  <2> QED
    BY <2>1, <2>2
<1> QED
  BY DaemonInitInv, <1>1, PTL DEF Spec

(* A call that returned true is on the disk that the server's next daemon  *)
(* starts from: what the comment of processReq wants of DeleteServer.      *)
THEOREM DaemonAckSaved == Spec => []AckSaved
<1>1. DaemonInv => AckSaved
  BY DEF DaemonInv, CallInv, AckSaved
<1> QED
  BY DaemonInvariant, <1>1, PTL

(* What a request of the server says to others is on that disk as well:    *)
(* CheckpointPersister stops the forwarding before it copies.              *)
THEOREM DaemonSentSaved == Spec => []SentSaved
<1>1. DaemonInv => SentSaved
  BY DEF DaemonInv, OutInv, SentSaved
<1> QED
  BY DaemonInvariant, <1>1, PTL
=============================================================================
