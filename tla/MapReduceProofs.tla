--------------------------- MODULE MapReduceProofs ---------------------------
(***************************************************************************)
(* MRInv is an invariant of MapReduce for any number of maps, reduces and  *)
(* workers, and with it QueueHasRoom, CountsExact and OutputComplete.      *)
(***************************************************************************)
EXTENDS MapReduce, FiniteSetTheorems, SequenceTheorems, TLAPS

-----------------------------------------------------------------------------
(* Tasks and queues.                                                       *)

LEMMA TotalType == Total["map"] = NMap /\ Total["reduce"] = NReduce
                   /\ \A k \in Kind : Total[k] \in Nat
  BY MRAssumption DEF Total, Kind

LEMMA UpTo ==
    ASSUME NEW n \in Nat
    PROVE  IsFiniteSet(1 .. n) /\ Cardinality(1 .. n) = n
<1>1. 1 \in Int /\ n \in Int
  OBVIOUS
<1>2. IsFiniteSet(1 .. n) /\ Cardinality(1 .. n) = IF 1 > n THEN 0 ELSE n - 1 + 1
  BY <1>1, FS_Interval, Zenon
<1> QED
  BY <1>2

LEMMA TaskFinite ==
    ASSUME NEW k \in Kind
    PROVE  IsFiniteSet(Task(k)) /\ Cardinality(Task(k)) = Total[k]
  BY TotalType, UpTo, Zenon DEF Task

LEMMA DoneFinite ==
    ASSUME NEW k \in Kind
    PROVE  /\ IsFiniteSet(DoneTasks(k))
           /\ Cardinality(DoneTasks(k)) \in Nat
           /\ Cardinality(DoneTasks(k)) = Total[k] => DoneTasks(k) = Task(k)
<1>1. DoneTasks(k) \in SUBSET Task(k)
  BY Zenon DEF DoneTasks
<1> QED
  BY <1>1, TaskFinite, FS_Subset, FS_CardinalityType

(* A queue without repetitions that lacks a task is not full.              *)
LEMMA RoomInQueue ==
    ASSUME NEW k \in Kind, NEW i \in Task(k), NEW q \in Seq(Task(k)),
           \A a, b \in DOMAIN q : q[a] = q[b] => a = b,
           \A a \in DOMAIN q : q[a] # i
    PROVE  Len(q) < Total[k]
<1> DEFINE T == Task(k) \ {i}
<1>1. Len(q) \in Nat /\ DOMAIN q = 1 .. Len(q) /\ q \in [1 .. Len(q) -> Task(k)]
  BY LenProperties
<1>2. q \in [1 .. Len(q) -> T]
  BY <1>1
<1>3. IsFiniteSet(T) /\ Cardinality(T) = Total[k] - 1
  BY TaskFinite, FS_RemoveElement
<1>4. IsFiniteSet(1 .. Len(q)) /\ Cardinality(1 .. Len(q)) = Len(q)
  BY <1>1, UpTo, Zenon
<1>5. ~(Cardinality(T) < Cardinality(1 .. Len(q)))
  <2> HIDE DEF T
  <2>1. ~ \E x, y \in 1 .. Len(q) : x # y /\ q[x] = q[y]
    BY <1>1
  <2> QED
    BY <2>1, <1>2, <1>3, <1>4, FS_PigeonHole
<1> QED
  BY <1>1, <1>3, <1>4, <1>5, TotalType

(* Taking the first task from a queue, and putting one at its end.         *)
LEMMA TailOfQueue ==
    ASSUME NEW S, NEW q \in Seq(S), q # <<>>,
           \A a, b \in DOMAIN q : q[a] = q[b] => a = b
    PROVE  /\ Head(q) \in S
           /\ Tail(q) \in Seq(S)
           /\ \A a, b \in DOMAIN Tail(q) : Tail(q)[a] = Tail(q)[b] => a = b
           /\ \A a \in DOMAIN Tail(q) : Tail(q)[a] # Head(q)
           /\ \A a \in DOMAIN Tail(q) : \E b \in DOMAIN q : Tail(q)[a] = q[b]
  OBVIOUS

LEMMA EndOfQueue ==
    ASSUME NEW S, NEW q \in Seq(S), NEW i \in S,
           \A a, b \in DOMAIN q : q[a] = q[b] => a = b,
           \A a \in DOMAIN q : q[a] # i
    PROVE  /\ Append(q, i) \in Seq(S)
           /\ \A a, b \in DOMAIN Append(q, i) : Append(q, i)[a] = Append(q, i)[b] => a = b
           /\ \A a \in DOMAIN Append(q, i) :
                Append(q, i)[a] = i \/ \E b \in DOMAIN q : Append(q, i)[a] = q[b]
  OBVIOUS

-----------------------------------------------------------------------------
(* The parts of MRInv that hold while no finished task was handed out.     *)
Exact ==
    /\ \A k \in Kind : finished[k] = Cardinality(DoneTasks(k))
    /\ MapsWritten
    /\ ReducesRead
    /\ \A j \in DoneTasks("reduce") : out[j] = Task("map")

LEMMA MRInvParts == MRInv <=> TypeOK /\ Scheduled /\ (~repeated => Exact)
  BY Zenon DEF MRInv, Exact

LEMMA Jobs ==
    /\ Idle \notin MapJob \cup ReduceJob
    /\ Dead \notin MapJob \cup ReduceJob
    /\ \A r \in MapJob : r.kind = "map" /\ r.task \in Task("map") /\ r.left \subseteq Task("reduce")
    /\ \A r \in ReduceJob :
         /\ r.kind = "reduce" /\ r.task \in Task("reduce")
         /\ r.left \subseteq Task("map") /\ r.got \subseteq Task("map")
         /\ r.written \in BOOLEAN
<1>1. Idle.kind = "idle" /\ Dead.kind = "dead"
  BY DEF Idle, Dead
<1>2. \A r \in MapJob : r.kind = "map" /\ r.task \in Task("map") /\ r.left \subseteq Task("reduce")
  BY DEF MapJob
<1>3. \A r \in ReduceJob :
         /\ r.kind = "reduce" /\ r.task \in Task("reduce")
         /\ r.left \subseteq Task("map") /\ r.got \subseteq Task("map")
         /\ r.written \in BOOLEAN
  BY DEF ReduceJob
<1>4. "idle" # "map" /\ "idle" # "reduce" /\ "dead" # "map" /\ "dead" # "reduce"
  OBVIOUS
<1> QED
  BY <1>1, <1>2, <1>3, <1>4, Zenon

(* The kind of a worker tells its job.                                     *)
LEMMA KindOfJob ==
    ASSUME TypeOK, NEW w \in Worker
    PROVE  /\ worker[w] \in MapJob <=> Busy(w, "map")
           /\ worker[w] \in ReduceJob <=> Busy(w, "reduce")
           /\ worker[w] \in MapJob \cup ReduceJob \cup {Idle, Dead}
<1>1. worker[w] \in MapJob \cup ReduceJob \cup {Idle, Dead}
  BY Zenon DEF TypeOK
<1>2. Idle.kind = "idle" /\ Dead.kind = "dead"
  BY DEF Idle, Dead
<1>3. "idle" # "map" /\ "idle" # "reduce" /\ "dead" # "map" /\ "dead" # "reduce" /\ "map" # "reduce"
  OBVIOUS
<1> QED
  BY <1>1, <1>2, <1>3, Jobs, Zenon DEF Busy

LEMMA AssignmentType ==
    ASSUME NEW i
    PROVE  /\ i \in Task("map") => /\ Assignment("map", i) \in MapJob
                                  /\ Assignment("map", i).left = Task("reduce")
           /\ i \in Task("reduce") => /\ Assignment("reduce", i) \in ReduceJob
                                     /\ Assignment("reduce", i).left = Task("map")
                                     /\ Assignment("reduce", i).got = {}
                                     /\ Assignment("reduce", i).written = FALSE
<1>1. i \in Task("map") => Assignment("map", i) \in MapJob
  BY DEF Assignment, MapJob
<1>2. Assignment("map", i).left = Task("reduce")
  BY DEF Assignment
<1>3. i \in Task("reduce") => Assignment("reduce", i) \in ReduceJob
  BY DEF Assignment, ReduceJob
<1>4. /\ Assignment("reduce", i).left = Task("map")
      /\ Assignment("reduce", i).got = {}
      /\ Assignment("reduce", i).written = FALSE
  BY DEF Assignment
<1> QED
  BY <1>1, <1>2, <1>3, <1>4, Zenon

-----------------------------------------------------------------------------
(* The steps of the coordinator.                                           *)

LEMMA PhaseKind == Phase \in Kind
  BY DEF Phase, Kind

(* Once the maps are counted, and exactly, they are all done.              *)
LEMMA ReducePhase ==
    ASSUME Exact, Phase = "reduce"
    PROVE  DoneTasks("map") = Task("map")
<1>1. finished["map"] = NMap
  BY DEF Phase
<1>2. "map" \in Kind
  BY DEF Kind
<1>3. finished["map"] = Cardinality(DoneTasks("map"))
  BY <1>2, Zenon DEF Exact
<1> QED
  BY <1>1, <1>2, <1>3, DoneFinite, TotalType

LEMMA GetJobInv ==
    ASSUME MRInv, NEW w \in Worker, GetJob(w)
    PROVE  MRInv'
<1>0. TypeOK /\ Scheduled /\ (~repeated => Exact)
  BY MRInvParts, Zenon
<1>2. PICK k \in Kind : k = Phase
  BY PhaseKind, Zenon
<1>a. PICK i : i = Head(queue[k])
  BY Zenon
<1>1. /\ worker[w] = Idle
      /\ queue[k] # <<>>
      /\ queue' = [queue EXCEPT ![k] = Tail(queue[k])]
      /\ repeated' = (repeated \/ taskState[k][i] = "Done")
      /\ taskState' = [taskState EXCEPT ![k][i] = "InProgress"]
      /\ timer' = [timer EXCEPT ![k] = timer[k] \cup {i}]
      /\ worker' = [worker EXCEPT ![w] = Assignment(k, i)]
      /\ UNCHANGED <<finished, files, out, exited>>
  BY <1>2, <1>a, Zenon DEF GetJob, scheduleRequeueLocked
<1>3. queue[k] \in Seq(Task(k))
  BY <1>0, <1>2, Zenon DEF TypeOK
<1>4. /\ i \in Task(k)
      /\ Tail(queue[k]) \in Seq(Task(k))
      /\ \A a, b \in DOMAIN Tail(queue[k]) : Tail(queue[k])[a] = Tail(queue[k])[b] => a = b
      /\ \A a \in DOMAIN Tail(queue[k]) : Tail(queue[k])[a] # i
      /\ \A a \in DOMAIN Tail(queue[k]) : \E b \in DOMAIN queue[k] : Tail(queue[k])[a] = queue[k][b]
  BY <1>0, <1>1, <1>3, <1>a, TailOfQueue, Zenon DEF Scheduled
<1>5. /\ DOMAIN queue' = Kind /\ queue'[k] = Tail(queue[k])
      /\ DOMAIN timer' = Kind /\ timer'[k] = timer[k] \cup {i}
      /\ \A x \in Kind : x # k => queue'[x] = queue[x] /\ timer'[x] = timer[x]
  BY <1>0, <1>1, <1>2, Zenon DEF TypeOK
<1>6. /\ DOMAIN taskState' = Kind
      /\ taskState'[k] = [taskState[k] EXCEPT ![i] = "InProgress"]
      /\ \A x \in Kind : x # k => taskState'[x] = taskState[x]
  BY <1>0, <1>1, <1>2, Zenon DEF TypeOK
<1>7. /\ taskState[k] \in [Task(k) -> {"Idle", "InProgress", "Done"}]
      /\ timer[k] \subseteq Task(k)
  BY <1>0, <1>2, Zenon DEF TypeOK
<1>8. worker'[w] = Assignment(k, i) /\ \A v \in Worker : v # w => worker'[v] = worker[v]
  BY <1>0, <1>1, Zenon DEF TypeOK
<1>9. k = "map" \/ k = "reduce"
  BY <1>2, Zenon DEF Kind
<1>10. Assignment(k, i) \in MapJob \cup ReduceJob
  BY <1>4, <1>9, AssignmentType, Zenon
<1>11. TypeOK'
  <2>1. \A x \in Kind :
          /\ queue'[x] \in Seq(Task(x))
          /\ taskState'[x] \in [Task(x) -> {"Idle", "InProgress", "Done"}]
          /\ timer'[x] \subseteq Task(x)
    <3>1. taskState'[k] \in [Task(k) -> {"Idle", "InProgress", "Done"}]
      BY <1>6, <1>7, Zenon
    <3>2. queue'[k] \in Seq(Task(k)) /\ timer'[k] \subseteq Task(k)
      BY <1>4, <1>5, <1>7
    <3> QED
      BY <1>0, <1>5, <1>6, <3>1, <3>2, Zenon DEF TypeOK
  <2>2. worker' \in [Worker -> MapJob \cup ReduceJob \cup {Idle, Dead}]
    BY <1>0, <1>1, <1>10, Zenon DEF TypeOK
  <2>3. repeated' \in BOOLEAN
    BY <1>1, Zenon
  <2> QED
    BY <1>0, <1>1, <1>5, <1>6, <2>1, <2>2, <2>3, Zenon DEF TypeOK
<1>12. Scheduled'
  <2>1. \A a, b \in DOMAIN queue'[k] : queue'[k][a] = queue'[k][b] => a = b
    BY <1>4, <1>5, Zenon
  <2>2. \A a \in DOMAIN queue'[k] : queue'[k][a] \notin timer'[k]
    <3>1. \A b \in DOMAIN queue[k] : queue[k][b] \notin timer[k]
      BY <1>0, Zenon DEF Scheduled
    <3> QED
      BY <1>4, <1>5, <3>1, Zenon
  <2> QED
    BY <1>0, <1>5, <2>1, <2>2, Zenon DEF Scheduled
<1>13. ~repeated' => Exact'
  <2> SUFFICES ASSUME ~repeated' PROVE Exact'
    OBVIOUS
  <2>1. Exact /\ taskState[k][i] # "Done"
    BY <1>0, <1>1, Zenon
  <2>2. \A x \in Kind : DoneTasks(x)' = DoneTasks(x)
    <3>1. DoneTasks(k)' = DoneTasks(k)
      <4>1. taskState'[k][i] # "Done" /\ \A n \in Task(k) : n # i => taskState'[k][n] = taskState[k][n]
        BY <1>4, <1>6, <1>7
      <4> QED
        BY <2>1, <4>1, Zenon DEF DoneTasks
    <3> QED
      BY <3>1, <1>6, Zenon DEF DoneTasks
  <2>3. \A x \in Kind : finished'[x] = Cardinality(DoneTasks(x)')
    BY <1>1, <2>1, <2>2, Zenon DEF Exact
  <2>4. DoneTasks("map")' = DoneTasks("map") /\ DoneTasks("reduce")' = DoneTasks("reduce")
    BY <2>2, Zenon DEF Kind
  <2>5. MapsWritten'
    <3>1. worker'[w] \in MapJob => worker'[w].left = Task("reduce")
      <4>1. k = "reduce" => worker'[w] \notin MapJob
        BY <1>4, <1>8, AssignmentType, Jobs
      <4> QED
        BY <1>4, <1>8, <1>9, <4>1, AssignmentType, Zenon
    <3>2. MapsWritten /\ files' = files
      BY <1>1, <2>1, Zenon DEF Exact
    <3>3. \A n \in DoneTasks("map")' : \A j \in Task("reduce") : <<n, j>> \in files'
      BY <2>4, <3>2, Zenon DEF MapsWritten
    <3>4. \A v \in Worker : worker'[v] \in MapJob =>
             \A j \in Task("reduce") \ worker'[v].left : <<worker'[v].task, j>> \in files'
      <4> TAKE v \in Worker
      <4>1. CASE v = w
        BY <3>1, <4>1, Zenon
      <4>2. CASE v # w
        BY <1>8, <3>2, <4>2, Zenon DEF MapsWritten
      <4> QED
        BY <4>1, <4>2, Zenon
    <3> QED
      BY <3>3, <3>4, Zenon DEF MapsWritten
  <2>6. ReducesRead'
    <3>1. worker'[w] \in ReduceJob =>
             /\ DoneTasks("map") = Task("map")
             /\ worker'[w].got \cup worker'[w].left = Task("map")
             /\ ~worker'[w].written
      <4>1. k = "map" => worker'[w] \notin ReduceJob
        BY <1>4, <1>8, AssignmentType, Jobs
      <4>2. k = "reduce" => DoneTasks("map") = Task("map")
        BY <1>2, <2>1, ReducePhase, Zenon
      <4>3. k = "reduce" => /\ worker'[w].got = {}
                            /\ worker'[w].left = Task("map")
                            /\ worker'[w].written = FALSE
        <5> SUFFICES ASSUME k = "reduce"
                     PROVE  /\ worker'[w].got = {}
                            /\ worker'[w].left = Task("map")
                            /\ worker'[w].written = FALSE
          OBVIOUS
        <5>1. i \in Task("reduce") /\ worker'[w] = Assignment("reduce", i)
          BY <1>4, <1>8, Zenon
        <5> QED
          BY <5>1, AssignmentType, Zenon
      <4> QED
        BY <1>9, <4>1, <4>2, <4>3
    <3> QED
      BY <1>1, <1>8, <2>1, <2>4, <3>1, Zenon DEF Exact, ReducesRead
  <2> QED
    BY <1>1, <2>1, <2>3, <2>4, <2>5, <2>6, Zenon DEF Exact
<1> QED
  BY <1>11, <1>12, <1>13, Zenon DEF MRInv, Exact

LEMMA RequeueInv ==
    ASSUME MRInv, NEW k \in Kind, NEW i \in Task(k), Requeue(k, i)
    PROVE  MRInv'
<1>0. TypeOK /\ Scheduled /\ (~repeated => Exact)
  BY MRInvParts, Zenon
<1>1. /\ i \in timer[k]
      /\ timer' = [timer EXCEPT ![k] = timer[k] \ {i}]
      /\ UNCHANGED <<finished, repeated, worker, files, out, exited>>
  BY Zenon DEF Requeue
<1>2. \/ /\ taskState[k][i] # "Done"
         /\ queue' = [queue EXCEPT ![k] = Append(queue[k], i)]
         /\ taskState' = [taskState EXCEPT ![k][i] = "Idle"]
      \/ UNCHANGED <<queue, taskState>>
  BY Zenon DEF Requeue
<1>3. /\ queue[k] \in Seq(Task(k))
      /\ taskState[k] \in [Task(k) -> {"Idle", "InProgress", "Done"}]
      /\ timer[k] \subseteq Task(k)
  BY <1>0, Zenon DEF TypeOK
<1>4. /\ \A a, b \in DOMAIN queue[k] : queue[k][a] = queue[k][b] => a = b
      /\ \A a \in DOMAIN queue[k] : queue[k][a] \notin timer[k]
  BY <1>0, Zenon DEF Scheduled
<1>5. DOMAIN timer' = Kind /\ timer'[k] = timer[k] \ {i}
      /\ \A x \in Kind : x # k => timer'[x] = timer[x]
  BY <1>0, <1>1, Zenon DEF TypeOK
<1>6. /\ DOMAIN queue' = Kind
      /\ queue'[k] \in Seq(Task(k))
      /\ \A a, b \in DOMAIN queue'[k] : queue'[k][a] = queue'[k][b] => a = b
      /\ \A a \in DOMAIN queue'[k] : queue'[k][a] \notin timer'[k]
      /\ \A x \in Kind : x # k => queue'[x] = queue[x]
  <2>1. CASE UNCHANGED <<queue, taskState>>
    <3>1. queue' = queue
      BY <2>1, Zenon
    <3>2. \A a \in DOMAIN queue[k] : queue[k][a] \notin timer'[k]
      BY <1>4, <1>5, Zenon
    <3> QED
      BY <1>0, <1>3, <1>4, <3>1, <3>2, Zenon DEF TypeOK
  <2>2. CASE queue' = [queue EXCEPT ![k] = Append(queue[k], i)]
    <3>1. \A a \in DOMAIN queue[k] : queue[k][a] # i
      BY <1>1, <1>4, Zenon
    <3>a. PICK q \in Seq(Task(k)) : q = queue[k]
      BY <1>3, Zenon
    <3>b. /\ \A a, b \in DOMAIN q : q[a] = q[b] => a = b
          /\ \A a \in DOMAIN q : q[a] # i
      BY <1>4, <3>1, <3>a, Zenon
    <3>2. /\ Append(q, i) \in Seq(Task(k))
          /\ \A a, b \in DOMAIN Append(q, i) : Append(q, i)[a] = Append(q, i)[b] => a = b
          /\ \A a \in DOMAIN Append(q, i) :
               Append(q, i)[a] = i \/ \E b \in DOMAIN q : Append(q, i)[a] = q[b]
      BY <3>b, EndOfQueue
    <3>3. DOMAIN queue' = Kind /\ queue'[k] = Append(q, i)
          /\ \A x \in Kind : x # k => queue'[x] = queue[x]
      BY <1>0, <2>2, <3>a, Zenon DEF TypeOK
    <3>4. i \notin timer'[k] /\ \A n : n \notin timer[k] => n \notin timer'[k]
      BY <1>5, Zenon
    <3>5. \A a \in DOMAIN queue'[k] : queue'[k][a] \notin timer'[k]
      <4>1. \A b \in DOMAIN q : q[b] \notin timer[k]
        BY <1>4, <3>a, Zenon
      <4>2. \A a \in DOMAIN Append(q, i) : Append(q, i)[a] \notin timer'[k]
        BY <3>2, <3>4, <4>1, Zenon
      <4> QED
        BY <3>3, <4>2, Zenon
    <3> QED
      BY <3>2, <3>3, <3>5, Zenon
  <2> QED
    BY <1>2, <2>1, <2>2, Zenon
<1>7. /\ DOMAIN taskState' = Kind
      /\ taskState'[k] \in [Task(k) -> {"Idle", "InProgress", "Done"}]
      /\ \A x \in Kind : x # k => taskState'[x] = taskState[x]
      /\ \A n \in Task(k) : taskState'[k][n] = "Done" <=> taskState[k][n] = "Done"
  <2>1. CASE UNCHANGED <<queue, taskState>>
    BY <1>0, <1>3, <2>1, Zenon DEF TypeOK
  <2>2. CASE taskState[k][i] # "Done" /\ taskState' = [taskState EXCEPT ![k][i] = "Idle"]
    <3>1. /\ DOMAIN taskState' = Kind
          /\ taskState'[k] = [taskState[k] EXCEPT ![i] = "Idle"]
          /\ \A x \in Kind : x # k => taskState'[x] = taskState[x]
      BY <1>0, <2>2, Zenon DEF TypeOK
    <3>2. taskState'[k] \in [Task(k) -> {"Idle", "InProgress", "Done"}]
      BY <1>3, <3>1, Zenon
    <3>3. \A n \in Task(k) : taskState'[k][n] = "Done" <=> taskState[k][n] = "Done"
      BY <1>3, <2>2, <3>1
    <3> QED
      BY <3>1, <3>2, <3>3, Zenon
  <2> QED
    BY <1>2, <2>1, <2>2, Zenon
<1>8. TypeOK'
  <2>1. timer'[k] \subseteq Task(k)
    BY <1>3, <1>5
  <2>2. \A x \in Kind :
          /\ queue'[x] \in Seq(Task(x))
          /\ taskState'[x] \in [Task(x) -> {"Idle", "InProgress", "Done"}]
          /\ timer'[x] \subseteq Task(x)
    BY <1>0, <1>5, <1>6, <1>7, <2>1, Zenon DEF TypeOK
  <2> QED
    BY <1>0, <1>1, <1>5, <1>6, <1>7, <2>2, Zenon DEF TypeOK
<1>9. Scheduled'
  BY <1>0, <1>5, <1>6, Zenon DEF Scheduled
<1>10. ~repeated' => Exact'
  <2>1. \A x \in Kind : DoneTasks(x)' = DoneTasks(x)
    <3>1. DoneTasks(k)' = DoneTasks(k)
      BY <1>7, Zenon DEF DoneTasks
    <3> QED
      BY <1>7, <3>1, Zenon DEF DoneTasks
  <2>2. DoneTasks("map")' = DoneTasks("map") /\ DoneTasks("reduce")' = DoneTasks("reduce")
    BY <2>1, Zenon DEF Kind
  <2>3. Exact => Exact'
    BY <1>1, <2>1, <2>2, Zenon DEF Exact, MapsWritten, ReducesRead
  <2> QED
    BY <1>0, <1>1, <2>3, Zenon
<1> QED
  BY <1>8, <1>9, <1>10, Zenon DEF MRInv, Exact

-----------------------------------------------------------------------------
(* The steps of the workers.                                               *)

LEMMA MapJobStep ==
    ASSUME NEW r \in MapJob, NEW S, S \subseteq Task("reduce")
    PROVE  /\ [r EXCEPT !.left = S] \in MapJob
           /\ [r EXCEPT !.left = S].task = r.task
           /\ [r EXCEPT !.left = S].left = S
  BY DEF MapJob

LEMMA ReduceJobStep ==
    ASSUME NEW r \in ReduceJob, NEW b \in BOOLEAN
    PROVE  /\ [r EXCEPT !.written = b] \in ReduceJob
           /\ [r EXCEPT !.written = b].task = r.task
           /\ [r EXCEPT !.written = b].left = r.left
           /\ [r EXCEPT !.written = b].got = r.got
           /\ [r EXCEPT !.written = b].written = b
  BY DEF ReduceJob

LEMMA JobsApart == \A r : ~(r \in MapJob /\ r \in ReduceJob)
<1>1. "map" # "reduce"
  OBVIOUS
<1> QED
  BY <1>1, Jobs, Zenon

(* A step that leaves the coordinator alone keeps its part.                *)
LEMMA CoordFrame ==
    ASSUME MRInv, UNCHANGED coordVars
    PROVE  /\ DOMAIN queue' = Kind /\ DOMAIN taskState' = Kind /\ DOMAIN timer' = Kind
           /\ \A x \in Kind :
                /\ queue'[x] \in Seq(Task(x))
                /\ taskState'[x] \in [Task(x) -> {"Idle", "InProgress", "Done"}]
                /\ timer'[x] \subseteq Task(x)
           /\ finished' \in [Kind -> Nat]
           /\ repeated' \in BOOLEAN /\ repeated' = repeated
           /\ Scheduled'
           /\ DoneTasks("map")' = DoneTasks("map")
           /\ DoneTasks("reduce")' = DoneTasks("reduce")
           /\ Exact => \A x \in Kind : finished'[x] = Cardinality(DoneTasks(x)')
<1>1. UNCHANGED <<queue, taskState, timer, finished, repeated>>
  BY Zenon DEF coordVars
<1>2. Scheduled'
  BY <1>1, Zenon DEF MRInv, Scheduled
<1>3. \A x \in Kind : DoneTasks(x)' = DoneTasks(x)
  BY <1>1, Zenon DEF DoneTasks
<1>4. "map" \in Kind /\ "reduce" \in Kind
  BY Zenon DEF Kind
<1>5. Exact => \A x \in Kind : finished'[x] = Cardinality(DoneTasks(x)')
  BY <1>1, <1>3, Zenon DEF Exact
<1>6. DoneTasks("map")' = DoneTasks("map") /\ DoneTasks("reduce")' = DoneTasks("reduce")
  BY <1>3, <1>4, Zenon
<1>7. TypeOK
  BY Zenon DEF MRInv
<1> QED
  BY <1>1, <1>2, <1>5, <1>6, <1>7, Zenon DEF TypeOK

LEMMA MapInv ==
    ASSUME MRInv, NEW w \in Worker, runMapFunction(w)
    PROVE  MRInv'
<1>0. TypeOK /\ (~repeated => Exact)
  BY MRInvParts, Zenon
<1>1. PICK j \in worker[w].left :
        /\ files' = files \cup {<<worker[w].task, j>>}
        /\ worker' = [worker EXCEPT ![w].left = worker[w].left \ {j}]
  BY Zenon DEF runMapFunction
<1>2. Busy(w, "map") /\ UNCHANGED coordVars /\ UNCHANGED <<out, exited>>
  BY Zenon DEF runMapFunction
<1>3. PICK r \in MapJob : r = worker[w]
  BY <1>0, <1>2, KindOfJob, Zenon
<1>4. r.task \in Task("map") /\ r.left \subseteq Task("reduce")
  BY Jobs, Zenon
<1>5. PICK s : s = [r EXCEPT !.left = r.left \ {j}]
  BY Zenon
<1>6. s \in MapJob /\ s.task = r.task /\ s.left = r.left \ {j}
  BY <1>4, <1>5, MapJobStep
<1>7. worker'[w] = s /\ \A v \in Worker : v # w => worker'[v] = worker[v]
  BY <1>0, <1>1, <1>3, <1>5, Zenon DEF TypeOK
<1>8. worker' \in [Worker -> MapJob \cup ReduceJob \cup {Idle, Dead}]
  <2>1. worker' = [worker EXCEPT ![w] = s]
    BY <1>1, <1>3, <1>5, Zenon
  <2> QED
    BY <1>0, <1>6, <2>1, Zenon DEF TypeOK
<1>9. files' \subseteq Task("map") \X Task("reduce") /\ files \subseteq files'
  BY <1>0, <1>1, <1>3, <1>4 DEF TypeOK
<1>10. TypeOK'
  BY <1>0, <1>2, <1>8, <1>9, CoordFrame, Zenon DEF TypeOK
<1>11. ~repeated' => Exact'
  <2> SUFFICES ASSUME ~repeated' PROVE Exact'
    OBVIOUS
  <2>1. Exact
    BY <1>0, <1>2, CoordFrame, Zenon
  <2>2. MapsWritten /\ ReducesRead
    BY <2>1, Zenon DEF Exact
  <2>3. \A n \in Task("reduce") \ s.left : <<s.task, n>> \in files'
    <3>1. \A n \in Task("reduce") \ r.left : <<r.task, n>> \in files
      BY <1>3, <2>2, Zenon DEF MapsWritten
    <3>2. <<r.task, j>> \in files'
      BY <1>1, <1>3, Zenon
    <3> QED
      BY <1>6, <1>9, <3>1, <3>2, Zenon
  <2>4. \A v \in Worker : worker'[v] \in MapJob =>
          \A n \in Task("reduce") \ worker'[v].left : <<worker'[v].task, n>> \in files'
    <3> TAKE v \in Worker
    <3>1. CASE v = w
      BY <1>7, <2>3, <3>1, Zenon
    <3>2. CASE v # w
      BY <1>7, <1>9, <2>2, <3>2, Zenon DEF MapsWritten
    <3> QED
      BY <3>1, <3>2, Zenon
  <2>5. \A i \in DoneTasks("map")' : \A n \in Task("reduce") : <<i, n>> \in files'
    BY <1>2, <1>9, <2>2, CoordFrame, Zenon DEF MapsWritten
  <2>6. ReducesRead'
    <3>1. worker'[w] \notin ReduceJob
      BY <1>6, <1>7, JobsApart, Zenon
    <3> QED
      BY <1>2, <1>7, <2>2, <3>1, CoordFrame, Zenon DEF ReducesRead
  <2>7. MapsWritten'
    BY <2>4, <2>5, Zenon DEF MapsWritten
  <2> QED
    BY <1>2, <2>1, <2>6, <2>7, CoordFrame, Zenon DEF Exact
<1> QED
  BY <1>2, <1>10, <1>11, CoordFrame, Zenon DEF MRInv, Exact

LEMMA ReadInv ==
    ASSUME MRInv, NEW w \in Worker, readFile(w)
    PROVE  MRInv'
<1>0. TypeOK /\ (~repeated => Exact)
  BY MRInvParts, Zenon
<1>1. /\ Busy(w, "reduce")
      /\ UNCHANGED coordVars
      /\ UNCHANGED <<files, out, exited>>
  BY Zenon DEF readFile
<1>2. PICK r \in ReduceJob : r = worker[w]
  BY <1>0, <1>1, KindOfJob, Zenon
<1>3. PICK i, F :
        /\ F = IF <<i, r.task>> \in files THEN {i} ELSE {}
        /\ worker' = [worker EXCEPT ![w] =
             [kind |-> "reduce", task |-> r.task, left |-> r.left \ {i},
              got |-> r.got \cup F, written |-> FALSE]]
  BY <1>2, Zenon DEF readFile
<1>4. r.task \in Task("reduce") /\ r.left \subseteq Task("map") /\ r.got \subseteq Task("map")
  BY Jobs, Zenon
<1>5. PICK s : s = [kind |-> "reduce", task |-> r.task, left |-> r.left \ {i},
                    got |-> r.got \cup F, written |-> FALSE]
  BY Zenon
<1>6. F \subseteq Task("map")
  BY <1>0, <1>3 DEF TypeOK
<1>7. s \in ReduceJob /\ s.task = r.task /\ s.left = r.left \ {i} /\ s.got = r.got \cup F
      /\ s.written = FALSE
  BY <1>4, <1>5, <1>6 DEF ReduceJob
<1>8. worker' = [worker EXCEPT ![w] = s]
  BY <1>3, <1>5, Zenon
<1>9. worker'[w] = s /\ \A v \in Worker : v # w => worker'[v] = worker[v]
  BY <1>0, <1>8, Zenon DEF TypeOK
<1>10. worker' \in [Worker -> MapJob \cup ReduceJob \cup {Idle, Dead}]
  BY <1>0, <1>7, <1>8, Zenon DEF TypeOK
<1>11. TypeOK'
  BY <1>0, <1>1, <1>10, CoordFrame, Zenon DEF TypeOK
<1>12. ~repeated' => Exact'
  <2> SUFFICES ASSUME ~repeated' PROVE Exact'
    OBVIOUS
  <2>1. Exact
    BY <1>0, <1>1, CoordFrame, Zenon
  <2>2. MapsWritten /\ ReducesRead
    BY <2>1, Zenon DEF Exact
  <2>3. DoneTasks("map") = Task("map") /\ r.got \cup r.left = Task("map")
    BY <1>2, <2>2, Zenon DEF ReducesRead
  <2>4. \A n \in Task("map") : <<n, r.task>> \in files
    BY <1>4, <2>2, <2>3, Zenon DEF MapsWritten
  <2>5. s.got \cup s.left = Task("map")
    BY <1>3, <1>4, <1>6, <1>7, <2>3, <2>4
  <2>6. ReducesRead'
    BY <1>1, <1>7, <1>9, <2>2, <2>3, <2>5, CoordFrame, Zenon DEF ReducesRead
  <2>7. MapsWritten'
    <3>1. worker'[w] \notin MapJob
      BY <1>7, <1>9, JobsApart, Zenon
    <3>2. \A v \in Worker : worker'[v] \in MapJob => worker'[v] = worker[v]
      BY <1>9, <3>1, Zenon
    <3>3. files' = files /\ DoneTasks("map")' = DoneTasks("map")
      BY <1>1, CoordFrame, Zenon
    <3> QED
      BY <2>2, <3>2, <3>3, Zenon DEF MapsWritten
  <2> QED
    BY <1>1, <2>1, <2>6, <2>7, CoordFrame, Zenon DEF Exact
<1> QED
  BY <1>1, <1>11, <1>12, CoordFrame, Zenon DEF MRInv, Exact

LEMMA ReduceInv ==
    ASSUME MRInv, NEW w \in Worker, runReduceFunction(w)
    PROVE  MRInv'
<1>0. TypeOK /\ (~repeated => Exact)
  BY MRInvParts, Zenon
<1>1. PICK b \in BOOLEAN : b = TRUE
  BY Zenon
<1>2. /\ Busy(w, "reduce")
      /\ worker[w].left = {}
      /\ out' = [out EXCEPT ![worker[w].task] = worker[w].got]
      /\ worker' = [worker EXCEPT ![w].written = b]
      /\ UNCHANGED coordVars
      /\ UNCHANGED <<files, exited>>
  BY <1>1, Zenon DEF runReduceFunction
<1>3. PICK r \in ReduceJob : r = worker[w]
  BY <1>0, <1>2, KindOfJob, Zenon
<1>4. r.task \in Task("reduce") /\ r.got \subseteq Task("map")
  BY Jobs, Zenon
<1>5. PICK s : s = [r EXCEPT !.written = b]
  BY Zenon
<1>6. s \in ReduceJob /\ s.task = r.task /\ s.left = r.left /\ s.got = r.got
  BY <1>5, ReduceJobStep, Zenon
<1>7. worker' = [worker EXCEPT ![w] = s]
  BY <1>2, <1>3, <1>5, Zenon
<1>8. worker'[w] = s /\ \A v \in Worker : v # w => worker'[v] = worker[v]
  BY <1>0, <1>7, Zenon DEF TypeOK
<1>9. worker' \in [Worker -> MapJob \cup ReduceJob \cup {Idle, Dead}]
  BY <1>0, <1>6, <1>7, Zenon DEF TypeOK
<1>10. out' \in [Task("reduce") -> (SUBSET Task("map")) \cup {NoOutput}]
  BY <1>0, <1>2, <1>3, <1>4, Zenon DEF TypeOK
<1>11. /\ out'[r.task] = r.got
       /\ \A j \in Task("reduce") : j # r.task => out'[j] = out[j]
  BY <1>0, <1>2, <1>3, <1>4, Zenon DEF TypeOK
<1>12. TypeOK'
  BY <1>0, <1>2, <1>9, <1>10, CoordFrame, Zenon DEF TypeOK
<1>13. ~repeated' => Exact'
  <2> SUFFICES ASSUME ~repeated' PROVE Exact'
    OBVIOUS
  <2>1. Exact
    BY <1>0, <1>2, CoordFrame, Zenon
  <2>2. MapsWritten /\ ReducesRead
    BY <2>1, Zenon DEF Exact
  <2>3. DoneTasks("map") = Task("map") /\ r.got \cup r.left = Task("map")
    BY <1>3, <2>2, Zenon DEF ReducesRead
  <2>4. r.got = Task("map")
    BY <1>2, <1>3, <2>3
  <2>5. \A j \in Task("reduce") : out[j] = Task("map") \/ j = r.task => out'[j] = Task("map")
    BY <1>11, <2>4, Zenon
  <2>6. ReducesRead'
    <3> SUFFICES ASSUME NEW v \in Worker, worker'[v] \in ReduceJob
                 PROVE  /\ DoneTasks("map") = Task("map")
                        /\ worker'[v].got \cup worker'[v].left = Task("map")
                        /\ worker'[v].written => out'[worker'[v].task] = Task("map")
      BY <1>2, CoordFrame, Zenon DEF ReducesRead
    <3>1. CASE v = w
      BY <1>4, <1>6, <1>8, <2>3, <2>5, <3>1, Zenon
    <3>2. CASE v # w
      <4>1. worker'[v] = worker[v] /\ worker[v].task \in Task("reduce")
        BY <1>8, <3>2, Jobs, Zenon
      <4> QED
        BY <2>2, <2>5, <4>1, Zenon DEF ReducesRead
    <3> QED
      BY <3>1, <3>2, Zenon
  <2>7. MapsWritten'
    <3>1. worker'[w] \notin MapJob
      BY <1>6, <1>8, JobsApart, Zenon
    <3>2. \A v \in Worker : worker'[v] \in MapJob => worker'[v] = worker[v]
      BY <1>8, <3>1, Zenon
    <3>3. files' = files /\ DoneTasks("map")' = DoneTasks("map")
      BY <1>2, CoordFrame, Zenon
    <3> QED
      BY <2>2, <3>2, <3>3, Zenon DEF MapsWritten
  <2>8. \A j \in DoneTasks("reduce")' : out'[j] = Task("map")
    <3>1. \A j \in DoneTasks("reduce") : j \in Task("reduce") /\ out[j] = Task("map")
      BY <2>1, Zenon DEF Exact, DoneTasks
    <3> QED
      BY <1>2, <2>5, <3>1, CoordFrame, Zenon
  <2> QED
    BY <1>2, <2>1, <2>6, <2>7, <2>8, CoordFrame, Zenon DEF Exact
<1> QED
  BY <1>2, <1>12, <1>13, CoordFrame, Zenon DEF MRInv, Exact

LEMMA SendInv ==
    ASSUME MRInv, NEW w \in Worker, sendResult(w)
    PROVE  MRInv'
<1>0. TypeOK /\ Scheduled /\ (~repeated => Exact)
  BY MRInvParts, Zenon
<1>1. PICK r : r = worker[w]
  BY Zenon
<1>2. PICK k : k = r.kind
  BY Zenon
<1>3. PICK i : i = r.task
  BY Zenon
<1>4. /\ \/ r \in MapJob /\ k = "map" /\ r.left = {}
         \/ r \in ReduceJob /\ k = "reduce" /\ r.written
      /\ k \in Kind
      /\ i \in Task(k)
  <2>1. \/ Busy(w, "map") /\ r.left = {}
        \/ Busy(w, "reduce") /\ r.written
    BY <1>1, Zenon DEF sendResult
  <2>2. \/ r \in MapJob /\ k = "map" /\ r.left = {}
        \/ r \in ReduceJob /\ k = "reduce" /\ r.written
    BY <1>0, <1>1, <1>2, <2>1, KindOfJob, Zenon DEF Busy
  <2> QED
    BY <1>3, <2>2, Jobs, Zenon DEF Kind
<1>5. /\ finished' = [finished EXCEPT ![k] = IF taskState[k][i] # "Done" THEN finished[k] + 1
                                                                         ELSE finished[k]]
      /\ taskState' = [taskState EXCEPT ![k][i] = "Done"]
      /\ worker' = [worker EXCEPT ![w] = Idle]
      /\ UNCHANGED <<queue, timer, repeated, files, out, exited>>
  BY <1>1, <1>2, <1>3, Zenon DEF sendResult, OnJobFinish
<1>6. /\ taskState[k] \in [Task(k) -> {"Idle", "InProgress", "Done"}]
      /\ finished \in [Kind -> Nat]
  BY <1>0, <1>4, Zenon DEF TypeOK
<1>7. /\ DOMAIN taskState' = Kind
      /\ taskState'[k] = [taskState[k] EXCEPT ![i] = "Done"]
      /\ \A x \in Kind : x # k => taskState'[x] = taskState[x]
  BY <1>0, <1>4, <1>5, Zenon DEF TypeOK
<1>8. /\ finished'[k] = IF taskState[k][i] # "Done" THEN finished[k] + 1 ELSE finished[k]
      /\ \A x \in Kind : x # k => finished'[x] = finished[x]
      /\ finished' \in [Kind -> Nat]
  BY <1>4, <1>5, <1>6
<1>9. worker'[w] = Idle /\ \A v \in Worker : v # w => worker'[v] = worker[v]
  BY <1>0, <1>5, Zenon DEF TypeOK
<1>10. TypeOK'
  <2>1. taskState'[k] \in [Task(k) -> {"Idle", "InProgress", "Done"}]
    BY <1>6, <1>7, Zenon
  <2>2. \A x \in Kind :
          /\ queue'[x] \in Seq(Task(x))
          /\ taskState'[x] \in [Task(x) -> {"Idle", "InProgress", "Done"}]
          /\ timer'[x] \subseteq Task(x)
    BY <1>0, <1>5, <1>7, <2>1, Zenon DEF TypeOK
  <2>3. worker' \in [Worker -> MapJob \cup ReduceJob \cup {Idle, Dead}]
    BY <1>0, <1>5, Zenon DEF TypeOK
  <2> QED
    BY <1>0, <1>5, <1>7, <1>8, <2>2, <2>3, Zenon DEF TypeOK
<1>11. Scheduled'
  BY <1>0, <1>5, Zenon DEF Scheduled
<1>12. DoneTasks(k)' = DoneTasks(k) \cup {i} /\ \A x \in Kind : x # k => DoneTasks(x)' = DoneTasks(x)
  <2>1. taskState'[k][i] = "Done" /\ \A n \in Task(k) : n # i => taskState'[k][n] = taskState[k][n]
    BY <1>4, <1>6, <1>7
  <2>2. DoneTasks(k)' = DoneTasks(k) \cup {i}
    BY <1>4, <2>1, Zenon DEF DoneTasks
  <2> QED
    BY <1>7, <2>2, Zenon DEF DoneTasks
<1>13. ~repeated' => Exact'
  <2> SUFFICES ASSUME ~repeated' PROVE Exact'
    OBVIOUS
  <2>1. Exact
    BY <1>0, <1>5, Zenon
  <2>2. MapsWritten /\ ReducesRead
    BY <2>1, Zenon DEF Exact
  <2>3. \A x \in Kind : finished'[x] = Cardinality(DoneTasks(x)')
    <3>1. finished[k] = Cardinality(DoneTasks(k)) /\ IsFiniteSet(DoneTasks(k))
      BY <1>4, <2>1, DoneFinite, Zenon DEF Exact
    <3>2. i \in DoneTasks(k) <=> taskState[k][i] = "Done"
      BY <1>4, Zenon DEF DoneTasks
    <3>3. Cardinality(DoneTasks(k) \cup {i})
            = IF i \in DoneTasks(k) THEN Cardinality(DoneTasks(k)) ELSE Cardinality(DoneTasks(k)) + 1
      BY <3>1, FS_AddElement, Zenon
    <3>4. finished'[k] = Cardinality(DoneTasks(k)')
      BY <1>8, <1>12, <3>1, <3>2, <3>3, Zenon
    <3> QED
      BY <1>8, <1>12, <2>1, <3>4, Zenon DEF Exact
  <2>4. \A v \in Worker : worker'[v] \in MapJob \cup ReduceJob => worker'[v] = worker[v]
    BY <1>9, Jobs, Zenon
  <2>5. "map" \in Kind /\ "reduce" \in Kind /\ "map" # "reduce"
    BY DEF Kind
  <2>6. MapsWritten'
    <3>1. \A n \in DoneTasks("map")' : \A j \in Task("reduce") : <<n, j>> \in files
      <4>1. CASE k = "map"
        <5>1. r \in MapJob /\ r.left = {}
          BY <1>4, <2>5, <4>1, Zenon
        <5>2. \A j \in Task("reduce") : <<i, j>> \in files
          BY <1>1, <1>3, <2>2, <5>1, Zenon DEF MapsWritten
        <5>3. DoneTasks("map")' = DoneTasks("map") \cup {i}
          BY <1>12, <4>1, Zenon
        <5> QED
          BY <2>2, <5>2, <5>3, Zenon DEF MapsWritten
      <4>2. CASE k = "reduce"
        BY <1>12, <2>2, <2>5, <4>2, Zenon DEF MapsWritten
      <4> QED
        BY <1>4, <4>1, <4>2, Zenon
    <3>2. \A v \in Worker : worker'[v] \in MapJob => worker'[v] = worker[v]
      BY <2>4, Zenon
    <3>3. files' = files
      BY <1>5, Zenon
    <3>4. \A v \in Worker : worker'[v] \in MapJob =>
             \A j \in Task("reduce") \ worker'[v].left : <<worker'[v].task, j>> \in files
      BY <2>2, <3>2, Zenon DEF MapsWritten
    <3> QED
      BY <3>1, <3>3, <3>4, Zenon DEF MapsWritten
  <2>7. ReducesRead'
    <3>1. DoneTasks("map") = Task("map") => DoneTasks("map")' = Task("map")
      <4>1. DoneTasks("map")' \subseteq Task("map")
        BY Zenon DEF DoneTasks
      <4>2. DoneTasks("map") \subseteq DoneTasks("map")'
        BY <1>4, <1>12, <2>5, Zenon
      <4> QED
        BY <4>1, <4>2, Zenon
    <3> QED
      BY <1>5, <2>2, <2>4, <3>1, Zenon DEF ReducesRead
  <2>8. \A j \in DoneTasks("reduce")' : out'[j] = Task("map")
    <3>1. CASE k = "reduce"
      <4>1. out[i] = Task("map")
        BY <1>1, <1>3, <1>4, <2>2, <2>5, <3>1, Zenon DEF ReducesRead
      <4>2. DoneTasks("reduce")' = DoneTasks("reduce") \cup {i}
        BY <1>12, <3>1, Zenon
      <4> QED
        BY <1>5, <2>1, <4>1, <4>2, Zenon DEF Exact
    <3>2. CASE k = "map"
      BY <1>5, <1>12, <2>1, <2>5, <3>2, Zenon DEF Exact
    <3> QED
      BY <1>4, <3>1, <3>2, Zenon
  <2> QED
    BY <2>3, <2>6, <2>7, <2>8, Zenon DEF Exact
<1> QED
  BY <1>10, <1>11, <1>13, Zenon DEF MRInv, Exact

LEMMA CrashInv ==
    ASSUME MRInv, NEW w \in Worker, Crash(w)
    PROVE  MRInv'
<1>0. TypeOK /\ (~repeated => Exact)
  BY MRInvParts, Zenon
<1>1. /\ worker' = [worker EXCEPT ![w] = Dead]
      /\ UNCHANGED coordVars
      /\ UNCHANGED <<files, out, exited>>
  BY Zenon DEF Crash
<1>2. worker'[w] = Dead /\ \A v \in Worker : v # w => worker'[v] = worker[v]
  BY <1>0, <1>1, Zenon DEF TypeOK
<1>3. \A v \in Worker : worker'[v] \in MapJob \cup ReduceJob => worker'[v] = worker[v]
  BY <1>2, Jobs, Zenon
<1>4. worker' \in [Worker -> MapJob \cup ReduceJob \cup {Idle, Dead}]
  BY <1>0, <1>1, Zenon DEF TypeOK
<1>5. TypeOK'
  BY <1>0, <1>1, <1>4, CoordFrame, Zenon DEF TypeOK
<1>6. Exact => Exact'
  <2> SUFFICES ASSUME Exact PROVE Exact'
    OBVIOUS
  <2>1. MapsWritten /\ ReducesRead
    BY Zenon DEF Exact
  <2>2. files' = files /\ out' = out /\ DoneTasks("map")' = DoneTasks("map")
    BY <1>1, CoordFrame, Zenon
  <2>3. MapsWritten'
    <3>1. \A v \in Worker : worker'[v] \in MapJob => worker'[v] = worker[v]
      BY <1>3, Zenon
    <3> QED
      BY <2>1, <2>2, <3>1, Zenon DEF MapsWritten
  <2>4. ReducesRead'
    BY <1>3, <2>1, <2>2, Zenon DEF ReducesRead
  <2> QED
    BY <1>1, <2>2, <2>3, <2>4, CoordFrame, Zenon DEF Exact
<1> QED
  BY <1>0, <1>1, <1>5, <1>6, CoordFrame, Zenon DEF MRInv, Exact

-----------------------------------------------------------------------------
LEMMA MRInitInv == Init => MRInv
<1> SUFFICES ASSUME Init PROVE MRInv
  OBVIOUS
<1>1. /\ queue = [k \in Kind |-> [i \in Task(k) |-> i]]
      /\ taskState = [k \in Kind |-> [i \in Task(k) |-> "Idle"]]
      /\ timer = [k \in Kind |-> {}]
      /\ finished = [k \in Kind |-> 0]
      /\ exited = FALSE /\ repeated = FALSE
      /\ worker = [w \in Worker |-> Idle]
      /\ files = {}
      /\ out = [j \in Task("reduce") |-> NoOutput]
  BY Zenon DEF Init, MakeCoordinator
<1>2. \A k \in Kind : queue[k] \in Seq(Task(k)) /\ queue[k] = [i \in Task(k) |-> i]
  <2> SUFFICES ASSUME NEW k \in Kind PROVE queue[k] \in Seq(Task(k)) /\ queue[k] = [i \in Task(k) |-> i]
    OBVIOUS
  <2>1. queue[k] = [i \in 1 .. Total[k] |-> i] /\ Total[k] \in Nat
    BY <1>1, TotalType, Zenon DEF Task
  <2> QED
    BY <2>1 DEF Task
<1>3. \A k \in Kind : taskState[k] = [i \in Task(k) |-> "Idle"] /\ timer[k] = {} /\ finished[k] = 0
  BY <1>1, Zenon
<1>4. TypeOK
  <2>1. \A k \in Kind : taskState[k] \in [Task(k) -> {"Idle", "InProgress", "Done"}]
    BY <1>3, Zenon
  <2>2. finished \in [Kind -> Nat]
    BY <1>1
  <2>3. \A k \in Kind : timer[k] \subseteq Task(k)
    BY <1>3, Zenon
  <2>4. DOMAIN queue = Kind /\ DOMAIN taskState = Kind /\ DOMAIN timer = Kind
    BY <1>1, Zenon
  <2>5. \A k \in Kind :
          /\ queue[k] \in Seq(Task(k))
          /\ taskState[k] \in [Task(k) -> {"Idle", "InProgress", "Done"}]
          /\ timer[k] \subseteq Task(k)
    BY <1>2, <2>1, <2>3, Zenon
  <2>6. worker \in [Worker -> MapJob \cup ReduceJob \cup {Idle, Dead}]
    BY <1>1, Zenon
  <2>7. out \in [Task("reduce") -> (SUBSET Task("map")) \cup {NoOutput}]
    BY <1>1, Zenon
  <2>8. files \subseteq Task("map") \X Task("reduce") /\ exited \in BOOLEAN /\ repeated \in BOOLEAN
    BY <1>1, Zenon
  <2> QED
    BY <2>2, <2>4, <2>5, <2>6, <2>7, <2>8, Zenon DEF TypeOK
<1>5. Scheduled
  <2>1. ASSUME NEW k \in Kind
        PROVE  /\ \A a, b \in DOMAIN queue[k] : queue[k][a] = queue[k][b] => a = b
               /\ \A a \in DOMAIN queue[k] : queue[k][a] \notin timer[k]
    <3>1. DOMAIN queue[k] = Task(k) /\ \A a \in Task(k) : queue[k][a] = a
      BY <1>2, <2>1, Zenon
    <3>2. timer[k] = {}
      BY <1>3, <2>1, Zenon
    <3> QED
      BY <3>1, <3>2, Zenon
  <2> QED
    BY <2>1, Zenon DEF Scheduled
<1>6. \A k \in Kind : DoneTasks(k) = {}
  <2>1. \A k \in Kind : \A i \in Task(k) : taskState[k][i] = "Idle"
    BY <1>3, Zenon
  <2>2. "Idle" # "Done"
    OBVIOUS
  <2> QED
    BY <2>1, <2>2, Zenon DEF DoneTasks
<1>7. DoneTasks("map") = {} /\ DoneTasks("reduce") = {}
  BY <1>6, Zenon DEF Kind
<1>8. \A k \in Kind : finished[k] = Cardinality(DoneTasks(k))
  BY <1>3, <1>6, FS_EmptySet, Zenon
<1>9. \A w \in Worker : worker[w] \notin MapJob \cup ReduceJob
  BY <1>1, Jobs, Zenon
<1>10. Exact
  BY <1>7, <1>8, <1>9, Zenon DEF Exact, MapsWritten, ReducesRead
<1> QED
  BY <1>4, <1>5, <1>10, MRInvParts, Zenon

LEMMA MRFrame ==
    ASSUME MRInv, UNCHANGED <<coordVars, worker, files, out>>, exited' \in BOOLEAN
    PROVE  MRInv'
<1>1. UNCHANGED <<queue, taskState, timer, finished, repeated, worker, files, out>>
  BY Zenon DEF coordVars
<1>2. TypeOK'
  BY <1>1, Zenon DEF MRInv, TypeOK
<1>3. Scheduled'
  BY <1>1, Zenon DEF MRInv, Scheduled
<1>4. DoneTasks("map")' = DoneTasks("map") /\ DoneTasks("reduce")' = DoneTasks("reduce")
      /\ (Exact => \A x \in Kind : finished'[x] = Cardinality(DoneTasks(x)'))
  <2>1. UNCHANGED coordVars
    BY Zenon
  <2> QED
    BY <2>1, CoordFrame, Zenon
<1>5. Exact => Exact'
  BY <1>1, <1>4, Zenon DEF Exact, MapsWritten, ReducesRead
<1> QED
  BY <1>1, <1>2, <1>3, <1>5, Zenon DEF MRInv, Exact

LEMMA MRStepInv ==
    ASSUME MRInv, [Next]_vars
    PROVE  MRInv'
<1>0. exited \in BOOLEAN
  BY Zenon DEF MRInv, TypeOK
<1>1. ASSUME NEW w \in Worker, Work(w) PROVE MRInv'
  BY <1>1, GetJobInv, MapInv, ReadInv, ReduceInv, SendInv, Zenon DEF Work
<1>2. ASSUME NEW w \in Worker, Sleep(w) PROVE MRInv'
  BY <1>0, <1>2, MRFrame, Zenon DEF Sleep, vars
<1>3. ASSUME NEW w \in Worker, Crash(w) PROVE MRInv'
  BY <1>3, CrashInv, Zenon
<1>4. ASSUME NEW k \in Kind, NEW i \in Task(k), Requeue(k, i) PROVE MRInv'
  BY <1>4, RequeueInv, Zenon
<1>5. CASE Exit
  <2>1. UNCHANGED <<coordVars, worker, files, out>> /\ exited' \in BOOLEAN
    BY <1>5, Zenon DEF Exit
  <2> QED
    BY <2>1, MRFrame, Zenon
<1>6. CASE UNCHANGED vars
  BY <1>0, <1>6, MRFrame, Zenon DEF vars
<1> QED
  BY <1>1, <1>2, <1>3, <1>4, <1>5, <1>6, Zenon DEF Next

(* MRInv is an invariant of the coordinator and its workers, for any       *)
(* number of maps, reduces and workers, crashes and late reports included. *)
THEOREM MRInvariant == Spec => []MRInv
<1>1. Init => MRInv
  BY MRInitInv
<1>2. MRInv /\ [Next]_vars => MRInv'
  BY MRStepInv
<1> QED
  BY <1>1, <1>2, PTL DEF Spec

LEMMA RoomFollows == MRInv => QueueHasRoom
<1> SUFFICES ASSUME MRInv PROVE QueueHasRoom
  OBVIOUS
<1>1. TypeOK /\ Scheduled
  BY Zenon DEF MRInv
<1>2. ASSUME NEW k \in Kind, NEW i \in timer[k] PROVE Len(queue[k]) < Total[k]
  <2>1. i \in Task(k) /\ queue[k] \in Seq(Task(k))
    BY <1>1, <1>2, Zenon DEF TypeOK
  <2>2. /\ \A a, b \in DOMAIN queue[k] : queue[k][a] = queue[k][b] => a = b
        /\ \A a \in DOMAIN queue[k] : queue[k][a] \notin timer[k]
    BY <1>1, Zenon DEF Scheduled
  <2>3. \A a \in DOMAIN queue[k] : queue[k][a] # i
    BY <1>2, <2>2, Zenon
  <2> QED
    BY <2>1, <2>2, <2>3, RoomInQueue
<1> QED
  BY <1>1, <1>2, Zenon DEF QueueHasRoom, Scheduled

(* The coordinator's queues and counters, the workers and the files hold   *)
(* values of their Go types, whatever is lost, late or repeated.           *)
THEOREM MRType == Spec => []TypeOK
<1>1. MRInv => TypeOK
  BY Zenon DEF MRInv
<1> QED
  BY <1>1, MRInvariant, PTL

(* The send in the requeue goroutine, made with the coordinator's lock     *)
(* held, never blocks: the channel has room for the task.                  *)
THEOREM MRQueueHasRoom == Spec => []QueueHasRoom
  BY MRInvariant, RoomFollows, PTL

(* Unless a finished task is handed out again, finishedMaps and            *)
(* finishedReduces count the finished tasks.                               *)
THEOREM MRCountsExact == Spec => []CountsExact
<1>1. MRInv => CountsExact
  BY Zenon DEF MRInv, CountsExact
<1> QED
  BY <1>1, MRInvariant, PTL

(* Unless a finished task is handed out again, the output of a reduce      *)
(* counted as done was made from every map's.                              *)
THEOREM MROutputComplete == Spec => []OutputComplete
<1>1. MRInv => OutputComplete
  BY Zenon DEF MRInv, OutputComplete
<1> QED
  BY <1>1, MRInvariant, PTL

(* What Done promises ("find out if the entire job has finished") holds    *)
(* unless a task that is done is handed out again by GetJob: late          *)
(* completions, crashes and timers alone do not make it wrong.             *)
THEOREM MRDone == Spec => [](~repeated => DoneMeansFinished)
<1>1. MRInv => (~repeated => DoneMeansFinished)
  <2> SUFFICES ASSUME MRInv, ~repeated, Done
               PROVE  \A j \in Task("reduce") : out[j] = Task("map")
    BY Zenon DEF DoneMeansFinished
  <2>1. finished["reduce"] = Cardinality(DoneTasks("reduce"))
        /\ \A j \in DoneTasks("reduce") : out[j] = Task("map")
    BY Zenon DEF MRInv, Kind
  <2>2. "reduce" \in Kind
    BY Zenon DEF Kind
  <2>3. DoneTasks("reduce") = Task("reduce")
    BY <2>1, <2>2, DoneFinite, TotalType, Zenon DEF Done
  <2> QED
    BY <2>1, <2>3, Zenon
<1> QED
  BY <1>1, MRInvariant, PTL

=============================================================================
