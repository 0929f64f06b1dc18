------------------------------ MODULE MapReduce ------------------------------
(***************************************************************************)
(* The coordinator of mr/coordinator.go and the workers of mr/worker.go.   *)
(* Maps and reduces are handled alike, so everything the coordinator keeps *)
(* for them is indexed by the kind of task.  Of a file only its presence   *)
(* matters: map i writes mr-i-j for every bucket j, reduce j writes        *)
(* mr-out-j from the files it found.                                       *)
(***************************************************************************)
EXTENDS Naturals, Sequences, FiniteSets

CONSTANTS NMap, NReduce,   \* len(files) and nReduce
          Worker,
          Mortal,          \* the workers that may crash
          Extra            \* bound: how far a counter is followed past its total

ASSUME MRAssumption ==
    /\ NMap \in Nat \ {0}
    /\ NReduce \in Nat \ {0}
    /\ Extra \in Nat
    /\ Mortal \subseteq Worker

VARIABLES
    queue,      \* mapQueue, reduceQueue
    taskState,  \* mapTasks[i].state, reduceTasks[i].state
    timer,      \* tasks whose requeue goroutine waits on its timer
    finished,   \* finishedMaps, finishedReduces
    worker,     \* what each worker is doing
    files,      \* the intermediate files <<map, bucket>>
    out,        \* mr-out-j: the maps it was made from
    exited,     \* the coordinator process is gone
    repeated    \* history: a task that was done has been handed out again

coordVars == <<queue, taskState, timer, finished, repeated>>
vars == <<coordVars, worker, files, out, exited>>

Kind == {"map", "reduce"}
Total == [map |-> NMap, reduce |-> NReduce]
Task(k) == 1 .. Total[k]

NoOutput == {0}   \* mr-out-j does not exist yet

(* left: the buckets still to be written, or the map outputs still to be   *)
(* read; got: the map outputs found; written: mr-out-j has been renamed.   *)
MapJob == [kind : {"map"}, task : Task("map"), left : SUBSET Task("reduce")]
ReduceJob == [kind : {"reduce"}, task : Task("reduce"), left : SUBSET Task("map"),
              got : SUBSET Task("map"), written : BOOLEAN]
Idle == [kind |-> "idle"]
Dead == [kind |-> "dead"]

TypeOK ==
    /\ DOMAIN queue = Kind /\ DOMAIN taskState = Kind /\ DOMAIN timer = Kind
    /\ \A k \in Kind :
        /\ queue[k] \in Seq(Task(k))
        /\ taskState[k] \in [Task(k) -> {"Idle", "InProgress", "Done"}]
        /\ timer[k] \subseteq Task(k)
    /\ finished \in [Kind -> Nat]
    /\ worker \in [Worker -> MapJob \cup ReduceJob \cup {Idle, Dead}]
    /\ files \subseteq Task("map") \X Task("reduce")
    /\ out \in [Task("reduce") -> (SUBSET Task("map")) \cup {NoOutput}]
    /\ exited \in BOOLEAN
    /\ repeated \in BOOLEAN

MakeCoordinator ==
    /\ queue = [k \in Kind |-> [i \in Task(k) |-> i]]
    /\ taskState = [k \in Kind |-> [i \in Task(k) |-> "Idle"]]
    /\ timer = [k \in Kind |-> {}]
    /\ finished = [k \in Kind |-> 0]
    /\ exited = FALSE
    /\ repeated = FALSE

Init ==
    /\ MakeCoordinator
    /\ worker = [w \in Worker |-> Idle]
    /\ files = {}
    /\ out = [j \in Task("reduce") |-> NoOutput]

-----------------------------------------------------------------------------
(* The coordinator.                                                        *)

(* A mutant: reduces begin one map early.                                  *)
PhaseEarly == IF finished["map"] + 1 < NMap THEN "map" ELSE "reduce"

(* What GetJob hands out: maps until all are counted, reduces after.       *)
Phase == IF finished["map"] # NMap THEN "map" ELSE "reduce"

Assignment(k, i) ==
    IF k = "map"
      THEN [kind |-> k, task |-> i, left |-> Task("reduce")]
      ELSE [kind |-> k, task |-> i, left |-> Task("map"), got |-> {},
            written |-> FALSE]

(* A mutant: task numbers taken for indices that start at zero.            *)
scheduleRequeueOffByOne(k, i) == timer' = [timer EXCEPT ![k] = @ \cup {i - 1}]

(* The requeue goroutine's wait begins.  The timer it replaces has fired:  *)
(* it put the task back into the queue.                                    *)
scheduleRequeueLocked(k, i) == timer' = [timer EXCEPT ![k] = @ \cup {i}]

GetJob(w) ==
    LET k == Phase
        i == Head(queue[k])
    IN  /\ ~exited
        /\ worker[w] = Idle
        /\ queue[k] # <<>>
        /\ queue' = [queue EXCEPT ![k] = Tail(@)]
        /\ repeated' = (repeated \/ taskState[k][i] = "Done")
        /\ taskState' = [taskState EXCEPT ![k][i] = "InProgress"]
        /\ scheduleRequeueLocked(k, i)
        /\ worker' = [worker EXCEPT ![w] = Assignment(k, i)]
        /\ UNCHANGED <<finished, files, out, exited>>

(* SleepTask: the worker will ask again.                                   *)
Sleep(w) ==
    /\ ~exited
    /\ worker[w] = Idle
    /\ queue[Phase] = <<>>
    /\ UNCHANGED vars

(* A mutant: every completion is counted.                                  *)
OnJobFinishCounting(k, i) ==
    /\ finished' = [finished EXCEPT ![k] = @ + 1]
    /\ taskState' = [taskState EXCEPT ![k][i] = "Done"]
    /\ UNCHANGED <<queue, timer, repeated>>

OnJobFinish(k, i) ==
    /\ finished' = [finished EXCEPT ![k] = IF taskState[k][i] # "Done" THEN @ + 1 ELSE @]
    /\ taskState' = [taskState EXCEPT ![k][i] = "Done"]
    /\ UNCHANGED <<queue, timer, repeated>>

(* Mutants: the timer goes off again and again; the task is not put back.  *)
RequeueTicking(k, i) ==
    /\ ~exited
    /\ i \in timer[k]
    /\ taskState[k][i] # "Done"
    /\ Len(queue[k]) < Total[k]
    /\ queue' = [queue EXCEPT ![k] = Append(@, i)]
    /\ taskState' = [taskState EXCEPT ![k][i] = "Idle"]
    /\ UNCHANGED <<timer, finished, repeated, worker, files, out, exited>>

RequeueForgetting(k, i) ==
    /\ ~exited
    /\ i \in timer[k]
    /\ timer' = [timer EXCEPT ![k] = @ \ {i}]
    /\ taskState' = [taskState EXCEPT ![k][i] = IF @ # "Done" THEN "Idle" ELSE @]
    /\ UNCHANGED <<queue, finished, repeated, worker, files, out, exited>>

(* The goroutine of scheduleRequeueLocked once its timer has gone off.     *)
Requeue(k, i) ==
    /\ ~exited
    /\ i \in timer[k]
    /\ timer' = [timer EXCEPT ![k] = @ \ {i}]
    /\ IF taskState[k][i] # "Done"
         THEN /\ Len(queue[k]) < Total[k]   \* or it blocks, holding the lock
              /\ queue' = [queue EXCEPT ![k] = Append(@, i)]
              /\ taskState' = [taskState EXCEPT ![k][i] = "Idle"]
         ELSE UNCHANGED <<queue, taskState>>
    /\ UNCHANGED <<finished, repeated, worker, files, out, exited>>

Done == finished["reduce"] = NReduce

(* main/mrcoordinator.go polls Done and exits.                             *)
Exit ==
    /\ ~exited
    /\ Done
    /\ exited' = TRUE
    /\ UNCHANGED <<coordVars, worker, files, out>>

-----------------------------------------------------------------------------
(* The workers.                                                            *)

Busy(w, k) == worker[w].kind = k

(* One round of the renaming loop.                                         *)
runMapFunction(w) ==
    /\ Busy(w, "map")
    /\ \E j \in worker[w].left :
        /\ files' = files \cup {<<worker[w].task, j>>}
        /\ worker' = [worker EXCEPT ![w].left = @ \ {j}]
    /\ UNCHANGED <<coordVars, out, exited>>

(* One round of the reading loop; a file that is missing is passed over.   *)
readFile(w) ==
    /\ Busy(w, "reduce")
    /\ worker[w].left # {}
    /\ LET i == CHOOSE i \in worker[w].left : \A n \in worker[w].left : i <= n
           found == IF <<i, worker[w].task>> \in files THEN {i} ELSE {}
       IN  worker' = [worker EXCEPT ![w] =
               [kind |-> "reduce", task |-> worker[w].task, left |-> worker[w].left \ {i},
                got |-> worker[w].got \cup found, written |-> FALSE]]
    /\ UNCHANGED <<coordVars, files, out, exited>>

(* The rename at the end of runReduceFunction.                             *)
runReduceFunction(w) ==
    /\ Busy(w, "reduce")
    /\ worker[w].left = {}
    /\ ~worker[w].written
    /\ out' = [out EXCEPT ![worker[w].task] = worker[w].got]
    /\ worker' = [worker EXCEPT ![w].written = TRUE]
    /\ UNCHANGED <<coordVars, files, exited>>

(* sendResult, and the handler it calls.                                   *)
sendResult(w) ==
    /\ ~exited
    /\ \/ Busy(w, "map") /\ worker[w].left = {}
       \/ Busy(w, "reduce") /\ worker[w].written
    /\ finished[worker[w].kind] < Total[worker[w].kind] + Extra   \* bound
    /\ OnJobFinish(worker[w].kind, worker[w].task)
    /\ worker' = [worker EXCEPT ![w] = Idle]
    /\ UNCHANGED <<files, out, exited>>

(* A worker crashes, or cannot reach a coordinator that has gone.          *)
Crash(w) ==
    /\ worker[w] # Dead
    /\ w \in Mortal \/ exited
    /\ worker' = [worker EXCEPT ![w] = Dead]
    /\ UNCHANGED <<coordVars, files, out, exited>>

Work(w) ==
    GetJob(w) \/ runMapFunction(w) \/ readFile(w) \/ runReduceFunction(w) \/ sendResult(w)

Next ==
    \/ \E w \in Worker : Work(w) \/ Sleep(w) \/ Crash(w)
    \/ \E k \in Kind : \E i \in Task(k) : Requeue(k, i)
    \/ Exit

(* Workers that live keep working, timers go off.                          *)
Fairness ==
    /\ \A w \in Worker : WF_vars(Work(w))
    /\ \A k \in Kind : \A i \in Task(k) : WF_vars(Requeue(k, i))

Spec == Init /\ [][Next]_vars /\ Fairness

-----------------------------------------------------------------------------
DoneTasks(k) == {i \in Task(k) : taskState[k][i] = "Done"}

(* The send of scheduleRequeueLocked's goroutine holds the lock that       *)
(* GetJob needs to empty the queue, so the queue must have room for it:    *)
(* no task is in the queue twice, or there while its timer runs.           *)
QueueHasRoom ==
    \A k \in Kind :
        /\ \A i \in timer[k] : taskState[k][i] # "Done" => Len(queue[k]) < Total[k]
        /\ \A a, b \in DOMAIN queue[k] : queue[k][a] = queue[k][b] => a = b

(* Unless a finished task was handed out again, the counters that GetJob   *)
(* and Done compare are the numbers of finished tasks.                     *)
CountsExact == ~repeated => \A k \in Kind : finished[k] = Cardinality(DoneTasks(k))

(* Unless a finished task was handed out again, a reduce counted as done   *)
(* was made from the output of every map, crashes and late workers         *)
(* included.                                                               *)
OutputComplete ==
    ~repeated => \A j \in DoneTasks("reduce") : out[j] = Task("map")

(* "find out if the entire job has finished" (Done): every output is there *)
(* and complete.                                                           *)
DoneMeansFinished == Done => \A j \in Task("reduce") : out[j] = Task("map")

(* The inductive invariant.  A queue holds no task twice and none whose    *)
(* timer runs.                                                             *)
Scheduled ==
    \A k \in Kind :
        /\ \A a, b \in DOMAIN queue[k] : queue[k][a] = queue[k][b] => a = b
        /\ \A a \in DOMAIN queue[k] : queue[k][a] \notin timer[k]

(* A map that is done has written every bucket, and one that runs has      *)
(* written those it has not left.                                          *)
MapsWritten ==
    /\ \A i \in DoneTasks("map") : \A j \in Task("reduce") : <<i, j>> \in files
    /\ \A w \in Worker : worker[w] \in MapJob =>
          \A j \in Task("reduce") \ worker[w].left : <<worker[w].task, j>> \in files

(* A reduce runs after every map is done, and finds every file it reads.   *)
ReducesRead ==
    \A w \in Worker : worker[w] \in ReduceJob =>
        /\ DoneTasks("map") = Task("map")
        /\ worker[w].got \cup worker[w].left = Task("map")
        /\ worker[w].written => out[worker[w].task] = Task("map")

(* MapsWritten, ReducesRead and the counts are lost once a task that was   *)
(* done is handed out again.                                               *)
MRInv ==
    /\ TypeOK
    /\ Scheduled
    /\ ~repeated => /\ \A k \in Kind : finished[k] = Cardinality(DoneTasks(k))
                    /\ MapsWritten
                    /\ ReducesRead
                    /\ \A j \in DoneTasks("reduce") : out[j] = Task("map")

(* The job ends as long as one worker lives, unless a finished task is     *)
(* handed out again.                                                       *)
EventuallyDone == []~repeated => <>Done
=============================================================================
