------------------------ MODULE BlockingServer_proofs ------------------------
(***************************************************************************)
(* Proofs about the thread pool and about the blocking server that uses    *)
(* it, for every number of threads, watermarks, queue limit, number of     *)
(* clients and limit on connections.  The first part is about the pool     *)
(* alone (module Executor).  The server's steps are steps of the pool, so  *)
(* the pool's invariant holds in it; what the connections add is proved on *)
(* top of that invariant.                                                  *)
(***************************************************************************)
EXTENDS BlockingServer, SequenceTheorems, FiniteSetTheorems, TLAPS

-----------------------------------------------------------------------------
(* Type correctness. *)

WorkerRec == [pc : {"off", "top", "wait", "run", "exited"}, job : 0..MaxTasks]
StopRec == [pc : {"idle", "loop", "join", "joining", "close"},
            calls : 0..MaxStops, await : BOOLEAN,
            i : Nat \ {0}, w : Worker \cup {NoThread}]

(* Tasks are numbered by acceptance, so a started task has been accepted. *)
QueueInv ==
  /\ started + Len(tasks) = accepted
  /\ \A i \in 1..Len(tasks) : tasks[i] = started + i

(* What is running and what is done, and nothing else, has been started. *)
RunInv ==
  /\ 1..started = done \cup {worker[w].job : w \in {v \in Worker : worker[v].pc = "run"}}
  /\ \A v, w \in Worker :
       worker[v].pc = "run" /\ worker[w].pc = "run" =>
         worker[v].job \notin done /\ (worker[v].job = worker[w].job => v = w)

(* Erasing a thread's slot leaves a sequence of slots. *)
LEMMA EraseType ==
  ASSUME NEW w \in Worker, threads \in Seq(Worker \cup {NoThread}), EraseSelf(w)
  PROVE  threads' \in Seq(Worker \cup {NoThread})
<1> DEFINE Slots == {i \in 1..Len(threads) : threads[i] = w}
<1>1. CASE Slots = {}
  BY <1>1 DEF EraseSelf
<1>2. CASE Slots # {}
  <2> DEFINE n == CHOOSE i \in Slots : \A j \in Slots : i <= j
  <2>1. threads' = [j \in 1..Len(threads) - 1 |-> threads[IF j < n THEN j ELSE j + 1]]
    BY <1>2 DEF EraseSelf
  <2> HIDE DEF n
  <2>2. Len(threads) \in Nat /\ Len(threads) - 1 \in Nat
    BY <1>2
  <2>3. \A j \in 1..Len(threads) - 1 :
          threads[IF j < n THEN j ELSE j + 1] \in Worker \cup {NoThread}
    <3> TAKE j \in 1..Len(threads) - 1
    <3>1. j \in 1..Len(threads) /\ j + 1 \in 1..Len(threads)
      BY <2>2
    <3>2. threads[j] \in Worker \cup {NoThread} /\ threads[j + 1] \in Worker \cup {NoThread}
      BY <3>1
    <3>3. QED
      BY <3>2
  <2>4. QED
    BY <2>1, <2>2, <2>3
<1>3. QED
  BY <1>1, <1>2

(* The first task of a queue, and what is left of it. *)
LEMMA QueueFront ==
  ASSUME TypeOK, tasks # <<>>
  PROVE  /\ Len(tasks) \in Nat /\ Len(tasks) > 0
         /\ Head(tasks) = tasks[1] /\ Head(tasks) \in 1..MaxTasks
         /\ Tail(tasks) \in Seq(1..MaxTasks)
         /\ Len(Tail(tasks)) = Len(tasks) - 1
         /\ \A i \in 1..Len(tasks) - 1 : Tail(tasks)[i] = tasks[i + 1]
<1>1. tasks \in Seq(1..MaxTasks)
  BY DEF TypeOK
<1>2. /\ Head(tasks) \in 1..MaxTasks
      /\ Tail(tasks) \in Seq(1..MaxTasks)
      /\ Len(Tail(tasks)) = Len(tasks) - 1
      /\ \A i \in 1..Len(Tail(tasks)) : Tail(tasks)[i] = tasks[i + 1]
  BY <1>1, HeadTailProperties
<1>3. Len(tasks) \in Nat /\ Len(tasks) > 0 /\ Head(tasks) = tasks[1]
  BY <1>1
<1>4. QED
  BY <1>2, <1>3

(* Stop moves its place, its index and the thread it joins one at a time. *)
LEMMA StopType ==
  ASSUME stop \in StopRec, NEW p \in {"idle", "loop", "join", "joining", "close"}
  PROVE  /\ [stop EXCEPT !.pc = p] \in StopRec
         /\ \A w \in Worker \cup {NoThread} : [stop EXCEPT !.pc = p, !.w = w] \in StopRec
         /\ \A n \in Nat \ {0} :
              /\ [stop EXCEPT !.i = n] \in StopRec
              /\ [stop EXCEPT !.pc = p, !.i = n, !.w = NoThread] \in StopRec
<1>1. [stop EXCEPT !.pc = p] \in StopRec
  BY DEF StopRec
<1>2. ASSUME NEW w \in Worker \cup {NoThread}
      PROVE  [stop EXCEPT !.pc = p, !.w = w] \in StopRec
  BY DEF StopRec
<1>3. ASSUME NEW n \in Nat \ {0} PROVE [stop EXCEPT !.i = n] \in StopRec
  BY DEF StopRec
<1>4. ASSUME NEW n \in Nat \ {0}
      PROVE  [stop EXCEPT !.pc = p, !.i = n, !.w = NoThread] \in StopRec
  BY DEF StopRec
<1>5. QED
  BY <1>1, <1>2, <1>3, <1>4

(* Execute adds one task at the back and at most one thread. *)
LEMMA ExecuteType == ASSUME TypeOK, QueueInv, Execute PROVE TypeOK'
<1> USE DEF WorkerRec, StopRec
<1>1. tasks \in Seq(1..MaxTasks) /\ accepted + 1 \in 1..MaxTasks /\ Len(tasks) \in Nat
  BY ExecutorAssumption DEF TypeOK, Execute
<1>2. tasks' \in Seq(1..MaxTasks) /\ Len(tasks') = Len(tasks) + 1
  BY <1>1, AppendProperties DEF Execute
<1>3. Len(tasks') <= max_queue_size /\ accepted' \in 0..MaxTasks
  BY <1>1, <1>2, ExecutorAssumption DEF TypeOK, Execute, Rejected
<1>4. threads' \in Seq(Worker \cup {NoThread}) /\ worker' \in [Worker -> WorkerRec]
  <2>1. CASE UNCHANGED <<threads, worker>>
    BY <2>1 DEF TypeOK
  <2>2. CASE \E w \in Worker :
               /\ threads' = Append(threads, w)
               /\ worker' = [worker EXCEPT ![w] = [pc |-> "top", job |-> 0]]
    <3>1. PICK w \in Worker :
               /\ threads' = Append(threads, w)
               /\ worker' = [worker EXCEPT ![w] = [pc |-> "top", job |-> 0]]
      BY <2>2
    <3>2. threads' \in Seq(Worker \cup {NoThread})
      BY <3>1, AppendProperties DEF TypeOK
    <3>3. [pc |-> "top", job |-> 0] \in WorkerRec
      BY ExecutorAssumption
    <3>4. QED
      BY <3>1, <3>2, <3>3 DEF TypeOK
  <2>3. QED
    BY <2>1, <2>2 DEF Execute
<1>5. QED
  BY <1>2, <1>3, <1>4 DEF TypeOK, Execute

(* The record of a thread that has left. *)
LEMMA WorkerTypes ==
  ASSUME TypeOK, NEW w \in Worker
  PROVE  /\ [worker EXCEPT ![w] = Exited] \in [Worker -> WorkerRec]
         /\ [worker EXCEPT ![w].pc = "top"] \in [Worker -> WorkerRec]
         /\ [worker EXCEPT ![w].pc = "wait"] \in [Worker -> WorkerRec]
         /\ [worker EXCEPT ![w] = [pc |-> "top", job |-> 0]] \in [Worker -> WorkerRec]
         /\ worker[w] \in WorkerRec
<1>1. Exited \in WorkerRec /\ [pc |-> "top", job |-> 0] \in WorkerRec
  BY ExecutorAssumption DEF Exited, WorkerRec
<1>2. worker \in [Worker -> WorkerRec]
  BY DEF TypeOK, WorkerRec
<1>3. [worker EXCEPT ![w].pc = "top"] \in [Worker -> WorkerRec]
  BY <1>2 DEF WorkerRec
<1>4. [worker EXCEPT ![w].pc = "wait"] \in [Worker -> WorkerRec]
  BY <1>2 DEF WorkerRec
<1>5. QED
  BY <1>1, <1>2, <1>3, <1>4

(* A thread that wait_for has sent back keeps the vector and its own record  *)
(* well typed.                                                               *)
LEMMA WokenType ==
  ASSUME TypeOK, NEW w \in Worker, Woken(w)
  PROVE  threads' \in Seq(Worker \cup {NoThread}) /\ worker' \in [Worker -> WorkerRec]
<1>1. threads \in Seq(Worker \cup {NoThread})
  BY DEF TypeOK
<1>2. QED
  BY <1>1, EraseType, WorkerTypes DEF Woken

(* The steps of perform. *)
LEMMA PerformType ==
  ASSUME TypeOK, QueueInv, RunInv, NEW w \in Worker,
         Perform(w) \/ TaskReturns(w) \/ TaskThrows(w)
  PROVE  TypeOK'
<1> USE DEF StopRec
<1>1. CASE LoopTop(w)
  <2>1. threads' \in Seq(Worker \cup {NoThread}) /\ worker' \in [Worker -> WorkerRec]
    BY <1>1, WokenType, WorkerTypes, SMTT(20) DEF LoopTop, TypeOK
  <2>2. num_working' \in Int
    BY <1>1 DEF LoopTop, Decremented, TypeOK
  <2>3. UNCHANGED <<tasks, state, started, stop, accepted, done, terminated>>
    BY <1>1 DEF LoopTop, Woken
  <2>4. QED
    BY <2>1, <2>2, <2>3 DEF TypeOK, WorkerRec
<1>2. CASE WaitTrue(w)
  <2>1. threads' \in Seq(Worker \cup {NoThread}) /\ worker' \in [Worker -> WorkerRec]
    BY <1>2, WokenType DEF WaitTrue
  <2>2. UNCHANGED <<tasks, state, started, num_working, stop, accepted, done, terminated>>
    BY <1>2 DEF WaitTrue, Woken
  <2>3. QED
    BY <2>1, <2>2 DEF TypeOK, WorkerRec
<1>3. CASE WaitTimeout(w)
  <2>1. tasks # <<>>
    BY <1>3 DEF WaitTimeout, Predicate
  <2>2. /\ Head(tasks) \in 1..MaxTasks /\ Tail(tasks) \in Seq(1..MaxTasks)
        /\ Len(Tail(tasks)) = Len(tasks) - 1 /\ Len(tasks) \in Nat /\ Len(tasks) > 0
    BY <2>1, QueueFront
  <2>3. [pc |-> "run", job |-> Head(tasks)] \in WorkerRec
    BY <2>2, ExecutorAssumption DEF WorkerRec
  <2>4. worker' \in [Worker -> WorkerRec]
    BY <1>3, <2>3 DEF WaitTimeout, TypeOK, WorkerRec
  <2>5. started' \in 0..MaxTasks /\ num_working' \in Int
    BY <1>3, <2>2 DEF WaitTimeout, TypeOK, QueueInv
  <2>6. tasks' \in Seq(1..MaxTasks) /\ Len(tasks') <= max_queue_size
    BY <1>3, <2>2, ExecutorAssumption DEF WaitTimeout, TypeOK
  <2>7. QED
    BY <1>3, <2>4, <2>5, <2>6 DEF WaitTimeout, TypeOK, WorkerRec
<1>4. CASE WaitStopped(w)
  <2>1. worker' \in [Worker -> WorkerRec]
    BY <1>4, WorkerTypes DEF WaitStopped
  <2>2. QED
    BY <1>4, <2>1 DEF WaitStopped, history, TypeOK, WorkerRec
<1>5. CASE TaskReturns(w)
  <2>1. worker' \in [Worker -> WorkerRec] /\ worker[w] \in WorkerRec
    BY <1>5, WorkerTypes DEF TaskReturns
  <2>2. done' \subseteq 1..MaxTasks
    BY <1>5 DEF TaskReturns, TypeOK, RunInv
  <2>3. QED
    BY <1>5, <2>1, <2>2 DEF TaskReturns, TypeOK, WorkerRec
<1>6. CASE TaskThrows(w)
  BY <1>6 DEF TaskThrows, TypeOK, history
<1>7. QED
  BY <1>1, <1>2, <1>3, <1>4, <1>5, <1>6 DEF Perform

(* The steps of Stop. *)
LEMMA StopStepType ==
  ASSUME TypeOK, (\E await \in BOOLEAN : Stop(await)) \/ Stopping
  PROVE  TypeOK'
<1>0. stop \in StopRec
  BY DEF TypeOK, StopRec
<1>1. CASE \E await \in BOOLEAN : Stop(await)
  <2>1. PICK await \in BOOLEAN : Stop(await)
    BY <1>1
  <2>2. PICK n \in 0..MaxStops : n = stop.calls + 1
    <3>1. stop.calls \in 0..MaxStops /\ stop.calls < MaxStops
      BY <1>0, <2>1 DEF Stop, StopRec
    <3>2. stop.calls + 1 \in 0..MaxStops
      BY <3>1, ExecutorAssumption
    <3>3. QED
      BY <3>2
  <2>3. PICK p \in {"loop", "close"} : p = IF await THEN "loop" ELSE "close"
    OBVIOUS
  <2>4. PICK m \in Nat \ {0} : m = 1
    OBVIOUS
  <2>5. /\ stop' = [stop EXCEPT !.pc = p, !.calls = n, !.await = await, !.i = m]
        /\ stop' \in StopRec
    <3>1. stop' = [stop EXCEPT !.pc = p, !.calls = n, !.await = await, !.i = m]
      BY <2>1, <2>2, <2>3, <2>4 DEF Stop
    <3>2. [stop EXCEPT !.pc = p, !.calls = n, !.await = await, !.i = m] \in StopRec
      BY <1>0 DEF StopRec
    <3>3. QED
      BY <3>1, <3>2
  <2>6. state' \in {"kRun", "kStopping", "kStopped"}
    BY <2>1 DEF Stop, TypeOK
  <2>7. QED
    BY <2>1, <2>5, <2>6 DEF Stop, TypeOK, StopRec, history
<1>2. CASE StopCheck
  <2>1. PICK n \in Nat \ {0} : n = stop.i + 1
    BY <1>0 DEF StopRec
  <2>2. \/ stop' = [stop EXCEPT !.pc = "close"]
        \/ stop' = [stop EXCEPT !.pc = "join"]
        \/ stop' = [stop EXCEPT !.i = n]
    BY <1>2, <2>1 DEF StopCheck
  <2>3. stop' \in StopRec
    BY <1>0, <2>2, StopType, ExecutorAssumption
  <2>4. QED
    BY <1>2, <2>3 DEF StopCheck, TypeOK, StopRec, pool, history
<1>3. CASE StopJoin
  <2>1. stop' \in StopRec
    <3>1. CASE Joinable(stop.i)
      <4>1. PICK w \in Worker \cup {NoThread} : w = threads[stop.i]
        <5>1. stop.i \in 1..Len(threads)
          BY <1>0, <3>1 DEF Joinable, TypeOK, StopRec
        <5>2. threads[stop.i] \in Worker \cup {NoThread}
          BY <5>1, ElementOfSeq DEF TypeOK
        <5>3. QED
          BY <5>2
      <4>2. QED
        BY <1>0, <1>3, <3>1, <4>1, StopType DEF StopJoin
    <3>2. CASE ~Joinable(stop.i)
      BY <1>0, <1>3, <3>2 DEF StopJoin
    <3>3. QED
      BY <3>1, <3>2
  <2>2. terminated' \in BOOLEAN
    BY <1>3 DEF StopJoin, TypeOK
  <2>3. QED
    BY <1>3, <2>1, <2>2 DEF StopJoin, TypeOK, StopRec, history
<1>4. CASE StopJoined
  <2>1. PICK n \in Nat \ {0} : n = stop.i + 1
    BY <1>0 DEF StopRec
  <2>2. stop' = [stop EXCEPT !.pc = "loop", !.i = n, !.w = NoThread]
    BY <1>4, <2>1 DEF StopJoined
  <2>3. stop' \in StopRec
    BY <1>0, <2>2, StopType
  <2>4. threads' \in Seq(Worker \cup {NoThread})
    <3>1. /\ threads \in Seq(Worker \cup {NoThread}) /\ Len(threads) \in Nat
          /\ \A j \in 1..Len(threads) : threads[j] \in Worker \cup {NoThread}
      BY DEF TypeOK
    <3>2. QED
      BY <1>4, <3>1 DEF StopJoined
  <2>5. QED
    BY <1>4, <2>3, <2>4 DEF StopJoined, TypeOK, StopRec, history
<1>5. CASE StopClose
  <2>1. stop' \in StopRec
    BY <1>0, <1>5, StopType, ExecutorAssumption DEF StopClose
  <2>2. QED
    BY <1>5, <2>1 DEF StopClose, TypeOK, StopRec, history
<1>6. QED
  BY <1>1, <1>2, <1>3, <1>4, <1>5 DEF Stopping

-----------------------------------------------------------------------------
(* Every accepted task is queued, running or done, exactly once. *)

(* Steps other than Execute and WaitTimeout leave the queue alone. *)
LEMMA QueueUnchanged ==
  ASSUME [Next]_vars, ~Execute, \A w \in Worker : ~WaitTimeout(w)
  PROVE  UNCHANGED <<tasks, accepted, started>>
BY DEF Next, Perform, Stopping, LoopTop, WaitTrue, WaitStopped, Woken, TaskReturns,
       TaskThrows, Stop, StopCheck, StopJoin, StopJoined, StopClose, vars, pool, history

(* The queue stays the interval of accepted tasks not yet started. *)
LEMMA QueueStep == ASSUME TypeOK, QueueInv, [Next]_vars PROVE QueueInv'
<1>1. CASE Execute
  <2>1. tasks \in Seq(1..MaxTasks) /\ accepted + 1 \in 1..MaxTasks /\ Len(tasks) \in Nat
    BY <1>1, ExecutorAssumption DEF TypeOK, Execute
  <2>2. /\ Len(tasks') = Len(tasks) + 1
        /\ \A i \in 1..Len(tasks) : tasks'[i] = tasks[i]
        /\ tasks'[Len(tasks) + 1] = accepted + 1
        /\ accepted' = accepted + 1 /\ started' = started
    BY <1>1, <2>1, AppendProperties DEF Execute
  <2>3. started + Len(tasks) = accepted /\ started \in Nat /\ accepted \in Nat
    BY DEF QueueInv, TypeOK
  <2>4. ASSUME NEW i \in 1..Len(tasks') PROVE tasks'[i] = started' + i
    <3>1. CASE i = Len(tasks) + 1
      BY <2>1, <2>2, <2>3, <3>1
    <3>2. CASE i # Len(tasks) + 1
      <4>1. i \in 1..Len(tasks)
        BY <2>1, <2>2, <3>2
      <4>2. QED
        BY <2>2, <4>1 DEF QueueInv
    <3>3. QED
      BY <3>1, <3>2
  <2>5. started' + Len(tasks') = accepted'
    BY <2>1, <2>2, <2>3
  <2>6. QED
    BY <2>4, <2>5 DEF QueueInv
<1>2. CASE \E w \in Worker : WaitTimeout(w)
  <2>1. tasks # <<>> /\ tasks' = Tail(tasks) /\ started' = started + 1 /\ accepted' = accepted
    BY <1>2 DEF WaitTimeout, Predicate
  <2>2. /\ Len(tasks) \in Nat /\ Len(tasks) > 0
        /\ Len(tasks') = Len(tasks) - 1
        /\ \A i \in 1..Len(tasks) - 1 : tasks'[i] = tasks[i + 1]
    BY <2>1, QueueFront
  <2>3. started \in Nat /\ accepted \in Nat
    BY DEF TypeOK
  <2>4. ASSUME NEW i \in 1..Len(tasks') PROVE tasks'[i] = started' + i
    <3>1. tasks'[i] = tasks[i + 1] /\ i + 1 \in 1..Len(tasks)
      BY <2>2
    <3>2. QED
      BY <2>1, <2>3, <3>1 DEF QueueInv
  <2>5. QED
    BY <2>1, <2>2, <2>3, <2>4 DEF QueueInv
<1>3. CASE ~Execute /\ \A w \in Worker : ~WaitTimeout(w)
  BY <1>3, QueueUnchanged DEF QueueInv
<1>4. QED
  BY <1>1, <1>2, <1>3

Jobs == {worker[w].job : w \in {v \in Worker : worker[v].pc = "run"}}

(* Steps other than taking and finishing a task leave the running tasks      *)
(* alone.                                                                    *)
LEMMA JobsUnchanged ==
  ASSUME TypeOK, [Next]_vars,
         \A w \in Worker : ~WaitTimeout(w) /\ ~TaskReturns(w)
  PROVE  /\ UNCHANGED <<started, done>>
         /\ \A w \in Worker : worker[w].pc = "run" <=> worker'[w].pc = "run"
         /\ \A w \in Worker : worker[w].pc = "run" => worker'[w] = worker[w]
<1>0. worker \in [Worker -> WorkerRec]
  BY DEF TypeOK, WorkerRec
<1>1. CASE UNCHANGED <<worker, started, done>>
  BY <1>1
<1>2. CASE Execute
  <2>1. CASE UNCHANGED worker
    BY <1>2, <2>1 DEF Execute
  <2>2. CASE \E w \in Worker :
               /\ worker[w] = Off
               /\ worker' = [worker EXCEPT ![w] = [pc |-> "top", job |-> 0]]
    BY <1>0, <1>2, <2>2 DEF Execute, Off
  <2>3. QED
    BY <1>2, <2>1, <2>2 DEF Execute
<1>3. ASSUME NEW w \in Worker, LoopTop(w) \/ WaitTrue(w) \/ WaitStopped(w)
      PROVE  /\ UNCHANGED <<started, done>>
             /\ \A v \in Worker : worker[v].pc = "run" <=> worker'[v].pc = "run"
             /\ \A v \in Worker : worker[v].pc = "run" => worker'[v] = worker[v]
  <2>1. worker[w].pc # "run" /\ UNCHANGED <<started, done>>
    BY <1>3 DEF LoopTop, WaitTrue, WaitStopped, Woken, history
  <2>2. \/ worker' = [worker EXCEPT ![w] = Exited]
        \/ worker' = [worker EXCEPT ![w].pc = "top"]
        \/ worker' = [worker EXCEPT ![w].pc = "wait"]
    BY <1>3 DEF LoopTop, WaitTrue, WaitStopped, Woken
  <2>3. QED
    BY <1>0, <2>1, <2>2 DEF Exited, WorkerRec
<1>4. QED
  BY <1>1, <1>2, <1>3
  DEF Next, Perform, Stopping, TaskThrows, Stop, StopCheck, StopJoin, StopJoined,
      StopClose, vars, pool, history

(* A task moves from the queue to one thread and from there to `done'. *)
LEMMA RunStep == ASSUME TypeOK, QueueInv, RunInv, [Next]_vars PROVE RunInv'
<1>0. worker \in [Worker -> WorkerRec] /\ started \in Nat
  BY DEF TypeOK, WorkerRec
<1>1. ASSUME NEW w \in Worker, WaitTimeout(w) PROVE RunInv'
  <2>1. /\ Head(tasks) = tasks[1] /\ 1 \in 1..Len(tasks)
    BY <1>1, QueueFront DEF WaitTimeout, Predicate
  <2>2. Head(tasks) = started + 1
    BY <2>1 DEF QueueInv
  <2>3. /\ worker' = [worker EXCEPT ![w] = [pc |-> "run", job |-> started + 1]]
        /\ started' = started + 1 /\ done' = done /\ worker[w].pc # "run"
    BY <1>1, <2>2 DEF WaitTimeout
  <2>4. started + 1 \notin 1..started /\ 1..started + 1 = 1..started \cup {started + 1}
    BY <1>0
  <2>5. /\ worker'[w] = [pc |-> "run", job |-> started + 1]
        /\ \A v \in Worker \ {w} : worker'[v] = worker[v]
    BY <1>0, <2>3
  <2>6. Jobs' = Jobs \cup {started + 1}
    BY <2>3, <2>5 DEF Jobs
  <2>7. 1..started' = done' \cup Jobs'
    BY <2>3, <2>4, <2>6 DEF RunInv, Jobs
  <2>8. \A v \in Worker : worker[v].pc = "run" => worker[v].job \in 1..started
    BY DEF RunInv
  <2>9. started + 1 \notin done
    BY <2>4 DEF RunInv
  <2>10. ASSUME NEW u \in Worker, NEW v \in Worker,
                worker'[u].pc = "run", worker'[v].pc = "run"
         PROVE  worker'[u].job \notin done' /\ (worker'[u].job = worker'[v].job => u = v)
    BY <2>3, <2>4, <2>5, <2>8, <2>9, <2>10 DEF RunInv
  <2>11. QED
    BY <2>7, <2>10 DEF RunInv, Jobs
<1>2. ASSUME NEW w \in Worker, TaskReturns(w) PROVE RunInv'
  <2>1. /\ worker[w].pc = "run" /\ started' = started
        /\ done' = done \cup {worker[w].job}
        /\ worker'[w].pc = "top"
        /\ \A v \in Worker \ {w} : worker'[v] = worker[v]
    BY <1>0, <1>2 DEF TaskReturns
  <2>2. done' \cup Jobs' = done \cup Jobs
    BY <2>1 DEF Jobs
  <2>3. 1..started' = done' \cup Jobs'
    BY <2>1, <2>2 DEF RunInv, Jobs
  <2>4. ASSUME NEW u \in Worker, NEW v \in Worker,
               worker'[u].pc = "run", worker'[v].pc = "run"
        PROVE  worker'[u].job \notin done' /\ (worker'[u].job = worker'[v].job => u = v)
    BY <2>1, <2>4 DEF RunInv
  <2>5. QED
    BY <2>3, <2>4 DEF RunInv, Jobs
<1>3. CASE \A w \in Worker : ~WaitTimeout(w) /\ ~TaskReturns(w)
  <2>1. /\ UNCHANGED <<started, done>>
        /\ \A w \in Worker : worker[w].pc = "run" <=> worker'[w].pc = "run"
        /\ \A w \in Worker : worker[w].pc = "run" => worker'[w] = worker[w]
    BY <1>3, JobsUnchanged
  <2>2. Jobs' = Jobs
    BY <2>1 DEF Jobs
  <2>3. QED
    BY <2>1, <2>2 DEF RunInv, Jobs
<1>4. QED
  BY <1>1, <1>2, <1>3

-----------------------------------------------------------------------------
(* The pool between its watermarks. *)

(* Stop can be in progress only after it has marked the pool. *)
PoolInv == PoolWithinWatermarks /\ (stop.pc # "idle" => state # "kRun")

(* A thread that erases its slot takes exactly its own name out of a list of *)
(* distinct threads.                                                         *)
LEMMA EraseSlots ==
  ASSUME NEW w \in Worker, NEW k \in 1..Len(threads), threads[k] = w,
         threads \in Seq(Worker \cup {NoThread}),
         \A i, j \in 1..Len(threads) : threads[i] = threads[j] => i = j,
         EraseSelf(w)
  PROVE  /\ Len(threads') = Len(threads) - 1
         /\ \A i, j \in 1..Len(threads') : threads'[i] = threads'[j] => i = j
         /\ {threads'[i] : i \in 1..Len(threads')} = {threads[i] : i \in 1..Len(threads)} \ {w}
<1> DEFINE Slots == {i \in 1..Len(threads) : threads[i] = w}
           n == CHOOSE i \in Slots : \A j \in Slots : i <= j
<1>1. Slots = {k}
  OBVIOUS
<1>2. n = k
  BY <1>1
<1>3. threads' = [j \in 1..Len(threads) - 1 |-> threads[IF j < k THEN j ELSE j + 1]]
  BY <1>1, <1>2 DEF EraseSelf
<1> HIDE DEF Slots, n
<1>4. Len(threads) \in Nat /\ Len(threads) - 1 \in Nat
  OBVIOUS
<1>5. Len(threads') = Len(threads) - 1
  BY <1>3, <1>4
<1>6. ASSUME NEW i \in 1..Len(threads) - 1, NEW j \in 1..Len(threads) - 1,
             threads'[i] = threads'[j]
      PROVE  i = j
  <2>1. threads[IF i < k THEN i ELSE i + 1] = threads[IF j < k THEN j ELSE j + 1]
    BY <1>3, <1>6
  <2>2. /\ (IF i < k THEN i ELSE i + 1) \in 1..Len(threads)
        /\ (IF j < k THEN j ELSE j + 1) \in 1..Len(threads)
    BY <1>4
  <2>3. (IF i < k THEN i ELSE i + 1) = (IF j < k THEN j ELSE j + 1)
    BY <2>1, <2>2
  <2>4. QED
    BY <1>4, <2>3
<1>7. ASSUME NEW i \in 1..Len(threads) - 1
      PROVE  \E j \in 1..Len(threads) : threads'[i] = threads[j] /\ threads[j] # w
  <2>1. PICK j \in 1..Len(threads) : j = (IF i < k THEN i ELSE i + 1)
    BY <1>4
  <2>2. j # k /\ threads'[i] = threads[j]
    BY <1>3, <1>4, <2>1
  <2>3. QED
    BY <2>2
<1>8. ASSUME NEW j \in 1..Len(threads), threads[j] # w
      PROVE  \E i \in 1..Len(threads) - 1 : threads'[i] = threads[j]
  <2>1. CASE j < k
    <3>1. j \in 1..Len(threads) - 1 /\ threads'[j] = threads[j]
      BY <1>3, <1>4, <2>1
    <3>2. QED
      BY <3>1
  <2>2. CASE ~(j < k)
    <3>1. j > k
      BY <1>8, <2>2
    <3>2. PICK i \in 1..Len(threads) - 1 : i = j - 1
      BY <1>4, <3>1
    <3>3. ~(i < k) /\ i + 1 = j
      BY <3>1, <3>2
    <3>4. threads'[i] = threads[j]
      BY <1>3, <3>3
    <3>5. QED
      BY <3>4
  <2>3. QED
    BY <2>1, <2>2
<1>9. {threads'[i] : i \in 1..Len(threads) - 1} = {threads[i] : i \in 1..Len(threads)} \ {w}
  <2> DEFINE Before == {threads[i] : i \in 1..Len(threads)}
             After == {threads'[i] : i \in 1..Len(threads) - 1}
  <2>1. ASSUME NEW x \in After PROVE x \in Before \ {w}
    BY <1>7
  <2>2. ASSUME NEW x \in Before \ {w} PROVE x \in After
    <3>1. PICK j \in 1..Len(threads) : x = threads[j]
      OBVIOUS
    <3>2. QED
      BY <1>8, <3>1
  <2>3. QED
    BY <2>1, <2>2
<1>10. QED
  BY <1>5, <1>6, <1>9

(* Adding a thread that is in no slot keeps the slots distinct. *)
LEMMA GrowSlots ==
  ASSUME NEW w \in Worker, threads \in Seq(Worker \cup {NoThread}),
         threads' = Append(threads, w),
         \A i \in 1..Len(threads) : threads[i] # w,
         \A i, j \in 1..Len(threads) : threads[i] = threads[j] => i = j
  PROVE  /\ Len(threads') = Len(threads) + 1
         /\ \A i, j \in 1..Len(threads') : threads'[i] = threads'[j] => i = j
         /\ {threads'[i] : i \in 1..Len(threads')} = {threads[i] : i \in 1..Len(threads)} \cup {w}
<1>1. /\ Len(threads') = Len(threads) + 1 /\ Len(threads) \in Nat
      /\ \A i \in 1..Len(threads) : threads'[i] = threads[i]
      /\ threads'[Len(threads) + 1] = w
  BY AppendProperties
<1>2. \A i \in 1..Len(threads') : i \in 1..Len(threads) \/ i = Len(threads) + 1
  BY <1>1
<1>3. \A i \in 1..Len(threads) : i \in 1..Len(threads')
  BY <1>1
<1>4. Len(threads) + 1 \in 1..Len(threads')
  BY <1>1
<1>5. QED
  BY <1>1, <1>2, <1>3, <1>4

(* The pool threads themselves: only starting and leaving change them. *)
LEMMA AliveUnchanged ==
  ASSUME TypeOK, UNCHANGED threads,
         \A w \in Worker : w \in Alive <=> w \in Alive',
         PoolInv, state' = "kRun" => state = "kRun",
         stop'.pc # "idle" => state' # "kRun"
  PROVE  PoolInv'
<1>1. Alive' = Alive
  BY DEF Alive
<1>2. QED
  BY <1>1 DEF PoolInv, PoolWithinWatermarks

(* Execute starts a new thread only below the high mark. *)
LEMMA ExecutePool == ASSUME TypeOK, PoolInv, Execute PROVE PoolInv'
<1>0. worker \in [Worker -> WorkerRec] /\ threads \in Seq(Worker \cup {NoThread})
  BY DEF TypeOK, WorkerRec
<1>1. state = "kRun" /\ state' = state /\ stop' = stop
  BY DEF Execute, Rejected
<1>2. CASE UNCHANGED <<threads, worker>>
  <2>1. Alive' = Alive
    BY <1>2 DEF Alive
  <2>2. QED
    BY <1>1, <1>2, <2>1, AliveUnchanged DEF PoolInv
<1>3. CASE /\ Len(threads) < high_watermark
           /\ \E w \in Worker :
                /\ worker[w] = Off
                /\ threads' = Append(threads, w)
                /\ worker' = [worker EXCEPT ![w] = [pc |-> "top", job |-> 0]]
  <2>1. PICK w \in Worker :
                /\ worker[w] = Off
                /\ threads' = Append(threads, w)
                /\ worker' = [worker EXCEPT ![w] = [pc |-> "top", job |-> 0]]
    BY <1>3
  <2>2. w \notin Alive
    BY <2>1 DEF Alive, Off
  <2>3. Alive' = Alive \cup {w}
    BY <1>0, <2>1 DEF Alive
  <2>4. \A i \in 1..Len(threads) : threads[i] # w
    BY <1>1, <2>2 DEF PoolInv, PoolWithinWatermarks
  <2>5. \A i, j \in 1..Len(threads) : threads[i] = threads[j] => i = j
    BY <1>1 DEF PoolInv, PoolWithinWatermarks
  <2>6. /\ Len(threads') = Len(threads) + 1
        /\ \A i, j \in 1..Len(threads') : threads'[i] = threads'[j] => i = j
        /\ {threads'[i] : i \in 1..Len(threads')}
           = {threads[i] : i \in 1..Len(threads)} \cup {w}
    BY <1>0, <2>1, <2>4, <2>5, GrowSlots
  <2>7. low_watermark <= Len(threads') /\ Len(threads') <= high_watermark
    <3>1. low_watermark <= Len(threads) /\ Len(threads) \in Nat
      BY <1>0, <1>1 DEF PoolInv, PoolWithinWatermarks
    <3>2. QED
      BY <1>3, <2>6, <3>1, ExecutorAssumption
  <2>8. {threads'[i] : i \in 1..Len(threads')} = Alive'
    BY <1>1, <2>3, <2>6 DEF PoolInv, PoolWithinWatermarks
  <2>9. QED
    BY <1>1, <2>6, <2>7, <2>8 DEF PoolInv, PoolWithinWatermarks
<1>4. QED
  BY <1>2, <1>3 DEF Execute

(* A thread leaves a running pool only through EraseSelf, and only above the *)
(* low mark.                                                                 *)
LEMMA WokenPool ==
  ASSUME TypeOK, PoolInv, NEW w \in Worker, worker[w].pc \in {"top", "wait"},
         Woken(w), UNCHANGED stop
  PROVE  PoolInv'
<1>0. worker \in [Worker -> WorkerRec] /\ threads \in Seq(Worker \cup {NoThread})
  BY DEF TypeOK, WorkerRec
<1>1. state' = state /\ w \in Alive
  BY DEF Woken, Alive
<1>2. CASE state # "kRun"
  BY <1>1, <1>2 DEF PoolInv, PoolWithinWatermarks
<1>3. CASE state = "kRun" /\ ~MayExit
  <2>1. UNCHANGED threads /\ worker' = [worker EXCEPT ![w].pc = "top"]
    BY <1>3 DEF Woken
  <2>2. Alive' = Alive
    BY <1>0, <2>1 DEF Alive, WorkerRec
  <2>3. QED
    BY <1>1, <2>1, <2>2, AliveUnchanged DEF PoolInv
<1>4. CASE state = "kRun" /\ MayExit
  <2>1. EraseSelf(w) /\ worker' = [worker EXCEPT ![w] = Exited]
    BY <1>4 DEF Woken
  <2>2. Len(threads) > low_watermark
    BY <1>4 DEF MayExit
  <2>3. Alive' = Alive \ {w}
    BY <1>0, <2>1 DEF Alive, Exited
  <2>4. PICK k \in 1..Len(threads) : threads[k] = w
    BY <1>1, <1>4 DEF PoolInv, PoolWithinWatermarks
  <2>5. \A i, j \in 1..Len(threads) : threads[i] = threads[j] => i = j
    BY <1>4 DEF PoolInv, PoolWithinWatermarks
  <2>6. /\ Len(threads') = Len(threads) - 1
        /\ \A i, j \in 1..Len(threads') : threads'[i] = threads'[j] => i = j
        /\ {threads'[i] : i \in 1..Len(threads')}
           = {threads[i] : i \in 1..Len(threads)} \ {w}
    BY <1>0, <2>1, <2>4, <2>5, EraseSlots
  <2>7. low_watermark <= Len(threads') /\ Len(threads') <= high_watermark
    <3>1. Len(threads) <= high_watermark /\ Len(threads) \in Nat
      BY <1>0, <1>4 DEF PoolInv, PoolWithinWatermarks
    <3>2. QED
      BY <2>2, <2>6, <3>1, ExecutorAssumption
  <2>8. {threads'[i] : i \in 1..Len(threads')} = Alive'
    BY <1>4, <2>3, <2>6 DEF PoolInv, PoolWithinWatermarks
  <2>9. QED
    BY <1>1, <1>4, <2>6, <2>7, <2>8 DEF PoolInv, PoolWithinWatermarks
<1>5. QED
  BY <1>2, <1>3, <1>4

(* Every other step keeps the threads of a running pool and their slots. *)
LEMMA PoolStep == ASSUME TypeOK, PoolInv, [Next]_vars PROVE PoolInv'
<1>0. worker \in [Worker -> WorkerRec] /\ stop \in StopRec
  BY DEF TypeOK, WorkerRec, StopRec
<1>1. CASE Execute
  BY <1>1, ExecutePool
<1>2. ASSUME NEW w \in Worker, LoopTop(w) PROVE PoolInv'
  <2>1. CASE Predicate
    BY <1>2, <2>1, WokenPool DEF LoopTop
  <2>2. CASE ~Predicate
    <3>1. UNCHANGED <<threads, state, stop>> /\ worker' = [worker EXCEPT ![w].pc = "wait"]
      BY <1>2, <2>2 DEF LoopTop
    <3>2. Alive' = Alive
      BY <1>0, <1>2, <3>1 DEF Alive, WorkerRec, LoopTop
    <3>3. QED
      BY <3>1, <3>2, AliveUnchanged DEF PoolInv
  <2>3. QED
    BY <2>1, <2>2
<1>3. ASSUME NEW w \in Worker, WaitTrue(w) PROVE PoolInv'
  BY <1>3, WokenPool DEF WaitTrue
<1>4. ASSUME NEW w \in Worker, WaitTimeout(w) \/ TaskReturns(w) PROVE PoolInv'
  <2>1. /\ UNCHANGED <<threads, state, stop>> /\ w \in Alive
        /\ \E r \in {"run", "top"} : \E j : worker' = [worker EXCEPT ![w] = [pc |-> r, job |-> j]]
    BY <1>4 DEF WaitTimeout, TaskReturns, Alive
  <2>2. Alive' = Alive
    BY <1>0, <2>1 DEF Alive
  <2>3. QED
    BY <2>1, <2>2, AliveUnchanged DEF PoolInv
<1>5. ASSUME NEW w \in Worker, WaitStopped(w) PROVE PoolInv'
  BY <1>5 DEF WaitStopped, PoolInv, PoolWithinWatermarks
<1>6. ASSUME NEW await \in BOOLEAN, Stop(await) PROVE PoolInv'
  BY <1>6 DEF Stop, PoolInv, PoolWithinWatermarks, TypeOK
<1>7. CASE StopCheck \/ StopJoin \/ StopJoined
  <2>1. state # "kRun" /\ state' = state
    BY <1>7 DEF StopCheck, StopJoin, StopJoined, PoolInv, pool
  <2>2. QED
    BY <2>1 DEF PoolInv, PoolWithinWatermarks
<1>8. CASE StopClose
  BY <1>8 DEF StopClose, PoolInv, PoolWithinWatermarks
<1>9. ASSUME UNCHANGED <<threads, state, stop, worker>> PROVE PoolInv'
  <2>1. Alive' = Alive
    BY <1>9 DEF Alive
  <2>2. QED
    BY <1>9, <2>1, AliveUnchanged DEF PoolInv
<1>10. QED
  BY <1>1, <1>2, <1>3, <1>4, <1>5, <1>6, <1>7, <1>8, <1>9
  DEF Next, Perform, Stopping, TaskThrows, vars

-----------------------------------------------------------------------------
(* The counter: a thread in wait_for has lowered it and not raised it since. *)

Waiting == {w \in Worker : worker[w].pc = "wait"}
CounterInv == num_working <= -Cardinality(Waiting)

(* What the sizes of sets of workers are. *)
LEMMA WaitingSize ==
  ASSUME NEW W \in SUBSET Worker, NEW w \in Worker
  PROVE  /\ Cardinality(W) \in Nat /\ Cardinality(Worker) \in Nat
         /\ Cardinality(W) <= Cardinality(Worker)
         /\ Cardinality(W \cup {w}) <= Cardinality(W) + 1
         /\ w \in W => Cardinality(W \ {w}) = Cardinality(W) - 1
         /\ w \notin W => W \ {w} = W
<1>1. IsFiniteSet(Worker) /\ IsFiniteSet(W)
  BY ExecutorAssumption, FS_Subset
<1>2. Cardinality(W) \in Nat /\ Cardinality(Worker) \in Nat
  BY <1>1, FS_CardinalityType
<1>3. QED
  BY <1>1, <1>2, FS_Subset, FS_AddElement, FS_RemoveElement

(* The counter stays below minus the number of waiting threads. *)
LEMMA CounterStep == ASSUME TypeOK, CounterInv, [Next]_vars PROVE CounterInv'
<1>0. worker \in [Worker -> WorkerRec] /\ num_working \in Int
  BY DEF TypeOK, WorkerRec
<1>1. Waiting \in SUBSET Worker /\ Waiting' \in SUBSET Worker
  BY DEF Waiting
<1>2. ASSUME UNCHANGED <<num_working, worker>> PROVE CounterInv'
  BY <1>2 DEF CounterInv, Waiting
<1>3. CASE Execute
  <2>1. \A w \in Worker : worker'[w].pc = "wait" <=> worker[w].pc = "wait"
    BY <1>0, <1>3 DEF Execute, Off
  <2>2. Waiting' = Waiting
    BY <2>1 DEF Waiting
  <2>3. QED
    BY <1>3, <2>2 DEF CounterInv, Execute
<1>4. ASSUME NEW w \in Worker, LoopTop(w) PROVE CounterInv'
  <2>1. Waiting' = Waiting \cup {w} \/ Waiting' = Waiting
    <3>1. /\ worker[w].pc = "top"
          /\ \/ worker' = [worker EXCEPT ![w] = Exited]
             \/ worker' = [worker EXCEPT ![w].pc = "top"]
             \/ worker' = [worker EXCEPT ![w].pc = "wait"]
      BY <1>4 DEF LoopTop, Woken
    <3>2. QED
      BY <1>0, <3>1 DEF Waiting, Exited, WorkerRec
  <2>2. num_working' = Decremented
    BY <1>4 DEF LoopTop
  <2>3. Cardinality(Waiting') <= Cardinality(Waiting) + 1 /\ Cardinality(Waiting) \in Nat
    <3>1. Cardinality(Waiting) \in Nat /\ Cardinality(Waiting \cup {w}) <= Cardinality(Waiting) + 1
      BY <1>1, WaitingSize
    <3>2. CASE Waiting' = Waiting \cup {w}
      BY <3>1, <3>2
    <3>3. CASE Waiting' = Waiting
      BY <3>1, <3>3
    <3>4. QED
      BY <2>1, <3>2, <3>3
  <2>4. Cardinality(Waiting') <= Cardinality(Worker) /\ Cardinality(Waiting') \in Nat
    BY <1>1, WaitingSize
  <2>5. Cardinality(Worker) \in Nat
    BY <1>1, WaitingSize
  <2>6. QED
    BY <1>0, <2>2, <2>3, <2>4, <2>5 DEF CounterInv, Decremented, Floor
<1>5. ASSUME NEW w \in Worker, WaitTrue(w) \/ WaitStopped(w) PROVE CounterInv'
  <2>1. Waiting' = Waiting \ {w} /\ w \in Waiting /\ num_working' = num_working
    <3>1. \/ worker' = [worker EXCEPT ![w] = Exited]
          \/ worker' = [worker EXCEPT ![w].pc = "top"]
      BY <1>5 DEF WaitTrue, WaitStopped, Woken
    <3>2. QED
      BY <1>0, <1>5, <3>1 DEF Waiting, Exited, WorkerRec, WaitTrue, WaitStopped
  <2>2. Cardinality(Waiting') = Cardinality(Waiting) - 1 /\ Cardinality(Waiting) \in Nat
    BY <1>1, <2>1, WaitingSize
  <2>3. QED
    BY <1>0, <2>1, <2>2 DEF CounterInv
<1>6. ASSUME NEW w \in Worker, WaitTimeout(w) PROVE CounterInv'
  <2>1. Waiting' = Waiting \ {w} /\ w \in Waiting /\ num_working' = num_working + 1
    BY <1>0, <1>6 DEF Waiting, WaitTimeout
  <2>2. Cardinality(Waiting') = Cardinality(Waiting) - 1 /\ Cardinality(Waiting) \in Nat
    BY <1>1, <2>1, WaitingSize
  <2>3. QED
    BY <1>0, <2>1, <2>2 DEF CounterInv
<1>7. ASSUME NEW w \in Worker, TaskReturns(w) PROVE CounterInv'
  <2>1. Waiting' = Waiting /\ num_working' = num_working
    BY <1>0, <1>7 DEF Waiting, TaskReturns
  <2>2. QED
    BY <2>1 DEF CounterInv
<1>8. QED
  BY <1>2, <1>3, <1>4, <1>5, <1>6, <1>7
  DEF Next, Perform, Stopping, TaskThrows, Stop, StopCheck, StopJoin, StopJoined,
      StopClose, pool, vars

-----------------------------------------------------------------------------
(* The theorems. *)

Inv == TypeOK /\ QueueInv /\ RunInv /\ PoolInv /\ CounterInv

(* The constructor establishes the invariant: low_watermark threads, each    *)
(* with a slot of its own, an empty queue and a counter of zero.             *)
LEMMA InitInv == Init => Inv
<1> SUFFICES ASSUME Init PROVE Inv
  OBVIOUS
<1>0. low_watermark \in Nat /\ low_watermark <= high_watermark
  BY ExecutorAssumption
<1>1. /\ threads \in Seq(Worker \cup {NoThread}) /\ Len(threads) = low_watermark
      /\ \A i \in 1..low_watermark : threads[i] \in Worker
  BY <1>0 DEF Init
<1>2. \A w \in Worker : worker[w] \in {Off, [pc |-> "top", job |-> 0]}
  BY DEF Init
<1>3. worker \in [Worker -> WorkerRec]
  <2>1. Off \in WorkerRec /\ [pc |-> "top", job |-> 0] \in WorkerRec
    BY ExecutorAssumption DEF Off, WorkerRec
  <2>2. QED
    BY <1>2, <2>1 DEF Init
<1>4. TypeOK
  <2>1. stop \in StopRec
    BY ExecutorAssumption DEF Init, StopRec
  <2>2. tasks \in Seq(1..MaxTasks) /\ Len(tasks) <= max_queue_size
    BY ExecutorAssumption DEF Init
  <2>3. accepted \in 0..MaxTasks /\ started \in 0..MaxTasks /\ done \subseteq 1..MaxTasks
    BY ExecutorAssumption DEF Init
  <2>4. state \in {"kRun", "kStopping", "kStopped"} /\ num_working \in Int
    BY DEF Init
  <2>5. terminated \in BOOLEAN
    BY DEF Init
  <2>6. QED
    BY <1>1, <1>3, <2>1, <2>2, <2>3, <2>4, <2>5 DEF TypeOK, WorkerRec, StopRec
<1>5. QueueInv
  BY DEF Init, QueueInv
<1>6. \A w \in Worker : worker[w].pc # "run" /\ worker[w].pc # "wait"
  BY <1>2 DEF Off
<1>7. RunInv
  <2>1. {worker[w].job : w \in {v \in Worker : worker[v].pc = "run"}} = {}
    BY <1>6
  <2>2. 1..started = {} /\ done = {}
    BY DEF Init
  <2>3. QED
    BY <1>6, <2>1, <2>2 DEF RunInv
<1>8. PoolInv
  <2>1. Alive = {threads[i] : i \in 1..low_watermark}
    <3>1. ASSUME NEW w \in Worker
          PROVE  worker[w].pc \in {"top", "wait", "run"}
                   <=> \E i \in 1..low_watermark : threads[i] = w
      BY DEF Init, Off
    <3>2. QED
      BY <1>1, <3>1 DEF Alive
  <2>2. QED
    BY <1>0, <1>1, <2>1 DEF Init, PoolInv, PoolWithinWatermarks
<1>9. CounterInv
  <2>1. Waiting = {}
    BY <1>6 DEF Waiting
  <2>2. QED
    BY <2>1, FS_EmptySet DEF Init, CounterInv
<1>10. QED
  BY <1>4, <1>5, <1>7, <1>8, <1>9 DEF Inv

(* Every step preserves the invariant. *)
LEMMA NextInv == Inv /\ [Next]_vars => Inv'
<1> SUFFICES ASSUME Inv, [Next]_vars PROVE Inv'
  OBVIOUS
<1>1. TypeOK /\ QueueInv /\ RunInv /\ PoolInv /\ CounterInv
  BY DEF Inv
<1>2. TypeOK'
  <2>1. CASE UNCHANGED vars
    BY <1>1, <2>1 DEF TypeOK, vars
  <2>2. CASE Next
    BY <1>1, <2>2, ExecuteType, PerformType, StopStepType DEF Next
  <2>3. QED
    BY <2>1, <2>2
<1>3. QED
  BY <1>1, <1>2, QueueStep, RunStep, PoolStep, CounterStep DEF Inv

(* The conjunction of the pieces is an invariant of the thread pool. *)
THEOREM Invariance == Spec => []Inv
BY InitInv, NextInv, PTL DEF Spec

(* The state of the pool is always well formed; the queue never exceeds      *)
(* max_queue_size.                                                           *)
THEOREM TypeCorrect == Spec => []TypeOK
<1>1. Inv => TypeOK
  BY DEF Inv
<1>2. QED
  BY <1>1, Invariance, PTL

(* However many callers and threads there are, no accepted task is lost,     *)
(* reordered or run twice.                                                   *)
THEOREM TasksRunOnce == Spec => []EachTaskOnce
<1>1. Inv => EachTaskOnce
  BY DEF Inv, QueueInv, RunInv, EachTaskOnce
<1>2. QED
  BY <1>1, Invariance, PTL

(* Until Stop is called, the slots of the vector are the living threads, and *)
(* their number stays between the watermarks.                                *)
THEOREM PoolSize == Spec => []PoolWithinWatermarks
<1>1. Inv => PoolWithinWatermarks
  BY DEF Inv, PoolInv
<1>2. QED
  BY <1>1, Invariance, PTL

(* The counter that is to tell how many threads work is never positive.      *)
THEOREM CounterBelowZero == Spec => []CounterNeverPositive
<1>1. Inv => CounterNeverPositive
  <2> SUFFICES ASSUME Inv PROVE CounterNeverPositive
    OBVIOUS
  <2>1. IsFiniteSet(Waiting)
    BY ExecutorAssumption, FS_Subset DEF Waiting
  <2>2. Cardinality(Waiting) \in Nat
    BY <2>1, FS_CardinalityType
  <2>3. QED
    BY <2>2 DEF Inv, TypeOK, CounterInv, CounterNeverPositive
<1>2. QED
  BY <1>1, Invariance, PTL

-----------------------------------------------------------------------------
(* Where a thread of the pool can be in RunConnection. *)
Places == {"none", "enter", "check", "read", "parse_error", "build", "body", "execute",
           "throw", "close", "erase"}

-----------------------------------------------------------------------------
(* The server and its pool. *)

(* The steps by which a connection goes on inside RunConnection. *)
Within(w) ==
  \/ Enter(w) \/ ConnCheck(w) \/ Read(w) \/ ParseError(w) \/ Build(w) \/ Body(w)
  \/ ExecuteAndSend(w) \/ CloseSocket(w)

(* They leave the pool alone. *)
LEMMA WithinPool == ASSUME NEW w \in Worker, Within(w) PROVE UNCHANGED vars
BY DEF Within, Enter, ConnCheck, Read, ParseError, Build, Body, ExecuteAndSend, CloseSocket

(* The steps that touch neither a connection, nor the queue, nor the threads *)
(* that run a task.                                                          *)
Elsewhere ==
  \/ ServerStop \/ ServerShutdown \/ Join
  \/ Accept \/ AcceptFails
  \/ Listen \/ CheckRunning \/ AcceptShut \/ Refuse \/ HandOverThrows
  \/ CloseServerSocket \/ WaitConnections \/ DestroyExecutor \/ AcceptorExits
  \/ PoolStop
  \/ \E c \in Client : ClientSends(c) \/ ClientCloses(c)
  \/ \E w \in Worker : Throw(w)
  \/ UNCHANGED bvars

(* Every step is of one of these kinds. *)
LEMMA Kinds ==
  ASSUME [BNext]_bvars
  PROVE  \/ Elsewhere \/ HandOver
         \/ \E w \in Worker : Within(w) \/ Leave(w) \/ PoolThread(w)
BY DEF BNext, RunAcceptor, RunConnection, Elsewhere, Within

(* Such a step is a step of the pool, or none. *)
LEMMA ElsewhereQuiet ==
  ASSUME Elsewhere
  PROVE  /\ UNCHANGED <<tasks, worker, connections, conn, served>>
         /\ [Next]_vars
<1> USE DEF vars
<1>1. CASE UNCHANGED vars /\ UNCHANGED <<connections, conn, served>>
  BY <1>1
<1>2. CASE DestroyExecutor
  BY <1>2 DEF DestroyExecutor, Stop, AcceptorGoes, Next
<1>3. CASE PoolStop
  <2>1. Stopping /\ UNCHANGED <<connections, conn, served>>
    BY <1>3 DEF PoolStop
  <2>2. UNCHANGED <<tasks, worker>>
    BY <2>1 DEF Stopping, StopCheck, StopJoin, StopJoined, StopClose, pool
  <2>3. QED
    BY <2>1, <2>2 DEF Next
<1>4. ASSUME NEW w \in Worker, Throw(w)
      PROVE  UNCHANGED <<tasks, worker, connections, conn, served>> /\ [Next]_vars
  BY <1>4 DEF Throw, TaskThrows, Next
<1>5. CASE ServerStop \/ ServerShutdown \/ Join \/ UNCHANGED bvars
           \/ \E c \in Client : ClientSends(c) \/ ClientCloses(c)
  BY <1>1, <1>5 DEF ServerStop, ServerShutdown, Join, bvars, ClientSends, ClientCloses
<1>6. CASE Accept \/ AcceptFails \/ Listen \/ CheckRunning \/ AcceptShut \/ Refuse
           \/ HandOverThrows \/ CloseServerSocket \/ WaitConnections \/ AcceptorExits
  BY <1>1, <1>6
  DEF Accept, AcceptFails, Listen, CheckRunning, AcceptShut, AcceptThrows, Refuse,
      HandOverThrows, CloseServerSocket, WaitConnections, AcceptorExits, AcceptorGoes
<1>7. QED
  BY <1>2, <1>3, <1>4, <1>5, <1>6 DEF Elsewhere

(* Every step of the server is a step of the pool, or leaves it alone. *)
LEMMA PoolSteps == ASSUME [BNext]_bvars PROVE [Next]_vars
<1>1. CASE Elsewhere
  BY <1>1, ElsewhereQuiet
<1>2. CASE HandOver
  BY <1>2 DEF HandOver, Next
<1>3. ASSUME NEW w \in Worker, Within(w) PROVE [Next]_vars
  BY <1>3, WithinPool
<1>4. ASSUME NEW w \in Worker, Leave(w) \/ PoolThread(w) PROVE [Next]_vars
  BY <1>4 DEF Leave, PoolThread, Next
<1>5. QED
  BY <1>1, <1>2, <1>3, <1>4, Kinds

(* The server uses the pool as the pool's specification allows: whatever is  *)
(* proved of Executor holds in BlockingServer.                               *)
THEOREM ServerUsesPool == BSpec => Spec
<1>1. BInit => Init
  BY DEF BInit
<1>2. [BNext]_bvars => [Next]_vars
  BY PoolSteps
<1>3. QED
  BY <1>1, <1>2, PTL DEF BSpec, Spec

-----------------------------------------------------------------------------
(* Type correctness. *)

(* A connection moves to one of its places. *)
LEMMA ConnType ==
  ASSUME BTypeOK, NEW w \in Worker, NEW p \in Places
  PROVE  [conn EXCEPT ![w] = p] \in [Worker -> Places]
BY DEF BTypeOK, Places

(* What the main thread and the acceptor do. *)
LEMMA ElsewhereType == ASSUME BTypeOK, Inv, Elsewhere, TypeOK' PROVE BTypeOK'
<1>1. UNCHANGED <<connections, conn, served>>
  BY ElsewhereQuiet
<1>2. CASE ServerStop \/ ServerShutdown \/ Join \/ UNCHANGED bvars \/ PoolStop
           \/ (\E w \in Worker : Throw(w))
  <2>1. /\ main' \in {main, "stopping", "joining", "joined"} /\ running' \in {running, FALSE}
        /\ server_socket' \in {server_socket, "shut"} /\ UNCHANGED <<acceptor, peer>>
    BY <1>2 DEF ServerStop, ServerShutdown, Join, bvars, PoolStop, Throw
  <2>2. QED
    BY <1>1, <2>1 DEF BTypeOK
<1>3. CASE Accept \/ AcceptFails \/ Listen \/ CheckRunning \/ AcceptShut \/ Refuse
           \/ HandOverThrows \/ CloseServerSocket \/ WaitConnections \/ AcceptorExits
           \/ DestroyExecutor
  BY <1>1, <1>3
  DEF BTypeOK, Accept, AcceptFails, Listen, CheckRunning, AcceptShut, AcceptThrows, Refuse,
      HandOverThrows, CloseServerSocket, WaitConnections, AcceptorExits, DestroyExecutor,
      AcceptorGoes
<1>4. ASSUME NEW c \in Client, ClientSends(c) \/ ClientCloses(c) PROVE BTypeOK'
  <2>1. peer' \in [Client -> [open : BOOLEAN, data : BOOLEAN]]
    <3>1. peer \in [Client -> [open : BOOLEAN, data : BOOLEAN]]
      BY DEF BTypeOK
    <3>2. \/ peer' = [peer EXCEPT ![c].data = TRUE]
          \/ peer' = [peer EXCEPT ![c].open = FALSE]
      BY <1>4 DEF ClientSends, ClientCloses
    <3>3. QED
      BY <3>1, <3>2
  <2>2. QED
    BY <1>1, <1>4, <2>1 DEF BTypeOK, ClientSends, ClientCloses
<1>5. QED
  BY <1>2, <1>3, <1>4 DEF Elsewhere

(* A running thread's task is a client. *)
LEMMA JobIsClient ==
  ASSUME Inv, NEW w \in Worker, worker[w].pc = "run"
  PROVE  worker[w].job \in Client /\ worker[w].job \in 1..started
<1>1. worker[w].job \in 1..started
  BY DEF Inv, RunInv
<1>2. QED
  BY <1>1, ExecutorAssumption DEF Inv, TypeOK, Client

(* What a connection does to its place, its peer and its socket. *)
LEMMA WithinEffect ==
  ASSUME Inv, BTypeOK, NEW w \in Worker, Within(w)
  PROVE  /\ worker[w].pc = "run" /\ UNCHANGED <<main, running, server_socket, acceptor>>
         /\ peer' \in [Client -> [open : BOOLEAN, data : BOOLEAN]]
         /\ \/ /\ conn[w] = "enter" /\ conn' = [conn EXCEPT ![w] = "check"]
               /\ connections' = connections \cup {w} /\ served' = served
            \/ /\ conn[w] \in {"check", "read", "parse_error", "build", "body", "execute"}
               /\ \E p \in Places \ {"none", "enter", "erase"} : conn' = [conn EXCEPT ![w] = p]
               /\ connections' = connections /\ served' = served
            \/ /\ conn[w] \in {"parse_error", "execute", "close"}
               /\ \E p \in {"throw", "erase"} : conn' = [conn EXCEPT ![w] = p]
               /\ connections' = connections /\ served' = served \ {worker[w].job}
<1> DEFINE c == worker[w].job
<1>0. worker[w].pc = "run"
  BY DEF Within, Enter, ConnCheck, Read, ParseError, Build, Body, ExecuteAndSend, CloseSocket, ConnAt
<1>1. c \in Client
  BY <1>0, JobIsClient
<1> HIDE DEF c
<1>2. /\ [peer EXCEPT ![c] = [open |-> FALSE, data |-> FALSE]]
           \in [Client -> [open : BOOLEAN, data : BOOLEAN]]
      /\ [peer EXCEPT ![c].data = FALSE] \in [Client -> [open : BOOLEAN, data : BOOLEAN]]
      /\ peer \in [Client -> [open : BOOLEAN, data : BOOLEAN]]
  BY <1>1 DEF BTypeOK
<1> USE DEF Places, ConnAt, ConnGoes
<1>3. CASE Enter(w)
  BY <1>0, <1>2, <1>3 DEF Enter
<1>4. CASE ConnCheck(w)
  <2>1. \/ conn' = [conn EXCEPT ![w] = "read"]
        \/ conn' = [conn EXCEPT ![w] = "close"]
    BY <1>4 DEF ConnCheck
  <2>2. QED
    BY <1>0, <1>2, <1>4, <2>1 DEF ConnCheck
<1>5. CASE Read(w)
  BY <1>0, <1>2, <1>5 DEF Read, TakeChunk, c
<1>6. CASE Build(w)
  BY <1>0, <1>2, <1>6 DEF Build
<1>7. CASE Body(w)
  BY <1>0, <1>2, <1>7 DEF Body, TakeChunk, c
<1>8. CASE ParseError(w)
  BY <1>0, <1>2, <1>8 DEF ParseError, CloseClient, c
<1>9. CASE ExecuteAndSend(w)
  BY <1>0, <1>2, <1>9 DEF ExecuteAndSend, CloseClient, c
<1>10. CASE CloseSocket(w)
  BY <1>0, <1>2, <1>10 DEF CloseSocket, CloseClient, c
<1>11. QED
  BY <1>3, <1>4, <1>5, <1>6, <1>7, <1>8, <1>9, <1>10 DEF Within

(* Such a step moves the thread's own connection only. *)
LEMMA WithinConn ==
  ASSUME Inv, BTypeOK, NEW w \in Worker, Within(w)
  PROVE  \E p \in Places : conn' = [conn EXCEPT ![w] = p]
<1>1. {"check", "throw", "erase"} \subseteq Places
  BY DEF Places
<1>2. QED
  BY <1>1, WithinEffect

(* A thread of the pool between two connections: it takes the front task, or *)
(* the tasks that are queued and running stay what they are.                 *)
LEMMA PoolThreadEffect ==
  ASSUME Inv, NEW w \in Worker, PoolThread(w)
  PROVE  /\ worker[w].pc # "run"
         /\ UNCHANGED <<main, running, server_socket, acceptor, connections, peer, served>>
         /\ \/ /\ UNCHANGED <<tasks, conn>>
               /\ \A v \in Worker : /\ worker[v].pc = "run" <=> worker'[v].pc = "run"
                                    /\ worker[v].pc = "run" => worker'[v] = worker[v]
            \/ /\ WaitTimeout(w) /\ conn' = [conn EXCEPT ![w] = "enter"]
<1>0. worker \in [Worker -> WorkerRec] /\ TypeOK
  BY DEF Inv, TypeOK, WorkerRec
<1>1. CASE WaitTimeout(w)
  <2>1. worker[w].pc = "wait" /\ worker'[w].pc = "run"
    BY <1>0, <1>1 DEF WaitTimeout
  <2>2. QED
    BY <1>1, <2>1 DEF PoolThread
<1>2. CASE ~WaitTimeout(w)
  <2>1. /\ worker[w].pc \in {"top", "wait"} /\ UNCHANGED tasks
        /\ \/ worker' = [worker EXCEPT ![w].pc = "wait"]
           \/ worker' = [worker EXCEPT ![w].pc = "top"]
           \/ worker' = [worker EXCEPT ![w] = Exited]
    BY <1>2 DEF PoolThread, Perform, LoopTop, WaitTrue, WaitStopped, Woken
  <2>2. /\ worker'[w].pc # "run"
        /\ \A v \in Worker \ {w} : worker'[v] = worker[v]
    BY <1>0, <2>1 DEF Exited, WorkerRec
  <2>3. QED
    BY <2>1, <2>2 DEF PoolThread
<1>3. QED
  BY <1>1, <1>2

(* A connection handed over: one more queued task, no other one running. *)
LEMMA HandOverEffect ==
  ASSUME Inv, HandOver
  PROVE  /\ UNCHANGED <<connections, conn>>
         /\ served' = served \cup {accepted + 1} /\ accepted + 1 \in Client
         /\ Len(tasks) \in Nat /\ Len(tasks') = Len(tasks) + 1
         /\ \A i \in 1..Len(tasks) : tasks'[i] = tasks[i]
         /\ tasks'[Len(tasks) + 1] = accepted + 1
         /\ \A v \in Worker : /\ worker[v].pc = "run" <=> worker'[v].pc = "run"
                              /\ worker[v].pc = "run" => worker'[v] = worker[v]
<1>0. worker \in [Worker -> WorkerRec] /\ TypeOK
  BY DEF Inv, TypeOK, WorkerRec
<1>1. Execute /\ accepted' = accepted + 1
  BY DEF HandOver, Execute
<1>2. tasks \in Seq(1..MaxTasks) /\ accepted + 1 \in 1..MaxTasks /\ Len(tasks) \in Nat
  BY <1>0, <1>1, ExecutorAssumption DEF TypeOK, Execute
<1>3. /\ Len(tasks') = Len(tasks) + 1
      /\ \A i \in 1..Len(tasks) : tasks'[i] = tasks[i]
      /\ tasks'[Len(tasks) + 1] = accepted + 1
  BY <1>1, <1>2, AppendProperties DEF Execute
<1>4. \A v \in Worker : /\ worker[v].pc = "run" <=> worker'[v].pc = "run"
                        /\ worker[v].pc = "run" => worker'[v] = worker[v]
  BY <1>0, <1>1 DEF Execute, Off, WorkerRec
<1>5. QED
  BY <1>1, <1>2, <1>3, <1>4 DEF HandOver, AcceptorGoes, Client

(* A connection that leaves: its thread goes back to the top of its loop. *)
LEMMA LeaveEffect ==
  ASSUME Inv, NEW w \in Worker, Leave(w)
  PROVE  /\ worker[w].pc = "run" /\ conn[w] = "erase"
         /\ UNCHANGED <<main, running, server_socket, acceptor, peer, served, tasks>>
         /\ connections' = connections \ {w}
         /\ conn' = [conn EXCEPT ![w] = NotServing]
         /\ worker'[w].pc # "run" /\ \A v \in Worker \ {w} : worker'[v] = worker[v]
<1>0. worker \in [Worker -> WorkerRec]
  BY DEF Inv, TypeOK, WorkerRec
<1>1. worker' = [worker EXCEPT ![w] = [pc |-> "top", job |-> 0]] /\ UNCHANGED tasks
  BY DEF Leave, TaskReturns
<1>2. worker'[w].pc # "run" /\ \A v \in Worker \ {w} : worker'[v] = worker[v]
  BY <1>0, <1>1
<1>3. QED
  BY <1>1, <1>2 DEF Leave, ConnAt, ConnGoes

(* Types are kept by every step. *)
LEMMA TypeStep == ASSUME Inv, BTypeOK, [BNext]_bvars PROVE BTypeOK'
<1>0. Inv' /\ TypeOK'
  BY PoolSteps, NextInv DEF Inv
<1>1. CASE Elsewhere
  BY <1>0, <1>1, ElsewhereType
<1>2. CASE HandOver
  BY <1>0, <1>2, HandOverEffect DEF BTypeOK, HandOver, AcceptorGoes
<1>3. ASSUME NEW w \in Worker, Within(w) PROVE BTypeOK'
  <2>1. /\ conn' \in [Worker -> Places] /\ connections' \subseteq Worker
        /\ served' \subseteq Client
    <3>1. PICK p \in Places : conn' = [conn EXCEPT ![w] = p]
      BY <1>3, WithinConn
    <3>2. conn' \in [Worker -> Places]
      BY <3>1, ConnType
    <3>3. connections' \subseteq connections \cup {w} /\ served' \subseteq served
      BY <1>3, WithinEffect
    <3>4. QED
      BY <3>2, <3>3 DEF BTypeOK
  <2>2. QED
    BY <1>0, <1>3, <2>1, WithinEffect DEF BTypeOK, Places
<1>4. ASSUME NEW w \in Worker, Leave(w) PROVE BTypeOK'
  BY <1>0, <1>4, LeaveEffect DEF BTypeOK, NotServing
<1>5. ASSUME NEW w \in Worker, PoolThread(w) PROVE BTypeOK'
  BY <1>0, <1>5, PoolThreadEffect DEF BTypeOK
<1>6. QED
  BY <1>1, <1>2, <1>3, <1>4, <1>5, Kinds

-----------------------------------------------------------------------------
(* The set of connections, and the client sockets. *)

(* The set of connections follows the threads that serve. *)
LEMMA RegisteredStep ==
  ASSUME Inv, BTypeOK, RegisteredAreServing, [BNext]_bvars
  PROVE  RegisteredAreServing'
<1> USE DEF RegisteredAreServing, Serving
<1>0. conn \in [Worker -> Places]
  BY DEF BTypeOK, Places
<1>1. CASE Elsewhere
  BY <1>1, ElsewhereQuiet
<1>2. CASE HandOver
  <2>1. \A v \in Worker : worker[v].pc = "run" <=> worker'[v].pc = "run"
    BY <1>2, HandOverEffect
  <2>2. UNCHANGED <<connections, conn>>
    BY <1>2, HandOverEffect
  <2>3. QED
    BY <2>1, <2>2
<1>3. ASSUME NEW w \in Worker, Within(w) PROVE RegisteredAreServing'
  <2>1. UNCHANGED worker
    BY <1>3, WithinPool DEF vars, pool
  <2>2. \A v \in Worker \ {w} : conn'[v] = conn[v]
    <3>1. PICK p \in Places : conn' = [conn EXCEPT ![w] = p]
      BY <1>3, WithinConn
    <3>2. QED
      BY <1>0, <3>1
  <2>3. /\ worker[w].pc = "run" /\ conn'[w] # "enter"
        /\ connections' = connections \cup {w}
    BY <1>0, <1>3, WithinEffect
  <2>4. QED
    BY <2>1, <2>2, <2>3
<1>4. ASSUME NEW w \in Worker, Leave(w) PROVE RegisteredAreServing'
  BY <1>0, <1>4, LeaveEffect
<1>5. ASSUME NEW w \in Worker, PoolThread(w) PROVE RegisteredAreServing'
  <2>1. CASE WaitTimeout(w) /\ conn' = [conn EXCEPT ![w] = "enter"]
    <3>1. worker \in [Worker -> WorkerRec]
      BY DEF Inv, TypeOK, WorkerRec
    <3>2. \A v \in Worker \ {w} : worker'[v] = worker[v] /\ conn'[v] = conn[v]
      BY <1>0, <2>1, <3>1 DEF WaitTimeout
    <3>3. conn'[w] = "enter" /\ w \notin connections /\ connections' = connections
      BY <1>0, <1>5, <2>1, PoolThreadEffect
    <3>4. QED
      BY <3>2, <3>3
  <2>2. CASE /\ UNCHANGED <<connections, conn>>
             /\ \A v \in Worker : worker[v].pc = "run" <=> worker'[v].pc = "run"
    BY <2>2
  <2>3. QED
    BY <1>5, <2>1, <2>2, PoolThreadEffect
<1>6. QED
  BY <1>1, <1>2, <1>3, <1>4, <1>5, Kinds

(* No two threads serve the same client: the pool's invariant says so. *)
LEMMA DistinctJobs ==
  ASSUME Inv
  PROVE  \A v, w \in Serving : worker[v].job = worker[w].job => v = w
BY DEF Inv, RunInv, Serving

(* A client that is being served is queued no more. *)
LEMMA ServedNotQueued ==
  ASSUME Inv, NEW w \in Serving, NEW i \in 1..Len(tasks)
  PROVE  tasks[i] # worker[w].job
<1>1. worker[w].job \in 1..started /\ started \in Nat
  BY JobIsClient DEF Serving, Inv, TypeOK
<1>2. tasks[i] = started + i
  BY DEF Inv, QueueInv
<1>3. i \in Nat /\ i > 0
  BY DEF Inv, TypeOK
<1>4. QED
  BY <1>1, <1>2, <1>3

(* Steps of a connection between Enter and its end. *)
LEMMA SocketsWithin ==
  ASSUME Inv, BTypeOK, SocketsOwned, NEW w \in Worker, Within(w)
  PROVE  SocketsOwned'
<1> DEFINE c == worker[w].job
<1>0. conn \in [Worker -> Places]
  BY DEF BTypeOK, Places
<1>1. UNCHANGED <<worker, tasks>> /\ Serving' = Serving /\ w \in Serving
  BY WithinPool, WithinEffect DEF vars, pool, Serving
<1>2. \A v \in Worker \ {w} : conn'[v] = conn[v]
  <2>1. PICK p \in Places : conn' = [conn EXCEPT ![w] = p]
    BY WithinConn
  <2>2. QED
    BY <1>0, <2>1
<1>3. \A u, v \in Serving : worker[u].job = worker[v].job => u = v
  BY DistinctJobs
<1>4. CASE served' = served
  <2>1. conn'[w] # "erase" /\ conn[w] \notin {"throw", "erase"}
    <3>1. c \in served
      BY <1>1, WithinEffect DEF SocketsOwned
    <3>2. QED
      BY <1>0, <1>4, <3>1, WithinEffect
  <2>2. ASSUME NEW v \in Serving
        PROVE  /\ conn[v] # "erase" => conn'[v] # "erase"
               /\ conn'[v] \notin {"throw", "erase"} => conn[v] \notin {"throw", "erase"}
    BY <1>2, <2>1 DEF Serving
  <2>3. \A d \in served' :
          \/ \E i \in 1..Len(tasks') : tasks'[i] = d
          \/ \E v \in Serving' : worker'[v].job = d /\ conn'[v] # "erase"
    BY <1>1, <1>4, <2>2 DEF SocketsOwned
  <2>4. \A v \in Serving' : conn'[v] \notin {"throw", "erase"} => worker'[v].job \in served'
    BY <1>1, <1>4, <2>2 DEF SocketsOwned
  <2>5. QED
    BY <1>1, <1>3, <1>4, <2>3, <2>4 DEF SocketsOwned
<1>5. CASE served' # served
  <2>1. served' = served \ {c} /\ conn'[w] \in {"throw", "erase"}
    BY <1>0, <1>5, WithinEffect
  <2>2. \A i \in 1..Len(tasks) : tasks[i] # c
    BY <1>1, ServedNotQueued
  <2>3. \A v \in Serving \ {w} : worker[v].job # c
    BY <1>1, <1>3
  <2>4. \A d \in served' :
          \/ \E i \in 1..Len(tasks') : tasks'[i] = d
          \/ \E v \in Serving' : worker'[v].job = d /\ conn'[v] # "erase"
    <3> TAKE d \in served'
    <3>1. d \in served /\ d # c
      BY <2>1
    <3>2. \/ \E i \in 1..Len(tasks) : tasks[i] = d
          \/ \E v \in Serving : worker[v].job = d /\ conn[v] # "erase"
      BY <3>1 DEF SocketsOwned
    <3>3. QED
      BY <1>1, <1>2, <3>1, <3>2 DEF Serving
  <2>5. \A i \in 1..Len(tasks') : tasks'[i] \in served'
    BY <1>1, <2>1, <2>2 DEF SocketsOwned
  <2>6. \A v \in Serving' : conn'[v] \notin {"throw", "erase"} => worker'[v].job \in served'
    BY <1>1, <1>2, <2>1, <2>3 DEF SocketsOwned, Serving
  <2>7. QED
    BY <1>1, <1>3, <2>4, <2>5, <2>6 DEF SocketsOwned
<1>6. QED
  BY <1>4, <1>5

(* A thread takes the front task: its client moves from the queue to it. *)
LEMMA SocketsTake ==
  ASSUME Inv, Inv', BTypeOK, SocketsOwned, NEW w \in Worker, PoolThread(w),
         WaitTimeout(w), conn' = [conn EXCEPT ![w] = "enter"]
  PROVE  SocketsOwned'
<1>0. worker \in [Worker -> WorkerRec] /\ conn \in [Worker -> Places] /\ TypeOK
  BY DEF BTypeOK, Places, Inv, TypeOK, WorkerRec
<1>1. tasks # <<>> /\ tasks' = Tail(tasks) /\ served' = served
  BY DEF WaitTimeout, Predicate, PoolThread
<1>2. /\ Len(tasks) \in Nat /\ Len(tasks) > 0 /\ Head(tasks) = tasks[1]
      /\ Len(tasks') = Len(tasks) - 1
      /\ \A i \in 1..Len(tasks) - 1 : tasks'[i] = tasks[i + 1]
  BY <1>0, <1>1, QueueFront
<1>3. /\ worker'[w].pc = "run" /\ worker'[w].job = tasks[1] /\ conn'[w] = "enter"
      /\ \A v \in Worker \ {w} : worker'[v] = worker[v] /\ conn'[v] = conn[v]
      /\ worker[w].pc # "run"
  <2> DEFINE r == [pc |-> "run", job |-> Head(tasks)]
  <2>1. worker' = [worker EXCEPT ![w] = r] /\ worker[w].pc = "wait"
    BY Zenon DEF WaitTimeout
  <2>2. r.pc = "run" /\ r.job = tasks[1]
    BY <1>2
  <2> HIDE DEF r
  <2>3. worker'[w] = r /\ \A v \in Worker \ {w} : worker'[v] = worker[v]
    BY <1>0, <2>1
  <2>4. conn'[w] = "enter" /\ \A v \in Worker \ {w} : conn'[v] = conn[v]
    BY <1>0
  <2>5. worker[w].pc # "run"
    BY <2>1
  <2>6. QED
    BY <2>2, <2>3, <2>4, <2>5, Zenon
<1>4. Serving' = Serving \cup {w} /\ w \notin Serving /\ Serving \subseteq Worker
  <2>1. worker'[w].pc = "run"
    BY <1>3
  <2>2. \A v \in Worker : worker'[v].pc = "run" <=> v = w \/ worker[v].pc = "run"
    BY <1>3, <2>1
  <2>3. QED
    BY <1>3, <2>2 DEF Serving
<1>5. \A c \in served' :
        \/ \E i \in 1..Len(tasks') : tasks'[i] = c
        \/ \E v \in Serving' : worker'[v].job = c /\ conn'[v] # "erase"
  <2> TAKE c \in served'
  <2>1. ASSUME NEW i \in 1..Len(tasks), tasks[i] = c, i # 1
        PROVE  \E j \in 1..Len(tasks') : tasks'[j] = c
    <3>1. i - 1 \in 1..Len(tasks) - 1 /\ (i - 1) + 1 = i
      BY <1>2, <2>1
    <3>2. tasks'[i - 1] = c
      BY <1>2, <2>1, <3>1
    <3>3. QED
      BY <1>2, <3>1, <3>2
  <2>2. CASE tasks[1] = c
    <3>1. worker'[w].job = c /\ conn'[w] # "erase"
      BY <1>3, <2>2
    <3>2. w \in Serving'
      BY <1>4
    <3>3. QED
      BY <3>1, <3>2, Zenon
  <2>3. CASE \E v \in Serving : worker[v].job = c /\ conn[v] # "erase"
    <3>1. PICK v \in Serving : worker[v].job = c /\ conn[v] # "erase"
      BY <2>3
    <3>2. v \in Worker \ {w} /\ v \in Serving'
      BY <1>4
    <3>3. worker'[v].job = c /\ conn'[v] # "erase"
      BY <1>3, <3>1, <3>2
    <3>4. QED
      BY <3>2, <3>3, Zenon
  <2>4. QED
    BY <1>1, <2>1, <2>2, <2>3 DEF SocketsOwned
<1>6. \A i \in 1..Len(tasks') : tasks'[i] \in served'
  <2> TAKE i \in 1..Len(tasks')
  <2>1. i + 1 \in 1..Len(tasks) /\ tasks'[i] = tasks[i + 1]
    BY <1>2
  <2>2. QED
    BY <1>1, <2>1 DEF SocketsOwned
<1>7. \A v \in Serving' : conn'[v] \notin {"throw", "erase"} => worker'[v].job \in served'
  <2> TAKE v \in Serving'
  <2>1. CASE v = w
    <3>1. 1 \in 1..Len(tasks)
      BY <1>2
    <3>2. tasks[1] \in served
      BY <3>1, Zenon DEF SocketsOwned
    <3>3. worker'[w].job = tasks[1]
      BY <1>3, Zenon
    <3>4. QED
      BY <1>1, <2>1, <3>2, <3>3, Zenon
  <2>2. CASE v # w
    <3>1. v \in Serving /\ worker'[v] = worker[v] /\ conn'[v] = conn[v]
      BY <1>3, <1>4, <2>2
    <3>2. QED
      BY <1>1, <3>1 DEF SocketsOwned
  <2>3. QED
    BY <2>1, <2>2
<1>8. (\A u, v \in Serving : worker[u].job = worker[v].job => u = v)'
  BY DEF Inv, RunInv, Serving
<1>9. QED
  BY <1>5, <1>6, <1>7, <1>8 DEF SocketsOwned

(* A step that neither queues, starts, ends nor closes anything. *)
LEMMA SocketsSame ==
  ASSUME SocketsOwned, UNCHANGED <<tasks, conn, served>>,
         \A v \in Worker : worker[v].pc = "run" <=> worker'[v].pc = "run",
         \A v \in Worker : worker[v].pc = "run" => worker'[v] = worker[v]
  PROVE  SocketsOwned'
<1>1. Serving' = Serving /\ \A v \in Serving : worker'[v] = worker[v]
  BY DEF Serving
<1>2. tasks' = tasks /\ conn' = conn /\ served' = served
  OBVIOUS
<1>3. \A c \in served' :
        \/ \E i \in 1..Len(tasks') : tasks'[i] = c
        \/ \E v \in Serving' : worker'[v].job = c /\ conn'[v] # "erase"
  <2> TAKE c \in served'
  <2>1. CASE \E i \in 1..Len(tasks) : tasks[i] = c
    BY <1>2, <2>1, Zenon
  <2>2. CASE \E v \in Serving : worker[v].job = c /\ conn[v] # "erase"
    BY <1>1, <1>2, <2>2, Zenon
  <2>3. c \in served
    BY <1>2, Zenon
  <2>4. QED
    BY <2>1, <2>2, <2>3, Zenon DEF SocketsOwned
<1>4. \A i \in 1..Len(tasks') : tasks'[i] \in served'
  BY <1>2, Zenon DEF SocketsOwned
<1>5. \A v \in Serving' : conn'[v] \notin {"throw", "erase"} => worker'[v].job \in served'
  BY <1>1, <1>2, Zenon DEF SocketsOwned
<1>6. \A u, v \in Serving' : worker'[u].job = worker'[v].job => u = v
  <2> TAKE u, v \in Serving'
  <2>1. u \in Serving /\ v \in Serving /\ worker'[u] = worker[u] /\ worker'[v] = worker[v]
    BY <1>1, Zenon
  <2>2. worker[u].job = worker[v].job => u = v
    BY <2>1, Zenon DEF SocketsOwned
  <2>3. QED
    BY <2>1, <2>2, Zenon
<1>7. QED
  BY <1>3, <1>4, <1>5, <1>6, Zenon DEF SocketsOwned

(* The acceptor hands a client over: its socket is open and it is queued. *)
LEMMA SocketsHandOver ==
  ASSUME Inv, SocketsOwned, HandOver
  PROVE  SocketsOwned'
<1>1. Serving' = Serving /\ \A v \in Serving : worker'[v] = worker[v]
  BY HandOverEffect DEF Serving
<1>2. /\ Len(tasks) \in Nat /\ Len(tasks') = Len(tasks) + 1
      /\ \A i \in 1..Len(tasks) : tasks'[i] = tasks[i]
      /\ tasks'[Len(tasks) + 1] = accepted + 1
      /\ served' = served \cup {accepted + 1} /\ UNCHANGED conn
  BY HandOverEffect
<1>3. \A c \in served' :
        \/ \E i \in 1..Len(tasks') : tasks'[i] = c
        \/ \E v \in Serving' : worker'[v].job = c /\ conn'[v] # "erase"
  <2> TAKE c \in served'
  <2>1. CASE c = accepted + 1
    BY <1>2, <2>1
  <2>2. CASE c \in served
    <3>1. 1..Len(tasks) \subseteq 1..Len(tasks')
      BY <1>2
    <3>2. \/ \E i \in 1..Len(tasks) : tasks[i] = c
          \/ \E v \in Serving : worker[v].job = c /\ conn[v] # "erase"
      BY <2>2 DEF SocketsOwned
    <3>3. CASE \E i \in 1..Len(tasks) : tasks[i] = c
      BY <1>2, <3>1, <3>3
    <3>4. CASE \E v \in Serving : worker[v].job = c /\ conn[v] # "erase"
      BY <1>1, <1>2, <3>4
    <3>5. QED
      BY <3>2, <3>3, <3>4
  <2>3. QED
    BY <1>2, <2>1, <2>2
<1>4. \A i \in 1..Len(tasks') : tasks'[i] \in served'
  <2> TAKE i \in 1..Len(tasks')
  <2>1. i \in 1..Len(tasks) \/ i = Len(tasks) + 1
    BY <1>2
  <2>2. QED
    BY <1>2, <2>1 DEF SocketsOwned
<1>5. \A v \in Serving' : conn'[v] \notin {"throw", "erase"} => worker'[v].job \in served'
  BY <1>1, <1>2 DEF SocketsOwned
<1>6. \A u, v \in Serving' : worker'[u].job = worker'[v].job => u = v
  BY <1>1 DEF SocketsOwned
<1>7. QED
  BY <1>3, <1>4, <1>5, <1>6 DEF SocketsOwned

(* A connection leaves after its socket was closed. *)
LEMMA SocketsLeave ==
  ASSUME Inv, BTypeOK, SocketsOwned, NEW w \in Worker, Leave(w)
  PROVE  SocketsOwned'
<1>0. conn \in [Worker -> Places]
  BY DEF BTypeOK, Places
<1>1. /\ Serving' = Serving \ {w} /\ conn[w] = "erase" /\ UNCHANGED <<tasks, served>>
      /\ \A v \in Serving \ {w} : worker'[v] = worker[v] /\ conn'[v] = conn[v]
  BY <1>0, LeaveEffect DEF Serving
<1>2. \A c \in served' :
        \/ \E i \in 1..Len(tasks') : tasks'[i] = c
        \/ \E v \in Serving' : worker'[v].job = c /\ conn'[v] # "erase"
  <2> TAKE c \in served'
  <2>1. CASE \E i \in 1..Len(tasks) : tasks[i] = c
    BY <1>1, <2>1
  <2>2. CASE \E v \in Serving : worker[v].job = c /\ conn[v] # "erase"
    <3>1. PICK v \in Serving : worker[v].job = c /\ conn[v] # "erase"
      BY <2>2
    <3>2. v \in Serving \ {w}
      BY <1>1, <3>1
    <3>3. QED
      BY <1>1, <3>1, <3>2
  <2>3. QED
    BY <1>1, <2>1, <2>2 DEF SocketsOwned
<1>3. \A v \in Serving' : conn'[v] \notin {"throw", "erase"} => worker'[v].job \in served'
  BY <1>1 DEF SocketsOwned
<1>4. \A u, v \in Serving' : worker'[u].job = worker'[v].job => u = v
  BY <1>1 DEF SocketsOwned
<1>5. \A i \in 1..Len(tasks') : tasks'[i] \in served'
  BY <1>1 DEF SocketsOwned
<1>6. QED
  BY <1>2, <1>3, <1>4, <1>5 DEF SocketsOwned

(* Every step keeps the client sockets owned. *)
LEMMA SocketsStep ==
  ASSUME Inv, Inv', BTypeOK, SocketsOwned, [BNext]_bvars
  PROVE  SocketsOwned'
<1>1. CASE Elsewhere
  BY <1>1, ElsewhereQuiet, SocketsSame
<1>2. ASSUME NEW w \in Worker, PoolThread(w) PROVE SocketsOwned'
  <2>1. CASE WaitTimeout(w) /\ conn' = [conn EXCEPT ![w] = "enter"]
    BY <1>2, <2>1, SocketsTake
  <2>2. QED
    BY <1>2, <2>1, PoolThreadEffect, SocketsSame
<1>3. QED
  BY <1>1, <1>2, SocketsHandOver, SocketsWithin, SocketsLeave, Kinds

-----------------------------------------------------------------------------
(* The server's inductive invariant. *)
BInv == Inv /\ BTypeOK /\ RegisteredAreServing /\ SocketsOwned

(* The invariant holds when the server has started its acceptor. *)
LEMMA BInitInv == BInit => BInv
<1> SUFFICES ASSUME BInit PROVE BInv
  OBVIOUS
<1>1. Inv /\ TypeOK
  BY InitInv DEF BInit, Inv
<1>2. BTypeOK
  BY <1>1 DEF BInit, BTypeOK, NotServing
<1>3. Serving = {} /\ tasks = <<>> /\ served = {} /\ connections = {}
  BY DEF BInit, Init, Serving, Off
<1>4. RegisteredAreServing /\ SocketsOwned
  <2>1. 1..Len(tasks) = {}
    BY <1>3
  <2>2. SocketsOwned
    BY <1>3, <2>1 DEF SocketsOwned
  <2>3. RegisteredAreServing
    BY <1>3 DEF RegisteredAreServing
  <2>4. QED
    BY <2>2, <2>3
<1>5. QED
  BY <1>1, <1>2, <1>4 DEF BInv

(* Every step of the server keeps it. *)
LEMMA BNextInv == BInv /\ [BNext]_bvars => BInv'
BY PoolSteps, NextInv, TypeStep, RegisteredStep, SocketsStep DEF BInv

(* The invariant holds whenever the server runs. *)
THEOREM ServerInvariance == BSpec => []BInv
BY BInitInv, BNextInv, PTL DEF BSpec

(* The server's variables keep their types: main thread, acceptor, listening *)
(* socket, connections and their peers.                                      *)
THEOREM ServerTypeCorrect == BSpec => []BTypeOK
<1>1. BInv => BTypeOK
  BY DEF BInv
<1>2. QED
  BY <1>1, ServerInvariance, PTL

(* The threads in the connections set are the pool threads that have entered *)
(* RunConnection and not left it, so that waiting for the set to be empty is *)
(* waiting for them.                                                         *)
THEOREM ConnectionsExact == BSpec => []RegisteredAreServing
<1>1. BInv => RegisteredAreServing
  BY DEF BInv
<1>2. QED
  BY <1>1, ServerInvariance, PTL

(* No client socket is leaked, closed early or shared by two threads. *)
THEOREM NoSocketLeaked == BSpec => []SocketsOwned
<1>1. BInv => SocketsOwned
  BY DEF BInv
<1>2. QED
  BY <1>1, ServerInvariance, PTL
=============================================================================
