------------------------------ MODULE Executor ------------------------------
(***************************************************************************)
(* The thread pool include/afina/Executor.h, src/network/blocking/         *)
(* Executor.cpp: callers of Execute, the pool threads running perform and  *)
(* the thread that calls Stop.                                             *)
(*                                                                         *)
(* A section under `mutex' is one action.  Stop walks `threads' and writes *)
(* `state' without the mutex, so each of its accesses is an action of its  *)
(* own.  wait_for returns to its caller only with the predicate true, or   *)
(* by timeout with the predicate false; waking up earlier changes nothing, *)
(* so notifications are not recorded.                                      *)
(*                                                                         *)
(* Tasks are numbered in the order in which they are accepted.             *)
(***************************************************************************)
EXTENDS Integers, Sequences, FiniteSets

CONSTANTS
  Worker,          \* the threads the pool may ever create
  low_watermark, high_watermark, max_queue_size,
  TasksThrow,      \* whether a task may end in an exception
  MaxTasks,        \* bound: tasks ever submitted
  MaxStops,        \* bound: calls of Stop, the destructor's included
  NoThread         \* a std::thread that represents no thread

ASSUME ExecutorAssumption ==
  /\ IsFiniteSet(Worker)
  /\ low_watermark \in Nat /\ high_watermark \in Nat /\ max_queue_size \in Nat
  /\ low_watermark <= high_watermark
  /\ TasksThrow \in BOOLEAN
  /\ MaxTasks \in Nat /\ MaxStops \in Nat
  /\ NoThread \notin Worker

VARIABLES
  threads,     \* the vector of std::thread: worker names, NoThread if joined
  tasks,       \* the queue, front first
  state,       \* kRun, kStopping or kStopped
  num_working, \* the counter; a size_t, here the signed number it stands for
  worker,      \* per worker: where in perform it is, and the task it runs
  stop,        \* the thread calling Stop: its place, its index, whom it joins
  accepted,    \* history: how many tasks Execute has accepted
  started,     \* history: how many tasks have been taken off the queue
  done,        \* history: the tasks that have returned
  terminated   \* std::terminate was called

vars == <<threads, tasks, state, num_working, worker, stop,
          accepted, started, done, terminated>>

pool == <<threads, tasks, state, num_working, worker, terminated>>
history == <<accepted, started, done>>

Off == [pc |-> "off", job |-> 0]
Exited == [pc |-> "exited", job |-> 0]
Alive == {w \in Worker : worker[w].pc \in {"top", "wait", "run"}}

TypeOK ==
  /\ threads \in Seq(Worker \cup {NoThread})
  /\ tasks \in Seq(1..MaxTasks) /\ Len(tasks) <= max_queue_size
  /\ state \in {"kRun", "kStopping", "kStopped"}
  /\ num_working \in Int
  /\ worker \in [Worker -> [pc : {"off", "top", "wait", "run", "exited"},
                            job : 0..MaxTasks]]
  /\ stop \in [pc : {"idle", "loop", "join", "joining", "close"},
               calls : 0..MaxStops, await : BOOLEAN,
               i : Nat \ {0}, w : Worker \cup {NoThread}]
  /\ accepted \in 0..MaxTasks /\ started \in 0..MaxTasks
  /\ done \subseteq 1..MaxTasks
  /\ terminated \in BOOLEAN

(* The constructor: low_watermark threads, each about to enter its loop. *)
Init ==
  /\ threads \in [1..low_watermark -> Worker]
  /\ \A i, j \in 1..low_watermark : threads[i] = threads[j] => i = j
  /\ tasks = <<>>
  /\ state = "kRun"
  /\ num_working = 0
  /\ worker = [w \in Worker |->
       IF \E i \in 1..low_watermark : threads[i] = w
       THEN [pc |-> "top", job |-> 0] ELSE Off]
  /\ stop = [pc |-> "idle", calls |-> 0, await |-> FALSE, i |-> 1, w |-> NoThread]
  /\ accepted = 0 /\ started = 0 /\ done = {}
  /\ terminated = FALSE

-----------------------------------------------------------------------------
(* The counter only ever decides whether it equals threads.size().  It never *)
(* exceeds zero, and a spinning thread lowers it without limit: below this   *)
(* floor the exact value makes no difference.                                *)
Floor == -(Cardinality(Worker) + 1)

Decremented == IF num_working > Floor THEN num_working - 1 ELSE num_working

-----------------------------------------------------------------------------
(* Execute *)

(* Mutant: the queue has no limit. *)
Rejected_NoLimit == state # "kRun"

Rejected == state # "kRun" \/ Len(tasks) = max_queue_size

(* Execute returns true: perhaps one more thread, and the task is queued. *)
Execute ==
  /\ ~terminated /\ accepted < MaxTasks
  /\ ~Rejected
  /\ IF num_working = Len(threads) /\ Len(threads) < high_watermark
     THEN \E w \in Worker :
            /\ worker[w] = Off
            /\ threads' = Append(threads, w)
            /\ worker' = [worker EXCEPT ![w] = [pc |-> "top", job |-> 0]]
     ELSE UNCHANGED <<threads, worker>>
  /\ accepted' = accepted + 1
  /\ tasks' = Append(tasks, accepted')
  /\ UNCHANGED <<state, num_working, stop, started, done, terminated>>

-----------------------------------------------------------------------------
(* perform *)

(* The predicate given to wait_for. *)
Predicate == state = "kStopping" \/ tasks = <<>>

(* Mutant: detach() without erase(). *)
EraseSelf_DetachOnly(w) == UNCHANGED threads

(* detach() and erase() of the slot that holds this thread's id, if any.  *)
EraseSelf(w) ==
  LET Slots == {i \in 1..Len(threads) : threads[i] = w}
  IN  IF Slots = {} THEN UNCHANGED threads
      ELSE LET i == CHOOSE i \in Slots : \A j \in Slots : i <= j
           IN  threads' = [j \in 1..Len(threads) - 1 |->
                             threads[IF j < i THEN j ELSE j + 1]]

(* Mutant: an idle thread leaves only if there are others to spare. *)
MayExit_IgnoresStop ==
  /\ tasks = <<>>
  /\ Len(threads) > low_watermark

(* Mutant: every thread that finds the queue empty leaves. *)
MayExit_IgnoresLow == tasks = <<>>

MayExit ==
  /\ tasks = <<>>
  /\ Len(threads) > low_watermark \/ state # "kRun"

(* wait_for has returned true. *)
Woken(w) ==
  /\ IF MayExit
     THEN EraseSelf(w) /\ worker' = [worker EXCEPT ![w] = Exited]
     ELSE UNCHANGED threads /\ worker' = [worker EXCEPT ![w].pc = "top"]
  /\ UNCHANGED <<tasks, state, started>>

(* Mutant: the counter is not lowered. *)
LoopTop_NoDecrement(w) ==
  /\ ~terminated /\ worker[w].pc = "top"
  /\ IF Predicate THEN Woken(w)
     ELSE /\ worker' = [worker EXCEPT ![w].pc = "wait"]
          /\ UNCHANGED <<threads, tasks, state, started>>
  /\ UNCHANGED <<num_working, stop, accepted, done, terminated>>

(* From the top of the loop into wait_for, which looks at the predicate     *)
(* before it waits.                                                         *)
LoopTop(w) ==
  /\ ~terminated /\ worker[w].pc = "top"
  /\ num_working' = Decremented
  /\ IF Predicate THEN Woken(w)
     ELSE /\ worker' = [worker EXCEPT ![w].pc = "wait"]
          /\ UNCHANGED <<threads, tasks, state, started>>
  /\ UNCHANGED <<stop, accepted, done, terminated>>

(* Notified, or timed out, and the predicate is true by now. *)
WaitTrue(w) ==
  /\ ~terminated /\ worker[w].pc = "wait" /\ Predicate
  /\ Woken(w)
  /\ UNCHANGED <<num_working, stop, accepted, done, terminated>>

(* Mutant: front() without pop_front(). *)
WaitTimeout_NoPop(w) ==
  /\ ~terminated /\ worker[w].pc = "wait" /\ ~Predicate
  /\ state # "kStopped"
  /\ num_working' = num_working + 1
  /\ worker' = [worker EXCEPT ![w] = [pc |-> "run", job |-> Head(tasks)]]
  /\ started' = started + 1
  /\ UNCHANGED <<threads, tasks, state, stop, accepted, done, terminated>>

(* Timed out with the predicate still false: take the front task. *)
WaitTimeout(w) ==
  /\ ~terminated /\ worker[w].pc = "wait" /\ ~Predicate
  /\ state # "kStopped"
  /\ num_working' = num_working + 1
  /\ worker' = [worker EXCEPT ![w] = [pc |-> "run", job |-> Head(tasks)]]
  /\ tasks' = Tail(tasks)
  /\ started' = started + 1
  /\ UNCHANGED <<threads, state, stop, accepted, done, terminated>>

(* The same, but the pool has been stopped: the thread leaves its slot.     *)
WaitStopped(w) ==
  /\ ~terminated /\ worker[w].pc = "wait" /\ ~Predicate
  /\ state = "kStopped"
  /\ worker' = [worker EXCEPT ![w] = Exited]
  /\ UNCHANGED <<threads, tasks, state, num_working, stop, history, terminated>>

TaskReturns(w) ==
  /\ ~terminated /\ worker[w].pc = "run"
  /\ worker' = [worker EXCEPT ![w] = [pc |-> "top", job |-> 0]]
  /\ done' = done \cup {worker[w].job}
  /\ UNCHANGED <<threads, tasks, state, num_working, stop, accepted, started, terminated>>

(* perform catches nothing. *)
TaskThrows(w) ==
  /\ ~terminated /\ worker[w].pc = "run" /\ TasksThrow
  /\ terminated' = TRUE
  /\ UNCHANGED <<threads, tasks, state, num_working, worker, stop, history>>

-----------------------------------------------------------------------------
(* Stop(await).  The destructor calls Stop(true). *)

Stop(await) ==
  /\ ~terminated /\ stop.pc = "idle" /\ stop.calls < MaxStops
  /\ state' = IF state = "kRun" THEN "kStopping" ELSE state
  /\ stop' = [stop EXCEPT !.pc = IF await THEN "loop" ELSE "close",
                          !.calls = @ + 1, !.await = await, !.i = 1]
  /\ UNCHANGED <<threads, tasks, num_working, worker, history, terminated>>

Joinable(i) == i <= Len(threads) /\ threads[i] # NoThread

(* The loop condition and threads[i].joinable() *)
StopCheck ==
  /\ ~terminated /\ stop.pc = "loop"
  /\ stop' = IF stop.i > Len(threads) THEN [stop EXCEPT !.pc = "close"]
             ELSE IF Joinable(stop.i) THEN [stop EXCEPT !.pc = "join"]
             ELSE [stop EXCEPT !.i = @ + 1]
  /\ UNCHANGED <<pool, history>>

(* threads[i].join(): it throws if the thread has detached itself since.    *)
StopJoin ==
  /\ ~terminated /\ stop.pc = "join"
  /\ IF Joinable(stop.i)
     THEN /\ stop' = [stop EXCEPT !.pc = "joining", !.w = threads[stop.i]]
          /\ UNCHANGED terminated
     ELSE terminated' = TRUE /\ UNCHANGED stop
  /\ UNCHANGED <<threads, tasks, state, num_working, worker, history>>

(* join() returns when that thread has exited, and then clears the id in    *)
(* the slot it was called on, whichever thread has been moved there since.  *)
StopJoined ==
  /\ ~terminated /\ stop.pc = "joining" /\ worker[stop.w] = Exited
  /\ threads' = [i \in 1..Len(threads) |-> IF i = stop.i THEN NoThread ELSE threads[i]]
  /\ stop' = [stop EXCEPT !.pc = "loop", !.i = @ + 1, !.w = NoThread]
  /\ UNCHANGED <<tasks, state, num_working, worker, history, terminated>>

StopClose ==
  /\ ~terminated /\ stop.pc = "close"
  /\ state' = "kStopped"
  /\ stop' = [stop EXCEPT !.pc = "idle"]
  /\ UNCHANGED <<threads, tasks, num_working, worker, history, terminated>>

-----------------------------------------------------------------------------
Perform(w) ==
  LoopTop(w) \/ WaitTrue(w) \/ WaitTimeout(w) \/ WaitStopped(w)

Stopping == StopCheck \/ StopJoin \/ StopJoined \/ StopClose

Next ==
  \/ Execute
  \/ \E w \in Worker : Perform(w) \/ TaskReturns(w) \/ TaskThrows(w)
  \/ \E await \in BOOLEAN : Stop(await)
  \/ Stopping

Spec == Init /\ [][Next]_vars

(* Every pool thread is scheduled, waits end by timeout at the latest, a     *)
(* task that was started returns or throws, and a call of Stop goes on.      *)
(* Nobody has to call Execute or Stop.                                       *)
FairSpec ==
  /\ Spec
  /\ \A w \in Worker : WF_vars(Perform(w)) /\ WF_vars(TaskReturns(w) \/ TaskThrows(w))
  /\ WF_vars(Stopping)

-----------------------------------------------------------------------------
(* Properties. *)

(* No accepted task is lost, reordered or run twice: the queue holds exactly *)
(* the accepted tasks that were not taken yet, in the order of acceptance,   *)
(* and every task taken is done or on exactly one thread.                    *)
EachTaskOnce ==
  /\ started + Len(tasks) = accepted
  /\ \A i \in 1..Len(tasks) : tasks[i] = started + i
  /\ 1..started = done \cup {worker[w].job : w \in {v \in Worker : worker[v].pc = "run"}}
  /\ \A v, w \in Worker :
       worker[v].pc = "run" /\ worker[w].pc = "run" =>
         worker[v].job \notin done /\ (worker[v].job = worker[w].job => v = w)

(* The counter never says that a thread is working: each thread lowers it    *)
(* once before it first raises it.  `num_working == threads.size()' can hold *)
(* for an empty pool only.                                                   *)
CounterNeverPositive == num_working <= 0

(* Until Stop is called, every pool thread has exactly one slot in `threads' *)
(* and every slot a living thread, and the pool stays between its marks,     *)
(* although threads above low_watermark remove themselves.                   *)
PoolWithinWatermarks ==
  state = "kRun" =>
    /\ low_watermark <= Len(threads) /\ Len(threads) <= high_watermark
    /\ \A i, j \in 1..Len(threads) : threads[i] = threads[j] => i = j
    /\ {threads[i] : i \in 1..Len(threads)} = Alive

(* A pool with at least one thread gets to every task it has accepted,       *)
(* unless it is stopped first.                                               *)
AcceptedTasksStart ==
  \A t \in 1..MaxTasks :
    (accepted >= t) ~> (started >= t \/ state # "kRun" \/ terminated)

(* Stop(true) returns once the queue is empty, whatever the pool threads do  *)
(* to the vector it is walking.                                              *)
StopReturns ==
  (stop.pc = "loop" /\ tasks = <<>>) ~> (stop.pc = "idle" \/ terminated)
=============================================================================
