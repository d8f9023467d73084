------------------------------ MODULE UVWorker ------------------------------
(***************************************************************************)
(* One worker of the default network service, src/network/uv/Worker.{h,cpp}: *)
(* its connections, the tasks that carry replies, and its shutdown, as     *)
(* callbacks of a libuv event loop.                                        *)
(*                                                                         *)
(* The loop (external, libuv 1.11) runs callbacks in phases.  In "poll" it *)
(* reports events in any order.  In "closing" it finishes the handles that *)
(* uv_close was called on, the last one first; a stream's pending write    *)
(* requests are called back just before its own close callback.  uv_close  *)
(* of a handle that is closing already fails an assertion, and uv_write on *)
(* a closing stream returns an error at once.                              *)
(*                                                                         *)
(* A read event is abstracted to the number of commands it completes and   *)
(* whether the rest of it is malformed; sRecvHeader to sRecvTrailerLF are  *)
(* one state, sRecv.  Assertions are on, as in build.sh.                   *)
(***************************************************************************)
EXTENDS Integers, Sequences, FiniteSets

CONSTANTS
  MaxConns,     \* bound: connections ever opened
  MaxTasks,     \* bound: replies ever produced
  MaxBatch      \* bound: commands completed by one read

ASSUME UVAssumption == MaxConns \in Nat /\ MaxTasks \in Nat /\ MaxBatch \in Nat

Conn == 1..MaxConns
Task == 1..MaxTasks

WorkerHandle == {"uvStopAsync", "uvSigPipe", "uvNetwork"}
Handle == (Conn \X {"conn"}) \cup (Task \X {"done"}) \cup ({0} \X WorkerHandle)

VARIABLES
  phase,    \* of the event loop: poll, closing, exited when uv_run is over,
            \* or spin when a callback does not return
  handles,  \* the handles of the loop that are not closed yet
  closing,  \* handles given to uv_close, the last one first
  batch,    \* the handles being finished in this closing phase
  stopSent, \* Stop() has signalled uvStopAsync
  conn,     \* per Connection: its state, runningTasks and stream handle
  alive,    \* the worker's set of connections
  task,     \* per ExecuteTask: its connection and its stage
  created,  \* how many tasks there have been
  crash,    \* how the process ended, if it did
  clientsWait \* whether clients collect their replies before they hang up;
              \* chosen once and for all

uvars == <<phase, handles, closing, batch, stopSent, conn, alive, task, created, crash,
           clientsWait>>

(* Mutant: the constructor leaves runningTasks to chance. *)
NewConn_Uninitialised ==
  [state |-> "sRecv", runningTasks |-> -1, stream |-> "none", reading |-> FALSE]

NewConn == [state |-> "sRecv", runningTasks |-> 0, stream |-> "none", reading |-> FALSE]
NoTask == [stage |-> "none", connection |-> 0]

UTypeOK ==
  /\ phase \in {"poll", "closing", "exited", "spin"}
  /\ handles \subseteq Handle
  /\ closing \in Seq(Handle) /\ batch \in Seq(Handle)
  /\ stopSent \in BOOLEAN
  /\ conn \in [Conn -> [state : {"sRecv", "sClosed"}, runningTasks : 0..MaxTasks,
                        stream : {"none", "open", "closing", "failed", "closed", "freed"},
                        reading : BOOLEAN]]
  /\ alive \subseteq Conn
  /\ task \in [Task -> [stage : {"none", "sent", "writing", "freed"}, connection : 0..MaxConns]]
  /\ created \in 0..MaxTasks
  /\ crash \in {"none", "double_close", "write_error", "assert", "use_after_free"}
  /\ clientsWait \in BOOLEAN

(* Start has run: three handles, no connections. *)
UInit ==
  /\ phase = "poll"
  /\ handles = {0} \X WorkerHandle
  /\ closing = <<>> /\ batch = <<>>
  /\ stopSent = FALSE
  /\ conn = [c \in Conn |-> NewConn] /\ alive = {}
  /\ task = [t \in Task |-> NoTask] /\ created = 0
  /\ crash = "none"
  /\ clientsWait \in BOOLEAN

-----------------------------------------------------------------------------
Up(p) == crash = "none" /\ phase = p

IsOpen(h) ==
  h \in handles /\ \A i \in 1..Len(closing \o batch) : (closing \o batch)[i] # h

TasksOf(c, stage) == {t \in Task : task[t].stage = stage /\ task[t].connection = c}

Crash(how) ==
  /\ crash' = how
  /\ UNCHANGED <<phase, handles, closing, batch, stopSent, conn, alive, task, created, clientsWait>>

(* Stop() of Worker.h, from the main thread *)
Stop ==
  /\ crash = "none" /\ ~stopSent
  /\ stopSent' = TRUE
  /\ UNCHANGED <<phase, handles, closing, batch, conn, alive, task, created, crash, clientsWait>>

-----------------------------------------------------------------------------
(* Callbacks of the poll phase. *)

(* If uv_accept or uv_read_start fails, the connection is closed with the    *)
(* callback that does not take it out of `alive'.                            *)
OnConnectionOpen(c) ==
  /\ Up("poll") /\ IsOpen(<<0, "uvNetwork">>)
  /\ conn[c].stream = "none" /\ \A d \in 1..c - 1 : conn[d].stream # "none"
  /\ alive' = alive \cup {c}
  /\ handles' = handles \cup {<<c, "conn">>}
  /\ \/ /\ conn' = [conn EXCEPT ![c].stream = "open", ![c].reading = TRUE]
        /\ UNCHANGED closing
     \/ /\ conn' = [conn EXCEPT ![c].stream = "failed"]
        /\ closing' = <<<<c, "conn">>>> \o closing
  /\ UNCHANGED <<phase, batch, stopSent, task, created, crash, clientsWait>>

(* Mutant: the task that carries CLIENT_ERROR is not counted. *)
NewRunning_CommandsOnly(c, n, malformed) == conn[c].runningTasks + n

NewRunning(c, n, malformed) == conn[c].runningTasks + n + (IF malformed THEN 1 ELSE 0)

(* n commands are executed; each leaves a task whose async has been sent.    *)
(* Then, if what follows is malformed, CLIENT_ERROR goes out through a task  *)
(* of its own and the connection is marked sClosed.                          *)
OnReadData(c, n, malformed) ==
  LET m == n + (IF malformed THEN 1 ELSE 0)
      err == created + m
  IN  /\ Up("poll")
      /\ conn[c].stream = "open" /\ conn[c].reading /\ conn[c].state # "sClosed"
      /\ m > 0 /\ created + m <= MaxTasks
      /\ created' = created + m
      /\ task' = [t \in Task |->
           IF t \in created + 1 .. created + m
           THEN [stage |-> IF malformed /\ t = err THEN "writing" ELSE "sent",
                 connection |-> c]
           ELSE task[t]]
      /\ handles' = handles \cup ((created + 1 .. created + m) \X {"done"})
      /\ closing' = IF malformed THEN <<<<err, "done">>>> \o closing ELSE closing
      /\ conn' = [conn EXCEPT ![c].runningTasks = NewRunning(c, n, malformed),
                              ![c].state = IF malformed THEN "sClosed" ELSE @]
      /\ UNCHANGED <<phase, batch, stopSent, alive, crash, clientsWait>>

(* Parse looks at the buffer from its first byte on every turn of the loop,  *)
(* so bytes behind a command make it find that same command again, and       *)
(* execute it again, for ever.  (Only if the front of the buffer was the end *)
(* of a body does the loop get out: that is OnReadData with m > 1.)  The     *)
(* tasks made on the way are not recorded.                                   *)
OnReadSpins(c) ==
  /\ Up("poll")
  /\ conn[c].stream = "open" /\ conn[c].reading /\ conn[c].state # "sClosed"
  /\ phase' = "spin"
  /\ UNCHANGED <<handles, closing, batch, stopSent, conn, alive, task, created, crash, clientsWait>>

(* End of stream or a read error: the connection is closed, whatever runs.   *)
OnReadEnd(c) ==
  /\ Up("poll")
  /\ conn[c].stream = "open" /\ conn[c].reading
  /\ clientsWait => conn[c].runningTasks = 0
  /\ conn' = [conn EXCEPT ![c].stream = "closing", ![c].reading = FALSE]
  /\ closing' = <<<<c, "conn">>>> \o closing
  /\ UNCHANGED <<phase, handles, batch, stopSent, alive, task, created, crash, clientsWait>>

(* Mutant: nothing is written to a connection marked sClosed. *)
OnExecutionDone_SkipsClosed(t) ==
  LET c == task[t].connection
  IN  /\ Up("poll") /\ task[t].stage = "sent"
      /\ \A u \in 1..t - 1 : task[u].stage # "sent"
      /\ conn[c].stream = "open" /\ conn[c].state # "sClosed"
      /\ closing' = <<<<t, "done">>>> \o closing
      /\ task' = [task EXCEPT ![t].stage = "writing"]
      /\ UNCHANGED <<phase, handles, batch, stopSent, conn, alive, created, crash, clientsWait>>

(* The async of a task fires; asyncs fire in the order of their creation.    *)
OnExecutionDone(t) ==
  LET c == task[t].connection
  IN  /\ Up("poll") /\ task[t].stage = "sent"
      /\ \A u \in 1..t - 1 : task[u].stage # "sent"
      /\ IF conn[c].stream = "open"
         THEN /\ closing' = <<<<t, "done">>>> \o closing
              /\ task' = [task EXCEPT ![t].stage = "writing"]
              /\ UNCHANGED <<phase, handles, batch, stopSent, conn, alive, created, crash, clientsWait>>
         ELSE Crash("write_error")

(* Mutant: an sClosed connection is not closed with its last reply. *)
LastReply_Never(c) == FALSE

LastReply(c) == conn[c].state = "sClosed" /\ conn[c].runningTasks = 1

(* Mutant: the task, which is freed here, closes its async once more. *)
OnWriteDone_ClosesAsync(t) ==
  LET c == task[t].connection
  IN  /\ Up("poll") /\ task[t].stage = "writing" /\ <<t, "done">> \notin handles
      /\ conn[c].stream = "open"
      /\ task' = [task EXCEPT ![t].stage = "freed"]
      /\ conn' = [conn EXCEPT ![c].runningTasks = @ - 1]
      /\ closing' = <<<<t, "done">>>> \o closing
      /\ UNCHANGED <<phase, handles, batch, stopSent, alive, created, crash, clientsWait>>

(* A write that uv_write made is called back in a later iteration. *)
OnWriteDone(t) ==
  LET c == task[t].connection
  IN  /\ Up("poll") /\ task[t].stage = "writing" /\ <<t, "done">> \notin handles
      /\ conn[c].stream = "open"
      /\ task' = [task EXCEPT ![t].stage = "freed"]
      /\ IF LastReply(c)
         THEN /\ conn' = [conn EXCEPT ![c].runningTasks = @ - 1, ![c].stream = "closing",
                                      ![c].reading = FALSE]
              /\ closing' = <<<<c, "conn">>>> \o closing
         ELSE /\ conn' = [conn EXCEPT ![c].runningTasks = @ - 1]
              /\ UNCHANGED closing
      /\ UNCHANGED <<phase, handles, batch, stopSent, alive, created, crash, clientsWait>>

(* The connections OnStop closes at once. *)
Drained == {c \in alive : conn[c].runningTasks = 0}

Orders(S) == {s \in [1..Cardinality(S) -> S] : \A i, j \in DOMAIN s : s[i] = s[j] => i = j}

(* OnStop: the worker's handles are closed, all connections stop reading,    *)
(* and those without running tasks are closed: once more, if they were       *)
(* closing already.                                                          *)
OnStop ==
  /\ Up("poll") /\ stopSent /\ IsOpen(<<0, "uvStopAsync">>)
  /\ IF \E c \in Drained : conn[c].stream # "open"
     THEN Crash("double_close")
     ELSE /\ \E s \in Orders(Drained) :
               closing' = [i \in DOMAIN s |-> <<s[i], "conn">>]
                          \o <<<<0, "uvNetwork">>, <<0, "uvSigPipe">>, <<0, "uvStopAsync">>>>
                          \o closing
          /\ conn' = [c \in Conn |->
               IF c \notin alive THEN conn[c]
               ELSE [conn[c] EXCEPT !.state = "sClosed", !.reading = FALSE,
                                    !.stream = IF c \in Drained THEN "closing" ELSE @]]
          /\ UNCHANGED <<phase, handles, batch, stopSent, alive, task, created, crash, clientsWait>>

-----------------------------------------------------------------------------
(* The closing phase. *)

EndPoll ==
  /\ Up("poll") /\ closing # <<>>
  /\ phase' = "closing" /\ batch' = closing /\ closing' = <<>>
  /\ UNCHANGED <<handles, stopSent, conn, alive, task, created, crash, clientsWait>>

(* CloseEventLoppIfPossible: uv_loop_close succeeds when nothing is left.    *)
CloseEventLoppIfPossible ==
  phase' = IF alive' = {} /\ handles' = {} /\ \A t \in Task : task'[t].stage # "writing"
           THEN "exited" ELSE phase

Finishing(h) == Up("closing") /\ batch # <<>> /\ Head(batch) = h

(* A handle of the worker, or of a task, unless the task is gone already.    *)
OnHandleClosed(h) ==
  /\ Finishing(h)
  /\ IF h[2] = "done" /\ task[h[1]].stage = "freed"
     THEN Crash("use_after_free")
     ELSE /\ handles' = handles \ {h}
          /\ batch' = Tail(batch)
          /\ UNCHANGED <<closing, stopSent, conn, alive, task, created, crash, clientsWait>>
          /\ CloseEventLoppIfPossible

(* A connection whose accept had failed: it stays in `alive'. *)
OnFailedClosed(c) ==
  /\ Finishing(<<c, "conn">>) /\ conn[c].stream = "failed"
  /\ conn' = [conn EXCEPT ![c].stream = "closed"]
  /\ handles' = handles \ {<<c, "conn">>}
  /\ batch' = Tail(batch)
  /\ UNCHANGED <<closing, stopSent, alive, task, created, crash, clientsWait>>
  /\ CloseEventLoppIfPossible

(* The stream's pending writes are called back (OnWriteDone), which closes   *)
(* an sClosed connection again with its last reply; then OnConnectionClosed  *)
(* asserts that no task is left, and frees the connection.                   *)
OnConnectionClosed(c) ==
  LET writes == TasksOf(c, "writing")
      left == conn[c].runningTasks - Cardinality(writes)
  IN  /\ Finishing(<<c, "conn">>) /\ conn[c].stream = "closing"
      /\ IF writes # {} /\ conn[c].state = "sClosed" /\ left = 0
         THEN Crash("double_close")
         ELSE IF left # 0 THEN Crash("assert")
         ELSE /\ conn' = [conn EXCEPT ![c].runningTasks = 0, ![c].stream = "freed"]
              /\ alive' = alive \ {c}
              /\ task' = [t \in Task |-> IF t \in writes THEN [task[t] EXCEPT !.stage = "freed"]
                                         ELSE task[t]]
              /\ handles' = handles \ {<<c, "conn">>}
              /\ batch' = Tail(batch)
              /\ UNCHANGED <<closing, stopSent, created, crash, clientsWait>>
              /\ CloseEventLoppIfPossible

(* The next iteration, or the end of uv_run when no handle is left. *)
EndClosing ==
  /\ Up("closing") /\ batch = <<>>
  /\ phase' = IF handles = {} THEN "exited" ELSE "poll"
  /\ UNCHANGED <<handles, closing, batch, stopSent, conn, alive, task, created, crash, clientsWait>>

-----------------------------------------------------------------------------
(* What the loop does on its own, without anything from a client. *)
Loop ==
  \/ \E t \in Task : OnExecutionDone(t) \/ OnWriteDone(t)
  \/ OnStop \/ EndPoll \/ EndClosing
  \/ \E h \in (Task \X {"done"}) \cup ({0} \X WorkerHandle) : OnHandleClosed(h)
  \/ \E c \in Conn : OnFailedClosed(c) \/ OnConnectionClosed(c)

UNext ==
  \/ Loop
  \/ Stop
  \/ \E c \in Conn :
       \/ OnConnectionOpen(c) \/ OnReadEnd(c) \/ OnReadSpins(c)
       \/ \E n \in 0..MaxBatch, malformed \in BOOLEAN : OnReadData(c, n, malformed)

USpec == UInit /\ [][UNext]_uvars

(* The loop's thread is scheduled, every event source gets its turn, and     *)
(* what was written is taken by the kernel.  No client has to do anything.   *)
UFairSpec ==
  /\ USpec
  /\ WF_uvars(EndPoll) /\ WF_uvars(EndClosing) /\ WF_uvars(OnStop)
  /\ \A t \in Task : WF_uvars(OnExecutionDone(t)) /\ WF_uvars(OnWriteDone(t))
  /\ WF_uvars(\E h \in Handle : Finishing(h) /\ Loop)

-----------------------------------------------------------------------------
(* Properties. *)

(* runningTasks counts the tasks that still refer to the connection, through *)
(* pipelined commands, CLIENT_ERROR and cancelled writes, and a task never   *)
(* refers to a connection that has been freed.                               *)
RunningTasksExact ==
  \A c \in Conn :
    /\ conn[c].runningTasks = Cardinality(TasksOf(c, "sent") \cup TasksOf(c, "writing"))
    /\ conn[c].runningTasks > 0 => c \in alive

(* With clients that collect their replies before they hang up, no callback  *)
(* runs on freed memory, no reply meets a closed stream, the assertion of    *)
(* OnConnectionClosed holds, and no reply is lost: a connection is closed    *)
(* with no task left, also while the worker is being stopped.                *)
PoliteClientsAreSafe ==
  clientsWait =>
    /\ crash \in {"none", "double_close"}
    /\ \A c \in Conn : conn[c].stream = "closing" => conn[c].runningTasks = 0

(* Every command read is answered, also when the worker is stopped meanwhile, *)
(* unless the process has died or a read callback does not return.           *)
CommandsAnswered ==
  \A t \in Task :
    (task[t].stage = "sent") ~> (task[t].stage = "freed" \/ crash # "none" \/ phase = "spin")

(* Once Stop has been called the event loop ends, and with it the thread     *)
(* that Join waits for, with the same exceptions; clients need not do        *)
(* anything for it.                                                          *)
StopEndsWorker == stopSent ~> (phase \in {"exited", "spin"} \/ crash # "none")
=============================================================================
