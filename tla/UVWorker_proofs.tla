--------------------------- MODULE UVWorker_proofs ---------------------------
(***************************************************************************)
(* Proofs about the libuv worker, for any number of connections, replies   *)
(* and commands per read.                                                  *)
(***************************************************************************)
EXTENDS UVWorker, SequenceTheorems, FiniteSetTheorems, TLAPS

ConnRec == [state : {"sRecv", "sClosed"}, runningTasks : 0..MaxTasks,
            stream : {"none", "open", "closing", "failed", "closed", "freed"},
            reading : BOOLEAN]
TaskRec == [stage : {"none", "sent", "writing", "freed"}, connection : 0..MaxConns]

-----------------------------------------------------------------------------
(* Sequences of handles. *)

(* No task's handle is twice in s. *)
Unique(s) == \A i, j \in 1..Len(s) : s[i] = s[j] /\ s[i][2] = "done" => i = j

(* The tasks' handles in s are open, and their replies are being written. *)
Live(s) == \A i \in 1..Len(s) :
             s[i][2] = "done" => s[i] \in handles /\ task[s[i][1]].stage = "writing"

(* Of two lists of handles that share none of a task. *)
LEMMA UniqueConcat ==
  ASSUME NEW s \in Seq(Handle), NEW q \in Seq(Handle), Unique(s), Unique(q),
         \A i \in 1..Len(s), j \in 1..Len(q) : s[i][2] = "done" => s[i] # q[j]
  PROVE  s \o q \in Seq(Handle) /\ Unique(s \o q)
<1>0. Len(s) \in Nat /\ Len(q) \in Nat
  OBVIOUS
<1>1. /\ s \o q \in Seq(Handle) /\ Len(s \o q) = Len(s) + Len(q)
      /\ \A i \in 1..Len(s) + Len(q) :
           (s \o q)[i] = IF i <= Len(s) THEN s[i] ELSE q[i - Len(s)]
  BY ConcatProperties
<1> DEFINE r == s \o q
<1> SUFFICES ASSUME NEW i \in 1..Len(s) + Len(q), NEW j \in 1..Len(s) + Len(q),
                    r[i] = r[j], r[i][2] = "done"
             PROVE  i = j
  BY <1>1 DEF Unique
<1>2. CASE i <= Len(s) /\ j <= Len(s)
  <2>1. i \in 1..Len(s) /\ j \in 1..Len(s) /\ r[i] = s[i] /\ r[j] = s[j]
    BY <1>0, <1>1, <1>2
  <2> HIDE DEF r
  <2>2. QED
    BY <2>1 DEF Unique
<1>3. CASE i > Len(s) /\ j > Len(s)
  <2>1. /\ i - Len(s) \in 1..Len(q) /\ j - Len(s) \in 1..Len(q)
        /\ r[i] = q[i - Len(s)] /\ r[j] = q[j - Len(s)]
    BY <1>0, <1>1, <1>3
  <2> HIDE DEF r
  <2>2. i - Len(s) = j - Len(s)
    BY <2>1 DEF Unique
  <2>3. QED
    BY <1>0, <2>2
<1>4. CASE i <= Len(s) /\ j > Len(s)
  <2>1. i \in 1..Len(s) /\ j - Len(s) \in 1..Len(q) /\ r[i] = s[i] /\ r[j] = q[j - Len(s)]
    BY <1>0, <1>1, <1>4
  <2> HIDE DEF r
  <2>2. QED
    BY <2>1
<1>5. CASE i > Len(s) /\ j <= Len(s)
  <2>1. j \in 1..Len(s) /\ i - Len(s) \in 1..Len(q) /\ r[j] = s[j] /\ r[i] = q[i - Len(s)]
    BY <1>0, <1>1, <1>5
  <2> HIDE DEF r
  <2>2. QED
    BY <2>1
<1>6. QED
  BY <1>0, <1>2, <1>3, <1>4, <1>5

(* What is in a concatenation is in one of its parts. *)
LEMMA ConcatElements ==
  ASSUME NEW s \in Seq(Handle), NEW q \in Seq(Handle), NEW k \in 1..Len(s \o q)
  PROVE  \/ \E i \in 1..Len(s) : (s \o q)[k] = s[i]
         \/ \E i \in 1..Len(q) : (s \o q)[k] = q[i]
<1>0. Len(s) \in Nat /\ Len(q) \in Nat
  OBVIOUS
<1>1. /\ Len(s \o q) = Len(s) + Len(q)
      /\ \A i \in 1..Len(s) + Len(q) :
           (s \o q)[i] = IF i <= Len(s) THEN s[i] ELSE q[i - Len(s)]
  BY ConcatProperties
<1>2. CASE k <= Len(s)
  BY <1>0, <1>1, <1>2
<1>3. CASE k > Len(s)
  <2>1. k - Len(s) \in 1..Len(q) /\ (s \o q)[k] = q[k - Len(s)]
    BY <1>0, <1>1, <1>3
  <2>2. QED
    BY <2>1
<1>4. QED
  BY <1>0, <1>1, <1>2, <1>3

(* One handle in front. *)
LEMMA ConsHandle ==
  ASSUME NEW h \in Handle, NEW q \in Seq(Handle)
  PROVE  /\ <<h>> \o q \in Seq(Handle)
         /\ Unique(q) /\ (h[2] = "done" => \A j \in 1..Len(q) : q[j] # h)
              => Unique(<<h>> \o q)
         /\ \A k \in 1..Len(<<h>> \o q) :
              (<<h>> \o q)[k] = h \/ \E i \in 1..Len(q) : (<<h>> \o q)[k] = q[i]
<1>1. <<h>> \in Seq(Handle) /\ Len(<<h>>) = 1 /\ <<h>>[1] = h /\ Unique(<<h>>)
  BY DEF Unique
<1>2. <<h>> \o q \in Seq(Handle)
  BY <1>1, ConcatProperties
<1>3. ASSUME Unique(q), h[2] = "done" => \A j \in 1..Len(q) : q[j] # h
      PROVE  Unique(<<h>> \o q)
  <2>1. \A i \in 1..Len(<<h>>), j \in 1..Len(q) : <<h>>[i][2] = "done" => <<h>>[i] # q[j]
    BY <1>1, <1>3
  <2>2. QED
    BY <1>1, <1>3, <2>1, UniqueConcat
<1>4. \A k \in 1..Len(<<h>> \o q) :
        (<<h>> \o q)[k] = h \/ \E i \in 1..Len(q) : (<<h>> \o q)[k] = q[i]
  <2> TAKE k \in 1..Len(<<h>> \o q)
  <2>1. \/ \E i \in 1..Len(<<h>>) : (<<h>> \o q)[k] = <<h>>[i]
        \/ \E i \in 1..Len(q) : (<<h>> \o q)[k] = q[i]
    BY <1>1, ConcatElements
  <2>2. QED
    BY <1>1, <2>1
<1>5. QED
  BY <1>2, <1>3, <1>4

(* The rest of a list of handles, of which the first is gone. *)
LEMMA TailHandles ==
  ASSUME NEW q \in Seq(Handle), q # <<>>
  PROVE  /\ Head(q) \in Handle /\ Tail(q) \in Seq(Handle)
         /\ Head(q) = q[1] /\ 1 \in 1..Len(q)
         /\ Unique(q) => /\ Unique(Tail(q))
                         /\ \A k \in 1..Len(Tail(q)) :
                              Head(q)[2] = "done" => Tail(q)[k] # Head(q)
         /\ \A k \in 1..Len(Tail(q)) : \E i \in 1..Len(q) : Tail(q)[k] = q[i]
<1>1. /\ Head(q) \in Handle /\ Tail(q) \in Seq(Handle)
      /\ Len(Tail(q)) = Len(q) - 1
      /\ \A i \in 1..Len(Tail(q)) : Tail(q)[i] = q[i + 1]
  BY HeadTailProperties
<1>2. Head(q) = q[1] /\ Len(q) \in Nat \ {0} /\ 1 \in 1..Len(q)
  OBVIOUS
<1>3. \A k \in 1..Len(Tail(q)) : k \in Nat /\ k > 0 /\ k + 1 \in 1..Len(q) /\ Tail(q)[k] = q[k + 1]
  BY <1>1, <1>2
<1>4. ASSUME Unique(q), NEW i \in 1..Len(Tail(q)), NEW j \in 1..Len(Tail(q)),
             Tail(q)[i] = Tail(q)[j], Tail(q)[i][2] = "done"
      PROVE  i = j
  <2>1. i + 1 = j + 1
    BY <1>3, <1>4 DEF Unique
  <2>2. QED
    BY <1>3, <2>1
<1>5. ASSUME Unique(q), NEW k \in 1..Len(Tail(q)), Head(q)[2] = "done", Tail(q)[k] = Head(q)
      PROVE  FALSE
  <2>1. k + 1 = 1
    BY <1>2, <1>3, <1>5 DEF Unique
  <2>2. QED
    BY <1>3, <2>1
<1>6. QED
  BY <1>1, <1>2, <1>3, <1>4, <1>5 DEF Unique

-----------------------------------------------------------------------------
(* The inductive invariant. *)

(* The tasks runningTasks stands for. *)
Referring(c) == TasksOf(c, "sent") \cup TasksOf(c, "writing")

(* Tasks are made in order and belong to connections; runningTasks counts    *)
(* them, and only the connections whose stream is in use have any.           *)
CountInv ==
  /\ \A t \in Task : t > created => task[t].stage = "none"
  /\ \A t \in Task : task[t].stage \in {"sent", "writing"} => task[t].connection \in Conn
  /\ \A c \in Conn : conn[c].runningTasks = Cardinality(Referring(c))
  /\ \A c \in Conn : conn[c].stream \in {"open", "closing"} => c \in alive
  /\ \A c \in Conn : conn[c].stream \notin {"open", "closing"} => conn[c].runningTasks = 0

(* The handles closed in a poll phase are all finished in the next closing   *)
(* phase, which closes none.                                                 *)
LoopInv == phase = "closing" => closing = <<>>

(* With clients that wait, a task's handle is closed once, when its reply is *)
(* written, and finished before the task is freed.                           *)
PoliteInv ==
  clientsWait =>
    /\ crash \in {"none", "double_close"}
    /\ \A c \in Conn : conn[c].stream # "open" => conn[c].runningTasks = 0
    /\ \A t \in Task : task[t].stage = "sent" => <<t, "done">> \in handles
    /\ Unique(closing) /\ Unique(batch) /\ Live(closing) /\ Live(batch)

UInv == UTypeOK /\ CountInv /\ LoopInv /\ PoliteInv

(* The types, by their names. *)
LEMMA Types ==
  ASSUME UTypeOK
  PROVE  /\ conn \in [Conn -> ConnRec] /\ task \in [Task -> TaskRec]
         /\ closing \in Seq(Handle) /\ batch \in Seq(Handle) /\ handles \subseteq Handle
         /\ created \in Nat /\ created <= MaxTasks
BY UVAssumption DEF UTypeOK, ConnRec, TaskRec

(* What refers to a connection. *)
LEMMA ReferringTasks ==
  ASSUME NEW c
  PROVE  /\ Referring(c) = {t \in Task : task[t].stage \in {"sent", "writing"}
                                         /\ task[t].connection = c}
         /\ IsFiniteSet(Referring(c)) /\ Cardinality(Referring(c)) \in 0..MaxTasks
<1>1. Referring(c) = {t \in Task : task[t].stage \in {"sent", "writing"}
                                   /\ task[t].connection = c}
  BY DEF Referring, TasksOf
<1>2. IsFiniteSet(Task) /\ Cardinality(Task) = MaxTasks
  BY FS_Interval, UVAssumption DEF Task
<1>3. Referring(c) \in SUBSET Task
  BY <1>1
<1>4. IsFiniteSet(Referring(c)) /\ Cardinality(Referring(c)) <= MaxTasks
  BY <1>2, <1>3, FS_Subset
<1>5. Cardinality(Referring(c)) \in Nat
  BY <1>4, FS_CardinalityType
<1>6. QED
  BY <1>1, <1>4, <1>5, UVAssumption

(* A connection some task refers to has running tasks, and its stream is in  *)
(* use: open, if clients wait.                                               *)
LEMMA ReferredConnection ==
  ASSUME UInv, NEW t \in Task, task[t].stage \in {"sent", "writing"}
  PROVE  /\ task[t].connection \in Conn
         /\ t \in Referring(task[t].connection)
         /\ conn[task[t].connection].runningTasks \in 1..MaxTasks
         /\ conn[task[t].connection].stream \in {"open", "closing"}
         /\ clientsWait => conn[task[t].connection].stream = "open"
<1> DEFINE c == task[t].connection
<1>1. c \in Conn
  BY DEF UInv, CountInv
<1>2. t \in Referring(c)
  BY ReferringTasks
<1>3. Cardinality(Referring(c)) # 0
  BY <1>2, ReferringTasks, FS_EmptySet
<1>4. Cardinality(Referring(c)) \in 1..MaxTasks
  BY <1>3, ReferringTasks, UVAssumption
<1>5. conn[c].runningTasks \in 1..MaxTasks
  BY <1>1, <1>4 DEF UInv, CountInv
<1>6. QED
  BY <1>1, <1>2, <1>5 DEF UInv, CountInv, PoliteInv

(* The initial state: three handles, no connection and no task. *)
LEMMA UInitInv == UInit => UInv
<1> SUFFICES ASSUME UInit PROVE UInv
  OBVIOUS
<1>1. UTypeOK
  <2>1. NewConn \in ConnRec /\ NoTask \in TaskRec
    BY UVAssumption DEF NewConn, NoTask, ConnRec, TaskRec
  <2>2. /\ <<>> \in Seq(Handle) /\ handles \subseteq Handle
    BY DEF UInit, Handle
  <2>3. conn \in [Conn -> ConnRec] /\ task \in [Task -> TaskRec]
    BY <2>1 DEF UInit
  <2>4. created \in 0..MaxTasks /\ alive \subseteq Conn
    BY UVAssumption DEF UInit
  <2>5. /\ phase \in {"poll", "closing", "exited", "spin"} /\ stopSent \in BOOLEAN
        /\ crash \in {"none", "double_close", "write_error", "assert", "use_after_free"}
        /\ closing \in Seq(Handle) /\ batch \in Seq(Handle) /\ clientsWait \in BOOLEAN
    BY <2>2 DEF UInit
  <2>6. QED
    BY <2>2, <2>3, <2>4, <2>5 DEF UTypeOK, ConnRec, TaskRec
<1>2. CountInv
  <2>1. \A c \in Conn : Referring(c) = {}
    BY DEF UInit, NoTask, Referring, TasksOf
  <2>2. \A c \in Conn : conn[c].runningTasks = Cardinality(Referring(c))
    BY <2>1, FS_EmptySet DEF UInit, NewConn
  <2>3. QED
    BY <2>2 DEF UInit, CountInv, NewConn, NoTask
<1>3. LoopInv /\ PoliteInv
  BY DEF UInit, LoopInv, PoliteInv, NewConn, NoTask, Unique, Live
<1>4. QED
  BY <1>1, <1>2, <1>3 DEF UInv

-----------------------------------------------------------------------------
(* Steps that leave connections and tasks alone. *)

(* The counting is about nothing else. *)
LEMMA CountQuiet ==
  ASSUME CountInv, UNCHANGED <<conn, alive, task, created>>
  PROVE  CountInv'
BY DEF CountInv, Referring, TasksOf

(* The process ends: with clients that wait, only by closing a handle twice. *)
LEMMA CrashInv ==
  ASSUME UInv, NEW how \in {"double_close", "write_error", "assert", "use_after_free"},
         Crash(how), clientsWait => how = "double_close"
  PROVE  UInv'
<1>1. UTypeOK'
  BY DEF UInv, UTypeOK, Crash
<1>2. CountInv' /\ LoopInv'
  BY CountQuiet DEF UInv, LoopInv, Crash
<1>3. PoliteInv'
  BY DEF UInv, PoliteInv, Crash, Unique, Live
<1>4. QED
  BY <1>1, <1>2, <1>3 DEF UInv

(* Stop and a read callback that does not return. *)
LEMMA StopInv ==
  ASSUME UInv, Stop \/ (\E c \in Conn : OnReadSpins(c)) \/ UNCHANGED uvars
  PROVE  UInv'
<1>1. /\ UNCHANGED <<handles, closing, batch, conn, alive, task, created, crash, clientsWait>>
      /\ stopSent' \in BOOLEAN
      /\ phase' = phase \/ phase' = "spin"
  BY DEF UInv, UTypeOK, Stop, OnReadSpins, uvars
<1>2. UTypeOK'
  BY <1>1 DEF UInv, UTypeOK
<1>3. CountInv' /\ LoopInv'
  BY <1>1, CountQuiet DEF UInv, LoopInv
<1>4. PoliteInv'
  BY <1>1 DEF UInv, PoliteInv, Unique, Live
<1>5. QED
  BY <1>2, <1>3, <1>4 DEF UInv

(* From one phase of the loop to the next. *)
LEMMA PhaseInv == ASSUME UInv, EndPoll \/ EndClosing PROVE UInv'
<1>1. /\ UNCHANGED <<handles, stopSent, conn, alive, task, created, crash, clientsWait>>
      /\ phase' \in {"poll", "closing", "exited"}
      /\ \/ batch' = closing /\ closing' = <<>>
         \/ phase' # "closing" /\ UNCHANGED <<closing, batch>>
  BY DEF EndPoll, EndClosing
<1>2. <<>> \in Seq(Handle) /\ Len(<<>>) = 0
  OBVIOUS
<1>3. UTypeOK'
  BY <1>1, <1>2 DEF UInv, UTypeOK
<1>4. CountInv' /\ LoopInv'
  BY <1>1, CountQuiet DEF UInv, LoopInv
<1>5. PoliteInv'
  BY <1>1, <1>2 DEF UInv, PoliteInv, Unique, Live
<1>6. QED
  BY <1>3, <1>4, <1>5 DEF UInv

(* The handle of a task, or of the worker, is finished.  With clients that   *)
(* wait, the task has not been freed.                                        *)
LEMMA HandleClosedInv ==
  ASSUME UInv, NEW h \in (Task \X {"done"}) \cup ({0} \X WorkerHandle), OnHandleClosed(h)
  PROVE  UInv'
<1>0. /\ batch \in Seq(Handle) /\ batch # <<>> /\ h = Head(batch) /\ phase = "closing"
  BY DEF UInv, UTypeOK, OnHandleClosed, Finishing, Up
<1>1. /\ h = batch[1] /\ 1 \in 1..Len(batch) /\ Tail(batch) \in Seq(Handle)
      /\ Unique(batch) => /\ Unique(Tail(batch))
                          /\ \A k \in 1..Len(Tail(batch)) : h[2] = "done" => Tail(batch)[k] # h
      /\ \A k \in 1..Len(Tail(batch)) : \E i \in 1..Len(batch) : Tail(batch)[k] = batch[i]
  BY <1>0, TailHandles
<1>2. CASE h[2] = "done" /\ task[h[1]].stage = "freed"
  <2>1. Crash("use_after_free")
    BY <1>2 DEF OnHandleClosed
  <2>2. ~clientsWait
    BY <1>1, <1>2 DEF UInv, PoliteInv, Live
  <2>3. QED
    BY <2>1, <2>2, CrashInv
<1>3. CASE ~(h[2] = "done" /\ task[h[1]].stage = "freed")
  <2>1. /\ handles' = handles \ {h} /\ batch' = Tail(batch)
        /\ UNCHANGED <<closing, stopSent, conn, alive, task, created, crash, clientsWait>>
        /\ phase' \in {"exited", "closing"}
    BY <1>0, <1>3 DEF OnHandleClosed, CloseEventLoppIfPossible
  <2>2. UTypeOK'
    BY <1>1, <2>1 DEF UInv, UTypeOK
  <2>3. CountInv' /\ LoopInv' /\ closing = <<>>
    BY <1>0, <2>1, CountQuiet DEF UInv, LoopInv
  <2>4. ASSUME clientsWait PROVE PoliteInv'
    <3>0. /\ Unique(batch) /\ Live(batch) /\ crash \in {"none", "double_close"}
          /\ \A c \in Conn : conn[c].stream # "open" => conn[c].runningTasks = 0
          /\ \A t \in Task : task[t].stage = "sent" => <<t, "done">> \in handles
      BY <2>4 DEF UInv, PoliteInv
    <3>1. \A t \in Task : task'[t].stage = "sent" => <<t, "done">> \in handles'
      <4> SUFFICES ASSUME NEW t \in Task, task[t].stage = "sent", h = <<t, "done">>
                   PROVE  FALSE
        BY <2>1, <3>0
      <4>1. h[2] = "done" /\ h[1] = t
        OBVIOUS
      <4>2. task[h[1]].stage = "writing"
        BY <1>1, <3>0, <4>1 DEF Live
      <4>3. QED
        BY <4>1, <4>2
    <3>2. Unique(batch') /\ Unique(closing') /\ Live(closing)'
      BY <1>1, <2>1, <2>3, <3>0 DEF Unique, Live
    <3>3. Live(batch)'
      <4> SUFFICES ASSUME NEW k \in 1..Len(Tail(batch)), Tail(batch)[k][2] = "done"
                   PROVE  /\ Tail(batch)[k] \in handles \ {h}
                          /\ task[Tail(batch)[k][1]].stage = "writing"
        BY <2>1 DEF Live
      <4>1. PICK i \in 1..Len(batch) : Tail(batch)[k] = batch[i]
        BY <1>1
      <4>2. Tail(batch)[k] \in handles /\ task[Tail(batch)[k][1]].stage = "writing"
        BY <3>0, <4>1 DEF Live
      <4>3. Tail(batch)[k] # h
        BY <1>1, <3>0
      <4>4. QED
        BY <4>2, <4>3
    <3>4. QED
      BY <2>1, <3>0, <3>1, <3>2, <3>3 DEF PoliteInv, Unique
  <2>5. QED
    BY <2>1, <2>2, <2>3, <2>4 DEF UInv, PoliteInv
<1>4. QED
  BY <1>2, <1>3

-----------------------------------------------------------------------------
(* Steps of connections. *)

(* A connection's handle is given to uv_close. *)
LEMMA ConnCloses ==
  ASSUME NEW c \in Conn, closing \in Seq(Handle),
         closing' = <<<<c, "conn">>>> \o closing
  PROVE  /\ closing' \in Seq(Handle)
         /\ Unique(closing) => Unique(closing')
         /\ \A k \in 1..Len(closing') :
              closing'[k][2] = "done" => \E i \in 1..Len(closing) : closing'[k] = closing[i]
<1>1. <<c, "conn">> \in Handle /\ <<c, "conn">>[2] # "done"
  BY DEF Handle
<1>2. QED
  BY <1>1, ConsHandle

(* The tasks that refer to a connection stay the same when no task changes   *)
(* its connection or begins or ends to refer to one.                         *)
LEMMA ReferringSame ==
  ASSUME \A t \in Task : /\ task'[t].connection = task[t].connection
                         /\ task'[t].stage \in {"sent", "writing"}
                              <=> task[t].stage \in {"sent", "writing"}
  PROVE  \A c : Referring(c)' = Referring(c)
BY DEF Referring, TasksOf

(* A new connection has no tasks; if it could not be opened it is closed. *)
LEMMA OpenInv == ASSUME UInv, NEW c \in Conn, OnConnectionOpen(c) PROVE UInv'
<1>0. /\ conn \in [Conn -> ConnRec] /\ closing \in Seq(Handle) /\ UTypeOK
      /\ CountInv /\ LoopInv /\ PoliteInv
  BY Types DEF UInv
<1>1. /\ alive' = alive \cup {c} /\ handles' = handles \cup {<<c, "conn">>}
      /\ UNCHANGED <<phase, batch, stopSent, task, created, crash, clientsWait>>
      /\ phase = "poll" /\ conn[c].stream = "none"
  BY DEF OnConnectionOpen, Up
<1>2. /\ conn' \in [Conn -> ConnRec]
      /\ \A d \in Conn \ {c} : conn'[d] = conn[d]
      /\ conn'[c].runningTasks = conn[c].runningTasks
      /\ conn'[c].stream \in {"open", "failed"}
  <2>1. CASE conn' = [conn EXCEPT ![c].stream = "open", ![c].reading = TRUE]
    BY <1>0, <2>1 DEF ConnRec
  <2>2. CASE conn' = [conn EXCEPT ![c].stream = "failed"]
    BY <1>0, <2>2 DEF ConnRec
  <2>3. QED
    BY <2>1, <2>2 DEF OnConnectionOpen
<1>3. /\ closing' \in Seq(Handle)
      /\ Unique(closing) => Unique(closing')
      /\ \A k \in 1..Len(closing') :
           closing'[k][2] = "done" => \E i \in 1..Len(closing) : closing'[k] = closing[i]
  <2>1. CASE closing' = closing
    BY <1>0, <2>1
  <2>2. CASE closing' = <<<<c, "conn">>>> \o closing
    BY <1>0, <2>2, ConnCloses
  <2>3. QED
    BY <2>1, <2>2 DEF OnConnectionOpen
<1>4. UTypeOK'
  BY <1>0, <1>1, <1>2, <1>3 DEF UTypeOK, ConnRec, Handle
<1>5. CountInv'
  <2>1. \A d : Referring(d)' = Referring(d)
    BY <1>1 DEF Referring, TasksOf
  <2>2. conn[c].runningTasks = 0
    BY <1>0, <1>1 DEF CountInv
  <2>3. \A d \in Conn : conn'[d].runningTasks = Cardinality(Referring(d))
    BY <1>0, <1>2 DEF CountInv
  <2>4. QED
    BY <1>0, <1>1, <1>2, <2>1, <2>2, <2>3 DEF CountInv
<1>6. LoopInv'
  BY <1>1 DEF LoopInv
<1>7. ASSUME clientsWait PROVE PoliteInv'
  <2>1. conn[c].runningTasks = 0
    BY <1>0, <1>1 DEF CountInv
  <2>2. \A d \in Conn : conn'[d].stream # "open" => conn'[d].runningTasks = 0
    BY <1>0, <1>2, <1>7, <2>1 DEF PoliteInv
  <2>3. Live(closing)' /\ Live(batch)'
    BY <1>0, <1>1, <1>3, <1>7 DEF PoliteInv, Live
  <2>4. QED
    BY <1>0, <1>1, <1>3, <1>7, <2>2, <2>3 DEF PoliteInv, Unique
<1>8. QED
  BY <1>1, <1>4, <1>5, <1>6, <1>7 DEF UInv, PoliteInv

(* The client hangs up: after its last reply, if it waits. *)
LEMMA ReadEndInv == ASSUME UInv, NEW c \in Conn, OnReadEnd(c) PROVE UInv'
<1>0. /\ conn \in [Conn -> ConnRec] /\ closing \in Seq(Handle) /\ UTypeOK
      /\ CountInv /\ LoopInv /\ PoliteInv
  BY Types DEF UInv
<1>1. /\ UNCHANGED <<phase, handles, batch, stopSent, alive, task, created, crash, clientsWait>>
      /\ phase = "poll" /\ conn[c].stream = "open"
      /\ clientsWait => conn[c].runningTasks = 0
      /\ closing' = <<<<c, "conn">>>> \o closing
  BY DEF OnReadEnd, Up
<1>2. /\ conn' \in [Conn -> ConnRec]
      /\ \A d \in Conn \ {c} : conn'[d] = conn[d]
      /\ conn'[c].runningTasks = conn[c].runningTasks
      /\ conn'[c].stream = "closing"
  BY <1>0 DEF OnReadEnd, ConnRec
<1>3. /\ closing' \in Seq(Handle)
      /\ Unique(closing) => Unique(closing')
      /\ \A k \in 1..Len(closing') :
           closing'[k][2] = "done" => \E i \in 1..Len(closing) : closing'[k] = closing[i]
  BY <1>0, <1>1, ConnCloses
<1>4. UTypeOK'
  BY <1>0, <1>1, <1>2, <1>3 DEF UTypeOK, ConnRec
<1>5. CountInv'
  <2>1. \A d : Referring(d)' = Referring(d)
    BY <1>1 DEF Referring, TasksOf
  <2>2. \A d \in Conn : conn'[d].runningTasks = Cardinality(Referring(d))
    BY <1>0, <1>2 DEF CountInv
  <2>3. QED
    BY <1>0, <1>1, <1>2, <2>1, <2>2 DEF CountInv
<1>6. LoopInv'
  BY <1>1 DEF LoopInv
<1>7. ASSUME clientsWait PROVE PoliteInv'
  <2>1. \A d \in Conn : conn'[d].stream # "open" => conn'[d].runningTasks = 0
    BY <1>0, <1>1, <1>2, <1>7 DEF PoliteInv
  <2>2. Live(closing)' /\ Live(batch)'
    BY <1>0, <1>1, <1>3, <1>7 DEF PoliteInv, Live
  <2>3. QED
    BY <1>0, <1>1, <1>3, <1>7, <2>1, <2>2 DEF PoliteInv, Unique
<1>8. QED
  BY <1>1, <1>4, <1>5, <1>6, <1>7 DEF UInv, PoliteInv

(* A connection whose accept had failed is finished. *)
LEMMA FailedClosedInv == ASSUME UInv, NEW c \in Conn, OnFailedClosed(c) PROVE UInv'
<1>0. /\ conn \in [Conn -> ConnRec] /\ batch \in Seq(Handle) /\ UTypeOK
      /\ CountInv /\ LoopInv /\ PoliteInv
  BY Types DEF UInv
<1>1. /\ UNCHANGED <<closing, stopSent, alive, task, created, crash, clientsWait>>
      /\ handles' = handles \ {<<c, "conn">>} /\ batch' = Tail(batch) /\ batch # <<>>
      /\ phase = "closing" /\ phase' \in {"closing", "exited"} /\ conn[c].stream = "failed"
  BY DEF OnFailedClosed, Finishing, Up, CloseEventLoppIfPossible
<1>2. /\ conn' \in [Conn -> ConnRec]
      /\ \A d \in Conn \ {c} : conn'[d] = conn[d]
      /\ conn'[c].runningTasks = conn[c].runningTasks
      /\ conn'[c].stream = "closed"
  BY <1>0 DEF OnFailedClosed, ConnRec
<1>3. \A k \in 1..Len(batch') : \E i \in 1..Len(batch) : batch'[k] = batch[i]
  BY <1>0, <1>1, TailHandles
<1>4. UTypeOK'
  BY <1>0, <1>1, <1>2, TailHandles DEF UTypeOK, ConnRec
<1>5. CountInv'
  <2>1. \A d : Referring(d)' = Referring(d)
    BY <1>1 DEF Referring, TasksOf
  <2>2. \A d \in Conn : conn'[d].runningTasks = Cardinality(Referring(d))
    BY <1>0, <1>2 DEF CountInv
  <2>3. QED
    BY <1>0, <1>1, <1>2, <2>1, <2>2 DEF CountInv
<1>6. LoopInv' /\ closing = <<>>
  BY <1>0, <1>1 DEF LoopInv
<1>7. ASSUME clientsWait PROVE PoliteInv'
  <2>1. \A d \in Conn : conn'[d].stream # "open" => conn'[d].runningTasks = 0
    BY <1>0, <1>1, <1>2, <1>7 DEF PoliteInv
  <2>2. \A t : <<t, "done">> \in handles => <<t, "done">> \in handles'
    BY <1>1
  <2>3. Live(batch)'
    <3>1. Live(batch) /\ task' = task
      BY <1>0, <1>1, <1>7 DEF PoliteInv
    <3>2. \A k \in 1..Len(batch) : batch[k][2] = "done" => batch[k] # <<c, "conn">>
      OBVIOUS
    <3>3. \A k \in 1..Len(batch) : batch[k][2] = "done" =>
            batch[k] \in handles' /\ task'[batch[k][1]].stage = "writing"
      BY <1>1, <3>1, <3>2 DEF Live
    <3>4. QED
      BY <1>3, <3>3 DEF Live
  <2>4. Live(closing)' /\ Unique(closing)' /\ Unique(batch)'
    BY <1>0, <1>1, <1>6, <1>7, TailHandles DEF PoliteInv, Live, Unique
  <2>5. QED
    BY <1>0, <1>1, <1>7, <2>1, <2>2, <2>3, <2>4 DEF PoliteInv
<1>8. QED
  BY <1>1, <1>4, <1>5, <1>6, <1>7 DEF UInv, PoliteInv

-----------------------------------------------------------------------------
(* Steps of tasks. *)

(* A task's handle is given to uv_close: it must not be closing already. *)
LEMMA TaskCloses ==
  ASSUME NEW t \in Task, closing \in Seq(Handle),
         closing' = <<<<t, "done">>>> \o closing
  PROVE  /\ closing' \in Seq(Handle)
         /\ Unique(closing) /\ (\A j \in 1..Len(closing) : closing[j] # <<t, "done">>)
              => Unique(closing')
         /\ \A k \in 1..Len(closing') :
              \/ closing'[k] = <<t, "done">>
              \/ \E i \in 1..Len(closing) : closing'[k] = closing[i]
<1>1. <<t, "done">> \in Handle /\ <<t, "done">>[2] = "done"
  BY DEF Handle
<1>2. QED
  BY <1>1, ConsHandle

(* Handles stay live as long as their tasks are written and they are open. *)
LEMMA LiveKept ==
  ASSUME NEW s \in Seq(Handle), Live(s),
         \A u \in Task : task[u].stage = "writing" /\ <<u, "done">> \in handles
                          => task'[u].stage = "writing" /\ <<u, "done">> \in handles'
  PROVE  \A k \in 1..Len(s) :
           s[k][2] = "done" => s[k] \in handles' /\ task'[s[k][1]].stage = "writing"
<1> SUFFICES ASSUME NEW k \in 1..Len(s), s[k][2] = "done"
             PROVE  s[k] \in handles' /\ task'[s[k][1]].stage = "writing"
  OBVIOUS
<1>1. s[k] \in Handle
  OBVIOUS
<1>2. s[k][1] \in Task /\ s[k] = <<s[k][1], "done">>
  BY <1>1 DEF Handle, WorkerHandle
<1>3. s[k] \in handles /\ task[s[k][1]].stage = "writing"
  BY DEF Live
<1>4. QED
  BY <1>2, <1>3

(* The async of a task fires.  With clients that wait its stream is open. *)
LEMMA ExecutionDoneInv == ASSUME UInv, NEW t \in Task, OnExecutionDone(t) PROVE UInv'
<1> DEFINE c == task[t].connection
<1>0. /\ task \in [Task -> TaskRec] /\ closing \in Seq(Handle) /\ UTypeOK
      /\ CountInv /\ LoopInv /\ PoliteInv
  BY Types DEF UInv
<1>1. task[t].stage = "sent" /\ phase = "poll"
  BY DEF OnExecutionDone, Up
<1>3. CASE conn[c].stream # "open"
  <2>1. Crash("write_error") /\ ~clientsWait
    BY <1>1, <1>3, ReferredConnection DEF OnExecutionDone
  <2>2. QED
    BY <2>1, CrashInv
<1>4. CASE conn[c].stream = "open"
  <2>1. /\ closing' = <<<<t, "done">>>> \o closing
        /\ task' = [task EXCEPT ![t].stage = "writing"]
        /\ UNCHANGED <<phase, handles, batch, stopSent, conn, alive, created, crash, clientsWait>>
    BY <1>4 DEF OnExecutionDone
  <2>2. /\ task' \in [Task -> TaskRec]
        /\ \A u \in Task \ {t} : task'[u] = task[u]
        /\ task'[t].stage = "writing" /\ task'[t].connection = c
    BY <1>0, <2>1 DEF TaskRec
  <2>3. closing' \in Seq(Handle)
    BY <1>0, <2>1, TaskCloses
  <2>4. UTypeOK'
    BY <1>0, <2>1, <2>2, <2>3 DEF UTypeOK, TaskRec
  <2>5. CountInv'
    <3>1. \A d : Referring(d)' = Referring(d)
      BY <1>1, <2>2, ReferringSame
    <3>2. QED
      BY <1>0, <1>1, <2>1, <2>2, <3>1 DEF CountInv
  <2>6. LoopInv'
    BY <1>1, <2>1 DEF LoopInv
  <2>7. ASSUME clientsWait PROVE PoliteInv'
    <3>0. /\ Unique(closing) /\ Live(closing) /\ Unique(batch) /\ Live(batch)
          /\ <<t, "done">> \in handles
      BY <1>0, <1>1, <2>7 DEF PoliteInv
    <3>1. <<t, "done">>[1] = t /\ <<t, "done">>[2] = "done"
      OBVIOUS
    <3>2. \A j \in 1..Len(closing) : closing[j] # <<t, "done">>
      BY <1>1, <3>0, <3>1 DEF Live
    <3>3. Unique(closing)' /\ Unique(batch)'
      BY <1>0, <2>1, <3>0, <3>2, TaskCloses DEF Unique
    <3>4. \A u \in Task : task[u].stage = "writing" => task'[u].stage = "writing"
      BY <2>2
    <3>5. Live(closing)'
      <4> SUFFICES ASSUME NEW k \in 1..Len(closing'), closing'[k][2] = "done"
                   PROVE  closing'[k] \in handles' /\ task'[closing'[k][1]].stage = "writing"
        BY DEF Live
      <4>1. CASE closing'[k] = <<t, "done">>
        BY <2>1, <2>2, <3>0, <3>1, <4>1
      <4>2. CASE \E i \in 1..Len(closing) : closing'[k] = closing[i]
        BY <1>0, <2>1, <3>0, <3>4, <4>2, LiveKept
      <4>3. QED
        BY <1>0, <2>1, <4>1, <4>2, TaskCloses
    <3>6. Live(batch)'
      BY <1>0, <2>1, <3>0, <3>4, LiveKept DEF UTypeOK, Live
    <3>7. \A u \in Task : task'[u].stage = "sent" => <<u, "done">> \in handles'
      BY <1>0, <2>1, <2>2, <2>7 DEF PoliteInv
    <3>8. QED
      BY <1>0, <2>1, <2>7, <3>3, <3>5, <3>6, <3>7 DEF PoliteInv
  <2>8. QED
    BY <2>1, <2>4, <2>5, <2>6, <2>7 DEF UInv, PoliteInv
<1>5. QED
  BY <1>3, <1>4

(* A reply has been written: its task is freed, and counted no more.  If it  *)
(* was the last one of a connection marked sClosed, the connection closes.   *)
LEMMA WriteDoneInv == ASSUME UInv, NEW t \in Task, OnWriteDone(t) PROVE UInv'
<1>0. /\ task \in [Task -> TaskRec] /\ conn \in [Conn -> ConnRec]
      /\ closing \in Seq(Handle) /\ batch \in Seq(Handle)
      /\ UTypeOK /\ CountInv /\ LoopInv /\ PoliteInv
  BY Types DEF UInv
<1>1. /\ task[t].stage = "writing" /\ <<t, "done">> \notin handles /\ phase = "poll"
      /\ task' = [task EXCEPT ![t].stage = "freed"]
      /\ UNCHANGED <<phase, handles, batch, stopSent, alive, created, crash, clientsWait>>
  BY DEF OnWriteDone, Up
<1>2. PICK c \in Conn : /\ c = task[t].connection /\ t \in Referring(c)
                         /\ conn[c].runningTasks \in 1..MaxTasks
                         /\ conn[c].stream = "open"
  BY <1>1, ReferredConnection DEF OnWriteDone
<1>3. /\ task' \in [Task -> TaskRec]
      /\ \A u \in Task \ {t} : task'[u] = task[u]
      /\ task'[t].stage = "freed" /\ task'[t].connection = c
  BY <1>0, <1>1, <1>2 DEF TaskRec
<1> DEFINE n == conn[c].runningTasks - 1
<1>4. n \in 0..MaxTasks
  BY <1>2, UVAssumption
<1>5. \/ /\ conn' = [conn EXCEPT ![c].runningTasks = n, ![c].stream = "closing",
                                 ![c].reading = FALSE]
         /\ closing' = <<<<c, "conn">>>> \o closing /\ n = 0
      \/ conn' = [conn EXCEPT ![c].runningTasks = n] /\ closing' = closing
  BY <1>0, <1>2 DEF OnWriteDone, LastReply
<1> HIDE DEF n
<1>6. /\ conn' \in [Conn -> ConnRec]
      /\ \A d \in Conn \ {c} : conn'[d] = conn[d]
      /\ conn'[c].runningTasks = n
      /\ conn'[c].stream = "open" \/ (conn'[c].stream = "closing" /\ n = 0)
  <2>1. CASE /\ conn' = [conn EXCEPT ![c].runningTasks = n, ![c].stream = "closing",
                                     ![c].reading = FALSE]
             /\ n = 0
    <3>1. PICK k \in 0..MaxTasks : k = n
      BY <1>4
    <3>2. conn[c] \in ConnRec
      BY <1>0, <1>2
    <3>3. PICK r : r = [conn[c] EXCEPT !.runningTasks = k, !.stream = "closing", !.reading = FALSE]
      OBVIOUS
    <3>4. r \in ConnRec /\ r.runningTasks = k /\ r.stream = "closing"
      BY <3>1, <3>2, <3>3 DEF ConnRec
    <3>5. conn' = [conn EXCEPT ![c] = r]
      BY <2>1, <3>1, <3>3, Zenon
    <3>6. conn \in [Conn -> ConnRec] /\ k = 0
      BY <1>0, <2>1, <3>1
    <3>7. QED
      BY <3>1, <3>4, <3>5, <3>6
  <2>2. CASE conn' = [conn EXCEPT ![c].runningTasks = n]
    <3>1. PICK k \in 0..MaxTasks : k = n
      BY <1>4
    <3>2. conn' = [conn EXCEPT ![c].runningTasks = k]
      BY <2>2, <3>1
    <3>3. conn \in [Conn -> ConnRec] /\ conn[c].stream = "open"
      BY <1>0, <1>2
    <3>4. QED
      BY <3>1, <3>2, <3>3 DEF ConnRec
  <2>3. QED
    BY <1>5, <2>1, <2>2
<1>7. /\ closing' \in Seq(Handle)
      /\ Unique(closing) => Unique(closing')
      /\ \A k \in 1..Len(closing') :
           closing'[k][2] = "done" => \E i \in 1..Len(closing) : closing'[k] = closing[i]
  <2>1. CASE closing' = closing
    BY <1>0, <2>1
  <2>2. CASE closing' = <<<<c, "conn">>>> \o closing
    BY <1>0, <1>2, <2>2, ConnCloses
  <2>3. QED
    BY <1>5, <2>1, <2>2
<1>8. UTypeOK'
  BY <1>0, <1>1, <1>3, <1>6, <1>7 DEF UTypeOK, ConnRec, TaskRec
<1>9. CountInv'
  <2>1. Referring(c)' = Referring(c) \ {t}
    BY <1>2, <1>3 DEF Referring, TasksOf
  <2>2. \A d \in Conn \ {c} : Referring(d)' = Referring(d)
    BY <1>2, <1>3 DEF Referring, TasksOf
  <2>3. Cardinality(Referring(c) \ {t}) = Cardinality(Referring(c)) - 1
    BY <1>2, ReferringTasks, FS_RemoveElement
  <2>4. conn[c].runningTasks = Cardinality(Referring(c))
    BY <1>0, <1>2 DEF CountInv
  <2>5. \A d \in Conn : conn'[d].runningTasks = Cardinality(Referring(d)')
    BY <1>0, <1>6, <2>1, <2>2, <2>3, <2>4 DEF CountInv, n
  <2>6. \A u \in Task : u > created' => task'[u].stage = "none"
    BY <1>0, <1>1, <1>3 DEF CountInv
  <2>7. \A u \in Task : task'[u].stage \in {"sent", "writing"} => task'[u].connection \in Conn
    BY <1>0, <1>2, <1>3 DEF CountInv
  <2>8. \A d \in Conn : conn'[d].stream \in {"open", "closing"} => d \in alive'
    BY <1>0, <1>1, <1>2, <1>6 DEF CountInv
  <2>9. \A d \in Conn : conn'[d].stream \notin {"open", "closing"} => conn'[d].runningTasks = 0
    BY <1>0, <1>6 DEF CountInv
  <2>10. QED
    BY <2>5, <2>6, <2>7, <2>8, <2>9 DEF CountInv
<1>10. LoopInv'
  BY <1>1 DEF LoopInv
<1>11. ASSUME clientsWait PROVE PoliteInv'
  <2>0. /\ Unique(closing) /\ Live(closing) /\ Unique(batch) /\ Live(batch)
        /\ \A d \in Conn : conn[d].stream # "open" => conn[d].runningTasks = 0
        /\ \A u \in Task : task[u].stage = "sent" => <<u, "done">> \in handles
    BY <1>0, <1>11 DEF PoliteInv
  <2>1. \A d \in Conn : conn'[d].stream # "open" => conn'[d].runningTasks = 0
    BY <1>6, <2>0
  <2>2. \A u \in Task : task[u].stage = "writing" /\ <<u, "done">> \in handles
                        => task'[u].stage = "writing" /\ <<u, "done">> \in handles'
    BY <1>1, <1>3
  <2>3. Live(closing)' /\ Live(batch)'
    <3>1. \A k \in 1..Len(closing) : closing[k][2] = "done" =>
            closing[k] \in handles' /\ task'[closing[k][1]].stage = "writing"
      BY <1>0, <2>0, <2>2, LiveKept
    <3>2. \A k \in 1..Len(batch) : batch[k][2] = "done" =>
            batch[k] \in handles' /\ task'[batch[k][1]].stage = "writing"
      BY <1>0, <2>0, <2>2, LiveKept
    <3>3. QED
      BY <1>1, <1>7, <3>1, <3>2 DEF Live
  <2>4. \A u \in Task : task'[u].stage = "sent" => <<u, "done">> \in handles'
    BY <1>1, <1>3, <2>0
  <2>5. Unique(closing)' /\ Unique(batch)'
    BY <1>1, <1>7, <2>0 DEF Unique
  <2>6. QED
    BY <1>0, <1>1, <1>11, <2>1, <2>3, <2>4, <2>5 DEF PoliteInv
<1>12. QED
  BY <1>1, <1>8, <1>9, <1>10, <1>11 DEF UInv, PoliteInv

(* A read: its commands, and CLIENT_ERROR if it is malformed, become tasks   *)
(* of the connection.                                                        *)
LEMMA ReadDataInv ==
  ASSUME UInv, NEW c \in Conn, NEW n \in 0..MaxBatch, NEW malformed \in BOOLEAN,
         OnReadData(c, n, malformed)
  PROVE  UInv'
<1> DEFINE m == n + (IF malformed THEN 1 ELSE 0)
           new == created + 1 .. created + m
           err == created + m
<1>0. /\ task \in [Task -> TaskRec] /\ conn \in [Conn -> ConnRec]
      /\ closing \in Seq(Handle) /\ batch \in Seq(Handle) /\ handles \subseteq Handle
      /\ created \in Nat /\ UTypeOK /\ CountInv /\ LoopInv /\ PoliteInv
  BY Types DEF UInv
<1>1. /\ m > 0 /\ created + m <= MaxTasks /\ created' = created + m /\ phase = "poll"
      /\ conn[c].stream = "open"
      /\ task' = [t \in Task |->
           IF t \in new
           THEN [stage |-> IF malformed /\ t = err THEN "writing" ELSE "sent", connection |-> c]
           ELSE task[t]]
      /\ handles' = handles \cup (new \X {"done"})
      /\ closing' = IF malformed THEN <<<<err, "done">>>> \o closing ELSE closing
      /\ UNCHANGED <<phase, batch, stopSent, alive, crash, clientsWait>>
  BY DEF OnReadData, Up
<1>2. conn' = [conn EXCEPT ![c].runningTasks = conn[c].runningTasks + m,
                           ![c].state = IF malformed THEN "sClosed" ELSE @]
  <2>1. NewRunning(c, n, malformed) = conn[c].runningTasks + m
    BY <1>0, UVAssumption DEF NewRunning, ConnRec
  <2>2. QED
    BY <2>1 DEF OnReadData
<1>3. m \in Nat /\ err \in new /\ new \subseteq Task /\ \A t \in new : t > created
  <2>1. m \in Nat
    BY UVAssumption
  <2>2. created \in Nat /\ m > 0 /\ created + m <= MaxTasks
    BY <1>0, <1>1
  <2> HIDE DEF m
  <2>3. QED
    BY <2>1, <2>2, UVAssumption DEF Task
<1>4. IsFiniteSet(new) /\ Cardinality(new) = m
  <2> HIDE DEF m
  <2>1. created + 1 \in Int /\ created + m \in Int
    BY <1>0, <1>3
  <2>2. IsFiniteSet(new) /\ Cardinality(new) = IF created + 1 > created + m THEN 0
                                               ELSE (created + m) - (created + 1) + 1
    BY <2>1, FS_Interval
  <2>3. QED
    BY <1>0, <1>1, <1>3, <2>2
<1> HIDE DEF m, new, err
<1>5. /\ task' \in [Task -> TaskRec]
      /\ \A t \in Task \ new : task'[t] = task[t]
      /\ \A t \in new : /\ task[t].stage = "none" /\ task'[t].connection = c
                        /\ task'[t].stage \in {"sent", "writing"}
      /\ malformed => task'[err].stage = "writing"
  <2>1. c \in 0..MaxConns
    BY UVAssumption DEF Conn
  <2>2. \A t \in new : task[t].stage = "none"
    BY <1>0, <1>3 DEF CountInv
  <2>3. \A t \in Task \ new : task'[t] = task[t]
    BY <1>1
  <2>4. \A t \in new : task'[t] = [stage |-> IF malformed /\ t = err THEN "writing" ELSE "sent",
                                   connection |-> c]
    BY <1>1, <1>3
  <2>5. \A t \in new : /\ task'[t] \in TaskRec /\ task'[t].connection = c
                       /\ task'[t].stage \in {"sent", "writing"}
                       /\ malformed /\ t = err => task'[t].stage = "writing"
    <3> TAKE t \in new
    <3>1. CASE malformed /\ t = err
      <4>1. task'[t] = [stage |-> "writing", connection |-> c]
        BY <2>4, <3>1
      <4>2. QED
        BY <2>1, <4>1 DEF TaskRec
    <3>2. CASE ~(malformed /\ t = err)
      <4>1. task'[t] = [stage |-> "sent", connection |-> c]
        BY <2>4, <3>2
      <4>2. QED
        BY <2>1, <3>2, <4>1 DEF TaskRec
    <3>3. QED
      BY <3>1, <3>2
  <2>6. \A t \in Task : task'[t] \in TaskRec
    BY <1>0, <2>3, <2>5
  <2>7. task' \in [Task -> TaskRec]
    BY <1>1, <2>6
  <2>8. QED
    BY <1>3, <2>2, <2>3, <2>5, <2>7
<1>6. \A d \in Conn : Referring(d)' = IF d = c THEN Referring(c) \cup new ELSE Referring(d)
  BY <1>3, <1>5 DEF Referring, TasksOf
<1>7. Cardinality(Referring(c) \cup new) = conn[c].runningTasks + m
  <2>1. Referring(c) \cap new = {}
    BY <1>5, ReferringTasks
  <2>2. IsFiniteSet(Referring(c)) /\ Cardinality(Referring(c)) = conn[c].runningTasks
    BY <1>0, ReferringTasks DEF CountInv
  <2>3. conn[c].runningTasks \in Nat
    BY <1>0 DEF ConnRec
  <2>4. Cardinality(Referring(c) \cup new)
          = Cardinality(Referring(c)) + Cardinality(new) - Cardinality(Referring(c) \cap new)
    BY <1>4, <2>2, FS_Union
  <2>5. QED
    <3>1. Cardinality(Referring(c) \cap new) = 0
      BY <2>1, FS_EmptySet
    <3>2. QED
      BY <1>3, <1>4, <2>2, <2>3, <2>4, <3>1
<1>8. conn[c].runningTasks + m \in 0..MaxTasks
  <2>1. (Cardinality(Referring(c)) \in 0..MaxTasks)'
    BY ReferringTasks, PTL
  <2>2. QED
    BY <1>6, <1>7, <2>1
<1>9. /\ conn' \in [Conn -> ConnRec]
      /\ \A d \in Conn \ {c} : conn'[d] = conn[d]
      /\ conn'[c].runningTasks = conn[c].runningTasks + m
      /\ conn'[c].stream = "open"
  <2>1. PICK k \in 0..MaxTasks : k = conn[c].runningTasks + m
    BY <1>8
  <2>2. PICK st \in {"sRecv", "sClosed"} : st = IF malformed THEN "sClosed" ELSE conn[c].state
    BY <1>0 DEF ConnRec
  <2>3. conn' = [conn EXCEPT ![c].runningTasks = k, ![c].state = st]
    BY <1>0, <1>2, <2>1, <2>2
  <2>4. conn \in [Conn -> ConnRec] /\ conn[c].stream = "open"
    BY <1>0, <1>1
  <2>5. PICK r : r = [conn[c] EXCEPT !.runningTasks = k, !.state = st]
    OBVIOUS
  <2>6. r \in ConnRec /\ r.runningTasks = k /\ r.stream = "open"
    BY <2>1, <2>2, <2>4, <2>5 DEF ConnRec
  <2>7. conn' = [conn EXCEPT ![c] = r]
    BY <2>3, <2>5
  <2>8. QED
    BY <2>1, <2>4, <2>6, <2>7
<1>10. closing' \in Seq(Handle) /\ handles' \subseteq Handle /\ created' \in 0..MaxTasks
  <2>1. closing' \in Seq(Handle)
    BY <1>0, <1>1, <1>3, TaskCloses
  <2>2. handles' \subseteq Handle
    BY <1>0, <1>1, <1>3 DEF Handle
  <2>3. QED
    BY <1>0, <1>1, <1>3, <2>1, <2>2, UVAssumption
<1>11. UTypeOK'
  BY <1>0, <1>1, <1>5, <1>9, <1>10 DEF UTypeOK, ConnRec, TaskRec
<1>12. CountInv'
  <2>1. \A t \in Task : t > created' => task'[t].stage = "none"
    <3> SUFFICES ASSUME NEW t \in Task, t > created' PROVE task'[t].stage = "none"
      OBVIOUS
    <3>1. t \notin new /\ t > created
      BY <1>0, <1>1, <1>3 DEF Task, new
    <3>2. QED
      BY <1>0, <1>5, <3>1 DEF CountInv
  <2>2. \A t \in Task : task'[t].stage \in {"sent", "writing"} => task'[t].connection \in Conn
    BY <1>0, <1>5 DEF CountInv
  <2>3. \A d \in Conn : conn'[d].runningTasks = Cardinality(Referring(d)')
    BY <1>0, <1>6, <1>7, <1>9 DEF CountInv
  <2>4. QED
    BY <1>0, <1>1, <1>9, <2>1, <2>2, <2>3 DEF CountInv
<1>13. LoopInv'
  BY <1>1 DEF LoopInv
<1>14. ASSUME clientsWait PROVE PoliteInv'
  <2>0. /\ Unique(closing) /\ Live(closing) /\ Unique(batch) /\ Live(batch)
        /\ \A d \in Conn : conn[d].stream # "open" => conn[d].runningTasks = 0
        /\ \A u \in Task : task[u].stage = "sent" => <<u, "done">> \in handles
    BY <1>0, <1>14 DEF PoliteInv
  <2>1. \A d \in Conn : conn'[d].stream # "open" => conn'[d].runningTasks = 0
    BY <1>9, <2>0
  <2>2. \A u \in Task : task[u].stage = "writing" /\ <<u, "done">> \in handles
                        => task'[u].stage = "writing" /\ <<u, "done">> \in handles'
    BY <1>1, <1>5
  <2>3. \A k \in 1..Len(closing) : closing[k][2] = "done" =>
          closing[k] \in handles' /\ task'[closing[k][1]].stage = "writing"
    BY <1>0, <2>0, <2>2, LiveKept
  <2>4. \A k \in 1..Len(batch) : batch[k][2] = "done" =>
          batch[k] \in handles' /\ task'[batch[k][1]].stage = "writing"
    BY <1>0, <2>0, <2>2, LiveKept
  <2>5. <<err, "done">>[1] = err /\ <<err, "done">>[2] = "done"
    OBVIOUS
  <2>6. \A j \in 1..Len(closing) : closing[j] # <<err, "done">>
    BY <1>3, <1>5, <2>0, <2>5 DEF Live
  <2>7. Live(closing)' /\ Unique(closing)'
    <3>1. CASE ~malformed
      <4>1. closing' = closing
        BY <1>1, <3>1
      <4>2. QED
        <5>1. Unique(closing)'
          BY <2>0, <4>1 DEF Unique
        <5>2. QED
          BY <2>3, <4>1, <5>1 DEF Live
    <3>2. CASE malformed
      <4>1. err \in Task /\ closing' = <<<<err, "done">>>> \o closing
        BY <1>1, <1>3, <3>2
      <4>2. Unique(closing)'
        BY <1>0, <2>0, <2>6, <4>1, TaskCloses DEF Unique
      <4>3. <<err, "done">> \in handles' /\ task'[err].stage = "writing"
        BY <1>1, <1>3, <1>5, <3>2
      <4>4. \A k \in 1..Len(closing') :
              \/ closing'[k] = <<err, "done">>
              \/ \E i \in 1..Len(closing) : closing'[k] = closing[i]
        BY <1>0, <4>1, TaskCloses
      <4>5. \A k \in 1..Len(closing') : closing'[k][2] = "done" =>
              closing'[k] \in handles' /\ task'[closing'[k][1]].stage = "writing"
        BY <2>3, <2>5, <4>3, <4>4
      <4>6. QED
        BY <4>2, <4>5 DEF Live
    <3>3. QED
      BY <3>1, <3>2
  <2>8. Live(batch)' /\ Unique(batch)'
    <3>1. batch' = batch
      BY <1>1
    <3>2. Unique(batch)'
      BY <2>0, <3>1 DEF Unique
    <3>3. QED
      BY <2>4, <3>1, <3>2 DEF Live
  <2>9. \A u \in Task : task'[u].stage = "sent" => <<u, "done">> \in handles'
    BY <1>1, <1>5, <2>0
  <2>10. QED
    BY <1>0, <1>1, <1>14, <2>1, <2>7, <2>8, <2>9 DEF PoliteInv
<1>15. QED
  BY <1>1, <1>11, <1>12, <1>13, <1>14 DEF UInv, PoliteInv

(* A connection is finished.  The assertion that no task is left holds if    *)
(* clients wait; when it holds, what is freed is all that was counted.       *)
LEMMA ConnectionClosedInv ==
  ASSUME UInv, NEW c \in Conn, OnConnectionClosed(c) PROVE UInv'
<1> DEFINE writes == TasksOf(c, "writing")
           left == conn[c].runningTasks - Cardinality(writes)
<1>0. /\ task \in [Task -> TaskRec] /\ conn \in [Conn -> ConnRec]
      /\ closing \in Seq(Handle) /\ batch \in Seq(Handle) /\ handles \subseteq Handle
      /\ UTypeOK /\ CountInv /\ LoopInv /\ PoliteInv
  BY Types DEF UInv
<1>1. phase = "closing" /\ batch # <<>> /\ conn[c].stream = "closing"
  BY DEF OnConnectionClosed, Finishing, Up
<1>2. /\ writes \in SUBSET Referring(c) /\ IsFiniteSet(Referring(c)) /\ IsFiniteSet(writes)
      /\ Cardinality(writes) \in Nat /\ conn[c].runningTasks \in Nat
      /\ conn[c].runningTasks = Cardinality(Referring(c))
  <2>1. writes \in SUBSET Referring(c) /\ IsFiniteSet(Referring(c))
    BY ReferringTasks DEF Referring
  <2>2. IsFiniteSet(writes)
    BY <2>1, FS_Subset
  <2>3. QED
    BY <1>0, <2>1, <2>2, FS_CardinalityType DEF CountInv, ConnRec
<1>3. clientsWait => writes = {} /\ left = 0
  <2> SUFFICES ASSUME clientsWait PROVE writes = {} /\ left = 0
    OBVIOUS
  <2>1. Cardinality(Referring(c)) = 0
    BY <1>0, <1>1, <1>2 DEF PoliteInv
  <2>2. writes = {}
    BY <1>2, <2>1, FS_EmptySet
  <2>3. Cardinality(writes) = 0
    BY <2>2, FS_EmptySet
  <2>4. QED
    BY <1>2, <2>1, <2>2, <2>3
<1>4. CASE Crash("double_close") \/ (left # 0 /\ Crash("assert"))
  BY <1>3, <1>4, CrashInv
<1>5. CASE /\ left = 0
           /\ conn' = [conn EXCEPT ![c].runningTasks = 0, ![c].stream = "freed"]
           /\ alive' = alive \ {c}
           /\ task' = [t \in Task |-> IF t \in writes THEN [task[t] EXCEPT !.stage = "freed"]
                                      ELSE task[t]]
           /\ handles' = handles \ {<<c, "conn">>}
           /\ batch' = Tail(batch)
           /\ UNCHANGED <<closing, stopSent, created, crash, clientsWait>>
           /\ phase' \in {"closing", "exited"}
  <2>1. writes = Referring(c)
    <3>1. Cardinality(Referring(c)) = Cardinality(writes)
      BY <1>2, <1>5
    <3>2. QED
      BY <1>2, <3>1, FS_Subset
  <2>2. \A t \in Task : t \in writes <=> task[t].stage = "writing" /\ task[t].connection = c
    BY DEF TasksOf
  <2> HIDE DEF writes, left
  <2>3. /\ task' \in [Task -> TaskRec]
        /\ \A t \in Task \ writes : task'[t] = task[t]
        /\ \A t \in writes \cap Task : /\ task'[t].stage = "freed"
                                       /\ task'[t].connection = task[t].connection
    BY <1>0, <1>5 DEF TaskRec
  <2>4. /\ conn' \in [Conn -> ConnRec]
        /\ \A d \in Conn \ {c} : conn'[d] = conn[d]
        /\ conn'[c].runningTasks = 0 /\ conn'[c].stream = "freed"
    <3>1. 0 \in 0..MaxTasks
      BY UVAssumption
    <3>2. conn' = [conn EXCEPT ![c].runningTasks = 0, ![c].stream = "freed"]
      BY <1>5
    <3>3. QED
      BY <1>0, <3>1, <3>2 DEF ConnRec
  <2>5. UTypeOK'
    BY <1>0, <1>1, <1>5, <2>3, <2>4, TailHandles DEF UTypeOK, ConnRec, TaskRec
  <2>6. CountInv'
    <3>1. Referring(c)' = {}
      BY <2>1, <2>3, ReferringTasks DEF Referring, TasksOf
    <3>2. \A d \in Conn \ {c} : Referring(d)' = Referring(d)
      BY <2>2, <2>3 DEF Referring, TasksOf
    <3>3. \A d \in Conn : conn'[d].runningTasks = Cardinality(Referring(d)')
      BY <1>0, <2>4, <3>1, <3>2, FS_EmptySet DEF CountInv
    <3>4. \A t \in Task : task'[t].stage \in {"sent", "writing"} => task'[t].connection \in Conn
      BY <1>0, <2>3 DEF CountInv
    <3>5. \A t \in Task : t > created' => task'[t].stage = "none"
      BY <1>0, <1>5, <2>2, <2>3 DEF CountInv
    <3>6. \A d \in Conn : conn'[d].stream \in {"open", "closing"} => d \in alive'
      BY <1>0, <1>5, <2>4 DEF CountInv
    <3>7. QED
      BY <1>0, <2>4, <3>3, <3>4, <3>5, <3>6 DEF CountInv
  <2>7. LoopInv' /\ closing = <<>>
    BY <1>0, <1>1, <1>5 DEF LoopInv
  <2>8. ASSUME clientsWait PROVE PoliteInv'
    <3>0. /\ Unique(batch) /\ Live(batch)
          /\ \A d \in Conn : conn[d].stream # "open" => conn[d].runningTasks = 0
          /\ \A u \in Task : task[u].stage = "sent" => <<u, "done">> \in handles
      BY <1>0, <2>8 DEF PoliteInv
    <3>1. \A u \in Task : task'[u] = task[u] /\ (<<u, "done">> \in handles => <<u, "done">> \in handles')
      BY <1>3, <1>5, <2>3, <2>8
    <3>2. \A k \in 1..Len(batch) : batch[k][2] = "done" =>
            batch[k] \in handles' /\ task'[batch[k][1]].stage = "writing"
      BY <1>0, <3>0, <3>1, LiveKept
    <3>3. /\ Unique(batch')
          /\ \A k \in 1..Len(batch') : \E i \in 1..Len(batch) : batch'[k] = batch[i]
      BY <1>0, <1>1, <1>5, <3>0, TailHandles
    <3>4. Live(batch)' /\ Live(closing)' /\ Unique(closing)' /\ Unique(batch)'
      BY <1>5, <2>7, <3>2, <3>3 DEF Live, Unique
    <3>5. \A d \in Conn : conn'[d].stream # "open" => conn'[d].runningTasks = 0
      BY <2>4, <3>0
    <3>6. \A u \in Task : task'[u].stage = "sent" => <<u, "done">> \in handles'
      BY <3>0, <3>1
    <3>7. QED
      BY <1>0, <1>5, <2>8, <3>4, <3>5, <3>6 DEF PoliteInv
  <2>9. QED
    BY <1>5, <2>5, <2>6, <2>7, <2>8 DEF UInv, PoliteInv
<1>6. QED
  BY <1>1, <1>4, <1>5 DEF OnConnectionClosed, CloseEventLoppIfPossible

(* OnStop: the connections without tasks are closed, in some order, behind   *)
(* the worker's own handles.                                                 *)
LEMMA OnStopInv == ASSUME UInv, OnStop PROVE UInv'
<1>0. /\ conn \in [Conn -> ConnRec]
      /\ closing \in Seq(Handle) /\ batch \in Seq(Handle) /\ phase = "poll"
      /\ UTypeOK /\ CountInv /\ LoopInv /\ PoliteInv
  BY Types DEF UInv, OnStop, Up
<1>1. CASE Crash("double_close")
  BY <1>1, CrashInv
<1>2. CASE /\ \A c \in Drained : conn[c].stream = "open"
           /\ \E s \in Orders(Drained) :
                closing' = [i \in DOMAIN s |-> <<s[i], "conn">>]
                           \o <<<<0, "uvNetwork">>, <<0, "uvSigPipe">>, <<0, "uvStopAsync">>>>
                           \o closing
           /\ conn' = [c \in Conn |->
                IF c \notin alive THEN conn[c]
                ELSE [conn[c] EXCEPT !.state = "sClosed", !.reading = FALSE,
                                     !.stream = IF c \in Drained THEN "closing" ELSE @]]
           /\ UNCHANGED <<phase, handles, batch, stopSent, alive, task, created, crash, clientsWait>>
  <2>1. PICK s \in Orders(Drained) :
                closing' = [i \in DOMAIN s |-> <<s[i], "conn">>]
                           \o <<<<0, "uvNetwork">>, <<0, "uvSigPipe">>, <<0, "uvStopAsync">>>>
                           \o closing
    BY <1>2
  <2> DEFINE p == [i \in DOMAIN s |-> <<s[i], "conn">>]
             q == <<<<0, "uvNetwork">>, <<0, "uvSigPipe">>, <<0, "uvStopAsync">>>>
  <2>2. Cardinality(Drained) \in Nat /\ Drained \subseteq Conn
    <3>1. IsFiniteSet(Conn)
      BY FS_Interval, UVAssumption DEF Conn
    <3>2. Drained \in SUBSET Conn
      BY <1>0 DEF Drained, UTypeOK
    <3>3. QED
      BY <3>1, <3>2, FS_Subset, FS_CardinalityType
  <2>3. p \in Seq(Handle) /\ \A i \in 1..Len(p) : p[i][2] # "done"
    <3>1. s \in [1..Cardinality(Drained) -> Drained]
      BY <2>1 DEF Orders
    <3>2. \A i \in 1..Cardinality(Drained) : p[i] = <<s[i], "conn">> /\ s[i] \in Conn
      BY <2>2, <3>1
    <3>3. \A i \in 1..Cardinality(Drained) : p[i] \in Handle /\ p[i][2] # "done"
      BY <3>2 DEF Handle
    <3>4. DOMAIN p = 1..Cardinality(Drained)
      BY <3>1
    <3> HIDE DEF p
    <3>5. p \in [1..Cardinality(Drained) -> Handle]
      BY <3>3, <3>4, <2>1 DEF p
    <3>6. p \in Seq(Handle) /\ Len(p) = Cardinality(Drained)
      BY <2>2, <3>4, <3>5
    <3>7. QED
      BY <3>3, <3>6
  <2>4. q \in Seq(Handle) /\ \A i \in 1..Len(q) : q[i][2] # "done"
    BY DEF Handle, WorkerHandle
  <2> HIDE DEF p, q
  <2>5. p \o q \in Seq(Handle) /\ \A i \in 1..Len(p \o q) : (p \o q)[i][2] # "done"
    BY <2>3, <2>4, ConcatElements, ConcatProperties
  <2>6. closing' = (p \o q) \o closing
    BY <2>1 DEF p, q
  <2>7. /\ closing' \in Seq(Handle)
        /\ Unique(closing) => Unique(closing')
        /\ \A k \in 1..Len(closing') :
             closing'[k][2] = "done" => \E i \in 1..Len(closing) : closing'[k] = closing[i]
    <3>1. closing' \in Seq(Handle)
      BY <1>0, <2>5, <2>6, ConcatProperties
    <3>2. Unique(p \o q)
      BY <2>5 DEF Unique
    <3>3. Unique(closing) => Unique(closing')
      BY <1>0, <2>5, <2>6, <3>2, UniqueConcat
    <3>4. \A k \in 1..Len(closing') :
            \/ \E i \in 1..Len(p \o q) : closing'[k] = (p \o q)[i]
            \/ \E i \in 1..Len(closing) : closing'[k] = closing[i]
      BY <1>0, <2>5, <2>6, ConcatElements
    <3>5. QED
      BY <2>5, <3>1, <3>3, <3>4
  <2>8. /\ conn' \in [Conn -> ConnRec]
        /\ \A c \in Conn : /\ conn'[c].runningTasks = conn[c].runningTasks
                           /\ \/ conn'[c].stream = conn[c].stream
                              \/ /\ c \in alive /\ conn'[c].stream = "closing"
                                 /\ conn[c].runningTasks = 0
    <3>1. ASSUME NEW c \in Conn
          PROVE  /\ conn'[c] \in ConnRec /\ conn'[c].runningTasks = conn[c].runningTasks
                 /\ \/ conn'[c].stream = conn[c].stream
                    \/ /\ c \in alive /\ conn'[c].stream = "closing"
                       /\ conn[c].runningTasks = 0
      <4>0. conn[c] \in ConnRec
        BY <1>0
      <4>1. CASE c \notin alive
        BY <1>2, <4>0, <4>1
      <4>2. CASE c \in alive /\ c \notin Drained
        <5>1. conn'[c] = [conn[c] EXCEPT !.state = "sClosed", !.reading = FALSE,
                                         !.stream = conn[c].stream]
          BY <1>2, <4>0, <4>2
        <5>2. QED
          BY <4>0, <5>1 DEF ConnRec
      <4>3. CASE c \in alive /\ c \in Drained
        <5>1. conn'[c] = [conn[c] EXCEPT !.state = "sClosed", !.reading = FALSE,
                                         !.stream = "closing"]
          BY <1>2, <4>0, <4>3
        <5>2. conn[c].runningTasks = 0
          BY <4>3 DEF Drained
        <5>3. QED
          BY <4>0, <4>3, <5>1, <5>2 DEF ConnRec
      <4>4. QED
        BY <4>1, <4>2, <4>3
    <3>2. conn' \in [Conn -> ConnRec]
      BY <1>2, <3>1
    <3>3. QED
      BY <3>1, <3>2
  <2>9. UTypeOK'
    BY <1>0, <1>2, <2>7, <2>8 DEF UTypeOK, ConnRec
  <2>10. CountInv'
    <3>1. \A d : Referring(d)' = Referring(d)
      BY <1>2 DEF Referring, TasksOf
    <3>2. \A d \in Conn : conn'[d].runningTasks = Cardinality(Referring(d))
      BY <1>0, <2>8 DEF CountInv
    <3>3. QED
      BY <1>0, <1>2, <2>8, <3>1, <3>2 DEF CountInv
  <2>11. LoopInv'
    BY <1>0, <1>2 DEF LoopInv
  <2>12. ASSUME clientsWait PROVE PoliteInv'
    <3>1. \A d \in Conn : conn'[d].stream # "open" => conn'[d].runningTasks = 0
      BY <1>0, <2>8, <2>12 DEF PoliteInv
    <3>2. Live(closing)' /\ Live(batch)'
      BY <1>0, <1>2, <2>7, <2>12 DEF PoliteInv, Live
    <3>3. QED
      BY <1>0, <1>2, <2>7, <2>12, <3>1, <3>2 DEF PoliteInv, Unique
  <2>13. QED
    BY <1>2, <2>9, <2>10, <2>11, <2>12 DEF UInv, PoliteInv
<1>3. QED
  BY <1>1, <1>2 DEF OnStop

-----------------------------------------------------------------------------
(* Every step keeps the invariant. *)
LEMMA UNextInv == UInv /\ [UNext]_uvars => UInv'
<1> SUFFICES ASSUME UInv, [UNext]_uvars PROVE UInv'
  OBVIOUS
<1>1. CASE Loop
  BY <1>1, ExecutionDoneInv, WriteDoneInv, OnStopInv, PhaseInv, HandleClosedInv,
     FailedClosedInv, ConnectionClosedInv DEF Loop
<1>2. CASE \E c \in Conn :
             \/ OnConnectionOpen(c) \/ OnReadEnd(c)
             \/ \E n \in 0..MaxBatch, malformed \in BOOLEAN : OnReadData(c, n, malformed)
  BY <1>2, OpenInv, ReadEndInv, ReadDataInv
<1>3. CASE Stop \/ (\E c \in Conn : OnReadSpins(c)) \/ UNCHANGED uvars
  BY <1>3, StopInv
<1>4. QED
  BY <1>1, <1>2, <1>3 DEF UNext

(* The invariant holds whenever the worker runs. *)
THEOREM WorkerInvariance == USpec => []UInv
BY UInitInv, UNextInv, PTL DEF USpec

(* The worker's variables keep their types: in particular runningTasks, a    *)
(* size_t in the code, is never decremented at zero.                         *)
THEOREM WorkerTypeCorrect == USpec => []UTypeOK
<1>1. UInv => UTypeOK
  BY DEF UInv
<1>2. QED
  BY <1>1, WorkerInvariance, PTL

(* runningTasks counts exactly the tasks that refer to a connection, and a   *)
(* connection that is counted on has not been freed.                         *)
THEOREM RunningTasksCorrect == USpec => []RunningTasksExact
<1>1. UInv => RunningTasksExact
  <2> SUFFICES ASSUME UInv, NEW c \in Conn
               PROVE  /\ conn[c].runningTasks
                           = Cardinality(TasksOf(c, "sent") \cup TasksOf(c, "writing"))
                      /\ conn[c].runningTasks > 0 => c \in alive
    BY DEF RunningTasksExact
  <2>1. conn[c].runningTasks = Cardinality(TasksOf(c, "sent") \cup TasksOf(c, "writing"))
    BY DEF UInv, CountInv, Referring
  <2>2. conn[c].runningTasks > 0 => c \in alive
    BY DEF UInv, CountInv
  <2>3. QED
    BY <2>1, <2>2
<1>2. QED
  BY <1>1, WorkerInvariance, PTL

(* With clients that collect their replies, every task is finished before    *)
(* its connection, whatever the order of callbacks and whenever Stop comes.  *)
THEOREM PoliteClientsServed == USpec => []PoliteClientsAreSafe
<1>1. UInv => PoliteClientsAreSafe
  BY DEF UInv, PoliteInv, PoliteClientsAreSafe
<1>2. QED
  BY <1>1, WorkerInvariance, PTL
=============================================================================
