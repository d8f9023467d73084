----------------------------- MODULE SharedMutex -----------------------------
(***************************************************************************)
(* The readers-writer lock of                                              *)
(* materials/09-advanced-synchronization/code/shared_mutex.{h,cpp} and the *)
(* counter that shared_mutex_demo.cpp protects with it.                    *)
(*                                                                         *)
(* Every section under mut_ is one action.  A thread that waits on gate1_  *)
(* or gate2_ is in the state of that name; being notified, or waking up    *)
(* for no reason, takes it to the state in which it tests its condition    *)
(* again.  state_ is the pair of its fields.  A failed try_lock or         *)
(* try_lock_shared changes nothing and is a stuttering step.               *)
(***************************************************************************)
EXTENDS Integers, FiniteSets

CONSTANTS
  Thread,
  n_readers, \* the largest number of readers (2^31 - 1)
  Modulus    \* unsigned int is counted modulo this (2^32)

ASSUME SharedMutexAssumption ==
  /\ IsFiniteSet(Thread)
  /\ n_readers \in Nat \ {0} /\ Modulus \in Nat \ {0}

VARIABLES
  write_entered, \* state_ & write_entered_
  readers,       \* state_ & n_readers_
  pc,
  loaded,        \* the value a thread has read in order to increment it
  value_,        \* of the counter
  total          \* history: increments since the last reset

mvars == <<write_entered, readers, pc, loaded, value_, total>>

Counter == 0..(Modulus - 1)

(* gate1w, gate1r: waiting in lock and in lock_shared; lock, lock_shared,    *)
(* drain: woken; writing, incrementing, written: in the writer's section;    *)
(* notify: in unlock, after the section.                                     *)
Waiting == {"gate1w", "gate1r", "gate2"}
WriterAt == {"writing", "incrementing", "written"}
Place == Waiting \cup WriterAt \cup {"idle", "lock", "lock_shared", "drain", "reading", "notify"}

MTypeOK ==
  /\ write_entered \in BOOLEAN
  /\ readers \in 0..n_readers
  /\ pc \in [Thread -> Place]
  /\ loaded \in [Thread -> Counter]
  /\ value_ \in Counter /\ total \in Counter

MInit ==
  /\ write_entered = FALSE /\ readers = 0
  /\ pc = [t \in Thread |-> "idle"]
  /\ loaded = [t \in Thread |-> 0]
  /\ value_ = 0 /\ total = 0

Goes(t, p) == pc' = [pc EXCEPT ![t] = p]

(* A thread at a gate tests its condition again. *)
Woken(p) ==
  CASE p = "gate1w" -> "lock" [] p = "gate1r" -> "lock_shared" [] p = "gate2" -> "drain" [] OTHER -> p

NotifyAll(gate, p) == [t \in Thread |-> IF p[t] \in gate THEN Woken(p[t]) ELSE p[t]]

(* notify_one wakes some waiting thread, if there is one. *)
NotifyOne(gate, p) ==
  IF \A t \in Thread : p[t] \notin gate THEN pc' = p
  ELSE \E t \in Thread : p[t] \in gate /\ pc' = [p EXCEPT ![t] = Woken(p[t])]

SpuriousWakeup(t) ==
  /\ pc[t] \in Waiting
  /\ Goes(t, Woken(pc[t]))
  /\ UNCHANGED <<write_entered, readers, loaded, value_, total>>

(* Mutant: the writer does not wait for the readers. *)
Lock_NoDrain(t) ==
  /\ pc[t] \in {"idle", "lock"}
  /\ IF write_entered THEN Goes(t, "gate1w") ELSE Goes(t, "writing")
  /\ write_entered' = TRUE
  /\ UNCHANGED <<readers, loaded, value_, total>>

Lock(t) ==
  /\ pc[t] \in {"idle", "lock"}
  /\ \/ /\ write_entered
        /\ Goes(t, "gate1w")
        /\ UNCHANGED write_entered
     \/ /\ ~write_entered
        /\ write_entered' = TRUE
        /\ Goes(t, IF readers # 0 THEN "gate2" ELSE "writing")
  /\ UNCHANGED <<readers, loaded, value_, total>>

(* lock, back from gate2_ *)
Drain(t) ==
  /\ pc[t] = "drain"
  /\ Goes(t, IF readers # 0 THEN "gate2" ELSE "writing")
  /\ UNCHANGED <<write_entered, readers, loaded, value_, total>>

TryLock(t) ==
  /\ pc[t] = "idle" /\ ~write_entered /\ readers = 0
  /\ write_entered' = TRUE
  /\ Goes(t, "writing")
  /\ UNCHANGED <<readers, loaded, value_, total>>

Unlock(t) ==
  /\ pc[t] = "written"
  /\ write_entered' = FALSE /\ readers' = 0
  /\ Goes(t, "notify")
  /\ UNCHANGED <<loaded, value_, total>>

(* Mutant: one thread is woken. *)
UnlockNotifies_One(t) ==
  /\ pc[t] = "notify"
  /\ NotifyOne({"gate1w", "gate1r"}, [pc EXCEPT ![t] = "idle"])
  /\ UNCHANGED <<write_entered, readers, loaded, value_, total>>

(* gate1_.notify_all(), outside the section *)
UnlockNotifies(t) ==
  /\ pc[t] = "notify"
  /\ pc' = NotifyAll({"gate1w", "gate1r"}, [pc EXCEPT ![t] = "idle"])
  /\ UNCHANGED <<write_entered, readers, loaded, value_, total>>

(* Mutant: the largest number of readers is exceeded by one. *)
NoReader_TooMany == write_entered \/ readers > n_readers

NoReader == write_entered \/ readers = n_readers

LockShared(t) ==
  /\ pc[t] \in {"idle", "lock_shared"}
  /\ \/ /\ NoReader
        /\ Goes(t, "gate1r")
        /\ UNCHANGED readers
     \/ /\ ~NoReader
        /\ readers' = readers + 1
        /\ Goes(t, "reading")
  /\ UNCHANGED <<write_entered, loaded, value_, total>>

TryLockShared(t) ==
  /\ pc[t] = "idle" /\ ~NoReader
  /\ readers' = readers + 1
  /\ Goes(t, "reading")
  /\ UNCHANGED <<write_entered, loaded, value_, total>>

(* Mutant: a waiting writer is not told. *)
UnlockShared_NoGate2(t) ==
  /\ pc[t] = "reading"
  /\ readers' = readers - 1
  /\ LET left == [pc EXCEPT ![t] = "idle"] IN
     IF ~write_entered /\ readers' = n_readers - 1 THEN NotifyOne({"gate1w", "gate1r"}, left)
     ELSE pc' = left
  /\ UNCHANGED <<write_entered, loaded, value_, total>>

UnlockShared(t) ==
  /\ pc[t] = "reading"
  /\ readers' = readers - 1
  /\ LET left == [pc EXCEPT ![t] = "idle"] IN
     \/ write_entered /\ readers' = 0 /\ NotifyOne({"gate2"}, left)
     \/ ~write_entered /\ readers' = n_readers - 1 /\ NotifyOne({"gate1w", "gate1r"}, left)
     \/ readers' # (IF write_entered THEN 0 ELSE n_readers - 1) /\ pc' = left
  /\ UNCHANGED <<write_entered, loaded, value_, total>>

-----------------------------------------------------------------------------
(* ThreadSafeCounter: value_++ reads and then writes; get reads at "reading". *)
IncrementLoads(t) ==
  /\ pc[t] = "writing"
  /\ loaded' = [loaded EXCEPT ![t] = value_]
  /\ Goes(t, "incrementing")
  /\ UNCHANGED <<write_entered, readers, value_, total>>

IncrementStores(t) ==
  /\ pc[t] = "incrementing"
  /\ value_' = (loaded[t] + 1) % Modulus
  /\ total' = (total + 1) % Modulus
  /\ loaded' = [loaded EXCEPT ![t] = 0]
  /\ Goes(t, "written")
  /\ UNCHANGED <<write_entered, readers>>

(* Mutant: the lock is not taken. *)
Reset_NotLocked(t) ==
  /\ pc[t] = "idle"
  /\ value_' = 0 /\ total' = 0
  /\ UNCHANGED <<write_entered, readers, pc, loaded>>

Reset(t) ==
  /\ pc[t] = "writing"
  /\ value_' = 0 /\ total' = 0
  /\ Goes(t, "written")
  /\ UNCHANGED <<write_entered, readers, loaded>>

(* Steps a thread takes without being asked: what it is doing goes on. *)
Continues(t) ==
  \/ pc[t] # "idle" /\ (Lock(t) \/ LockShared(t))
  \/ Drain(t) \/ Unlock(t) \/ UnlockNotifies(t) \/ UnlockShared(t)
  \/ IncrementLoads(t) \/ IncrementStores(t) \/ Reset(t)

Calls(t) == pc[t] = "idle" /\ (Lock(t) \/ TryLock(t) \/ LockShared(t) \/ TryLockShared(t))

MNext == \E t \in Thread : Continues(t) \/ Calls(t) \/ SpuriousWakeup(t)

MSpec == MInit /\ [][MNext]_mvars

(* Threads are scheduled and leave their sections.  Nobody is obliged to     *)
(* ask for the lock or to wake up without being notified.                    *)
MFairSpec == MSpec /\ \A t \in Thread : WF_mvars(Continues(t))

-----------------------------------------------------------------------------
(* Properties. *)

Readers == {t \in Thread : pc[t] = "reading"}

(* A writer's section excludes every other section, and state_ says how many *)
(* readers there are: the resets to zero in unlock and the two-step lock,    *)
(* which claims the bit before the readers have left, lose none of them.     *)
Exclusion ==
  /\ \A t, u \in Thread :
       (pc[t] \in WriterAt /\ pc[u] \in WriterAt \cup {"reading"}) => t = u
  /\ readers = Cardinality(Readers)

(* No increment is lost, although each reads and writes in two steps. *)
CounterExact == value_ = total

(* A writer that has entered gets in as soon as the readers of that moment   *)
(* have left: others that keep coming cannot hold it up, and the last one    *)
(* wakes it.                                                                 *)
EnteredGetsIn == \A t \in Thread : pc[t] \in {"gate2", "drain"} ~> pc[t] = "writing"

(* Whoever waits at gate1_ while a writer has entered is woken in the end,   *)
(* although unlock notifies after its section, when others may have entered. *)
(* (Readers who wait because there are n_readers of them may stay: only the  *)
(* step from n_readers to n_readers - 1 wakes one of them, so when two wait, *)
(* and two leave before the first is back, the second is forgotten until a   *)
(* writer comes.)                                                            *)
GateOpens ==
  \A t \in Thread :
    (pc[t] \in {"gate1w", "gate1r"} /\ write_entered) ~> pc[t] \notin {"gate1w", "gate1r"}
=============================================================================
