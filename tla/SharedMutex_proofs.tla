-------------------------- MODULE SharedMutex_proofs --------------------------
(***************************************************************************)
(* Proofs about the readers-writer lock, for every number of threads, every*)
(* limit of readers and every width of the counter.                        *)
(***************************************************************************)
EXTENDS SharedMutex, FiniteSetTheorems, TLAPS

(* Where the thread is that has set the bit write_entered_. *)
EnteredAt == WriterAt \cup {"gate2", "drain"}

(* The inductive invariant: the bit is set exactly while one thread is       *)
(* entered, readers are gone when it is past the second gate, and what it    *)
(* has loaded is still the counter's value.                                  *)
MInv ==
  /\ MTypeOK
  /\ readers = Cardinality(Readers)
  /\ write_entered <=> \E t \in Thread : pc[t] \in EnteredAt
  /\ \A t, u \in Thread : (pc[t] \in EnteredAt /\ pc[u] \in EnteredAt) => t = u
  /\ \A t \in Thread : pc[t] \in WriterAt => readers = 0
  /\ \A t \in Thread : pc[t] = "incrementing" => loaded[t] = value_
  /\ value_ = total

(* What a step of thread t may do to the place of another: wake it up, which *)
(* changes none of these.                                                    *)
SameKind(u) ==
  /\ pc'[u] = "reading" <=> pc[u] = "reading"
  /\ pc'[u] \in EnteredAt <=> pc[u] \in EnteredAt
  /\ pc'[u] \in WriterAt <=> pc[u] \in WriterAt
  /\ pc'[u] = "incrementing" <=> pc[u] = "incrementing"

Frame(t) ==
  /\ pc' \in [Thread -> Place]
  /\ \A u \in Thread \ {t} : SameKind(u)

-----------------------------------------------------------------------------
(* Moving one thread leaves the others alone (Goes, in every action but the  *)
(* two that notify).                                                         *)
LEMMA GoesFrame ==
  ASSUME MTypeOK, NEW t \in Thread, NEW p \in Place, Goes(t, p)
  PROVE  Frame(t) /\ pc'[t] = p
BY DEF MTypeOK, Goes, Frame, SameKind

(* Waking a thread at a gate (SpuriousWakeup and both kinds of notify) takes *)
(* it to a place of the same kind.                                           *)
LEMMA WokenKind ==
  ASSUME NEW p \in Waiting
  PROVE  /\ Woken(p) \in {"lock", "lock_shared", "drain"}
         /\ Woken(p) \in EnteredAt <=> p \in EnteredAt
BY DEF Waiting, Woken, EnteredAt, WriterAt

(* notify_all in unlock *)
LEMMA NotifyAllFrame ==
  ASSUME MTypeOK, NEW t \in Thread, pc[t] \notin Waiting,
         pc' = NotifyAll({"gate1w", "gate1r"}, [pc EXCEPT ![t] = "idle"])
  PROVE  Frame(t) /\ pc'[t] = "idle"
<1>1. \A u \in Thread : pc'[u] = IF u = t THEN "idle"
                                 ELSE IF pc[u] \in {"gate1w", "gate1r"} THEN Woken(pc[u]) ELSE pc[u]
  BY DEF NotifyAll, MTypeOK
<1>2. DOMAIN pc' = Thread /\ pc' = [u \in Thread |-> pc'[u]]
  BY DEF NotifyAll
<1>3. \A u \in Thread \ {t} : pc'[u] \in Place /\ SameKind(u)
  <2> TAKE u \in Thread \ {t}
  <2>1. CASE pc[u] \in {"gate1w", "gate1r"}
    BY <1>1, <2>1, WokenKind DEF SameKind, Place, Waiting, EnteredAt, WriterAt
  <2>2. CASE pc[u] \notin {"gate1w", "gate1r"}
    BY <1>1, <2>2 DEF SameKind, MTypeOK
  <2>3. QED
    BY <2>1, <2>2
<1>4. pc'[t] = "idle" /\ "idle" \in Place
  BY <1>1 DEF Place
<1>5. QED
  BY <1>2, <1>3, <1>4 DEF Frame

(* notify_one in unlock_shared *)
LEMMA NotifyOneFrame ==
  ASSUME MTypeOK, NEW t \in Thread, NEW gate \in SUBSET Waiting,
         NotifyOne(gate, [pc EXCEPT ![t] = "idle"])
  PROVE  Frame(t) /\ pc'[t] = "idle"
<1> DEFINE left == [pc EXCEPT ![t] = "idle"]
<1>1. left \in [Thread -> Place] /\ left[t] = "idle" /\ \A u \in Thread \ {t} : left[u] = pc[u]
  BY DEF MTypeOK, Place
<1>2. CASE pc' = left
  BY <1>1, <1>2 DEF Frame, SameKind
<1>3. ASSUME NEW v \in Thread, left[v] \in gate, pc' = [left EXCEPT ![v] = Woken(left[v])]
      PROVE  Frame(t) /\ pc'[t] = "idle"
  <2>1. v # t /\ left[v] = pc[v] /\ pc[v] \in Waiting
    BY <1>1, <1>3 DEF Waiting
  <2>2. Woken(pc[v]) \in Place
    BY <2>1, WokenKind DEF Place
  <2>3. pc' \in [Thread -> Place] /\ pc'[v] = Woken(pc[v]) /\ \A u \in Thread \ {v} : pc'[u] = left[u]
    BY <1>1, <1>3, <2>1, <2>2
  <2>4. SameKind(v)
    BY <2>1, <2>3, WokenKind DEF SameKind, Waiting, EnteredAt, WriterAt
  <2>5. \A u \in Thread \ {t, v} : SameKind(u)
    BY <1>1, <2>3 DEF SameKind
  <2>6. QED
    BY <1>1, <2>1, <2>3, <2>4, <2>5 DEF Frame
<1>4. QED
  BY <1>2, <1>3 DEF NotifyOne

-----------------------------------------------------------------------------
(* The number of readers when the moving thread stays what it was, becomes a *)
(* reader, or ceases to be one.                                              *)
LEMMA ReadersStep ==
  ASSUME MTypeOK, NEW t \in Thread, Frame(t)
  PROVE  /\ IsFiniteSet(Readers) /\ Cardinality(Readers) \in Nat
         /\ (pc[t] = "reading" <=> pc'[t] = "reading") => Cardinality(Readers') = Cardinality(Readers)
         /\ (pc[t] # "reading" /\ pc'[t] = "reading") => Cardinality(Readers') = Cardinality(Readers) + 1
         /\ (pc[t] = "reading" /\ pc'[t] # "reading") => Cardinality(Readers') = Cardinality(Readers) - 1
<1>1. IsFiniteSet(Readers)
  BY SharedMutexAssumption, FS_Subset, Readers \subseteq Thread DEF Readers
<1>2. Cardinality(Readers) \in Nat
  BY <1>1, FS_CardinalityType
<1>3. \A u \in Thread \ {t} : u \in Readers' <=> u \in Readers
  BY DEF Frame, SameKind, Readers
<1>4. (pc[t] = "reading" <=> pc'[t] = "reading") => Readers' = Readers
  BY <1>3 DEF Readers
<1>5. (pc[t] # "reading" /\ pc'[t] = "reading") => Readers' = Readers \cup {t} /\ t \notin Readers
  BY <1>3 DEF Readers
<1>6. (pc[t] = "reading" /\ pc'[t] # "reading") => Readers' = Readers \ {t} /\ t \in Readers
  BY <1>3 DEF Readers
<1>7. QED
  BY <1>1, <1>2, <1>4, <1>5, <1>6, FS_AddElement, FS_RemoveElement

(* A reader is counted. *)
LEMMA ReaderCounted ==
  ASSUME MTypeOK, readers = Cardinality(Readers), NEW t \in Thread, pc[t] = "reading"
  PROVE  readers # 0
<1>1. IsFiniteSet(Readers)
  BY SharedMutexAssumption, FS_Subset, Readers \subseteq Thread DEF Readers
<1>2. Readers # {}
  BY DEF Readers
<1>3. QED
  BY <1>1, <1>2, FS_EmptySet

-----------------------------------------------------------------------------
(* A step that moves thread t between places of one kind, and changes        *)
(* neither state_ nor the counter, keeps the invariant.                      *)
LEMMA QuietStep ==
  ASSUME MInv, NEW t \in Thread, Frame(t), SameKind(t),
         UNCHANGED <<write_entered, readers, loaded, value_, total>>
  PROVE  MInv'
<1>1. MTypeOK'
  BY DEF MInv, MTypeOK, Frame
<1>2. readers' = Cardinality(Readers')
  BY ReadersStep DEF MInv, SameKind
<1>3. \A u \in Thread : SameKind(u)
  BY DEF Frame
<1>4. QED
  BY <1>1, <1>2, <1>3 DEF MInv, SameKind

(* lock, its first loop and what follows it *)
LEMMA LockStep ==
  ASSUME MInv, NEW t \in Thread, Lock(t)
  PROVE  MInv'
<1> USE DEF Place, Waiting, WriterAt, EnteredAt
<1>0. MTypeOK /\ pc[t] \in {"idle", "lock"} /\ UNCHANGED <<readers, loaded, value_, total>>
  BY DEF MInv, Lock
<1>1. CASE write_entered
  <2>1. Goes(t, "gate1w") /\ UNCHANGED write_entered
    BY <1>1 DEF Lock
  <2>2. Frame(t) /\ pc'[t] = "gate1w"
    BY <1>0, <2>1, GoesFrame
  <2>3. QED
    BY <1>0, <2>1, <2>2, QuietStep DEF SameKind
<1>2. CASE ~write_entered
  <2>1. write_entered' = TRUE /\ Goes(t, IF readers # 0 THEN "gate2" ELSE "writing")
    BY <1>2 DEF Lock
  <2>2. Frame(t) /\ pc'[t] = IF readers # 0 THEN "gate2" ELSE "writing"
    BY <1>0, <2>1, GoesFrame
  <2>3. MTypeOK'
    BY <1>0, <2>1, <2>2 DEF MTypeOK, Frame
  <2>4. readers' = Cardinality(Readers')
    BY <1>0, <2>2, ReadersStep DEF MInv
  <2>5. \A u \in Thread : pc[u] \notin EnteredAt
    BY <1>2 DEF MInv
  <2>6. \A u \in Thread \ {t} : pc'[u] \notin EnteredAt
    BY <2>2, <2>5 DEF Frame, SameKind
  <2>7. QED
    BY <1>0, <2>1, <2>2, <2>3, <2>4, <2>6 DEF MInv
<1>3. QED
  BY <1>1, <1>2

(* lock, woken at the second gate *)
LEMMA DrainStep ==
  ASSUME MInv, NEW t \in Thread, Drain(t)
  PROVE  MInv'
<1> USE DEF Place, Waiting, WriterAt, EnteredAt
<1>1. MTypeOK /\ pc[t] = "drain" /\ UNCHANGED <<write_entered, readers, loaded, value_, total>>
  BY DEF MInv, Drain
<1>2. Frame(t) /\ pc'[t] = IF readers # 0 THEN "gate2" ELSE "writing"
  BY <1>1, GoesFrame DEF Drain
<1>3. MTypeOK'
  BY <1>1, <1>2 DEF MTypeOK, Frame
<1>4. readers' = Cardinality(Readers')
  BY <1>1, <1>2, ReadersStep DEF MInv
<1>5. \A u \in Thread \ {t} : pc'[u] \notin EnteredAt
  BY <1>1, <1>2 DEF MInv, Frame, SameKind
<1>6. QED
  BY <1>1, <1>2, <1>3, <1>4, <1>5 DEF MInv

(* try_lock, when it succeeds *)
LEMMA TryLockStep ==
  ASSUME MInv, NEW t \in Thread, TryLock(t)
  PROVE  MInv'
<1> USE DEF Place, Waiting, WriterAt, EnteredAt
<1>1. /\ MTypeOK /\ pc[t] = "idle" /\ ~write_entered /\ readers = 0 /\ write_entered' = TRUE
      /\ UNCHANGED <<readers, loaded, value_, total>>
  BY DEF MInv, TryLock
<1>2. Frame(t) /\ pc'[t] = "writing"
  BY <1>1, GoesFrame DEF TryLock
<1>3. MTypeOK'
  BY <1>1, <1>2 DEF MTypeOK, Frame
<1>4. readers' = Cardinality(Readers')
  BY <1>1, <1>2, ReadersStep DEF MInv
<1>5. \A u \in Thread \ {t} : pc'[u] \notin EnteredAt
  BY <1>1, <1>2 DEF MInv, Frame, SameKind
<1>6. QED
  BY <1>1, <1>2, <1>3, <1>4, <1>5 DEF MInv

(* unlock, its section: setting state_ to 0 forgets no reader *)
LEMMA UnlockStep ==
  ASSUME MInv, NEW t \in Thread, Unlock(t)
  PROVE  MInv'
<1> USE DEF Place, Waiting, WriterAt, EnteredAt
<1>1. /\ MTypeOK /\ pc[t] = "written" /\ write_entered' = FALSE /\ readers' = 0
      /\ UNCHANGED <<loaded, value_, total>>
  BY DEF MInv, Unlock
<1>2. Frame(t) /\ pc'[t] = "notify"
  BY <1>1, GoesFrame DEF Unlock
<1>3. readers = 0
  BY <1>1 DEF MInv
<1>4. MTypeOK'
  BY <1>1, <1>2, <1>3 DEF MTypeOK, Frame
<1>5. readers' = Cardinality(Readers')
  BY <1>1, <1>2, <1>3, ReadersStep DEF MInv
<1>6. \A u \in Thread \ {t} : pc'[u] \notin EnteredAt
  BY <1>1, <1>2 DEF MInv, Frame, SameKind
<1>7. QED
  BY <1>1, <1>2, <1>4, <1>5, <1>6 DEF MInv

(* A reader comes in, by lock_shared or try_lock_shared. *)
LEMMA ReaderEnters ==
  ASSUME MInv, NEW t \in Thread, pc[t] \in {"idle", "lock_shared"}, ~NoReader,
         readers' = readers + 1, Goes(t, "reading"),
         UNCHANGED <<write_entered, loaded, value_, total>>
  PROVE  MInv'
<1> USE DEF Place, Waiting, WriterAt, EnteredAt
<1>1. Frame(t) /\ pc'[t] = "reading"
  BY GoesFrame DEF MInv
<1>2. MTypeOK'
  <2>1. readers' \in 0..n_readers
    BY SharedMutexAssumption DEF MInv, MTypeOK, NoReader
  <2>2. QED
    BY <1>1, <2>1 DEF MInv, MTypeOK, Frame
<1>3. readers' = Cardinality(Readers')
  BY <1>1, ReadersStep DEF MInv
<1>4. \A u \in Thread : pc[u] \notin EnteredAt
  BY DEF MInv, NoReader
<1>5. \A u \in Thread : pc'[u] \notin EnteredAt
  BY <1>1, <1>4 DEF Frame, SameKind
<1>6. QED
  BY <1>2, <1>3, <1>5 DEF MInv, NoReader

(* unlock_shared, with either of its notifications or none *)
LEMMA UnlockSharedStep ==
  ASSUME MInv, NEW t \in Thread, UnlockShared(t)
  PROVE  MInv'
<1> USE DEF Place, Waiting, WriterAt, EnteredAt
<1>1. /\ MTypeOK /\ pc[t] = "reading" /\ readers' = readers - 1
      /\ UNCHANGED <<write_entered, loaded, value_, total>>
  BY DEF MInv, UnlockShared
<1>2. Frame(t) /\ pc'[t] = "idle"
  <2>1. ASSUME NEW gate \in SUBSET Waiting, NotifyOne(gate, [pc EXCEPT ![t] = "idle"])
        PROVE  Frame(t) /\ pc'[t] = "idle"
    BY <1>1, <2>1, NotifyOneFrame
  <2>2. ASSUME pc' = [pc EXCEPT ![t] = "idle"]
        PROVE  Frame(t) /\ pc'[t] = "idle"
    BY <1>1, <2>2, GoesFrame DEF Goes
  <2>3. {"gate2"} \in SUBSET Waiting /\ {"gate1w", "gate1r"} \in SUBSET Waiting
    OBVIOUS
  <2>4. QED
    BY <2>1, <2>2, <2>3 DEF UnlockShared
<1>3. readers # 0
  BY <1>1, ReaderCounted DEF MInv
<1>4. MTypeOK'
  <2>1. readers' \in 0..n_readers
    BY <1>1, <1>3, SharedMutexAssumption DEF MTypeOK
  <2>2. QED
    BY <1>1, <1>2, <2>1 DEF MTypeOK, Frame
<1>5. readers' = Cardinality(Readers')
  BY <1>1, <1>2, ReadersStep DEF MInv
<1>6. \A u \in Thread : /\ pc'[u] \in EnteredAt <=> pc[u] \in EnteredAt
                        /\ pc'[u] \notin WriterAt
  BY <1>1, <1>2, <1>3 DEF MInv, Frame, SameKind
<1>7. QED
  BY <1>1, <1>4, <1>5, <1>6 DEF MInv

(* value_++: nobody else is between its read and its write *)
LEMMA IncrementStep ==
  ASSUME MInv, NEW t \in Thread, IncrementLoads(t) \/ IncrementStores(t) \/ Reset(t)
  PROVE  MInv'
<1> USE DEF Place, Waiting, WriterAt, EnteredAt
<1>1. MTypeOK /\ pc[t] \in {"writing", "incrementing"} /\ UNCHANGED <<write_entered, readers>>
  BY DEF MInv, IncrementLoads, IncrementStores, Reset
<1>2. Frame(t) /\ pc'[t] \in {"incrementing", "written"}
  BY <1>1, GoesFrame DEF IncrementLoads, IncrementStores, Reset
<1>3. /\ loaded' \in [Thread -> Counter] /\ value_' = total' /\ value_' \in Counter
      /\ pc'[t] = "incrementing" => loaded'[t] = value_'
  <2>1. CASE IncrementLoads(t)
    BY <2>1 DEF IncrementLoads, MInv, MTypeOK
  <2>2. CASE IncrementStores(t)
    <3>1. loaded[t] = value_ /\ value_ = total /\ value_ \in Counter /\ pc'[t] = "written"
      BY <2>2, GoesFrame DEF IncrementStores, MInv, MTypeOK
    <3>2. \A n \in Counter : (n + 1) % Modulus \in Counter /\ 0 \in Counter
      BY SharedMutexAssumption DEF Counter
    <3>3. QED
      BY <2>2, <3>1, <3>2 DEF IncrementStores, MInv, MTypeOK
  <2>3. CASE Reset(t)
    <3>1. pc'[t] = "written"
      BY <2>3, GoesFrame DEF Reset, MInv
    <3>2. 0 \in Counter
      BY SharedMutexAssumption DEF Counter
    <3>3. QED
      BY <2>3, <3>1, <3>2 DEF Reset, MInv, MTypeOK
  <2>4. QED
    BY <2>1, <2>2, <2>3
<1>4. MTypeOK'
  BY <1>1, <1>2, <1>3 DEF MTypeOK, Frame
<1>5. readers' = Cardinality(Readers')
  BY <1>1, <1>2, ReadersStep DEF MInv
<1>6. \A u \in Thread \ {t} : pc'[u] \notin EnteredAt
  BY <1>1, <1>2 DEF MInv, Frame, SameKind
<1>7. write_entered /\ readers = 0
  BY <1>1 DEF MInv
<1>8. QED
  BY <1>1, <1>2, <1>3, <1>4, <1>5, <1>6, <1>7 DEF MInv

-----------------------------------------------------------------------------
(* The invariant holds initially. *)
LEMMA InitInv == MInit => MInv
<1> SUFFICES ASSUME MInit PROVE MInv
  OBVIOUS
<1>1. MTypeOK
  <2>1. 0 \in Counter /\ 0 \in 0..n_readers
    BY SharedMutexAssumption DEF Counter
  <2>2. QED
    BY <2>1 DEF MInit, MTypeOK, Place
<1>2. Readers = {}
  BY DEF MInit, Readers
<1>3. QED
  BY <1>1, <1>2, FS_EmptySet DEF MInit, MInv, EnteredAt, WriterAt

(* Every step keeps it. *)
LEMMA NextInv == MInv /\ [MNext]_mvars => MInv'
<1> SUFFICES ASSUME MInv, [MNext]_mvars PROVE MInv'
  OBVIOUS
<1>1. CASE UNCHANGED mvars
  BY <1>1 DEF mvars, MInv, MTypeOK, Readers
<1>2. ASSUME NEW t \in Thread, SpuriousWakeup(t) PROVE MInv'
  <2>1. Woken(pc[t]) \in Place /\ Frame(t) /\ pc'[t] = Woken(pc[t])
    BY <1>2, WokenKind, GoesFrame DEF SpuriousWakeup, MInv, Place
  <2>2. SameKind(t)
    BY <1>2, <2>1, WokenKind DEF SpuriousWakeup, SameKind, Waiting, WriterAt, EnteredAt
  <2>3. QED
    BY <1>2, <2>1, <2>2, QuietStep DEF SpuriousWakeup
<1>3. ASSUME NEW t \in Thread, UnlockNotifies(t) PROVE MInv'
  <2>1. Frame(t) /\ pc'[t] = "idle"
    BY <1>3, NotifyAllFrame DEF UnlockNotifies, MInv, Waiting
  <2>2. QED
    BY <1>3, <2>1, QuietStep DEF UnlockNotifies, SameKind, WriterAt, EnteredAt
<1>4. ASSUME NEW t \in Thread, LockShared(t) PROVE MInv'
  <2>1. CASE NoReader
    <3>1. Goes(t, "gate1r") /\ UNCHANGED <<write_entered, readers, loaded, value_, total>>
      BY <1>4, <2>1 DEF LockShared
    <3>2. Frame(t) /\ pc'[t] = "gate1r"
      BY <3>1, GoesFrame DEF MInv, Place, Waiting
    <3>3. QED
      BY <1>4, <3>1, <3>2, QuietStep DEF LockShared, SameKind, WriterAt, EnteredAt
  <2>2. CASE ~NoReader
    BY <1>4, <2>2, ReaderEnters DEF LockShared
  <2>3. QED
    BY <2>1, <2>2
<1>5. ASSUME NEW t \in Thread, TryLockShared(t) PROVE MInv'
  BY <1>5, ReaderEnters DEF TryLockShared
<1>6. ASSUME NEW t \in Thread, Continues(t) \/ Calls(t) PROVE MInv'
  BY <1>3, <1>4, <1>5, <1>6, LockStep, DrainStep, TryLockStep, UnlockStep, UnlockSharedStep,
     IncrementStep DEF Continues, Calls
<1>7. QED
  BY <1>1, <1>2, <1>6 DEF MNext

(* The invariant always holds. *)
LEMMA Invariance == MSpec => []MInv
BY InitInv, NextInv, PTL DEF MSpec

-----------------------------------------------------------------------------
(* Type correctness: the reader count fits its field. *)
THEOREM TypeCorrect == MSpec => []MTypeOK
<1>1. MInv => MTypeOK
  BY DEF MInv
<1>2. QED
  BY <1>1, Invariance, PTL

(* A writer's section excludes all others, and the readers are counted. *)
THEOREM MutualExclusion == MSpec => []Exclusion
<1>1. ASSUME MInv PROVE Exclusion
  <2>1. ASSUME NEW t \in Thread, NEW u \in Thread, pc[t] \in WriterAt, pc[u] = "reading"
        PROVE  FALSE
    BY <1>1, <2>1, ReaderCounted DEF MInv
  <2>2. QED
    BY <1>1, <2>1 DEF MInv, Exclusion, EnteredAt
<1>2. QED
  BY <1>1, Invariance, PTL

(* No increment of ThreadSafeCounter is lost. *)
THEOREM NoLostIncrement == MSpec => []CounterExact
<1>1. MInv => CounterExact
  BY DEF MInv, CounterExact
<1>2. QED
  BY <1>1, Invariance, PTL
=============================================================================
