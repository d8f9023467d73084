----------------------- MODULE MapBasedGlobalLockImpl -----------------------
(***************************************************************************)
(* The storage backend src/storage/MapBasedGlobalLockImpl.{h,cpp}: an LRU  *)
(* cache made of a list of (key, value) nodes, a map from keys to nodes    *)
(* and a byte counter, every operation holding one mutex from its first    *)
(* line to its return.                                                     *)
(*                                                                         *)
(* A call is split where the code loops: "find" (lock taken, nothing looked *)
(* at yet), "insert" or "overwrite" (inside FreeSpace, or just after it),   *)
(* "return" (result known, lock about to be released).  Only the accessors  *)
(* that take no lock can run in between.                                    *)
(*                                                                         *)
(* Undefined behaviour (back() or front() of an empty list, a map entry    *)
(* whose node was freed) sets `fault`; the storage takes no step after it. *)
(***************************************************************************)
EXTENDS Integers, Sequences

CONSTANTS
  Key, Value,  \* the keys and values clients use
  KeySize,     \* [Key -> Nat]: key.size()
  ValueSize,   \* [Value -> Nat]: value.size()
  MaxSize,     \* _max_size
  Ops,         \* the operations the callers of this instance use
  NewSizes,    \* the arguments callers give SetNewCurrentSize
  CounterFloor, \* bound: no new call once _current_size has drifted below it
  None         \* no value

StoreOps == {"Put", "PutIfAbsent", "Set"}

ASSUME StorageAssumption ==
  /\ KeySize \in [Key -> Nat]
  /\ ValueSize \in [Value -> Nat]
  /\ MaxSize \in Nat
  /\ Ops \subseteq StoreOps \cup {"Get", "Delete", "SetNewCurrentSize"}
  /\ NewSizes \subseteq Int
  /\ CounterFloor \in Int
  /\ None \notin Key /\ None \notin Value

VARIABLES
  lru,          \* _lru, the front of the list first
  cacheMap,     \* the keys _cacheMap has an entry for
  current_size, \* _current_size
  call,         \* the call holding _lock and its local variables
  need,         \* the argument of the FreeSpace call being made, else 0
  fault,        \* undefined behaviour has been reached
  usedAfter     \* history: <<k, l>> when k was stored or read after l

vars == <<lru, cacheMap, current_size, call, need, fault, usedAfter>>

Node == [key : Key, value : Value]

NoCall == [pc |-> "idle", op |-> "none", key |-> None, value |-> None,
           ok |-> FALSE, out |-> None]

ItemSize(k, v) == KeySize[k] + ValueSize[v]

ListedKeys == {lru[i].key : i \in 1..Len(lru)}

Call == [pc : {"idle", "find", "insert", "overwrite", "return"},
         op : Ops \cup {"none"}, key : Key \cup {None},
         value : Value \cup {None}, ok : BOOLEAN, out : Value \cup {None}]

TypeOK ==
  /\ lru \in Seq(Node)
  /\ cacheMap \subseteq Key
  /\ current_size \in Int
  /\ call \in Call
  /\ need \in Int
  /\ fault \in BOOLEAN
  /\ usedAfter \subseteq Key \X Key

Init ==
  /\ lru = <<>>
  /\ cacheMap = {}
  /\ current_size = 0
  /\ call = NoCall
  /\ need = 0
  /\ fault = FALSE
  /\ usedAfter = {}

-----------------------------------------------------------------------------
(* Helpers on the list. *)

(* The node the map's iterator for k points at. *)
NodeOf(k) == CHOOSE i \in 1..Len(lru) : lru[i].key = k

(* _lru.splice(_lru.begin(), _lru, node) *)
Splice(i) ==
  [j \in 1..Len(lru) |-> IF j = 1 THEN lru[i]
                         ELSE IF j <= i THEN lru[j - 1] ELSE lru[j]]

(* _lru.pop_back() *)
PopBack == [j \in 1..Len(lru) - 1 |-> lru[j]]

(* _lru.erase(node) *)
Erase(i) == [j \in 1..Len(lru) - 1 |-> lru[IF j < i THEN j ELSE j + 1]]

(* History only: k becomes the most recently used key. *)
Touch(k) ==
  usedAfter' = (usedAfter \ (Key \X {k})) \cup ({k} \X (Key \ {k}))

(* A map entry whose node Delete has already freed. *)
Dangling == cacheMap # ListedKeys

Reply(ok, out) ==
  /\ call' = [call EXCEPT !.pc = "return", !.ok = ok, !.out = out]
  /\ need' = 0

At(op) == ~fault /\ call.pc = "find" /\ call.op = op /\ ~Dangling

Found == call.key \in cacheMap

NewSize == ItemSize(call.key, call.value)

OldSize == ItemSize(call.key, lru[NodeOf(call.key)].value)

-----------------------------------------------------------------------------
(* Entering and leaving the storage. *)

Lock(op, k, v) ==
  /\ ~fault /\ call = NoCall
  /\ op \in Ops
  /\ current_size >= CounterFloor
  /\ call' = [NoCall EXCEPT !.pc = "find", !.op = op, !.key = k, !.value = v]
  /\ UNCHANGED <<lru, cacheMap, current_size, fault, need, usedAfter>>

Unlock ==
  /\ ~fault /\ call.pc = "return"
  /\ call' = NoCall
  /\ UNCHANGED <<lru, cacheMap, current_size, fault, need, usedAfter>>

(* find() compares with keys that live in freed nodes. *)
FindDangling ==
  /\ ~fault /\ call.pc = "find" /\ Dangling
  /\ fault' = TRUE
  /\ UNCHANGED <<lru, cacheMap, current_size, call, need, usedAfter>>

-----------------------------------------------------------------------------
(* FreeSpace(new_size): evict from the back while the budget is exceeded.   *)

Freeing == ~fault /\ call.pc \in {"insert", "overwrite"}

(* Mutant: the loop condition forgets the item being stored. *)
OverBudget_IgnoresNew == current_size > MaxSize

OverBudget == current_size + need > MaxSize

(* Mutant: the map entry is erased, the node and the counter are forgotten. *)
FreeSpaceEvict_NoPop ==
  /\ Freeing /\ OverBudget
  /\ lru # <<>>
  /\ cacheMap' = cacheMap \ {lru[Len(lru)].key}
  /\ UNCHANGED <<lru, current_size, call, fault, need, usedAfter>>

FreeSpaceEvict ==
  /\ Freeing /\ OverBudget
  /\ lru # <<>>
  /\ LET last == lru[Len(lru)]
     IN  /\ current_size' = current_size - ItemSize(last.key, last.value)
         /\ cacheMap' = cacheMap \ {last.key}
  /\ lru' = PopBack
  /\ UNCHANGED <<call, fault, need, usedAfter>>

(* _lru.back() of an empty list *)
FreeSpaceEmpty ==
  /\ Freeing /\ OverBudget
  /\ lru = <<>>
  /\ fault' = TRUE
  /\ UNCHANGED <<lru, cacheMap, current_size, call, need, usedAfter>>

(* The loop is over: what the caller of FreeSpace does next. *)
FreeSpaceDone(pc) == ~fault /\ call.pc = pc /\ ~OverBudget

-----------------------------------------------------------------------------
(* The operations. *)

Refuse ==
  /\ Reply(FALSE, None)
  /\ UNCHANGED <<lru, cacheMap, current_size, fault, usedAfter>>

(* The check every storing operation makes right after find(). *)
TooLarge ==
  /\ \E op \in StoreOps : At(op)
  /\ NewSize > MaxSize
  /\ Refuse

PutAbsent(op) ==
  /\ At(op) /\ NewSize <= MaxSize
  /\ ~Found
  /\ call' = [call EXCEPT !.pc = "insert"]
  /\ need' = NewSize
  /\ UNCHANGED <<lru, cacheMap, current_size, fault, usedAfter>>

(* Mutant: the node is added, the map entry is not. *)
Insert_NoMapEntry ==
  /\ FreeSpaceDone("insert")
  /\ lru' = <<[key |-> call.key, value |-> call.value]>> \o lru
  /\ current_size' = current_size + NewSize
  /\ Touch(call.key)
  /\ Reply(TRUE, None)
  /\ UNCHANGED <<cacheMap, fault>>

Insert ==
  /\ FreeSpaceDone("insert")
  /\ lru' = <<[key |-> call.key, value |-> call.value]>> \o lru
  /\ cacheMap' = cacheMap \cup {call.key}
  /\ current_size' = current_size + NewSize
  /\ Touch(call.key)
  /\ Reply(TRUE, None)
  /\ UNCHANGED fault

(* Put and Set of a present key: splice, then FreeSpace(new_size - old_size) *)
Present(op) ==
  /\ At(op) /\ NewSize <= MaxSize
  /\ Found
  /\ lru' = Splice(NodeOf(call.key))
  /\ Touch(call.key)
  /\ call' = [call EXCEPT !.pc = "overwrite"]
  /\ need' = NewSize - OldSize
  /\ UNCHANGED <<cacheMap, current_size, fault>>

(* _lru.front().second = value; Put leaves _current_size as it was. *)
PutOverwrite ==
  /\ FreeSpaceDone("overwrite") /\ call.op = "Put"
  /\ lru # <<>>
  /\ lru' = [lru EXCEPT ![1].value = call.value]
  /\ Reply(TRUE, None)
  /\ UNCHANGED <<cacheMap, current_size, fault, usedAfter>>

SetOverwrite ==
  /\ FreeSpaceDone("overwrite") /\ call.op = "Set"
  /\ lru # <<>>
  /\ lru' = [lru EXCEPT ![1].value = call.value]
  /\ current_size' = current_size - ValueSize[lru[1].value] + NewSize
  /\ Reply(TRUE, None)
  /\ UNCHANGED <<cacheMap, fault, usedAfter>>

(* FreeSpace evicted the very node being overwritten: front() of an empty list *)
OverwriteEmpty ==
  /\ FreeSpaceDone("overwrite")
  /\ lru = <<>>
  /\ fault' = TRUE
  /\ UNCHANGED <<lru, cacheMap, current_size, call, need, usedAfter>>

Put == PutAbsent("Put") \/ Present("Put")

PutIfAbsent ==
  \/ PutAbsent("PutIfAbsent")
  \/ At("PutIfAbsent") /\ NewSize <= MaxSize /\ Found /\ Refuse

Set ==
  \/ Present("Set")
  \/ At("Set") /\ NewSize <= MaxSize /\ ~Found /\ Refuse

(* Delete frees the node first and erases the map entry second.  The entry's *)
(* key lives in the freed node, so the erase either still finds it or leaves *)
(* the entry behind.  _current_size is not touched.                          *)
Delete ==
  /\ At("Delete")
  /\ \/ ~Found /\ Refuse
     \/ /\ Found
        /\ lru' = Erase(NodeOf(call.key))
        /\ cacheMap' \in {cacheMap \ {call.key}, cacheMap}
        /\ Reply(TRUE, None)
        /\ UNCHANGED <<current_size, fault, usedAfter>>

(* Mutant: the node's first member is returned, not its second. *)
Get_ReturnsKey ==
  /\ At("Get")
  /\ Found
  /\ lru' = Splice(NodeOf(call.key))
  /\ Touch(call.key)
  /\ Reply(TRUE, lru'[1].key)
  /\ UNCHANGED <<cacheMap, current_size, fault>>

(* Mutant: the front node is read without the splice that brings it there. *)
Get_NoSplice ==
  /\ At("Get")
  /\ Found
  /\ Touch(call.key)
  /\ Reply(TRUE, lru[1].value)
  /\ UNCHANGED <<lru, cacheMap, current_size, fault>>

Get ==
  /\ At("Get")
  /\ \/ ~Found /\ Refuse
     \/ /\ Found
        /\ lru' = Splice(NodeOf(call.key))
        /\ Touch(call.key)
        /\ Reply(TRUE, lru'[1].value)
        /\ UNCHANGED <<cacheMap, current_size, fault>>

(* Takes no lock, so it may fall between the steps of a call. *)
SetNewCurrentSize(n) ==
  /\ ~fault /\ "SetNewCurrentSize" \in Ops
  /\ current_size' = n
  /\ UNCHANGED <<lru, cacheMap, call, fault, need, usedAfter>>

-----------------------------------------------------------------------------
(* The steps of the call in progress. *)
Step ==
  \/ FindDangling \/ TooLarge
  \/ Put \/ PutIfAbsent \/ Set \/ Delete \/ Get
  \/ FreeSpaceEvict \/ FreeSpaceEmpty
  \/ Insert \/ PutOverwrite \/ SetOverwrite \/ OverwriteEmpty

Next ==
  \/ \E op \in StoreOps, k \in Key, v \in Value : Lock(op, k, v)
  \/ \E op \in {"Get", "Delete"}, k \in Key : Lock(op, k, None)
  \/ Step
  \/ Unlock
  \/ \E n \in NewSizes : SetNewCurrentSize(n)

Spec == Init /\ [][Next]_vars

(* A thread inside the storage is scheduled again until its call returns;  *)
(* nobody is obliged to call the storage.                                   *)
FairSpec == Spec /\ WF_vars(Step) /\ WF_vars(Unlock)

-----------------------------------------------------------------------------
(* Properties. *)

(* The map and the list describe the same associations: no key has two     *)
(* nodes, every node is reachable through the map, and, unless Delete is   *)
(* used, every map entry points at a live node.                            *)
MapMatchesList ==
  /\ \A i, j \in 1..Len(lru) : lru[i].key = lru[j].key => i = j
  /\ ListedKeys \subseteq cacheMap
  /\ "Delete" \notin Ops => ~Dangling

(* FreeSpace evicts in least-recently-used order: a key that leaves the map *)
(* other than by Delete was last stored or read before every key that stays. *)
EvictsLeastRecent ==
  [][call.op # "Delete" =>
       \A k \in cacheMap \ cacheMap', l \in cacheMap' : <<l, k>> \in usedAfter]_vars

(* The counter FreeSpace budgets with never exceeds _max_size, not even      *)
(* inside a call, for callers that use neither Set (which adds the key's     *)
(* size once more on every call) nor SetNewCurrentSize.                      *)
CounterWithinMax ==
  Ops \cap {"Set", "SetNewCurrentSize"} = {} => current_size <= MaxSize

UniformItems ==
  \A k, l \in Key, v, w \in Value : ItemSize(k, v) = ItemSize(l, w)

(* When all items have the same size, as in test/storage/StorageTest.cpp,   *)
(* FreeSpace never runs out of nodes and the bytes of the list (its length   *)
(* times that size) never exceed _max_size.                                  *)
UniformItemsAreSafe ==
  UniformItems /\ Ops \subseteq {"Put", "PutIfAbsent", "Get"}
    => /\ ~fault
       /\ \A k \in Key, v \in Value : Len(lru) * ItemSize(k, v) <= MaxSize

(* Every call ends by returning true or false, never in undefined behaviour. *)
NoFault == ~fault

(* A call that entered the storage comes back, however much FreeSpace has   *)
(* to evict, unless it runs into undefined behaviour.                       *)
CallsFinish == (call.pc = "find") ~> (call.pc = "return" \/ fault)

-----------------------------------------------------------------------------
(* The storage implements the contract of Storage.h (module CacheContract): *)
(* the associations are the nodes of the list, and a call is still the      *)
(* caller's request until its result is known.                              *)
ContractCall ==
  [pc |-> IF call.pc \in {"find", "insert", "overwrite"} THEN "busy" ELSE call.pc,
   op |-> call.op, key |-> call.key, value |-> call.value,
   ok |-> call.ok, out |-> call.out]

ContractStore ==
  [k \in Key |-> IF k \in ListedKeys THEN lru[NodeOf(k)].value ELSE None]

Contract == INSTANCE CacheContract WITH store <- ContractStore, call <- ContractCall

ImplementsContract == Contract!Spec
=============================================================================
