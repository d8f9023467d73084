--------------------------- MODULE CacheContract ---------------------------
(***************************************************************************)
(* What afina's storage promises its callers, whatever it is built from:   *)
(* a partial map from keys to values, operated on one call at a time, that *)
(* may forget any association on its own (a cache makes space), but that   *)
(* never returns a value other than the last one stored for the key, never *)
(* brings a forgotten association back, and never changes an association   *)
(* through a call that reports failure.                                    *)
(*                                                                         *)
(* The operations are the ones of include/afina/Storage.h.                 *)
(***************************************************************************)
EXTENDS Integers

CONSTANTS
  Key,        \* the keys clients use
  Value,      \* the values clients store
  KeySize,    \* [Key -> Nat], the length of a key in bytes
  ValueSize,  \* [Value -> Nat], the length of a value in bytes
  MaxSize,    \* the capacity of the storage in bytes
  None        \* no value: a miss, or an argument the operation has not got

VARIABLES
  store,      \* the associations the storage holds
  call        \* the call in progress: its arguments, later its result

vars == <<store, call>>

StoreOps == {"Put", "PutIfAbsent", "Set"}

Fits(k, v) == KeySize[k] + ValueSize[v] <= MaxSize

Absent(k) == store[k] = None

NoCall == [pc |-> "idle", op |-> "none", key |-> None, value |-> None,
           ok |-> FALSE, out |-> None]

Init ==
  /\ store = [k \in Key |-> None]
  /\ call = NoCall

(* A caller enters the storage: no two calls overlap. *)
Invoke(op, k, v) ==
  /\ call = NoCall
  /\ call' = [pc |-> "busy", op |-> op, key |-> k, value |-> v, ok |-> FALSE, out |-> None]
  /\ UNCHANGED store

Reply(ok, out) ==
  call' = [pc |-> "return", op |-> call.op, key |-> call.key, value |-> call.value,
           ok |-> ok, out |-> out]

(* A value is stored exactly when it fits and the operation's condition on *)
(* the key's presence is met: Put has none, PutIfAbsent wants the key      *)
(* absent, Set wants it present.                                           *)
Wanted(op, k) ==
  CASE op = "Put" -> TRUE
    [] op = "PutIfAbsent" -> Absent(k)
    [] op = "Set" -> ~Absent(k)

Store ==
  /\ call.pc = "busy" /\ call.op \in StoreOps
  /\ LET stored == Fits(call.key, call.value) /\ Wanted(call.op, call.key)
     IN  /\ store' = IF stored THEN [store EXCEPT ![call.key] = call.value]
                               ELSE store
         /\ Reply(stored, None)

Delete ==
  /\ call.pc = "busy" /\ call.op = "Delete"
  /\ Reply(~Absent(call.key), None)
  /\ store' = [store EXCEPT ![call.key] = None]

Get ==
  /\ call.pc = "busy" /\ call.op = "Get"
  /\ Reply(~Absent(call.key), store[call.key])
  /\ UNCHANGED store

Return ==
  /\ call.pc = "return"
  /\ call' = NoCall
  /\ UNCHANGED store

(* The cache forgets an association to make space for the one being stored. *)
Evict(k) ==
  /\ call.pc = "busy" /\ call.op \in StoreOps
  /\ ~Absent(k)
  /\ store' = [store EXCEPT ![k] = None]
  /\ UNCHANGED call

Next ==
  \/ \E op \in StoreOps, k \in Key, v \in Value : Invoke(op, k, v)
  \/ \E op \in {"Get", "Delete"}, k \in Key : Invoke(op, k, None)
  \/ Store \/ Delete \/ Get \/ Return
  \/ \E k \in Key : Evict(k)

Spec == Init /\ [][Next]_vars
=============================================================================
