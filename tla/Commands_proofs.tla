--------------------------- MODULE Commands_proofs ---------------------------
(***************************************************************************)
(* Proofs about the storage backend and about the commands that call it,   *)
(* for any sets of keys and values, any size function, any capacity and    *)
(* any number of threads.  The first part is about the backend alone       *)
(* (module MapBasedGlobalLockImpl): the invariants, the order of eviction, *)
(* and that the backend implements the contract of Storage.h; nothing in   *)
(* it uses what Commands assumes or adds to the backend.  The second part  *)
(* is about the commands: what the threads do together is what the         *)
(* storage's specification allows its callers, and what a command answers  *)
(* is what it did.                                                         *)
(***************************************************************************)
EXTENDS Commands, SequenceTheorems, TLAPS

-----------------------------------------------------------------------------
(* The inductive invariant. *)

UniqueKeys == \A i, j \in 1..Len(lru) : lru[i].key = lru[j].key => i = j

(* The list is ordered by last use, most recent first. *)
LruOrder ==
  \A i, j \in 1..Len(lru) : i < j => <<lru[i].key, lru[j].key>> \in usedAfter

(* The map has an entry for every node; once find() has gone through, and   *)
(* always when Delete is not in use, it has no others.                      *)
MapInv ==
  /\ ListedKeys \subseteq cacheMap
  /\ "Delete" \notin Ops \/ call.pc \in {"insert", "overwrite"}
       => cacheMap = ListedKeys

(* What the lock holder has established by the time it reaches each phase. *)
CallInv ==
  /\ call.pc = "idle" => call = NoCall
  /\ call.pc # "idle" => call.key \in Key /\ call.op \in Ops
  /\ call.op \in StoreOps => call.value \in Value
  /\ call.op = "none" => call.pc = "idle"
  /\ call.pc = "insert" =>
       /\ call.op \in {"Put", "PutIfAbsent"}
       /\ call.key \notin cacheMap
       /\ need = NewSize
       /\ NewSize <= MaxSize
  /\ call.pc = "overwrite" =>
       /\ call.op \in {"Put", "Set"}
       /\ NewSize <= MaxSize
       /\ lru # <<>> => lru[1].key = call.key

Inv == TypeOK /\ UniqueKeys /\ LruOrder /\ MapInv /\ CallInv

-----------------------------------------------------------------------------
(* What each operation on the list does to it. *)

(* The list is a sequence of nodes. *)
LEMMA ListType ==
  ASSUME TypeOK
  PROVE  /\ lru \in Seq(Node)
         /\ Len(lru) \in Nat
         /\ \A j \in 1..Len(lru) :
              lru[j] \in Node /\ lru[j].key \in Key /\ lru[j].value \in Value
<1>1. lru \in Seq(Node) /\ Len(lru) \in Nat /\ \A j \in 1..Len(lru) : lru[j] \in Node
  BY DEF TypeOK
<1>2. QED
  BY <1>1 DEF Node

(* splice() permutes the nodes: node n first, the others in their order. *)
LEMMA SpliceProperties ==
  ASSUME TypeOK, NEW n \in 1..Len(lru)
  PROVE  /\ Splice(n) \in Seq(Node)
         /\ Len(Splice(n)) = Len(lru)
         /\ Splice(n)[1] = lru[n]
         /\ \A j \in 1..Len(lru) :
              Splice(n)[j] = IF j = 1 THEN lru[n]
                             ELSE IF j <= n THEN lru[j - 1] ELSE lru[j]
<1>1. lru \in Seq(Node)
  BY DEF TypeOK
<1>2. \A j \in 1..Len(lru) : Splice(n)[j] \in Node
  BY <1>1 DEF Splice
<1>3. Splice(n) \in Seq(Node)
  BY <1>1, <1>2 DEF Splice
<1>4. QED
  BY <1>1, <1>3 DEF Splice

(* A key of the list has a node, and find() gives it. *)
LEMMA NodeOfProperties ==
  ASSUME TypeOK, NEW k \in ListedKeys
  PROVE  NodeOf(k) \in 1..Len(lru) /\ lru[NodeOf(k)].key = k
BY DEF ListedKeys, NodeOf

(* Splicing a node and touching its key keeps the list free of duplicates,  *)
(* ordered by last use, and with the same keys.                             *)
LEMMA SpliceKeepsList ==
  ASSUME TypeOK, UniqueKeys, LruOrder, NEW k \in ListedKeys,
         lru' = Splice(NodeOf(k)), Touch(k)
  PROVE  /\ lru' \in Seq(Node)
         /\ Len(lru') = Len(lru)
         /\ UniqueKeys' /\ LruOrder'
         /\ ListedKeys' = ListedKeys
         /\ usedAfter' \subseteq Key \X Key
         /\ lru' # <<>> /\ lru'[1] = lru[NodeOf(k)] /\ lru'[1].key = k
<1> DEFINE n == NodeOf(k)
<1>1. n \in 1..Len(lru) /\ lru[n].key = k
  BY NodeOfProperties
<1>2. /\ lru' \in Seq(Node)
      /\ Len(lru') = Len(lru)
      /\ lru'[1] = lru[n]
      /\ \A j \in 1..Len(lru) : lru'[j] = IF j = 1 THEN lru[n]
                                          ELSE IF j <= n THEN lru[j - 1] ELSE lru[j]
  BY <1>1, SpliceProperties
<1>3. lru \in Seq(Node) /\ Len(lru) \in Nat /\ \A j \in 1..Len(lru) : lru[j].key \in Key
  BY ListType
<1> DEFINE src == [j \in 1..Len(lru) |-> IF j = 1 THEN n ELSE IF j <= n THEN j - 1 ELSE j]
<1> HIDE DEF n
<1>a. /\ \A j \in 1..Len(lru) : src[j] \in 1..Len(lru)
      /\ \A i, j \in 1..Len(lru) : src[i] = src[j] => i = j
      /\ \A i, j \in 1..Len(lru) : 1 < i /\ i < j => src[i] < src[j]
      /\ src[1] = n
  BY <1>1, <1>3
<1>b. \A i \in 1..Len(lru) : \E j \in 1..Len(lru) : src[j] = i
  <2> TAKE i \in 1..Len(lru)
  <2>1. CASE i < n
    <3>1. i + 1 \in 1..Len(lru) /\ src[i + 1] = i
      BY <2>1, <1>1, <1>3
    <3>2. QED BY <3>1
  <2>2. CASE i = n
    BY <2>2, <1>1, <1>3
  <2>3. CASE i > n
    BY <2>3, <1>1, <1>3
  <2>4. QED
    BY <2>1, <2>2, <2>3, <1>1, <1>3
<1>c. \A j \in 1..Len(lru) : lru'[j] = lru[src[j]]
  BY <1>1, <1>2, <1>3
<1> HIDE DEF src
<1>4. UniqueKeys'
  BY <1>a, <1>c, <1>2, <1>3, SMTT(20) DEF UniqueKeys
<1>5. LruOrder'
  <2> SUFFICES ASSUME NEW i \in 1..Len(lru), NEW j \in 1..Len(lru), i < j
               PROVE  <<lru'[i].key, lru'[j].key>> \in usedAfter'
    BY <1>2 DEF LruOrder
  <2>1. lru'[j].key # k
    <3>1. src[j] # n
      BY <1>a, <1>3
    <3>2. src[j] \in 1..Len(lru) /\ lru'[j] = lru[src[j]]
      BY <1>a, <1>c
    <3>3. QED
      BY <3>1, <3>2, <1>1 DEF UniqueKeys
  <2>2. CASE i = 1
    <3>1. lru'[i].key = k /\ lru'[j].key \in Key
      BY <2>2, <1>1, <1>a, <1>c, <1>3
    <3>2. QED
      BY <2>1, <3>1 DEF Touch
  <2>3. CASE i # 1
    <3>1. src[i] \in 1..Len(lru) /\ src[j] \in 1..Len(lru) /\ src[i] < src[j]
      BY <2>3, <1>a, <1>3
    <3>2. <<lru[src[i]].key, lru[src[j]].key>> \in usedAfter
      BY <3>1 DEF LruOrder
    <3>3. <<lru'[i].key, lru'[j].key>> \in usedAfter
      BY <3>2, <1>c
    <3>4. QED
      BY <3>3, <2>1 DEF Touch
  <2>4. QED
    BY <2>2, <2>3
<1>6. ListedKeys' = ListedKeys
  <2>1. ASSUME NEW i \in 1..Len(lru) PROVE lru'[i].key \in ListedKeys
    BY <1>a, <1>c DEF ListedKeys
  <2>2. ASSUME NEW i \in 1..Len(lru) PROVE lru[i].key \in ListedKeys'
    <3>1. PICK j \in 1..Len(lru) : src[j] = i
      BY <1>b
    <3>2. lru'[j] = lru[i] /\ j \in 1..Len(lru')
      BY <3>1, <1>c, <1>2
    <3>3. QED
      BY <3>2 DEF ListedKeys
  <2>3. ASSUME NEW l \in ListedKeys' PROVE l \in ListedKeys
    <3>1. PICK i \in 1..Len(lru') : l = lru'[i].key
      BY DEF ListedKeys
    <3>2. QED
      BY <2>1, <3>1, <1>2
  <2>4. ASSUME NEW l \in ListedKeys PROVE l \in ListedKeys'
    <3>1. PICK i \in 1..Len(lru) : l = lru[i].key
      BY DEF ListedKeys
    <3>2. QED
      BY <2>2, <3>1
  <2>5. QED
    BY <2>3, <2>4
<1>7. usedAfter' \subseteq Key \X Key
  <2>1. k \in Key
    BY <1>1, <1>3
  <2>2. QED
    BY <2>1 DEF Touch, TypeOK
<1>8. lru' # <<>>
  BY <1>1, <1>2, <1>3
<1>9. QED
  BY <1>1, <1>2, <1>4, <1>5, <1>6, <1>7, <1>8 DEF n

(* pop_back() drops the last key and nothing else. *)
LEMMA PopBackProperties ==
  ASSUME TypeOK, UniqueKeys, LruOrder, lru # <<>>,
         lru' = PopBack, UNCHANGED usedAfter
  PROVE  /\ lru' \in Seq(Node)
         /\ Len(lru') = Len(lru) - 1
         /\ \A j \in 1..Len(lru') : lru'[j] = lru[j]
         /\ UniqueKeys' /\ LruOrder'
         /\ lru[Len(lru)] \in Node
         /\ ListedKeys' = ListedKeys \ {lru[Len(lru)].key}
<1>1. lru \in Seq(Node) /\ Len(lru) \in Nat /\ Len(lru) > 0
  BY DEF TypeOK
<1>2. \A j \in 1..Len(lru) : lru[j] \in Node
  BY <1>1
<1>3. /\ lru' \in Seq(Node)
      /\ Len(lru') = Len(lru) - 1
      /\ \A j \in 1..Len(lru) - 1 : lru'[j] = lru[j]
  BY <1>1, <1>2 DEF PopBack
<1>4. UniqueKeys' /\ LruOrder'
  BY <1>1, <1>3, SMTT(20) DEF UniqueKeys, LruOrder
<1>5. ListedKeys' = ListedKeys \ {lru[Len(lru)].key}
  BY <1>1, <1>3 DEF ListedKeys, UniqueKeys
<1>6. QED
  BY <1>1, <1>2, <1>3, <1>4, <1>5

(* push_front() of a key the list has not got, made the most recent one. *)
LEMMA PushFrontProperties ==
  ASSUME TypeOK, UniqueKeys, LruOrder, NEW k \in Key, NEW v \in Value,
         k \notin ListedKeys,
         lru' = <<[key |-> k, value |-> v]>> \o lru, Touch(k)
  PROVE  /\ lru' \in Seq(Node)
         /\ Len(lru') = Len(lru) + 1
         /\ lru'[1] = [key |-> k, value |-> v]
         /\ \A j \in 1..Len(lru) : lru'[j + 1] = lru[j]
         /\ UniqueKeys' /\ LruOrder'
         /\ ListedKeys' = ListedKeys \cup {k}
         /\ usedAfter' \subseteq Key \X Key
<1> DEFINE e == [key |-> k, value |-> v]
<1>1. /\ lru \in Seq(Node) /\ Len(lru) \in Nat
      /\ \A j \in 1..Len(lru) : lru[j].key \in Key
  BY ListType
<1>2. e \in Node /\ e.key = k
  BY DEF Node
<1> HIDE DEF e
<1>3. <<e>> \in Seq(Node) /\ Len(<<e>>) = 1 /\ <<e>>[1] = e
  BY <1>2
<1>4. /\ lru' \in Seq(Node)
      /\ Len(lru') = Len(lru) + 1
      /\ lru'[1] = e
      /\ \A j \in 2..Len(lru) + 1 : lru'[j] = lru[j - 1]
  BY <1>1, <1>3 DEF e
<1>5. \A j \in 1..Len(lru) : lru'[j + 1] = lru[j]
  BY <1>1, <1>4
<1>6. \A j \in 1..Len(lru) : lru[j].key # k
  BY DEF ListedKeys
<1>7. UniqueKeys'
  <2> SUFFICES ASSUME NEW i \in 1..Len(lru) + 1, NEW j \in 1..Len(lru) + 1,
                      lru'[i].key = lru'[j].key
               PROVE  i = j
    BY <1>4 DEF UniqueKeys
  <2>1. CASE i = 1 \/ j = 1
    BY <2>1, <1>1, <1>2, <1>4, <1>6
  <2>2. CASE i # 1 /\ j # 1
    BY <2>2, <1>1, <1>4 DEF UniqueKeys
  <2>3. QED
    BY <2>1, <2>2
<1>8. LruOrder'
  <2> SUFFICES ASSUME NEW i \in 1..Len(lru) + 1, NEW j \in 1..Len(lru) + 1, i < j
               PROVE  <<lru'[i].key, lru'[j].key>> \in usedAfter'
    BY <1>4 DEF LruOrder
  <2>1. j - 1 \in 1..Len(lru) /\ lru'[j] = lru[j - 1]
    BY <1>1, <1>4
  <2>2. lru'[j].key \in Key /\ lru'[j].key # k
    BY <2>1, <1>1, <1>6
  <2>3. CASE i = 1
    <3>1. lru'[i].key = k
      BY <2>3, <1>2, <1>4
    <3>2. QED
      BY <3>1, <2>2 DEF Touch
  <2>4. CASE i # 1
    <3>1. i - 1 \in 1..Len(lru) /\ lru'[i] = lru[i - 1] /\ i - 1 < j - 1
      BY <2>4, <1>1, <1>4
    <3>2. <<lru'[i].key, lru'[j].key>> \in usedAfter
      BY <3>1, <2>1 DEF LruOrder
    <3>3. QED
      BY <3>2, <2>2 DEF Touch
  <2>5. QED
    BY <2>3, <2>4
<1>9. ListedKeys' = ListedKeys \cup {k}
  <2>1. ASSUME NEW i \in 1..Len(lru) + 1 PROVE lru'[i].key \in ListedKeys \cup {k}
    <3>1. CASE i = 1
      BY <3>1, <1>2, <1>4
    <3>2. CASE i # 1
      <4>1. i - 1 \in 1..Len(lru) /\ lru'[i] = lru[i - 1]
        BY <3>2, <1>1, <1>4
      <4>2. QED
        BY <4>1 DEF ListedKeys
    <3>3. QED
      BY <3>1, <3>2
  <2>2. ASSUME NEW i \in 1..Len(lru) PROVE lru[i].key \in ListedKeys'
    <3>1. i + 1 \in 1..Len(lru') /\ lru'[i + 1] = lru[i]
      BY <1>1, <1>4, <1>5
    <3>2. QED
      BY <3>1 DEF ListedKeys
  <2>3. k \in ListedKeys'
    BY <1>1, <1>2, <1>4 DEF ListedKeys
  <2>4. QED
    BY <2>1, <2>2, <2>3, <1>4 DEF ListedKeys
<1>10. usedAfter' \subseteq Key \X Key
  BY DEF Touch, TypeOK
<1>11. QED
  BY <1>4, <1>5, <1>7, <1>8, <1>9, <1>10 DEF e

(* Assigning front().second changes no key and no order. *)
LEMMA OverwriteProperties ==
  ASSUME TypeOK, UniqueKeys, LruOrder, lru # <<>>, NEW v \in Value,
         lru' = [lru EXCEPT ![1].value = v], UNCHANGED usedAfter
  PROVE  /\ lru' \in Seq(Node)
         /\ Len(lru') = Len(lru)
         /\ lru'[1] = [lru[1] EXCEPT !.value = v]
         /\ \A j \in 1..Len(lru) : lru'[j].key = lru[j].key
         /\ \A j \in 2..Len(lru) : lru'[j] = lru[j]
         /\ UniqueKeys' /\ LruOrder'
         /\ ListedKeys' = ListedKeys
<1>1. /\ lru \in Seq(Node) /\ Len(lru) \in Nat
      /\ \A j \in 1..Len(lru) : lru[j] \in Node
  BY ListType
<1>2. 1 \in 1..Len(lru)
  BY <1>1
<1> DEFINE e == [lru[1] EXCEPT !.value = v]
<1>3. e \in Node /\ e.key = lru[1].key
  BY <1>1, <1>2 DEF Node
<1>4. lru' = [lru EXCEPT ![1] = e]
  OBVIOUS
<1> HIDE DEF e
<1>5. /\ lru' \in Seq(Node)
      /\ Len(lru') = Len(lru)
      /\ lru'[1] = e
      /\ \A j \in 2..Len(lru) : lru'[j] = lru[j]
  BY <1>1, <1>2, <1>3, <1>4
<1>6. \A j \in 1..Len(lru) : lru'[j].key = lru[j].key
  BY <1>1, <1>3, <1>5
<1>7. UniqueKeys' /\ LruOrder' /\ ListedKeys' = ListedKeys
  BY <1>1, <1>5, <1>6 DEF UniqueKeys, LruOrder, ListedKeys
<1>8. QED
  BY <1>5, <1>6, <1>7 DEF e

(* erase(node) drops the node's key and nothing else. *)
LEMMA EraseProperties ==
  ASSUME TypeOK, UniqueKeys, LruOrder, NEW k \in ListedKeys,
         lru' = Erase(NodeOf(k)), UNCHANGED usedAfter
  PROVE  /\ lru' \in Seq(Node)
         /\ \A j \in 1..Len(lru') : \E i \in 1..Len(lru) : lru'[j] = lru[i]
         /\ UniqueKeys' /\ LruOrder'
         /\ ListedKeys' = ListedKeys \ {k}
<1> DEFINE n == NodeOf(k)
<1>1. n \in 1..Len(lru) /\ lru[n].key = k
  BY NodeOfProperties
<1>2. /\ lru \in Seq(Node) /\ Len(lru) \in Nat
      /\ \A j \in 1..Len(lru) : lru[j] \in Node
  BY ListType
<1> DEFINE src == [j \in 1..Len(lru) - 1 |-> IF j < n THEN j ELSE j + 1]
<1> HIDE DEF n
<1>3. /\ \A j \in 1..Len(lru) - 1 : src[j] \in 1..Len(lru) /\ src[j] # n
      /\ \A i, j \in 1..Len(lru) - 1 : i < j => src[i] < src[j]
      /\ Len(lru) - 1 \in Nat
  BY <1>1, <1>2
<1>4. \A i \in 1..Len(lru) : i # n => \E j \in 1..Len(lru) - 1 : src[j] = i
  <2> SUFFICES ASSUME NEW i \in 1..Len(lru), i # n
               PROVE  \E j \in 1..Len(lru) - 1 : src[j] = i
    OBVIOUS
  <2>1. CASE i < n
    <3>1. i \in 1..Len(lru) - 1 /\ src[i] = i
      BY <2>1, <1>1, <1>2
    <3>2. QED
      BY <3>1
  <2>2. CASE i > n
    <3>1. i - 1 \in 1..Len(lru) - 1 /\ src[i - 1] = i
      BY <2>2, <1>1, <1>2
    <3>2. QED
      BY <3>1
  <2>3. QED
    BY <2>1, <2>2, <1>1, <1>2
<1>5. lru' = [j \in 1..Len(lru) - 1 |-> lru[src[j]]]
  BY DEF Erase, n
<1> HIDE DEF src
<1>6. /\ lru' \in Seq(Node)
      /\ Len(lru') = Len(lru) - 1
      /\ \A j \in 1..Len(lru) - 1 : lru'[j] = lru[src[j]]
  BY <1>2, <1>3, <1>5
<1>7. UniqueKeys'
  <2> SUFFICES ASSUME NEW i \in 1..Len(lru) - 1, NEW j \in 1..Len(lru) - 1,
                      lru'[i].key = lru'[j].key
               PROVE  i = j
    BY <1>6 DEF UniqueKeys
  <2>1. /\ src[i] \in 1..Len(lru) /\ src[j] \in 1..Len(lru)
        /\ lru[src[i]].key = lru[src[j]].key
    BY <1>3, <1>6
  <2>2. src[i] = src[j]
    BY <2>1 DEF UniqueKeys
  <2>3. QED
    BY <2>1, <2>2, <1>3
<1>8. LruOrder'
  <2> SUFFICES ASSUME NEW i \in 1..Len(lru) - 1, NEW j \in 1..Len(lru) - 1, i < j
               PROVE  <<lru'[i].key, lru'[j].key>> \in usedAfter
    BY <1>6 DEF LruOrder
  <2>1. src[i] \in 1..Len(lru) /\ src[j] \in 1..Len(lru) /\ src[i] < src[j]
    BY <1>3
  <2>2. <<lru[src[i]].key, lru[src[j]].key>> \in usedAfter
    BY <2>1 DEF LruOrder
  <2>3. QED
    BY <2>2, <1>6
<1>9. ListedKeys' = ListedKeys \ {k}
  <2>1. ASSUME NEW j \in 1..Len(lru) - 1 PROVE lru'[j].key \in ListedKeys \ {k}
    <3>1. src[j] \in 1..Len(lru) /\ src[j] # n /\ lru'[j] = lru[src[j]]
      BY <1>3, <1>6
    <3>2. lru[src[j]].key # k
      BY <3>1, <1>1 DEF UniqueKeys
    <3>3. lru[src[j]].key \in ListedKeys
      BY <3>1 DEF ListedKeys
    <3>4. QED
      BY <3>1, <3>2, <3>3
  <2>2. ASSUME NEW i \in 1..Len(lru), lru[i].key # k PROVE lru[i].key \in ListedKeys'
    <3> PICK j \in 1..Len(lru) - 1 : src[j] = i
      BY <2>2, <1>1, <1>4
    <3> QED
      BY <1>6 DEF ListedKeys
  <2>3. ListedKeys' \subseteq ListedKeys \ {k}
    BY <2>1, <1>6 DEF ListedKeys
  <2>4. ListedKeys \ {k} \subseteq ListedKeys'
    BY <2>2 DEF ListedKeys
  <2>5. QED
    BY <2>3, <2>4
<1>10. QED
  BY <1>3, <1>6, <1>7, <1>8, <1>9

-----------------------------------------------------------------------------
(* The invariant is inductive. *)

(* Reply only records the result in the call. *)
LEMMA ReplyProperties ==
  ASSUME TypeOK, CallInv, call.pc # "idle",
         NEW ok \in BOOLEAN, NEW out \in Value \cup {None}, Reply(ok, out)
  PROVE  /\ call' \in Call
         /\ call'.pc = "return" /\ call'.op = call.op /\ call'.key = call.key
         /\ call'.value = call.value /\ call'.ok = ok /\ call'.out = out
         /\ CallInv' /\ need' \in Int
<1>1. /\ call' \in Call
      /\ call'.pc = "return" /\ call'.op = call.op /\ call'.key = call.key
      /\ call'.value = call.value /\ call'.ok = ok /\ call'.out = out
  BY DEF TypeOK, Call, Reply
<1>2. CallInv' /\ need' \in Int
  BY <1>1 DEF CallInv, Reply
<1>3. QED
  BY <1>1, <1>2

(* A call that reports failure changes nothing else. *)
LEMMA RefuseInv ==
  ASSUME Inv, call.pc = "find", Refuse
  PROVE  Inv'
<1>1. call' \in Call /\ CallInv' /\ call'.pc = "return" /\ need' \in Int
  BY ReplyProperties DEF Inv, Refuse
<1>2. UniqueKeys' /\ LruOrder' /\ MapInv'
  BY <1>1 DEF Inv, Refuse, UniqueKeys, LruOrder, MapInv, ListedKeys
<1>3. TypeOK'
  BY <1>1 DEF Inv, Refuse, TypeOK
<1>4. QED
  BY <1>1, <1>2, <1>3 DEF Inv

(* The idle call is a call. *)
LEMMA NoCallType == NoCall \in Call
BY DEF NoCall, Call

(* An empty storage satisfies the invariant. *)
LEMMA InitInv == Init => Inv
<1> SUFFICES ASSUME Init PROVE Inv
  OBVIOUS
<1>1. lru \in Seq(Node) /\ Len(lru) = 0
  BY DEF Init
<1>2. TypeOK
  <2>1. need \in Int /\ current_size \in Int
    BY DEF Init
  <2>2. fault \in BOOLEAN /\ cacheMap \subseteq Key /\ usedAfter \subseteq Key \X Key
    BY Zenon DEF Init
  <2>3. QED
    BY <1>1, <2>1, <2>2, NoCallType DEF Init, TypeOK
<1>3. ListedKeys = {}
  BY <1>1 DEF ListedKeys
<1>4. QED
  BY <1>1, <1>2, <1>3
  DEF Init, Inv, UniqueKeys, LruOrder, MapInv, CallInv, NoCall, StoreOps

(* Taking the lock starts a call with well-typed arguments. *)
LEMMA LockInv ==
  ASSUME Inv, NEW op, NEW k \in Key, NEW v \in Value \cup {None},
         op \in StoreOps => v \in Value, Lock(op, k, v)
  PROVE  Inv'
<1>1. /\ call' \in Call
      /\ call'.pc = "find" /\ call'.op = op /\ call'.key = k /\ call'.value = v
  BY NoCallType DEF Lock, Call
<1>2. op # "none"
  BY StorageAssumption DEF Lock, StoreOps
<1>3. CallInv'
  BY <1>1, <1>2 DEF CallInv, Lock
<1>4. QED
  BY <1>1, <1>3 DEF Inv, Lock, TypeOK, UniqueKeys, LruOrder, MapInv, ListedKeys

(* Releasing the lock forgets the call. *)
LEMMA UnlockInv == ASSUME Inv, Unlock PROVE Inv'
<1>1. call' \in Call /\ call'.pc = "idle" /\ call'.op = "none"
  BY DEF Unlock, NoCall, Call
<1>2. CallInv'
  BY <1>1 DEF CallInv, Unlock, StoreOps
<1>3. QED
  BY <1>1, <1>2 DEF Inv, Unlock, TypeOK, UniqueKeys, LruOrder, MapInv, ListedKeys

(* Steps that only set `fault`, and SetNewCurrentSize, which only sets the   *)
(* counter.                                                                  *)
LEMMA FaultInv ==
  ASSUME Inv, UNCHANGED <<lru, cacheMap, call, need, usedAfter>>,
         fault' \in BOOLEAN, current_size' \in Int
  PROVE  Inv'
BY DEF Inv, TypeOK, UniqueKeys, LruOrder, MapInv, CallInv, ListedKeys, NewSize

(* One turn of FreeSpace's loop drops the same key from list and map. *)
LEMMA EvictInv == ASSUME Inv, FreeSpaceEvict PROVE Inv'
<1>1. /\ lru' \in Seq(Node)
      /\ Len(lru') = Len(lru) - 1
      /\ \A j \in 1..Len(lru') : lru'[j] = lru[j]
      /\ UniqueKeys' /\ LruOrder'
      /\ lru[Len(lru)] \in Node
      /\ ListedKeys' = ListedKeys \ {lru[Len(lru)].key}
  BY PopBackProperties DEF Inv, FreeSpaceEvict
<1>2. cacheMap' = cacheMap \ {lru[Len(lru)].key} /\ cacheMap = ListedKeys
  BY DEF FreeSpaceEvict, Freeing, Inv, MapInv
<1>3. current_size' \in Int
  <2>1. lru[Len(lru)].key \in Key /\ lru[Len(lru)].value \in Value
    BY <1>1 DEF Node
  <2>2. ItemSize(lru[Len(lru)].key, lru[Len(lru)].value) \in Int
    BY <2>1, StorageAssumption DEF ItemSize
  <2>3. QED
    BY <2>2 DEF FreeSpaceEvict, Inv, TypeOK
<1>4. TypeOK'
  BY <1>1, <1>2, <1>3 DEF FreeSpaceEvict, Inv, TypeOK
<1>5. MapInv'
  BY <1>1, <1>2 DEF MapInv
<1>6. CallInv'
  <2>1. lru' # <<>> => lru'[1] = lru[1]
    BY <1>1
  <2>2. QED
    BY <1>2, <2>1 DEF FreeSpaceEvict, Inv, CallInv, NewSize
<1>7. QED
  BY <1>1, <1>4, <1>5, <1>6 DEF Inv

(* The size of an item is a number, and so are the sizes a call computes. *)
LEMMA NewSizeType ==
  ASSUME Inv, call.op \in StoreOps
  PROVE  NewSize \in Nat
<1>1. call.key \in Key /\ call.value \in Value
  BY DEF Inv, CallInv, StoreOps, NoCall
<1>2. QED
  BY <1>1, StorageAssumption DEF NewSize, ItemSize

(* Put and PutIfAbsent of an absent key go on to FreeSpace. *)
LEMMA PutAbsentInv ==
  ASSUME Inv, NEW op \in {"Put", "PutIfAbsent"}, PutAbsent(op)
  PROVE  Inv'
<1>1. /\ call' \in Call
      /\ call'.pc = "insert" /\ call'.op = call.op /\ call'.key = call.key
      /\ call'.value = call.value
  BY DEF PutAbsent, Inv, TypeOK, Call
<1>2. call.op \in StoreOps /\ call.op = op /\ call.pc = "find"
  BY DEF PutAbsent, At, StoreOps
<1>3. NewSize \in Nat
  BY <1>2, NewSizeType
<1>4. CallInv'
  BY <1>1, <1>2, <1>3 DEF PutAbsent, Found, Inv, CallInv, NewSize
<1>5. MapInv' /\ UniqueKeys' /\ LruOrder'
  BY <1>1 DEF PutAbsent, At, Dangling, Inv, MapInv, ListedKeys, UniqueKeys, LruOrder
<1>6. TypeOK'
  BY <1>1, <1>3 DEF PutAbsent, Inv, TypeOK
<1>7. QED
  BY <1>4, <1>5, <1>6 DEF Inv

(* emplace_front and the map insertion add the same key. *)
LEMMA InsertInv == ASSUME Inv, Insert PROVE Inv'
<1>1. /\ call.pc = "insert" /\ call.op \in StoreOps
      /\ call.key \in Key /\ call.value \in Value
      /\ call.key \notin cacheMap /\ cacheMap = ListedKeys
  BY DEF Insert, FreeSpaceDone, Inv, CallInv, MapInv, StoreOps
<1>2. /\ lru' \in Seq(Node)
      /\ UniqueKeys' /\ LruOrder'
      /\ ListedKeys' = ListedKeys \cup {call.key}
      /\ usedAfter' \subseteq Key \X Key
  BY <1>1, PushFrontProperties DEF Insert, Inv
<1>3. call' \in Call /\ call'.pc = "return" /\ CallInv' /\ need' \in Int
  BY <1>1, ReplyProperties DEF Insert, Inv
<1>4. NewSize \in Nat
  BY <1>1, NewSizeType
<1>5. TypeOK'
  BY <1>1, <1>2, <1>3, <1>4 DEF Insert, Inv, TypeOK
<1>6. MapInv'
  BY <1>1, <1>2 DEF Insert, MapInv
<1>7. QED
  BY <1>2, <1>3, <1>5, <1>6 DEF Inv

(* Put and Set of a present key bring its node to the front. *)
LEMMA PresentInv ==
  ASSUME Inv, NEW op \in {"Put", "Set"}, Present(op)
  PROVE  Inv'
<1>1. /\ call.op = op /\ call.op \in StoreOps /\ call.pc = "find"
      /\ call.key \in Key /\ call.key \in ListedKeys /\ cacheMap = ListedKeys
  BY DEF Present, At, Found, Dangling, Inv, CallInv, StoreOps
<1>2. /\ call' \in Call
      /\ call'.pc = "overwrite" /\ call'.op = call.op /\ call'.key = call.key
      /\ call'.value = call.value
  BY DEF Present, Inv, TypeOK, Call
<1>3. /\ lru' \in Seq(Node)
      /\ UniqueKeys' /\ LruOrder'
      /\ ListedKeys' = ListedKeys
      /\ usedAfter' \subseteq Key \X Key
      /\ lru'[1].key = call.key
  BY <1>1, SpliceKeepsList DEF Present, Inv
<1>4. NewSize \in Nat
  BY <1>1, NewSizeType
<1>5. OldSize \in Nat
  <2>1. NodeOf(call.key) \in 1..Len(lru)
    BY <1>1, NodeOfProperties DEF Inv
  <2>2. lru[NodeOf(call.key)].value \in Value
    BY <2>1, ListType DEF Inv
  <2>3. QED
    BY <1>1, <2>2, StorageAssumption DEF OldSize, ItemSize
<1>6. TypeOK'
  BY <1>2, <1>3, <1>4, <1>5 DEF Present, Inv, TypeOK
<1>7. MapInv'
  BY <1>1, <1>3 DEF Present, MapInv
<1>8. CallInv'
  BY <1>1, <1>2, <1>3, <1>4 DEF Present, Inv, CallInv, NewSize
<1>9. QED
  BY <1>3, <1>6, <1>7, <1>8 DEF Inv

(* The assignment at the end of Put and of Set, whatever it does to the     *)
(* counter.                                                                 *)
LEMMA OverwriteInv ==
  ASSUME Inv, call.pc = "overwrite", lru # <<>>,
         lru' = [lru EXCEPT ![1].value = call.value],
         UNCHANGED <<cacheMap, fault, usedAfter>>,
         current_size' \in Int, Reply(TRUE, None)
  PROVE  Inv'
<1>1. call.op \in StoreOps /\ call.value \in Value
  BY DEF Inv, CallInv, StoreOps
<1>2. lru' \in Seq(Node) /\ UniqueKeys' /\ LruOrder' /\ ListedKeys' = ListedKeys
  BY <1>1, OverwriteProperties DEF Inv
<1>3. call' \in Call /\ call'.pc = "return" /\ CallInv' /\ need' \in Int
  BY ReplyProperties DEF Inv
<1>4. TypeOK'
  BY <1>2, <1>3 DEF Inv, TypeOK
<1>5. MapInv'
  BY <1>2 DEF Inv, MapInv
<1>6. QED
  BY <1>2, <1>3, <1>4, <1>5 DEF Inv

(* Set's assignment, with its update of the counter. *)
LEMMA SetOverwriteInv == ASSUME Inv, SetOverwrite PROVE Inv'
<1>1. call.pc = "overwrite" /\ call.op \in StoreOps
  BY DEF SetOverwrite, FreeSpaceDone, StoreOps
<1>2. NewSize \in Nat
  BY <1>1, NewSizeType
<1>3. ValueSize[lru[1].value] \in Nat
  <2>1. 1 \in 1..Len(lru)
    BY ListType DEF SetOverwrite, Inv
  <2>2. QED
    BY <2>1, ListType, StorageAssumption DEF Inv
<1>4. current_size' \in Int
  BY <1>2, <1>3 DEF SetOverwrite, Inv, TypeOK
<1>5. QED
  BY <1>1, <1>4, OverwriteInv DEF SetOverwrite

(* Delete frees a node whose map entry may stay behind. *)
LEMMA DeleteInv == ASSUME Inv, Delete PROVE Inv'
<1>1. call.pc = "find" /\ call.op = "Delete" /\ call.key \in Key
  BY DEF Delete, At, Inv, CallInv
<1>2. CASE ~Found /\ Refuse
  BY <1>1, <1>2, RefuseInv
<1>3. CASE /\ Found
           /\ lru' = Erase(NodeOf(call.key))
           /\ cacheMap' \in {cacheMap \ {call.key}, cacheMap}
           /\ Reply(TRUE, None)
           /\ UNCHANGED <<current_size, fault, usedAfter>>
  <2>1. call.key \in ListedKeys /\ cacheMap = ListedKeys
    BY <1>3 DEF Delete, At, Found, Dangling
  <2>2. /\ lru' \in Seq(Node)
        /\ UniqueKeys' /\ LruOrder'
        /\ ListedKeys' = ListedKeys \ {call.key}
    BY <1>3, <2>1, EraseProperties DEF Inv
  <2>3. call' \in Call /\ call'.pc = "return" /\ CallInv' /\ need' \in Int
    BY <1>1, <1>3, ReplyProperties DEF Inv
  <2>4. TypeOK'
    BY <1>3, <2>2, <2>3 DEF Inv, TypeOK
  <2>5. "Delete" \in Ops
    BY <1>1 DEF Inv, CallInv
  <2>6. MapInv'
    BY <1>3, <2>1, <2>2, <2>3, <2>5 DEF MapInv
  <2>7. QED
    BY <2>2, <2>3, <2>4, <2>6 DEF Inv
<1>4. QED
  BY <1>2, <1>3 DEF Delete

(* Get brings the node it read to the front. *)
LEMMA GetInv == ASSUME Inv, Get PROVE Inv'
<1>1. call.pc = "find" /\ call.op = "Get" /\ call.key \in Key
  BY DEF Get, At, Inv, CallInv
<1>2. CASE ~Found /\ Refuse
  BY <1>1, <1>2, RefuseInv
<1>3. CASE /\ Found
           /\ lru' = Splice(NodeOf(call.key))
           /\ Touch(call.key)
           /\ Reply(TRUE, lru'[1].value)
           /\ UNCHANGED <<cacheMap, current_size, fault>>
  <2>1. call.key \in ListedKeys /\ cacheMap = ListedKeys
    BY <1>3 DEF Get, At, Found, Dangling
  <2>2. /\ lru' \in Seq(Node)
        /\ UniqueKeys' /\ LruOrder'
        /\ ListedKeys' = ListedKeys
        /\ usedAfter' \subseteq Key \X Key
        /\ lru'[1] = lru[NodeOf(call.key)]
    BY <1>3, <2>1, SpliceKeepsList DEF Inv
  <2>3. lru'[1].value \in Value
    BY <2>1, <2>2, NodeOfProperties, ListType DEF Inv
  <2>4. call' \in Call /\ call'.pc = "return" /\ CallInv' /\ need' \in Int
    BY <1>1, <1>3, <2>3, ReplyProperties DEF Inv
  <2>5. TypeOK'
    BY <1>3, <2>2, <2>4 DEF Inv, TypeOK
  <2>6. MapInv'
    BY <1>3, <2>1, <2>2 DEF MapInv
  <2>7. QED
    BY <2>2, <2>4, <2>5, <2>6 DEF Inv
<1>4. QED
  BY <1>2, <1>3 DEF Get

(* Every step of the call in progress preserves the invariant. *)
LEMMA StepInv == ASSUME Inv, Step PROVE Inv'
<1>1. CASE FindDangling \/ FreeSpaceEmpty \/ OverwriteEmpty
  <2>1. fault' \in BOOLEAN
    BY <1>1, Zenon DEF FindDangling, FreeSpaceEmpty, OverwriteEmpty
  <2>2. current_size' \in Int
    BY <1>1 DEF FindDangling, FreeSpaceEmpty, OverwriteEmpty, Inv, TypeOK
  <2>3. UNCHANGED <<lru, cacheMap, call, need, usedAfter>>
    BY <1>1 DEF FindDangling, FreeSpaceEmpty, OverwriteEmpty
  <2>4. QED
    BY <2>1, <2>2, <2>3, FaultInv
<1>2. CASE TooLarge
  BY <1>2, RefuseInv DEF TooLarge, At
<1>3. CASE Put
  BY <1>3, PutAbsentInv, PresentInv DEF Put
<1>4. CASE PutIfAbsent
  BY <1>4, PutAbsentInv, RefuseInv DEF PutIfAbsent, At
<1>5. CASE Set
  BY <1>5, PresentInv, RefuseInv DEF Set, At
<1>6. CASE PutOverwrite
  <2>1. current_size' \in Int
    BY <1>6 DEF PutOverwrite, Inv, TypeOK
  <2>2. QED
    BY <1>6, <2>1, OverwriteInv DEF PutOverwrite, FreeSpaceDone
<1>7. QED
  BY <1>1, <1>2, <1>3, <1>4, <1>5, <1>6, DeleteInv, GetInv, EvictInv, InsertInv,
     SetOverwriteInv DEF Step

(* Every step preserves the invariant, stuttering included. *)
LEMMA NextInv == ASSUME Inv, [Next]_vars PROVE Inv'
<1>1. CASE \E op \in StoreOps, k \in Key, v \in Value : Lock(op, k, v)
  BY <1>1, LockInv
<1>2. CASE \E op \in {"Get", "Delete"}, k \in Key : Lock(op, k, None)
  BY <1>2, LockInv DEF StoreOps
<1>3. CASE Step
  BY <1>3, StepInv
<1>4. CASE Unlock
  BY <1>4, UnlockInv
<1>5. CASE \E n \in NewSizes : SetNewCurrentSize(n)
  <2>1. current_size' \in Int
    BY <1>5, StorageAssumption DEF SetNewCurrentSize
  <2>2. QED
    BY <1>5, <2>1, FaultInv DEF SetNewCurrentSize, Inv, TypeOK
<1>6. CASE UNCHANGED vars
  BY <1>6, FaultInv DEF vars, Inv, TypeOK
<1>7. QED
  BY <1>1, <1>2, <1>3, <1>4, <1>5, <1>6 DEF Next

(* The inductive invariant holds in every reachable state. *)
THEOREM Invariance == Spec => []Inv
<1>1. Inv /\ [Next]_vars => Inv'
  BY NextInv
<1>2. QED
  BY InitInv, <1>1, PTL DEF Spec

(* The list, the map, the counter and the call always have their types. *)
THEOREM TypeCorrect == Spec => []TypeOK
<1>1. Inv => TypeOK
  BY DEF Inv
<1>2. QED
  BY Invariance, <1>1, PTL

(* No key ever has two nodes and no node is ever unreachable through the     *)
(* map; without Delete no map entry outlives its node.                       *)
THEOREM MapAlwaysMatchesList == Spec => []MapMatchesList
<1>1. Inv => MapMatchesList
  BY DEF Inv, MapMatchesList, UniqueKeys, MapInv, Dangling
<1>2. QED
  BY Invariance, <1>1, PTL

-----------------------------------------------------------------------------
(* FreeSpace evicts in least-recently-used order. *)

(* Only FreeSpace and Delete take a key out of the map. *)
LEMMA MapShrinks ==
  ASSUME Inv, [Next]_vars, call.op # "Delete", ~FreeSpaceEvict
  PROVE  cacheMap \subseteq cacheMap'
BY DEF Next, Lock, Step, Unlock, SetNewCurrentSize, FindDangling, TooLarge, Refuse, Put,
       PutIfAbsent, Set, PutAbsent, Present, Delete, At, Get, FreeSpaceEmpty, Insert,
       PutOverwrite, SetOverwrite, OverwriteEmpty, vars

(* A key that leaves the map other than by Delete was last used before every *)
(* key that stays.                                                           *)
THEOREM EvictionOrder == Spec => EvictsLeastRecent
<1> DEFINE Order == call.op # "Delete" =>
             \A k \in cacheMap \ cacheMap', l \in cacheMap' : <<l, k>> \in usedAfter
<1>1. ASSUME Inv, [Next]_vars PROVE Order
  <2> SUFFICES ASSUME call.op # "Delete",
                      NEW k \in cacheMap \ cacheMap', NEW l \in cacheMap'
               PROVE  <<l, k>> \in usedAfter
    OBVIOUS
  <2>1. FreeSpaceEvict
    BY <1>1, MapShrinks
  <2>2. /\ k = lru[Len(lru)].key
        /\ l \in cacheMap /\ l # k
        /\ cacheMap = ListedKeys
    BY <1>1, <2>1 DEF FreeSpaceEvict, Freeing, Inv, MapInv
  <2>3. PICK i \in 1..Len(lru) : l = lru[i].key
    BY <2>2 DEF ListedKeys
  <2>4. i # Len(lru) /\ Len(lru) \in 1..Len(lru) /\ i < Len(lru)
    BY <1>1, <2>2, <2>3, ListType DEF Inv
  <2>5. QED
    BY <1>1, <2>2, <2>3, <2>4 DEF Inv, LruOrder
<1>2. Inv /\ [Next]_vars => [Order]_vars
  BY <1>1
<1>3. QED
  BY Invariance, <1>2, PTL DEF Spec, EvictsLeastRecent

-----------------------------------------------------------------------------
(* The byte counter. *)

(* Without Set and SetNewCurrentSize a step raises the counter only by an    *)
(* item FreeSpace has made room for.                                         *)
LEMMA CounterStep ==
  ASSUME Inv, [Next]_vars, Ops \cap {"Set", "SetNewCurrentSize"} = {},
         current_size <= MaxSize
  PROVE  current_size' <= MaxSize
<1>1. CASE Insert
  BY <1>1, StorageAssumption
  DEF Insert, FreeSpaceDone, OverBudget, Inv, TypeOK, CallInv
<1>2. CASE FreeSpaceEvict
  <2>1. Len(lru) \in 1..Len(lru)
    BY <1>2, ListType DEF FreeSpaceEvict, Inv
  <2>2. ItemSize(lru[Len(lru)].key, lru[Len(lru)].value) \in Nat
    BY <2>1, ListType, StorageAssumption DEF ItemSize, Inv
  <2>3. QED
    BY <1>2, <2>2, StorageAssumption DEF FreeSpaceEvict, Inv, TypeOK
<1>3. CASE SetOverwrite
  BY <1>3 DEF SetOverwrite, FreeSpaceDone, Inv, CallInv
<1>4. CASE ~Insert /\ ~FreeSpaceEvict /\ ~SetOverwrite
  <2>1. UNCHANGED current_size
    BY <1>4 DEF Next, Lock, Step, Unlock, SetNewCurrentSize, FindDangling, TooLarge,
       Refuse, Put, PutIfAbsent, Set, PutAbsent, Present, Delete, Get, FreeSpaceEmpty,
       PutOverwrite, OverwriteEmpty, vars
  <2>2. QED
    BY <2>1
<1>5. QED
  BY <1>1, <1>2, <1>3, <1>4

(* The counter stays within _max_size for callers of Put, PutIfAbsent, Get   *)
(* and Delete, although Put leaves it stale whenever it overwrites.          *)
THEOREM CounterBounded == Spec => []CounterWithinMax
<1>1. Init => CounterWithinMax
  BY StorageAssumption DEF Init, CounterWithinMax
<1>2. Inv /\ CounterWithinMax /\ [Next]_vars => CounterWithinMax'
  BY CounterStep DEF CounterWithinMax
<1>3. QED
  BY Invariance, <1>1, <1>2, PTL DEF Spec

-----------------------------------------------------------------------------
(* Items of one size. *)

Uniform == UniformItems /\ Ops \subseteq {"Put", "PutIfAbsent", "Get"}

(* The counter is exact, FreeSpace has nothing to free when a value of the   *)
(* same size is overwritten, and so the node being overwritten stays.        *)
UniformInv ==
  Uniform =>
    /\ ~fault
    /\ \A k \in Key, v \in Value : current_size = Len(lru) * ItemSize(k, v)
    /\ call.pc = "overwrite" => need = 0 /\ lru # <<>>

(* One node more or less is one item size more or less. *)
LEMMA Distribute ==
  ASSUME NEW n \in Int, NEW u \in Int
  PROVE  (n + 1) * u = n * u + u /\ (n - 1) * u = n * u - u
BY SMT

(* FreeSpace never reaches an empty list, and no entry dangles. *)
LEMMA UniformNoFault ==
  ASSUME Inv, UniformInv, Uniform, CounterWithinMax, [Next]_vars
  PROVE  ~fault'
<1>1. current_size <= MaxSize
  BY DEF Uniform, CounterWithinMax
<1>2. ~FindDangling
  BY DEF FindDangling, Dangling, Inv, MapInv, Uniform
<1>3. ~OverwriteEmpty
  BY DEF OverwriteEmpty, FreeSpaceDone, UniformInv
<1>4. ~FreeSpaceEmpty
  <2> SUFFICES ASSUME FreeSpaceEmpty PROVE FALSE
    OBVIOUS
  <2>1. call.pc = "insert" /\ lru = <<>> /\ Len(lru) = 0
    BY <1>1, StorageAssumption
    DEF FreeSpaceEmpty, Freeing, OverBudget, UniformInv, Inv, TypeOK
  <2>2. call.key \in Key /\ call.value \in Value /\ need = NewSize /\ NewSize <= MaxSize
    BY <2>1 DEF Inv, CallInv, StoreOps
  <2>3. ItemSize(call.key, call.value) \in Nat
    BY <2>2, StorageAssumption DEF ItemSize
  <2>4. current_size = 0 * ItemSize(call.key, call.value)
    BY <2>1, <2>2 DEF UniformInv
  <2>5. QED
    BY <2>2, <2>3, <2>4, StorageAssumption DEF FreeSpaceEmpty, OverBudget, NewSize
<1>5. QED
  BY <1>2, <1>3, <1>4
  DEF UniformInv, Next, Lock, Step, Unlock, SetNewCurrentSize, TooLarge, Refuse, Put,
      PutIfAbsent, Set, PutAbsent, Present, Delete, Get, FreeSpaceEvict, Insert,
      PutOverwrite, SetOverwrite, vars

(* The counter is the number of nodes times the item size. *)
LEMMA UniformCounter ==
  ASSUME Inv, UniformInv, Uniform, [Next]_vars, NEW k \in Key, NEW v \in Value
  PROVE  current_size' = Len(lru') * ItemSize(k, v)
<1>0. /\ current_size = Len(lru) * ItemSize(k, v)
      /\ ItemSize(k, v) \in Nat /\ Len(lru) \in Nat
  BY StorageAssumption, ListType DEF UniformInv, ItemSize, Inv
<1>1. CASE Insert
  <2>1. call.key \in Key /\ call.value \in Value
    BY <1>1 DEF Insert, FreeSpaceDone, Inv, CallInv, StoreOps
  <2>2. NewSize = ItemSize(k, v)
    BY <2>1 DEF Uniform, UniformItems, NewSize
  <2>3. Len(lru') = Len(lru) + 1
    BY <1>1, <2>1, PushFrontProperties DEF Insert, Inv
  <2>4. QED
    BY <1>0, <1>1, <2>2, <2>3, Distribute DEF Insert
<1>2. CASE FreeSpaceEvict
  <2>1. Len(lru) \in 1..Len(lru)
    BY <1>2, ListType DEF FreeSpaceEvict, Inv
  <2>2. ItemSize(lru[Len(lru)].key, lru[Len(lru)].value) = ItemSize(k, v)
    BY <2>1, ListType DEF Inv, Uniform, UniformItems
  <2>3. Len(lru') = Len(lru) - 1
    BY <1>2, PopBackProperties DEF FreeSpaceEvict, Inv
  <2>4. QED
    BY <1>0, <1>2, <2>2, <2>3, Distribute DEF FreeSpaceEvict
<1>3. CASE ~Insert /\ ~FreeSpaceEvict
  <2>1. UNCHANGED current_size
    BY <1>3 DEF Next, Lock, Step, Unlock, SetNewCurrentSize, FindDangling, TooLarge,
       Refuse, Put, PutIfAbsent, Set, PutAbsent, Present, Delete, Get, FreeSpaceEmpty,
       PutOverwrite, SetOverwrite, FreeSpaceDone, OverwriteEmpty, vars, Inv, CallInv, Uniform
  <2>2. Len(lru') = Len(lru)
    <3>1. CASE UNCHANGED lru
      BY <3>1
    <3>2. CASE Put \/ Set \/ Get
      <4>1. UNCHANGED lru \/ (lru' = Splice(NodeOf(call.key)) /\ Found /\ ~Dangling)
        BY <3>2 DEF Put, Set, Get, PutAbsent, Present, Refuse, At
      <4>2. Found /\ ~Dangling => NodeOf(call.key) \in 1..Len(lru)
        BY NodeOfProperties DEF Found, Dangling, Inv
      <4>3. QED
        BY <4>1, <4>2, SpliceProperties DEF Inv
    <3>3. CASE PutOverwrite \/ SetOverwrite
      <4>1. call.value \in Value /\ lru # <<>> /\ lru' = [lru EXCEPT ![1].value = call.value]
        BY <3>3 DEF PutOverwrite, SetOverwrite, FreeSpaceDone, Inv, CallInv, StoreOps
      <4>2. QED
        BY <4>1, OverwriteProperties DEF Inv
    <3>4. CASE Delete
      BY <3>4 DEF Delete, At, Inv, CallInv, Uniform
    <3>5. QED
      BY <1>3, <3>1, <3>2, <3>3, <3>4
      DEF Next, Lock, Step, Unlock, SetNewCurrentSize, FindDangling, TooLarge, Refuse,
          PutIfAbsent, PutAbsent, FreeSpaceEmpty, OverwriteEmpty, vars
  <2>3. QED
    BY <1>0, <2>1, <2>2
<1>4. QED
  BY <1>1, <1>2, <1>3

(* Overwriting a value of the same size frees nothing. *)
LEMMA UniformOverwrite ==
  ASSUME Inv, UniformInv, Uniform, CounterWithinMax, [Next]_vars, call'.pc = "overwrite"
  PROVE  need' = 0 /\ lru' # <<>>
<1>1. CASE \E op \in {"Put", "Set"} : Present(op)
  <2>1. PICK op \in {"Put", "Set"} : Present(op)
    BY <1>1
  <2>2. /\ call.key \in Key /\ call.value \in Value
        /\ call.key \in ListedKeys
    BY <2>1 DEF Present, At, Found, Dangling, Inv, CallInv, StoreOps
  <2>3. NodeOf(call.key) \in 1..Len(lru)
    BY <2>2, NodeOfProperties DEF Inv
  <2>4. lru[NodeOf(call.key)].value \in Value
    BY <2>3, ListType DEF Inv
  <2>5. NewSize = OldSize
    BY <2>2, <2>4 DEF Uniform, UniformItems, NewSize, OldSize
  <2>6. NewSize \in Nat
    BY <2>2, StorageAssumption DEF NewSize, ItemSize
  <2>7. need' = 0
    BY <2>1, <2>5, <2>6 DEF Present
  <2>8. Len(lru') # 0
    BY <2>1, <2>3, SpliceProperties, ListType DEF Present, Inv
  <2>9. QED
    BY <2>7, <2>8
<1>2. CASE FreeSpaceEvict
  <2>1. call.pc = "overwrite" /\ need = 0
    BY <1>2 DEF FreeSpaceEvict, UniformInv
  <2>2. QED
    BY <1>2, <2>1, StorageAssumption
    DEF FreeSpaceEvict, OverBudget, Uniform, CounterWithinMax, Inv, TypeOK
<1>3. CASE ~FreeSpaceEvict /\ ~(\E op \in {"Put", "Set"} : Present(op))
  <2>1. CASE \E op \in StoreOps \cup {"Get", "Delete"}, k \in Key, v \in Value \cup {None} :
               Lock(op, k, v)
    BY <2>1 DEF Lock, NoCall
  <2>2. CASE Unlock
    BY <2>2 DEF Unlock, NoCall
  <2>3. CASE UNCHANGED <<call, need, lru>>
    BY <2>3 DEF UniformInv
  <2>4. CASE \E op \in {"Put", "PutIfAbsent"} : PutAbsent(op)
    BY <2>4 DEF PutAbsent, Inv, TypeOK, Call
  <2>5. CASE Insert \/ PutOverwrite \/ SetOverwrite \/ Delete \/ Get \/ TooLarge
    <3>1. call'.pc = "return"
      BY <2>5 DEF Insert, PutOverwrite, SetOverwrite, Delete, Get, TooLarge, Refuse, Reply,
                  Inv, TypeOK, Call
    <3>2. QED
      BY <3>1
  <2>6. CASE PutIfAbsent \/ Set
    <3>1. PutAbsent("PutIfAbsent") \/ call'.pc = "return"
      BY <1>3, <2>6 DEF PutIfAbsent, Set, Refuse, Reply, Inv, TypeOK, Call
    <3>2. QED
      BY <2>4, <3>1
  <2>7. QED
    BY <1>3, <2>1, <2>2, <2>3, <2>4, <2>5, <2>6
    DEF Next, Step, SetNewCurrentSize, FindDangling, Put, FreeSpaceEmpty,
        OverwriteEmpty, vars
<1>4. QED
  BY <1>1, <1>2, <1>3

(* With items of one size, as the repository's own storage tests use, the    *)
(* storage is never driven into undefined behaviour and never holds more     *)
(* than _max_size bytes.                                                     *)
THEOREM UniformSafety == Spec => []UniformItemsAreSafe
<1>1. Init => UniformInv
  <2> SUFFICES ASSUME Init PROVE UniformInv
    OBVIOUS
  <2>1. ASSUME NEW k \in Key, NEW v \in Value
        PROVE  current_size = Len(lru) * ItemSize(k, v)
    <3>1. ItemSize(k, v) \in Nat
      BY StorageAssumption DEF ItemSize
    <3>2. QED
      BY <3>1 DEF Init
  <2>2. ~fault /\ call.pc = "idle"
    BY DEF Init, NoCall
  <2>3. QED
    BY <2>1, <2>2 DEF UniformInv
<1>2. Inv /\ UniformInv /\ CounterWithinMax /\ [Next]_vars => UniformInv'
  <2> SUFFICES ASSUME Inv, UniformInv, CounterWithinMax, [Next]_vars, Uniform
               PROVE  /\ ~fault'
                      /\ \A k \in Key, v \in Value :
                           current_size' = Len(lru') * ItemSize(k, v)
                      /\ call'.pc = "overwrite" => need' = 0 /\ lru' # <<>>
    BY DEF UniformInv, Uniform, UniformItems, ItemSize
  <2>1. QED
    BY UniformNoFault, UniformCounter, UniformOverwrite
<1>3. UniformInv /\ CounterWithinMax => UniformItemsAreSafe
  BY DEF UniformInv, CounterWithinMax, UniformItemsAreSafe, Uniform
<1>4. QED
  BY Invariance, CounterBounded, <1>1, <1>2, <1>3, PTL DEF Spec

-----------------------------------------------------------------------------
(* The storage backend implements the contract of Storage.h: every step of   *)
(* it is a step of CacheContract, or changes neither the associations nor    *)
(* what the caller can see of the call.                                      *)

(* What the refinement mapping reads off the list. *)
StoreFacts ==
  /\ \A k \in Key \ ListedKeys : ContractStore[k] = None
  /\ \A k \in ListedKeys : k \in Key /\ ContractStore[k] \in Value /\ ContractStore[k] # None
  /\ \A i \in 1..Len(lru) : ContractStore[lru[i].key] = lru[i].value

(* The abstract association of a key is the value in its node, if any. *)
LEMMA StoreOfList == Inv => StoreFacts
<1> SUFFICES ASSUME Inv PROVE StoreFacts
  OBVIOUS
<1>1. \A k \in Key \ ListedKeys : ContractStore[k] = None
  BY DEF ContractStore
<1>2. ASSUME NEW i \in 1..Len(lru)
      PROVE  ContractStore[lru[i].key] = lru[i].value
  <2>1. lru[i].key \in Key /\ lru[i].key \in ListedKeys
    BY ListType DEF Inv, ListedKeys
  <2>2. NodeOf(lru[i].key) \in 1..Len(lru) /\ lru[NodeOf(lru[i].key)].key = lru[i].key
    BY <2>1, NodeOfProperties DEF Inv
  <2>3. NodeOf(lru[i].key) = i
    BY <2>2 DEF Inv, UniqueKeys
  <2>4. QED
    BY <2>1, <2>3 DEF ContractStore
<1>3. ASSUME NEW k \in ListedKeys
      PROVE  k \in Key /\ ContractStore[k] \in Value /\ ContractStore[k] # None
  <2>1. PICK i \in 1..Len(lru) : lru[i].key = k
    BY DEF ListedKeys
  <2>2. QED
    BY <2>1, <1>2, ListType, StorageAssumption DEF Inv
<1>4. QED
  BY <1>1, <1>2, <1>3 DEF StoreFacts

(* The same, in the state after a step. *)
LEMMA StoreOfNextList == Inv' => StoreFacts'
BY StoreOfList, PTL

(* The mapping yields a function on the keys, before and after a step. *)
LEMMA StoreDomain ==
  /\ ContractStore = [k \in Key |-> ContractStore[k]]
  /\ ContractStore' = [k \in Key |-> ContractStore'[k]]
BY DEF ContractStore

(* A step that leaves the nodes' keys and values as they are leaves the      *)
(* abstract store as it is.                                                  *)
LEMMA SameNodes ==
  ASSUME Inv, Inv', ListedKeys' = ListedKeys,
         \A j \in 1..Len(lru') : \E i \in 1..Len(lru) : lru'[j] = lru[i]
  PROVE  ContractStore' = ContractStore
<1>1. StoreFacts /\ StoreFacts'
  BY StoreOfList, StoreOfNextList
<1>2. ASSUME NEW k \in Key PROVE ContractStore'[k] = ContractStore[k]
  <2>1. CASE k \notin ListedKeys
    BY <1>1, <2>1 DEF StoreFacts
  <2>2. CASE k \in ListedKeys
    <3>1. PICK j \in 1..Len(lru') : lru'[j].key = k
      BY <2>2 DEF ListedKeys
    <3>2. PICK i \in 1..Len(lru) : lru'[j] = lru[i]
      OBVIOUS
    <3>3. QED
      BY <1>1, <3>1, <3>2 DEF StoreFacts
  <2>3. QED
    BY <2>1, <2>2
<1>3. QED
  BY <1>2, StoreDomain

(* A step that gives one key the value v and keeps the other nodes updates   *)
(* the abstract store at that key.                                           *)
LEMMA NodeStored ==
  ASSUME Inv, Inv', NEW k \in Key, NEW v, ListedKeys' = ListedKeys \cup {k},
         \A j \in 1..Len(lru') :
            IF lru'[j].key = k THEN lru'[j].value = v
            ELSE \E i \in 1..Len(lru) : lru'[j] = lru[i]
  PROVE  ContractStore' = [ContractStore EXCEPT ![k] = v]
<1>1. StoreFacts /\ StoreFacts'
  BY StoreOfList, StoreOfNextList
<1>2. ASSUME NEW l \in Key
      PROVE  ContractStore'[l] = IF l = k THEN v ELSE ContractStore[l]
  <2>1. CASE l \notin ListedKeys'
    BY <1>1, <2>1 DEF StoreFacts
  <2>2. CASE l \in ListedKeys'
    <3>1. PICK j \in 1..Len(lru') : lru'[j].key = l
      BY <2>2 DEF ListedKeys
    <3>2. CASE l = k
      BY <1>1, <3>1, <3>2 DEF StoreFacts
    <3>3. CASE l # k
      <4>1. PICK i \in 1..Len(lru) : lru'[j] = lru[i]
        BY <3>1, <3>3
      <4>2. QED
        BY <1>1, <3>1, <3>3, <4>1 DEF StoreFacts
    <3>4. QED
      BY <3>2, <3>3
  <2>3. QED
    BY <2>1, <2>2
<1>3. QED
  BY <1>2, StoreDomain

(* A step that drops one key's node empties the abstract store at that key.  *)
LEMMA NodeDropped ==
  ASSUME Inv, Inv', NEW k \in Key, ListedKeys' = ListedKeys \ {k},
         \A j \in 1..Len(lru') : \E i \in 1..Len(lru) : lru'[j] = lru[i]
  PROVE  ContractStore' = [ContractStore EXCEPT ![k] = None]
<1>1. StoreFacts /\ StoreFacts'
  BY StoreOfList, StoreOfNextList
<1>2. ASSUME NEW l \in Key
      PROVE  ContractStore'[l] = IF l = k THEN None ELSE ContractStore[l]
  <2>1. CASE l \notin ListedKeys'
    BY <1>1, <2>1 DEF StoreFacts
  <2>2. CASE l \in ListedKeys'
    <3>1. PICK j \in 1..Len(lru') : lru'[j].key = l
      BY <2>2 DEF ListedKeys
    <3>2. PICK i \in 1..Len(lru) : lru'[j] = lru[i]
      OBVIOUS
    <3>3. ContractStore'[lru'[j].key] = lru'[j].value /\ ContractStore[lru[i].key] = lru[i].value
      BY <1>1, <3>1, <3>2 DEF StoreFacts
    <3>4. l # k
      BY <2>2
    <3>5. QED
      BY <3>1, <3>2, <3>3, <3>4, Zenon
  <2>3. QED
    BY <2>1, <2>2
<1>3. QED
  BY <1>2, StoreDomain

-----------------------------------------------------------------------------
(* What the mapping does to a call. *)

(* A reply is the contract's reply, and the caller waits until then. *)
LEMMA ReplyMaps ==
  ASSUME Inv, call.pc \in {"find", "insert", "overwrite"},
         NEW ok \in BOOLEAN, NEW out \in Value \cup {None}, Reply(ok, out)
  PROVE  /\ Contract!Reply(ok, out)
         /\ ContractCall.pc = "busy"
         /\ ContractCall.op = call.op
         /\ ContractCall.key = call.key
         /\ ContractCall.value = call.value
<1>1. /\ call'.pc = "return" /\ call'.op = call.op /\ call'.key = call.key
      /\ call'.value = call.value /\ call'.ok = ok /\ call'.out = out
  BY ReplyProperties DEF Inv
<1>2. ContractCall' = [pc |-> "return", op |-> call.op, key |-> call.key,
                       value |-> call.value, ok |-> ok, out |-> out]
  BY <1>1 DEF ContractCall
<1>3. ContractCall = [pc |-> "busy", op |-> call.op, key |-> call.key,
                      value |-> call.value, ok |-> call.ok, out |-> call.out]
  BY DEF ContractCall
<1>4. QED
  BY <1>2, <1>3 DEF Contract!Reply

(* find() agrees with the abstract store once no entry dangles. *)
LEMMA FoundMaps ==
  ASSUME Inv, NEW op, At(op)
  PROVE  /\ call.key \in Key
         /\ Found <=> call.key \in ListedKeys
         /\ Found <=> ContractStore[call.key] # None
         /\ ContractStore[call.key] \in Value \cup {None}
<1>1. call.key \in Key /\ (Found <=> call.key \in ListedKeys)
  BY DEF At, Found, Dangling, Inv, CallInv
<1>2. QED
  BY <1>1, StoreOfList DEF StoreFacts

(* A splice leaves the abstract store as it is. *)
LEMMA SpliceMaps ==
  ASSUME Inv, Inv', NEW k \in ListedKeys, lru' = Splice(NodeOf(k)), Touch(k)
  PROVE  ContractStore' = ContractStore /\ lru'[1].value = ContractStore[k]
<1>1. NodeOf(k) \in 1..Len(lru) /\ lru[NodeOf(k)].key = k
  BY NodeOfProperties DEF Inv
<1>2. /\ Len(lru') = Len(lru) /\ ListedKeys' = ListedKeys
      /\ lru'[1] = lru[NodeOf(k)]
  BY SpliceKeepsList DEF Inv
<1>3. ASSUME NEW j \in 1..Len(lru')
      PROVE  \E i \in 1..Len(lru) : lru'[j] = lru[i]
  <2>1. Len(lru) \in Nat
    BY ListType DEF Inv
  <2>2. lru'[j] = IF j = 1 THEN lru[NodeOf(k)]
                  ELSE IF j <= NodeOf(k) THEN lru[j - 1] ELSE lru[j]
    BY <1>1, <1>2, SpliceProperties DEF Inv
  <2>3. QED
    BY <1>1, <1>2, <2>1, <2>2
<1>4. ContractStore' = ContractStore
  BY <1>2, <1>3, SameNodes
<1>5. QED
  BY <1>1, <1>2, <1>4, StoreOfList DEF StoreFacts

-----------------------------------------------------------------------------
(* Each action of the backend is a step of the contract. *)

(* The operations that store a value in the end perform Contract!Store. *)
LEMMA StoredMaps ==
  ASSUME Inv, Inv', call.pc \in {"insert", "overwrite"}, Reply(TRUE, None),
         NewSize <= MaxSize, call.op \in StoreOps,
         call.op = "PutIfAbsent" => ContractStore[call.key] = None,
         call.op = "Set" => ContractStore[call.key] # None,
         ContractStore' = [ContractStore EXCEPT ![call.key] = call.value]
  PROVE  Contract!Store
<1>1. /\ Contract!Reply(TRUE, None)
      /\ ContractCall.pc = "busy"
      /\ ContractCall.op = call.op
      /\ ContractCall.key = call.key
      /\ ContractCall.value = call.value
  BY ReplyMaps
<1>2. Contract!Fits(ContractCall.key, ContractCall.value)
  BY <1>1 DEF Contract!Fits, NewSize, ItemSize
<1>3. Contract!Wanted(ContractCall.op, ContractCall.key)
  BY <1>1 DEF Contract!Wanted, Contract!Absent, StoreOps
<1>4. QED
  BY <1>1, <1>2, <1>3 DEF Contract!Store, Contract!StoreOps, StoreOps

(* A storing operation that refuses performs Contract!Store without effect. *)
LEMMA RefusedMaps ==
  ASSUME Inv, NEW op \in StoreOps, At(op), Refuse,
         \/ NewSize > MaxSize
         \/ op = "PutIfAbsent" /\ Found
         \/ op = "Set" /\ ~Found
  PROVE  Contract!Store
<1>1. /\ Contract!Reply(FALSE, None)
      /\ ContractCall.pc = "busy"
      /\ ContractCall.op = op
      /\ ContractCall.key = call.key
      /\ ContractCall.value = call.value
  BY ReplyMaps DEF At, Refuse
<1>2. Contract!Fits(ContractCall.key, ContractCall.value) => NewSize <= MaxSize
  BY <1>1 DEF Contract!Fits, NewSize, ItemSize
<1>3. NewSize \in Nat
  BY NewSizeType DEF At
<1>4. NewSize > MaxSize => ~(NewSize <= MaxSize)
  BY <1>3, StorageAssumption
<1>5. op = "PutIfAbsent" /\ Found => ~Contract!Wanted(ContractCall.op, ContractCall.key)
  BY <1>1, FoundMaps DEF Contract!Wanted, Contract!Absent
<1>6. op = "Set" /\ ~Found => ~Contract!Wanted(ContractCall.op, ContractCall.key)
  BY <1>1, FoundMaps DEF Contract!Wanted, Contract!Absent
<1>7. ContractStore' = ContractStore
  BY DEF Refuse, ContractStore, ListedKeys, NodeOf
<1>8. ~(Contract!Fits(ContractCall.key, ContractCall.value)
          /\ Contract!Wanted(ContractCall.op, ContractCall.key))
  BY <1>2, <1>4, <1>5, <1>6
<1>9. QED
  BY <1>1, <1>7, <1>8 DEF Contract!Store, Contract!StoreOps, StoreOps

(* Insert stores the pair under a key that is absent by then. *)
LEMMA InsertMaps == ASSUME Inv, Inv', Insert PROVE Contract!Store
<1>1. /\ call.pc = "insert" /\ call.op \in {"Put", "PutIfAbsent"}
      /\ call.key \in Key /\ call.value \in Value
      /\ call.key \notin ListedKeys /\ NewSize <= MaxSize
  BY DEF Insert, FreeSpaceDone, Inv, CallInv, MapInv, StoreOps
<1>2. /\ Len(lru') = Len(lru) + 1
      /\ lru'[1] = [key |-> call.key, value |-> call.value]
      /\ \A j \in 1..Len(lru) : lru'[j + 1] = lru[j]
      /\ ListedKeys' = ListedKeys \cup {call.key}
  BY <1>1, PushFrontProperties DEF Insert, Inv
<1>3. ASSUME NEW j \in 1..Len(lru')
      PROVE  IF lru'[j].key = call.key THEN lru'[j].value = call.value
             ELSE \E i \in 1..Len(lru) : lru'[j] = lru[i]
  <2>1. CASE j = 1
    BY <1>2, <2>1
  <2>2. CASE j # 1
    <3>1. j - 1 \in 1..Len(lru) /\ lru'[j] = lru[j - 1]
      BY <1>2, <2>2, ListType DEF Inv
    <3>2. lru[j - 1].key # call.key
      BY <1>1, <3>1 DEF ListedKeys
    <3>3. QED
      BY <3>1, <3>2
  <2>3. QED
    BY <2>1, <2>2
<1>4. ContractStore' = [ContractStore EXCEPT ![call.key] = call.value]
  <2>1. PICK k \in Key, v \in Value : k = call.key /\ v = call.value
    BY <1>1
  <2>2. \A j \in 1..Len(lru') :
           IF lru'[j].key = k THEN lru'[j].value = v
           ELSE \E i \in 1..Len(lru) : lru'[j] = lru[i]
    BY <1>3, <2>1
  <2>3. ListedKeys' = ListedKeys \cup {k}
    BY <1>2, <2>1
  <2>4. ContractStore' = [ContractStore EXCEPT ![k] = v]
    BY <2>2, <2>3, NodeStored
  <2>5. QED
    BY <2>1, <2>4
<1>5. ContractStore[call.key] = None
  BY <1>1, StoreOfList DEF StoreFacts
<1>6. QED
  BY <1>1, <1>4, <1>5, StoredMaps DEF Insert, StoreOps

(* The assignment to the front node stores the value under the call's key. *)
LEMMA OverwriteMaps ==
  ASSUME Inv, Inv', PutOverwrite \/ SetOverwrite
  PROVE  Contract!Store
<1>1. /\ call.pc = "overwrite" /\ call.op \in {"Put", "Set"}
      /\ call.key \in Key /\ call.value \in Value /\ NewSize <= MaxSize
      /\ lru # <<>> /\ lru[1].key = call.key
      /\ lru' = [lru EXCEPT ![1].value = call.value]
      /\ Reply(TRUE, None) /\ UNCHANGED usedAfter
  BY DEF PutOverwrite, SetOverwrite, FreeSpaceDone, Inv, CallInv, StoreOps
<1>2. PICK k \in Key, v \in Value : k = call.key /\ v = call.value
  BY <1>1
<1>3. 1 \in 1..Len(lru)
  BY <1>1, ListType DEF Inv
<1>4. /\ Len(lru') = Len(lru)
      /\ lru'[1] = [lru[1] EXCEPT !.value = v]
      /\ \A j \in 1..Len(lru) : lru'[j].key = lru[j].key
      /\ \A j \in 2..Len(lru) : lru'[j] = lru[j]
      /\ ListedKeys' = ListedKeys
  BY <1>1, <1>2, OverwriteProperties DEF Inv
<1>5. k \in ListedKeys
  BY <1>1, <1>2, <1>3 DEF ListedKeys
<1>6. ASSUME NEW j \in 1..Len(lru')
      PROVE  IF lru'[j].key = k THEN lru'[j].value = v
             ELSE \E i \in 1..Len(lru) : lru'[j] = lru[i]
  <2>1. CASE j = 1
    <3>1. lru[1] \in Node
      BY <1>3, ListType DEF Inv
    <3>2. QED
      BY <1>1, <1>2, <1>4, <2>1, <3>1 DEF Node
  <2>2. CASE j # 1
    <3>1. j \in 2..Len(lru) /\ j \in 1..Len(lru)
      BY <1>4, <2>2, ListType DEF Inv
    <3>2. lru[j].key # k
      BY <1>1, <1>2, <1>3, <2>2, <3>1 DEF Inv, UniqueKeys
    <3>3. QED
      BY <1>4, <3>1, <3>2
  <2>3. QED
    BY <2>1, <2>2
<1>7. ListedKeys' = ListedKeys \cup {k}
  BY <1>4, <1>5
<1>8. ContractStore' = [ContractStore EXCEPT ![k] = v]
  BY <1>6, <1>7, NodeStored
<1>9. ContractStore' = [ContractStore EXCEPT ![call.key] = call.value]
  BY <1>2, <1>8
<1>10. ContractStore[call.key] # None
  BY <1>2, <1>5, StoreOfList DEF StoreFacts
<1>11. QED
  BY <1>1, <1>9, <1>10, StoredMaps DEF StoreOps

(* One turn of FreeSpace's loop forgets one association. *)
LEMMA EvictMaps ==
  ASSUME Inv, Inv', FreeSpaceEvict
  PROVE  \E k \in Key : Contract!Evict(k)
<1>1. /\ call.pc \in {"insert", "overwrite"} /\ call.op \in StoreOps
      /\ UNCHANGED call
  BY DEF FreeSpaceEvict, Freeing, Inv, CallInv, StoreOps
<1>2. /\ Len(lru') = Len(lru) - 1
      /\ \A j \in 1..Len(lru') : lru'[j] = lru[j]
      /\ ListedKeys' = ListedKeys \ {lru[Len(lru)].key}
  BY PopBackProperties DEF FreeSpaceEvict, Inv
<1>3. Len(lru) \in 1..Len(lru) /\ lru[Len(lru)].key \in Key
  BY ListType DEF FreeSpaceEvict, Inv
<1>4. PICK k \in Key : k = lru[Len(lru)].key
  BY <1>3
<1>5. k \in ListedKeys
  BY <1>3, <1>4 DEF ListedKeys
<1>6. \A j \in 1..Len(lru') : \E i \in 1..Len(lru) : lru'[j] = lru[i]
  BY <1>2, <1>3
<1>7. ContractStore' = [ContractStore EXCEPT ![k] = None]
  BY <1>2, <1>4, <1>6, NodeDropped
<1>8. ContractStore[k] # None
  BY <1>5, StoreOfList DEF StoreFacts
<1>9. ContractCall' = ContractCall /\ ContractCall.pc = "busy" /\ ContractCall.op = call.op
  BY <1>1 DEF ContractCall
<1>10. Contract!Evict(k)
  BY <1>1, <1>7, <1>8, <1>9
  DEF Contract!Evict, Contract!Absent, Contract!StoreOps, StoreOps
<1>11. QED
  BY <1>10

(* Delete drops the association and reports whether there was one. *)
LEMMA DeleteMaps == ASSUME Inv, Inv', Delete PROVE Contract!Delete
<1>1. At("Delete") /\ call.pc = "find" /\ call.op = "Delete"
  BY DEF Delete, At
<1>2. call.key \in Key
  BY <1>1, FoundMaps
<1>3. CASE Found
  <2>1. call.key \in ListedKeys /\ ContractStore[call.key] # None
    BY <1>1, <1>3, FoundMaps
  <2>2. /\ lru' = Erase(NodeOf(call.key)) /\ Reply(TRUE, None) /\ UNCHANGED usedAfter
    BY <1>3 DEF Delete
  <2>3. PICK k \in Key : k = call.key
    BY <1>2
  <2>4. /\ \A j \in 1..Len(lru') : \E i \in 1..Len(lru) : lru'[j] = lru[i]
        /\ ListedKeys' = ListedKeys \ {k}
    BY <2>1, <2>2, <2>3, EraseProperties DEF Inv
  <2>5. ContractStore' = [ContractStore EXCEPT ![k] = None]
    BY <2>4, NodeDropped
  <2>6. QED
    BY <1>1, <2>1, <2>2, <2>3, <2>5, ReplyMaps DEF Contract!Delete, Contract!Absent
<1>4. CASE ~Found
  <2>1. ContractStore[call.key] = None
    BY <1>1, <1>4, FoundMaps
  <2>2. Refuse
    BY <1>4 DEF Delete
  <2>3. ContractStore' = ContractStore
    BY <2>2 DEF Refuse, ContractStore, ListedKeys, NodeOf
  <2>4. ContractStore = [ContractStore EXCEPT ![call.key] = None]
    BY <1>2, <2>1 DEF ContractStore
  <2>5. QED
    BY <1>1, <2>1, <2>2, <2>3, <2>4, ReplyMaps
    DEF Contract!Delete, Contract!Absent, Refuse
<1>5. QED
  BY <1>3, <1>4

(* Get returns the association and keeps it. *)
LEMMA GetMaps == ASSUME Inv, Inv', Get PROVE Contract!Get
<1>1. At("Get") /\ call.pc = "find" /\ call.op = "Get"
  BY DEF Get, At
<1>2. call.key \in Key /\ ContractStore[call.key] \in Value \cup {None}
  BY <1>1, FoundMaps
<1>3. CASE Found
  <2>1. call.key \in ListedKeys /\ ContractStore[call.key] # None
    BY <1>1, <1>3, FoundMaps
  <2>2. lru' = Splice(NodeOf(call.key)) /\ Touch(call.key) /\ Reply(TRUE, lru'[1].value)
    BY <1>3 DEF Get
  <2>3. ContractStore' = ContractStore /\ lru'[1].value = ContractStore[call.key]
    BY <2>1, <2>2, SpliceMaps
  <2>4. PICK out \in Value \cup {None} : out = ContractStore[call.key]
    BY <1>2
  <2>5. Reply(TRUE, out)
    BY <2>2, <2>3, <2>4
  <2>6. QED
    BY <1>1, <2>1, <2>3, <2>4, <2>5, ReplyMaps DEF Contract!Get, Contract!Absent
<1>4. CASE ~Found
  <2>1. ContractStore[call.key] = None
    BY <1>1, <1>4, FoundMaps
  <2>2. Refuse
    BY <1>4 DEF Get
  <2>3. ContractStore' = ContractStore
    BY <2>2 DEF Refuse, ContractStore, ListedKeys, NodeOf
  <2>4. QED
    BY <1>1, <2>1, <2>2, <2>3, ReplyMaps DEF Contract!Get, Contract!Absent, Refuse
<1>5. QED
  BY <1>3, <1>4

(* Taking the lock is the contract's Invoke. *)
LEMMA LockMaps ==
  ASSUME NEW op, NEW k, NEW v, Lock(op, k, v)
  PROVE  Contract!Invoke(op, k, v)
<1>1. ContractStore' = ContractStore
  BY DEF Lock, ContractStore, ListedKeys, NodeOf
<1>2. ContractCall = Contract!NoCall
  BY DEF Lock, NoCall, ContractCall, Contract!NoCall
<1>3. /\ call'.pc = "find" /\ call'.op = op /\ call'.key = k /\ call'.value = v
      /\ call'.ok = FALSE /\ call'.out = None
  BY DEF Lock, NoCall
<1>4. ContractCall' = [pc |-> "busy", op |-> op, key |-> k, value |-> v,
                       ok |-> FALSE, out |-> None]
  BY <1>3 DEF ContractCall
<1>5. QED
  BY <1>1, <1>2, <1>4 DEF Contract!Invoke, Contract!NoCall

(* Releasing it is the contract's Return. *)
LEMMA UnlockMaps == ASSUME Unlock PROVE Contract!Return
<1>1. ContractStore' = ContractStore
  BY DEF Unlock, ContractStore, ListedKeys, NodeOf
<1>2. ContractCall' = Contract!NoCall
  BY DEF Unlock, NoCall, ContractCall, Contract!NoCall
<1>3. ContractCall.pc = "return"
  BY DEF Unlock, ContractCall
<1>4. QED
  BY <1>1, <1>2, <1>3 DEF Contract!Return

(* A step within a call that moves no association and gives no result, and a *)
(* step into undefined behaviour, are invisible to the caller.               *)
LEMMA InnerMaps ==
  ASSUME Inv, Inv',
         \/ UNCHANGED <<lru, call>>
         \/ \E op \in {"Put", "PutIfAbsent"} : PutAbsent(op)
         \/ \E op \in {"Put", "Set"} : Present(op)
  PROVE  UNCHANGED <<ContractStore, ContractCall>>
<1>1. CASE UNCHANGED <<lru, call>>
  BY <1>1 DEF ContractStore, ContractCall, ListedKeys, NodeOf
<1>2. CASE \E op \in {"Put", "PutIfAbsent"} : PutAbsent(op)
  <2>1. call.pc = "find" /\ call' = [call EXCEPT !.pc = "insert"] /\ UNCHANGED lru
    BY <1>2 DEF PutAbsent, At
  <2>2. /\ call'.pc = "insert" /\ call'.op = call.op /\ call'.key = call.key
        /\ call'.value = call.value /\ call'.ok = call.ok /\ call'.out = call.out
    BY <2>1 DEF Inv, TypeOK, Call
  <2>3. QED
    BY <2>1, <2>2 DEF ContractStore, ContractCall, ListedKeys, NodeOf
<1>3. CASE \E op \in {"Put", "Set"} : Present(op)
  <2>1. PICK op \in {"Put", "Set"} : Present(op)
    BY <1>3
  <2>2. call.pc = "find" /\ call' = [call EXCEPT !.pc = "overwrite"]
    BY <2>1 DEF Present, At
  <2>3. /\ call'.pc = "overwrite" /\ call'.op = call.op /\ call'.key = call.key
        /\ call'.value = call.value /\ call'.ok = call.ok /\ call'.out = call.out
    BY <2>2 DEF Inv, TypeOK, Call
  <2>4. call.key \in ListedKeys
    BY <2>1, FoundMaps DEF Present
  <2>5. ContractStore' = ContractStore
    BY <2>1, <2>4, SpliceMaps DEF Present
  <2>6. QED
    BY <2>2, <2>3, <2>5 DEF ContractCall
<1>4. QED
  BY <1>1, <1>2, <1>3

(* Every step of the backend is a step of the contract or invisible in it. *)
LEMMA NextMaps ==
  ASSUME Inv, Inv', [Next]_vars
  PROVE  [Contract!Next]_(Contract!vars)
<1> USE DEF Contract!vars
<1>1. CASE \E op \in StoreOps, k \in Key, v \in Value : Lock(op, k, v)
  BY <1>1, LockMaps DEF Contract!Next, Contract!StoreOps, StoreOps
<1>2. CASE \E op \in {"Get", "Delete"}, k \in Key : Lock(op, k, None)
  BY <1>2, LockMaps DEF Contract!Next
<1>3. CASE TooLarge
  BY <1>3, RefusedMaps DEF TooLarge, Contract!Next
<1>4. CASE PutIfAbsent
  BY <1>4, RefusedMaps, InnerMaps DEF PutIfAbsent, StoreOps, Contract!Next
<1>5. CASE Set
  BY <1>5, RefusedMaps, InnerMaps DEF Set, StoreOps, Contract!Next
<1>6. CASE Put
  BY <1>6, InnerMaps DEF Put
<1>7. CASE Insert \/ PutOverwrite \/ SetOverwrite
  BY <1>7, InsertMaps, OverwriteMaps DEF Contract!Next
<1>8. CASE FreeSpaceEvict
  BY <1>8, EvictMaps DEF Contract!Next
<1>9. CASE Delete \/ Get
  BY <1>9, DeleteMaps, GetMaps DEF Contract!Next
<1>10. CASE Unlock
  BY <1>10, UnlockMaps DEF Contract!Next
<1>11. CASE UNCHANGED <<lru, call>>
  BY <1>11, InnerMaps
<1>12. QED
  BY <1>1, <1>2, <1>3, <1>4, <1>5, <1>6, <1>7, <1>8, <1>9, <1>10, <1>11
  DEF Next, Step, FindDangling, FreeSpaceEmpty, OverwriteEmpty, SetNewCurrentSize, vars

(* The backend implements the contract of Storage.h for every key and value  *)
(* set, capacity and mix of operations: a Get returns the value last stored  *)
(* or nothing, a refused call changes nothing, and what leaves the cache     *)
(* does not come back.                                                       *)
THEOREM StorageRefinesContract == Spec => ImplementsContract
<1>1. Init => Contract!Init
  <2> SUFFICES ASSUME Init PROVE Contract!Init
    OBVIOUS
  <2>1. ListedKeys = {}
    BY DEF Init, ListedKeys
  <2>2. ContractStore = [k \in Key |-> None]
    BY <2>1 DEF ContractStore
  <2>3. ContractCall = Contract!NoCall
    BY DEF Init, NoCall, ContractCall, Contract!NoCall
  <2>4. QED
    BY <2>2, <2>3 DEF Contract!Init
<1>2. Inv /\ Inv' /\ [Next]_vars => [Contract!Next]_(Contract!vars)
  BY NextMaps
<1>3. QED
  BY Invariance, <1>1, <1>2, PTL DEF Spec, ImplementsContract, Contract!Spec

-----------------------------------------------------------------------------
(* What a command may count on between two calls, and while its call         *)
(* returns: values that are held fit the storage, and the result of a Get    *)
(* is still what is held when the lock is released.                          *)
HeldInv ==
  /\ \A k \in Key : ContractStore[k] = None \/ ItemSize(k, ContractStore[k]) <= MaxSize
  /\ ContractCall.pc = "return" /\ ContractCall.op = "Get" /\ ContractCall.ok
       => /\ ContractCall.out = ContractStore[ContractCall.key]
          /\ ContractCall.out # None

(* It follows from the contract alone. *)
LEMMA HeldStep ==
  ASSUME Inv, Inv', HeldInv, [Next]_vars
  PROVE  HeldInv'
<1> DEFINE store == ContractStore
           ccall == ContractCall
<1>1. [Contract!Next]_(Contract!vars)
  BY NextMaps
<1>2. /\ store = [k \in Key |-> store[k]] /\ store' = [k \in Key |-> store'[k]]
  BY StoreDomain
<1>3. CASE UNCHANGED Contract!vars
  BY <1>3 DEF Contract!vars, HeldInv
<1>4. ASSUME NEW op, NEW k, NEW v, Contract!Invoke(op, k, v) PROVE HeldInv'
  BY <1>4 DEF Contract!Invoke, HeldInv
<1>5. CASE Contract!Store
  <2>1. ccall'.op \in StoreOps
    BY <1>5 DEF Contract!Store, Contract!Reply, StoreOps, Contract!StoreOps
  <2>2. \A k \in Key : store'[k] = None \/ ItemSize(k, store'[k]) <= MaxSize
    <3>1. CASE store' = store
      BY <3>1 DEF HeldInv
    <3>2. CASE /\ Contract!Fits(ccall.key, ccall.value)
               /\ store' = [store EXCEPT ![ccall.key] = ccall.value]
      <4>1. ASSUME NEW k \in Key, k # ccall.key PROVE store'[k] = store[k]
        BY <1>2, <3>2, <4>1
      <4>2. ASSUME NEW k \in Key, k = ccall.key PROVE store'[k] = ccall.value
        BY <1>2, <3>2, <4>2
      <4>3. QED
        BY <3>2, <4>1, <4>2 DEF HeldInv, Contract!Fits, ItemSize
    <3>3. QED
      BY <1>5, <3>1, <3>2 DEF Contract!Store
  <2>3. QED
    BY <2>1, <2>2 DEF HeldInv, StoreOps
<1>6. ASSUME NEW k \in Key, store' = [store EXCEPT ![k] = None]
      PROVE  \A l \in Key : store'[l] = None \/ ItemSize(l, store'[l]) <= MaxSize
  <2> SUFFICES ASSUME NEW l \in Key PROVE store'[l] = None \/ ItemSize(l, store'[l]) <= MaxSize
    OBVIOUS
  <2>1. store'[l] = IF l = k THEN None ELSE store[l]
    BY <1>2, <1>6
  <2>2. QED
    BY <2>1 DEF HeldInv
<1>7. CASE Contract!Delete
  <2>1. ccall'.op = "Delete" /\ ccall.pc = "busy"
    BY <1>7 DEF Contract!Delete, Contract!Reply
  <2>2. ccall.key \in Key
    BY <2>1 DEF ContractCall, Inv, CallInv
  <2>3. QED
    BY <1>6, <1>7, <2>1, <2>2 DEF Contract!Delete, HeldInv
<1>8. CASE Contract!Get
  BY <1>8 DEF Contract!Get, Contract!Reply, Contract!Absent, HeldInv
<1>9. CASE Contract!Return
  BY <1>9 DEF Contract!Return, Contract!NoCall, HeldInv
<1>10. ASSUME NEW k \in Key, Contract!Evict(k) PROVE HeldInv'
  BY <1>6, <1>10 DEF Contract!Evict, HeldInv
<1>11. QED
  BY <1>1, <1>3, <1>4, <1>5, <1>7, <1>8, <1>9, <1>10 DEF Contract!Next

-----------------------------------------------------------------------------
(* The inductive invariant. *)

CommandState ==
  [pc : {"idle", "first", "second", "done"}, name : Names \cup {"none"}, keys : Seq(Key),
   args : Args \cup {<<>>}, value : Value \cup {<<>>},
   out : {"none", "STORED", "NOT_STORED", "END"}, items : Seq(Key \X Value), wrote : BOOLEAN]

(* What a command has done so far, by how far it has come.  The value an     *)
(* append has read fits the storage, so that the concatenation it stores is  *)
(* one of Value.                                                             *)
Consistent(m) ==
  /\ m.pc = "idle" <=> m.name = "none"
  /\ m.name \in StoreNames => m.args \in Args /\ \E k \in Key : m.keys = <<k>>
  /\ m.pc = "second" => m.name \in {"append", "replace"}
  /\ m.pc = "second" /\ m.name = "append" =>
       m.value \in Value /\ ItemSize(Head(m.keys), m.value) <= MaxSize
  /\ m.pc # "done" => m.out = "none" /\ ~m.wrote
  /\ m.out = "NOT_STORED" => ~m.wrote
  /\ m.name = "add" /\ m.out = "STORED" => m.wrote

Calling(c) ==
  cmd[c].pc \in {"first", "second"} /\ cmd[c].name # "stats" /\ cmd[c].keys # <<>>

(* The call in the storage is the one its holder's command makes. *)
HolderInv ==
  /\ holder = NoClient => call = NoCall
  /\ \A c \in Client : holder = c =>
       Calling(c) /\ call.pc # "idle" /\ NextCall(cmd[c]) = <<call.op, call.key, call.value>>

CInv ==
  /\ Inv /\ HeldInv
  /\ holder \in Client \cup {NoClient}
  /\ cmd \in [Client -> CommandState]
  /\ \A c \in Client : Consistent(cmd[c])
  /\ HolderInv

-----------------------------------------------------------------------------
(* The commands call the storage as its specification says. *)

(* A thread without a command. *)
LEMMA IdleType == Idle \in CommandState
<1>1. <<>> \in Seq(Key) /\ <<>> \in Seq(Key \X Value)
  OBVIOUS
<1>2. QED
  BY <1>1 DEF Idle, CommandState

(* The call a command makes next, by its name. *)
LEMMA NextCallCases ==
  ASSUME NEW m
  PROVE  /\ m.name = "set" => NextCall(m) = <<"Put", Head(m.keys), m.args>>
         /\ m.name = "add" => NextCall(m) = <<"PutIfAbsent", Head(m.keys), m.args>>
         /\ m.name = "append" =>
              NextCall(m) = IF m.pc = "first" THEN <<"Get", Head(m.keys), None>>
                            ELSE <<"Put", Head(m.keys), m.value \o m.args>>
         /\ m.name = "replace" =>
              NextCall(m) = IF m.pc = "first" THEN <<"Get", Head(m.keys), None>>
                            ELSE <<"Set", Head(m.keys), m.args>>
         /\ m.name = "get" => NextCall(m) = <<"Get", Head(m.keys), None>>
BY DEF NextCall

(* The commands that make calls. *)
LEMMA CallingNames ==
  ASSUME CInv, NEW c \in Client, Calling(c)
  PROVE  cmd[c].name \in {"set", "add", "append", "replace", "get"}
<1>1. cmd[c].name \in Names /\ cmd[c].name # "stats"
  BY DEF CInv, CommandState, Consistent, Calling
<1>2. QED
  BY <1>1, CommandsAssumption DEF StoreNames

(* It is one the storage provides for: its key is a key and what it stores   *)
(* is a value.                                                               *)
LEMMA NextCallType ==
  ASSUME CInv, NEW c \in Client, Calling(c)
  PROVE  \/ \E op \in StoreOps, k \in Key, v \in Value : NextCall(cmd[c]) = <<op, k, v>>
         \/ \E k \in Key : NextCall(cmd[c]) = <<"Get", k, None>>
<1> DEFINE m == cmd[c]
<1>1. m \in CommandState /\ Consistent(m)
  BY DEF CInv
<1>2. m.keys \in Seq(Key) /\ m.keys # <<>> /\ m.pc \in {"first", "second"} /\ m.name # "stats"
  BY <1>1 DEF Calling, CommandState
<1>3. PICK k \in Key : k = Head(m.keys)
  BY <1>2
<1>4. m.name \in {"set", "add", "append", "replace", "get"}
  BY CallingNames
<1>5. m.name # "get" => m.args \in Value
  BY <1>1, <1>4, CommandsAssumption DEF Consistent, StoreNames
<1>6. CASE m.name = "append" /\ m.pc = "second"
  <2>1. m.value \in Value /\ ItemSize(k, m.value) <= MaxSize /\ m.args \in Args
    BY <1>1, <1>3, <1>6 DEF Consistent, StoreNames
  <2>2. PICK v \in Value : v = m.value \o m.args
    BY <2>1, CommandsAssumption
  <2>3. NextCall(cmd[c]) = <<"Put", k, v>>
    BY <1>3, <1>6, <2>2, NextCallCases
  <2>4. QED
    BY <2>3 DEF StoreOps
<1>7. CASE m.name = "get" \/ (m.name \in {"append", "replace"} /\ m.pc = "first")
  <2>1. NextCall(cmd[c]) = <<"Get", k, None>>
    BY <1>3, <1>7, NextCallCases
  <2>2. QED
    BY <2>1
<1>8. CASE m.name = "set"
  BY <1>3, <1>5, <1>8, NextCallCases DEF StoreOps
<1>9. CASE m.name = "add"
  BY <1>3, <1>5, <1>9, NextCallCases DEF StoreOps
<1>10. CASE m.name = "replace" /\ m.pc = "second"
  BY <1>3, <1>5, <1>10, NextCallCases DEF StoreOps
<1>11. QED
  BY <1>2, <1>4, <1>6, <1>7, <1>8, <1>9, <1>10

(* Whatever the threads do, the storage sees a step of its own. *)
LEMMA StorageStep ==
  ASSUME CInv, [CNext]_cvars
  PROVE  [Next]_vars
<1>1. CASE Step
  BY <1>1 DEF Next
<1>2. ASSUME NEW c \in Client, Enter(c) PROVE Next
  <2>1. Calling(c) /\ Lock(NextCall(cmd[c])[1], NextCall(cmd[c])[2], NextCall(cmd[c])[3])
    BY <1>2 DEF Enter, Calling
  <2>2. CASE \E op \in StoreOps, k \in Key, v \in Value : NextCall(cmd[c]) = <<op, k, v>>
    <3>1. PICK op \in StoreOps, k \in Key, v \in Value : NextCall(cmd[c]) = <<op, k, v>>
      BY <2>2
    <3>2. Lock(op, k, v)
      BY <2>1, <3>1
    <3>3. QED
      BY <3>2 DEF Next
  <2>3. CASE \E k \in Key : NextCall(cmd[c]) = <<"Get", k, None>>
    <3>1. PICK k \in Key : NextCall(cmd[c]) = <<"Get", k, None>>
      BY <2>3
    <3>2. Lock("Get", k, None)
      BY <2>1, <3>1
    <3>3. QED
      BY <3>2 DEF Next
  <2>4. QED
    BY <2>1, <2>2, <2>3, NextCallType
<1>3. ASSUME NEW c \in Client, NEW name, NEW m, Returned(c, name, m) PROVE Next
  BY <1>3 DEF Returned, Next
<1>4. CASE UNCHANGED vars
  BY <1>4
<1>5. CASE CNext
  BY <1>1, <1>2, <1>3, <1>4, <1>5
  DEF CNext, Begin, Finish, SetExecute, AddExecute, AppendExecute, ReplaceExecute, GetExecute,
      GetEnd, StatsExecute
<1>6. QED
  BY <1>4, <1>5 DEF cvars

-----------------------------------------------------------------------------
(* The invariant is inductive. *)

(* Within a call nothing but its progress and its result changes. *)
LEMMA StepKeepsCall ==
  ASSUME Inv, Step
  PROVE  /\ call.pc # "idle" /\ call'.pc # "idle"
         /\ call'.op = call.op /\ call'.key = call.key /\ call'.value = call.value
<1>1. call \in Call
  BY DEF Inv, TypeOK
<1>2. ASSUME NEW ok, NEW out, Reply(ok, out)
      PROVE  /\ call'.pc = "return" /\ call'.op = call.op /\ call'.key = call.key
             /\ call'.value = call.value
  BY <1>1, <1>2 DEF Reply, Call
<1>3. ASSUME NEW pc, call' = [call EXCEPT !.pc = pc]
      PROVE  /\ call'.pc = pc /\ call'.op = call.op /\ call'.key = call.key
             /\ call'.value = call.value
  BY <1>1, <1>3 DEF Call
<1>4. call.pc # "idle"
  BY DEF Step, FindDangling, TooLarge, Put, PutIfAbsent, Set, Delete, Get, FreeSpaceEvict,
         FreeSpaceEmpty, Insert, PutOverwrite, SetOverwrite, OverwriteEmpty, At, Freeing,
         FreeSpaceDone, PutAbsent, Present
<1>5. \/ UNCHANGED call
      \/ \E pc \in {"insert", "overwrite"} : call' = [call EXCEPT !.pc = pc]
      \/ Reply(FALSE, None) \/ Reply(TRUE, None) \/ Reply(TRUE, lru'[1].value)
  BY DEF Step, FindDangling, TooLarge, Put, PutIfAbsent, Set, Delete, Get, FreeSpaceEvict,
         FreeSpaceEmpty, Insert, PutOverwrite, SetOverwrite, OverwriteEmpty, Refuse, PutAbsent,
         Present
<1>6. CASE \E pc \in {"insert", "overwrite"} : call' = [call EXCEPT !.pc = pc]
  BY <1>3, <1>4, <1>6
<1>7. CASE Reply(FALSE, None) \/ Reply(TRUE, None)
  BY <1>2, <1>4, <1>7
<1>8. CASE Reply(TRUE, lru'[1].value)
  BY <1>2, <1>4, <1>8
<1>9. QED
  BY <1>4, <1>5, <1>6, <1>7, <1>8

(* What the commands' part of the invariant comes to. *)
Threads ==
  /\ holder \in Client \cup {NoClient}
  /\ cmd \in [Client -> CommandState]
  /\ \A c \in Client : Consistent(cmd[c])
  /\ HolderInv

(* A command that is not in a call of its own goes on to a new state. *)
LEMMA LocalStep ==
  ASSUME CInv, NEW c \in Client, holder # c, NEW m \in CommandState, Consistent(m),
         cmd' = [cmd EXCEPT ![c] = m], UNCHANGED <<vars, holder>>
  PROVE  Threads'
<1>1. cmd' \in [Client -> CommandState] /\ \A d \in Client : cmd'[d] = IF d = c THEN m ELSE cmd[d]
  BY DEF CInv
<1>2. \A d \in Client : Consistent(cmd'[d])
  BY <1>1 DEF CInv
<1>3. call' = call /\ holder' = holder
  BY DEF vars
<1>4. HolderInv'
  <2>1. holder' = NoClient => call' = NoCall
    BY <1>3 DEF CInv, HolderInv
  <2>2. ASSUME NEW d \in Client, holder' = d
        PROVE  Calling(d)' /\ call'.pc # "idle" /\ NextCall(cmd'[d]) = <<call'.op, call'.key, call'.value>>
    <3>1. cmd'[d] = cmd[d]
      BY <1>1, <1>3, <2>2
    <3>2. Calling(d) /\ call.pc # "idle" /\ NextCall(cmd[d]) = <<call.op, call.key, call.value>>
      BY <1>3, <2>2 DEF CInv, HolderInv
    <3>3. Calling(d)'
      BY <3>1, <3>2 DEF Calling
    <3>4. QED
      BY <1>3, <3>1, <3>2, <3>3
  <2>3. QED
    BY <2>1, <2>2 DEF HolderInv
<1>5. QED
  BY <1>1, <1>2, <1>3, <1>4 DEF Threads, CInv

(* A command's call returns and the command goes on. *)
LEMMA ReturnedStep ==
  ASSUME CInv, NEW c \in Client, NEW name, NEW m \in CommandState, Returned(c, name, m),
         Consistent([m EXCEPT !.wrote = @ \/ (call.op \in StoreOps /\ call.ok)])
  PROVE  Threads'
<1> DEFINE w == [m EXCEPT !.wrote = @ \/ (call.op \in StoreOps /\ call.ok)]
<1>1. w \in CommandState
  BY DEF CommandState
<1>2. cmd' = [cmd EXCEPT ![c] = w] /\ holder' = NoClient /\ call' = NoCall
  BY DEF Returned, Unlock
<1> HIDE DEF w
<1>3. cmd' \in [Client -> CommandState] /\ \A d \in Client : cmd'[d] = IF d = c THEN w ELSE cmd[d]
  BY <1>1, <1>2 DEF CInv
<1>4. \A d \in Client : Consistent(cmd'[d])
  BY <1>3 DEF CInv, w
<1>5. QED
  BY <1>2, <1>3, <1>4, CommandsAssumption DEF Threads, HolderInv

(* Who returns from a call, and from which. *)
LEMMA ReturnedFacts ==
  ASSUME CInv, NEW c \in Client, NEW name, NEW m, Returned(c, name, m)
  PROVE  /\ cmd[c] \in CommandState /\ Consistent(cmd[c]) /\ cmd[c].name = name
         /\ Calling(c) /\ NextCall(cmd[c]) = <<call.op, call.key, call.value>>
         /\ call.pc = "return" /\ call.key \in Key /\ call.ok \in BOOLEAN
         /\ call.op = "Get" /\ call.ok =>
              /\ call.out = ContractStore[call.key] /\ call.out \in Value
              /\ ItemSize(call.key, call.out) <= MaxSize
<1>1. /\ cmd[c] \in CommandState /\ Consistent(cmd[c]) /\ cmd[c].name = name
      /\ Calling(c) /\ NextCall(cmd[c]) = <<call.op, call.key, call.value>>
      /\ call.pc = "return"
  BY DEF CInv, HolderInv, Returned, Unlock
<1>2. call.key \in Key /\ call.ok \in BOOLEAN
  BY <1>1 DEF CInv, Inv, CallInv, TypeOK, Call
<1>3. ASSUME call.op = "Get", call.ok
      PROVE  /\ call.out = ContractStore[call.key] /\ call.out \in Value
             /\ ItemSize(call.key, call.out) <= MaxSize
  <2>1. call.out = ContractStore[call.key] /\ call.out # None
    BY <1>1, <1>3 DEF CInv, HeldInv, ContractCall
  <2>2. call.out \in Value
    BY <2>1 DEF CInv, Inv, TypeOK, Call
  <2>3. QED
    BY <1>2, <2>1, <2>2 DEF CInv, HeldInv
<1>4. QED
  BY <1>1, <1>2, <1>3

(* A command that arrives, or is over, or has no call to make. *)
LEMMA LocalActions ==
  ASSUME CInv, NEW c \in Client,
         \/ \E name \in StoreNames, k \in Key, a \in Args : Begin(c, name, <<k>>, a)
         \/ \E keys \in GetKeys : Begin(c, "get", keys, <<>>)
         \/ Begin(c, "stats", <<>>, <<>>)
         \/ Finish(c) \/ GetEnd(c) \/ StatsExecute(c)
  PROVE  Threads'
<1>1. cmd[c] \in CommandState /\ Consistent(cmd[c])
  BY DEF CInv
<1>2. ASSUME NEW name \in Names, NEW keys \in Seq(Key), NEW args \in Args \cup {<<>>},
             name \in StoreNames => args \in Args /\ \E k \in Key : keys = <<k>>,
             Begin(c, name, keys, args)
      PROVE  Threads'
  <2> DEFINE m == [Idle EXCEPT !.pc = "first", !.name = name, !.keys = keys, !.args = args]
  <2>1. /\ m.pc = "first" /\ m.name = name /\ m.keys = keys /\ m.args = args
        /\ m.out = "none" /\ m.wrote = FALSE
    BY DEF Idle
  <2>2. m \in CommandState
    <3>1. Idle \in CommandState
      BY IdleType
    <3>2. QED
      BY <3>1 DEF CommandState
  <2>3. name # "none"
    BY CommandsAssumption DEF StoreNames
  <2>4. Consistent(m)
    <3> HIDE DEF m
    <3> QED BY <1>2, <2>1, <2>3 DEF Consistent
  <2>5. /\ cmd[c].pc = "idle" /\ cmd' = [cmd EXCEPT ![c] = m] /\ UNCHANGED <<vars, holder>>
    BY <1>2 DEF Begin
  <2>6. holder # c
    BY <2>5 DEF CInv, HolderInv, Calling
  <2> HIDE DEF m
  <2>7. QED
    BY <2>2, <2>4, <2>5, <2>6, LocalStep
<1>3. CASE \E name \in StoreNames, k \in Key, a \in Args : Begin(c, name, <<k>>, a)
  <2>1. PICK name \in StoreNames, k \in Key, a \in Args : Begin(c, name, <<k>>, a)
    BY <1>3
  <2>2. name \in Names
    BY <2>1, Zenon DEF Begin
  <2>3. <<k>> \in Seq(Key)
    OBVIOUS
  <2>4. QED
    BY <1>2, <2>1, <2>2, <2>3
<1>4. CASE \E keys \in GetKeys : Begin(c, "get", keys, <<>>)
  <2>1. PICK keys \in GetKeys : Begin(c, "get", keys, <<>>)
    BY <1>4
  <2>2. "get" \in Names /\ keys \in Seq(Key)
    BY <2>1, CommandsAssumption DEF Begin
  <2>3. QED
    BY <1>2, <2>1, <2>2 DEF StoreNames
<1>5. CASE Begin(c, "stats", <<>>, <<>>)
  <2>1. "stats" \in Names
    BY <1>5, Zenon DEF Begin
  <2>2. <<>> \in Seq(Key)
    OBVIOUS
  <2>3. "stats" \notin StoreNames
    BY DEF StoreNames
  <2>4. QED
    BY <1>2, <1>5, <2>1, <2>2, <2>3, Zenon
<1>6. CASE Finish(c)
  <2>1. Idle \in CommandState
    BY IdleType
  <2>2. Consistent(Idle)
    BY DEF Idle, Consistent, StoreNames
  <2>3. cmd[c].pc = "done" /\ cmd' = [cmd EXCEPT ![c] = Idle] /\ UNCHANGED <<vars, holder>>
    BY <1>6 DEF Finish
  <2>4. holder # c
    BY <2>3 DEF CInv, HolderInv, Calling
  <2>5. QED
    BY <2>1, <2>2, <2>3, <2>4, LocalStep
<1>7. CASE GetEnd(c) \/ StatsExecute(c)
  <2> DEFINE m == Done(cmd[c], "END")
  <2>1. /\ cmd[c].pc = "first" /\ cmd[c].name \in {"get", "stats"}
        /\ cmd' = [cmd EXCEPT ![c] = m] /\ UNCHANGED <<vars, holder>>
        /\ cmd[c].name = "stats" \/ cmd[c].keys = <<>>
    BY <1>7 DEF GetEnd, StatsExecute, CInv
  <2>2. m \in CommandState /\ m.pc = "done" /\ m.name = cmd[c].name /\ m.out = "END" /\ m.wrote = cmd[c].wrote
    BY <1>1 DEF Done, CommandState
  <2>3. Consistent(m)
    <3> HIDE DEF m
    <3> QED BY <1>1, <2>1, <2>2 DEF Consistent, StoreNames
  <2>4. holder # c
    BY <2>1 DEF CInv, HolderInv, Calling
  <2> HIDE DEF m
  <2>5. QED
    BY <2>1, <2>2, <2>3, <2>4, LocalStep
<1>8. QED
  BY <1>3, <1>4, <1>5, <1>6, <1>7

(* A command takes the storage's lock. *)
LEMMA EnterStep ==
  ASSUME CInv, NEW c \in Client, Enter(c)
  PROVE  Threads'
<1>1. Calling(c) /\ holder' = c /\ cmd' = cmd
  BY DEF Enter, Calling
<1>2. PICK op, k, v : NextCall(cmd[c]) = <<op, k, v>> /\ Lock(op, k, v)
  <2>1. Lock(NextCall(cmd[c])[1], NextCall(cmd[c])[2], NextCall(cmd[c])[3])
    BY DEF Enter
  <2>2. QED
    BY <1>1, <2>1, NextCallType
<1>3. call'.pc # "idle" /\ call'.op = op /\ call'.key = k /\ call'.value = v
  BY <1>2 DEF Lock, NoCall
<1>4. HolderInv'
  BY <1>1, <1>2, <1>3, CommandsAssumption DEF HolderInv, Calling
<1>5. QED
  BY <1>1, <1>4 DEF CInv, Threads

(* The calls of set and add return. *)
LEMMA SetAddStep ==
  ASSUME CInv, NEW c \in Client, SetExecute(c) \/ AddExecute(c)
  PROVE  Threads'
<1> DEFINE w(m) == [m EXCEPT !.wrote = @ \/ (call.op \in StoreOps /\ call.ok)]
<1>1. ASSUME NEW name \in {"set", "add"}, NEW out \in {"STORED", "NOT_STORED"},
             name = "add" => out = IF call.ok THEN "STORED" ELSE "NOT_STORED",
             name = "set" => out = "STORED",
             Returned(c, name, Done(cmd[c], out))
      PROVE  Threads'
  <2> DEFINE m == Done(cmd[c], out)
  <2>1. /\ cmd[c] \in CommandState /\ Consistent(cmd[c]) /\ cmd[c].name = name /\ call.ok \in BOOLEAN
        /\ Calling(c) /\ NextCall(cmd[c]) = <<call.op, call.key, call.value>>
    BY <1>1, ReturnedFacts
  <2>2. name = "add" => call.op \in StoreOps
    <3>1. name = "add" => NextCall(cmd[c]) = <<"PutIfAbsent", Head(cmd[c].keys), cmd[c].args>>
      BY <2>1, NextCallCases
    <3>a. name = "add" =>
            <<call.op, call.key, call.value>> = <<"PutIfAbsent", Head(cmd[c].keys), cmd[c].args>>
      BY <2>1, <3>1, Zenon
    <3>2. name = "add" => call.op = "PutIfAbsent"
      BY <3>a
    <3>3. QED
      BY <3>2 DEF StoreOps
  <2>3. /\ m \in CommandState /\ w(m).pc = "done" /\ w(m).name = name /\ w(m).out = out
        /\ w(m).args = cmd[c].args /\ w(m).keys = cmd[c].keys
        /\ w(m).wrote = (cmd[c].wrote \/ (call.op \in StoreOps /\ call.ok))
    BY <2>1 DEF Done, CommandState
  <2>4. ~cmd[c].wrote
    BY <2>1 DEF Consistent, Calling
  <2> HIDE DEF m
  <2>5. Consistent(w(m))
    <3> HIDE DEF w
    <3> QED BY <1>1, <2>1, <2>2, <2>3, <2>4 DEF Consistent, StoreNames
  <2>6. QED
    BY <1>1, <2>3, <2>5, ReturnedStep DEF m
<1>2. CASE SetExecute(c)
  BY <1>1, <1>2 DEF SetExecute
<1>3. CASE AddExecute(c)
  BY <1>1, <1>3 DEF AddExecute
<1>4. QED
  BY <1>2, <1>3

(* A call of append or replace returns. *)
LEMMA AppendReplaceStep ==
  ASSUME CInv, NEW c \in Client, AppendExecute(c) \/ ReplaceExecute(c)
  PROVE  Threads'
<1> DEFINE w(m) == [m EXCEPT !.wrote = @ \/ (call.op \in StoreOps /\ call.ok)]
<1>1. PICK name, r : name \in {"append", "replace"} /\ Returned(c, name, r)
  BY DEF AppendExecute, ReplaceExecute
<1>2. /\ cmd[c] \in CommandState /\ Consistent(cmd[c]) /\ cmd[c].name = name /\ call.ok \in BOOLEAN
      /\ Calling(c) /\ NextCall(cmd[c]) = <<call.op, call.key, call.value>>
      /\ call.op = "Get" /\ call.ok => call.out \in Value /\ ItemSize(call.key, call.out) <= MaxSize
  BY <1>1, ReturnedFacts
<1>3. ~cmd[c].wrote /\ cmd[c].pc \in {"first", "second"} /\ cmd[c].out = "none"
  BY <1>2 DEF Consistent, Calling
<1>4. cmd[c].pc = "first" => call.op = "Get" /\ call.key = Head(cmd[c].keys)
  <2>1. cmd[c].pc = "first" => NextCall(cmd[c]) = <<"Get", Head(cmd[c].keys), None>>
    BY <1>1, <1>2, NextCallCases
  <2>2. cmd[c].pc = "first" =>
          <<call.op, call.key, call.value>> = <<"Get", Head(cmd[c].keys), None>>
    BY <1>2, <2>1, Zenon
  <2>3. QED
    BY <2>2
<1>5. ASSUME NEW out \in {"STORED", "NOT_STORED"}, NEW n \in {"append", "replace"},
             out = "NOT_STORED" => cmd[c].pc = "first",
             Returned(c, n, Done(cmd[c], out))
      PROVE  Threads'
  <2> DEFINE m == Done(cmd[c], out)
  <2>1. /\ m \in CommandState /\ w(m).pc = "done" /\ w(m).name = name /\ w(m).out = out
        /\ w(m).args = cmd[c].args /\ w(m).keys = cmd[c].keys
        /\ w(m).wrote = (cmd[c].wrote \/ (call.op \in StoreOps /\ call.ok))
    BY <1>2 DEF Done, CommandState
  <2> HIDE DEF m
  <2>2. Consistent(w(m))
    <3> HIDE DEF w
    <3> QED BY <1>1, <1>2, <1>3, <1>4, <1>5, <2>1 DEF Consistent, StoreNames, StoreOps
  <2>3. QED
    BY <1>5, <2>1, <2>2, ReturnedStep DEF m
<1>6. ASSUME cmd[c].pc = "first", call.ok, NEW v \in Value \cup {<<>>},
             name = "append" => v = call.out,
             Returned(c, name, [cmd[c] EXCEPT !.pc = "second", !.value = v])
      PROVE  Threads'
  <2> DEFINE m == [cmd[c] EXCEPT !.pc = "second", !.value = v]
  <2>1. /\ m \in CommandState /\ w(m).pc = "second" /\ w(m).name = name /\ w(m).out = cmd[c].out
        /\ w(m).args = cmd[c].args /\ w(m).keys = cmd[c].keys /\ w(m).value = v
        /\ w(m).wrote = (cmd[c].wrote \/ (call.op \in StoreOps /\ call.ok))
    BY <1>2 DEF CommandState
  <2>2. ~w(m).wrote
    BY <1>3, <1>4, <1>6, <2>1 DEF StoreOps
  <2>3. name = "append" => v \in Value /\ ItemSize(Head(cmd[c].keys), v) <= MaxSize
    BY <1>2, <1>4, <1>6
  <2> HIDE DEF m
  <2>4. Consistent(w(m))
    <3> HIDE DEF w
    <3> QED BY <1>1, <1>2, <1>3, <2>1, <2>2, <2>3 DEF Consistent, StoreNames
  <2>5. QED
    BY <1>6, <2>1, <2>4, ReturnedStep DEF m
<1>7. CASE AppendExecute(c)
  <2>1. name = "append" /\ cmd[c].name = "append"
    BY <1>2, <1>7 DEF AppendExecute, Returned
  <2>2. CASE cmd[c].pc = "second"
    BY <1>5, <1>7, <2>2 DEF AppendExecute
  <2>3. CASE cmd[c].pc = "first" /\ call.ok
    BY <1>2, <1>4, <1>6, <1>7, <2>1, <2>3 DEF AppendExecute
  <2>4. CASE cmd[c].pc = "first" /\ ~call.ok
    BY <1>5, <1>7, <2>4 DEF AppendExecute
  <2>5. QED
    BY <1>3, <2>2, <2>3, <2>4
<1>8. CASE ReplaceExecute(c)
  <2>1. name = "replace" /\ cmd[c].name = "replace"
    BY <1>2, <1>8 DEF ReplaceExecute, Returned
  <2>2. CASE cmd[c].pc = "second"
    BY <1>5, <1>8, <2>2 DEF ReplaceExecute
  <2>3. CASE cmd[c].pc = "first" /\ call.ok
    <3>1. Returned(c, name, [cmd[c] EXCEPT !.pc = "second"])
      BY <1>8, <2>1, <2>3 DEF ReplaceExecute
    <3>2. cmd[c].value \in Value \cup {<<>>}
      BY <1>2 DEF CommandState
    <3>3. [cmd[c] EXCEPT !.pc = "second"] = [cmd[c] EXCEPT !.pc = "second", !.value = cmd[c].value]
      BY <1>2 DEF CommandState
    <3>4. QED
      BY <1>6, <2>1, <2>3, <3>1, <3>2, <3>3
  <2>4. CASE cmd[c].pc = "first" /\ ~call.ok
    BY <1>5, <1>8, <2>4 DEF ReplaceExecute
  <2>5. QED
    BY <1>3, <2>2, <2>3, <2>4
<1>9. QED
  BY <1>7, <1>8

(* A call of get returns: the command goes on to the next of its keys. *)
LEMMA GetStep ==
  ASSUME CInv, NEW c \in Client, GetExecute(c)
  PROVE  /\ Threads'
         /\ cmd'[c].items = IF call.ok THEN Append(cmd[c].items, <<call.key, call.out>>)
                            ELSE cmd[c].items
         /\ call.ok => call.key = Head(cmd[c].keys) /\ call.out = ContractStore[call.key]
<1> DEFINE w(m) == [m EXCEPT !.wrote = @ \/ (call.op \in StoreOps /\ call.ok)]
           list == IF call.ok THEN Append(cmd[c].items, <<call.key, call.out>>) ELSE cmd[c].items
           m == [cmd[c] EXCEPT !.keys = Tail(@), !.items = list]
<1>1. Returned(c, "get", m)
  BY DEF GetExecute
<1>2. /\ cmd[c] \in CommandState /\ Consistent(cmd[c]) /\ cmd[c].name = "get"
      /\ Calling(c) /\ NextCall(cmd[c]) = <<call.op, call.key, call.value>>
      /\ call.key \in Key /\ call.ok \in BOOLEAN
      /\ call.op = "Get" /\ call.ok => call.out = ContractStore[call.key] /\ call.out \in Value
  BY <1>1, ReturnedFacts
<1>3. call.op = "Get" /\ call.key = Head(cmd[c].keys)
  <2>1. NextCall(cmd[c]) = <<"Get", Head(cmd[c].keys), None>>
    BY <1>2, NextCallCases
  <2>2. <<call.op, call.key, call.value>> = <<"Get", Head(cmd[c].keys), None>>
    BY <1>2, <2>1, Zenon
  <2>3. QED
    BY <2>2
<1>4. list \in Seq(Key \X Value) /\ Tail(cmd[c].keys) \in Seq(Key)
  <2>1. /\ cmd[c].items \in Seq(Key \X Value)
        /\ cmd[c].keys \in Seq(Key) /\ cmd[c].keys # <<>>
    BY <1>2 DEF CommandState, Calling
  <2>2. call.ok => <<call.key, call.out>> \in Key \X Value
    BY <1>2, <1>3
  <2>3. \A T : \A s \in Seq(T), x \in T : Append(s, x) \in Seq(T)
    OBVIOUS
  <2>4. \A T : \A s \in Seq(T) : s # <<>> => Tail(s) \in Seq(T)
    OBVIOUS
  <2>5. QED
    BY <2>1, <2>2, <2>3, <2>4, Zenon
<1> HIDE DEF list
<1>5. /\ m \in CommandState /\ w(m).pc = cmd[c].pc /\ w(m).name = "get" /\ w(m).out = cmd[c].out
      /\ w(m).items = list
      /\ w(m).wrote = (cmd[c].wrote \/ (call.op \in StoreOps /\ call.ok))
  BY <1>2, <1>4 DEF CommandState
<1> HIDE DEF m
<1>6. Consistent(w(m))
  <2> HIDE DEF w
  <2> QED BY <1>2, <1>3, <1>5 DEF Consistent, StoreNames, StoreOps
<1>7. Threads'
  BY <1>1, <1>5, <1>6, ReturnedStep
<1>8. cmd'[c] = w(m)
  BY <1>1 DEF Returned, CInv
<1>9. QED
  BY <1>2, <1>3, <1>5, <1>7, <1>8 DEF list

(* A thread goes on inside the storage: no command changes. *)
LEMMA InnerStep ==
  ASSUME CInv, Step, UNCHANGED <<cmd, holder>>
  PROVE  Threads'
<1>1. /\ call.pc # "idle" /\ call'.pc # "idle"
      /\ call'.op = call.op /\ call'.key = call.key /\ call'.value = call.value
  BY StepKeepsCall DEF CInv
<1>2. holder # NoClient
  <2>1. holder = NoClient => call = NoCall
    BY Zenon DEF CInv, HolderInv
  <2>2. NoCall.pc = "idle"
    BY DEF NoCall
  <2>3. QED
    BY <1>1, <2>1, <2>2, Zenon
<1>3. HolderInv'
  BY <1>1, <1>2 DEF CInv, HolderInv, Calling
<1>4. QED
  BY <1>3 DEF CInv, Threads

(* Every step of the commands and the storage preserves the invariant. *)
LEMMA CommandsStep ==
  ASSUME CInv, [CNext]_cvars
  PROVE  CInv'
<1>1. Inv' /\ HeldInv'
  BY StorageStep, NextInv, HeldStep DEF CInv
<1>2. ASSUME CNext PROVE Threads'
  BY <1>2, InnerStep, LocalActions, EnterStep, SetAddStep, AppendReplaceStep, GetStep DEF CNext
<1>3. ASSUME UNCHANGED cvars PROVE Threads'
  BY <1>3 DEF cvars, vars, CInv, Threads, HolderInv, Calling
<1>4. QED
  BY <1>1, <1>2, <1>3 DEF CInv, Threads

-----------------------------------------------------------------------------
(* The theorems. *)

(* The inductive invariant of the commands holds of every behaviour. *)
THEOREM CommandsInvariance == CSpec => []CInv
<1>1. CInit => CInv
  <2> SUFFICES ASSUME CInit PROVE CInv
    OBVIOUS
  <2>1. Inv /\ call = NoCall
    BY InitInv DEF CInit, Init
  <2>2. HeldInv
    <3>1. \A k \in Key : ContractStore[k] = None
      BY DEF CInit, Init, ContractStore, ListedKeys
    <3>2. ContractCall.pc = "idle"
      BY <2>1 DEF ContractCall, NoCall
    <3>3. QED
      BY <3>1, <3>2 DEF HeldInv
  <2>3. Idle \in CommandState /\ Consistent(Idle)
    <3>1. Idle \in CommandState
      BY IdleType
    <3>2. Consistent(Idle)
      BY DEF Idle, Consistent, StoreNames
    <3>3. QED
      BY <3>1, <3>2
  <2>4. HolderInv
    BY <2>1, CommandsAssumption DEF CInit, HolderInv
  <2>5. QED
    BY <2>1, <2>2, <2>3, <2>4 DEF CInit, CInv
<1>2. CInv /\ [CNext]_cvars => CInv'
  BY CommandsStep
<1>3. QED
  BY <1>1, <1>2, PTL DEF CSpec

(* The threads that execute commands call the storage as its specification   *)
(* allows (one call at a time, with keys and values it knows, the value that *)
(* append puts together included), so that whatever holds of the storage     *)
(* under arbitrary callers holds of it under the commands.                   *)
THEOREM CommandsUseStorage == CSpec => Spec
<1>1. CInit => Init
  BY DEF CInit
<1>2. CInv /\ [CNext]_cvars => [Next]_vars
  BY StorageStep
<1>3. QED
  BY <1>1, <1>2, CommandsInvariance, PTL DEF CSpec, Spec

(* The commands see the contract of Storage.h, and the storage they share    *)
(* keeps its map and its list in step.                                       *)
THEOREM CommandsSeeContract == CSpec => ImplementsContract /\ []MapMatchesList
BY CommandsUseStorage, StorageRefinesContract, MapAlwaysMatchesList, PTL

(* The local variables of every command, and the thread that holds the       *)
(* storage's lock, always have their types: what append puts together is a   *)
(* value and a get command's list has keys and values.                       *)
THEOREM CommandsTypes == CSpec => []CTypeOK
<1>1. CInv => CTypeOK
  BY DEF CInv, CTypeOK, CommandState
<1>2. QED
  BY <1>1, CommandsInvariance, PTL

(* A command that answers NOT_STORED has not stored anything, and add        *)
(* answers STORED only if it stored, whatever the other threads do between   *)
(* and during its calls.                                                     *)
THEOREM CommandsAnswer == CSpec => []AnswersMatchStorage
<1>1. CInv => AnswersMatchStorage
  <2>1. CInv => \A c \in Client : Consistent(cmd[c])
    BY Zenon DEF CInv
  <2>2. ASSUME NEW c \in Client, Consistent(cmd[c])
        PROVE  /\ cmd[c].out = "NOT_STORED" => ~cmd[c].wrote
               /\ cmd[c].name = "add" /\ cmd[c].out = "STORED" => cmd[c].wrote
    BY <2>2, Zenon DEF Consistent
  <2>3. QED
    BY <2>1, <2>2, Zenon DEF AnswersMatchStorage
<1>2. QED
  BY <1>1, CommandsInvariance, PTL

(* Only GetExecute makes a command's list of items longer. *)
LEMMA OnlyGetReports ==
  ASSUME CInv, [CNext]_cvars, NEW c \in Client, Len(cmd'[c].items) > Len(cmd[c].items)
  PROVE  GetExecute(c)
<1>1. /\ cmd \in [Client -> CommandState] /\ cmd[c] \in CommandState
      /\ Len(cmd[c].items) \in Nat
  <2>1. cmd \in [Client -> CommandState] /\ cmd[c] \in CommandState
    BY DEF CInv
  <2>2. cmd[c].items \in Seq(Key \X Value)
    BY <2>1 DEF CommandState
  <2>3. QED
    BY <2>1, <2>2
<1>2. cmd' # cmd
  BY <1>1
<1>3. PICK d \in Client :
        \/ \E name \in StoreNames, k \in Key, a \in Args : Begin(d, name, <<k>>, a)
        \/ \E keys \in GetKeys : Begin(d, "get", keys, <<>>)
        \/ Begin(d, "stats", <<>>, <<>>)
        \/ SetExecute(d) \/ AddExecute(d) \/ AppendExecute(d) \/ ReplaceExecute(d)
        \/ GetExecute(d) \/ GetEnd(d) \/ StatsExecute(d)
        \/ Finish(d)
  BY <1>2 DEF CNext, Enter, cvars
<1>4. PICK m : cmd' = [cmd EXCEPT ![d] = m]
  BY <1>3, Zenon
  DEF Begin, SetExecute, AddExecute, AppendExecute, ReplaceExecute, GetExecute, GetEnd,
      StatsExecute, Finish, Returned
<1>5. c = d /\ cmd'[c] = m
  BY <1>1, <1>2, <1>4
<1>6. ASSUME m.items = <<>> \/ m.items = cmd[c].items PROVE FALSE
  BY <1>1, <1>5, <1>6
<1>7. ASSUME NEW name, NEW keys, NEW args, Begin(c, name, keys, args) PROVE FALSE
  <2>1. cmd'[c].items = <<>>
    BY <1>1, <1>7 DEF Begin, Idle
  <2>2. QED
    BY <1>5, <1>6, <2>1
<1>8. ASSUME NEW name, NEW r, Returned(c, name, r), r.items = cmd[c].items, r \in CommandState
      PROVE  FALSE
  <2>1. cmd'[c].items = r.items
    BY <1>1, <1>8 DEF Returned, CommandState
  <2>2. QED
    BY <1>5, <1>6, <1>8, <2>1
<1>9. \A out \in {"STORED", "NOT_STORED", "END"} :
        Done(cmd[c], out).items = cmd[c].items /\ Done(cmd[c], out) \in CommandState
  BY <1>1 DEF Done, CommandState
<1>10. CASE SetExecute(c) \/ AddExecute(c)
  BY <1>8, <1>9, <1>10 DEF SetExecute, AddExecute
<1>11. CASE AppendExecute(c)
  <2>1. PICK r : Returned(c, "append", r)
    BY <1>11 DEF AppendExecute
  <2>2. call.ok /\ cmd[c].pc = "first" => call.out \in Value
    <3>1. Calling(c) /\ NextCall(cmd[c]) = <<call.op, call.key, call.value>> /\ cmd[c].name = "append"
      BY <2>1, ReturnedFacts
    <3>2. cmd[c].pc = "first" => NextCall(cmd[c]) = <<"Get", Head(cmd[c].keys), None>>
      BY <3>1, NextCallCases
    <3>3. cmd[c].pc = "first" => call.op = "Get"
      BY <3>1, <3>2
    <3>4. QED
      BY <2>1, <3>3, ReturnedFacts
  <2>3. cmd[c].pc \in {"first", "second"}
    BY <2>1, ReturnedFacts DEF Calling
  <2>4. CASE cmd[c].pc = "first" /\ call.ok
    <3> DEFINE n == [cmd[c] EXCEPT !.pc = "second", !.value = call.out]
    <3>1. n \in CommandState /\ n.items = cmd[c].items
      BY <1>1, <2>2, <2>4 DEF CommandState
    <3>2. Returned(c, "append", n)
      BY <1>11, <2>4 DEF AppendExecute
    <3> HIDE DEF n
    <3>3. QED
      BY <1>8, <3>1, <3>2
  <2>5. QED
    BY <1>8, <1>9, <1>11, <2>3, <2>4 DEF AppendExecute
<1>12. CASE ReplaceExecute(c)
  <2> DEFINE n == [cmd[c] EXCEPT !.pc = "second"]
  <2>1. n \in CommandState /\ n.items = cmd[c].items
    BY <1>1 DEF CommandState
  <2> HIDE DEF n
  <2>2. QED
    BY <1>8, <1>9, <1>12, <2>1 DEF ReplaceExecute, n
<1>13. CASE GetEnd(c) \/ StatsExecute(c)
  <2>1. cmd'[c] = Done(cmd[c], "END")
    BY <1>1, <1>13 DEF GetEnd, StatsExecute
  <2>2. QED
    BY <1>5, <1>6, <1>9, <2>1
<1>14. CASE Finish(c)
  <2>1. cmd'[c].items = <<>>
    BY <1>1, <1>14 DEF Finish, Idle
  <2>2. QED
    BY <1>5, <1>6, <2>1
<1>15. QED
  BY <1>3, <1>5, <1>7, <1>10, <1>11, <1>12, <1>13, <1>14

(* A get command reports, for each of its keys, the value the storage holds  *)
(* for it at that moment.                                                    *)
THEOREM GetReports == CSpec => GetReportsHeldValues
<1>1. ASSUME CInv, [CNext]_cvars, NEW c \in Client, Len(cmd'[c].items) > Len(cmd[c].items)
      PROVE  LET item == cmd'[c].items[Len(cmd'[c].items)]
             IN  item[1] = Head(cmd[c].keys) /\ item[2] = ContractStore[item[1]]
  <2>1. GetExecute(c)
    BY <1>1, OnlyGetReports
  <2>2. cmd[c].items \in Seq(Key \X Value)
    BY <1>1 DEF CInv, CommandState
  <2>3. call.ok
    BY <1>1, <2>1, <2>2, GetStep
  <2>4. /\ cmd'[c].items = Append(cmd[c].items, <<call.key, call.out>>)
        /\ call.key = Head(cmd[c].keys) /\ call.out = ContractStore[call.key]
    BY <1>1, <2>1, <2>3, GetStep
  <2>5. cmd'[c].items[Len(cmd'[c].items)] = <<call.key, call.out>>
    <3> DEFINE s == cmd[c].items
               x == <<call.key, call.out>>
    <3>1. s \in Seq(Key \X Value)
      BY <2>2
    <3>2. cmd'[c].items = Append(s, x)
      BY <2>4
    <3> HIDE DEF s, x
    <3>3. Append(s, x)[Len(Append(s, x))] = x
      BY <3>1
    <3>4. cmd'[c].items[Len(cmd'[c].items)] = x
      BY <3>2, <3>3, Zenon
    <3>5. QED
      BY <3>4 DEF x
  <2>6. <<call.key, call.out>>[1] = call.key /\ <<call.key, call.out>>[2] = call.out
    OBVIOUS
  <2>7. QED
    BY <2>4, <2>5, <2>6, Zenon
<1>2. CInv /\ [CNext]_cvars =>
        [\A c \in Client :
           Len(cmd'[c].items) > Len(cmd[c].items) =>
             LET item == cmd'[c].items[Len(cmd'[c].items)]
             IN  item[1] = Head(cmd[c].keys) /\ item[2] = ContractStore[item[1]]]_cvars
  BY <1>1
<1>3. QED
  BY <1>2, CommandsInvariance, PTL DEF CSpec, GetReportsHeldValues
=============================================================================
