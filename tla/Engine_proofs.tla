---------------------------- MODULE Engine_proofs ----------------------------
(***************************************************************************)
(* Proofs about the coroutine engine, for any number of routines and any   *)
(* number of switches between them: the list `alive' keeps every routine   *)
(* that has not had control, and as long as only routines of the list give *)
(* up control, no deleted context is used and start returns only when all  *)
(* routines are done.                                                      *)
(***************************************************************************)
EXTENDS Engine, TLAPS

-----------------------------------------------------------------------------
(* Chains of links. *)

Link == [Routine -> Routine \cup {Nil}]

(* A routine is linked only to routines created before it. *)
Descending(link) == \A r \in Routine : link[r] < r

(* A chain begins at its head, goes on along the links, is the smallest set  *)
(* that does, and is empty without a head.                                   *)
LEMMA ChainBasics ==
  ASSUME NEW head \in Routine \cup {Nil}, NEW link \in Link
  PROVE  /\ Chain(head, link) \subseteq Routine
         /\ head \in Chain(head, link) \cup {Nil}
         /\ \A s \in Chain(head, link) : link[s] \in Chain(head, link) \cup {Nil}
<1>1. Chain(head, link) \subseteq Routine /\ head \in Chain(head, link) \cup {Nil}
  BY DEF Chain
<1>2. ASSUME NEW s \in Chain(head, link), link[s] # Nil PROVE link[s] \in Chain(head, link)
  <2>1. link[s] \in Routine
    BY <1>1, <1>2 DEF Link
  <2>2. QED
    BY <1>2, <2>1 DEF Chain
<1>3. QED
  BY <1>1, <1>2

LEMMA ChainLeast ==
  ASSUME NEW head, NEW link, NEW S \in SUBSET Routine,
         head \in S \cup {Nil}, \A s \in S : link[s] \in S \cup {Nil}
  PROVE  Chain(head, link) \subseteq S
BY DEF Chain

LEMMA ChainNil ==
  ASSUME NEW link
  PROVE  Chain(Nil, link) = {}
<1>1. {} \in SUBSET Routine /\ Nil \in {} \cup {Nil} /\ \A s \in {} : link[s] \in {} \cup {Nil}
  OBVIOUS
<1>2. QED
  BY <1>1 DEF Chain

(* Two functions that agree on the routines of a chain have the same chain. *)
LEMMA ChainSame ==
  ASSUME NEW head \in Routine \cup {Nil}, NEW link \in Link, NEW other \in Link,
         \A s \in Chain(head, link) : other[s] = link[s]
  PROVE  Chain(head, other) = Chain(head, link)
<1>1. Chain(head, other) \subseteq Chain(head, link)
  BY ChainBasics, ChainLeast
<1>2. Chain(head, link) \subseteq Chain(head, link) \cap Chain(head, other)
  <2> DEFINE S == Chain(head, link) \cap Chain(head, other)
  <2>1. S \in SUBSET Routine /\ head \in S \cup {Nil}
    BY ChainBasics
  <2>2. \A s \in S : link[s] \in S \cup {Nil}
    BY ChainBasics
  <2>3. Chain(head, link) \subseteq S
    <3> HIDE DEF S
    <3> QED BY <2>1, <2>2, ChainLeast
  <2>4. QED
    BY <2>3
<1>3. QED
  BY <1>1, <1>2

(* A chain is its head and the chain of what the head is linked to. *)
LEMMA ChainStep ==
  ASSUME NEW head \in Routine, NEW link \in Link
  PROVE  Chain(head, link) = {head} \cup Chain(link[head], link)
<1> DEFINE S == {head} \cup Chain(link[head], link)
<1>1. link[head] \in Routine \cup {Nil} /\ head # Nil
  BY DEF Link, Routine, Nil
<1>2. Chain(head, link) \subseteq S
  <2>1. S \in SUBSET Routine /\ head \in S
    BY <1>1, ChainBasics
  <2>2. \A s \in S : link[s] \in S \cup {Nil}
    BY <1>1, ChainBasics
  <2> HIDE DEF S
  <2>3. QED
    BY <2>1, <2>2, ChainLeast
<1>3. Chain(link[head], link) \subseteq Chain(head, link)
  BY <1>1, ChainBasics, ChainLeast
<1>4. QED
  BY <1>1, <1>2, <1>3, ChainBasics

(* Links that descend lead away from the head. *)
LEMMA ChainBelow ==
  ASSUME NEW head \in Routine \cup {Nil}, NEW link \in Link, Descending(link)
  PROVE  \A r \in Chain(head, link) : r <= head
<1> DEFINE S == {r \in Routine : r <= head}
<1>1. S \in SUBSET Routine /\ head \in S \cup {Nil}
  BY EngineAssumption DEF Routine, Nil
<1>2. \A s \in S : link[s] \in S \cup {Nil}
  BY EngineAssumption DEF Descending, Link, Routine, Nil
<1>3. Chain(head, link) \subseteq S
  <2> HIDE DEF S
  <2> QED BY <1>1, <1>2, ChainLeast
<1>4. QED
  BY <1>3

(* Of two routines of a chain, one follows the other. *)
LEMMA ChainComparable ==
  ASSUME NEW head \in Routine \cup {Nil}, NEW link \in Link,
         NEW x \in Chain(head, link), NEW y \in Chain(head, link)
  PROVE  y \in Chain(x, link) \/ x \in Chain(y, link)
<1> DEFINE C == Chain(head, link)
           S == {u \in C : \A v \in C : v \in Chain(u, link) \/ u \in Chain(v, link)}
<1>1. S \in SUBSET Routine /\ head \in S \cup {Nil}
  BY ChainBasics
<1>2. ASSUME NEW s \in S, link[s] # Nil PROVE link[s] \in S
  <2>1. s \in Routine /\ link[s] \in C /\ link[s] \in Routine
    BY <1>2, ChainBasics
  <2>2. ASSUME NEW v \in C, v \notin Chain(link[s], link) PROVE link[s] \in Chain(v, link)
    <3>1. v \in Routine
      BY ChainBasics
    <3>2. CASE v \in Chain(s, link)
      <4>1. v = s
        BY <2>1, <2>2, <3>2, ChainStep
      <4>2. QED
        BY <1>2, <2>1, <4>1, ChainBasics
    <3>3. CASE s \in Chain(v, link)
      BY <1>2, <3>1, <3>3, ChainBasics
    <3>4. QED
      BY <3>2, <3>3
  <2>3. QED
    BY <2>1, <2>2
<1>3. C \subseteq S
  <2>1. \A s \in S : link[s] \in S \cup {Nil}
    BY <1>2
  <2> HIDE DEF S
  <2>2. QED
    BY <1>1, <2>1, ChainLeast
<1>4. QED
  BY <1>3

(* No two routines of a descending chain are linked to the same one. *)
LEMMA OnePredecessor ==
  ASSUME NEW head \in Routine \cup {Nil}, NEW link \in Link, Descending(link),
         NEW x \in Chain(head, link), NEW y \in Chain(head, link),
         link[x] = link[y], link[x] # Nil
  PROVE  x = y
<1>1. x \in Routine /\ y \in Routine /\ link[x] \in Routine
  BY ChainBasics DEF Link
<1>2. ASSUME NEW u \in Routine, NEW v \in Routine, link[u] = link[v], link[u] \in Routine,
             v \in Chain(u, link)
      PROVE  u = v
  <2>1. v \in {u} \cup Chain(link[u], link)
    BY <1>2, ChainStep
  <2>2. v \notin Chain(link[u], link)
    <3>1. \A r \in Chain(link[u], link) : r <= link[u]
      BY <1>2, ChainBelow
    <3>2. link[v] < v /\ v \in Nat
      BY DEF Descending, Routine
    <3>3. link[v] \in Nat
      BY <1>2 DEF Routine
    <3>4. QED
      BY <1>2, <3>1, <3>2, <3>3
  <2>3. QED
    BY <2>1, <2>2
<1>3. QED
  BY <1>1, <1>2, ChainComparable

-----------------------------------------------------------------------------
(* The inductive invariant. *)

(* Links lead from younger routines to older ones, back links the other way; *)
(* a back link answers a link (but not every link has one).                  *)
LinksInv ==
  /\ Descending(next)
  /\ \A r \in Routine : prev[r] # Nil => prev[r] > r /\ next[prev[r]] = r
  /\ \A r \in Routine : r > made => next[r] = Nil /\ prev[r] = Nil

ControlInv ==
  /\ done \subseteq started
  /\ ~fault => cur_routine \notin done
  /\ cur_routine # Nil => cur_routine \in started
  /\ phase = "off" => made = 0
  /\ phase = "returned" => alive = Nil /\ cur_routine = Nil

(* No deleted context has been used, and none is in the list. *)
Whole == ~fault /\ Listed \cap done = {}

(* Then routines that have not had control are in the list, and back links   *)
(* are between routines of the list: one that was taken out has none.        *)
WholeInv ==
  Whole =>
    /\ (1..made) \ started \subseteq Listed
    /\ \A r \in Routine : prev[r] # Nil => r \in Listed /\ prev[r] \in Listed

(* As long as only routines of the list give up control, the list is whole   *)
(* and has all suspended routines.  Until the first yield the routine with   *)
(* control is in it and all back links are there; from then on control goes  *)
(* to routines that were taken out, whose link still leads into the list.    *)
OrderlyInv ==
  orderly =>
    /\ Whole
    /\ (1..made) \ (done \cup {cur_routine}) \subseteq Listed
    /\ cur_routine \in Listed => \A r \in Listed \ {alive} : prev[r] # Nil
    /\ cur_routine \notin Listed \cup {Nil} => next[cur_routine] \in Listed \cup {Nil}

EInv == ETypeOK /\ LinksInv /\ ControlInv /\ WholeInv /\ OrderlyInv

-----------------------------------------------------------------------------
(* What the steps do to the list. *)

(* The types of the links, of the head of the list and of the list. *)
LEMMA ListTypes ==
  ASSUME ETypeOK, Descending(next)
  PROVE  /\ next \in Link /\ prev \in Link
         /\ alive \in Routine \cup {Nil} /\ cur_routine \in Routine \cup {Nil}
         /\ made \in Nat /\ made <= MaxRoutines /\ 1..made \subseteq Routine
         /\ Nil \notin Routine
         /\ Listed \subseteq Routine /\ alive \in Listed \cup {Nil}
         /\ \A s \in Listed : next[s] \in Listed \cup {Nil}
         /\ \A s \in Listed : s <= alive /\ s <= made
<1>1. /\ next \in Link /\ prev \in Link
      /\ alive \in Routine \cup {Nil} /\ cur_routine \in Routine \cup {Nil}
      /\ made \in Nat /\ made <= MaxRoutines /\ 1..made \subseteq Routine
      /\ Nil \notin Routine /\ alive <= made
  BY EngineAssumption DEF ETypeOK, Link, Routine, Nil
<1>2. /\ Listed \subseteq Routine /\ alive \in Listed \cup {Nil}
      /\ \A s \in Listed : next[s] \in Listed \cup {Nil}
  BY <1>1, ChainBasics DEF Listed
<1>3. \A s \in Listed : s <= alive
  BY <1>1, ChainBelow DEF Listed
<1>4. \A s \in Listed : s <= made
  BY <1>1, <1>2, <1>3 DEF Routine, Nil
<1>5. QED
  BY <1>1, <1>2, <1>3, <1>4

(* run puts the new routine in front of the list. *)
LEMMA RunList ==
  ASSUME ETypeOK, LinksInv, Run
  PROVE  /\ Listed' = Listed \cup {made + 1}
         /\ made + 1 \in Routine /\ made + 1 \notin Listed
<1>1. /\ made + 1 \in Routine /\ made + 1 \notin Listed
  BY ListTypes, EngineAssumption DEF LinksInv, Run, Routine
<1>2. next' \in Link /\ alive' = made + 1 /\ next'[made + 1] = alive
  BY <1>1, ListTypes DEF LinksInv, Run, Link
<1>3. \A s \in Listed : next'[s] = next[s]
  BY <1>1, ListTypes DEF LinksInv, Run, Link
<1>4. Chain(alive, next') = Listed
  BY <1>2, <1>3, ListTypes, ChainSame DEF LinksInv, Listed
<1>5. Chain(made + 1, next') = {made + 1} \cup Chain(alive, next')
  BY <1>1, <1>2, ChainStep
<1>6. QED
  BY <1>1, <1>2, <1>4, <1>5 DEF Listed

(* yield takes the first routine out. *)
LEMMA TakeHeadList ==
  ASSUME ETypeOK, LinksInv, TakeHead, UNCHANGED next
  PROVE  Listed' = Listed \ {alive} /\ alive \in Listed
<1>1. alive \in Routine /\ alive \in Listed /\ alive' = next[alive] /\ next[alive] \in Routine \cup {Nil}
  BY ListTypes DEF LinksInv, TakeHead, Link
<1>2. Listed = {alive} \cup Chain(next[alive], next)
  BY <1>1, ListTypes, ChainStep DEF LinksInv, Listed
<1>3. alive \notin Chain(next[alive], next)
  <2>1. \A r \in Chain(next[alive], next) : r <= next[alive]
    BY <1>1, ListTypes, ChainBelow DEF LinksInv
  <2>2. next[alive] < alive /\ alive \in Nat /\ next[alive] \in Nat
    BY <1>1 DEF LinksInv, Descending, Routine, Nil
  <2>3. QED
    BY <2>1, <2>2
<1>4. QED
  BY <1>1, <1>2, <1>3 DEF Listed

(* What the links are after a routine has finished. *)
LEMMA FinishLinks ==
  ASSUME ETypeOK, LinksInv, Finish
  PROVE  /\ cur_routine \in Routine
         /\ next' \in Link /\ prev' \in Link
         /\ \A s \in Routine :
              next'[s] = IF s = cur_routine THEN Nil
                         ELSE IF s = prev[cur_routine] THEN next[cur_routine] ELSE next[s]
         /\ \A s \in Routine :
              prev'[s] = IF s = cur_routine THEN Nil
                         ELSE IF s = next[cur_routine] THEN prev[cur_routine] ELSE prev[s]
<1>1. /\ cur_routine \in Routine /\ next \in Link /\ prev \in Link /\ Nil \notin Routine
      /\ next[cur_routine] \in Routine \cup {Nil} /\ prev[cur_routine] \in Routine \cup {Nil}
  BY ListTypes DEF LinksInv, Finish, HasControl, Link
<1>2. /\ next' = [Set(next, prev[cur_routine], next[cur_routine]) EXCEPT ![cur_routine] = Nil]
      /\ prev' = [Set(prev, next[cur_routine], prev[cur_routine]) EXCEPT ![cur_routine] = Nil]
  BY DEF Finish
<1>3. /\ next' \in Link
      /\ \A s \in Routine :
           next'[s] = IF s = cur_routine THEN Nil
                      ELSE IF s = prev[cur_routine] THEN next[cur_routine] ELSE next[s]
  BY <1>1, <1>2 DEF Set, Link
<1>4. /\ prev' \in Link
      /\ \A s \in Routine :
           prev'[s] = IF s = cur_routine THEN Nil
                      ELSE IF s = next[cur_routine] THEN prev[cur_routine] ELSE prev[s]
  BY <1>1, <1>2 DEF Set, Link
<1>5. QED
  BY <1>1, <1>3, <1>4

(* The routines of the list down to one whose links, and those of all before *)
(* it, have not changed are still in the list.                               *)
LEMMA ChainPrefix ==
  ASSUME NEW head \in Routine \cup {Nil}, NEW link \in Link, NEW other \in Link,
         Descending(link), NEW x \in Chain(head, link),
         \A s \in Chain(head, link) : s > x => other[s] = link[s]
  PROVE  x \in Chain(head, other)
<1> DEFINE S == {s \in Chain(head, link) : s \in Chain(head, other) \/ s < x}
<1>1. S \in SUBSET Routine /\ head \in S \cup {Nil}
  BY ChainBasics
<1>2. ASSUME NEW s \in S, link[s] # Nil PROVE link[s] \in S \/ s = x
  <2>1. s \in Routine /\ x \in Routine /\ link[s] \in Chain(head, link) /\ link[s] \in Routine /\ link[s] < s
    BY <1>2, ChainBasics DEF Descending
  <2>2. CASE s < x
    <3>1. link[s] < x
      BY <2>1, <2>2 DEF Routine
    <3>2. QED
      BY <2>1, <3>1
  <2>3. CASE s > x
    <3>1. s \in Chain(head, other)
      BY <2>1, <2>3 DEF Routine
    <3>2. other[s] = link[s]
      BY <2>3
    <3>3. link[s] \in Chain(head, other)
      BY <1>2, <3>1, <3>2, ChainBasics
    <3>4. QED
      BY <2>1, <3>3
  <2>4. QED
    BY <2>1, <2>2, <2>3 DEF Routine
<1>3. CASE x \in S
  BY <1>3, ChainBasics DEF Routine
<1>4. CASE x \notin S
  <2>1. \A s \in S : link[s] \in S \cup {Nil}
    BY <1>2, <1>4
  <2>2. Chain(head, link) \subseteq S
    <3> HIDE DEF S
    <3> QED BY <1>1, <2>1, ChainLeast
  <2>3. QED
    BY <2>2, <1>4
<1>5. QED
  BY <1>3, <1>4

(* A routine that is not in the list leaves it alone when it finishes; the   *)
(* first one leaves it; another one leaves it if its back link leads to a    *)
(* routine of the list, and otherwise stays in it, although it is deleted.   *)
LEMMA FinishList ==
  ASSUME ETypeOK, LinksInv, Finish
  PROVE  IF cur_routine \notin Listed THEN Listed' = Listed
         ELSE IF cur_routine = alive \/ prev[cur_routine] \in Listed
         THEN Listed' = Listed \ {cur_routine}
         ELSE cur_routine \in Listed'
<1> DEFINE pc == cur_routine
           q == prev[cur_routine]
<1>1. /\ pc \in Routine /\ next \in Link /\ next' \in Link /\ Nil \notin Routine
      /\ Listed \subseteq Routine /\ alive \in Routine \cup {Nil} /\ alive \in Listed \cup {Nil}
      /\ q \in Routine \cup {Nil} /\ next[pc] \in Routine \cup {Nil}
      /\ Descending(next)
      /\ \A s \in Listed : next[s] \in Listed \cup {Nil}
      /\ \A s \in Listed : s <= alive
  BY ListTypes, FinishLinks DEF LinksInv, Link
<1>2. \A s \in Routine :
        next'[s] = IF s = pc THEN Nil ELSE IF s = q THEN next[pc] ELSE next[s]
  BY FinishLinks
<1>3. q # Nil => q > pc /\ next[q] = pc
  BY <1>1 DEF LinksInv
<1>4. alive' = IF alive = pc THEN next[pc] ELSE alive
  BY DEF Finish
<1> HIDE DEF pc, q
<1>5. CASE pc \notin Listed
  <2>1. \A s \in Listed : s # pc /\ s # q
    BY <1>1, <1>3, <1>5
  <2>2. alive' = alive
    BY <1>1, <1>4, <1>5
  <2>3. QED
    BY <1>1, <1>2, <1>5, <2>1, <2>2, ChainSame DEF Listed, pc
<1>6. CASE pc = alive
  <2>1. Listed = {pc} \cup Chain(next[pc], next) /\ pc \in Listed
    BY <1>1, <1>6, ChainStep DEF Listed
  <2>2. \A s \in Chain(next[pc], next) : s < pc /\ s \in Routine
    <3>1. \A s \in Chain(next[pc], next) : s <= next[pc] /\ s \in Routine
      BY <1>1, ChainBelow, ChainBasics
    <3>2. next[pc] < pc
      BY <1>1 DEF Descending
    <3>3. QED
      BY <1>1, <3>1, <3>2 DEF Routine, Nil
  <2>3. \A s \in Chain(next[pc], next) : next'[s] = next[s]
    BY <1>1, <1>2, <1>3, <2>2 DEF Routine, Nil
  <2>4. Chain(next[pc], next') = Chain(next[pc], next)
    BY <1>1, <2>3, ChainSame
  <2>5. pc \notin Chain(next[pc], next)
    BY <1>1, <2>2 DEF Routine
  <2>6. QED
    BY <1>4, <1>6, <2>1, <2>4, <2>5 DEF Listed, pc
<1>7. CASE pc \in Listed /\ pc # alive /\ q \in Listed
  <2>1. q \in Routine /\ q # Nil /\ q > pc /\ next[q] = pc /\ alive' = alive /\ q # pc
    BY <1>1, <1>3, <1>4, <1>7 DEF Routine
  <2>2. Listed' \subseteq Listed \ {pc}
    <3>1. alive' \in (Listed \ {pc}) \cup {Nil}
      BY <1>1, <1>7, <2>1
    <3>2. ASSUME NEW s \in Listed \ {pc} PROVE next'[s] \in (Listed \ {pc}) \cup {Nil}
      <4>1. CASE s = q
        <5>1. next'[s] = next[pc]
          BY <1>1, <1>2, <4>1
        <5>2. next[pc] < pc
          BY <1>1 DEF Descending
        <5>3. QED
          BY <1>1, <1>7, <5>1, <5>2 DEF Routine
      <4>2. CASE s # q
        <5>1. next'[s] = next[s]
          BY <1>1, <1>2, <4>2
        <5>2. next[s] # pc
          BY <1>1, <1>7, <2>1, <4>2, OnePredecessor DEF Listed
        <5>3. QED
          BY <1>1, <5>1, <5>2
      <4>3. QED
        BY <4>1, <4>2
    <3> DEFINE T == Listed \ {pc}
    <3>3. /\ T \in SUBSET Routine /\ alive' \in T \cup {Nil}
          /\ \A s \in T : next'[s] \in T \cup {Nil}
      BY <1>1, <3>1, <3>2
    <3>4. Listed' \subseteq T
      <4> HIDE DEF T
      <4>1. alive' \in Routine \cup {Nil}
        BY <1>1, <2>1
      <4>2. QED
        BY <1>1, <3>3, <4>1, ChainLeast DEF Listed
    <3>5. QED
      BY <3>4
  <2>3. q \in Listed'
    <3>1. \A s \in Listed : s > q => next'[s] = next[s]
      BY <1>1, <1>2, <2>1 DEF Routine
    <3>2. QED
      BY <1>1, <1>7, <2>1, <3>1, ChainPrefix DEF Listed
  <2>4. next[pc] \in Listed' \cup {Nil}
    <3>1. next'[q] = next[pc]
      BY <1>2, <2>1
    <3>2. QED
      BY <1>1, <2>1, <2>3, <3>1, ChainBasics DEF Listed
  <2>5. Listed \ {pc} \subseteq Listed'
    <3> DEFINE S == {s \in Listed : s \in Listed' \/ s = pc}
    <3>1. S \in SUBSET Routine /\ alive \in S \cup {Nil}
      <4>1. alive' \in Listed' \cup {Nil}
        BY <1>1, <2>1, ChainBasics DEF Listed
      <4>2. QED
        BY <1>1, <2>1, <4>1
    <3>2. ASSUME NEW s \in S PROVE next[s] \in S \cup {Nil}
      <4>1. CASE s = pc
        BY <1>1, <1>7, <2>4, <4>1
      <4>2. CASE s = q
        BY <1>7, <2>1, <4>2
      <4>3. CASE s # pc /\ s # q
        <5>1. s \in Listed' /\ next'[s] = next[s]
          BY <1>1, <1>2, <4>3
        <5>2. next'[s] \in Listed' \cup {Nil}
          BY <1>1, <2>1, <5>1, ChainBasics DEF Listed
        <5>3. QED
          BY <1>1, <5>1, <5>2
      <4>4. QED
        BY <4>1, <4>2, <4>3
    <3>3. Listed \subseteq S
      <4> HIDE DEF S
      <4> QED BY <3>1, <3>2, ChainLeast DEF Listed
    <3>4. QED
      BY <3>3
  <2>6. QED
    BY <1>7, <2>2, <2>5 DEF pc, q
<1>8. CASE pc \in Listed /\ pc # alive /\ q \notin Listed
  <2>1. \A s \in Listed : s > pc => next'[s] = next[s]
    BY <1>1, <1>2, <1>8 DEF Routine
  <2>2. pc \in Listed'
    BY <1>1, <1>4, <1>8, <2>1, ChainPrefix DEF Listed
  <2>3. QED
    BY <1>8, <2>2 DEF pc, q
<1>9. QED
  BY <1>5, <1>6, <1>7, <1>8 DEF pc, q

-----------------------------------------------------------------------------
(* The invariant is inductive. *)

(* The links stay ordered: a routine is linked forwards to older ones and    *)
(* backwards to the newer one that is linked to it.                          *)
LEMMA LinksStep ==
  ASSUME EInv, ENext
  PROVE  ETypeOK' /\ LinksInv'
<1> USE DEF EInv
<1>1. /\ next \in Link /\ prev \in Link /\ Nil \notin Routine /\ Nil = 0
      /\ alive \in Routine \cup {Nil} /\ cur_routine \in Routine \cup {Nil}
      /\ made \in Nat /\ made <= MaxRoutines /\ 1..made \subseteq Routine
      /\ \A r \in Routine : next[r] \in Routine \cup {Nil} /\ prev[r] \in Routine \cup {Nil}
      /\ \A r \in Routine : next[r] < r
      /\ \A r \in Routine : prev[r] # Nil => prev[r] > r /\ next[prev[r]] = r
      /\ \A r \in Routine : r > made => next[r] = Nil /\ prev[r] = Nil
      /\ alive <= made /\ cur_routine <= made
  BY ListTypes, EngineAssumption DEF LinksInv, Descending, Link, Nil, ETypeOK
<1>2. /\ phase \in {"off", "on", "returned"}
      /\ alive \in 0..made /\ cur_routine \in 0..made
      /\ done \subseteq 1..made /\ started \subseteq 1..made
      /\ fault \in BOOLEAN /\ orderly \in BOOLEAN /\ switches \in 0..MaxSwitches
  BY DEF ETypeOK
<1>3. MaxRoutines \in Nat \ {0} /\ MaxSwitches \in Nat /\ Routine = 1..MaxRoutines
  BY EngineAssumption DEF Routine
(* What is enough about the links after the step. *)
<1> DEFINE Links ==
      /\ next' \in Link /\ prev' \in Link
      /\ \A r \in Routine : next'[r] < r
      /\ \A r \in Routine : prev'[r] # Nil => prev'[r] > r /\ next'[prev'[r]] = r
      /\ \A r \in Routine : r > made' => next'[r] = Nil /\ prev'[r] = Nil
<1>4. ASSUME Links PROVE LinksInv' /\ \A r \in Routine : next'[r] # r /\ prev'[r] # r
  <2>1. LinksInv'
    BY <1>4 DEF LinksInv, Descending
  <2>2. \A r \in Routine : next'[r] # r /\ prev'[r] # r
    BY <1>1, <1>3, <1>4
  <2>3. QED
    BY <2>1, <2>2
<1>5. CASE Start
  <2>1. /\ made = 0 /\ made' = 1 /\ alive' = 1 /\ cur_routine' = 1 /\ phase' = "on"
        /\ next' = next /\ prev' = prev /\ done' = done /\ fault' = fault
        /\ orderly' = orderly /\ switches' = switches /\ started' = started \cup {1}
    BY <1>5 DEF Start, ControlInv, Main, Resumes
  <2>2. Links
    BY <1>1, <1>3, <2>1
  <2>3. ETypeOK'
    <3>1. /\ phase' \in {"off", "on", "returned"} /\ made' \in 0..MaxRoutines
          /\ alive' \in 0..made' /\ cur_routine' \in 0..made'
          /\ done' \subseteq 1..made' /\ started' \subseteq 1..made'
          /\ fault' \in BOOLEAN /\ orderly' \in BOOLEAN /\ switches' \in 0..MaxSwitches
      BY <1>2, <1>3, <2>1
    <3>2. QED
      BY <1>4, <2>2, <3>1 DEF ETypeOK, Link
  <2>4. QED
    BY <1>4, <2>2, <2>3
<1>6. CASE Run
  <2>1. /\ made + 1 \in Routine /\ made' = made + 1
        /\ next' = [next EXCEPT ![made + 1] = alive]
        /\ prev' = Set(prev, alive, made + 1)
    BY <1>1, <1>3, <1>6 DEF Run
  <2>2. next' \in Link /\ \A r \in Routine : next'[r] = IF r = made + 1 THEN alive ELSE next[r]
    BY <1>1, <2>1 DEF Link
  <2>3. prev' \in Link /\ \A r \in Routine : prev'[r] = IF r = alive THEN made + 1 ELSE prev[r]
    BY <1>1, <2>1 DEF Link, Set
  <2>4. \A r \in Routine : next'[r] < r
    BY <1>1, <1>3, <2>1, <2>2
  <2>5. ASSUME NEW r \in Routine, prev'[r] # Nil PROVE prev'[r] > r /\ next'[prev'[r]] = r
    <3>1. CASE r = alive
      BY <1>1, <1>3, <2>1, <2>2, <2>3, <2>5, <3>1
    <3>2. CASE r # alive
      <4>1. prev'[r] = prev[r] /\ prev[r] \in Routine /\ prev[r] > r /\ next[prev[r]] = r
        BY <1>1, <2>3, <2>5, <3>2
      <4>2. prev[r] # made + 1
        BY <1>1, <1>3, <2>1, <4>1
      <4>3. QED
        BY <2>2, <4>1, <4>2
    <3>3. QED
      BY <3>1, <3>2
  <2>6. \A r \in Routine : r > made' => next'[r] = Nil /\ prev'[r] = Nil
    BY <1>1, <1>3, <2>1, <2>2, <2>3
  <2>7. Links
    BY <2>2, <2>3, <2>4, <2>5, <2>6
  <2>8. ETypeOK'
    <3>1. /\ phase' \in {"off", "on", "returned"} /\ made' \in 0..MaxRoutines
          /\ alive' \in 0..made' /\ cur_routine' \in 0..made'
          /\ done' \subseteq 1..made' /\ started' \subseteq 1..made'
          /\ fault' \in BOOLEAN /\ orderly' \in BOOLEAN /\ switches' \in 0..MaxSwitches
      BY <1>1, <1>2, <1>3, <1>6 DEF Run
    <3>2. QED
      BY <1>4, <2>7, <3>1 DEF ETypeOK, Link
  <2>9. QED
    BY <1>4, <2>7, <2>8
<1>7. ASSUME TakeHead, UNCHANGED <<phase, made, next, done>>,
             orderly' \in BOOLEAN, switches' \in 0..MaxSwitches
      PROVE  ETypeOK' /\ LinksInv'
  <2>1. alive \in Routine /\ next[alive] \in 0..made
    BY <1>1, <1>2, <1>3, <1>7 DEF TakeHead
  <2>2. prev' \in Link /\ \A r \in Routine : prev'[r] = IF r = next[alive] THEN Nil ELSE prev[r]
    BY <1>1, <1>7, <2>1 DEF Link, Set, TakeHead
  <2>3. Links
    BY <1>1, <1>7, <2>2
  <2>4. ETypeOK'
    BY <1>1, <1>2, <1>4, <1>7, <2>1, <2>3 DEF ETypeOK, Link, TakeHead, Resumes
  <2>5. QED
    BY <1>4, <2>3, <2>4
<1>8. CASE Yield
  BY <1>2, <1>3, <1>7, <1>8 DEF Yield, Suspends
<1>9. CASE StartYields
  BY <1>2, <1>7, <1>9 DEF StartYields
<1>10. ASSUME NEW r \in Routine, Sched(r) PROVE ETypeOK' /\ LinksInv'
  <2>1. Links
    BY <1>1, <1>10 DEF Sched
  <2>2. ETypeOK'
    BY <1>1, <1>2, <1>3, <1>4, <1>10, <2>1 DEF Sched, Suspends, Resumes, ETypeOK, Link
  <2>3. QED
    BY <1>4, <2>1, <2>2
<1>11. CASE Finish
  <2> DEFINE pc == cur_routine
             q == prev[cur_routine]
             n == next[cur_routine]
  <2>1. /\ pc \in Routine /\ next' \in Link /\ prev' \in Link /\ made' = made
        /\ \A s \in Routine : next'[s] = IF s = pc THEN Nil ELSE IF s = q THEN n ELSE next[s]
        /\ \A s \in Routine : prev'[s] = IF s = pc THEN Nil ELSE IF s = n THEN q ELSE prev[s]
    BY <1>11, FinishLinks DEF Finish
  <2>2. /\ q \in Routine \cup {Nil} /\ n \in Routine \cup {Nil} /\ n < pc /\ n <= made
        /\ q # Nil => q > pc /\ next[q] = pc
        /\ n = next[pc] /\ q = prev[pc]
    BY <1>1, <1>3, <2>1
  <2> HIDE DEF pc, q, n
  <2>3. \A r \in Routine : next'[r] < r
    BY <1>1, <1>3, <2>1, <2>2
  <2>4. ASSUME NEW r \in Routine, prev'[r] # Nil PROVE prev'[r] > r /\ next'[prev'[r]] = r
    <3>1. r # pc
      BY <2>1, <2>4
    <3>2. CASE r = n
      BY <1>1, <1>3, <2>1, <2>2, <2>4, <3>1, <3>2
    <3>3. CASE r # n
      <4>1. prev'[r] = prev[r] /\ prev[r] \in Routine /\ prev[r] > r /\ next[prev[r]] = r
        BY <1>1, <2>1, <2>4, <3>1, <3>3
      <4>2. prev[r] # pc /\ prev[r] # q
        BY <1>1, <2>1, <2>2, <3>1, <3>3, <4>1
      <4>3. QED
        BY <2>1, <4>1, <4>2
    <3>4. QED
      BY <3>2, <3>3
  <2>5. \A r \in Routine : r > made' => next'[r] = Nil /\ prev'[r] = Nil
    <3> SUFFICES ASSUME NEW r \in Routine, r > made PROVE next'[r] = Nil /\ prev'[r] = Nil
      BY <2>1
    <3>1. next[r] = Nil /\ prev[r] = Nil
      BY <1>1
    <3>2. r # q /\ r # n
      BY <1>1, <1>3, <2>1, <2>2, <3>1
    <3>3. QED
      BY <2>1, <3>1, <3>2
  <2>6. Links
    BY <2>1, <2>3, <2>4, <2>5
  <2>7. ETypeOK'
    <3>1. /\ phase' \in {"off", "on", "returned"} /\ made' \in 0..MaxRoutines
          /\ alive' \in 0..made' /\ cur_routine' \in 0..made'
          /\ done' \subseteq 1..made' /\ started' \subseteq 1..made'
          /\ fault' \in BOOLEAN /\ orderly' \in BOOLEAN /\ switches' \in 0..MaxSwitches
      <4>1. pc \in 1..made
        BY <1>1, <1>2, <1>3, <2>1 DEF pc
      <4>2. n \in 0..made
        BY <1>1, <1>3, <2>2
      <4>3. alive' \in 0..made'
        BY <1>2, <1>11, <4>2 DEF Finish, n
      <4>4. QED
        BY <1>1, <1>2, <1>3, <1>11, <4>1, <4>3 DEF Finish, pc
    <3>2. QED
      BY <1>4, <2>6, <3>1 DEF ETypeOK, Link
  <2>8. QED
    BY <1>4, <2>6, <2>7
<1>12. CASE StartReturns
  <2>1. Links
    BY <1>1, <1>12 DEF StartReturns
  <2>2. ETypeOK'
    BY <1>1, <1>2, <1>3, <1>4, <1>12, <2>1 DEF StartReturns, ETypeOK, Link
  <2>3. QED
    BY <1>4, <2>1, <2>2
<1>13. QED
  BY <1>5, <1>6, <1>8, <1>9, <1>10, <1>11, <1>12 DEF ENext

(* Who has had control and who has finished. *)
LEMMA ControlStep ==
  ASSUME EInv, ENext
  PROVE  ControlInv'
<1> USE DEF EInv
<1>1. /\ alive \in 0..made /\ cur_routine \in 0..made /\ made \in Nat
      /\ done \subseteq 1..made /\ Nil \notin done /\ Nil = 0
  BY ListTypes DEF ETypeOK, LinksInv, Nil
<1>2. CASE Start
  BY <1>1, <1>2 DEF Start, ControlInv, Resumes, Main
<1>3. CASE Run
  BY <1>1, <1>3 DEF Run, HasControl, ControlInv
<1>4. ASSUME TakeHead, phase = "on", UNCHANGED <<phase, done>> PROVE ControlInv'
  BY <1>1, <1>4 DEF TakeHead, ControlInv, Resumes
<1>5. CASE Yield
  BY <1>4, <1>5 DEF Yield, Suspends, HasControl
<1>6. CASE StartYields
  BY <1>4, <1>6 DEF StartYields, Idle
<1>7. ASSUME NEW r \in Routine, Sched(r) PROVE ControlInv'
  BY <1>1, <1>7 DEF Sched, Suspends, HasControl, Resumes, ControlInv
<1>8. CASE Finish
  BY <1>1, <1>8 DEF Finish, HasControl, ControlInv
<1>9. CASE StartReturns
  BY <1>1, <1>9 DEF StartReturns, Idle, ControlInv
<1>10. QED
  BY <1>2, <1>3, <1>5, <1>6, <1>7, <1>8, <1>9 DEF ENext

(* The first routine of the list, and what is in the list when start begins. *)
LEMMA StartList ==
  ASSUME EInv, Start
  PROVE  Listed = {} /\ Listed' = {Main} /\ made = 0 /\ done = {} /\ started = {}
<1>1. made = 0 /\ done = {} /\ started = {} /\ alive = Nil
  BY DEF EInv, ETypeOK, ControlInv, Start, Nil
<1>2. Main \in Routine /\ next \in Link /\ next[Main] = Nil
  BY <1>1, ListTypes, EngineAssumption DEF EInv, LinksInv, Routine, Main
<1>3. Chain(Main, next) = {Main} \cup Chain(Nil, next)
  BY <1>2, ChainStep
<1>4. Chain(Nil, next) = {}
  BY ChainNil
<1>5. QED
  BY <1>1, <1>3, <1>4 DEF Listed, Start

(* A list that is whole after a step was whole before it, and the step kept  *)
(* the routines that have not had control, and the back links, in it.        *)
LEMMA WholeStep ==
  ASSUME EInv, ENext
  PROVE  WholeInv'
<1> USE DEF EInv
<1>1. /\ next \in Link /\ prev \in Link /\ Nil \notin Routine
      /\ alive \in Routine \cup {Nil} /\ cur_routine \in Routine \cup {Nil}
      /\ Listed \subseteq Routine /\ alive \in Listed \cup {Nil}
      /\ \A s \in Listed : next[s] \in Listed \cup {Nil}
      /\ \A s \in Listed : s <= alive
      /\ \A r \in Routine : next[r] \in Routine \cup {Nil} /\ prev[r] \in Routine \cup {Nil}
      /\ \A r \in Routine : prev[r] # Nil => prev[r] > r /\ next[prev[r]] = r
      /\ \A r \in Routine : r > made => prev[r] = Nil
      /\ done \subseteq Routine /\ Routine \subseteq Nat
  BY ListTypes DEF LinksInv, Link, ETypeOK, Routine
<1> SUFFICES ASSUME Whole'
             PROVE  /\ (1..made') \ started' \subseteq Listed'
                    /\ \A r \in Routine : prev'[r] # Nil => r \in Listed' /\ prev'[r] \in Listed'
  BY DEF WholeInv
<1>2. ~fault' /\ Listed' \cap done' = {}
  BY DEF Whole
<1>3. CASE Start
  <2>1. made' = 1 /\ started' = {1} /\ prev' = prev
    BY <1>3, StartList DEF Start, Resumes, Main
  <2>2. \A r \in Routine : prev[r] = Nil
    BY <1>1, <1>3, StartList DEF Routine
  <2>3. QED
    BY <2>1, <2>2
<1>4. CASE Run
  <2>1. Listed' = Listed \cup {made + 1} /\ made + 1 \in Routine
    BY <1>4, RunList
  <2>2. Whole
    BY <1>2, <1>4, <2>1 DEF Whole, Run, HasControl
  <2>3. \A r \in Routine : prev'[r] = IF r = alive THEN made + 1 ELSE prev[r]
    BY <1>1, <1>4, <2>1 DEF Run, Set, Link
  <2>4. (1..made') \ started' \subseteq Listed'
    <3>1. made' = made + 1 /\ started' = started /\ made \in Nat
      BY <1>4, ListTypes DEF Run, LinksInv
    <3>2. 1..(made + 1) = (1..made) \cup {made + 1}
      BY <3>1
    <3>3. QED
      BY <2>1, <2>2, <3>1, <3>2 DEF WholeInv
  <2>5. QED
    BY <1>1, <2>1, <2>2, <2>3, <2>4 DEF WholeInv
<1>5. ASSUME TakeHead, ~fault, UNCHANGED <<made, next, done>>
      PROVE  /\ (1..made') \ started' \subseteq Listed'
             /\ \A r \in Routine : prev'[r] # Nil => r \in Listed' /\ prev'[r] \in Listed'
  <2>1. Listed' = Listed \ {alive} /\ alive \in Listed /\ alive \in Routine
    BY <1>1, <1>5, TakeHeadList
  <2>2. Whole
    BY <1>2, <1>5, <2>1 DEF Whole, TakeHead
  <2>3. \A r \in Routine : prev'[r] = IF r = next[alive] THEN Nil ELSE prev[r]
    BY <1>1, <1>5, <2>1 DEF TakeHead, Set, Link
  <2>4. (1..made') \ started' \subseteq Listed'
    BY <1>5, <2>1, <2>2 DEF WholeInv, TakeHead, Resumes
  <2>5. ASSUME NEW r \in Routine, prev'[r] # Nil PROVE r \in Listed' /\ prev'[r] \in Listed'
    <3>1. prev'[r] = prev[r] /\ r # next[alive]
      BY <2>3, <2>5
    <3>2. r \in Listed /\ prev[r] \in Listed /\ prev[r] > r /\ next[prev[r]] = r /\ prev[r] <= alive
      BY <1>1, <2>2, <2>5, <3>1 DEF WholeInv
    <3>3. prev[r] # alive
      BY <3>1, <3>2
    <3>4. r # alive
      <4>1. prev[r] \in Nat /\ r \in Nat /\ alive \in Nat
        BY <1>1, <2>1, <3>2
      <4>2. QED
        BY <3>2, <4>1
    <3>5. QED
      BY <2>1, <3>1, <3>2, <3>3, <3>4
  <2>6. QED
    BY <2>4, <2>5
<1>6. CASE Yield
  BY <1>5, <1>6 DEF Yield, Suspends, HasControl
<1>7. CASE StartYields
  BY <1>5, <1>7 DEF StartYields, Idle
<1>8. ASSUME NEW r \in Routine, Sched(r) PROVE WholeInv'
  <2>1. Listed' = Listed /\ done' = done /\ fault' = fault /\ prev' = prev /\ made' = made
    BY <1>8 DEF Sched, Listed
  <2>2. started \subseteq started'
    BY <1>8 DEF Sched, Resumes
  <2>3. Whole
    BY <1>2, <2>1 DEF Whole
  <2>4. QED
    BY <2>1, <2>2, <2>3 DEF WholeInv
<1>9. CASE Finish
  <2> DEFINE pc == cur_routine
             q == prev[cur_routine]
             n == next[cur_routine]
  <2>1. /\ pc \in Routine /\ q \in Routine \cup {Nil} /\ n \in Routine \cup {Nil}
        /\ \A s \in Routine : prev'[s] = IF s = pc THEN Nil ELSE IF s = n THEN q ELSE prev[s]
    BY <1>1, <1>9, FinishLinks
  <2>2. /\ made' = made /\ started' = started /\ done' = done \cup {pc} /\ ~fault
        /\ pc \notin done /\ pc \in started
    BY <1>9 DEF Finish, HasControl, ControlInv
  <2>3. q # Nil => q > pc /\ next[q] = pc
    BY <1>1, <2>1
  <2>4. CASE pc \notin Listed
    <3>1. Listed' = Listed
      BY <1>9, <2>4, FinishList
    <3>2. Whole
      BY <1>2, <2>2, <3>1 DEF Whole
    <3>3. q = Nil
      BY <2>1, <2>4, <3>2 DEF WholeInv
    <3>4. QED
      BY <2>1, <2>2, <3>1, <3>2, <3>3 DEF WholeInv
  <2>5. CASE pc \in Listed
    <3>1. Listed' = Listed \ {pc}
      BY <1>2, <1>9, <2>2, <2>5, FinishList
    <3>2. Whole
      BY <1>2, <2>2, <3>1 DEF Whole
    <3>3. (1..made') \ started' \subseteq Listed'
      BY <2>2, <3>1, <3>2 DEF WholeInv
    <3>4. ASSUME NEW r \in Routine, prev'[r] # Nil PROVE r \in Listed' /\ prev'[r] \in Listed'
      <4>1. r # pc
        BY <2>1, <3>4
      <4>2. CASE r = n
        <5>1. prev'[r] = q /\ q # Nil
          BY <2>1, <3>4, <4>1, <4>2
        <5>2. q \in Listed /\ q # pc
          BY <1>1, <2>1, <2>3, <3>2, <5>1 DEF WholeInv
        <5>3. n \in Listed
          BY <1>1, <2>5, <4>2
        <5>4. QED
          BY <3>1, <4>1, <4>2, <5>1, <5>2, <5>3
      <4>3. CASE r # n
        <5>1. prev'[r] = prev[r] /\ prev[r] # Nil
          BY <2>1, <3>4, <4>1, <4>3
        <5>2. r \in Listed /\ prev[r] \in Listed /\ prev[r] # pc
          BY <1>1, <3>2, <4>3, <5>1 DEF WholeInv
        <5>3. QED
          BY <3>1, <4>1, <5>1, <5>2
      <4>4. QED
        BY <4>2, <4>3
    <3>5. QED
      BY <3>3, <3>4
  <2>6. QED
    BY <2>4, <2>5
<1>10. CASE StartReturns
  <2>1. /\ Listed' = Listed /\ done' = done /\ fault' = fault /\ prev' = prev /\ made' = made
        /\ started' = started
    BY <1>10 DEF StartReturns, Listed
  <2>2. QED
    BY <1>2, <2>1 DEF Whole, WholeInv
<1>11. QED
  BY <1>3, <1>4, <1>6, <1>7, <1>8, <1>9, <1>10 DEF ENext, WholeInv

(* As long as only routines of the list give up control, the list stays      *)
(* whole and keeps all suspended routines.                                   *)
LEMMA OrderlyStep ==
  ASSUME EInv, ENext
  PROVE  OrderlyInv'
<1> USE DEF EInv
<1>1. /\ next \in Link /\ prev \in Link /\ Nil \notin Routine
      /\ alive \in Routine \cup {Nil} /\ cur_routine \in Routine \cup {Nil}
      /\ cur_routine \in 0..made /\ made \in Nat /\ 1..made \subseteq Routine
      /\ Listed \subseteq Routine /\ alive \in Listed \cup {Nil}
      /\ \A s \in Listed : next[s] \in Listed \cup {Nil}
      /\ \A r \in Routine : next[r] \in Routine \cup {Nil} /\ prev[r] \in Routine \cup {Nil}
      /\ done \subseteq 1..made /\ Nil \notin done
  BY ListTypes DEF LinksInv, Link, ETypeOK, Nil
<1> SUFFICES ASSUME orderly'
             PROVE  /\ Whole'
                    /\ (1..made') \ (done' \cup {cur_routine'}) \subseteq Listed'
                    /\ cur_routine' \in Listed' => \A r \in Listed' \ {alive'} : prev'[r] # Nil
                    /\ cur_routine' \notin Listed' \cup {Nil} =>
                         next'[cur_routine'] \in Listed' \cup {Nil}
  BY DEF OrderlyInv
<1>2. orderly
  BY DEF ENext, Start, Run, Yield, Suspends, Sched, Finish, StartReturns, StartYields
<1>3. /\ ~fault /\ Listed \cap done = {}
      /\ (1..made) \ (done \cup {cur_routine}) \subseteq Listed
      /\ cur_routine \in Listed => \A r \in Listed \ {alive} : prev[r] # Nil
      /\ cur_routine \notin Listed \cup {Nil} => next[cur_routine] \in Listed \cup {Nil}
      /\ \A r \in Routine : prev[r] # Nil => r \in Listed /\ prev[r] \in Listed
  BY <1>2 DEF OrderlyInv, Whole, WholeInv
<1>4. CASE Start
  <2>1. /\ Listed' = {Main} /\ made' = 1 /\ done' = {} /\ cur_routine' = Main /\ alive' = Main
        /\ ~fault' /\ Main = 1
    BY <1>3, <1>4, StartList DEF Start, Resumes, Main
  <2>2. QED
    BY <2>1 DEF Whole
<1>5. CASE Run
  <2>1. Listed' = Listed \cup {made + 1} /\ made + 1 \in Routine
    BY <1>5, RunList
  <2>2. /\ made' = made + 1 /\ alive' = made + 1 /\ cur_routine' = cur_routine /\ done' = done
        /\ ~fault' /\ cur_routine # Nil
    BY <1>1, <1>3, <1>5 DEF Run, HasControl
  <2>3. /\ 1..(made + 1) = (1..made) \cup {made + 1}
        /\ made + 1 \notin done /\ made + 1 # cur_routine
    BY <1>1
  <2>4. Whole'
    BY <1>3, <2>1, <2>2, <2>3 DEF Whole
  <2>5. \A r \in Routine : prev'[r] = IF r = alive THEN made + 1 ELSE prev[r]
    BY <1>1, <1>5, <2>1 DEF Run, Set, Link
  <2>6. cur_routine \in Listed => \A r \in Listed : prev'[r] # Nil
    BY <1>1, <1>3, <2>1, <2>5
  <2>7. next'[cur_routine] = next[cur_routine]
    BY <1>1, <1>5, <2>1, <2>2, <2>3 DEF Run, Link
  <2>8. QED
    BY <1>3, <2>1, <2>2, <2>3, <2>4, <2>6, <2>7
<1>6. ASSUME TakeHead, cur_routine \in Listed \cup {Nil}, UNCHANGED <<made, next, done>>
      PROVE  /\ Whole'
             /\ (1..made') \ (done' \cup {cur_routine'}) \subseteq Listed'
             /\ cur_routine' \notin Listed' /\ next'[cur_routine'] \in Listed' \cup {Nil}
  <2>1. /\ Listed' = Listed \ {alive} /\ alive \in Listed /\ alive \in Routine
        /\ cur_routine' = alive /\ alive' = next[alive]
    BY <1>1, <1>6, TakeHeadList DEF TakeHead, Resumes
  <2>2. ~fault'
    <3>1. next[alive] \in Listed \cup {Nil}
      BY <1>1, <2>1
    <3>2. alive \notin done /\ next[alive] \notin done
      BY <1>1, <1>3, <2>1, <3>1
    <3>3. {alive, next[alive]} \cap done = {}
      BY <3>2
    <3>4. QED
      BY <1>6, <3>3 DEF TakeHead
  <2>3. Whole'
    BY <1>3, <1>6, <2>1, <2>2 DEF Whole
  <2>4. (1..made) \ done \subseteq Listed
    BY <1>1, <1>3, <1>6
  <2>5. next[alive] # alive
    BY <2>1 DEF ETypeOK
  <2>6. QED
    BY <1>1, <1>6, <2>1, <2>3, <2>4, <2>5
<1>7. CASE Yield
  BY <1>6, <1>7 DEF Yield, Suspends
<1>8. CASE StartYields
  BY <1>6, <1>8 DEF StartYields, Idle
<1>9. ASSUME NEW r \in Routine, Sched(r) PROVE OrderlyInv'
  <2>1. /\ Listed' = Listed /\ done' = done /\ fault' = fault /\ prev' = prev /\ made' = made
        /\ next' = next /\ alive' = alive /\ cur_routine' = r
        /\ cur_routine \in Listed /\ r \in (1..made) \ (done \cup {cur_routine})
    BY <1>9 DEF Sched, Suspends, Resumes, Listed
  <2>2. r \in Listed /\ (1..made) \ done \subseteq Listed
    BY <1>3, <2>1
  <2>3. QED
    BY <1>3, <2>1, <2>2 DEF Whole, OrderlyInv
<1>10. CASE Finish
  <2> DEFINE pc == cur_routine
             q == prev[cur_routine]
             n == next[cur_routine]
  <2>1. /\ pc \in Routine /\ n \in Listed \cup {Nil} /\ q \in Listed \cup {Nil}
        /\ q # Nil => pc \in Listed
    BY <1>1, <1>3, <1>10, FinishLinks
  <2>2. /\ made' = made /\ done' = done \cup {pc} /\ cur_routine' = Nil
        /\ fault' = ({q, n} \cap done # {})
    BY <1>10 DEF Finish
  <2>3. ~fault'
    <3>1. q \notin done /\ n \notin done
      BY <1>1, <1>3, <2>1
    <3>2. {q, n} \cap done = {}
      BY <3>1
    <3>3. QED
      BY <2>2, <3>2
  <2>4. Listed' = Listed \ {pc}
    <3>1. CASE pc \notin Listed
      BY <1>10, <3>1, FinishList
    <3>2. CASE pc \in Listed
      <4>1. pc = alive \/ q \in Listed
        BY <1>3, <2>1, <3>2
      <4>2. QED
        BY <1>10, <3>2, <4>1, FinishList
    <3>3. QED
      BY <3>1, <3>2
  <2>5. Whole'
    BY <1>3, <2>2, <2>3, <2>4 DEF Whole
  <2>6. Nil \notin Listed'
    BY <1>1, <2>4
  <2>7. QED
    BY <1>3, <2>2, <2>4, <2>5, <2>6
<1>11. CASE StartReturns
  <2>1. /\ Listed' = Listed /\ done' = done /\ fault' = fault /\ prev' = prev /\ made' = made
        /\ next' = next /\ alive' = alive /\ cur_routine' = cur_routine
    BY <1>11 DEF StartReturns, Listed
  <2>2. QED
    BY <1>3, <2>1 DEF Whole
<1>12. QED
  BY <1>4, <1>5, <1>7, <1>8, <1>9, <1>10, <1>11 DEF ENext, OrderlyInv

-----------------------------------------------------------------------------
(* The theorems. *)

(* The inductive invariant holds of every behaviour of the engine. *)
THEOREM EngineInvariance == ESpec => []EInv
<1>1. EInit => EInv
  <2> SUFFICES ASSUME EInit PROVE EInv
    OBVIOUS
  <2>1. ETypeOK /\ LinksInv /\ ControlInv
    <3>1. ETypeOK
      <4>1. /\ phase \in {"off", "on", "returned"} /\ fault \in BOOLEAN /\ orderly \in BOOLEAN
            /\ done \subseteq 1..made /\ started \subseteq 1..made
        BY DEF EInit
      <4>2. /\ next \in [Routine -> Routine \cup {Nil}] /\ prev \in [Routine -> Routine \cup {Nil}]
            /\ \A r \in Routine : next[r] # r /\ prev[r] # r
        BY DEF EInit, Routine, Nil
      <4>3. made \in 0..MaxRoutines /\ alive \in 0..made /\ cur_routine \in 0..made /\ switches \in 0..MaxSwitches
        BY EngineAssumption DEF EInit, Nil
      <4>4. QED
        BY <4>1, <4>2, <4>3 DEF ETypeOK
    <3>2. LinksInv
      BY EngineAssumption DEF EInit, LinksInv, Descending, Routine, Nil
    <3>3. ControlInv
      BY DEF EInit, ControlInv, Nil
    <3>4. QED
      BY <3>1, <3>2, <3>3
  <2>2. Listed = {}
    BY ChainNil DEF EInit, Listed
  <2>3. WholeInv /\ OrderlyInv
    BY <2>2 DEF EInit, WholeInv, OrderlyInv, Whole, Routine
  <2>4. QED
    BY <2>1, <2>3 DEF EInv
<1>2. EInv /\ [ENext]_evars => EInv'
  <2> SUFFICES ASSUME EInv, [ENext]_evars PROVE EInv'
    OBVIOUS
  <2>1. CASE ENext
    BY <2>1, LinksStep, ControlStep, WholeStep, OrderlyStep DEF EInv
  <2>2. CASE UNCHANGED evars
    BY <2>2 DEF evars, EInv, ETypeOK, LinksInv, Descending, ControlInv, WholeInv, OrderlyInv,
                Whole, Listed
  <2>3. QED
    BY <2>1, <2>2
<1>3. QED
  BY <1>1, <1>2, PTL DEF ESpec

(* The links of the contexts, the head of the list and the running routine   *)
(* are always routines that were created, or null, and no context is linked  *)
(* to itself, in whatever order routines run, yield, sched and finish.       *)
THEOREM EngineTypes == ESpec => []ETypeOK
<1>1. EInv => ETypeOK
  BY DEF EInv
<1>2. QED
  BY <1>1, EngineInvariance, PTL

(* A routine that run created and that has not had control is in the list    *)
(* alive, unless a deleted context is in it or has been used.                *)
THEOREM RoutinesNotLost == ESpec => []CreatedNotLost
<1>1. EInv => CreatedNotLost
  BY DEF EInv, WholeInv, Whole, CreatedNotLost
<1>2. QED
  BY <1>1, EngineInvariance, PTL

(* As long as only routines of the list give up control, no deleted context  *)
(* is used or in the list, every suspended routine is in the list, and start *)
(* returns only when all routines are done.                                  *)
THEOREM EngineSound == ESpec => []ListSound
<1>1. ASSUME EInv, orderly, phase = "returned" PROVE done = 1..made
  <2>1. alive = Nil /\ cur_routine = Nil /\ Nil \notin 1..made /\ done \subseteq 1..made
    BY <1>1, ListTypes DEF EInv, ControlInv, ETypeOK, LinksInv, Nil
  <2>2. Listed = {}
    BY <2>1, ChainNil DEF Listed
  <2>3. QED
    BY <1>1, <2>1, <2>2 DEF EInv, OrderlyInv
<1>2. EInv => ListSound
  BY <1>1 DEF EInv, OrderlyInv, Whole, ListSound
<1>3. QED
  BY <1>2, EngineInvariance, PTL
=============================================================================
