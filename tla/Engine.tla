------------------------------- MODULE Engine -------------------------------
(***************************************************************************)
(* The coroutine engine, include/afina/coroutine/Engine.h and              *)
(* src/coroutine/Engine.cpp: start, run, yield and sched over the doubly   *)
(* linked list `alive' of contexts.                                        *)
(*                                                                         *)
(* What Store, Restore, setjmp and longjmp do together is to suspend a     *)
(* routine at a point of its code and to resume it there; the stacks they  *)
(* copy are not modelled.  The routines are the callers' code: one that    *)
(* has control creates another, yields, schedules any that has not         *)
(* finished, or returns.  Routine 1 is the main one, the others are        *)
(* numbered in the order of their creation.  A finished context has been   *)
(* deleted: reading or writing it is a fault, and ends the model.          *)
(***************************************************************************)
EXTENDS Naturals, FiniteSets

CONSTANTS
  MaxRoutines, \* bound: routines created
  MaxSwitches  \* bound: calls of yield and sched by routines

ASSUME EngineAssumption == MaxRoutines \in Nat \ {0} /\ MaxSwitches \in Nat

VARIABLES
  phase,       \* of start: off, on, returned
  made,        \* number of routines created
  next, prev,  \* the links of the contexts
  alive,       \* head of the list
  cur_routine,
  done,        \* the routines that have finished
  fault,       \* a deleted context was used
  started,     \* history: the routines that have had control
  orderly,     \* history: no routine outside the list has given up control
  switches     \* counts yield and sched

evars == <<phase, made, next, prev, alive, cur_routine, done, fault, started, orderly, switches>>

Routine == 1..MaxRoutines
Main == 1
Nil == 0

ETypeOK ==
  /\ phase \in {"off", "on", "returned"}
  /\ made \in 0..MaxRoutines
  /\ next \in [Routine -> Routine \cup {Nil}] /\ prev \in [Routine -> Routine \cup {Nil}]
  /\ \A r \in Routine : next[r] # r /\ prev[r] # r
  /\ alive \in 0..made /\ cur_routine \in 0..made
  /\ done \subseteq 1..made /\ started \subseteq 1..made
  /\ fault \in BOOLEAN /\ orderly \in BOOLEAN
  /\ switches \in 0..MaxSwitches

EInit ==
  /\ phase = "off" /\ made = 0
  /\ next = [r \in Routine |-> Nil] /\ prev = [r \in Routine |-> Nil]
  /\ alive = Nil /\ cur_routine = Nil
  /\ done = {} /\ started = {} /\ fault = FALSE /\ orderly = TRUE /\ switches = 0

(* if (p != nullptr) p->link = v *)
Set(link, p, v) == IF p = Nil THEN link ELSE [link EXCEPT ![p] = v]

(* The routines found by following link from head: the smallest set that     *)
(* has head in it and, of each of its members, the one it is linked to.      *)
Chain(head, link) ==
  {r \in Routine : \A S \in SUBSET Routine :
     (head \in S \cup {Nil} /\ \A s \in S : link[s] \in S \cup {Nil}) => r \in S}

Listed == Chain(alive, next)

Resumes(r) == cur_routine' = r /\ started' = started \cup {r}

(* start: run(main) puts the main routine in the list, sched starts it. *)
Start ==
  /\ phase = "off"
  /\ phase' = "on" /\ made' = Main /\ alive' = Main
  /\ Resumes(Main)
  /\ UNCHANGED <<next, prev, done, fault, orderly, switches>>

HasControl == phase = "on" /\ ~fault /\ cur_routine # Nil

(* Mutant: alive is assigned before it is read. *)
Run_HeadFirst ==
  /\ HasControl /\ made < MaxRoutines
  /\ made' = made + 1 /\ alive' = made + 1
  /\ next' = [next EXCEPT ![made + 1] = made + 1]
  /\ prev' = [prev EXCEPT ![made + 1] = made + 1]
  /\ UNCHANGED <<phase, cur_routine, done, fault, started, orderly, switches>>

(* Mutant: the old head is not linked back. *)
Run_NoBackLink ==
  /\ HasControl /\ made < MaxRoutines
  /\ made' = made + 1
  /\ next' = [next EXCEPT ![made + 1] = alive]
  /\ fault' = (alive \in done)
  /\ alive' = made + 1
  /\ UNCHANGED <<phase, prev, cur_routine, done, started, orderly, switches>>

(* run: the new context becomes the head of the list. *)
Run ==
  /\ HasControl /\ made < MaxRoutines
  /\ made' = made + 1
  /\ next' = [next EXCEPT ![made + 1] = alive]
  /\ prev' = Set(prev, alive, made + 1)
  /\ fault' = (alive \in done)
  /\ alive' = made + 1
  /\ UNCHANGED <<phase, cur_routine, done, started, orderly, switches>>

(* yield: the first context leaves the list, its own links stay as they are, *)
(* and it gets control.                                                      *)
TakeHead ==
  /\ alive # Nil
  /\ prev' = Set(prev, next[alive], Nil)
  /\ fault' = ({alive, next[alive]} \cap done # {})
  /\ alive' = next[alive]
  /\ Resumes(alive)

(* The routine with control suspends itself; it is not put into the list. *)
Suspends ==
  /\ HasControl /\ switches < MaxSwitches
  /\ switches' = switches + 1
  /\ orderly' = (orderly /\ cur_routine \in Listed)

Yield ==
  /\ Suspends /\ TakeHead
  /\ UNCHANGED <<phase, made, next, done>>

(* sched leaves the list alone. *)
Sched(r) ==
  /\ Suspends /\ r \in (1..made) \ (done \cup {cur_routine})
  /\ Resumes(r)
  /\ UNCHANGED <<phase, made, next, prev, alive, done, fault>>

(* Mutant: the head of the list is dropped whoever has finished. *)
Finish_DropsHead ==
  LET pc == cur_routine IN
  /\ HasControl
  /\ next' = [Set(next, prev[pc], next[pc]) EXCEPT ![pc] = Nil]
  /\ prev' = [Set(prev, next[pc], prev[pc]) EXCEPT ![pc] = Nil]
  /\ fault' = ({prev[pc], next[pc]} \cap done # {})
  /\ alive' = IF alive # Nil THEN next'[alive] ELSE alive
  /\ cur_routine' = Nil /\ done' = done \cup {pc}
  /\ UNCHANGED <<phase, made, started, orderly, switches>>

(* The routine returns into run: its context is unlinked from the neighbours *)
(* it remembers and deleted, and control goes to start.                      *)
Finish ==
  LET pc == cur_routine IN
  /\ HasControl
  /\ next' = [Set(next, prev[pc], next[pc]) EXCEPT ![pc] = Nil]
  /\ prev' = [Set(prev, next[pc], prev[pc]) EXCEPT ![pc] = Nil]
  /\ fault' = ({prev[pc], next[pc]} \cap done # {})
  /\ alive' = IF alive = pc THEN next[pc] ELSE alive
  /\ cur_routine' = Nil /\ done' = done \cup {pc}
  /\ UNCHANGED <<phase, made, started, orderly, switches>>

Idle == phase = "on" /\ ~fault /\ cur_routine = Nil

StartReturns ==
  /\ Idle /\ alive = Nil
  /\ phase' = "returned"
  /\ UNCHANGED <<made, next, prev, alive, cur_routine, done, fault, started, orderly, switches>>

(* start, back from a finished routine, yields; yield returns to it only if  *)
(* there is nothing in the list.                                             *)
StartYields ==
  /\ Idle /\ TakeHead
  /\ UNCHANGED <<phase, made, next, done, orderly, switches>>

ENext ==
  \/ Start \/ Run \/ Yield \/ (\E r \in Routine : Sched(r)) \/ Finish
  \/ StartReturns \/ StartYields

ESpec == EInit /\ [][ENext]_evars

-----------------------------------------------------------------------------
(* Properties. *)

(* Whatever the routines do, one that was created and has not had control is *)
(* in the list, where yield will come to it, unless a deleted context is in  *)
(* the list.  (That happens: a routine that finishes after yield has taken   *)
(* it out clears the back link of a neighbour, which then cannot unlink      *)
(* itself when it finishes.)                                                 *)
CreatedNotLost == ~fault /\ Listed \cap done = {} => (1..made) \ started \subseteq Listed

(* As long as only routines of the list give up control, no deleted context  *)
(* is used, none is in the list, a suspended routine is, and start keeps its *)
(* promise: it "doesn't return control until all coroutines are done".  (A   *)
(* routine that yield has taken out keeps a link to a neighbour that may     *)
(* finish before it; that is why the condition is needed.)                   *)
ListSound ==
  orderly =>
    /\ ~fault /\ Listed \cap done = {}
    /\ (1..made) \ (done \cup {cur_routine}) \subseteq Listed
    /\ phase = "returned" => done = 1..made
=============================================================================
