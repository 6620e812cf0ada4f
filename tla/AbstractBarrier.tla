--------------------------- MODULE AbstractBarrier ---------------------------
(***************************************************************************)
(* What a barrier promises to the threads that share it: a thread stays    *)
(* inside until all of them are there, and then each one is let out once,  *)
(* even if others are already back for the next round. Cancelling the      *)
(* barrier lets everybody out, with a negative answer, until it is reset.  *)
(***************************************************************************)
CONSTANT Threads

VARIABLES
  inside,   \* threads that wait
  open,     \* those among them that may leave
  canceled,
  result    \* the last answer that each thread got

vars == <<inside, open, canceled, result>>

Init ==
  /\ inside = {}
  /\ open = {}
  /\ canceled = FALSE
  /\ result = [t \in Threads |-> TRUE]

Answer(t) == result' = [result EXCEPT ![t] = ~canceled]

\* Somebody is still missing.
Enter(t) ==
  /\ t \notin inside
  /\ ~canceled
  /\ \E o \in Threads \ {t} : o \notin inside \ open
  /\ inside' = inside \union {t}
  /\ UNCHANGED <<open, canceled, result>>

\* The last thread lets the others out and does not wait itself.
Complete(t) ==
  /\ t \notin inside
  /\ open = {}
  /\ inside = Threads \ {t}
  /\ open' = inside
  /\ Answer(t)
  /\ UNCHANGED <<inside, canceled>>

Refused(t) ==
  /\ t \notin inside
  /\ canceled
  /\ Answer(t)
  /\ UNCHANGED <<inside, open, canceled>>

Leave(t) ==
  /\ t \in open
  /\ inside' = inside \ {t}
  /\ open' = open \ {t}
  /\ Answer(t)
  /\ UNCHANGED canceled

Cancel ==
  /\ canceled' = TRUE
  /\ open' = inside
  /\ UNCHANGED <<inside, result>>

Reset ==
  /\ inside = {}
  /\ canceled' = FALSE
  /\ UNCHANGED <<inside, open, result>>

Next ==
  \/ \E t \in Threads : Enter(t) \/ Complete(t) \/ Refused(t) \/ Leave(t)
  \/ Cancel
  \/ Reset

Spec == Init /\ [][Next]_vars

=============================================================================
