------------------------------ MODULE Barrier ------------------------------
(***************************************************************************)
(* The reusable barrier of sys/src/Barrier.cpp. A call of wait is two      *)
(* steps at most, since the mutex is held except while the thread waits    *)
(* on the condition variable: it arrives, and passes at once or waits;     *)
(* then it is woken (or wakes spuriously) and leaves if its condition      *)
(* holds.                                                                  *)
(***************************************************************************)
EXTENDS Integers, FiniteSets

CONSTANTS
  Threads,        \* threads that call wait
  Thresholds,     \* values given to setThreshold
  ResetInside,    \* TRUE: reset may be called while threads wait
  MaxGeneration   \* bound: value that _generation does not exceed

N == Cardinality(Threads)   \* _thresh, as given to the constructor
Out == -1                   \* ticket of a thread that does not wait

ASSUME ConstantsAssumption ==
  /\ IsFiniteSet(Threads) /\ Threads # {}
  /\ Thresholds \subseteq Nat
  /\ ResetInside \in BOOLEAN
  /\ MaxGeneration \in Nat

VARIABLES
  thresh, generation, waiting, released, triggered, canceled,
  ticket,   \* value of _generation when the thread arrived, in its wait
  result    \* what the last wait of each thread returned

vars == <<thresh, generation, waiting, released, triggered, canceled,
          ticket, result>>

Init ==
  /\ thresh = N
  /\ generation = 0
  /\ waiting = 0
  /\ released = 0
  /\ triggered = FALSE
  /\ canceled = FALSE
  /\ ticket = [t \in Threads |-> Out]
  /\ result = [t \in Threads |-> TRUE]

\* Faulty variant: the generation of the arrival is not looked at.
Opened_AnyGeneration(arrival, trigger, now) == canceled \/ trigger

\* The condition that wait waits for.
Opened(arrival, trigger, now) == canceled \/ (trigger /\ arrival < now)

\* Faulty variant: the first thread that leaves closes the barrier.
Pass_ClosesAtOnce(t, trigger) ==
  /\ released' = (released + 1) % thresh
  /\ triggered' = FALSE
  /\ ticket' = [ticket EXCEPT ![t] = Out]
  /\ result' = [result EXCEPT ![t] = ~canceled]

\* The end of wait: the last thread that leaves closes the barrier.
Pass(t, trigger) ==
  /\ LET last == released + 1 >= thresh
     IN  /\ released' = IF last THEN 0 ELSE released + 1
         /\ triggered' = (trigger /\ ~last)
  /\ ticket' = [ticket EXCEPT ![t] = Out]
  /\ result' = [result EXCEPT ![t] = ~canceled]

\* wait, up to the first evaluation of its condition.
Arrive(t) ==
  /\ ticket[t] = Out
  /\ generation < MaxGeneration
  /\ LET full    == waiting + 1 >= thresh
         trigger == triggered \/ full
         now     == IF full THEN generation + 1 ELSE generation
     IN  /\ waiting' = IF full THEN 0 ELSE waiting + 1
         /\ generation' = now
         /\ \/ Opened(generation, trigger, now) /\ Pass(t, trigger)
            \/ /\ ~Opened(generation, trigger, now)
               /\ ticket' = [ticket EXCEPT ![t] = generation]
               /\ triggered' = trigger
               /\ UNCHANGED <<released, result>>
  /\ UNCHANGED <<thresh, canceled>>

\* wait, from a wake-up that finds the condition true.
Leave(t) ==
  /\ ticket[t] # Out
  /\ Opened(ticket[t], triggered, generation)
  /\ Pass(t, triggered)
  /\ UNCHANGED <<thresh, generation, waiting, canceled>>

\* The waiting threads are notified, but their generation is not over.
SetThreshold ==
  /\ \E n \in Thresholds :
       /\ thresh' = n
       /\ waiting' = IF waiting >= n THEN 0 ELSE waiting
       /\ triggered' = (triggered \/ waiting >= n)
  /\ UNCHANGED <<generation, released, canceled, ticket, result>>

Cancel ==
  /\ canceled' = TRUE
  /\ UNCHANGED <<thresh, generation, waiting, released, triggered, ticket, result>>

\* Faulty variant: one of the counters is forgotten.
Reset_KeepsReleased ==
  /\ ResetInside \/ \A t \in Threads : ticket[t] = Out
  /\ canceled' = FALSE
  /\ triggered' = FALSE
  /\ waiting' = 0
  /\ generation' = 0
  /\ UNCHANGED <<thresh, released, ticket, result>>

\* What the code resets does not include the threads that wait.
Reset ==
  /\ ResetInside \/ \A t \in Threads : ticket[t] = Out
  /\ canceled' = FALSE
  /\ triggered' = FALSE
  /\ waiting' = 0
  /\ released' = 0
  /\ generation' = 0
  /\ UNCHANGED <<thresh, ticket, result>>

Next ==
  \/ \E t \in Threads : Arrive(t) \/ Leave(t)
  \/ SetThreshold
  \/ Cancel
  \/ Reset

Spec == Init /\ [][Next]_vars

\* A notified thread runs: notify_all wakes every one that may leave.
FairSpec == Spec /\ \A t \in Threads : WF_vars(Leave(t))

-----------------------------------------------------------------------------

TypeOK ==
  /\ thresh \in Nat
  /\ generation \in 0 .. MaxGeneration
  /\ waiting \in Nat /\ (waiting = 0 \/ waiting < thresh)
  /\ released \in Nat
  /\ triggered \in BOOLEAN
  /\ canceled \in BOOLEAN
  /\ ticket \in [Threads -> 0 .. MaxGeneration \union {Out}]
  /\ result \in [Threads -> BOOLEAN]

\* What the properties need of the clients: the threshold is the number of
\* threads, and the barrier is only reset when nobody is in wait.
UsedAsBarrier == Thresholds \subseteq {N} /\ ~ResetInside

\* The counters of the barrier agree with the threads that are in wait, so
\* that it can be used again before everybody has left.
CountersAgree ==
  ~canceled =>
    /\ waiting = Cardinality({t \in Threads : ticket[t] = generation})
    /\ LET leaving == {t \in Threads : ticket[t] \notin {Out, generation}}
       IN  released = IF leaving = {} THEN 0 ELSE N - Cardinality(leaving)

\* Threads that wait, and those that may leave.
Inside == {t \in Threads : ticket[t] # Out}
Open   == {t \in Inside : canceled \/ ticket[t] < generation}

\* wait keeps the promise of a barrier: nobody leaves before all have
\* arrived, nobody is let out twice or left behind when the barrier is used
\* again at once, and a cancelled wait says so.
Promise == INSTANCE AbstractBarrier WITH inside <- Inside, open <- Open
KeepsPromise == Promise!Spec

\* A thread whose round is complete gets out, even when the others come
\* back first.
OpenedLeave ==
  \A t \in Threads : ticket[t] # Out /\ ticket[t] < generation ~> ticket[t] = Out

=============================================================================
