------------------------- MODULE ConcurrencyProofs -------------------------
(***************************************************************************)
(* Proofs about the two objects of the simulator that threads share and    *)
(* that other parts are built on. The barrier, used by any finite number   *)
(* of threads, keeps the promise of AbstractBarrier. In the event manager, *)
(* for any number of threads, events and nested emissions, deferring the   *)
(* requests made during an emission protects the walk of the subscribers,  *)
(* unless an emission ends while another one is under way, and requests    *)
(* lead where their order asks for.                                        *)
(***************************************************************************)
EXTENDS Barrier, EventManager, FiniteSetTheorems, TLAPS

-----------------------------------------------------------------------------
(***************************************************************************)
(* The barrier.                                                            *)
(***************************************************************************)

\* Threads of the current round, and those that the last round let out.
Waiters == {t \in Threads : ticket[t] = generation}
Leavers == {t \in Threads : ticket[t] \notin {Out, generation}}

\* The counters are a function of the two sets, unless the barrier is
\* cancelled: then wait no longer looks at them, and reset clears them.
Counters ==
  /\ \A t \in Leavers : ticket[t] = generation - 1
  /\ waiting = Cardinality(Waiters)
  /\ triggered = (Leavers # {})
  /\ released = IF Leavers = {} THEN 0 ELSE N - Cardinality(Leavers)

BarrierInv == TypeOK /\ thresh = N /\ (~canceled => Counters)

-----------------------------------------------------------------------------

LEMMA NType == N \in Nat \ {0}
  BY ConstantsAssumption, FS_CardinalityType, FS_EmptySet DEF N

\* Sets of threads can be counted.
LEMMA CountThreads ==
  ASSUME NEW S \in SUBSET Threads
  PROVE  /\ IsFiniteSet(S)
         /\ Cardinality(S) \in 0 .. N
         /\ Cardinality(S) = N => S = Threads
         /\ Cardinality(S) = 0 <=> S = {}
  <1>1. IsFiniteSet(S) /\ Cardinality(S) <= N /\ (Cardinality(S) = N => S = Threads)
    BY ConstantsAssumption, FS_Subset DEF N
  <1>2. Cardinality(S) \in Nat /\ (Cardinality(S) = 0 <=> S = {})
    BY <1>1, FS_CardinalityType, FS_EmptySet
  <1>. QED  BY <1>1, <1>2, NType

LEMMA CountWith ==
  ASSUME NEW S \in SUBSET Threads, NEW t \in Threads, t \notin S
  PROVE  Cardinality(S \union {t}) = Cardinality(S) + 1
  BY CountThreads, FS_AddElement

LEMMA CountWithout ==
  ASSUME NEW S \in SUBSET Threads, NEW t \in S
  PROVE  Cardinality(S \ {t}) = Cardinality(S) - 1
  BY CountThreads, FS_RemoveElement

\* The barrier is full when a thread arrives and all the others wait.
LEMMA FullMeansAll ==
  ASSUME BarrierInv, ~canceled, NEW t \in Threads, ticket[t] = Out
  PROVE  /\ waiting \in Nat
         /\ waiting + 1 >= thresh <=> Waiters = Threads \ {t}
  <1>1. t \notin Waiters
    BY DEF Waiters, BarrierInv, TypeOK, Out
  <1>2. Cardinality(Waiters \union {t}) = Cardinality(Waiters) + 1
    BY <1>1, CountWith DEF Waiters
  <1>3. waiting = Cardinality(Waiters) /\ thresh = N /\ waiting \in Nat
    BY DEF BarrierInv, Counters, TypeOK
  <1>4. Waiters \union {t} \in SUBSET Threads /\ Waiters \in SUBSET Threads
    BY DEF Waiters
  <1>5. ASSUME waiting + 1 >= thresh  PROVE Waiters = Threads \ {t}
    <2>1. Cardinality(Waiters \union {t}) = N
      BY <1>2, <1>3, <1>4, <1>5, CountThreads, NType
    <2>2. Waiters \union {t} = Threads
      BY <2>1, <1>4, CountThreads
    <2>. QED  BY <2>2, <1>1
  <1>6. ASSUME Waiters = Threads \ {t}  PROVE waiting + 1 >= thresh
    <2>1. Waiters \union {t} = Threads
      BY <1>6
    <2>2. Cardinality(Waiters \union {t}) = N
      BY <2>1 DEF N
    <2>. QED  BY <2>2, <1>2, <1>3, NType
  <1>. QED  BY <1>3, <1>5, <1>6

LEMMA InvInit == Init => BarrierInv
  <1>. SUFFICES ASSUME Init  PROVE BarrierInv
    OBVIOUS
  <1>1. TypeOK /\ thresh = N
    <2>1. 0 \in 0 .. MaxGeneration
      BY ConstantsAssumption DEF ConstantsAssumption
    <2>. QED  BY <2>1, NType DEF Init, TypeOK
  <1>2. Waiters = {} /\ Leavers = {}
    BY DEF Init, Waiters, Leavers, Out
  <1>3. Cardinality({}) = 0
    BY FS_EmptySet
  <1>. QED  BY <1>1, <1>2, <1>3 DEF Init, BarrierInv, Counters

-----------------------------------------------------------------------------
(***************************************************************************)
(* The steps of wait.                                                      *)
(***************************************************************************)

\* The end of wait keeps the types, cancelled or not.
LEMMA PassType ==
  ASSUME BarrierInv, NEW t \in Threads, NEW trigger \in BOOLEAN, Pass(t, trigger)
  PROVE  /\ released' \in Nat
         /\ triggered' \in BOOLEAN
         /\ ticket' = [ticket EXCEPT ![t] = Out]
         /\ ticket' \in [Threads -> 0 .. MaxGeneration \union {Out}]
         /\ result' \in [Threads -> BOOLEAN]
  BY DEF Pass, BarrierInv, TypeOK

LEMMA ArriveType ==
  ASSUME BarrierInv, NEW t \in Threads, Arrive(t)
  PROVE  TypeOK' /\ thresh' = N
  <1>. DEFINE full    == waiting + 1 >= thresh
              trigger == triggered \/ full
              now     == IF full THEN generation + 1 ELSE generation
  <1>1. thresh' = thresh /\ canceled' = canceled
    BY DEF Arrive
  <1>2. /\ waiting' = IF full THEN 0 ELSE waiting + 1
        /\ generation' = now
    BY DEF Arrive
  <1>3. waiting' \in Nat /\ (waiting' = 0 \/ waiting' < thresh)
    BY <1>2, NType DEF BarrierInv, TypeOK
  <1>4. generation' \in 0 .. MaxGeneration
    BY <1>2, ConstantsAssumption DEF ConstantsAssumption, Arrive, BarrierInv, TypeOK
  <1>5. trigger \in BOOLEAN
    BY DEF BarrierInv, TypeOK
  <1>6. CASE Pass(t, trigger)
    BY <1>1, <1>3, <1>4, <1>5, <1>6, PassType, NType DEF BarrierInv, TypeOK
  <1>7. CASE /\ ticket' = [ticket EXCEPT ![t] = generation]
             /\ triggered' = trigger
             /\ UNCHANGED <<released, result>>
    BY <1>1, <1>3, <1>4, <1>5, <1>7, NType DEF BarrierInv, TypeOK
  <1>. QED  BY <1>6, <1>7 DEF Arrive

\* The last thread lets the others out: they become the leavers.
LEMMA ArriveLast ==
  ASSUME BarrierInv, ~canceled, NEW t \in Threads, Arrive(t),
         Waiters = Threads \ {t}
  PROVE  /\ Inside = Threads \ {t} /\ Open = {}
         /\ Inside' = Inside /\ Open' = Inside
         /\ result' = [result EXCEPT ![t] = TRUE]
         /\ Counters'
  <1>1. ticket[t] = Out /\ thresh = N /\ thresh' = N /\ canceled' = canceled
    BY DEF Arrive, BarrierInv
  <1>2. waiting + 1 >= thresh
    BY <1>1, FullMeansAll
  <1>3. Leavers = {} /\ released = 0 /\ triggered = FALSE
    BY <1>1 DEF Leavers, Waiters, BarrierInv, Counters
  <1>4. generation \in Nat /\ generation # Out
    BY DEF BarrierInv, TypeOK, Out
  <1>5. waiting' = 0 /\ generation' = generation + 1
    BY <1>2 DEF Arrive
  <1>6. Opened(generation, TRUE, generation + 1)
    BY <1>4 DEF Opened
  <1>7. Pass(t, TRUE)
    BY <1>2, <1>6 DEF Arrive
  <1>8. ticket' = ticket
    BY <1>1, <1>7 DEF Pass, BarrierInv, TypeOK
  <1>9. /\ Waiters' = {}
        /\ Leavers' = Threads \ {t}
        /\ \A o \in Leavers' : ticket'[o] = generation' - 1
    <2>1. \A o \in Threads : ticket[o] = IF o = t THEN Out ELSE generation
      BY <1>1 DEF Waiters
    <2>. QED  BY <2>1, <1>4, <1>5, <1>8 DEF Waiters, Leavers, Out
  <1>10. Cardinality(Threads \ {t}) = N - 1
    BY CountWithout DEF N
  <1>11. waiting' = Cardinality(Waiters')
    BY <1>5, <1>9, FS_EmptySet
  <1>12. /\ triggered' = (Leavers' # {})
         /\ released' = IF Leavers' = {} THEN 0 ELSE N - Cardinality(Leavers')
    <2>1. /\ released' = IF 1 >= N THEN 0 ELSE 1
          /\ triggered' = (~ (1 >= N))
      BY <1>1, <1>3, <1>7 DEF Pass
    <2>2. Leavers' = {} <=> N = 1
      BY <1>9, <1>10, CountThreads, NType
    <2>. QED  BY <2>1, <2>2, <1>9, <1>10, NType
  <1>13. Inside = Threads \ {t} /\ Open = {}
    BY <1>1, <1>4 DEF Inside, Open, Waiters
  <1>14. Inside' = Inside
    BY <1>8 DEF Inside
  <1>15. Open' = Inside
    BY <1>4, <1>5, <1>8, <1>13, <1>1 DEF Inside, Open, Waiters
  <1>. QED  BY <1>7, <1>9, <1>11, <1>12, <1>13, <1>14, <1>15 DEF Counters, Pass

\* A thread that is not the last one waits.
LEMMA ArriveEarly ==
  ASSUME BarrierInv, ~canceled, NEW t \in Threads, Arrive(t),
         Waiters # Threads \ {t}
  PROVE  /\ t \notin Inside
         /\ Inside' = Inside \union {t} /\ Open' = Open
         /\ Inside \ Open = Waiters
         /\ result' = result
         /\ Counters'
  <1>1. ticket[t] = Out /\ canceled' = canceled
    BY DEF Arrive
  <1>2. ~ (waiting + 1 >= thresh)
    BY <1>1, FullMeansAll
  <1>3. generation \in Nat /\ generation # Out
    BY DEF BarrierInv, TypeOK, Out
  <1>4. waiting' = waiting + 1 /\ generation' = generation
    BY <1>2 DEF Arrive
  <1>5. ~ Opened(generation, triggered, generation)
    BY <1>3 DEF Opened
  <1>6. /\ ticket' = [ticket EXCEPT ![t] = generation]
        /\ triggered' = triggered
        /\ UNCHANGED <<released, result>>
    BY <1>2, <1>5 DEF Arrive, BarrierInv, TypeOK
  <1>7. \A o \in Threads : ticket'[o] = IF o = t THEN generation ELSE ticket[o]
    BY <1>6 DEF BarrierInv, TypeOK
  <1>8. t \notin Waiters /\ Waiters' = Waiters \union {t} /\ Leavers' = Leavers
    BY <1>1, <1>3, <1>4, <1>7 DEF Waiters, Leavers
  <1>9. Cardinality(Waiters') = Cardinality(Waiters) + 1
    BY <1>8, CountWith DEF Waiters
  <1>10. Counters'
    <2>1. \A o \in Leavers' : ticket'[o] = generation' - 1
      BY <1>1, <1>4, <1>7, <1>8 DEF BarrierInv, Counters, Leavers
    <2>. QED  BY <2>1, <1>4, <1>6, <1>8, <1>9 DEF BarrierInv, Counters
  <1>11. Inside' = Inside \union {t}
    BY <1>3, <1>7 DEF Inside
  <1>12. Open' = Open
    BY <1>1, <1>3, <1>4, <1>7, <1>11 DEF Inside, Open
  <1>13. Inside \ Open = Waiters
    <2>1. \A o \in Threads : \/ ticket[o] = Out \/ ticket[o] = generation
                             \/ ticket[o] = generation - 1 /\ ticket[o] # Out
      BY DEF BarrierInv, Counters, Leavers
    <2>. QED  BY <2>1, <1>3 DEF Inside, Open, Waiters, Out
  <1>. QED  BY <1>1, <1>6, <1>10, <1>11, <1>12, <1>13 DEF Inside

\* A thread that was let out leaves; the last one closes the barrier.
LEMMA LeaveOpen ==
  ASSUME BarrierInv, ~canceled, NEW t \in Threads, Leave(t)
  PROVE  /\ t \in Open
         /\ Inside' = Inside \ {t} /\ Open' = Open \ {t}
         /\ result' = [result EXCEPT ![t] = TRUE]
         /\ canceled' = canceled /\ TypeOK' /\ thresh' = N
         /\ Counters'
  <1>1. /\ ticket[t] # Out /\ triggered /\ ticket[t] < generation
        /\ generation \in Nat /\ ticket[t] \in Int
    BY DEF Leave, Opened, BarrierInv, TypeOK, Out
  <1>2. /\ Pass(t, TRUE)
        /\ UNCHANGED <<thresh, generation, waiting, canceled>>
    BY <1>1 DEF Leave, BarrierInv, TypeOK
  <1>3. \A o \in Threads : ticket'[o] = IF o = t THEN Out ELSE ticket[o]
    BY <1>2 DEF Pass, BarrierInv, TypeOK
  <1>4. /\ t \in Leavers
        /\ Leavers' = Leavers \ {t}
        /\ Waiters' = Waiters
    BY <1>1, <1>2, <1>3 DEF Leavers, Waiters, Out
  <1>5. /\ Cardinality(Leavers') = Cardinality(Leavers) - 1
        /\ Cardinality(Leavers) \in 1 .. N
        /\ Leavers' = {} <=> Cardinality(Leavers) = 1
    <2>1. Leavers \in SUBSET Threads /\ Leavers' \in SUBSET Threads
      BY <1>4 DEF Leavers
    <2>. QED  BY <2>1, <1>4, CountThreads, CountWithout, NType
  <1>6. released = N - Cardinality(Leavers) /\ thresh = N
    BY <1>4 DEF BarrierInv, Counters
  <1>7. /\ released' = IF Leavers' = {} THEN 0 ELSE released + 1
        /\ triggered' = (Leavers' # {})
    BY <1>2, <1>5, <1>6, NType DEF Pass
  <1>8. Counters'
    <2>1. released' = IF Leavers' = {} THEN 0 ELSE N - Cardinality(Leavers')
      BY <1>5, <1>6, <1>7, NType
    <2>2. \A o \in Leavers : ticket[o] = generation - 1
      BY DEF BarrierInv, Counters
    <2>3. \A o \in Leavers' : o \in Leavers /\ o \in Threads /\ ticket'[o] = ticket[o]
      BY <1>3, <1>4 DEF Leavers
    <2>4. \A o \in Leavers' : ticket'[o] = generation' - 1
      BY <1>2, <2>2, <2>3
    <2>. QED  BY <2>1, <2>4, <1>2, <1>4, <1>7 DEF BarrierInv, Counters
  <1>9. TypeOK' /\ thresh' = N
    <2>1. TRUE \in BOOLEAN
      OBVIOUS
    <2>. QED  BY <2>1, <1>2, PassType, NType DEF BarrierInv, TypeOK
  <1>10. t \in Open
    BY <1>1 DEF Open, Inside
  <1>11. Inside' = Inside \ {t}
    BY <1>3 DEF Inside
  <1>12. Open' = Open \ {t}
    <2>1. canceled' = FALSE /\ generation' = generation
      BY <1>2 DEF BarrierInv, TypeOK
    <2>2. \A o \in Inside : o \in Threads
      BY DEF Inside
    <2>3. \A o \in Inside' : ticket'[o] = ticket[o]
      BY <1>3, <1>11, <2>2
    <2>. QED  BY <1>11, <2>1, <2>3 DEF Open
  <1>. QED  BY <1>2, <1>8, <1>9, <1>10, <1>11, <1>12 DEF Pass

\* Once cancelled, whoever is or comes into wait gets out.
LEMMA PassCanceled ==
  ASSUME BarrierInv, canceled, NEW t \in Threads, Arrive(t) \/ Leave(t)
  PROVE  /\ Open = Inside
         /\ Inside' = Inside \ {t} /\ Open' = Inside'
         /\ Arrive(t) => t \notin Inside
         /\ Leave(t) => t \in Inside
         /\ result' = [result EXCEPT ![t] = FALSE]
         /\ canceled' /\ TypeOK' /\ thresh' = N
  <1>1. \A now, trigger, arrival : Opened(arrival, trigger, now)
    BY DEF Opened
  <1>2. /\ \E trigger \in BOOLEAN : Pass(t, trigger)
        /\ canceled'
        /\ Arrive(t) => ticket[t] = Out
        /\ Leave(t) => ticket[t] # Out
    BY <1>1 DEF Arrive, Leave, BarrierInv, TypeOK
  <1>3. PICK trigger \in BOOLEAN : Pass(t, trigger)
    BY <1>2
  <1>4. \A o \in Threads : ticket'[o] = IF o = t THEN Out ELSE ticket[o]
    BY <1>3 DEF Pass, BarrierInv, TypeOK
  <1>5. TypeOK' /\ thresh' = N
    <2>1. CASE Arrive(t)
      BY <2>1, ArriveType
    <2>2. CASE Leave(t)
      BY <2>2, <1>3, PassType, NType DEF Leave, BarrierInv, TypeOK
    <2>. QED  BY <2>1, <2>2
  <1>6. Open = Inside /\ Open' = Inside'
    BY <1>2 DEF Open, Inside
  <1>7. Inside' = Inside \ {t}
    BY <1>4 DEF Inside
  <1>8. /\ Arrive(t) => t \notin Inside
        /\ Leave(t) => t \in Inside
    BY <1>2 DEF Inside
  <1>. QED  BY <1>2, <1>3, <1>5, <1>6, <1>7, <1>8 DEF Pass

-----------------------------------------------------------------------------
(***************************************************************************)
(* The other operations.                                                   *)
(***************************************************************************)

LEMMA SetThresholdInv ==
  ASSUME BarrierInv, UsedAsBarrier, SetThreshold
  PROVE  BarrierInv' /\ UNCHANGED <<Inside, Open, canceled, result>>
  <1>1. thresh = N /\ N \in Nat /\ waiting \in Nat /\ (waiting = 0 \/ waiting < N)
    BY NType DEF BarrierInv, TypeOK
  <1>2. waiting < N
    BY <1>1, NType
  <1>3. UNCHANGED vars
    BY <1>1, <1>2 DEF SetThreshold, UsedAsBarrier, vars, BarrierInv, TypeOK
  <1>. QED  BY <1>3 DEF vars, BarrierInv, TypeOK, Counters, Waiters, Leavers,
                        Inside, Open

LEMMA CancelInv ==
  ASSUME BarrierInv, Cancel
  PROVE  BarrierInv' /\ Inside' = Inside /\ Open' = Inside
  BY DEF Cancel, BarrierInv, TypeOK, Inside, Open

LEMMA ResetInv ==
  ASSUME BarrierInv, UsedAsBarrier, Reset
  PROVE  /\ BarrierInv'
         /\ Inside = {} /\ UNCHANGED <<Inside, Open>>
  <1>1. \A t \in Threads : ticket[t] = Out
    BY DEF Reset, UsedAsBarrier
  <1>2. Waiters' = {} /\ Leavers' = {}
    BY <1>1 DEF Reset, Waiters, Leavers, Out
  <1>3. Counters'
    BY <1>2, FS_EmptySet DEF Reset, Counters
  <1>4. TypeOK' /\ thresh' = N
    <2>1. 0 \in 0 .. MaxGeneration
      BY ConstantsAssumption DEF ConstantsAssumption
    <2>. QED  BY <2>1, NType DEF Reset, BarrierInv, TypeOK
  <1>5. Inside = {} /\ Inside' = {} /\ Open = {} /\ Open' = {}
    BY <1>1 DEF Reset, Inside, Open
  <1>. QED  BY <1>3, <1>4, <1>5 DEF BarrierInv

-----------------------------------------------------------------------------
(***************************************************************************)
(* The theorems.                                                           *)
(***************************************************************************)

LEMMA InvStep ==
  ASSUME UsedAsBarrier, BarrierInv, [Next]_vars
  PROVE  BarrierInv'
  <1>1. ASSUME NEW t \in Threads, Arrive(t)  PROVE BarrierInv'
    <2>1. CASE canceled
      BY <1>1, <2>1, PassCanceled DEF BarrierInv
    <2>2. CASE ~canceled
      <3>1. TypeOK' /\ thresh' = N
        BY <1>1, ArriveType
      <3>2. Counters'
        BY <1>1, <2>2, ArriveLast, ArriveEarly
      <3>. QED  BY <3>1, <3>2 DEF BarrierInv
    <2>. QED  BY <2>1, <2>2
  <1>2. ASSUME NEW t \in Threads, Leave(t)  PROVE BarrierInv'
    BY <1>2, LeaveOpen, PassCanceled DEF BarrierInv
  <1>3. CASE UNCHANGED vars
    BY <1>3 DEF vars, BarrierInv, TypeOK, Counters, Waiters, Leavers
  <1>. QED  BY <1>1, <1>2, <1>3, SetThresholdInv, CancelInv, ResetInv DEF Next

LEMMA Invariant == UsedAsBarrier => (Spec => []BarrierInv)
<1>. SUFFICES ASSUME UsedAsBarrier  PROVE Spec => []BarrierInv
  OBVIOUS
<1>1. BarrierInv /\ [Next]_vars => BarrierInv'
  BY InvStep
<1>. QED  BY <1>1, InvInit, PTL DEF Spec

\* The types, and the bound on the number of waiting threads, for any number
\* of threads.
THEOREM TypeCorrect == UsedAsBarrier => (Spec => []TypeOK)
<1>1. BarrierInv => TypeOK
  BY DEF BarrierInv
<1>. QED  BY <1>1, Invariant, PTL

\* The counters of sys/src/Barrier.cpp always agree with the threads that
\* are in wait, whatever the rounds they belong to.
THEOREM CountersFollowThreads == UsedAsBarrier => (Spec => []CountersAgree)
<1>1. BarrierInv => CountersAgree
  BY DEF BarrierInv, Counters, CountersAgree, Waiters, Leavers
<1>. QED  BY <1>1, Invariant, PTL

LEMMA PromiseStep ==
  ASSUME UsedAsBarrier, BarrierInv, BarrierInv', [Next]_vars
  PROVE  [Promise!Next]_(Promise!vars)
  <1>. USE DEF Promise!Next, Promise!Answer, Promise!vars
  <1>1. ASSUME NEW t \in Threads, Arrive(t), ~canceled, Waiters = Threads \ {t}
        PROVE  Promise!Complete(t)
    BY <1>1, ArriveLast DEF Promise!Complete, Arrive
  <1>2. ASSUME NEW t \in Threads, Arrive(t), ~canceled, Waiters # Threads \ {t}
        PROVE  Promise!Enter(t)
    <2>1. Waiters \subseteq Threads \ {t}
      BY <1>2, ArriveEarly DEF Waiters, Inside
    <2>. QED  BY <1>2, <2>1, ArriveEarly DEF Promise!Enter, Arrive
  <1>3. ASSUME NEW t \in Threads, Arrive(t), canceled
        PROVE  Promise!Refused(t)
    <2>1. t \notin Inside /\ Inside' = Inside /\ Open' = Open
      BY <1>3, PassCanceled
    <2>2. canceled = TRUE /\ canceled' = TRUE
      BY <1>3, PassCanceled DEF BarrierInv, TypeOK
    <2>3. result' = [result EXCEPT ![t] = ~canceled]
      BY <1>3, <2>2, PassCanceled
    <2>. QED  BY <1>3, <2>1, <2>2, <2>3 DEF Promise!Refused
  <1>4. ASSUME NEW t \in Threads, Leave(t)
        PROVE  Promise!Leave(t)
    <2>1. CASE canceled
      BY <1>4, <2>1, PassCanceled DEF Promise!Leave, BarrierInv, TypeOK
    <2>2. CASE ~canceled
      BY <1>4, <2>2, LeaveOpen DEF Promise!Leave
    <2>. QED  BY <2>1, <2>2
  <1>5. CASE SetThreshold
    BY <1>5, SetThresholdInv
  <1>6. CASE Cancel
    BY <1>6, CancelInv DEF Promise!Cancel, Cancel
  <1>7. CASE Reset
    BY <1>7, ResetInv DEF Promise!Reset, Reset
  <1>8. CASE UNCHANGED vars
    BY <1>8 DEF vars, Inside, Open
  <1>. QED  BY <1>1, <1>2, <1>3, <1>4, <1>5, <1>6, <1>7, <1>8 DEF Next

\* wait, cancel and reset implement the abstract barrier: for any number of
\* threads, nobody leaves a round that is not complete, and everybody who
\* completed one is let out exactly once.
THEOREM BarrierKeepsPromise == UsedAsBarrier => (Spec => KeepsPromise)
<1>. SUFFICES ASSUME UsedAsBarrier  PROVE Spec => KeepsPromise
  OBVIOUS
<1>1. Init => Promise!Init
  BY DEF Init, Promise!Init, Inside, Open, Out
<1>2. BarrierInv /\ BarrierInv' /\ [Next]_vars => [Promise!Next]_(Promise!vars)
  BY PromiseStep
<1>. QED  BY <1>1, <1>2, Invariant, PTL DEF Spec, KeepsPromise, Promise!Spec

-----------------------------------------------------------------------------
(***************************************************************************)
(* The event manager: the walks.                                           *)
(***************************************************************************)

Frame == [event : Events, next : Nat]

\* What is known of the emissions without looking at the collections.
FramesType ==
  /\ frames \in [Callers -> Seq(Frame)]
  /\ place \in [Callers -> {"client", "find", "walk"}]
  /\ overlapped \in BOOLEAN
  /\ emitting \in BOOLEAN

\* As long as no emission has ended inside another one, the flag is set
\* whenever somebody emits.
FlagIsSet ==
  \A t \in Callers : frames[t] # <<>> => emitting \/ overlapped

WalkInv == FramesType /\ FlagIsSet /\ WalksAreProtected

-----------------------------------------------------------------------------

\* A walk belongs to an emission that is under way.
LEMMA WalkingHasFrame ==
  ASSUME FramesType, NEW e, NEW t \in Callers, Walking(e, t, FALSE)
  PROVE  \E o \in Callers : frames[o] # <<>>
  <1>1. PICK o \in Callers : \E i \in 1 .. Len(frames[o]) : TRUE
    BY DEF Walking
  <1>2. frames[o] \in Seq(Frame) /\ Len(frames[o]) # 0
    BY <1>1 DEF FramesType
  <1>. QED  BY <1>2

\* The same for the emissions that are left when t ends its innermost one.
LEMMA WalkingOtherHasFrame ==
  ASSUME FramesType, NEW e, NEW t \in Callers, Walking(e, t, TRUE),
         frames' = [frames EXCEPT ![t] = Front(@)]
  PROVE  \E o \in Callers : frames'[o] # <<>>
  <1>1. PICK o \in Callers :
          \E i \in 1 .. Len(frames[o]) - (IF o = t THEN 1 ELSE 0) : TRUE
    BY DEF Walking
  <1>2. frames[o] \in Seq(Frame) /\ Len(frames[o]) \in Nat
    BY DEF FramesType
  <1>3. CASE o # t
    BY <1>1, <1>2, <1>3 DEF FramesType
  <1>4. CASE o = t
    <2>1. Len(frames[o]) > 1
      BY <1>1, <1>2, <1>4
    <2>2. frames'[o] = SubSeq(frames[o], 1, Len(frames[o]) - 1)
      BY <1>4 DEF FramesType, Front
    <2>3. Len(frames'[o]) > 0
      BY <2>1, <2>2, <1>2
    <2>. QED  BY <2>3
  <1>. QED  BY <1>3, <1>4

-----------------------------------------------------------------------------

LEMMA WalkInvInit == EventInit => WalkInv
  <1>. SUFFICES ASSUME EventInit  PROVE WalkInv
    OBVIOUS
  <1>1. <<>> \in Seq(Frame)
    OBVIOUS
  <1>2. FramesType /\ FlagIsSet
    BY <1>1 DEF EventInit, FramesType, FlagIsSet
  <1>. QED  BY <1>2 DEF EventInit, WalkInv, WalksAreProtected

\* Requests made outside of an emission.
LEMMA RequestKeeps ==
  ASSUME WalkInv, NEW t \in Callers, NEW e \in Events, NEW p \in EntryPoints,
         Subscribe(t, e, p) \/ SubscribeRefused(t, e, p) \/ Unsubscribe(t, e, p)
  PROVE  WalkInv'
  <1>1. UNCHANGED <<frames, place, overlapped, emitting>>
    BY DEF Subscribe, SubscribeRefused, Unsubscribe
  <1>2. broken' \in {broken, "name"} \/ (~emitting /\ Walking(e, t, FALSE))
    BY DEF Subscribe, SubscribeRefused, Unsubscribe, Disturb, LookUpName
  <1>3. ASSUME ~emitting, Walking(e, t, FALSE)  PROVE overlapped
    BY <1>3, WalkingHasFrame DEF WalkInv, FlagIsSet
  <1>. QED
    BY <1>1, <1>2, <1>3 DEF WalkInv, FramesType, FlagIsSet, WalksAreProtected

LEMMA EmitBeginKeeps ==
  ASSUME WalkInv, NEW t \in Callers, NEW e \in Events, EmitBegin(t, e)
  PROVE  WalkInv'
  <1>1. [event |-> e, next |-> 1] \in Frame
    BY DEF Frame
  <1>2. FramesType'
    BY <1>1 DEF EmitBegin, WalkInv, FramesType, requestVars
  <1>. QED  BY <1>2 DEF EmitBegin, WalkInv, FlagIsSet, WalksAreProtected

LEMMA ThrowKeeps ==
  ASSUME WalkInv, NEW t \in Callers, Throw(t), broken = "no"
  PROVE  WalkInv'
  <1>1. PICK depth \in 0 .. Len(frames[t]) - 1 :
          frames' = [frames EXCEPT ![t] = SubSeq(@, 1, depth)]
    BY DEF Throw
  <1>2. frames[t] \in Seq(Frame) /\ Len(frames[t]) \in Nat
    BY DEF WalkInv, FramesType
  <1>3. SubSeq(frames[t], 1, depth) \in Seq(Frame)
    BY <1>1, <1>2
  <1>4. FramesType'
    BY <1>1, <1>3 DEF Throw, WalkInv, FramesType
  <1>5. frames[t] # <<>>
    BY <1>1, <1>2
  <1>6. FlagIsSet'
    <2>. SUFFICES ASSUME NEW o \in Callers, frames'[o] # <<>>
                  PROVE  (emitting \/ overlapped)'
      BY DEF FlagIsSet
    <2>1. emitting \/ overlapped
      BY <1>5 DEF WalkInv, FlagIsSet
    <2>. QED  BY <2>1 DEF Throw
  <1>. QED  BY <1>4, <1>6 DEF Throw, WalkInv, WalksAreProtected

LEMMA ExecuteKeeps ==
  ASSUME WalkInv, NEW t \in Callers, Execute(t)
  PROVE  WalkInv'
  <1>. DEFINE top == Len(frames[t])
  <1>1. frames' = [frames EXCEPT ![t] = [frames[t] EXCEPT ![top] =
                     [frames[t][top] EXCEPT !.next = frames[t][top].next + 1]]]
    BY DEF Execute
  <1>2. frames[t] \in Seq(Frame) /\ top \in Nat
    BY DEF WalkInv, FramesType
  <1>3. frames'[t] \in Seq(Frame) /\ (frames'[t] # <<>> => frames[t] # <<>>)
    <2>1. frames'[t] = [frames[t] EXCEPT ![top] =
                     [frames[t][top] EXCEPT !.next = frames[t][top].next + 1]]
      BY <1>1 DEF WalkInv, FramesType
    <2>2. CASE top = 0
      <3>1. frames[t] = <<>>
        BY <1>2, <2>2
      <3>2. frames'[t] = frames[t]
        BY <2>1, <2>2, <3>1
      <3>. QED  BY <1>2, <3>2
    <2>3. CASE top # 0
      <3>1. frames[t][top] \in Frame
        BY <1>2, <2>3
      <3>2. [frames[t][top] EXCEPT !.next = frames[t][top].next + 1] \in Frame
        BY <3>1 DEF Frame
      <3>3. frames'[t] \in Seq(Frame)
        BY <2>1, <3>2, <1>2, <2>3
      <3>. QED  BY <3>3, <2>3, <1>2
    <2>. QED  BY <2>2, <2>3
  <1>4. \A o \in Callers : o # t => frames'[o] = frames[o]
    BY <1>1 DEF WalkInv, FramesType
  <1>5. FramesType'
    <2>1. frames' \in [Callers -> Seq(Frame)]
      BY <1>1, <1>3, <1>4 DEF WalkInv, FramesType
    <2>. QED  BY <2>1 DEF Execute, WalkInv, FramesType
  <1>6. FlagIsSet'
    BY <1>3, <1>4 DEF Execute, WalkInv, FlagIsSet
  <1>. QED  BY <1>5, <1>6 DEF Execute, WalkInv, WalksAreProtected

\* The end of an emission: if another one is left, they overlap.
LEMMA EmitEndKeeps ==
  ASSUME WalkInv, NEW t \in Callers, EmitEnd(t), broken = "no"
  PROVE  WalkInv'
  <1>1. frames' = [frames EXCEPT ![t] = Front(@)]
    BY DEF EmitEnd
  <1>2. frames[t] \in Seq(Frame) /\ Len(frames[t]) \in Nat
    BY DEF WalkInv, FramesType
  <1>3. Front(frames[t]) \in Seq(Frame)
    BY <1>2 DEF Front
  <1>4. FramesType'
    BY <1>1, <1>3 DEF EmitEnd, WalkInv, FramesType
  <1>5. FlagIsSet'
    BY DEF EmitEnd, FlagIsSet
  <1>6. WalksAreProtected'
    <2>. SUFFICES ASSUME broken' = "walk"  PROVE overlapped'
      BY DEF WalksAreProtected
    <2>1. PICK e \in Events : Walking(e, t, TRUE)
      BY DEF EmitEnd
    <2>. QED  BY <2>1, <1>1, WalkingOtherHasFrame DEF WalkInv, EmitEnd
  <1>. QED  BY <1>4, <1>5, <1>6 DEF WalkInv

LEMMA WalkInvStep == WalkInv /\ [EventNext]_eventVars => WalkInv'
  <1>. SUFFICES ASSUME WalkInv, [EventNext]_eventVars  PROVE WalkInv'
    OBVIOUS
  <1>1. ASSUME NEW t \in Callers, Call(t)  PROVE WalkInv'
    <2>1. PICK e \in Events :
            \/ QueryEventId(t, e)
            \/ EmitBegin(t, e)
            \/ \E p \in EntryPoints :
                 Subscribe(t, e, p) \/ SubscribeRefused(t, e, p) \/ Unsubscribe(t, e, p)
      BY <1>1 DEF Call
    <2>2. CASE QueryEventId(t, e)
      BY <2>2 DEF QueryEventId, MayCall, WalkInv, FramesType, FlagIsSet,
                  WalksAreProtected
    <2>. QED  BY <2>1, <2>2, EmitBeginKeeps, RequestKeeps
  <1>2. ASSUME NEW t \in Callers, Proceed(t)  PROVE WalkInv'
    <2>1. CASE Find(t) \/ Return(t)
      BY <2>1 DEF Find, Return, WalkInv, FramesType, FlagIsSet, WalksAreProtected
    <2>. QED  BY <1>2, <2>1, ThrowKeeps, ExecuteKeeps, EmitEndKeeps DEF Proceed
  <1>3. CASE UNCHANGED eventVars
    BY <1>3 DEF eventVars, WalkInv, FramesType, FlagIsSet, WalksAreProtected
  <1>. QED  BY <1>1, <1>2, <1>3 DEF EventNext

\* Emit walks the subscribers without the mutex; nobody changes a collection
\* that is walked, except after an emission has ended inside another one.
THEOREM DeferringProtectsWalks == EventSpec => []WalksAreProtected
<1>1. WalkInv => WalksAreProtected
  BY DEF WalkInv
<1>. QED  BY <1>1, WalkInvInit, WalkInvStep, PTL DEF EventSpec

-----------------------------------------------------------------------------
(***************************************************************************)
(* Induction on the natural numbers, for sets: the form of it that can be  *)
(* used below.                                                             *)
(***************************************************************************)

LEMMA InductionInSet ==
  ASSUME NEW S, 0 \in S, \A n \in Nat : n \in S => n + 1 \in S
  PROVE  Nat \subseteq S
<1>. DEFINE Before == OpToRel(<, Nat)
            Missing == Nat \ S
<1>1. ASSUME Missing # {}
      PROVE  \E n \in Missing : \A m \in Missing : ~ (m < n)
  <2>1. IsWellFoundedOn(Before, Nat)
    BY NatLessThanWellFounded
  <2>2. \A m, n \in Nat : m < n => <<m, n>> \in Before
    BY DEF OpToRel
  <2>3. Missing \subseteq Nat
    OBVIOUS
  <2>. HIDE DEF Before, Missing
  <2>4. PICK n \in Missing : \A m \in Missing : ~ (<<m, n>> \in Before)
    BY <1>1, <2>1, <2>3, WFMin
  <2>. QED  BY <2>2, <2>3, <2>4
<1>. HIDE DEF Before
<1>2. ASSUME NEW n \in Missing, \A m \in Missing : ~ (m < n)  PROVE FALSE
  <2>1. n # 0 /\ n - 1 \in Nat /\ n - 1 < n
    OBVIOUS
  <2>. QED  BY <1>2, <2>1
<1>. QED  BY <1>1, <1>2

-----------------------------------------------------------------------------
(***************************************************************************)
(* Serving requests one after the other.                                   *)
(***************************************************************************)

Lists == [Events -> Seq(EntryPoints)]
Requests == [event : Events, sub : BOOLEAN, ep : EntryPoints]

LEMMA WithoutType ==
  ASSUME NEW list \in Seq(EntryPoints), NEW p
  PROVE  Without(list, p) \in Seq(EntryPoints)
<1>1. CASE Contains(list, p)
  <2>. DEFINE at == CHOOSE i \in DOMAIN list : list[i] = p
  <2>1. at \in 1 .. Len(list)
    BY <1>1 DEF Contains
  <2>. HIDE DEF at
  <2>2. RemoveAt(list, at) \in Seq(EntryPoints)
    BY <2>1 DEF RemoveAt
  <2>. QED  BY <1>1, <2>2 DEF Without, at
<1>2. CASE ~Contains(list, p)
  BY <1>2 DEF Without
<1>. QED  BY <1>1, <1>2

\* Where the elements of a sequence are once the one at place at is gone.
LEMMA RemovedAt ==
  ASSUME NEW list \in Seq(EntryPoints), NEW at \in 1 .. Len(list)
  PROVE  /\ DOMAIN RemoveAt(list, at) = 1 .. Len(list) - 1
         /\ \A j \in 1 .. Len(list) - 1 :
              RemoveAt(list, at)[j] = IF j < at THEN list[j] ELSE list[j + 1]
<1>. DEFINE before == SubSeq(list, 1, at - 1)
            behind == SubSeq(list, at + 1, Len(list))
            rest   == RemoveAt(list, at)
<1>1. /\ before \in Seq(EntryPoints) /\ Len(before) = at - 1
      /\ \A j \in 1 .. at - 1 : before[j] = list[j]
  OBVIOUS
<1>2. /\ behind \in Seq(EntryPoints) /\ Len(behind) = Len(list) - at
      /\ \A j \in 1 .. Len(list) - at : behind[j] = list[at + j]
  OBVIOUS
<1>3. rest = before \o behind
  BY DEF RemoveAt
<1>. HIDE DEF before, behind, rest
<1>4. DOMAIN rest = 1 .. Len(list) - 1
  BY <1>1, <1>2, <1>3
<1>5. ASSUME NEW j \in 1 .. Len(list) - 1, j < at  PROVE rest[j] = list[j]
  BY <1>1, <1>2, <1>3, <1>5
<1>6. ASSUME NEW j \in 1 .. Len(list) - 1, ~(j < at)
      PROVE  rest[j] = list[j + 1]
  <2>1. j - (at - 1) \in 1 .. Len(list) - at /\ at + (j - (at - 1)) = j + 1
    BY <1>6
  <2>2. rest[j] = behind[j - (at - 1)]
    BY <1>1, <1>2, <1>3, <1>6
  <2>3. behind[j - (at - 1)] = list[at + (j - (at - 1))]
    BY <1>2, <2>1
  <2>. QED  BY <2>1, <2>2, <2>3
<1>. QED  BY <1>4, <1>5, <1>6 DEF rest

\* One place of p goes: the only one, if p was not there twice, and nobody
\* else's.
LEMMA WithoutThere ==
  ASSUME NEW list \in Seq(EntryPoints), NEW p
  PROVE  /\ \A x : x # p => (There(Without(list, p), x) <=> There(list, x))
         /\ \A x : TwiceThere(Without(list, p), x) => TwiceThere(list, x)
         /\ ~TwiceThere(list, p) => ~There(Without(list, p), p)
<1>1. CASE Contains(list, p)
  <2>. DEFINE at == CHOOSE i \in DOMAIN list : list[i] = p
              rest == RemoveAt(list, at)
              old(j) == IF j < at THEN j ELSE j + 1
  <2>1. at \in 1 .. Len(list) /\ list[at] = p
    BY <1>1 DEF Contains
  <2>2. Without(list, p) = rest
    BY <1>1 DEF Without
  <2>. HIDE DEF at
  <2>3. /\ DOMAIN rest = 1 .. Len(list) - 1
        /\ \A j \in 1 .. Len(list) - 1 : rest[j] = list[old(j)]
    BY <2>1, RemovedAt
  <2>. HIDE DEF rest
  <2>4. \A j \in 1 .. Len(list) - 1 : old(j) \in DOMAIN list /\ old(j) # at
    BY <2>1
  <2>5. \A i, j \in 1 .. Len(list) - 1 : i # j => old(i) # old(j)
    BY <2>1
  <2>6. \A i \in DOMAIN list \ {at} : \E j \in 1 .. Len(list) - 1 : old(j) = i
    <3>. SUFFICES ASSUME NEW i \in DOMAIN list \ {at}
                  PROVE  \E j \in 1 .. Len(list) - 1 : old(j) = i
      OBVIOUS
    <3>1. CASE i < at
      <4>1. i \in 1 .. Len(list) - 1 /\ old(i) = i
        BY <2>1, <3>1
      <4>. QED  BY <4>1
    <3>2. CASE i > at
      <4>1. i - 1 \in 1 .. Len(list) - 1 /\ old(i - 1) = i
        BY <2>1, <3>2
      <4>. QED  BY <4>1
    <3>. QED  BY <2>1, <3>1, <3>2
  <2>. HIDE DEF old
  <2>7. \A x : There(rest, x) => \E i \in DOMAIN list : i # at /\ list[i] = x
    BY <2>3, <2>4 DEF There
  <2>8. ASSUME NEW x, x # p, There(list, x)  PROVE There(rest, x)
    <3>1. PICK i \in DOMAIN list : list[i] = x
      BY <2>8 DEF There
    <3>2. PICK j \in 1 .. Len(list) - 1 : old(j) = i
      BY <2>1, <2>6, <2>8, <3>1
    <3>. QED  BY <2>3, <3>1, <3>2 DEF There
  <2>9. ASSUME NEW x, TwiceThere(rest, x)  PROVE TwiceThere(list, x)
    <3>1. PICK i, j \in 1 .. Len(list) - 1 : i # j /\ rest[i] = x /\ rest[j] = x
      BY <2>3, <2>9 DEF TwiceThere
    <3>. QED  BY <2>3, <2>4, <2>5, <3>1 DEF TwiceThere
  <2>10. There(rest, p) => TwiceThere(list, p)
    BY <2>1, <2>7 DEF TwiceThere
  <2>. QED  BY <2>2, <2>7, <2>8, <2>9, <2>10 DEF There
<1>2. CASE ~Contains(list, p)
  BY <1>2 DEF Without, Contains, There, TwiceThere
<1>. QED  BY <1>1, <1>2

LEMMA AppendThere ==
  ASSUME NEW list \in Seq(EntryPoints), NEW p \in EntryPoints
  PROVE  /\ \A x : There(Append(list, p), x) <=> x = p \/ There(list, x)
         /\ \A x : TwiceThere(Append(list, p), x) =>
              TwiceThere(list, x) \/ (x = p /\ There(list, p))
<1>. DEFINE more == Append(list, p)
<1>1. /\ DOMAIN more = 1 .. Len(list) + 1 /\ DOMAIN list = 1 .. Len(list)
      /\ \A i \in 1 .. Len(list) : more[i] = list[i]
      /\ more[Len(list) + 1] = p
      /\ Len(list) + 1 \in DOMAIN more
      /\ \A i \in DOMAIN more : i \in DOMAIN list \/ i = Len(list) + 1
      /\ \A i \in DOMAIN list : i \in DOMAIN more
  OBVIOUS
<1>. HIDE DEF more
<1>2. \A x : There(more, x) <=> x = p \/ There(list, x)
  BY <1>1 DEF There
<1>3. ASSUME NEW x, TwiceThere(more, x)
      PROVE  TwiceThere(list, x) \/ (x = p /\ There(list, p))
  <2>1. PICK i, j \in DOMAIN more : i # j /\ more[i] = x /\ more[j] = x
    BY <1>3 DEF TwiceThere
  <2>. QED  BY <1>1, <2>1 DEF There, TwiceThere
<1>. QED  BY <1>2, <1>3 DEF more

LEMMA ServeType ==
  ASSUME NEW lists \in Lists, NEW q \in Requests
  PROVE  Serve(lists, q) \in Lists
<1>1. lists[q.event] \in Seq(EntryPoints)
  BY DEF Lists, Requests
<1>2. Append(lists[q.event], q.ep) \in Seq(EntryPoints)
  BY <1>1 DEF Requests
<1>3. Without(lists[q.event], q.ep) \in Seq(EntryPoints)
  BY <1>1, WithoutType
<1>. QED  BY <1>2, <1>3 DEF Serve, Lists

\* The collections after each of the first n requests.
Follows(lists, queries, n, g) ==
  /\ g[0] = lists
  /\ \A i \in 1 .. n : g[i] = Serve(g[i - 1], queries[i])

Chain(lists, queries, n, g) ==
  /\ g \in [0 .. n -> Lists]
  /\ Follows(lists, queries, n, g)

LEMMA ChainExists ==
  ASSUME NEW lists \in Lists, NEW queries \in Seq(Requests)
  PROVE  \E g : Chain(lists, queries, Len(queries), g)
<1>. DEFINE S == {n \in Nat : n <= Len(queries) => \E g : Chain(lists, queries, n, g)}
<1>1. 0 \in S
  <2>1. Chain(lists, queries, 0, [i \in 0 .. 0 |-> lists])
    BY DEF Chain, Follows
  <2>. QED  BY <2>1
<1>2. ASSUME NEW n \in Nat, n \in S  PROVE n + 1 \in S
  <2>. SUFFICES ASSUME n + 1 <= Len(queries)
                PROVE  \E g : Chain(lists, queries, n + 1, g)
    OBVIOUS
  <2>1. PICK g : Chain(lists, queries, n, g)
    BY <1>2
  <2>. DEFINE h == [i \in 0 .. n + 1 |->
                      IF i <= n THEN g[i] ELSE Serve(g[n], queries[n + 1])]
  <2>2. Serve(g[n], queries[n + 1]) \in Lists
    <3>1. g[n] \in Lists /\ queries[n + 1] \in Requests
      BY <2>1 DEF Chain, Follows
    <3>. QED  BY <3>1, ServeType
  <2>3. h \in [0 .. n + 1 -> Lists]
    BY <2>1, <2>2 DEF Chain, Follows
  <2>4. h[0] = lists
    BY <2>1 DEF Chain, Follows
  <2>5. ASSUME NEW i \in 1 .. n + 1  PROVE h[i] = Serve(h[i - 1], queries[i])
    <3>1. CASE i <= n
      <4>1. h[i] = g[i] /\ h[i - 1] = g[i - 1]
        BY <3>1
      <4>. QED  BY <2>1, <3>1, <4>1 DEF Chain, Follows
    <3>2. CASE i = n + 1
      <4>1. h[i] = Serve(g[n], queries[n + 1]) /\ h[i - 1] = g[n]
        BY <3>2
      <4>. QED  BY <3>2, <4>1
    <3>. QED  BY <3>1, <3>2
  <2>6. Chain(lists, queries, n + 1, h)
    <3>. HIDE DEF h
    <3>. QED  BY <2>3, <2>4, <2>5 DEF Chain, Follows
  <2>. QED  BY <2>6
<1>3. Nat \subseteq S
  <2>. HIDE DEF S
  <2>. QED  BY <1>1, <1>2, InductionInSet
<1>. QED  BY <1>3

LEMMA ChainUnique ==
  ASSUME NEW lists, NEW queries, NEW n \in Nat, NEW g, NEW h,
         Follows(lists, queries, n, g), Follows(lists, queries, n, h)
  PROVE  \A i \in 0 .. n : g[i] = h[i]
<1>. DEFINE S == {i \in Nat : i <= n => g[i] = h[i]}
<1>1. 0 \in S
  BY DEF Follows
<1>2. ASSUME NEW i \in Nat, i \in S  PROVE i + 1 \in S
  <2>. SUFFICES ASSUME i + 1 <= n  PROVE g[i + 1] = h[i + 1]
    OBVIOUS
  <2>1. g[i] = h[i] /\ i + 1 \in 1 .. n /\ (i + 1) - 1 = i
    BY <1>2
  <2>. QED  BY <2>1 DEF Follows
<1>3. Nat \subseteq S
  <2>. HIDE DEF S
  <2>. QED  BY <1>1, <1>2, InductionInSet
<1>. QED  BY <1>3

\* ServeAll is the end of the chain.
LEMMA ServeAllIsLast ==
  ASSUME NEW lists \in Lists, NEW queries \in Seq(Requests),
         NEW g, Chain(lists, queries, Len(queries), g)
  PROVE  ServeAll(lists, queries) = g[Len(queries)]
<1>. DEFINE n == Len(queries)
            Def(f) == f = [i \in 0 .. n |->
                             IF i = 0 THEN lists ELSE Serve(f[i - 1], queries[i])]
            after == CHOOSE f : Def(f)
<1>0. n \in Nat
  OBVIOUS
<1>1. Def(g)
  <2>1. g = [i \in 0 .. n |-> g[i]]
    BY DEF Chain, Follows
  <2>2. \A i \in 0 .. n : g[i] = IF i = 0 THEN lists ELSE Serve(g[i - 1], queries[i])
    BY <1>0 DEF Chain, Follows
  <2>. QED  BY <2>1, <2>2
<1>2. Def(after)
  <2>. HIDE DEF Def
  <2>. QED  BY <1>1
<1>3. ServeAll(lists, queries) = after[n]
  BY DEF ServeAll
<1>. HIDE DEF after, n
<1>4. Follows(lists, queries, n, after)
  BY <1>0, <1>2 DEF Follows
<1>5. Follows(lists, queries, n, g)
  BY DEF Chain, n
<1>6. \A i \in 0 .. n : after[i] = g[i]
  BY <1>0, <1>4, <1>5, ChainUnique
<1>7. after[n] = g[n]
  BY <1>0, <1>6
<1>. QED  BY <1>3, <1>7 DEF n

LEMMA ServeAllType ==
  ASSUME NEW lists \in Lists, NEW queries \in Seq(Requests)
  PROVE  ServeAll(lists, queries) \in Lists
<1>1. PICK g : Chain(lists, queries, Len(queries), g)
  BY ChainExists
<1>. QED  BY <1>1, ServeAllIsLast DEF Chain, Follows

LEMMA ServeNone ==
  ASSUME NEW lists \in Lists
  PROVE  ServeAll(lists, <<>>) = lists
<1>1. <<>> \in Seq(Requests) /\ Len(<<>>) = 0
  OBVIOUS
<1>2. PICK g : Chain(lists, <<>>, Len(<<>>), g)
  BY <1>1, ChainExists
<1>. QED  BY <1>1, <1>2, ServeAllIsLast DEF Chain, Follows

\* One more request is served last.
LEMMA ServeOneMore ==
  ASSUME NEW lists \in Lists, NEW queries \in Seq(Requests), NEW q \in Requests
  PROVE  ServeAll(lists, Append(queries, q)) = Serve(ServeAll(lists, queries), q)
<1>. DEFINE more == Append(queries, q)
            n == Len(queries)
<1>1. /\ more \in Seq(Requests) /\ Len(more) = n + 1 /\ n \in Nat
      /\ more[n + 1] = q /\ \A i \in 1 .. n : more[i] = queries[i]
  OBVIOUS
<1>. HIDE DEF more
<1>2. PICK g : Chain(lists, more, Len(more), g)
  BY <1>1, ChainExists
<1>. DEFINE h == [i \in 0 .. n |-> g[i]]
<1>3. Chain(lists, queries, n, h)
  <2>1. h \in [0 .. n -> Lists] /\ h[0] = lists
    BY <1>1, <1>2 DEF Chain, Follows
  <2>2. ASSUME NEW i \in 1 .. n  PROVE h[i] = Serve(h[i - 1], queries[i])
    <3>1. h[i] = g[i] /\ h[i - 1] = g[i - 1]
      BY <1>1
    <3>2. g[i] = Serve(g[i - 1], more[i])
      BY <1>1, <1>2 DEF Chain, Follows
    <3>. QED  BY <1>1, <3>1, <3>2
  <2>. HIDE DEF h
  <2>. QED  BY <2>1, <2>2 DEF Chain, Follows
<1>4. h[n] = g[n]
  BY <1>1
<1>. HIDE DEF h
<1>5. ServeAll(lists, queries) = g[n]
  BY <1>3, <1>4, ServeAllIsLast
<1>6. ServeAll(lists, more) = g[n + 1]
  BY <1>1, <1>2, ServeAllIsLast
<1>7. g[n + 1] = Serve(g[n], q)
  <2>1. n + 1 \in 1 .. Len(more) /\ (n + 1) - 1 = n
    BY <1>1
  <2>2. g[n + 1] = Serve(g[(n + 1) - 1], more[n + 1])
    BY <1>2, <2>1 DEF Chain, Follows
  <2>. QED  BY <1>1, <2>1, <2>2
<1>. QED  BY <1>5, <1>6, <1>7 DEF more

-----------------------------------------------------------------------------
(***************************************************************************)
(* Every request takes effect, in order.                                   *)
(***************************************************************************)

RequestTypes ==
  /\ known \subseteq Events
  /\ registry \in Lists
  /\ subQueries \in Seq(Requests)
  /\ wanted \in [Events -> SUBSET EntryPoints]
  /\ repeated \in [Events -> SUBSET EntryPoints]

\* What RequestsTakeEffect says of event e and entry point p.
AsAsked(e, p) ==
  /\ p \in wanted[e] => There(Served[e], p)
  /\ p \notin repeated[e] => /\ There(Served[e], p) => p \in wanted[e]
                             /\ ~TwiceThere(Served[e], p)

RequestInv == RequestTypes /\ RequestsTakeEffect

\* A request that is deferred, or served at once because nobody emits: it is
\* the last one that is served.
LEMMA RequestKeepsEffect ==
  ASSUME RequestInv, NEW e \in Events, NEW p \in EntryPoints, NEW sub \in BOOLEAN,
         \/ /\ emitting
            /\ subQueries' = Append(subQueries, Query(e, sub, p))
            /\ registry' = registry
         \/ /\ ~emitting
            /\ registry' = Serve(registry, Query(e, sub, p))
            /\ subQueries' = subQueries,
         wanted' = [wanted EXCEPT ![e] = IF sub THEN @ \union {p} ELSE @ \ {p}],
         repeated' = IF sub /\ p \in wanted[e]
                     THEN [repeated EXCEPT ![e] = @ \union {p}] ELSE repeated,
         emitting' = emitting, known' = known
  PROVE  RequestInv'
<1>. DEFINE q == Query(e, sub, p)
<1>0. q \in Requests /\ registry \in Lists /\ subQueries \in Seq(Requests)
  BY DEF Query, Requests, RequestInv, RequestTypes
<1>1. Served \in Lists
  BY <1>0, ServeAllType DEF Served
<1>2. Served' = Serve(Served, q)
  <2>1. CASE emitting
    BY <1>0, <2>1, ServeOneMore DEF Served
  <2>2. CASE ~emitting
    <3>1. subQueries = <<>>
      BY <2>2 DEF RequestInv, RequestsTakeEffect
    <3>2. registry' \in Lists /\ subQueries' = <<>> /\ registry' = Serve(registry, q)
      BY <1>0, <2>2, <3>1, ServeType
    <3>. QED  BY <1>0, <3>1, <3>2, ServeNone DEF Served
  <2>. QED  BY <2>1, <2>2
<1>3. /\ \A o \in Events : o # e => Served'[o] = Served[o]
      /\ Served'[e] = IF sub THEN Append(Served[e], p) ELSE Without(Served[e], p)
      /\ Served[e] \in Seq(EntryPoints)
  BY <1>1, <1>2 DEF Serve, Query, Lists
<1>4. \A o \in Events, x \in EntryPoints : AsAsked(o, x)
  BY DEF RequestInv, RequestsTakeEffect, AsAsked
<1>5. RequestTypes'
  <2>1. Serve(registry, q) \in Lists /\ Append(subQueries, q) \in Seq(Requests)
    BY <1>0, ServeType
  <2>. HIDE DEF q
  <2>2. /\ wanted' \in [Events -> SUBSET EntryPoints]
        /\ repeated' \in [Events -> SUBSET EntryPoints]
    BY DEF RequestInv, RequestTypes
  <2>3. registry' \in Lists /\ subQueries' \in Seq(Requests)
    BY <1>0, <2>1 DEF q
  <2>. QED  BY <2>2, <2>3 DEF RequestInv, RequestTypes
<1>6. /\ \A o \in Events, x \in EntryPoints : <<o, x>> # <<e, p>> =>
           /\ x \in wanted'[o] <=> x \in wanted[o]
           /\ x \in repeated'[o] <=> x \in repeated[o]
      /\ p \in wanted'[e] <=> sub
      /\ p \in repeated'[e] <=> p \in repeated[e] \/ (sub /\ p \in wanted[e])
  BY DEF RequestInv, RequestTypes
<1>7. ASSUME NEW o \in Events, NEW x \in EntryPoints  PROVE AsAsked(o, x)'
  <2>1. CASE o # e
    BY <1>3, <1>4, <1>6, <2>1 DEF AsAsked
  <2>2. CASE o = e /\ x # p
    <3>1. /\ There(Served'[e], x) <=> There(Served[e], x)
          /\ TwiceThere(Served'[e], x) => TwiceThere(Served[e], x)
      BY <1>3, <2>2, AppendThere, WithoutThere
    <3>. QED  BY <1>4, <1>6, <2>2, <3>1 DEF AsAsked
  <2>3. CASE o = e /\ x = p /\ sub
    <3>1. /\ There(Served'[e], p)
          /\ TwiceThere(Served'[e], p) => There(Served[e], p) \/ TwiceThere(Served[e], p)
      BY <1>3, <2>3, AppendThere
    <3>. QED  BY <1>4, <1>6, <2>3, <3>1 DEF AsAsked
  <2>4. CASE o = e /\ x = p /\ ~sub
    <3>1. /\ TwiceThere(Served'[e], p) => TwiceThere(Served[e], p)
          /\ ~TwiceThere(Served[e], p) => ~There(Served'[e], p)
      BY <1>3, <2>4, WithoutThere
    <3>. QED  BY <1>4, <1>6, <2>4, <3>1 DEF AsAsked
  <2>. QED  BY <2>1, <2>2, <2>3, <2>4
<1>8. subQueries' # <<>> => emitting'
  BY DEF RequestInv, RequestsTakeEffect
<1>. QED  BY <1>5, <1>7, <1>8 DEF RequestInv, RequestsTakeEffect, AsAsked

\* The end of an emission: the collections become what they were to become.
LEMMA EmitEndKeepsEffect ==
  ASSUME RequestInv, NEW t \in Callers, EmitEnd(t)
  PROVE  RequestInv'
<1>1. registry \in Lists /\ subQueries \in Seq(Requests)
  BY DEF RequestInv, RequestTypes
<1>2. /\ registry' = Served /\ subQueries' = <<>>
      /\ UNCHANGED <<known, wanted, repeated>>
  BY DEF EmitEnd, Served
<1>3. Served \in Lists
  BY <1>1, ServeAllType DEF Served
<1>4. Served' = Served
  BY <1>2, <1>3, ServeNone DEF Served
<1>5. RequestTypes'
  BY <1>2, <1>3 DEF RequestInv, RequestTypes
<1>. QED  BY <1>2, <1>4, <1>5 DEF RequestInv, RequestsTakeEffect

LEMMA RequestInvInit == EventInit => RequestInv
<1>. SUFFICES ASSUME EventInit  PROVE RequestInv
  OBVIOUS
<1>1. RequestTypes
  <2>1. <<>> \in Seq(EntryPoints) /\ <<>> \in Seq(Requests)
    OBVIOUS
  <2>. QED  BY <2>1 DEF EventInit, RequestTypes, Lists, Events
<1>2. Served = registry
  BY <1>1, ServeNone DEF Served, EventInit, RequestTypes
<1>. QED
  BY <1>1, <1>2 DEF EventInit, RequestInv, RequestsTakeEffect, There, TwiceThere

LEMMA RequestInvStep == RequestInv /\ [EventNext]_eventVars => RequestInv'
<1>. SUFFICES ASSUME RequestInv, [EventNext]_eventVars  PROVE RequestInv'
  OBVIOUS
<1>1. ASSUME UNCHANGED <<registry, subQueries, wanted, repeated>>,
             known' \subseteq Events, emitting => emitting'
      PROVE  RequestInv'
  BY <1>1 DEF RequestInv, RequestTypes, RequestsTakeEffect, Served
<1>2. known \subseteq Events
  BY DEF RequestInv, RequestTypes
<1>3. ASSUME NEW t \in Callers, Call(t)  PROVE RequestInv'
  <2>1. PICK e \in Events :
          \/ QueryEventId(t, e)
          \/ EmitBegin(t, e)
          \/ \E p \in EntryPoints :
               Subscribe(t, e, p) \/ SubscribeRefused(t, e, p) \/ Unsubscribe(t, e, p)
    BY <1>3 DEF Call
  <2>2. CASE QueryEventId(t, e)
    BY <1>1, <1>2, <2>2 DEF QueryEventId
  <2>3. CASE EmitBegin(t, e)
    BY <1>1, <1>2, <2>3 DEF EmitBegin, requestVars
  <2>4. ASSUME NEW p \in EntryPoints, Subscribe(t, e, p)  PROVE RequestInv'
    <3>1. Serve(registry, Query(e, TRUE, p)) = [registry EXCEPT ![e] = Append(@, p)]
      BY DEF Serve, Query
    <3>. QED  BY <2>4, <3>1, RequestKeepsEffect DEF Subscribe
  <2>5. ASSUME NEW p \in EntryPoints, Unsubscribe(t, e, p)  PROVE RequestInv'
    <3>1. Serve(registry, Query(e, FALSE, p)) = [registry EXCEPT ![e] = Without(@, p)]
      BY DEF Serve, Query
    <3>. QED  BY <2>5, <3>1, RequestKeepsEffect DEF Unsubscribe
  <2>6. ASSUME NEW p \in EntryPoints, SubscribeRefused(t, e, p)  PROVE RequestInv'
    BY <1>1, <1>2, <2>6 DEF SubscribeRefused, requestVars
  <2>. QED  BY <2>1, <2>2, <2>3, <2>4, <2>5, <2>6
<1>4. ASSUME NEW t \in Callers, Proceed(t)  PROVE RequestInv'
  <2>1. CASE Find(t) \/ Throw(t) \/ Execute(t) \/ Return(t)
    BY <1>1, <1>2, <2>1 DEF Find, Throw, Execute, Return, requestVars
  <2>. QED  BY <1>4, <2>1, EmitEndKeepsEffect DEF Proceed
<1>5. CASE UNCHANGED eventVars
  BY <1>1, <1>2, <1>5 DEF eventVars, requestVars
<1>. QED  BY <1>3, <1>4, <1>5 DEF EventNext

\* "To be processed later" (EventManager.cpp:76): with the requests that wait
\* for the end of an emission the collections hold exactly who asked last to
\* be subscribed, each once, and nothing waits while nobody emits, for any
\* threads and any number of requests, also after an exception in Emit. Who
\* subscribed twice before the first request was served (line 71 looks at the
\* collection only) is there, but maybe more often than asked or for longer.
THEOREM RequestsAlwaysTakeEffect == EventSpec => []RequestsTakeEffect
<1>1. RequestInv => RequestsTakeEffect
  BY DEF RequestInv
<1>. QED  BY <1>1, RequestInvInit, RequestInvStep, PTL DEF EventSpec

=============================================================================
