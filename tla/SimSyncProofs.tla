--------------------------- MODULE SimSyncProofs ---------------------------
(***************************************************************************)
(* Proofs about SimSync and DataShare, for every number of runs and rounds *)
(* and all lists of fields of both sides.                                  *)
(***************************************************************************)
EXTENDS SimSync, FiniteSetTheorems, TLAPS

-----------------------------------------------------------------------------
(***************************************************************************)
(* Types, and where a side is when it is in the barrier.                   *)
(***************************************************************************)

BarrierTypes ==
  /\ thresh = 2
  /\ generation \in Nat /\ waiting \in Nat /\ released \in Nat
  /\ triggered \in BOOLEAN /\ canceled \in BOOLEAN
  /\ ticket \in [Side -> Nat \union {B!Out}]
  /\ result \in [Side -> BOOLEAN]

SideTypes ==
  /\ DOMAIN state = Side /\ DOMAIN pc = Side
  /\ stop \in [Side -> BOOLEAN]
  /\ round \in [Side -> Nat]
  /\ DOMAIN data = Side /\ DOMAIN loaded = Side
  /\ early \in BOOLEAN

\* A side has a ticket of the barrier exactly while it is in wait, and the
\* scheduler thread of the master is not there when it is started.
Inside(s) == pc[s] = "inside" <=> ticket[s] # B!Out
PlacesInv ==
  /\ \A s \in Side : Inside(s)
  /\ front = "start" => pc["master"] = "none"

TypeInv == BarrierTypes /\ SideTypes /\ PlacesInv

LEMMA TwoSides == B!N = 2
<1>1. Side = {"master", "slave"} /\ "master" # "slave"
  BY DEF Side
<1>2. Cardinality({"master"}) = 1
  BY FS_Singleton
<1>3. Cardinality({"master"} \union {"slave"}) = Cardinality({"master"}) + 1
  BY FS_Singleton, FS_AddElement
<1>4. {"master"} \union {"slave"} = {"master", "slave"}
  OBVIOUS
<1>5. B!Cardinality(Side) = Cardinality(Side)
  BY DEF B!Cardinality, Cardinality
<1>. QED  BY <1>1, <1>2, <1>3, <1>4, <1>5 DEF B!N

\* What the end of wait does to the side that leaves.
Passes(s) ==
  /\ ticket' = [ticket EXCEPT ![s] = B!Out]
  /\ result' = [result EXCEPT ![s] = ~canceled]
  /\ released' \in Nat
  /\ triggered' \in BOOLEAN

\* A side that arrives alone waits, unless the barrier is cancelled; the
\* second one to arrive opens the barrier.
LEMMA ArriveStep ==
  ASSUME BarrierTypes, NEW s \in Side, B!Arrive(s)
  PROVE  /\ ticket[s] = B!Out
         /\ waiting' = IF waiting = 0 THEN 1 ELSE 0
         /\ generation' = IF waiting = 0 THEN generation ELSE generation + 1
         /\ UNCHANGED <<thresh, canceled>>
         /\ \/ /\ Passes(s)
               /\ canceled \/ triggered \/ waiting # 0
               /\ ~canceled => waiting # 0
               /\ IF released = 0 THEN released' = 1 /\ triggered' = (triggered \/ waiting # 0)
                                  ELSE released' = 0 /\ triggered' = FALSE
            \/ /\ ~canceled /\ waiting = 0
               /\ ticket' = [ticket EXCEPT ![s] = generation]
               /\ UNCHANGED <<triggered, released, result>>
<1>. DEFINE full == waiting + 1 >= thresh
            trigger == triggered \/ full
            now == IF full THEN generation + 1 ELSE generation
<1>1. full <=> waiting # 0
  BY DEF BarrierTypes
<1>2. ticket[s] = B!Out /\ waiting' = (IF full THEN 0 ELSE waiting + 1)
      /\ generation' = now /\ UNCHANGED <<thresh, canceled>>
  BY DEF B!Arrive
<1>3. \/ B!Opened(generation, trigger, now) /\ B!Pass(s, trigger)
      \/ /\ ~B!Opened(generation, trigger, now)
         /\ ticket' = [ticket EXCEPT ![s] = generation]
         /\ triggered' = trigger
         /\ UNCHANGED <<released, result>>
  BY DEF B!Arrive
<1>4. B!Opened(generation, trigger, now) <=> canceled \/ full
  BY DEF B!Opened, BarrierTypes
<1>5. CASE B!Opened(generation, trigger, now) /\ B!Pass(s, trigger)
  <2>1. released + 1 >= thresh <=> released # 0
    BY DEF BarrierTypes
  <2>2. /\ released' = IF released # 0 THEN 0 ELSE released + 1
        /\ triggered' = (trigger /\ ~(released # 0))
        /\ ticket' = [ticket EXCEPT ![s] = B!Out]
        /\ result' = [result EXCEPT ![s] = ~canceled]
    BY <1>5, <2>1, Zenon DEF B!Pass
  <2>3. released' \in Nat /\ triggered' \in BOOLEAN
    BY <2>2 DEF BarrierTypes
  <2>4. Passes(s)
    BY <2>2, <2>3, Zenon DEF Passes
  <2>5. IF released = 0 THEN released' = 1 /\ triggered' = (triggered \/ waiting # 0)
                        ELSE released' = 0 /\ triggered' = FALSE
    <3>1. CASE released = 0
      <4>1. released' = 1
        BY <2>2, <3>1
      <4>2. triggered' = trigger
        BY <2>2, <3>1, Zenon
      <4>. QED  BY <1>1, <3>1, <4>1, <4>2, Zenon
    <3>2. CASE released # 0
      BY <2>2, <3>2, Zenon
    <3>. QED  BY <3>1, <3>2
  <2>6. waiting' = (IF waiting = 0 THEN 1 ELSE 0)
        /\ generation' = (IF waiting = 0 THEN generation ELSE generation + 1)
    BY <1>1, <1>2 DEF BarrierTypes
  <2>. QED  BY <1>1, <1>2, <1>4, <1>5, <2>4, <2>5, <2>6, Zenon
<1>6. CASE ~B!Opened(generation, trigger, now)
  BY <1>1, <1>2, <1>3, <1>4, <1>6 DEF BarrierTypes
<1>. QED  BY <1>3, <1>5, <1>6

LEMMA LeaveStep ==
  ASSUME BarrierTypes, NEW s \in Side, B!Leave(s)
  PROVE  /\ Passes(s)
         /\ ticket[s] # B!Out
         /\ canceled \/ (triggered /\ ticket[s] < generation)
         /\ IF released = 0 THEN released' = 1 /\ triggered' = triggered
                            ELSE released' = 0 /\ triggered' = FALSE
         /\ UNCHANGED <<thresh, generation, waiting, canceled>>
<1>1. released + 1 >= thresh <=> released # 0
  BY DEF BarrierTypes
<1>2. /\ released' = IF released # 0 THEN 0 ELSE released + 1
      /\ triggered' = (triggered /\ ~(released # 0))
      /\ ticket' = [ticket EXCEPT ![s] = B!Out]
      /\ result' = [result EXCEPT ![s] = ~canceled]
  BY <1>1, Zenon DEF B!Leave, B!Pass
<1>3. released' \in Nat /\ triggered' \in BOOLEAN
  BY <1>2 DEF BarrierTypes
<1>4. /\ ticket[s] # B!Out
      /\ canceled \/ (triggered /\ ticket[s] < generation)
      /\ UNCHANGED <<thresh, generation, waiting, canceled>>
  BY Zenon DEF B!Leave, B!Opened
<1>5. Passes(s)
  BY <1>2, <1>3, Zenon DEF Passes
<1>6. CASE released = 0
  BY <1>2, <1>4, <1>5, <1>6 DEF BarrierTypes
<1>7. CASE released # 0
  BY <1>2, <1>4, <1>5, <1>7, Zenon
<1>. QED  BY <1>6, <1>7


LEMMA TypeInit == Init => TypeInv
<1>. SUFFICES ASSUME Init PROVE TypeInv
  OBVIOUS
<1>1. BarrierTypes
  BY TwoSides, Zenon DEF Init, B!Init, BarrierTypes
<1>2. SideTypes
  <2>1. stop \in [Side -> BOOLEAN] /\ early \in BOOLEAN
    BY Zenon DEF Init
  <2>2. DOMAIN data = Side /\ DOMAIN loaded = Side
    BY Zenon DEF Init
  <2>. QED  BY <2>1, <2>2 DEF Init, SideTypes
<1>3. PlacesInv
  BY DEF Init, B!Init, PlacesInv, Inside
<1>. QED  BY <1>1, <1>2, <1>3 DEF TypeInv

\* Every step is one of these, by the thread that takes it.
FrontStep ==
  \/ FrontRun \/ FrontStore \/ FrontExit \/ FrontAbort \/ HoldMaster
  \/ FrontConnect \/ FrontInitialise \/ FrontStart
  \/ FrontSlaveStore \/ FrontSlaveStored \/ FrontStored \/ FrontSlaveRun
  \/ FrontLeave
StopStep ==
  \/ ThreadReturns \/ SetFlag \/ Subscribe \/ Check \/ FallAsleep \/ Unsubscribe
  \/ StopSlave \/ Notify
BarrierStep == FrontReset \/ FrontTell \/ Cancel
SyncStep(s) == Publish(s) \/ Arrive(s) \/ Leave(s) \/ Read(s) \/ Refused(s)

LEMMA Steps ==
  ASSUME Next
  PROVE  FrontStep \/ StopStep \/ BarrierStep \/ \E s \in Side : SyncStep(s)
BY DEF Next, Start, Sync, Stop, FrontStep, StopStep, BarrierStep, SyncStep

Here == "master" \in Side /\ "slave" \in Side
LEMMA SidesAreHere == Here
BY DEF Here, Side

LEMMA QuietStepTypes ==
  ASSUME TypeInv, FrontStep \/ StopStep
  PROVE  TypeInv'
<1>. USE SidesAreHere DEF Here
<1>1. UNCHANGED barrierVars
  BY DEF FrontStep, StopStep, FrontRun, FrontStore, FrontExit, FrontAbort, HoldMaster,
     FrontConnect, FrontInitialise, FrontStart, FrontSlaveStore,
     FrontSlaveStored, FrontStored, FrontSlaveRun, FrontLeave,
     ThreadReturns, SetFlag, Subscribe, Check, FallAsleep, Unsubscribe, StopSlave,
     Notify
<1>2. BarrierTypes'
  BY <1>1, Zenon DEF TypeInv, BarrierTypes, barrierVars
<1>3. stop' \in [Side -> BOOLEAN] /\ early' \in BOOLEAN
  BY DEF TypeInv, SideTypes, FrontStep, StopStep, FrontRun, FrontStore, FrontExit, FrontAbort, HoldMaster,
     FrontConnect, FrontInitialise, FrontStart, FrontSlaveStore,
     FrontSlaveStored, FrontStored, FrontSlaveRun, FrontLeave,
     ThreadReturns, SetFlag, Subscribe, Check, FallAsleep, Unsubscribe, StopSlave,
     Notify, frontRest, NoteEarly
<1>4. DOMAIN state' = Side /\ DOMAIN pc' = Side /\ round' \in [Side -> Nat]
      /\ DOMAIN data' = Side /\ DOMAIN loaded' = Side
  BY DEF TypeInv, SideTypes, FrontStep, StopStep, FrontRun, FrontStore, FrontExit, FrontAbort, HoldMaster,
     FrontConnect, FrontInitialise, FrontStart, FrontSlaveStore,
     FrontSlaveStored, FrontStored, FrontSlaveRun, FrontLeave,
     ThreadReturns, SetFlag, Subscribe, Check, FallAsleep, Unsubscribe, StopSlave,
     Notify, frontRest, dataVars, GoTo, Enters
<1>5. PlacesInv'
  BY <1>1 DEF TypeInv, PlacesInv, Inside, SideTypes, FrontStep, StopStep, FrontRun, FrontStore, FrontExit, FrontAbort, HoldMaster,
     FrontConnect, FrontInitialise, FrontStart, FrontSlaveStore,
     FrontSlaveStored, FrontStored, FrontSlaveRun, FrontLeave,
     ThreadReturns, SetFlag, Subscribe, Check, FallAsleep, Unsubscribe, StopSlave,
     Notify, frontRest, barrierVars, GoTo, Enters, AtRest
<1>. QED  BY <1>2, <1>3, <1>4, <1>5 DEF TypeInv, SideTypes

LEMMA BarrierStepTypes ==
  ASSUME TypeInv, BarrierStep
  PROVE  TypeInv'
<1>. USE SidesAreHere DEF Here
<1>1. B!Cancel \/ B!Reset
  BY Zenon DEF BarrierStep, FrontReset, FrontTell, Cancel
<1>2. BarrierTypes'
  <2>1. generation' \in Nat /\ waiting' \in Nat /\ released' \in Nat
        /\ UNCHANGED <<thresh, ticket, result>>
    BY <1>1 DEF TypeInv, BarrierTypes, B!Cancel, B!Reset
  <2>2. triggered' \in BOOLEAN /\ canceled' \in BOOLEAN
    BY <1>1, Zenon DEF TypeInv, BarrierTypes, B!Cancel, B!Reset
  <2>. QED  BY <2>1, <2>2, Zenon DEF TypeInv, BarrierTypes
<1>3. SideTypes'
  BY DEF TypeInv, SideTypes, BarrierStep, FrontReset, FrontTell, Cancel, frontRest, dataVars, GoTo
<1>4. UNCHANGED ticket
  BY <1>1 DEF B!Cancel, B!Reset
<1>5. PlacesInv'
  BY <1>4 DEF TypeInv, SideTypes, PlacesInv, Inside, BarrierStep, FrontReset, FrontTell,
     Cancel, frontRest, dataVars, GoTo
<1>. QED  BY <1>2, <1>3, <1>5 DEF TypeInv

LEMMA PassTypes ==
  ASSUME TypeInv, NEW s \in Side, pc[s] # "none", Passes(s), Answered(s),
         UNCHANGED <<thresh, state, front, stop, dataVars, early>>,
         canceled' = canceled, generation' \in Nat, waiting' \in Nat
  PROVE  TypeInv'
<1>1. BarrierTypes'
  <2>1. ticket' \in [Side -> Nat \union {B!Out}]
    BY DEF TypeInv, BarrierTypes, Passes
  <2>2. result' \in [Side -> BOOLEAN]
    BY Zenon DEF TypeInv, BarrierTypes, Passes
  <2>3. thresh' = 2 /\ released' \in Nat
    BY DEF TypeInv, BarrierTypes, Passes
  <2>4. triggered' \in BOOLEAN /\ canceled' \in BOOLEAN
    BY Zenon DEF TypeInv, BarrierTypes, Passes
  <2>. QED  BY <2>1, <2>2, <2>3, <2>4 DEF BarrierTypes
<1>2. SideTypes'
  BY DEF TypeInv, SideTypes, dataVars, Answered, GoTo
<1>3. PlacesInv'
  <2>1. pc' = [pc EXCEPT ![s] = IF result'[s] THEN "read" ELSE "refused"]
    BY Zenon DEF Answered, GoTo
  <2>2. pc'[s] # "inside" /\ ticket'[s] = B!Out
    BY <2>1 DEF TypeInv, SideTypes, BarrierTypes, Passes
  <2>3. \A t \in Side \ {s} : pc'[t] = pc[t] /\ ticket'[t] = ticket[t]
    BY <2>1 DEF TypeInv, SideTypes, BarrierTypes, Passes
  <2>4. front' = "start" => pc'["master"] = "none"
    BY <2>3 DEF TypeInv, PlacesInv, Side
  <2>. QED  BY <2>2, <2>3, <2>4 DEF TypeInv, PlacesInv, Inside
<1>. QED  BY <1>1, <1>2, <1>3 DEF TypeInv

LEMMA SyncStepTypes ==
  ASSUME TypeInv, NEW s \in Side, SyncStep(s)
  PROVE  TypeInv'
<1>. USE SidesAreHere DEF Here
<1>1. CASE Publish(s) \/ Read(s) \/ Refused(s)
  <2>1. UNCHANGED barrierVars
    BY <1>1 DEF Publish, SyncBegins, Read, Refused
  <2>2. BarrierTypes'
    BY <2>1, Zenon DEF TypeInv, BarrierTypes, barrierVars
  <2>3. stop' \in [Side -> BOOLEAN] /\ early' \in BOOLEAN
    <3>1. UNCHANGED stop \/ stop' = [stop EXCEPT ![s] = @ \/ (s = "slave" /\ exitFlag = "HOLD")]
      BY <1>1 DEF Publish, SyncBegins, Read, Refused
    <3>2. stop' \in [Side -> BOOLEAN]
      BY <3>1, Zenon DEF TypeInv, SideTypes
    <3>3. early' \in BOOLEAN
      BY <1>1, Zenon DEF TypeInv, SideTypes, Publish, SyncBegins, Read, Refused, NoteEarly
    <3>. QED  BY <3>2, <3>3
  <2>4. DOMAIN state' = Side /\ DOMAIN pc' = Side /\ round' \in [Side -> Nat]
        /\ DOMAIN data' = Side /\ DOMAIN loaded' = Side
    BY <1>1 DEF TypeInv, SideTypes, Publish, SyncBegins, Read, Refused, GoTo, Enters, dataVars
  <2>5. PlacesInv'
    BY <1>1, <2>1 DEF TypeInv, SideTypes, PlacesInv, Inside, Publish, SyncBegins, Read,
       Refused, GoTo, Enters, barrierVars, dataVars
  <2>. QED  BY <2>2, <2>3, <2>4, <2>5 DEF TypeInv, SideTypes
<1>2. CASE Arrive(s)
  <2>1. pc[s] = "arrive" /\ B!Arrive(s)
        /\ UNCHANGED <<state, front, stop, dataVars, early>>
        /\ (IF ticket'[s] = B!Out THEN Answered(s) ELSE GoTo(s, "inside"))
    BY <1>2 DEF Arrive
  <2>. DEFINE Waits == ~canceled /\ ticket' = [ticket EXCEPT ![s] = generation]
                       /\ UNCHANGED <<triggered, released, result>>
  <2>2. /\ waiting' = IF waiting = 0 THEN 1 ELSE 0
        /\ generation' = IF waiting = 0 THEN generation ELSE generation + 1
        /\ UNCHANGED <<thresh, canceled>>
        /\ Passes(s) \/ Waits
    BY <2>1, ArriveStep, Zenon DEF TypeInv
  <2>3. generation' \in Nat /\ waiting' \in Nat
    BY <2>2 DEF TypeInv, BarrierTypes
  <2>4. CASE Passes(s)
    <3>1. ticket'[s] = B!Out
      BY <2>4 DEF TypeInv, BarrierTypes, Passes
    <3>. QED  BY <2>1, <2>2, <2>3, <2>4, <3>1, PassTypes
  <2>5. CASE Waits
    <3>1. BarrierTypes'
      <4>1. ticket' \in [Side -> Nat \union {B!Out}] /\ thresh' = 2 /\ released' \in Nat
        BY <2>2, <2>5 DEF TypeInv, BarrierTypes
      <4>2. triggered' \in BOOLEAN /\ canceled' \in BOOLEAN /\ result' \in [Side -> BOOLEAN]
        BY <2>2, <2>5, Zenon DEF TypeInv, BarrierTypes
      <4>. QED  BY <2>3, <4>1, <4>2 DEF BarrierTypes
    <3>2. generation # B!Out
      BY DEF TypeInv, BarrierTypes, B!Out
    <3>3. ticket'[s] # B!Out
      BY <2>5, <3>2 DEF TypeInv, BarrierTypes
    <3>4. pc' = [pc EXCEPT ![s] = "inside"]
      BY <2>1, <3>3 DEF GoTo
    <3>5. SideTypes'
      BY <2>1, <3>4 DEF TypeInv, SideTypes, dataVars
    <3>6. \A t \in Side \ {s} : pc'[t] = pc[t] /\ ticket'[t] = ticket[t]
      BY <2>5, <3>4 DEF TypeInv, SideTypes, BarrierTypes
    <3>7. PlacesInv'
      BY <2>1, <3>3, <3>4, <3>6 DEF TypeInv, SideTypes, PlacesInv, Inside, Side
    <3>. QED  BY <3>1, <3>5, <3>7 DEF TypeInv
  <2>. QED  BY <2>2, <2>4, <2>5
<1>3. CASE Leave(s)
  <2>1. pc[s] = "inside" /\ B!Leave(s) /\ Answered(s)
        /\ UNCHANGED <<state, front, stop, dataVars, early>>
    BY <1>3 DEF Leave
  <2>2. Passes(s) /\ UNCHANGED <<thresh, generation, waiting, canceled>>
    BY <2>1, LeaveStep DEF TypeInv
  <2>3. generation' \in Nat /\ waiting' \in Nat
    BY <2>2 DEF TypeInv, BarrierTypes
  <2>. QED  BY <2>1, <2>2, <2>3, PassTypes
<1>. QED  BY <1>1, <1>2, <1>3 DEF SyncStep

LEMMA TypeNext == TypeInv /\ [Next]_vars => TypeInv'
<1>. SUFFICES ASSUME TypeInv, [Next]_vars  PROVE TypeInv'
  OBVIOUS
<1>1. CASE Next
  BY <1>1, Steps, QuietStepTypes, BarrierStepTypes, SyncStepTypes
<1>2. CASE UNCHANGED vars
  BY <1>2, Zenon DEF vars, barrierVars, dataVars, TypeInv, BarrierTypes, SideTypes,
     PlacesInv, Inside
<1>. QED  BY <1>1, <1>2

THEOREM TypeCorrect == Spec => []TypeInv
BY TypeInit, TypeNext, PTL DEF Spec

-----------------------------------------------------------------------------
(***************************************************************************)
(* Where the two simulators are, as long as the master has not gone on     *)
(* before the slave was started.                                           *)
(***************************************************************************)

Waits  == {"cancel", "subscribe", "check", "fallAsleep", "asleep", "unsubscribe"}
InSync == {"ready", "arrive", "inside", "read"}

\* What the master does says which state it is in.
FrontInv ==
  /\ front \in {"connect", "initialise", "idle", "slaveStore", "slaveStored", "stored", "start",
               "reset", "slaveRun", "join", "leave", "tell"}
  /\ front \in {"connect", "initialise"} => state["master"] = "Building"
  /\ front = "idle" => state["master"] \in {"Standby", "Executing", "Exiting", "Aborting"}
  /\ front \in {"slaveStore", "slaveStored", "stored"}
       => state["master"] \in {"Storing", "Restoring"}
  /\ front \in {"start", "reset", "slaveRun", "join", "leave"} => state["master"] = "Executing"
  /\ front = "tell" => state["master"] \in {"Exiting", "Aborting"}

\* It executes while its thread runs, and its thread waits for the slave when
\* it is told to stop.
MasterInv ==
  /\ state["master"] # "Executing" => pc["master"] = "none"
  /\ front = "start" => pc["master"] = "none"
  /\ front \in {"reset", "slaveRun"} => pc["master"] = "ready"
  /\ (front = "idle" /\ state["master"] = "Executing") => pc["master"] \in InSync \union Waits
  /\ front = "join" => pc["master"] \in InSync \union {"none"} /\ ~stop["master"]
  /\ front = "leave" => pc["master"] \in Waits
  /\ (front = "idle" /\ pc["master"] \in Waits) => stop["master"]

\* The slave is started by the master and executes no longer than it.
SlaveInv ==
  /\ state["slave"] \in {"Building", "Standby", "Storing", "Restoring", "Executing"}
  /\ state["slave"] = "Building" <=> front = "connect"
  /\ state["slave"] \in {"Storing", "Restoring"} <=> front = "slaveStored"
  /\ IF state["slave"] = "Executing" THEN pc["slave"] \in InSync \union {"refused"}
                                     ELSE pc["slave"] \in {"none", "notify"}
  /\ state["slave"] = "Executing"
       => state["master"] = "Executing" /\ front \in {"idle", "join", "leave"}
  /\ pc["master"] = "unsubscribe" => state["slave"] = "Standby"

\* The barrier is cancelled when the master waits for the slave, and the flag
\* is set before.
CancelInv ==
  /\ pc["master"] \in Waits => exitFlag = "HOLD"
  /\ (canceled /\ state["slave"] = "Executing") => pc["master"] \in Waits \ {"cancel"}
  /\ pc["slave"] = "refused" => canceled
  /\ (front \in {"slaveRun", "idle", "join"} /\ pc["master"] \in InSync) => ~canceled
  /\ (front = "join" \/ pc["master"] = "cancel") => ~canceled

ControlInv == ~early => FrontInv /\ MasterInv /\ SlaveInv /\ CancelInv

LEMMA ControlInit == Init => ControlInv
BY SidesAreHere DEF Init, B!Init, ControlInv, FrontInv, MasterInv, SlaveInv, CancelInv,
   Waits, InSync, Here

LEMMA FrontStepControl ==
  ASSUME TypeInv, ControlInv, FrontStep, ~early'
  PROVE  FrontInv' /\ MasterInv' /\ SlaveInv' /\ CancelInv'
<1>. USE SidesAreHere DEF Here, TypeInv, SideTypes, ControlInv, FrontInv, MasterInv, SlaveInv,
         CancelInv, Waits, InSync, frontRest, barrierVars, dataVars, GoTo, Enters, AtRest
<1>1. CASE FrontRun
  BY <1>1 DEF FrontRun
<1>2. CASE FrontStore
  BY <1>2 DEF FrontStore
<1>3. CASE FrontExit
  BY <1>3 DEF FrontExit
<1>4. CASE FrontAbort
  BY <1>4 DEF FrontAbort
<1>5. CASE HoldMaster
  BY <1>5 DEF HoldMaster
<1>6. CASE FrontConnect
  BY <1>6 DEF FrontConnect
<1>7. CASE FrontInitialise
  BY <1>7 DEF FrontInitialise
<1>8. CASE FrontStart
  BY <1>8 DEF FrontStart
<1>9. CASE FrontSlaveStore
  BY <1>9 DEF FrontSlaveStore
<1>10. CASE FrontSlaveStored
  BY <1>10 DEF FrontSlaveStored
<1>11. CASE FrontStored
  BY <1>11 DEF FrontStored
<1>12. CASE FrontSlaveRun
  BY <1>12 DEF FrontSlaveRun
<1>13. CASE FrontLeave
  BY <1>13 DEF FrontLeave
<1>. QED  BY <1>1, <1>2, <1>3, <1>4, <1>5, <1>6, <1>7, <1>8, <1>9, <1>10, <1>11, <1>12,
             <1>13 DEF FrontStep

LEMMA StopStepControl ==
  ASSUME TypeInv, ControlInv, StopStep, ~early'
  PROVE  FrontInv' /\ MasterInv' /\ SlaveInv' /\ CancelInv'
<1>. USE SidesAreHere DEF Here, TypeInv, SideTypes, ControlInv, FrontInv, MasterInv, SlaveInv,
         CancelInv, Waits, InSync, barrierVars, dataVars, GoTo, Enters
<1>1. CASE ThreadReturns
  BY <1>1 DEF ThreadReturns
<1>2. CASE SetFlag
  BY <1>2 DEF SetFlag, NoteEarly
<1>3. CASE Subscribe
  BY <1>3 DEF Subscribe
<1>4. CASE Check
  BY <1>4 DEF Check
<1>5. CASE FallAsleep
  BY <1>5 DEF FallAsleep
<1>6. CASE Unsubscribe
  BY <1>6 DEF Unsubscribe
<1>7. CASE StopSlave
  BY <1>7 DEF StopSlave
<1>8. CASE Notify
  BY <1>8 DEF Notify
<1>. QED  BY <1>1, <1>2, <1>3, <1>4, <1>5, <1>6, <1>7, <1>8 DEF StopStep

LEMMA BarrierStepControl ==
  ASSUME TypeInv, ControlInv, BarrierStep, ~early'
  PROVE  FrontInv' /\ MasterInv' /\ SlaveInv' /\ CancelInv'
<1>. USE SidesAreHere DEF Here, TypeInv, SideTypes, ControlInv, FrontInv, MasterInv, SlaveInv,
         CancelInv, Waits, InSync, dataVars, GoTo, frontRest
<1>1. CASE FrontReset
  BY <1>1 DEF FrontReset, B!Reset
<1>2. CASE FrontTell
  BY <1>2 DEF FrontTell, B!Cancel
<1>3. CASE Cancel
  BY <1>3 DEF Cancel, B!Cancel
<1>. QED  BY <1>1, <1>2, <1>3 DEF BarrierStep

\* The side that comes out of wait reads, unless the barrier is cancelled.
LEMMA OutOfWait ==
  ASSUME TypeInv, NEW s \in Side, Arrive(s) \/ Leave(s)
  PROVE  /\ UNCHANGED <<state, front, stop, exitFlag, subscribed, dataVars, runs, early, canceled>>
         /\ pc[s] \in {"arrive", "inside"}
         /\ \E place \in {"inside", "read", "refused"} :
              /\ pc' = [pc EXCEPT ![s] = place]
              /\ place = "refused" => canceled
              /\ place = "read" => ~canceled
<1>1. ASSUME Passes(s), Answered(s)
      PROVE  \E place \in {"read", "refused"} :
               /\ pc' = [pc EXCEPT ![s] = place]
               /\ place = "refused" => canceled
               /\ place = "read" => ~canceled
  <2>1. result'[s] = ~canceled
    BY <1>1 DEF TypeInv, BarrierTypes, Passes
  <2>2. pc' = [pc EXCEPT ![s] = IF ~canceled THEN "read" ELSE "refused"]
    BY <1>1, <2>1, Zenon DEF Answered, GoTo
  <2>. QED  BY <2>2
<1>2. CASE Leave(s)
  <2>1. Passes(s) /\ canceled' = canceled
    BY <1>2, LeaveStep DEF TypeInv, Leave
  <2>. QED  BY <1>1, <1>2, <2>1 DEF Leave
<1>3. CASE Arrive(s)
  <2>1. canceled' = canceled /\ (Passes(s) \/ ticket' = [ticket EXCEPT ![s] = generation])
    BY <1>3, ArriveStep, Zenon DEF TypeInv, Arrive
  <2>2. CASE Passes(s)
    <3>1. ticket'[s] = B!Out
      BY <2>2 DEF TypeInv, BarrierTypes, Passes
    <3>. QED  BY <1>1, <1>3, <2>1, <2>2, <3>1 DEF Arrive
  <2>3. CASE ticket' = [ticket EXCEPT ![s] = generation]
    <3>1. ticket'[s] # B!Out
      BY <2>3 DEF TypeInv, BarrierTypes, B!Out
    <3>. QED  BY <1>3, <2>1, <3>1 DEF Arrive, GoTo
  <2>. QED  BY <2>1, <2>2, <2>3
<1>. QED  BY <1>2, <1>3

LEMMA SyncStepControl ==
  ASSUME TypeInv, ControlInv, NEW s \in Side, SyncStep(s), ~early'
  PROVE  FrontInv' /\ MasterInv' /\ SlaveInv' /\ CancelInv'
<1>. USE SidesAreHere DEF Here, TypeInv, SideTypes, ControlInv, FrontInv, MasterInv, SlaveInv,
         CancelInv, Waits, InSync, barrierVars, dataVars, GoTo, Enters, Side
<1>1. CASE Publish(s)
  BY <1>1 DEF Publish, SyncBegins, NoteEarly
<1>2. CASE Read(s)
  BY <1>2 DEF Read
<1>3. CASE Refused(s)
  BY <1>3 DEF Refused
<1>4. CASE Arrive(s) \/ Leave(s)
  BY <1>4, OutOfWait
<1>. QED  BY <1>1, <1>2, <1>3, <1>4 DEF SyncStep

LEMMA ControlNext ==
  ASSUME TypeInv, ControlInv, [Next]_vars
  PROVE  ControlInv'
<1>1. CASE Next
  <2>. SUFFICES ASSUME ~early'
                PROVE  FrontInv' /\ MasterInv' /\ SlaveInv' /\ CancelInv'
    BY DEF ControlInv
  <2>. QED  BY <1>1, Steps, FrontStepControl, StopStepControl, BarrierStepControl,
               SyncStepControl
<1>2. CASE UNCHANGED vars
  BY <1>2 DEF vars, barrierVars, ControlInv, FrontInv, MasterInv, SlaveInv, CancelInv
<1>. QED  BY <1>1, <1>2

\* The slave never executes without the master, and is told to hold when it is
\* refused by the barrier (SimSyncMaster::leaverun, SimSyncSlave::sync).
THEOREM TheSlaveFollows == Spec => []SlaveFollowsMaster
<1>1. ControlInv => SlaveFollowsMaster
  BY DEF ControlInv, SlaveFollowsMaster, SlaveInv, CancelInv, Waits
<1>2. Init => TypeInv /\ ControlInv
  BY TypeInit, ControlInit
<1>3. TypeInv /\ ControlInv /\ [Next]_vars => TypeInv' /\ ControlInv'
  BY TypeNext, ControlNext
<1>. QED  BY <1>1, <1>2, <1>3, PTL DEF Spec

-----------------------------------------------------------------------------
(***************************************************************************)
(* The rounds of the two sides and the generation of the barrier.          *)
(***************************************************************************)

\* The run is under way: the barrier has been reset and not been cancelled.
Live == state["master"] = "Executing" /\ front \notin {"start", "reset"} /\ ~canceled

\* The rounds in which a side has arrived at the barrier.
Arrived(s) == IF pc[s] = "arrive" THEN round[s] - 1 ELSE round[s]

\* A side that is not in wait has passed every generation; one that is may be
\* left over from the last one.
Counted(s) ==
  /\ ticket[s] = B!Out => Arrived(s) = generation
  /\ ticket[s] # B!Out =>
       Arrived(s) = ticket[s] + 1 /\ ticket[s] \in {generation, generation - 1}

Sent(s) == round[s] > 0 => data[s].run = runs /\ data[s].round = round[s]

Waiting(s) == ticket[s] # B!Out /\ ticket[s] = generation
Leaving(s) == ticket[s] # B!Out /\ ticket[s] = generation - 1

\* The counters of the barrier say who waits and who may leave.
BarrierInv ==
  /\ waiting = 0 => \A s \in Side : ~Waiting(s)
  /\ waiting # 0 => waiting = 1 /\ \E s \in Side : Waiting(s)
  /\ triggered => released = 1 /\ \E s \in Side : Leaving(s)
  /\ ~triggered => released = 0 /\ \A s \in Side : ~Leaving(s)
  /\ \E s \in Side : ~Waiting(s)
  /\ \E s \in Side : ~Leaving(s)

LiveInv == BarrierInv /\ \A s \in Side : Counted(s) /\ Sent(s)

RoundInv ==
  /\ \A s \in Side : pc[s] \in {"arrive", "inside", "read"} => round[s] > 0
  /\ front = "reset" => \A s \in Side : round[s] = 0
  /\ Live => LiveInv

LEMMA OtherSide ==
  ASSUME NEW s \in Side
  PROVE  /\ Other(s) \in Side /\ Other(s) # s /\ Other(Other(s)) = s
         /\ Side = {s, Other(s)}
BY DEF Side, Other

\* What a side reads in a run under way is of its round or the next one.
LEMMA LiveIsFresh ==
  ASSUME TypeInv, RoundInv, Live, NEW s \in Side, pc[s] = "read"
  PROVE  /\ data[Other(s)].run = runs
         /\ data[Other(s)].round \in {round[s], round[s] + 1}
<1>. DEFINE o == Other(s)
<1>1. o \in Side
  BY OtherSide
<1>2. ticket[s] = B!Out /\ round[s] = generation /\ round[s] > 0
  BY DEF TypeInv, PlacesInv, Inside, RoundInv, LiveInv, Counted, Arrived
<1>3. round[o] \in {generation, generation + 1}
  <2>1. round[o] \in Nat /\ generation \in Nat
    BY <1>1 DEF TypeInv, SideTypes, BarrierTypes
  <2>2. CASE ticket[o] = B!Out
    BY <1>1, <2>1, <2>2 DEF RoundInv, LiveInv, Counted, Arrived
  <2>3. CASE ticket[o] # B!Out
    <3>1. pc[o] = "inside"
      BY <1>1, <2>3 DEF TypeInv, PlacesInv, Inside
    <3>. QED  BY <1>1, <2>1, <2>3, <3>1 DEF RoundInv, LiveInv, Counted, Arrived
  <2>. QED  BY <2>2, <2>3
<1>4. round[o] > 0 /\ Sent(o)
  BY <1>1, <1>2, <1>3 DEF TypeInv, SideTypes, RoundInv, LiveInv
<1>. QED  BY <1>2, <1>3, <1>4 DEF Sent

\* A step that leaves the barrier, the data and the rounds alone.
LEMMA RoundsUnchanged ==
  ASSUME RoundInv,
         UNCHANGED <<barrierVars, data, round, runs>>,
         Live' => Live, front' = "reset" => front = "reset",
         \A s \in Side : /\ pc'[s] = "arrive" <=> pc[s] = "arrive"
                         /\ pc'[s] \in {"arrive", "inside", "read"}
                              => pc[s] \in {"arrive", "inside", "read"}
  PROVE  RoundInv'
<1>1. \A s \in Side : Arrived(s)' = Arrived(s)
  BY DEF Arrived
<1>2. LiveInv' <=> LiveInv
  <2>1. \A s \in Side : Waiting(s)' = Waiting(s) /\ Leaving(s)' = Leaving(s)
    BY Zenon DEF Waiting, Leaving, barrierVars
  <2>2. \A s \in Side : Counted(s)' = Counted(s) /\ Sent(s)' = Sent(s)
    BY <1>1, Zenon DEF Counted, Sent, barrierVars
  <2>3. BarrierInv' <=> BarrierInv
    BY <2>1 DEF BarrierInv, barrierVars
  <2>. QED  BY <2>2, <2>3 DEF LiveInv
<1>. QED  BY <1>2 DEF RoundInv

LEMMA QuietStepRounds ==
  ASSUME TypeInv, ControlInv, RoundInv, FrontStep \/ StopStep, ~early'
  PROVE  RoundInv'
<1>. USE SidesAreHere DEF Here
<1>1. CASE FrontStart
  <2>1. \A s \in Side : pc'[s] \notin {"arrive", "inside", "read"}
    BY <1>1 DEF FrontStart, ControlInv, SlaveInv, TypeInv, SideTypes, GoTo, Side
  <2>2. ~Live' /\ \A s \in Side : round'[s] = 0
    BY <1>1 DEF FrontStart, Live
  <2>. QED  BY <2>1, <2>2 DEF RoundInv
<1>2. CASE FrontRun
  <2>1. ~Live' /\ front' # "reset" /\ UNCHANGED <<pc, round>>
    BY <1>2 DEF FrontRun, Live, dataVars
  <2>. QED  BY <2>1 DEF RoundInv
<1>3. CASE ~FrontStart /\ ~FrontRun
  <2>. USE <1>3
  <2>1. UNCHANGED <<barrierVars, data, round, runs>>
    BY DEF FrontStep, StopStep, FrontStore, FrontExit, FrontAbort, HoldMaster,
       FrontConnect, FrontInitialise, FrontSlaveStore, FrontSlaveStored,
       FrontStored, FrontSlaveRun, FrontLeave, ThreadReturns, SetFlag,
       Subscribe, Check, FallAsleep, Unsubscribe, StopSlave, Notify,
       frontRest, dataVars
  <2>2. (Live' => Live) /\ (front' = "reset" => front = "reset")
    BY <2>1 DEF FrontStep, StopStep, FrontStore, FrontExit, FrontAbort, HoldMaster,
       FrontConnect, FrontInitialise, FrontSlaveStore, FrontSlaveStored,
       FrontStored, FrontSlaveRun, FrontLeave, ThreadReturns, SetFlag,
       Subscribe, Check, FallAsleep, Unsubscribe, StopSlave, Notify,
       Live, Enters, TypeInv, SideTypes, barrierVars, ControlInv, FrontInv
  <2>3. \A s \in Side : /\ pc'[s] = "arrive" <=> pc[s] = "arrive"
                        /\ pc'[s] \in {"arrive", "inside", "read"}
                             => pc[s] \in {"arrive", "inside", "read"}
    BY DEF FrontStep, StopStep, FrontStore, FrontExit, FrontAbort, HoldMaster,
       FrontConnect, FrontInitialise, FrontSlaveStore, FrontSlaveStored,
       FrontStored, FrontSlaveRun, FrontLeave, ThreadReturns, SetFlag,
       Subscribe, Check, FallAsleep, Unsubscribe, StopSlave, Notify,
       frontRest, GoTo, TypeInv, SideTypes, Side
  <2>. QED  BY <2>1, <2>2, <2>3, RoundsUnchanged
<1>. QED  BY <1>1, <1>2, <1>3

\* The barrier is reset when nobody is in wait.
LEMMA BarrierStepRounds ==
  ASSUME TypeInv, ControlInv, RoundInv, BarrierStep, ~early'
  PROVE  RoundInv'
<1>. USE SidesAreHere DEF Here
<1>1. CASE FrontReset
  <2>1. ~early /\ front = "reset" /\ front' = "slaveRun" /\ UNCHANGED <<pc, dataVars, runs>>
    BY <1>1 DEF FrontReset
  <2>2. \A s \in Side : pc[s] \notin {"arrive", "inside", "read"} /\ round[s] = 0
    BY <2>1 DEF ControlInv, MasterInv, SlaveInv, RoundInv, Side
  <2>3. \A s \in Side : ticket[s] = B!Out
    BY <2>2 DEF TypeInv, PlacesInv, Inside
  <2>4. /\ waiting' = 0 /\ released' = 0 /\ generation' = 0 /\ ~triggered'
        /\ UNCHANGED ticket
    BY <1>1 DEF FrontReset, B!Reset
  <2>5. \A s \in Side : ~Waiting(s)' /\ ~Leaving(s)'
    BY <2>3, <2>4 DEF Waiting, Leaving
  <2>6. \A s \in Side : Counted(s)' /\ Sent(s)'
    BY <2>1, <2>2, <2>3, <2>4 DEF Counted, Sent, Arrived, dataVars
  <2>7. BarrierInv'
    BY <2>4, <2>5 DEF BarrierInv
  <2>. QED  BY <2>1, <2>2, <2>6, <2>7 DEF RoundInv, LiveInv, dataVars
<1>2. CASE FrontTell \/ Cancel
  <2>1. UNCHANGED <<dataVars, runs>> /\ canceled' = TRUE /\ (front' = "reset" => front = "reset")
    BY <1>2 DEF FrontTell, Cancel, B!Cancel, frontRest
  <2>2. \A s \in Side : pc'[s] \in {"arrive", "inside", "read"} => pc'[s] = pc[s]
    BY <1>2 DEF FrontTell, Cancel, frontRest, GoTo, TypeInv, SideTypes
  <2>. QED  BY <2>1, <2>2 DEF RoundInv, Live, dataVars
<1>. QED  BY <1>1, <1>2 DEF BarrierStep

LEMMA PublishRounds ==
  ASSUME TypeInv, ControlInv, RoundInv, NEW s \in Side, Publish(s), ~early'
  PROVE  RoundInv'
<1>. USE SidesAreHere DEF Here
<1>1. /\ pc[s] = "ready" /\ pc' = [pc EXCEPT ![s] = "arrive"]
      /\ round' = [round EXCEPT ![s] = IF @ > MaxRounds THEN @ ELSE @ + 1]
      /\ round[s] < MaxRounds \/ canceled
      /\ data' = [data EXCEPT ![s] = [run |-> runs, round |-> round'[s],
                                     bytes |-> retrieveData(Outputs[s])]]
      /\ UNCHANGED <<barrierVars, state, front, runs>>
  BY DEF Publish, SyncBegins, GoTo
<1>2. round'[s] > 0 /\ (~canceled => round'[s] = round[s] + 1)
  BY <1>1, ConstantsAssumption DEF TypeInv, SideTypes, ConstantsAssumption
<1>3. pc'[s] = "arrive" /\ data'[s].run = runs /\ data'[s].round = round'[s]
  BY <1>1 DEF TypeInv, SideTypes
<1>4. \A t \in Side \ {s} : pc'[t] = pc[t] /\ round'[t] = round[t] /\ data'[t] = data[t]
  BY <1>1 DEF TypeInv, SideTypes
<1>5. front' # "reset"
  <2>1. s = "slave" \/ front # "reset"
    BY DEF Publish, SyncBegins, NoteEarly, Side
  <2>2. s = "slave" => front # "reset"
    BY <1>1 DEF ControlInv, SlaveInv, Publish, SyncBegins, NoteEarly
  <2>. QED  BY <1>1, <2>1, <2>2
<1>6. ASSUME Live'  PROVE LiveInv'
  <2>1. Live /\ ~canceled /\ LiveInv
    BY <1>1, <1>6 DEF Live, RoundInv, barrierVars
  <2>2. BarrierInv'
    BY <1>1, <2>1, Zenon DEF LiveInv, BarrierInv, Waiting, Leaving, barrierVars
  <2>3. ticket[s] = B!Out /\ round[s] = generation /\ round[s] \in Nat
    BY <1>1, <2>1 DEF TypeInv, SideTypes, PlacesInv, Inside, LiveInv, Counted, Arrived
  <2>4. Counted(s)' /\ Sent(s)'
    BY <1>1, <1>2, <1>3, <2>1, <2>3 DEF Counted, Sent, Arrived, barrierVars
  <2>5. \A t \in Side \ {s} : Counted(t)' /\ Sent(t)'
    BY <1>1, <1>4, <2>1 DEF LiveInv, Counted, Sent, Arrived, barrierVars
  <2>. QED  BY <2>2, <2>4, <2>5 DEF LiveInv
<1>. QED  BY <1>2, <1>4, <1>5, <1>6 DEF RoundInv

\* The first side that arrives waits, the second one opens the barrier.
LEMMA ArriveRounds ==
  ASSUME TypeInv, LiveInv, ~canceled, NEW s \in Side, Arrive(s),
         UNCHANGED <<data, round, runs>>,
         pc'[s] # "arrive", \A t \in Side \ {s} : pc'[t] = pc[t]
  PROVE  LiveInv'
<1>. DEFINE o == Other(s)
<1>0. o \in Side /\ o # s /\ Side = {s, o}
  BY OtherSide
<1>1. /\ pc[s] = "arrive" /\ ticket[s] = B!Out
      /\ waiting' = IF waiting = 0 THEN 1 ELSE 0
      /\ generation' = IF waiting = 0 THEN generation ELSE generation + 1
      /\ \/ /\ Passes(s)
            /\ waiting # 0
            /\ IF released = 0 THEN released' = 1 /\ triggered' = (triggered \/ waiting # 0)
                               ELSE released' = 0 /\ triggered' = FALSE
         \/ /\ waiting = 0
            /\ ticket' = [ticket EXCEPT ![s] = generation]
            /\ UNCHANGED <<triggered, released, result>>
  BY ArriveStep, Zenon DEF TypeInv, Arrive
<1>2. /\ generation \in Nat /\ generation # B!Out
      /\ ticket \in [Side -> Nat \union {B!Out}] /\ round[s] \in Nat
  BY DEF TypeInv, BarrierTypes, SideTypes, B!Out
<1>3. round[s] = generation + 1
  BY <1>1, <1>2 DEF LiveInv, Counted, Arrived
<1>4. CASE waiting = 0
  <2>1. /\ ticket' = [ticket EXCEPT ![s] = generation] /\ generation' = generation
        /\ waiting' = 1 /\ released' = released
    BY <1>1, <1>4
  <2>2. triggered' <=> triggered
    BY <1>1, <1>4
  <2>3. ticket'[s] = generation /\ ticket'[o] = ticket[o]
    BY <1>0, <1>2, <2>1
  <2>4. Waiting(s)' /\ ~Leaving(s)' /\ ~Waiting(o)' /\ (Leaving(o)' <=> Leaving(o)) /\ ~Leaving(s)
    BY <1>0, <1>1, <1>2, <1>4, <2>1, <2>3 DEF LiveInv, BarrierInv, Waiting, Leaving
  <2>5. BarrierInv'
    BY <1>0, <2>1, <2>2, <2>4 DEF LiveInv, BarrierInv
  <2>6. Counted(s)' /\ Sent(s)' /\ Counted(o)' /\ Sent(o)'
    BY <1>0, <1>2, <1>3, <2>1, <2>3 DEF LiveInv, Counted, Sent, Arrived
  <2>. QED  BY <1>0, <2>5, <2>6 DEF LiveInv
<1>5. CASE waiting # 0
  <2>1. Waiting(o) /\ ~Leaving(o) /\ ~Leaving(s) /\ ~triggered /\ released = 0
    BY <1>0, <1>1, <1>2, <1>5 DEF LiveInv, BarrierInv, Waiting, Leaving
  <2>2. Passes(s) /\ generation' = generation + 1 /\ waiting' = 0 /\ released' = 1 /\ triggered'
    BY <1>1, <1>5, <2>1, Zenon
  <2>3. ticket'[s] = B!Out /\ ticket'[o] = generation
    BY <1>0, <1>2, <2>1, <2>2 DEF Passes, Waiting
  <2>4. ~Waiting(s)' /\ ~Waiting(o)' /\ ~Leaving(s)' /\ Leaving(o)'
    BY <1>2, <2>2, <2>3 DEF Waiting, Leaving
  <2>5. BarrierInv'
    BY <1>0, <2>2, <2>4 DEF BarrierInv
  <2>6. Counted(s)' /\ Sent(s)' /\ Counted(o)' /\ Sent(o)'
    BY <1>0, <1>2, <1>3, <2>1, <2>2, <2>3 DEF LiveInv, Counted, Sent, Arrived, Waiting
  <2>. QED  BY <1>0, <2>5, <2>6 DEF LiveInv
<1>. QED  BY <1>4, <1>5

LEMMA LeaveRounds ==
  ASSUME TypeInv, LiveInv, ~canceled, NEW s \in Side, Leave(s),
         UNCHANGED <<data, round, runs>>,
         pc'[s] # "arrive", \A t \in Side \ {s} : pc'[t] = pc[t]
  PROVE  LiveInv'
<1>. DEFINE o == Other(s)
<1>0. o \in Side /\ o # s /\ Side = {s, o}
  BY OtherSide
<1>1. /\ pc[s] = "inside" /\ Passes(s) /\ ticket[s] # B!Out
      /\ triggered /\ ticket[s] < generation
      /\ IF released = 0 THEN released' = 1 /\ triggered' = triggered
                         ELSE released' = 0 /\ triggered' = FALSE
      /\ generation' = generation /\ waiting' = waiting
  BY LeaveStep, Zenon DEF TypeInv, Leave
<1>2. /\ generation \in Nat /\ ticket \in [Side -> Nat \union {B!Out}] /\ round[s] \in Nat
  BY DEF TypeInv, BarrierTypes, SideTypes
<1>3. Leaving(s) /\ ~Waiting(s) /\ ~Leaving(o)
  BY <1>0, <1>1, <1>2 DEF LiveInv, Counted, BarrierInv, Leaving, Waiting
<1>4. round[s] = generation
  BY <1>1, <1>2, <1>3 DEF LiveInv, Counted, Arrived, Leaving
<1>5. released' = 0 /\ ~triggered'
  <2>1. released # 0
    BY <1>1 DEF LiveInv, BarrierInv
  <2>. QED  BY <1>1, <2>1, Zenon
<1>6. ticket'[s] = B!Out /\ ticket'[o] = ticket[o]
  BY <1>0, <1>1, <1>2 DEF Passes
<1>7. ~Waiting(s)' /\ ~Leaving(s)' /\ (Waiting(o)' <=> Waiting(o)) /\ ~Leaving(o)'
  BY <1>1, <1>3, <1>6 DEF Waiting, Leaving
<1>8. BarrierInv'
  BY <1>0, <1>1, <1>3, <1>5, <1>7 DEF LiveInv, BarrierInv
<1>9. Counted(s)' /\ Sent(s)' /\ Counted(o)' /\ Sent(o)'
  BY <1>0, <1>1, <1>2, <1>4, <1>6 DEF LiveInv, Counted, Sent, Arrived
<1>. QED  BY <1>0, <1>8, <1>9 DEF LiveInv

LEMMA SyncStepRounds ==
  ASSUME TypeInv, ControlInv, RoundInv, NEW s \in Side, SyncStep(s), ~early'
  PROVE  RoundInv'
<1>1. CASE Publish(s)
  BY <1>1, PublishRounds
<1>2. CASE Read(s) \/ Refused(s)
  <2>1. UNCHANGED <<barrierVars, data, round, runs, front>>
    BY <1>2 DEF Read, Refused, dataVars
  <2>2. Live' => Live
    BY <1>2, <2>1, SidesAreHere DEF Here, Live, Read, Refused, Enters, barrierVars, TypeInv, SideTypes
  <2>3. \A t \in Side : /\ pc'[t] = "arrive" <=> pc[t] = "arrive"
                        /\ pc'[t] \in {"arrive", "inside", "read"}
                             => pc[t] \in {"arrive", "inside", "read"}
    BY <1>2 DEF Read, Refused, GoTo, TypeInv, SideTypes, Side
  <2>. QED  BY <2>1, <2>2, <2>3, RoundsUnchanged
<1>3. CASE Arrive(s) \/ Leave(s)
  <2>1. /\ UNCHANGED <<state, front, dataVars, runs, canceled>>
        /\ pc[s] \in {"arrive", "inside"}
        /\ pc'[s] # "arrive" /\ \A t \in Side \ {s} : pc'[t] = pc[t]
    BY <1>3, OutOfWait DEF TypeInv, SideTypes
  <2>2. ASSUME Live'  PROVE LiveInv'
    <3>1. ~canceled /\ LiveInv
      BY <2>1, <2>2 DEF Live, RoundInv
    <3>. QED  BY <1>3, <2>1, <3>1, ArriveRounds, LeaveRounds DEF dataVars
  <2>. QED  BY <2>1, <2>2 DEF RoundInv, dataVars
<1>. QED  BY <1>1, <1>2, <1>3 DEF SyncStep

\* What the master has done too early is not undone.
LEMMA EarlyStays ==
  ASSUME Next, ~early'
  PROVE  ~early
BY Steps DEF FrontStep, StopStep, BarrierStep, SyncStep,
   FrontRun, FrontStore, FrontExit, FrontAbort, HoldMaster,
   FrontConnect, FrontInitialise, FrontStart, FrontSlaveStore,
   FrontSlaveStored, FrontStored, FrontSlaveRun, FrontLeave,
   ThreadReturns, SetFlag, Subscribe, Check, FallAsleep, Unsubscribe,
   StopSlave, Notify, FrontReset, FrontTell, Cancel, Publish, SyncBegins,
   Arrive, Leave, Read, Refused, frontRest, NoteEarly

RoundsInv == ~early => RoundInv

LEMMA RoundsInit == Init => RoundsInv
BY DEF Init, B!Init, RoundsInv, RoundInv, Live, Side

LEMMA RoundsNext ==
  ASSUME TypeInv, ControlInv, RoundsInv, [Next]_vars
  PROVE  RoundsInv'
<1>. SUFFICES ASSUME ~early'  PROVE RoundInv'
  BY DEF RoundsInv
<1>1. CASE Next
  <2>1. ~early
    BY <1>1, EarlyStays
  <2>. QED  BY <1>1, <2>1, Steps, QuietStepRounds, BarrierStepRounds, SyncStepRounds
               DEF RoundsInv
<1>2. CASE UNCHANGED vars
  <2>1. Live' <=> Live
    BY <1>2 DEF vars, barrierVars, Live
  <2>. QED  BY <1>2, <2>1, RoundsUnchanged DEF vars, dataVars, RoundsInv
<1>. QED  BY <1>1, <1>2

\* A side that reads does so in a run under way; only the slave may still be
\* reading when the master has cancelled the barrier and publishes no more.
LEMMA ReadsWhileLive ==
  ASSUME ControlInv, ~early, NEW s \in Side, pc[s] = "read"
  PROVE  Live \/ (s = "slave" /\ canceled /\ pc["master"] \in Waits)
<1>1. CASE s = "slave"
  BY <1>1 DEF ControlInv, SlaveInv, MasterInv, FrontInv, CancelInv, Live, Waits
<1>2. CASE s = "master"
  BY <1>2 DEF ControlInv, MasterInv, FrontInv, CancelInv, Live, Waits, InSync
<1>. QED  BY <1>1, <1>2 DEF Side

LEMMA SlaveKeepsReading ==
  ASSUME TypeInv, ControlInv, Next, ~early,
         pc'["slave"] = "read", pc'["master"] \in Waits, canceled'
  PROVE  /\ pc["slave"] = "read"
         /\ data'["master"] = data["master"]
         /\ round'["slave"] = round["slave"] /\ runs' = runs
<1>. USE SidesAreHere DEF Here, TypeInv, SideTypes, GoTo, Enters, dataVars, frontRest, Waits
<1>1. CASE FrontStep
  BY <1>1 DEF ControlInv, SlaveInv, FrontStep, FrontRun, FrontStore, FrontExit, FrontAbort,
     HoldMaster, FrontConnect, FrontInitialise, FrontStart, FrontSlaveStore,
     FrontSlaveStored, FrontStored, FrontSlaveRun, FrontLeave, AtRest
<1>2. CASE StopStep
  BY <1>2 DEF StopStep, ThreadReturns, SetFlag, Subscribe, Check, FallAsleep, Unsubscribe,
     StopSlave, Notify
<1>3. CASE BarrierStep
  BY <1>3 DEF BarrierStep, FrontReset, FrontTell, Cancel, B!Reset
<1>4. ASSUME NEW s \in Side, SyncStep(s)
      PROVE  /\ pc["slave"] = "read"
             /\ data'["master"] = data["master"]
             /\ round'["slave"] = round["slave"] /\ runs' = runs
  <2>1. CASE Publish(s)
    BY <2>1 DEF Publish, SyncBegins, Side
  <2>2. CASE Read(s) \/ Refused(s)
    BY <2>2 DEF Read, Refused, Side
  <2>3. CASE Arrive(s) \/ Leave(s)
    BY <2>3, OutOfWait DEF Side
  <2>. QED  BY <1>4, <2>1, <2>2, <2>3 DEF SyncStep
<1>. QED  BY <1>1, <1>2, <1>3, <1>4, Steps

\* The slave reads after the barrier was cancelled what it would have read
\* before.
LastReadInv ==
  (~early /\ canceled /\ pc["slave"] = "read" /\ pc["master"] \in Waits) =>
    /\ data["master"].run = runs
    /\ data["master"].round \in {round["slave"], round["slave"] + 1}

LEMMA FreshNow ==
  ASSUME TypeInv, ControlInv, RoundsInv, LastReadInv
  PROVE  DataAreFresh
<1>. SUFFICES ASSUME ~early, NEW s \in Side, pc[s] = "read"
              PROVE  /\ data[Other(s)].run = runs
                     /\ data[Other(s)].round \in {round[s], round[s] + 1}
  BY DEF DataAreFresh
<1>1. CASE Live
  BY <1>1, LiveIsFresh DEF RoundsInv
<1>2. CASE s = "slave" /\ canceled /\ pc["master"] \in Waits
  BY <1>2 DEF LastReadInv, Other
<1>. QED  BY <1>1, <1>2, ReadsWhileLive

LEMMA LastReadNext ==
  ASSUME TypeInv, ControlInv, RoundsInv, LastReadInv, [Next]_vars
  PROVE  LastReadInv'
<1>1. CASE Next
  <2>. SUFFICES ASSUME ~early', canceled', pc'["slave"] = "read", pc'["master"] \in Waits
                PROVE  /\ data'["master"].run = runs'
                       /\ data'["master"].round \in {round'["slave"], round'["slave"] + 1}
    BY DEF LastReadInv, Waits
  <2>1. ~early
    BY <1>1, EarlyStays
  <2>2. /\ pc["slave"] = "read"
        /\ data'["master"] = data["master"]
        /\ round'["slave"] = round["slave"] /\ runs' = runs
    BY <1>1, <2>1, SlaveKeepsReading
  <2>3. DataAreFresh /\ Other("slave") = "master"
    BY FreshNow DEF Other
  <2>. QED  BY <2>1, <2>2, <2>3, SidesAreHere DEF DataAreFresh, Here
<1>2. CASE UNCHANGED vars
  BY <1>2, Zenon DEF vars, barrierVars, dataVars, LastReadInv, Waits
<1>. QED  BY <1>1, <1>2

-----------------------------------------------------------------------------
(***************************************************************************)
(* The bytes that the fields store and load.                               *)
(***************************************************************************)

LEMMA InductionInSet ==
  ASSUME NEW S, 0 \in S, \A n \in Nat : n \in S => n + 1 \in S
  PROVE  Nat \subseteq S
<1>. DEFINE Before == OpToRel(<, Nat)
            Missing == Nat \ S
<1>1. ASSUME Missing # {}
      PROVE  \E n \in Missing : \A m \in Missing : ~ (m < n)
  <2>1. IsWellFoundedOn(Before, Nat)
    BY NatLessThanWellFounded
  <2>2. \A m, n \in Nat : m < n => <<m, n>> \in Before
    BY DEF OpToRel
  <2>3. Missing \subseteq Nat
    OBVIOUS
  <2>. HIDE DEF Before, Missing
  <2>4. PICK n \in Missing : \A m \in Missing : ~ (<<m, n>> \in Before)
    BY <1>1, <2>1, <2>3, WFMin
  <2>. QED  BY <2>2, <2>3, <2>4
<1>. HIDE DEF Before
<1>2. ASSUME NEW n \in Missing, \A m \in Missing : ~ (m < n)  PROVE FALSE
  <2>1. n # 0 /\ n - 1 \in Nat /\ n - 1 < n
    OBVIOUS
  <2>. QED  BY <1>2, <2>1
<1>. QED  BY <1>1, <1>2

Byte == Nat \X Nat

LEMMA ArraysAreSequences ==
  ASSUME NEW S, NEW n \in Nat, NEW f \in [1 .. n -> S]
  PROVE  f \in Seq(S) /\ Len(f) = n
OBVIOUS

LEMMA BytesType ==
  ASSUME NEW sizes \in Seq(Nat), NEW i \in 1 .. Len(sizes)
  PROVE  /\ Bytes(sizes, i) \in Seq(Byte)
         /\ Len(Bytes(sizes, i)) = sizes[i]
         /\ \A b \in 1 .. sizes[i] : Bytes(sizes, i)[b] = <<i, b>>
<1>1. sizes[i] \in Nat /\ i \in Nat
  OBVIOUS
<1>2. Bytes(sizes, i) \in [1 .. sizes[i] -> Byte]
  BY <1>1 DEF Bytes, Byte
<1>3. \A b \in 1 .. sizes[i] : Bytes(sizes, i)[b] = <<i, b>>
  BY DEF Bytes
<1>4. Bytes(sizes, i) \in Seq(Byte) /\ Len(Bytes(sizes, i)) = sizes[i]
  BY <1>1, <1>2, ArraysAreSequences
<1>. QED  BY <1>3, <1>4

\* The values that the recursion of Stored goes through, up to n fields.
Follows(sizes, n, g) ==
  /\ g[0] = <<>>
  /\ \A i \in 1 .. n : g[i] = g[i - 1] \o Bytes(sizes, i)

LEMMA StoringExists ==
  ASSUME NEW sizes
  PROVE  \A n \in Nat : \E g : DOMAIN g = 0 .. n /\ Follows(sizes, n, g)
<1>. DEFINE S == {n \in Nat : \E g : DOMAIN g = 0 .. n /\ Follows(sizes, n, g)}
<1>1. 0 \in S
  <2>. DEFINE g == [i \in 0 .. 0 |-> <<>>]
  <2>1. DOMAIN g = 0 .. 0 /\ Follows(sizes, 0, g)
    BY DEF Follows
  <2>. QED  BY <2>1
<1>2. ASSUME NEW n \in Nat, n \in S  PROVE n + 1 \in S
  <2>1. PICK g : DOMAIN g = 0 .. n /\ Follows(sizes, n, g)
    BY <1>2
  <2>. DEFINE h == [i \in 0 .. n + 1 |->
                      IF i = n + 1 THEN g[n] \o Bytes(sizes, n + 1) ELSE g[i]]
  <2>2. \A i \in 0 .. n : h[i] = g[i]
    OBVIOUS
  <2>3. h[n + 1] = h[n] \o Bytes(sizes, n + 1) /\ (n + 1) - 1 = n
    <3>1. n + 1 \in 0 .. n + 1 /\ n \in 0 .. n /\ (n + 1) - 1 = n
      OBVIOUS
    <3>2. h[n + 1] = g[n] \o Bytes(sizes, n + 1)
      BY <3>1, Zenon
    <3>. QED  BY <2>2, <3>1, <3>2, Zenon
  <2>4. \A i \in 1 .. n + 1 : i # n + 1 => i \in 1 .. n /\ i - 1 \in 0 .. n /\ i \in 0 .. n
    OBVIOUS
  <2>5. DOMAIN h = 0 .. n + 1
    OBVIOUS
  <2>. HIDE DEF h
  <2>6. h[0] = <<>>
    BY <2>1, <2>2 DEF Follows
  <2>7. ASSUME NEW i \in 1 .. n + 1  PROVE h[i] = h[i - 1] \o Bytes(sizes, i)
    <3>1. CASE i = n + 1
      BY <2>3, <3>1, Zenon
    <3>2. CASE i # n + 1
      <4>1. h[i] = g[i] /\ h[i - 1] = g[i - 1]
        BY <2>2, <2>4, <3>2
      <4>2. g[i] = g[i - 1] \o Bytes(sizes, i)
        BY <2>1, <2>4, <3>2, Zenon DEF Follows
      <4>. QED  BY <4>1, <4>2, Zenon
    <3>. QED  BY <3>1, <3>2
  <2>8. Follows(sizes, n + 1, h)
    BY <2>6, <2>7, Zenon DEF Follows
  <2>. QED  BY <2>5, <2>8
<1>3. Nat \subseteq S
  <2>. HIDE DEF S
  <2>. QED  BY <1>1, <1>2, InductionInSet
<1>. QED  BY <1>3

LEMMA StoredFollows ==
  ASSUME NEW sizes \in Seq(Nat)
  PROVE  Follows(sizes, Len(sizes), Stored(sizes))
<1>. DEFINE n == Len(sizes)
            Rule(g) == g = [i \in 0 .. n |->
                              IF i = 0 THEN <<>> ELSE g[i - 1] \o Bytes(sizes, i)]
            u == CHOOSE g : Rule(g)
<1>1. n \in Nat
  OBVIOUS
<1>2. PICK f : DOMAIN f = 0 .. n /\ Follows(sizes, n, f)
  BY <1>1, StoringExists
<1>. DEFINE g == [i \in 0 .. n |-> f[i]]
<1>3. Rule(g)
  <2>1. \A i \in 0 .. n : i = 0 \/ (i \in 1 .. n /\ i - 1 \in 0 .. n)
    BY <1>1
  <2>2. \A i \in 0 .. n : g[i] = f[i]
    OBVIOUS
  <2>3. \A i \in 0 .. n : f[i] = IF i = 0 THEN <<>> ELSE f[i - 1] \o Bytes(sizes, i)
    BY <1>2, <2>1, Zenon DEF Follows
  <2>4. \A i \in 0 .. n : f[i] = IF i = 0 THEN <<>> ELSE g[i - 1] \o Bytes(sizes, i)
    BY <2>1, <2>2, <2>3, Zenon
  <2>. QED  BY <2>4
<1>4. Stored(sizes) = u
  BY Zenon DEF Stored
<1>5. Rule(u)
  <2>. HIDE DEF Rule, g
  <2>. QED  BY <1>3
<1>. HIDE DEF u
<1>6. Follows(sizes, n, u)
  <2>1. \A i \in 0 .. n : u[i] = IF i = 0 THEN <<>> ELSE u[i - 1] \o Bytes(sizes, i)
    BY <1>5, Zenon
  <2>2. 0 \in 0 .. n /\ \A i \in 1 .. n : i \in 0 .. n /\ i # 0
    BY <1>1
  <2>. QED  BY <2>1, <2>2, Zenon DEF Follows
<1>. QED  BY <1>4, <1>6

\* What the first n fields have stored begins with what the first m have.
LEMMA StoredGrows ==
  ASSUME NEW sizes \in Seq(Nat)
  PROVE  \A n \in 0 .. Len(sizes) :
           /\ Stored(sizes)[n] \in Seq(Byte)
           /\ \A m \in 0 .. n :
                /\ Len(Stored(sizes)[m]) <= Len(Stored(sizes)[n])
                /\ \A at \in 1 .. Len(Stored(sizes)[m]) :
                     Stored(sizes)[n][at] = Stored(sizes)[m][at]
<1>. DEFINE g == Stored(sizes)
            Grows(n) == /\ g[n] \in Seq(Byte)
                        /\ \A m \in 0 .. n :
                             /\ Len(g[m]) <= Len(g[n])
                             /\ \A at \in 1 .. Len(g[m]) : g[n][at] = g[m][at]
            S == {n \in Nat : n <= Len(sizes) => Grows(n)}
<1>1. Follows(sizes, Len(sizes), g)
  BY StoredFollows
<1>. HIDE DEF g
<1>2. 0 \in S
  <2>1. g[0] = <<>>
    BY <1>1 DEF Follows
  <2>2. Grows(0)
    BY <2>1
  <2>. QED  BY <2>2
<1>3. ASSUME NEW n \in Nat, n \in S, n + 1 <= Len(sizes)  PROVE Grows(n + 1)
  <2>. DEFINE more == Bytes(sizes, n + 1)
  <2>1. n + 1 \in 1 .. Len(sizes) /\ (n + 1) - 1 = n
    BY <1>3
  <2>2. g[n] \in Seq(Byte) /\ Grows(n)
    BY <1>3
  <2>3. more \in Seq(Byte)
    BY <2>1, BytesType
  <2>4. g[n + 1] = g[n] \o more
    BY <1>1, <2>1, Zenon DEF Follows
  <2>. HIDE DEF more
  <2>5. /\ g[n + 1] \in Seq(Byte) /\ Len(g[n]) <= Len(g[n + 1])
        /\ \A at \in 1 .. Len(g[n]) : g[n + 1][at] = g[n][at]
    BY <2>2, <2>3, <2>4
  <2>6. ASSUME NEW m \in 0 .. n + 1
        PROVE  /\ Len(g[m]) <= Len(g[n + 1])
               /\ \A at \in 1 .. Len(g[m]) : g[n + 1][at] = g[m][at]
    <3>1. CASE m = n + 1
      BY <2>5, <3>1
    <3>2. CASE m \in 0 .. n
      <4>1. /\ Len(g[m]) <= Len(g[n])
            /\ \A at \in 1 .. Len(g[m]) : g[n][at] = g[m][at]
        BY <2>2, <3>2
      <4>2. Len(g[n]) \in Nat /\ Len(g[n + 1]) \in Nat
        BY <2>2, <2>5
      <4>3. \A at \in 1 .. Len(g[m]) : at \in 1 .. Len(g[n])
        BY <4>1, <4>2
      <4>. QED  BY <2>5, <4>1, <4>2, <4>3
    <3>. QED  BY <3>1, <3>2
  <2>. QED  BY <2>5, <2>6
<1>4. Nat \subseteq S
  <2>1. \A n \in Nat : n \in S => n + 1 \in S
    <3>. HIDE DEF Grows
    <3>. QED  BY <1>3
  <2>. HIDE DEF S
  <2>. QED  BY <1>2, <2>1, InductionInSet
<1>5. \A n \in 0 .. Len(sizes) : Grows(n)
  <2>. HIDE DEF Grows
  <2>. QED  BY <1>4
<1>. QED  BY <1>5 DEF g

\* Two lists of fields that agree up to the i-th one take as much room.
LEMMA SameRoom ==
  ASSUME NEW one \in Seq(Nat), NEW other \in Seq(Nat), NEW i \in Nat,
         i <= Len(one), i <= Len(other), \A j \in 1 .. i : one[j] = other[j]
  PROVE  Stored(one)[i] = Stored(other)[i]
<1>. DEFINE f == Stored(one)
            g == Stored(other)
            S == {n \in Nat : n <= i => f[n] = g[n]}
<1>1. Follows(one, Len(one), f) /\ Follows(other, Len(other), g)
  BY StoredFollows
<1>. HIDE DEF f, g
<1>2. 0 \in S
  BY <1>1 DEF Follows
<1>3. ASSUME NEW n \in Nat, n \in S  PROVE n + 1 \in S
  <2>. SUFFICES ASSUME n + 1 <= i  PROVE f[n + 1] = g[n + 1]
    OBVIOUS
  <2>1. /\ n + 1 \in 1 .. Len(one) /\ n + 1 \in 1 .. Len(other) /\ n + 1 \in 1 .. i
        /\ (n + 1) - 1 = n
    OBVIOUS
  <2>2. Bytes(one, n + 1) = Bytes(other, n + 1)
    <3>1. one[n + 1] = other[n + 1]
      BY <2>1
    <3>. QED  BY <3>1, Zenon DEF Bytes
  <2>3. f[n] = g[n]
    BY <1>3
  <2>4. f[n + 1] = f[n] \o Bytes(one, n + 1) /\ g[n + 1] = g[n] \o Bytes(other, n + 1)
    BY <1>1, <2>1, Zenon DEF Follows
  <2>. QED  BY <2>2, <2>3, <2>4, Zenon
<1>4. Nat \subseteq S
  <2>. HIDE DEF S
  <2>. QED  BY <1>2, <1>3, InductionInSet
<1>5. f[i] = g[i]
  BY <1>4
<1>. QED  BY <1>5 DEF f, g

LEMMA LengthsAreNumbers ==
  ASSUME NEW q \in Seq(Byte)
  PROVE  Len(q) \in Nat
OBVIOUS

LEMMA AfterTheFirst ==
  ASSUME NEW p \in Seq(Byte), NEW q \in Seq(Byte), NEW b \in 1 .. Len(q)
  PROVE  /\ Len(p \o q) = Len(p) + Len(q)
         /\ (p \o q)[Len(p) + b] = q[b]
OBVIOUS

\* A field that is loaded gets the bytes of the field of the same position.
LEMMA LoadsByPosition ==
  ASSUME NEW out \in Seq(Nat), NEW in \in Seq(Nat), NEW i \in DOMAIN in,
         i <= Len(out), \A j \in 1 .. i : in[j] = out[j]
  PROVE  loadData(in, retrieveData(out))[i] = Bytes(out, i)
<1>. DEFINE before == Stored(out)[i - 1]
            upTo == Stored(out)[i]
            all == Stored(out)[Len(out)]
            mine == Bytes(out, i)
<1>1. /\ i \in 1 .. Len(out) /\ i - 1 \in 0 .. i /\ i - 1 \in 0 .. Len(out)
      /\ i \in 0 .. Len(out) /\ Len(out) \in 0 .. Len(out) /\ i - 1 \in Nat
      /\ in[i] = out[i] /\ out[i] \in Nat
  <2>1. i \in 1 .. Len(in) /\ Len(out) \in Nat
    OBVIOUS
  <2>2. i \in 1 .. Len(out) /\ i \in 1 .. i
    BY <2>1
  <2>3. in[i] = out[i] /\ out[i] \in Nat
    BY <2>2
  <2>. QED  BY <2>1, <2>2, <2>3
<1>2. Taken(in, i) = Len(before)
  <2>1. i - 1 <= Len(in) /\ i - 1 <= Len(out) /\ \A j \in 1 .. i - 1 : in[j] = out[j]
    OBVIOUS
  <2>2. Stored(in)[i - 1] = before
    BY <1>1, <2>1, SameRoom
  <2>. QED  BY <2>2 DEF Taken
<1>3. upTo = before \o mine
  BY <1>1, StoredFollows, Zenon DEF Follows
<1>4. before \in Seq(Byte) /\ upTo \in Seq(Byte) /\ all \in Seq(Byte)
  BY <1>1, StoredGrows, Zenon
<1>5. mine \in Seq(Byte) /\ Len(mine) = out[i] /\ \A b \in 1 .. out[i] : mine[b] = <<i, b>>
  BY <1>1, BytesType
<1>6. Len(upTo) <= Len(all) /\ \A at \in 1 .. Len(upTo) : all[at] = upTo[at]
  BY <1>1, StoredGrows, Zenon
<1>. HIDE DEF before, upTo, all, mine
<1>7. ASSUME NEW b \in 1 .. in[i]
      PROVE  Len(before) + b <= Len(all) /\ all[Len(before) + b] = <<i, b>>
  <2>1. b \in 1 .. out[i] /\ b \in 1 .. Len(mine) /\ mine[b] = <<i, b>>
    BY <1>1, <1>5, Zenon
  <2>2. Len(upTo) = Len(before) + Len(mine) /\ upTo[Len(before) + b] = mine[b]
    BY <1>3, <1>4, <1>5, <2>1, AfterTheFirst
  <2>3. Len(before) \in Nat /\ Len(all) \in Nat /\ Len(mine) \in Nat
    BY <1>4, <1>5, LengthsAreNumbers
  <2>4. Len(before) + b \in 1 .. Len(upTo) /\ Len(before) + b <= Len(all)
    BY <1>6, <2>1, <2>2, <2>3
  <2>. QED  BY <1>6, <2>1, <2>2, <2>4, Zenon
<1>8. loadData(in, all)[i] = [b \in 1 .. in[i] |-> <<i, b>>]
  <2>1. loadData(in, all)[i]
          = [b \in 1 .. in[i] |-> IF Len(before) + b <= Len(all) THEN all[Len(before) + b]
                                                               ELSE Garbage]
    BY <1>2, Zenon DEF loadData
  <2>. QED  BY <1>7, <2>1
<1>9. Bytes(out, i) = [b \in 1 .. in[i] |-> <<i, b>>]
  BY <1>1 DEF Bytes
<1>. QED  BY <1>8, <1>9 DEF all, retrieveData

-----------------------------------------------------------------------------
(***************************************************************************)
(* What is published, and what is loaded.                                  *)
(***************************************************************************)

Filled(s) == data[s].bytes = retrieveData(Outputs[s])

\* Nobody reads from a side that has never published: it has not arrived at
\* the barrier, which stays closed.
FilledInv ==
  \A s \in Side : ~Filled(s) =>
    /\ pc[s] \notin {"arrive", "inside"} /\ pc[Other(s)] # "read"
    /\ ~canceled => ~triggered /\ (waiting = 0 \/ (waiting = 1 /\ ticket[Other(s)] # B!Out))

Loads(s) == loadData(Inputs[s], retrieveData(Outputs[Other(s)]))

LoadedInv == \A s \in Side : loaded[s] \in {<<>>, Loads(s)}

BytesInv == FilledInv /\ LoadedInv

LEMMA BytesInit == Init => BytesInv
BY OtherSide DEF Init, B!Init, BytesInv, FilledInv, LoadedInv

\* A step that moves nobody into the barrier.
LEMMA FilledUnchanged ==
  ASSUME FilledInv, UNCHANGED <<barrierVars, data>>,
         \A s \in Side : pc'[s] \in {"arrive", "inside", "read"} => pc'[s] = pc[s]
  PROVE  FilledInv'
<1>1. \A s \in Side : Filled(s)' = Filled(s)
  BY DEF Filled
<1>. QED  BY <1>1, OtherSide DEF FilledInv, barrierVars

LEMMA QuietStepBytes ==
  ASSUME TypeInv, BytesInv, FrontStep \/ StopStep
  PROVE  BytesInv'
<1>1. /\ UNCHANGED <<barrierVars, data, loaded>>
      /\ \A s \in Side : pc'[s] \in {"arrive", "inside", "read"} => pc'[s] = pc[s]
  BY SidesAreHere DEF Here, FrontStep, StopStep, FrontRun, FrontStore, FrontExit, FrontAbort,
     HoldMaster, FrontConnect, FrontInitialise, FrontStart, FrontSlaveStore,
     FrontSlaveStored, FrontStored, FrontSlaveRun, FrontLeave,
     ThreadReturns, SetFlag, Subscribe, Check, FallAsleep, Unsubscribe,
     StopSlave, Notify, frontRest, dataVars, GoTo, TypeInv, SideTypes
<1>. QED  BY <1>1, FilledUnchanged DEF BytesInv, LoadedInv, Loads

LEMMA BarrierStepBytes ==
  ASSUME TypeInv, BytesInv, BarrierStep
  PROVE  BytesInv'
<1>1. /\ UNCHANGED <<data, loaded, ticket>>
      /\ \A s \in Side : pc'[s] \in {"arrive", "inside", "read"} => pc'[s] = pc[s]
  BY SidesAreHere DEF Here, BarrierStep, FrontReset, FrontTell, Cancel, B!Reset, B!Cancel,
     frontRest, dataVars, GoTo, TypeInv, SideTypes
<1>2. canceled' \/ (~triggered' /\ waiting' = 0)
  BY DEF BarrierStep, FrontReset, FrontTell, Cancel, B!Reset, B!Cancel
<1>3. \A s \in Side : Filled(s)' = Filled(s)
  BY <1>1 DEF Filled
<1>. QED  BY <1>1, <1>2, <1>3, OtherSide DEF BytesInv, FilledInv, LoadedInv, Loads

LEMMA PublishBytes ==
  ASSUME TypeInv, BytesInv, NEW s \in Side, Publish(s)
  PROVE  BytesInv'
<1>1. /\ pc' = [pc EXCEPT ![s] = "arrive"] /\ UNCHANGED <<barrierVars, loaded>>
      /\ data' = [data EXCEPT ![s] = [run |-> runs, round |-> round'[s],
                                     bytes |-> retrieveData(Outputs[s])]]
  BY DEF Publish, SyncBegins, GoTo
<1>2. Filled(s)'
  BY <1>1 DEF Filled, TypeInv, SideTypes
<1>3. Other(s) \in Side /\ Other(s) # s /\ Other(Other(s)) = s /\ Side = {s, Other(s)}
  BY OtherSide
<1>4. data'[Other(s)] = data[Other(s)] /\ pc'[Other(s)] = pc[Other(s)] /\ pc'[s] = "arrive"
  BY <1>1, <1>3 DEF TypeInv, SideTypes
<1>5. FilledInv'
  BY <1>1, <1>2, <1>3, <1>4 DEF BytesInv, FilledInv, Filled, barrierVars
<1>. QED  BY <1>1, <1>5 DEF BytesInv, LoadedInv, Loads

LEMMA OutOfWaitBytes ==
  ASSUME TypeInv, BytesInv, NEW t \in Side, Arrive(t) \/ Leave(t)
  PROVE  BytesInv'
<1>1. UNCHANGED <<data, loaded, canceled>> /\ pc[t] \in {"arrive", "inside"}
      /\ pc'[t] # "arrive" /\ (pc'[t] = "read" => ~canceled)
      /\ \A s \in Side \ {t} : pc'[s] = pc[s]
  BY OutOfWait DEF dataVars, TypeInv, SideTypes
<1>2. \A s \in Side : Filled(s)' = Filled(s)
  BY <1>1 DEF Filled
<1>3. ASSUME NEW s \in Side, ~Filled(s)'
      PROVE  /\ pc'[s] \notin {"arrive", "inside"} /\ pc'[Other(s)] # "read"
             /\ ~canceled' => ~triggered' /\ (waiting' = 0 \/ (waiting' = 1 /\ ticket'[Other(s)] # B!Out))
  <2>1. /\ pc[s] \notin {"arrive", "inside"} /\ pc[Other(s)] # "read"
        /\ ~canceled => ~triggered /\ (waiting = 0 \/ (waiting = 1 /\ ticket[Other(s)] # B!Out))
    BY <1>2, <1>3 DEF BytesInv, FilledInv
  <2>2. t = Other(s) /\ s # t
    BY <1>1, <2>1, OtherSide
  <2>3. CASE canceled
    BY <1>1, <2>1, <2>2, <2>3
  <2>4. CASE ~canceled
    <3>1. ~triggered /\ Arrive(t)
      BY <2>1, <2>4, LeaveStep DEF TypeInv, Leave
    <3>2. ticket[t] = B!Out /\ waiting = 0
      BY <2>1, <2>2, <2>4, <3>1, ArriveStep DEF TypeInv, Arrive
    <3>3. /\ waiting' = 1 /\ ~triggered' /\ ticket' = [ticket EXCEPT ![t] = generation]
      BY <2>4, <3>1, <3>2, ArriveStep, Zenon DEF TypeInv, Arrive
    <3>4. ticket'[t] # B!Out
      BY <3>3 DEF TypeInv, BarrierTypes, B!Out
    <3>5. pc'[t] = "inside"
      BY <3>1, <3>4 DEF Arrive, GoTo, TypeInv, SideTypes
    <3>. QED  BY <1>1, <2>1, <2>2, <3>3, <3>4, <3>5
  <2>. QED  BY <2>3, <2>4
<1>4. FilledInv'
  BY <1>3 DEF FilledInv
<1>. QED  BY <1>1, <1>4 DEF BytesInv, LoadedInv, Loads

LEMMA BytesNext ==
  ASSUME TypeInv, BytesInv, [Next]_vars
  PROVE  BytesInv'
<1>1. ASSUME NEW s \in Side, Read(s)  PROVE BytesInv'
  <2>1. /\ pc[s] = "read" /\ pc' = [pc EXCEPT ![s] = "ready"] /\ UNCHANGED <<barrierVars, data>>
        /\ loaded' = [loaded EXCEPT ![s] = loadData(Inputs[s], data[Other(s)].bytes)]
    BY <1>1 DEF Read, GoTo
  <2>2. FilledInv'
    BY <2>1, FilledUnchanged DEF BytesInv, TypeInv, SideTypes
  <2>3. data[Other(s)].bytes = retrieveData(Outputs[Other(s)])
    BY <2>1, OtherSide DEF BytesInv, FilledInv, Filled
  <2>4. loaded' = [loaded EXCEPT ![s] = Loads(s)]
    BY <2>1, <2>3 DEF Loads
  <2>5. LoadedInv'
    BY <2>4 DEF BytesInv, LoadedInv, Loads, TypeInv, SideTypes
  <2>. QED  BY <2>2, <2>5 DEF BytesInv
<1>2. ASSUME NEW s \in Side, Refused(s)  PROVE BytesInv'
  <2>1. /\ UNCHANGED <<barrierVars, data, loaded>>
        /\ \A t \in Side : pc'[t] \in {"arrive", "inside", "read"} => pc'[t] = pc[t]
    BY <1>2, SidesAreHere DEF Here, Refused, dataVars, GoTo, TypeInv, SideTypes
  <2>. QED  BY <2>1, FilledUnchanged DEF BytesInv, LoadedInv, Loads
<1>3. CASE UNCHANGED vars
  BY <1>3, FilledUnchanged DEF vars, barrierVars, dataVars, BytesInv, LoadedInv, Loads
<1>. QED  BY <1>1, <1>2, <1>3, Steps, QuietStepBytes, BarrierStepBytes, PublishBytes,
             OutOfWaitBytes DEF SyncStep

\* Fields that agree in their sizes up to a position get what the field at
\* this position has published.
LEMMA LoadedRight ==
  ASSUME LoadedInv
  PROVE  InputsGetTheirOutputs
<1>. SUFFICES ASSUME NEW s \in Side, NEW i \in DOMAIN loaded[s],
                     i <= Len(Outputs[Other(s)]),
                     \A j \in 1 .. i : Inputs[s][j] = Outputs[Other(s)][j]
              PROVE  loaded[s][i] = Bytes(Outputs[Other(s)], i)
  BY DEF InputsGetTheirOutputs
<1>1. Outputs[Other(s)] \in Seq(Nat) /\ Inputs[s] \in Seq(Nat)
  BY ConstantsAssumption, OtherSide DEF ConstantsAssumption
<1>2. loaded[s] = Loads(s)
  <2>1. DOMAIN loaded[s] # {}
    OBVIOUS
  <2>2. loaded[s] # <<>>
    BY <2>1
  <2>. QED  BY <2>2 DEF LoadedInv
<1>3. DOMAIN Loads(s) = DOMAIN Inputs[s]
  BY DEF Loads, loadData
<1>4. i \in DOMAIN Inputs[s]
  BY <1>2, <1>3
<1>5. Loads(s)[i] = Bytes(Outputs[Other(s)], i)
  BY <1>1, <1>4, LoadsByPosition, Zenon DEF Loads
<1>. QED  BY <1>2, <1>5

\* A sync loads data of its own round or the next one of the same run, and
\* each input gets the bytes of the output of its position, for all lists of
\* fields (SimSyncMaster::sync, SimSyncDataShare::loadData).
THEOREM SyncsShareTheirData == Spec => []DataAreShared
<1>. DEFINE Inv == TypeInv /\ ControlInv /\ RoundsInv /\ LastReadInv /\ BytesInv
<1>1. Init => Inv
  <2>1. Init => LastReadInv
    BY SidesAreHere DEF Here, Init, LastReadInv
  <2>. QED  BY <2>1, TypeInit, ControlInit, RoundsInit, BytesInit
<1>2. Inv /\ [Next]_vars => Inv'
  BY TypeNext, ControlNext, RoundsNext, LastReadNext, BytesNext
<1>3. Inv => DataAreShared
  BY FreshNow, LoadedRight DEF DataAreShared, BytesInv
<1>. QED  BY <1>1, <1>2, <1>3, PTL DEF Spec

=============================================================================
