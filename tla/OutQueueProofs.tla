--------------------------- MODULE OutQueueProofs ---------------------------
(***************************************************************************)
(* Proofs about OutQueue, for any number of files, objects, cancellations  *)
(* and outages.                                                            *)
(*                                                                         *)
(* The order in which files are handled follows from what the current      *)
(* batch is: OldestFirst says that nothing older than a file of the batch  *)
(* is left outside it, unless the file overtakes it.  It is needed for     *)
(* TargetNeverGoesBack: a file whose number is below the one that the      *)
(* target has is never found in the directory again (NotYetApplied).       *)
(***************************************************************************)
EXTENDS OutQueue, TLAPS

\* The files that have arrived are the first ones, each about an object.
FilesArrived ==
    /\ dir \subseteq 1..arrived
    /\ \A n \in 1..arrived : object[n] \in Objects
    /\ \A o \in Objects : target[o] <= arrived

\* The files of the batch and the one being handled.
InHand == todo \cup (IF pc = "handle" THEN {cur} ELSE {})

\* What the task has in hand is in the directory, and only while it runs.
InHandIsQueued ==
    /\ InHand \subseteq dir
    /\ pc \notin {"batch", "handle"} => todo = {}
    /\ pc = "handle" => cur \in Files /\ \A m \in todo : cur < m

\* A file older than one in hand is itself in hand, or it is overtaken.
OldestFirst ==
    \A n \in InHand, m \in dir : m < n => m \in InHand \/ Overtakes(n, m)

\* The target has no newer state of an object than the files still queued.
NotYetApplied == \A n \in dir : target[object[n]] <= n

\* applied says that the target has done what the current file asks for.
AppliedIsCurrent == applied => pc = "handle" /\ target[object[cur]] >= cur

IndInv ==
    /\ TypeOK
    /\ FilesArrived
    /\ InHandIsQueued
    /\ OldestFirst
    /\ NotYetApplied
    /\ AppliedIsCurrent
    /\ FilesAccountedFor
-----------------------------------------------------------------------------

\* An out queue that has received nothing satisfies the inductive invariant.
LEMMA IndInit == Init => IndInv
<1> SUFFICES ASSUME Init PROVE IndInv
  OBVIOUS
<1>1. TypeOK
  <2>1. 0 \in 0..MaxFiles /\ 0 \in 0..MaxCancels /\ 0 \in 0..MaxOutages
    BY BoundsAssumption
  <2> QED
    BY <2>1 DEF Init, TypeOK
<1> QED
  BY <1>1, BoundsAssumption
  DEF Init, IndInv, FilesArrived, InHandIsQueued, InHand, OldestFirst, NotYetApplied,
      AppliedIsCurrent, FilesAccountedFor

\* The ways in which scan() is through with a file.
Leaves == HandleSucceeds \/ HandleSkips \/ HandleRaises \/ DiscardUnlinks

\* Every step keeps the variables in their types.
LEMMA TypeStep == IndInv /\ [Next]_vars => TypeOK'
<1> SUFFICES ASSUME IndInv, [Next]_vars PROVE TypeOK'
  OBVIOUS
<1>0. 0 \in 0..MaxFiles /\ Files \subseteq 0..MaxFiles
  BY BoundsAssumption DEF Files
<1> USE DEF IndInv, TypeOK, queueVars, taskVars, envVars
<1>1. ASSUME NEW o \in Objects, NEW d \in BOOLEAN, Arrives(o, d) PROVE TypeOK'
  BY <1>1, BoundsAssumption DEF Arrives, Files
<1>2. CASE StartScan
  BY <1>2 DEF StartScan
<1>3. CASE PingSucceeds
  BY <1>3 DEF PingSucceeds
<1>4. CASE List
  BY <1>4 DEF List, FirstBatch
<1>5. CASE ListRaises
  BY <1>5 DEF ListRaises
<1>6. CASE \E n \in Files : HandleStarts(n)
  BY <1>0, <1>6 DEF HandleStarts
<1>7. CASE TargetApplies
  BY <1>7 DEF TargetApplies
<1>8. CASE Leaves
  BY <1>0, <1>8
  DEF Leaves, LeaveFile, Raises, HandleSucceeds, HandleSkips, HandleRaises, DiscardUnlinks,
      InHandIsQueued, InHand
<1>9. CASE UnlinkRaises
  BY <1>0, <1>9 DEF UnlinkRaises
<1>10. CASE BatchDone
  BY <1>10 DEF BatchDone
<1>11. CASE Cancel
  <2>1. cancels' \in 0..MaxCancels
    BY <1>11, BoundsAssumption DEF Cancel
  <2> QED
    BY <1>0, <1>11, <2>1 DEF Cancel
<1>12. CASE Outage
  <2>1. outages' \in 0..MaxOutages
    BY <1>12, BoundsAssumption DEF Outage
  <2> QED
    BY <1>12, <2>1 DEF Outage
<1>13. CASE Recovers
  BY <1>13 DEF Recovers
<1>14. CASE UNCHANGED vars
  BY <1>14 DEF vars
<1>15. CASE ArrivesAgain
  BY <1>15 DEF ArrivesAgain, Files
<1> QED
  BY <1>1, <1>2, <1>3, <1>4, <1>5, <1>6, <1>7, <1>8, <1>9, <1>10, <1>11, <1>12, <1>13,
     <1>14, <1>15
  DEF Leaves, Next, ScanStep

(***************************************************************************)
(* The inductive step.  List makes a batch in which nothing is left behind *)
(* that should come first; HandleStarts takes the oldest file of it; what  *)
(* arrives meanwhile is newer; so the file that TargetApplies writes is    *)
(* the oldest queued one of its object.                                    *)
(***************************************************************************)
LEMMA IndStep == IndInv /\ [Next]_vars => IndInv'
<1> SUFFICES ASSUME IndInv, [Next]_vars PROVE IndInv'
  OBVIOUS
<1>0. TypeOK /\ TypeOK'
  BY TypeStep DEF IndInv
<1> USE DEF TypeOK, Files, queueVars, taskVars, envVars, IsNext, Overtakes
<1>1. ASSUME NEW o \in Objects, NEW d \in BOOLEAN, Arrives(o, d) PROVE IndInv'
  <2> USE <1>1 DEF Arrives
  <2>1. object'[arrived + 1] = o /\ \A n \in 1..arrived : object'[n] = object[n]
    BY <1>0
  <2>2. FilesArrived'
    BY <1>0, <2>1 DEF IndInv, FilesArrived
  <2>3. OldestFirst'
    BY <1>0, <2>1 DEF IndInv, FilesArrived, InHandIsQueued, InHand, OldestFirst
  <2>4. NotYetApplied'
    BY <1>0, <2>1 DEF IndInv, FilesArrived, NotYetApplied
  <2>5. FilesAccountedFor'
    BY <1>0, <2>1 DEF IndInv, FilesAccountedFor
  <2> QED
    BY <1>0, <2>1, <2>2, <2>3, <2>4, <2>5
    DEF IndInv, FilesArrived, InHandIsQueued, InHand, AppliedIsCurrent
<1>2. CASE StartScan
  BY <1>0, <1>2
  DEF StartScan, IndInv, FilesArrived, InHandIsQueued, InHand, OldestFirst, NotYetApplied,
      AppliedIsCurrent, FilesAccountedFor
<1>3. CASE PingSucceeds
  BY <1>0, <1>3
  DEF PingSucceeds, IndInv, FilesArrived, InHandIsQueued, InHand, OldestFirst, NotYetApplied,
      AppliedIsCurrent, FilesAccountedFor
<1>4. CASE List
  <2> USE <1>4 DEF List
  <2>1. ASSUME NEW n \in FirstBatch, NEW m \in dir \ FirstBatch PROVE Overtakes(n, m)
    <3>1. object[n] \in Objects /\ object[m] \in Objects
      BY <2>1 DEF IndInv, FilesArrived, FirstBatch
    <3>2. PICK k \in dir : ~(QueueOrder(m) <= QueueOrder(k))
      BY <2>1 DEF FirstBatch
    <3>3. QueueOrder(n) <= QueueOrder(k)
      BY <2>1 DEF FirstBatch
    <3> QED
      BY <3>1, <3>2, <3>3 DEF QueueOrder, Objects
  <2>2. OldestFirst'
    BY <1>0, <2>1 DEF OldestFirst, InHand
  <2> QED
    BY <1>0, <2>2
    DEF IndInv, FilesArrived, InHandIsQueued, InHand, NotYetApplied, AppliedIsCurrent,
        FilesAccountedFor, FirstBatch
<1>5. CASE ListRaises
  BY <1>0, <1>5
  DEF ListRaises, IndInv, FilesArrived, InHandIsQueued, InHand, OldestFirst, NotYetApplied,
      AppliedIsCurrent, FilesAccountedFor
<1>6. CASE \E n \in Files : HandleStarts(n)
  <2> PICK n \in Files : HandleStarts(n)
    BY <1>6
  <2> USE DEF HandleStarts
  <2>1. InHand' = InHand
    BY DEF InHand
  <2>2. InHandIsQueued'
    BY <1>0, <2>1 DEF IndInv, InHandIsQueued
  <2>3. OldestFirst'
    BY <1>0, <2>1 DEF IndInv, OldestFirst
  <2> QED
    BY <1>0, <2>2, <2>3
    DEF IndInv, FilesArrived, NotYetApplied, AppliedIsCurrent, FilesAccountedFor
<1>7. CASE TargetApplies
  <2> USE <1>7 DEF TargetApplies
  <2>1. cur \in dir /\ cur \in 1..arrived /\ object[cur] \in Objects
    BY DEF IndInv, InHandIsQueued, InHand, FilesArrived
  <2>2. \A o \in Objects : target'[o] = IF o = object[cur] THEN cur ELSE target[o]
    BY <1>0
  <2>3. target[object[cur]] <= cur
    BY <2>1 DEF IndInv, NotYetApplied
  <2>4. \A n \in dir : n < cur => object[n] # object[cur]
    BY <1>0, ObjectsAssumption
    DEF IndInv, OldestFirst, InHandIsQueued, InHand, FilesArrived
  <2>5. FilesArrived'
    BY <1>0, <2>1, <2>2 DEF IndInv, FilesArrived
  <2>6. NotYetApplied'
    BY <1>0, <2>1, <2>2, <2>4 DEF IndInv, NotYetApplied, FilesArrived
  <2>7. FilesAccountedFor'
    BY <1>0, <2>1, <2>2, <2>3 DEF IndInv, FilesAccountedFor, FilesArrived
  <2>8. AppliedIsCurrent'
    BY <1>0, <2>1, <2>2 DEF AppliedIsCurrent
  <2> QED
    BY <1>0, <2>5, <2>6, <2>7, <2>8 DEF IndInv, InHandIsQueued, InHand, OldestFirst
<1>8. CASE Leaves
  <2>1. LeaveFile /\ pc = "handle" /\ trash \subseteq trash' /\ gone \subseteq gone'
    BY <1>0, <1>8
    DEF Leaves, Raises, HandleSucceeds, HandleSkips, HandleRaises, DiscardUnlinks
  <2> USE <2>1 DEF LeaveFile
  <2>2. cur \in Files /\ InHand' = InHand \ {cur} /\ todo' \subseteq dir'
    BY <1>0 DEF IndInv, InHandIsQueued, InHand
  <2>3. FilesArrived' /\ NotYetApplied' /\ AppliedIsCurrent'
    BY <1>0 DEF IndInv, FilesArrived, NotYetApplied, AppliedIsCurrent
  <2>4. InHandIsQueued'
    BY <1>0, <2>2 DEF IndInv, InHandIsQueued, InHand
  <2>5. OldestFirst'
    BY <1>0, <2>2 DEF IndInv, OldestFirst
  <2>6. target[object[cur]] >= cur \/ cur \in trash' \cup gone'
    BY <1>0, <1>8
    DEF Leaves, HandleSucceeds, HandleSkips, HandleRaises, DiscardUnlinks, IndInv,
        AppliedIsCurrent
  <2>7. FilesAccountedFor'
    BY <1>0, <2>6 DEF IndInv, FilesAccountedFor
  <2> QED
    BY <1>0, <2>3, <2>4, <2>5, <2>7 DEF IndInv
<1>9. CASE UnlinkRaises
  BY <1>0, <1>9
  DEF UnlinkRaises, IndInv, FilesArrived, InHandIsQueued, InHand, OldestFirst, NotYetApplied,
      AppliedIsCurrent, FilesAccountedFor
<1>10. CASE BatchDone
  BY <1>0, <1>10
  DEF BatchDone, IndInv, FilesArrived, InHandIsQueued, InHand, OldestFirst, NotYetApplied,
      AppliedIsCurrent, FilesAccountedFor
<1>11. CASE Cancel
  BY <1>0, <1>11
  DEF Cancel, IndInv, FilesArrived, InHandIsQueued, InHand, OldestFirst, NotYetApplied,
      AppliedIsCurrent, FilesAccountedFor
<1>12. CASE Outage
  BY <1>0, <1>12
  DEF Outage, IndInv, FilesArrived, InHandIsQueued, InHand, OldestFirst, NotYetApplied,
      AppliedIsCurrent, FilesAccountedFor
<1>13. CASE Recovers
  BY <1>0, <1>13
  DEF Recovers, IndInv, FilesArrived, InHandIsQueued, InHand, OldestFirst, NotYetApplied,
      AppliedIsCurrent, FilesAccountedFor
<1>14. CASE UNCHANGED vars
  BY <1>0, <1>14
  DEF vars, IndInv, FilesArrived, InHandIsQueued, InHand, OldestFirst, NotYetApplied,
      AppliedIsCurrent, FilesAccountedFor
<1>15. CASE ArrivesAgain
  <2> USE <1>15 DEF ArrivesAgain
  <2>1. object[arrived] \in Objects /\ \A o \in Objects : target[o] <= arrived
    BY <1>0 DEF IndInv, FilesArrived
  <2>2. InHand = {} /\ InHand' = {}
    BY <1>0 DEF InHand, IndInv, InHandIsQueued
  <2> QED
    BY <1>0, <2>1, <2>2
    DEF IndInv, FilesArrived, InHandIsQueued, OldestFirst, NotYetApplied,
        AppliedIsCurrent, FilesAccountedFor
<1> QED
  BY <1>1, <1>2, <1>3, <1>4, <1>5, <1>6, <1>7, <1>8, <1>9, <1>10, <1>11, <1>12, <1>13,
     <1>14, <1>15
  DEF Leaves, Next, ScanStep

\* What the task and its cancellations leave true at every point.
LEMMA Inductive == Spec => []IndInv
  BY IndInit, IndStep, PTL DEF Spec
-----------------------------------------------------------------------------
\* The variables of OutQueue keep their types.
THEOREM TypeCorrect == Spec => []TypeOK
<1>1. IndInv => TypeOK
  BY DEF IndInv
<1> QED
  BY <1>1, Inductive, PTL

(***************************************************************************)
(* Wherever the task is cancelled, a file is on the target, in the trash   *)
(* directory or still in the queue, or its handler returned without having *)
(* made the change, or the trash could not take it.                        *)
(***************************************************************************)
THEOREM QueueAccounted == Spec => []FilesAccountedFor
<1>1. IndInv => FilesAccountedFor
  BY DEF IndInv
<1> QED
  BY <1>1, Inductive, PTL

(***************************************************************************)
(* scan() handles the files in the order of queue_sort_order and of their  *)
(* names, for every interleaving with files that arrive.                   *)
(***************************************************************************)
THEOREM HandledOldestFirst == Spec => HandledInOrder
<1> DEFINE Step == \A n \in Files : HandleStarts(n) => \A m \in dir : m < n => Overtakes(n, m)
<1>1. IndInv => Step
  <2> SUFFICES ASSUME IndInv, NEW n \in Files, HandleStarts(n), NEW m \in dir, m < n
               PROVE  Overtakes(n, m)
    OBVIOUS
  <2>1. n \in InHand /\ m \notin InHand
    BY DEF HandleStarts, IsNext, InHand, IndInv, TypeOK, Files
  <2> QED
    BY <2>1 DEF IndInv, OldestFirst
<1>2. IndInv /\ [Next]_vars => [Step]_vars
  BY <1>1
<1> QED
  BY <1>2, Inductive, PTL DEF Spec, HandledInOrder

(***************************************************************************)
(* On the target no object goes back to an older state, although a file    *)
(* may be sent twice.                                                      *)
(***************************************************************************)
THEOREM TargetMonotonic == Spec => TargetNeverGoesBack
<1>1. IndInv /\ [Next]_vars => [\A o \in Objects : target'[o] >= target[o]]_vars
  <2> SUFFICES ASSUME IndInv, Next, NEW o \in Objects PROVE target'[o] >= target[o]
    BY DEF vars
  <2>1. CASE TargetApplies
    <3>1. cur \in dir
      BY <2>1 DEF TargetApplies, IndInv, InHandIsQueued, InHand
    <3> QED
      BY <2>1, <3>1 DEF TargetApplies, IndInv, TypeOK, NotYetApplied
  <2>2. CASE ~TargetApplies
    <3>1. target' = target
      BY <2>2
      DEF Next, ScanStep, Arrives, ArrivesAgain, StartScan, PingSucceeds, List, ListRaises,
          HandleStarts, LeaveFile, HandleSucceeds, HandleSkips, HandleRaises, DiscardUnlinks,
          UnlinkRaises, BatchDone, Cancel, Outage, Recovers
    <3> QED
      BY <3>1 DEF IndInv, TypeOK
  <2> QED
    BY <2>1, <2>2
<1> QED
  BY <1>1, Inductive, PTL DEF Spec, TargetNeverGoesBack

(***************************************************************************)
(* The scan implements the out queue's side of HandOver: every step hands  *)
(* the queue a file that is newer than all it ever had, or the newest one  *)
(* again, takes a file out of it, or leaves both as they are.              *)
(***************************************************************************)
THEOREM RefinesHandOver == Spec => ImplementsHandOver
<1>1. Init => HO!Init
  BY DEF Init, HO!Init
<1>2. IndInv /\ [Next]_vars => [HO!Next]_(HO!vars)
  <2> SUFFICES ASSUME IndInv, [Next]_vars
               PROVE  HO!Next \/ (dir' = dir /\ arrived' = arrived)
    BY DEF HO!vars
  <2>1. CASE \E o \in Objects, d \in BOOLEAN : Arrives(o, d)
    <3>1. arrived + 1 \in Files /\ arrived' = arrived + 1 /\ dir' = dir \cup {arrived + 1}
      BY <2>1, BoundsAssumption DEF Arrives, IndInv, TypeOK, Files
    <3>2. dir \subseteq 1..arrived /\ arrived \in Nat
      BY DEF IndInv, FilesArrived, TypeOK
    <3>3. 1..arrived' \ dir' = 1..arrived \ dir
      BY <3>1, <3>2
    <3>4. \A m \in dir \cup (1..arrived \ dir) : m <= arrived + 1
      BY <3>2
    <3>5. 1..arrived \ dir = (1..arrived \ dir) \ {arrived + 1}
      BY <3>2
    <3>6. HO!Hand(arrived + 1, {"q"})
      BY <3>1, <3>3, <3>4, <3>5 DEF HO!Hand, HO!NotOvertaken
    <3> QED
      BY <3>1, <3>6 DEF HO!Next
  <2>2. CASE Leaves
    <3>1. cur \in dir /\ cur \in Files
      BY <2>2
      DEF Leaves, Raises, HandleSucceeds, HandleSkips, HandleRaises, DiscardUnlinks, IndInv,
          InHandIsQueued, InHand
    <3>2. arrived' = arrived /\ dir' = dir \ {cur}
      BY <2>2 DEF Leaves, LeaveFile, HandleSucceeds, HandleSkips, HandleRaises, DiscardUnlinks
    <3>3. cur \in 1..arrived
      BY <3>1 DEF IndInv, FilesArrived
    <3>4. 1..arrived' \ dir' = (1..arrived \ dir) \cup {cur}
      BY <3>1, <3>2, <3>3
    <3>5. HO!Take("q", cur)
      BY <3>1, <3>2, <3>4 DEF HO!Take
    <3> QED
      BY <3>1, <3>5 DEF HO!Next
  <2>4. CASE ArrivesAgain
    <3>1. arrived \in Files /\ arrived' = arrived /\ dir' = dir \cup {arrived}
      BY <2>4 DEF ArrivesAgain, IndInv, TypeOK, Files
    <3>2. \A m \in dir \cup (1..arrived \ dir) : m <= arrived
      BY <3>1 DEF IndInv, FilesArrived, Files
    <3>3. 1..arrived' \ dir' = (1..arrived \ dir) \ {arrived}
      BY <3>1
    <3>4. HO!Hand(arrived, {"q"})
      BY <3>1, <3>2, <3>3 DEF HO!Hand, HO!NotOvertaken
    <3> QED
      BY <3>1, <3>4 DEF HO!Next
  <2>3. CASE UNCHANGED vars
    BY <2>3 DEF vars
  <2> QED
    BY <2>1, <2>2, <2>3, <2>4
    DEF Leaves, Next, ScanStep, StartScan, PingSucceeds, List, ListRaises, HandleStarts,
        TargetApplies, UnlinkRaises, BatchDone, Cancel, Outage, Recovers, queueVars
<1> QED
  BY <1>1, <1>2, Inductive, PTL DEF Spec, ImplementsHandOver, HO!Spec
=============================================================================
