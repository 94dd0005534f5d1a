-------------------------- MODULE SchedulersProofs --------------------------
(***************************************************************************)
(* Proofs about Schedulers, for any number of users, groups, tasks,        *)
(* changes of LDAP and errors.                                             *)
(*                                                                         *)
(* What the command promises follows from three facts: a task's state and  *)
(* its file agree (FileOfTask), as long as the command is not raising no   *)
(* task has failed (NoneFailed), and tasks of groups exist only when the   *)
(* users are settled (GroupsAfterUsers), which is stronger than            *)
(* UsersBeforeGroups.  The type of the semaphore's value needs a count:    *)
(* what is not free is held by exactly the tasks inside (SemaphoreCounts). *)
(***************************************************************************)
EXTENDS Schedulers, FiniteSetTheorems, TLAPS

\* The tasks inside limited_func()'s "async with sem".
Inside == {o \in Objects : st[o] \in {"lookup", "open", "write"}}

\* The semaphore's value and the tasks inside add up, until all are cancelled.
SemaphoreCounts == pc # "failed" => free + Cardinality(Inside) = NumTasks

\* There are tasks for the objects found, for groups only once they are searched.
TasksOfFound ==
    /\ \A o \in Objects : st[o] # "none" <=> o \in found
    /\ pc = "start" => found = {}
    /\ pc = "users" => found \subseteq Users
    /\ pc = "one" => \E o \in Objects : found = {o}

\* The file of a task that still runs is as far as the task is.
FileOfTask ==
    \A o \in Objects :
        /\ st[o] \in {"none", "waiting", "lookup", "open", "gone", "refused"} => file[o] = "none"
        /\ st[o] = "write" => file[o] = "empty"
        /\ st[o] = "written" => file[o] = "whole"

\* A task that raised makes the command raise; tasks are cancelled at its end only.
NoneFailed ==
    /\ pc \in {"start", "users", "groups", "one", "done"} =>
           \A o \in Objects : st[o] \notin {"raised", "cancelled"}
    /\ pc = "done" => AllReturned

\* Groups have tasks only when the users found are settled.
GroupsAfterUsers ==
    \A g \in Groups : st[g] # "none" => \A u \in Users \cap found : Settled(u)

Inv ==
    /\ TypeOK
    /\ SemaphoreCounts
    /\ TasksOfFound
    /\ FileOfTask
    /\ NoneFailed
    /\ GroupsAfterUsers
-----------------------------------------------------------------------------

\* One more task inside, or one less, changes their number by one.
LEMMA InsideCounts ==
    ASSUME NEW S \in SUBSET Objects, NEW o \in Objects
    PROVE  /\ Cardinality(S) \in Nat
           /\ o \notin S => Cardinality(S \cup {o}) = Cardinality(S) + 1
           /\ o \in S => Cardinality(S \ {o}) = Cardinality(S) - 1
<1>1. IsFiniteSet(S)
  BY ObjectsAssumption, FS_Union, FS_Subset DEF Objects
<1> QED
  BY <1>1, FS_CardinalityType, FS_AddElement, FS_RemoveElement

\* Before the command has searched anything the invariant holds.
LEMMA InvInit == Init => Inv
<1> SUFFICES ASSUME Init PROVE Inv
  OBVIOUS
<1>1. TypeOK
  BY NumTasksAssumption, BoundsAssumption DEF Init, TypeOK
<1>2. SemaphoreCounts
  <2>1. Inside = {}
    BY DEF Init, Inside
  <2> QED
    BY <2>1, FS_EmptySet, NumTasksAssumption DEF Init, SemaphoreCounts
<1> QED
  BY <1>1, <1>2
  DEF Init, Inv, TasksOfFound, FileOfTask, NoneFailed, GroupsAfterUsers, Objects

\* A search that finds S, when no task is inside, leaves the semaphore's count right.
LEMMA NewTasksCount ==
    ASSUME Inv, NEW S \in SUBSET Objects, TasksFor(S), AllReturned
    PROVE  free' + Cardinality(Inside') = NumTasks
<1>1. Inside' = {}
  BY DEF Inside, TasksFor, Inv, TasksOfFound, AllReturned, Unfinished, TypeOK
<1> QED
  BY <1>1, FS_EmptySet, NumTasksAssumption DEF TasksFor

\* A task that ends gives the semaphore back: it was inside.
LEMMA EndCounts ==
    ASSUME Inv, NEW o \in Objects, NEW e, Ends(o, e), o \in Inside, pc # "failed",
           e \in {"written", "gone", "refused", "raised"}
    PROVE  /\ free' + Cardinality(Inside') = NumTasks
           /\ free' \in 0..NumTasks
<1>1. Inside' = Inside \ {o}
  BY DEF Inside, Ends, Inv, TypeOK
<1>2. /\ Cardinality(Inside) \in Nat
      /\ Cardinality(Inside') = Cardinality(Inside) - 1
      /\ Cardinality(Inside') \in Nat
  <2>1. Inside \in SUBSET Objects /\ Inside' \in SUBSET Objects
    BY <1>1 DEF Inside
  <2> QED
    BY <1>1, <2>1, InsideCounts
<1>3. free + Cardinality(Inside) = NumTasks
  BY DEF Inv, SemaphoreCounts
<1>4. free' = free + 1 /\ free \in 0..NumTasks
  BY DEF Ends, Inv, TypeOK
<1> QED
  BY <1>2, <1>3, <1>4, NumTasksAssumption

\* Steps that leave the tasks and the semaphore alone leave the count right.
LEMMA SameTasksCount ==
    ASSUME Inv, st' = st, free' = free, pc = "failed" => pc' = "failed"
    PROVE  SemaphoreCounts'
<1>1. Inside' = Inside
  BY DEF Inside
<1> QED
  BY <1>1 DEF Inv, SemaphoreCounts

(***************************************************************************)
(* The inductive step.  SemaphoreCounts follows from the lemmas above; the *)
(* actions that matter for the others are QueueGroups (all users have      *)
(* returned and, as none failed, are settled), TaskRaises and CancelTasks  *)
(* (after which NoneFailed promises nothing and no group is begun).        *)
(***************************************************************************)
LEMMA InvStep == Inv /\ [Next]_vars => Inv'
<1> SUFFICES ASSUME Inv, [Next]_vars PROVE Inv'
  OBVIOUS
<1>0. TypeOK
  BY DEF Inv
<1> USE DEF TypeOK, envVars, Objects
<1>1. CASE QueueUsers
  <2>0. found = {} /\ AllReturned
    BY <1>1 DEF QueueUsers, Inv, TasksOfFound, AllReturned
  <2>1. SemaphoreCounts'
    BY <1>1, <2>0, NewTasksCount DEF QueueUsers, SemaphoreCounts
  <2>2. TypeOK'
    BY <1>0, <1>1, NumTasksAssumption DEF QueueUsers, TasksFor
  <2>3. TasksOfFound' /\ NoneFailed'
    BY <1>0, <1>1, <2>0 DEF QueueUsers, TasksFor, Inv, TasksOfFound, NoneFailed
  <2>4. FileOfTask'
    BY <1>0, <1>1, <2>0 DEF QueueUsers, TasksFor, Inv, TasksOfFound, FileOfTask
  <2>5. GroupsAfterUsers'
    BY <1>0, <1>1, <2>0, ObjectsAssumption
    DEF QueueUsers, TasksFor, Inv, TasksOfFound, GroupsAfterUsers
  <2> QED
    BY <2>1, <2>2, <2>3, <2>4, <2>5 DEF Inv
<1>2. CASE QueueGroups
  <2>1. SemaphoreCounts'
    BY <1>2, NewTasksCount DEF QueueGroups, SemaphoreCounts
  <2>2. TypeOK'
    BY <1>0, <1>2, NumTasksAssumption DEF QueueGroups, TasksFor
  <2>3. found \subseteq Users /\ \A g \in Groups : st[g] = "none"
    BY <1>0, <1>2, ObjectsAssumption DEF QueueGroups, Inv, TasksOfFound
  <2>4. TasksOfFound' /\ NoneFailed'
    BY <1>0, <1>2, <2>3 DEF QueueGroups, TasksFor, Inv, TasksOfFound, NoneFailed
  <2>5. FileOfTask'
    BY <1>0, <1>2, <2>3, ObjectsAssumption
    DEF QueueGroups, TasksFor, Inv, TasksOfFound, FileOfTask
  <2>6. \A u \in found : Settled(u)
    BY <1>0, <1>2
    DEF QueueGroups, AllReturned, Unfinished, Settled, Inv, TasksOfFound, FileOfTask,
        NoneFailed
  <2>7. \A u \in Users \cap found' : u \in found /\ file'[u] = file[u] /\ st'[u] = st[u]
    BY <1>0, <1>2, ObjectsAssumption DEF QueueGroups, TasksFor
  <2>8. GroupsAfterUsers'
    BY <2>6, <2>7 DEF GroupsAfterUsers, Settled
  <2> QED
    BY <2>1, <2>2, <2>4, <2>5, <2>8 DEF Inv
<1>3. CASE SearchRaises
  BY <1>0, <1>3, BoundsAssumption
  DEF SearchRaises, Fault, Inv, SemaphoreCounts, TasksOfFound, FileOfTask, NoneFailed,
      GroupsAfterUsers, Settled
<1>4. CASE \E o \in Objects : QueueOne(o)
  <2> PICK o \in Objects : QueueOne(o)
    BY <1>4
  <2>0. found = {} /\ \A p \in Objects : st[p] = "none"
    BY <1>0 DEF QueueOne, Inv, TasksOfFound
  <2>1. Inside = {} /\ Inside' = {o}
    BY <1>0, <2>0 DEF Inside, QueueOne
  <2>2. free = NumTasks /\ free' = NumTasks - 1
    BY <2>1, <1>0, FS_EmptySet, NumTasksAssumption DEF QueueOne, Inv, SemaphoreCounts
  <2>3. SemaphoreCounts'
    BY <2>1, <2>2, FS_Singleton, NumTasksAssumption DEF SemaphoreCounts
  <2>4. TypeOK'
    BY <1>0, <2>2, NumTasksAssumption DEF QueueOne
  <2>5. TasksOfFound' /\ NoneFailed'
    BY <1>0, <2>0 DEF QueueOne, TasksOfFound, NoneFailed
  <2>6. FileOfTask'
    BY <1>0, <2>0 DEF QueueOne, Inv, FileOfTask
  <2>7. GroupsAfterUsers'
    BY <1>0, <2>0, ObjectsAssumption DEF QueueOne, GroupsAfterUsers
  <2> QED
    BY <2>3, <2>4, <2>5, <2>6, <2>7 DEF Inv
<1>5. CASE \E o \in Objects : Acquire(o)
  <2> PICK o \in Objects : Acquire(o)
    BY <1>5
  <2>1. o \notin Inside /\ Inside' = Inside \cup {o}
    BY <1>0 DEF Inside, Acquire
  <2>2. Cardinality(Inside') = Cardinality(Inside) + 1 /\ Cardinality(Inside) \in Nat
    BY <2>1, InsideCounts DEF Inside
  <2>3. SemaphoreCounts'
    BY <1>0, <2>2, NumTasksAssumption DEF Acquire, Running, Inv, SemaphoreCounts
  <2>4. TypeOK'
    BY <1>0, NumTasksAssumption DEF Acquire
  <2> QED
    BY <1>0, <2>3, <2>4
    DEF Acquire, Running, Inv, TasksOfFound, FileOfTask, NoneFailed, GroupsAfterUsers, Settled
<1>6. CASE \E o \in Objects : LookUp(o)
  <2> PICK o \in Objects : LookUp(o)
    BY <1>6
  <2>1. Inside' = Inside
    BY <1>0 DEF Inside, LookUp
  <2>2. SemaphoreCounts'
    BY <2>1 DEF LookUp, Inv, SemaphoreCounts
  <2> QED
    BY <1>0, <2>2
    DEF LookUp, Running, Inv, TasksOfFound, FileOfTask, NoneFailed, GroupsAfterUsers, Settled
<1>7. CASE \E o \in Objects : Skip(o)
  <2> PICK o \in Objects : Skip(o)
    BY <1>7
  <2>1. SemaphoreCounts' /\ free' \in 0..NumTasks
    BY EndCounts DEF Skip, Running, Inside, SemaphoreCounts
  <2> QED
    BY <1>0, <2>1
    DEF Skip, Ends, Running, Inv, TasksOfFound, FileOfTask, NoneFailed, GroupsAfterUsers,
        Settled
<1>8. CASE \E o \in Objects : OpenFile(o)
  <2> PICK o \in Objects : OpenFile(o)
    BY <1>8
  <2>1. Inside' = Inside
    BY <1>0 DEF Inside, OpenFile
  <2>2. SemaphoreCounts'
    BY <2>1 DEF OpenFile, Inv, SemaphoreCounts
  <2>3. \A p \in Objects : Settled(p) => Settled(p)'
    BY <1>0 DEF OpenFile, Settled, Inv, FileOfTask
  <2> QED
    BY <1>0, <2>2, <2>3
    DEF OpenFile, Running, Inv, TasksOfFound, FileOfTask, NoneFailed, GroupsAfterUsers
<1>9. CASE \E o \in Objects : WriteFile(o)
  <2> PICK o \in Objects : WriteFile(o)
    BY <1>9
  <2>1. SemaphoreCounts' /\ free' \in 0..NumTasks
    BY EndCounts DEF WriteFile, Running, Inside, SemaphoreCounts
  <2> QED
    BY <1>0, <2>1
    DEF WriteFile, Ends, Running, Inv, TasksOfFound, FileOfTask, NoneFailed,
        GroupsAfterUsers, Settled
<1>10. CASE \E o \in Objects : BindRefused(o)
  <2> PICK o \in Objects : BindRefused(o)
    BY <1>10
  <2>1. SemaphoreCounts' /\ free' \in 0..NumTasks
    BY EndCounts DEF BindRefused, Running, Inside, SemaphoreCounts
  <2> QED
    BY <1>0, <2>1, BoundsAssumption
    DEF BindRefused, Fault, Ends, Running, Inv, TasksOfFound, FileOfTask, NoneFailed,
        GroupsAfterUsers, Settled
<1>11. CASE \E o \in Objects : TaskRaises(o)
  <2> PICK o \in Objects : TaskRaises(o)
    BY <1>11
  <2>1. SemaphoreCounts' /\ free' \in 0..NumTasks
    BY EndCounts DEF TaskRaises, Running, Inside, SemaphoreCounts
  <2> QED
    BY <1>0, <2>1, BoundsAssumption
    DEF TaskRaises, Fault, Ends, Running, Inv, TasksOfFound, FileOfTask, NoneFailed,
        GroupsAfterUsers, Settled
<1>12. CASE CancelTasks
  <2>1. \A o \in Objects : file'[o] # file[o] => st[o] \in {"open", "write"}
    BY <1>0, <1>12 DEF CancelTasks
  <2>2. \A o \in Objects : st'[o] = IF st[o] \in Unfinished THEN "cancelled" ELSE st[o]
    BY <1>0, <1>12 DEF CancelTasks
  <2>3. \A o \in Objects : Settled(o) => Settled(o)'
    BY <2>1, <2>2 DEF Settled, Inv, FileOfTask, Unfinished
  <2>4. TypeOK' /\ SemaphoreCounts'
    BY <1>0, <1>12 DEF CancelTasks, SemaphoreCounts
  <2>5. TasksOfFound' /\ NoneFailed'
    BY <1>12, <2>2 DEF CancelTasks, Unfinished, Inv, TasksOfFound, NoneFailed
  <2>6. FileOfTask'
    BY <1>12, <2>1, <2>2 DEF Unfinished, Inv, FileOfTask
  <2>7. GroupsAfterUsers'
    BY <1>12, <2>2, <2>3 DEF CancelTasks, Unfinished, Inv, GroupsAfterUsers
  <2> QED
    BY <2>4, <2>5, <2>6, <2>7 DEF Inv
<1>13. CASE Done
  <2>1. SemaphoreCounts'
    BY <1>13, SameTasksCount DEF Done
  <2> QED
    BY <1>0, <1>13, <2>1
    DEF Done, AllReturned, Inv, TasksOfFound, FileOfTask, NoneFailed, GroupsAfterUsers,
        Settled
<1>14. CASE \E o \in Objects : LdapChanges(o)
  <2> PICK o \in Objects : LdapChanges(o)
    BY <1>14
  <2>1. SemaphoreCounts'
    BY SameTasksCount DEF LdapChanges
  <2>2. TypeOK'
    BY <1>0, BoundsAssumption DEF LdapChanges
  <2> QED
    BY <2>1, <2>2
    DEF LdapChanges, AllReturned, Inv, TasksOfFound, FileOfTask, NoneFailed,
        GroupsAfterUsers, Settled
<1>15. CASE UNCHANGED vars
  <2>1. SemaphoreCounts'
    BY <1>15, SameTasksCount DEF vars
  <2> QED
    BY <1>0, <1>15, <2>1
    DEF vars, AllReturned, Inv, TasksOfFound, FileOfTask, NoneFailed, GroupsAfterUsers,
        Settled
<1> QED
  BY <1>1, <1>2, <1>3, <1>4, <1>5, <1>6, <1>7, <1>8, <1>9, <1>10, <1>11, <1>12,
     <1>13, <1>14, <1>15
  DEF Next, Command, TaskStep

\* Wherever the command, its tasks and LDAP are, the invariant holds.
LEMMA Inductive == Spec => []Inv
  BY InvInit, InvStep, PTL DEF Spec
-----------------------------------------------------------------------------
(***************************************************************************)
(* The variables keep their types: the semaphore is never released more    *)
(* often than it was acquired.                                             *)
(***************************************************************************)
THEOREM TypeCorrect == Spec => []TypeOK
<1>1. Inv => TypeOK
  BY DEF Inv
<1> QED
  BY <1>1, Inductive, PTL

(***************************************************************************)
(* schedule_school writes no file of a group before those of all users it  *)
(* found, for any number of them and of tasks.                             *)
(***************************************************************************)
THEOREM GroupsLast == Spec => []UsersBeforeGroups
<1>1. Inv => UsersBeforeGroups
  BY DEF Inv, TypeOK, FileOfTask, GroupsAfterUsers, UsersBeforeGroups, Objects
<1> QED
  BY <1>1, Inductive, PTL

(***************************************************************************)
(* A command that ends with "Done." has written what it found, but for     *)
(* what LDAP did not have, or would not show, when it was looked up.       *)
(***************************************************************************)
THEOREM DoneIsDone == Spec => []DoneMeansScheduled
<1>1. Inv => DoneMeansScheduled
  BY DEF Inv, TypeOK, TasksOfFound, FileOfTask, NoneFailed, AllReturned, Unfinished,
         Settled, DoneMeansScheduled
<1> QED
  BY <1>1, Inductive, PTL
=============================================================================
