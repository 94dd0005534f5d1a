----------------------------- MODULE Schedulers -----------------------------
(***************************************************************************)
(* The commands schedule_school, schedule_user and schedule_group, which   *)
(* write one file per user or group for the appcenter converter to have    *)
(* them distributed again.                                                 *)
(*                                                                         *)
(* schedule_school searches the users of a school in LDAP, schedules them  *)
(* with at most num_tasks tasks at a time, and when all of them are done   *)
(* does the same with the groups.  Each task looks its object up again and *)
(* writes the file, while LDAP changes, refuses the bind or fails and the  *)
(* disk fills up.  The first exception of a task ends the command:         *)
(* asyncio.run() then cancels the other tasks where they are.              *)
(***************************************************************************)
EXTENDS Integers, FiniteSets

CONSTANTS
    Users, Groups,  \* the users and groups that the school has at some time
    NumTasks,       \* the argument num_tasks
    MaxChanges,     \* bound: number of changes of LDAP
    MaxFaults       \* bound: number of LDAP and disk errors

Objects == Users \cup Groups

ASSUME ObjectsAssumption ==
    Users \cap Groups = {} /\ IsFiniteSet(Users) /\ IsFiniteSet(Groups)
ASSUME NumTasksAssumption == NumTasks \in 1..32
ASSUME BoundsAssumption == MaxChanges \in Nat /\ MaxFaults \in Nat

VARIABLES
    pc,       \* where the command is
    found,    \* the users and groups that the searches have returned
    st,       \* st[o]: where the task of o is
    free,     \* the value of the semaphore task_limiter
    file,     \* file[o]: the file written for o
    present,  \* the users and groups in LDAP
    changes,  \* number of changes of LDAP so far
    faults    \* number of errors so far

envVars == <<present, changes, faults>>
vars == <<pc, found, st, free, file, present, changes, faults>>

TypeOK ==
    /\ pc \in {"start", "users", "groups", "one", "raised", "done", "failed"}
    /\ found \in SUBSET Objects
    /\ st \in [Objects -> {"none", "waiting", "lookup", "open", "write", "written",
                           "gone", "refused", "raised", "cancelled"}]
    /\ free \in 0..NumTasks
    /\ file \in [Objects -> {"none", "empty", "whole"}]
    /\ present \in SUBSET Objects
    /\ changes \in 0..MaxChanges
    /\ faults \in 0..MaxFaults

Init ==
    /\ pc = "start"
    /\ found = {}
    /\ st = [o \in Objects |-> "none"]
    /\ free = NumTasks
    /\ file = [o \in Objects |-> "none"]
    /\ present \in SUBSET Objects
    /\ changes = 0
    /\ faults = 0

-----------------------------------------------------------------------------
Unfinished == {"waiting", "lookup", "open", "write"}

\* gather() has the results of all tasks.
AllReturned == \A o \in found : st[o] \notin Unfinished

Fault == faults < MaxFaults /\ faults' = faults + 1

\* A search returned the objects in S: a task for each of them, a new semaphore.
TasksFor(S) ==
    /\ found' = found \cup S
    /\ st' = [o \in Objects |-> IF o \in S THEN "waiting" ELSE st[o]]
    /\ free' = NumTasks

\* queue_school(): _get_school_users() and the tasks for the users.
QueueUsers ==
    /\ pc = "start"
    /\ TasksFor(Users \cap present)
    /\ pc' = "users"
    /\ UNCHANGED <<file, envVars>>

\* A defect of QueueGroups: the tasks of the users are not waited for.
QueueGroupsAtOnce ==
    /\ pc = "users"
    /\ TasksFor(Groups \cap present)
    /\ pc' = "groups"
    /\ UNCHANGED <<file, envVars>>

\* All users are through: _get_school_groups() and the tasks for the groups.
QueueGroups ==
    /\ pc = "users"
    /\ AllReturned
    /\ TasksFor(Groups \cap present)
    /\ pc' = "groups"
    /\ UNCHANGED <<file, envVars>>

\* A search raises, a refused bind too (raise_on_bind_error=True).
SearchRaises ==
    /\ pc = "start" \/ (pc = "users" /\ AllReturned)
    /\ Fault
    /\ pc' = "failed"
    /\ UNCHANGED <<found, st, free, file, present, changes>>

\* schedule_user, schedule_group: one task, counted as one of NumTasks here.
QueueOne(o) ==
    /\ pc = "start"
    /\ found' = {o}
    /\ st' = [st EXCEPT ![o] = "lookup"]
    /\ free' = free - 1
    /\ pc' = "one"
    /\ UNCHANGED <<file, envVars>>

-----------------------------------------------------------------------------
(***************************************************************************)
(* The tasks: limited_func() around queue_user() or queue_group().  They   *)
(* go on until they are cancelled, also when one of them has raised.       *)
(***************************************************************************)
Running == pc \in {"users", "groups", "one", "raised"}

\* async with sem
Acquire(o) ==
    /\ Running
    /\ st[o] = "waiting"
    /\ free > 0
    /\ free' = free - 1
    /\ st' = [st EXCEPT ![o] = "lookup"]
    /\ UNCHANGED <<pc, found, file, envVars>>

\* The task of o ends as e and releases the semaphore.
Ends(o, e) ==
    /\ st' = [st EXCEPT ![o] = e]
    /\ free' = free + 1

\* get_user(), get_group(): the object is there; its file gets the present time.
LookUp(o) ==
    /\ Running
    /\ st[o] = "lookup"
    /\ o \in present
    /\ st' = [st EXCEPT ![o] = "open"]
    /\ UNCHANGED <<pc, found, free, file, envVars>>

\* A defect of Skip: the semaphore is not released.
SkipKeepsSemaphore(o) ==
    /\ Running
    /\ st[o] = "lookup"
    /\ o \notin present
    /\ st' = [st EXCEPT ![o] = "gone"]
    /\ UNCHANGED <<pc, found, free, file, envVars>>

\* It is not: the error is logged and the task returns normally.
Skip(o) ==
    /\ Running
    /\ st[o] = "lookup"
    /\ o \notin present
    /\ Ends(o, "gone")
    /\ UNCHANGED <<pc, found, file, envVars>>

\* The bind is refused: search() returns [], as if the object did not exist.
BindRefused(o) ==
    /\ Running
    /\ st[o] = "lookup"
    /\ Fault
    /\ Ends(o, "refused")
    /\ UNCHANGED <<pc, found, file, present, changes>>

\* write_listener_file(): aiofiles.open(path, "w") ...
OpenFile(o) ==
    /\ Running
    /\ st[o] = "open"
    /\ file' = [file EXCEPT ![o] = "empty"]
    /\ st' = [st EXCEPT ![o] = "write"]
    /\ UNCHANGED <<pc, found, free, envVars>>

\* ... and fp.write(json_s).
WriteFile(o) ==
    /\ Running
    /\ st[o] = "write"
    /\ file' = [file EXCEPT ![o] = "whole"]
    /\ Ends(o, "written")
    /\ UNCHANGED <<pc, found, envVars>>

\* A defect of TaskRaises: gather(return_exceptions=True) swallows the exception.
TaskRaisesUnnoticed(o) ==
    /\ Running
    /\ st[o] \in {"lookup", "open", "write"}
    /\ Fault
    /\ Ends(o, "raised")
    /\ UNCHANGED <<pc, found, file, present, changes>>

\* A defect of TaskRaises: the semaphore is released twice.
TaskRaisesReleasesTwice(o) ==
    /\ Running
    /\ st[o] \in {"lookup", "open", "write"}
    /\ Fault
    /\ st' = [st EXCEPT ![o] = "raised"]
    /\ free' = free + 2
    /\ pc' = "raised"
    /\ UNCHANGED <<found, file, present, changes>>

\* LDAP or the disk fails: the exception reaches gather() and queue_school().
TaskRaises(o) ==
    /\ Running
    /\ st[o] \in {"lookup", "open", "write"}
    /\ Fault
    /\ Ends(o, "raised")
    /\ pc' = "raised"
    /\ UNCHANGED <<found, file, present, changes>>

(***************************************************************************)
(* asyncio.run() cancels the tasks that are left.  What a thread of        *)
(* aiofiles has begun is done all the same.                                *)
(***************************************************************************)
CancelTasks ==
    /\ pc = "raised"
    /\ pc' = "failed"
    /\ file' \in {f \in [Objects -> {"none", "empty", "whole"}] :
                    \A o \in Objects :
                        f[o] \in {file[o]}
                                 \cup (IF st[o] = "open" THEN {"empty"} ELSE {})
                                 \cup (IF st[o] = "write" THEN {"whole"} ELSE {})}
    /\ st' = [o \in Objects |-> IF st[o] \in Unfinished THEN "cancelled" ELSE st[o]]
    /\ UNCHANGED <<found, free, envVars>>

\* The command ends with "Done.".
Done ==
    /\ pc \in {"groups", "one"}
    /\ AllReturned
    /\ pc' = "done"
    /\ UNCHANGED <<found, st, free, file, envVars>>

\* A user or group is added to LDAP, or removed from it (external).
LdapChanges(o) ==
    /\ changes < MaxChanges
    /\ changes' = changes + 1
    /\ present' = IF o \in present THEN present \ {o} ELSE present \cup {o}
    /\ UNCHANGED <<pc, found, st, free, file, faults>>

-----------------------------------------------------------------------------
TaskStep(o) ==
    \/ Acquire(o) \/ LookUp(o) \/ Skip(o) \/ OpenFile(o) \/ WriteFile(o)

Command ==
    \/ QueueUsers \/ QueueGroups \/ CancelTasks \/ Done
    \/ \E o \in Objects : QueueOne(o)
    \/ \E o \in Objects : TaskStep(o)

Next ==
    \/ Command
    \/ SearchRaises
    \/ \E o \in Objects : BindRefused(o)
    \/ \E o \in Objects : TaskRaises(o)
    \/ \E o \in Objects : LdapChanges(o)

Spec == Init /\ [][Next]_vars

\* The event loop runs the tasks; LDAP and the disk answer in the end.
FairSpec == Spec /\ WF_vars(Command)

-----------------------------------------------------------------------------
(***************************************************************************)
(* Properties.                                                             *)
(***************************************************************************)

\* The task of o wrote the file, or was told that there is no such object.
Settled(o) == file[o] = "whole" \/ st[o] \in {"gone", "refused"}

(***************************************************************************)
(* "We need to sync the users before the groups, because otherwise there   *)
(* will be missing members." (queue_school())  No file of a group is begun *)
(* before the files of all users found are complete, so they have older    *)
(* names: not with several tasks at a time, and not if a user fails while  *)
(* the others are still being written.                                     *)
(***************************************************************************)
UsersBeforeGroups ==
    \A g \in Groups : file[g] # "none" => \A u \in Users \cap found : Settled(u)

(***************************************************************************)
(* If the command ends with "Done.", every user and group it found has a   *)
(* complete file, but for those that LDAP no longer had, or seemed not to  *)
(* have because it refused the bind of a look-up.                          *)
(***************************************************************************)
DoneMeansScheduled == pc = "done" => \A o \in found : Settled(o)

(***************************************************************************)
(* The command comes to an end, with "Done." or an exception: the tasks    *)
(* that were skipped or have raised give the semaphore back to those that  *)
(* wait for it.                                                            *)
(***************************************************************************)
CommandEnds == <>(pc \in {"done", "failed"})
=============================================================================
