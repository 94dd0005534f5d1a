------------------------------ MODULE OutQueue ------------------------------
(***************************************************************************)
(* The out queue of one school authority: the background task              *)
(* OutQueue.scan(), the files in the queue's directory and the school      *)
(* authority's system (the target, external).                              *)
(*                                                                         *)
(* The in queue copies files into the directory, in the order in which the *)
(* listener reported the changes (proved in InQueueProofs); a file is a    *)
(* number again.  scan() pings the target until it answers, then sorts the *)
(* files by object type and name and handles those of the first type.      *)
(* What a file changes on the target is abstracted to its number: target   *)
(* says which file an object's state there comes from.  A handler that     *)
(* returns has not always changed the target: several of its error paths   *)
(* only log (HandleSkips).                                                 *)
(*                                                                         *)
(* The task can be cancelled at any await: by the RPC server, which stops  *)
(* and starts it for a PATCH, by SIGTERM, or because the service is        *)
(* killed.  If it is started anew it finds the directory as it is, except  *)
(* that a restart of the service may hand it the newest file again.        *)
(***************************************************************************)
EXTENDS Integers, FiniteSets

CONSTANTS
    Users, Groups,  \* entryUUIDs of users and of groups
    Rejects,        \* may the target reject an object? (BOOLEAN)
    Skips,          \* may a handler leave a change undone and return? (BOOLEAN)
    DiskErrors,     \* may reading, moving or unlinking a file raise OSError? (BOOLEAN)
    Corruption,     \* may a file arrive that is no valid JSON? (BOOLEAN)
    MaxFiles,       \* bound: number of files
    MaxCancels,     \* bound: number of times the task is cancelled
    MaxOutages,     \* bound: number of times the target becomes unreachable
    NoObject        \* what object says of a file that has not arrived

ASSUME ObjectsAssumption == Users \cap Groups = {} /\ NoObject \notin Users \cup Groups
ASSUME SwitchesAssumption == {Rejects, Skips, DiskErrors, Corruption} \subseteq BOOLEAN
ASSUME BoundsAssumption ==
    MaxFiles \in Nat /\ MaxCancels \in Nat /\ MaxOutages \in Nat

Files   == 1..MaxFiles
Objects == Users \cup Groups

VARIABLES
    arrived,    \* number of files copied to the queue
    object,     \* object[n]: the object that file n is about
    dir,        \* the files in the directory
    corrupt,    \* the files that are no valid JSON
    trash,      \* the files in the trash directory
    gone,       \* the files unlinked without a trace: the handler left the change
                \* undone, or the trash could not take the file (history)
    pc,         \* where the task is
    todo,       \* the files of the current batch that are not handled yet
    cur,        \* the file being handled, or 0
    applied,    \* has the target done what the current file asks for?
    target,     \* target[o]: the file the target's state of o comes from
    reachable,  \* does the target answer?
    cancels,    \* number of cancellations so far
    outages     \* number of outages so far

queueVars == <<arrived, object, dir, corrupt, trash, gone>>
taskVars  == <<pc, todo, cur, applied>>
envVars   == <<reachable, cancels, outages>>
vars == <<arrived, object, dir, corrupt, trash, gone, pc, todo, cur, applied,
          target, reachable, cancels, outages>>

TypeOK ==
    /\ arrived \in 0..MaxFiles
    /\ object \in [Files -> {NoObject} \cup Objects]
    /\ dir \in SUBSET Files
    /\ corrupt \in SUBSET Files
    /\ trash \in SUBSET Files
    /\ gone \in SUBSET Files
    /\ pc \in {"off", "ping", "list", "batch", "handle", "dead"}
    /\ todo \in SUBSET Files
    /\ cur \in 0..MaxFiles
    /\ applied \in BOOLEAN
    /\ target \in [Objects -> 0..MaxFiles]
    /\ reachable \in BOOLEAN
    /\ cancels \in 0..MaxCancels
    /\ outages \in 0..MaxOutages

Init ==
    /\ arrived = 0
    /\ object = [n \in Files |-> NoObject]
    /\ dir = {}
    /\ corrupt = {}
    /\ trash = {}
    /\ gone = {}
    /\ pc = "off"
    /\ todo = {}
    /\ cur = 0
    /\ applied = FALSE
    /\ target = [o \in Objects |-> 0]
    /\ reachable = TRUE
    /\ cancels = 0
    /\ outages = 0

-----------------------------------------------------------------------------
\* A defect of QueueOrder: the order of the types is reversed.
QueueOrderGroupsFirst(n) == IF object[n] \in Users THEN 1 ELSE 0

\* queue_sort_order: users/user before groups/group.
QueueOrder(n) == IF object[n] \in Users THEN 0 ELSE 1

\* paths.sort(), up to the first path with a higher order than paths[0].
FirstBatch == {n \in dir : \A m \in dir : QueueOrder(n) <= QueueOrder(m)}

IsNext(n) == n \in todo /\ \A m \in todo : n <= m

\* InQueue.distribute() copies a file to the queue; a copy may be damaged.
Arrives(o, damaged) ==
    /\ arrived < MaxFiles
    /\ arrived' = arrived + 1
    /\ object' = [object EXCEPT ![arrived + 1] = o]
    /\ dir' = dir \cup {arrived + 1}
    /\ corrupt' = IF damaged THEN corrupt \cup {arrived + 1} ELSE corrupt
    /\ UNCHANGED <<trash, gone, taskVars, target, envVars>>

(***************************************************************************)
(* After an error in the middle of its copying the newest file is handed   *)
(* over again, whole, when the service starts, before the scans do         *)
(* (InQueue.CopyFails).                                                    *)
(***************************************************************************)
ArrivesAgain ==
    /\ pc = "off"
    /\ arrived > 0
    /\ dir' = dir \cup {arrived}
    /\ corrupt' = corrupt \ {arrived}
    /\ UNCHANGED <<arrived, object, trash, gone, taskVars, target, envVars>>

\* A defect of StartScan: the files in the trash are put back to be tried again.
StartScanRetriesTrash ==
    /\ pc = "off"
    /\ pc' = "ping"
    /\ dir' = dir \cup trash
    /\ trash' = {}
    /\ UNCHANGED <<arrived, object, corrupt, gone, todo, cur, applied, target, envVars>>

\* start_task("scan")
StartScan ==
    /\ pc = "off"
    /\ pc' = "ping"
    /\ UNCHANGED <<queueVars, todo, cur, applied, target, envVars>>

\* school_authority_ping: if it fails the task sleeps and pings again.
PingSucceeds ==
    /\ pc = "ping"
    /\ reachable
    /\ pc' = "list"
    /\ UNCHANGED <<queueVars, todo, cur, applied, target, envVars>>

(***************************************************************************)
(* The directory is read and every file in it loaded for the sort key.     *)
(* udm_object_queue_order() does not catch ListenerLoadingError, and       *)
(* neither does scan(): a file that is corrupt or cannot be read ends the  *)
(* task.                                                                   *)
(***************************************************************************)
List ==
    /\ pc = "list"
    /\ dir \cap corrupt = {}
    /\ todo' = FirstBatch
    /\ pc' = "batch"
    /\ UNCHANGED <<queueVars, cur, applied, target, envVars>>

ListRaises ==
    /\ pc = "list"
    /\ dir \cap corrupt # {} \/ (DiskErrors /\ dir # {})
    /\ pc' = "dead"
    /\ UNCHANGED <<queueVars, todo, cur, applied, target, envVars>>

\* handle(): the file is loaded and given to the handle_listener_object hooks.
HandleStarts(n) ==
    /\ pc = "batch"
    /\ IsNext(n)
    /\ cur' = n
    /\ applied' = FALSE
    /\ todo' = todo \ {n}
    /\ pc' = "handle"
    /\ UNCHANGED <<queueVars, target, envVars>>

\* The target carries out the handler's request (external).
TargetApplies ==
    /\ pc = "handle"
    /\ reachable
    /\ ~applied
    /\ applied' = TRUE
    /\ target' = [target EXCEPT ![object[cur]] = cur]
    /\ UNCHANGED <<queueVars, pc, todo, cur, envVars>>

\* scan() is through with the current file, which is not in the directory any more.
LeaveFile ==
    /\ dir' = dir \ {cur}
    /\ pc' = "batch"
    /\ cur' = 0
    /\ applied' = FALSE
    /\ UNCHANGED <<arrived, object, corrupt, todo, target, envVars>>

\* The handlers return, the change is made and scan() unlinks the file.
HandleSucceeds ==
    /\ pc = "handle"
    /\ applied
    /\ LeaveFile
    /\ UNCHANGED <<trash, gone>>

(***************************************************************************)
(* The handlers return without an exception and without having made the    *)
(* change: a NoObject was swallowed, a precondition was not met or data    *)
(* was missing, which are only logged.  To scan() that is a success.       *)
(***************************************************************************)
HandleSkips ==
    /\ Skips
    /\ pc = "handle"
    /\ ~applied
    /\ gone' = gone \cup {cur}
    /\ LeaveFile
    /\ UNCHANGED trash

\* An exception in handle(): of a handler or, where it loads the file, of the disk.
Raises ==
    /\ pc = "handle"
    /\ ~reachable \/ Rejects \/ DiskErrors

\* A defect of HandleRaises: the head is reset before the file is discarded.
HandleRaisesResetsFirst ==
    /\ Raises
    /\ cur' = 0
    /\ trash' = trash \cup {cur'}
    /\ LeaveFile
    /\ UNCHANGED gone

\* A defect of HandleRaises: the file is unlinked like one that was handled.
HandleRaisesUnlinks ==
    /\ Raises
    /\ LeaveFile
    /\ UNCHANGED <<trash, gone>>

\* A defect of HandleRaises: the file stays queued while the next ones are handled.
HandleRaisesRetriesLater ==
    /\ Raises
    /\ pc' = "batch"
    /\ cur' = 0
    /\ applied' = FALSE
    /\ UNCHANGED <<queueVars, todo, target, envVars>>

(***************************************************************************)
(* Whatever the reason, handle() discards the file and returns normally,   *)
(* so scan() goes on to the next one (and its unlink() finds no file).     *)
(* The request may have been carried out all the same.                     *)
(***************************************************************************)
HandleRaises ==
    /\ Raises
    /\ trash' = trash \cup {cur}
    /\ LeaveFile
    /\ UNCHANGED gone

\* discard_file() cannot move the file to the trash directory and unlinks it.
DiscardUnlinks ==
    /\ DiskErrors
    /\ Raises
    /\ gone' = gone \cup {cur}
    /\ LeaveFile
    /\ UNCHANGED trash

\* unlink() in scan() raises more than FileNotFoundError: the task is over.
UnlinkRaises ==
    /\ DiskErrors
    /\ pc = "handle"
    /\ pc' = "dead"
    /\ todo' = {}
    /\ cur' = 0
    /\ applied' = FALSE
    /\ UNCHANGED <<queueVars, target, envVars>>

\* The end of the batch: sleep, then read the directory again (without a ping).
BatchDone ==
    /\ pc = "batch"
    /\ todo = {}
    /\ pc' = "list"
    /\ UNCHANGED <<queueVars, todo, cur, applied, target, envVars>>

\* stop_task(), shutdown() or a kill.
Cancel ==
    /\ pc # "off"
    /\ cancels < MaxCancels
    /\ cancels' = cancels + 1
    /\ pc' = "off"
    /\ todo' = {}
    /\ cur' = 0
    /\ applied' = FALSE
    /\ UNCHANGED <<queueVars, target, reachable, outages>>

\* The target becomes unreachable (external) ...
Outage ==
    /\ reachable
    /\ outages < MaxOutages
    /\ outages' = outages + 1
    /\ reachable' = FALSE
    /\ UNCHANGED <<queueVars, taskVars, target, cancels>>

\* ... and is reachable again.
Recovers ==
    /\ ~reachable
    /\ reachable' = TRUE
    /\ UNCHANGED <<queueVars, taskVars, target, cancels, outages>>

-----------------------------------------------------------------------------
ScanStep ==
    \/ PingSucceeds
    \/ List
    \/ ListRaises
    \/ \E n \in Files : HandleStarts(n)
    \/ TargetApplies
    \/ HandleSucceeds
    \/ HandleSkips
    \/ HandleRaises
    \/ DiscardUnlinks
    \/ UnlinkRaises
    \/ BatchDone

Next ==
    \/ \E o \in Objects : Arrives(o, FALSE)
    \/ Corruption /\ \E o \in Objects : Arrives(o, TRUE)
    \/ ArrivesAgain
    \/ StartScan
    \/ ScanStep
    \/ Cancel
    \/ Outage
    \/ Recovers

Spec == Init /\ [][Next]_vars

(***************************************************************************)
(* The event loop runs a task that was started, its handlers come to an    *)
(* end and an outage ends.  Nothing makes the service start a task again   *)
(* that was cancelled: a refused PATCH leaves it stopped.                  *)
(***************************************************************************)
FairSpec == Spec /\ WF_vars(ScanStep) /\ WF_vars(Recovers)

-----------------------------------------------------------------------------
(***************************************************************************)
(* A file is handled before all younger ones that are in the directory     *)
(* with it, except that a user overtakes groups (queue_sort_order), even   *)
(* if files arrive, handlers fail and the task is restarted meanwhile.  So *)
(* a school class is not sent before users reported earlier, and the       *)
(* changes of one object are sent in order.                                *)
(***************************************************************************)
Overtakes(n, m) == object[n] \in Users /\ object[m] \in Groups

HandledInOrder ==
    [][\A n \in Files : HandleStarts(n) => \A m \in dir : m < n => Overtakes(n, m)]_vars

(***************************************************************************)
(* The target's state of an object never goes back to an older change,     *)
(* although the file being handled when the task is cancelled is handled   *)
(* again.                                                                  *)
(***************************************************************************)
TargetNeverGoesBack == [][\A o \in Objects : target'[o] >= target[o]]_vars

(***************************************************************************)
(* A file leaves the queue only if the target has what it says, if it is   *)
(* in the trash directory, from where it can be scheduled again, or in one *)
(* of two ways that leave nothing but a line in the log: its handler       *)
(* returned with the change undone, or the trash could not take it.  No    *)
(* cancellation, outage, refusal or restart drops a file otherwise.        *)
(***************************************************************************)
FilesAccountedFor ==
    \A n \in 1..arrived : n \in dir \cup trash \cup gone \/ target[object[n]] >= n

(***************************************************************************)
(* The scan keeps its side of HandOver: whatever is cancelled, rejected or *)
(* cut off, a file it is through with, handled or in the trash, is not     *)
(* handled again unless it is handed over again, and the scan takes        *)
(* nothing else from the directory.                                        *)
(***************************************************************************)
HO == INSTANCE HandOver
      WITH Queues <- {"q"}, Files <- Files,
           waiting <- [a \in {"q"} |-> dir], done <- [a \in {"q"} |-> 1..arrived \ dir]

ImplementsHandOver == HO!Spec

(***************************************************************************)
(* While the scan runs, every file leaves the directory in the end,        *)
(* through outages and rejected objects, or an unreadable file or an error *)
(* of unlink() ends the task.  That holds once no more files arrive (here  *)
(* after MaxFiles): as scan() reads the directory again after every type   *)
(* and takes the users first, new users keep the groups waiting for as     *)
(* long as they come.                                                      *)
(***************************************************************************)
Drains == \A n \in Files : n \in dir ~> n \notin dir \/ pc \in {"off", "dead"}

(***************************************************************************)
(* While the target is unreachable nothing is thrown away: "in case of a   *)
(* communication error with the target API, sleep and retry" (scan()).     *)
(***************************************************************************)
UnreachableIsRetried == [][~reachable => trash' = trash]_vars
=============================================================================
