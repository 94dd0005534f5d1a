------------------------------ MODULE InQueue ------------------------------
(***************************************************************************)
(* The in queue of the ID connector: the background task                   *)
(* InQueue.distribute_loop(), the files it works on and the process around *)
(* it.                                                                     *)
(*                                                                         *)
(* The listener (external) drops one JSON file per change into the in      *)
(* queue's directory.  The task gives each file its old_data, renames it   *)
(* to *_ready.json (preprocess_file) and then copies every ready file to   *)
(* the directories of the out queues concerned and unlinks it              *)
(* (distribute).  A file is named by the time it was written at and        *)
(* queue_files() sorts by name, so a file is a number here: the listener's *)
(* n-th file.                                                              *)
(*                                                                         *)
(* asyncio switches tasks only where a coroutine awaits, so an action is   *)
(* the code between two such points.  The service may be killed between    *)
(* any two actions, and inside the one action during which it writes more  *)
(* than one file (Crash, CrashWhileCopying): nothing but the files and the *)
(* old_data DB survives.  An error (OSError, sqlite, LDAP) that nothing    *)
(* catches ends the task alone: the scans of the out queues go on, and the *)
(* in queue stands still until the service is started again.               *)
(***************************************************************************)
EXTENDS Integers, FiniteSets, Distribution

CONSTANTS
    OutQueues,   \* the school authorities that have a configuration
    Conf,        \* their configurations, see Distribution
    Mapping,     \* the school to school authority mapping, see Distribution
    Inputs,      \* the listener objects the listener may write
    Faults,      \* which calls may raise: a subset of {"ldap", "disk"}; "disk"
                 \* stands for every OSError and for those of the old_data DB
    MaxEvents,   \* bound: number of listener files
    MaxCrashes,  \* bound: number of times the service is killed
    NoEvent,     \* what event says of a file not yet written
    Truncated    \* the content of a file opened for writing and not written

ASSUME ConfAssumption ==
    Conf \in [OutQueues -> [active : BOOLEAN, plugins : SUBSET STRING]]
ASSUME InputsAssumption == Inputs \subseteq Event /\ \A ev \in Event : NoEvent # ev
ASSUME BoundsAssumption == MaxEvents \in Nat /\ MaxCrashes \in Nat
ASSUME TruncatedAssumption == \A old \in OldData : Truncated # old

Names == 1..MaxEvents

VARIABLES
    written,   \* number of files the listener has written
    event,     \* event[n]: the listener object in file n
    place,     \* place[n]: where file n of the in queue is ("lost": in the trash,
               \* because it could not be read or saved)
    content,   \* content[n]: the old_data in file n, or Truncated
    oldDB,     \* old_data_db, by entryUUID
    copies,    \* copies[a][n]: the copy of file n in the out queue of a
    taken,     \* taken[a]: the files the scan of a has taken (history)
    failed,    \* the files whose distribution an error cut short (history)
    pc,        \* where the task is
    todo,      \* the listed files that the loop has not reached
    mem,       \* obj.old_data of the file being preprocessed
    scanning,  \* have the out queue tasks been started?
    crashes    \* number of crashes so far

fileVars == <<written, event, place, content>>
outVars  == <<copies, taken, failed>>
taskVars == <<pc, todo, mem, scanning>>
vars == <<written, event, place, content, oldDB, copies, taken, failed, pc, todo,
          mem, scanning, crashes>>

TypeOK ==
    /\ written \in 0..MaxEvents
    /\ event \in [Names -> {NoEvent} \cup Event]
    /\ place \in [Names -> {"absent", "raw", "ready", "trash", "lost", "unlinked"}]
    /\ content \in [Names -> {Truncated} \cup OldData]
    /\ oldDB \in [Users \cup Groups -> OldData]
    /\ copies \in [OutQueues -> [Names -> {"none", "whole", "partial"}]]
    /\ taken \in [OutQueues -> SUBSET Names]
    /\ failed \in SUBSET Names
    /\ pc \in {"stopped", "list", "preprocess", "ldap", "open", "write",
               "rename", "distribute", "copy", "dead"}
    /\ todo \in SUBSET Names
    /\ mem \in OldData
    /\ scanning \in BOOLEAN
    /\ crashes \in 0..MaxCrashes

Init ==
    /\ written = 0
    /\ event = [n \in Names |-> NoEvent]
    /\ place = [n \in Names |-> "absent"]
    /\ content = [n \in Names |-> NoData]
    /\ oldDB = [o \in Users \cup Groups |-> NoData]
    /\ copies = [a \in OutQueues |-> [n \in Names |-> "none"]]
    /\ taken = [a \in OutQueues |-> {}]
    /\ failed = {}
    /\ pc = "stopped"
    /\ todo = {}
    /\ mem = NoData
    /\ scanning = FALSE
    /\ crashes = 0

-----------------------------------------------------------------------------
(***************************************************************************)
(* The files.                                                              *)
(***************************************************************************)
Raw   == {n \in Names : place[n] = "raw"}
Ready == {n \in Names : place[n] = "ready"}

\* Defects of IsNext: the list is not sorted, or the wrong way round.
IsNextUnsorted(n) == n \in todo
IsNextNewest(n)   == n \in todo /\ \A m \in todo : n >= m

\* queue_files() returns a sorted list: the loop's next file is the oldest.
IsNext(n) == n \in todo /\ \A m \in todo : n <= m

\* load_listener_file() gets an object: the JSON is whole and of a known type.
Loadable(n) == content[n] # Truncated /\ event[n].type # "invalid"

\* s_a_names in distribute() ...
Targets(n) ==
    SchoolAuthoritiesToDistributeTo(event[n], content[n], Mapping, Conf)

\* ... and the ones among them that s_a_name_to_out_queue knows.
Consumers(n) == Targets(n) \cap OutQueues

\* A defect of OldDataEntry: the wrong attribute is stored.
OldDataEntryOfId(ev) == {ev.id}

\* save_old_data(): a user's entry keeps its schools, that of a group none.
OldDataEntry(ev) == ev.schools \cap (IF ev.type = "user" THEN Schools ELSE {})

\* old_data_db after the preprocessing of file n: an add/modify replaces the entry.
OldDBAfter(n) ==
    IF event[n].op = "add_mod"
    THEN [oldDB EXCEPT ![event[n].id] = OldDataEntry(event[n])]
    ELSE oldDB

\* The external listener and its converter put the next file into the in queue.
ListenerWrites ==
    /\ written < MaxEvents
    /\ \E ev \in Inputs : event' = [event EXCEPT ![written + 1] = ev]
    /\ written' = written + 1
    /\ place' = [place EXCEPT ![written + 1] = "raw"]
    /\ UNCHANGED <<content, oldDB, outVars, taskVars, crashes>>

-----------------------------------------------------------------------------
(***************************************************************************)
(* The task.                                                               *)
(***************************************************************************)

\* A defect of Start: the scans are started before the initial distribution.
StartScansFirst ==
    /\ pc = "stopped"
    /\ pc' = IF OutQueues # {} THEN "distribute" ELSE "list"
    /\ scanning' = TRUE
    /\ UNCHANGED <<fileVars, oldDB, outVars, todo, mem, crashes>>

\* A defect of Start: there is no initial distribution.
StartWithoutDistribution ==
    /\ pc = "stopped"
    /\ pc' = "list"
    /\ scanning' = TRUE
    /\ UNCHANGED <<fileVars, oldDB, outVars, todo, mem, crashes>>

\* manage_queues(): the in queue is distributed once before any task starts.
Start ==
    /\ pc = "stopped"
    /\ pc' = IF OutQueues # {} THEN "distribute" ELSE "list"
    /\ scanning' = (OutQueues = {})
    /\ UNCHANGED <<fileVars, oldDB, outVars, todo, mem, crashes>>

\* distribute_loop(): the files that are not yet *_ready.json.
ListRaw ==
    /\ pc = "list"
    /\ todo' = Raw
    /\ pc' = "preprocess"
    /\ UNCHANGED <<fileVars, oldDB, outVars, mem, scanning, crashes>>

\* discard_file(), then the loop continues with the next file.
Discard(n) ==
    /\ place' = [place EXCEPT ![n] = "trash"]
    /\ todo' = todo \ {n}

\* A defect of DiscardInvalid: the file is passed over and stays where it is.
SkipInvalid(n) ==
    /\ pc = "preprocess"
    /\ IsNext(n)
    /\ ~Loadable(n)
    /\ todo' = todo \ {n}
    /\ UNCHANGED <<fileVars, oldDB, outVars, pc, mem, scanning, crashes>>

\* preprocess_file(): a file that cannot be loaded raises InvalidListenerFile.
DiscardInvalid(n) ==
    /\ pc = "preprocess"
    /\ IsNext(n)
    /\ ~Loadable(n)
    /\ Discard(n)
    /\ UNCHANGED <<written, event, content, oldDB, outVars, pc, mem, scanning, crashes>>

\* A defect of Preprocess: the new data is stored before the old is read.
PreprocessStoresFirst(n) ==
    /\ pc = "preprocess"
    /\ IsNext(n)
    /\ Loadable(n)
    /\ oldDB' = OldDBAfter(n)
    /\ mem' = oldDB'[event[n].id]
    /\ pc' = IF event[n].type = "user" /\ event[n].op = "add_mod" THEN "ldap"
             ELSE IF mem' # NoData THEN "open" ELSE "rename"
    /\ UNCHANGED <<fileVars, outVars, todo, scanning, crashes>>

(***************************************************************************)
(* preprocess_file() with the preprocessing hooks: old_data is read from   *)
(* the DB and, by an add/modify, replaced there at once.  A user's hashes  *)
(* are then fetched from LDAP; the other objects are saved if they were    *)
(* given old_data.                                                         *)
(***************************************************************************)
Preprocess(n) ==
    /\ pc = "preprocess"
    /\ IsNext(n)
    /\ Loadable(n)
    /\ mem' = oldDB[event[n].id]
    /\ oldDB' = OldDBAfter(n)
    /\ pc' = IF event[n].type = "user" /\ event[n].op = "add_mod" THEN "ldap"
             ELSE IF mem' # NoData THEN "open" ELSE "rename"
    /\ UNCHANGED <<fileVars, outVars, todo, scanning, crashes>>

\* get_passwords() returns; obj changed if it has hashes or old_data.
LdapAnswers ==
    /\ pc = "ldap"
    /\ \E found \in BOOLEAN :
          pc' = IF found \/ mem # NoData THEN "open" ELSE "rename"
    /\ UNCHANGED <<fileVars, oldDB, outVars, todo, mem, scanning, crashes>>

\* distribute_loop() is left by an exception: nothing starts the task again but a restart.
TaskRaises ==
    /\ pc' = "dead"
    /\ todo' = {}
    /\ mem' = NoData
    /\ UNCHANGED <<scanning, crashes>>

\* get_passwords() raises; distribute_loop() raises InvalidListenerFile from it.
LdapFails ==
    /\ "ldap" \in Faults
    /\ pc = "ldap"
    /\ TaskRaises
    /\ UNCHANGED <<fileVars, oldDB, outVars>>

\* So does an error of the old_data DB, whether or not the entry was replaced.
OldDataFails(n) ==
    /\ "disk" \in Faults
    /\ pc = "preprocess"
    /\ IsNext(n)
    /\ Loadable(n)
    /\ oldDB' \in {oldDB, OldDBAfter(n)}
    /\ TaskRaises
    /\ UNCHANGED <<fileVars, outVars>>

\* save_listener_object(): open(path, "w") empties the file ...
OpenForWriting(n) ==
    /\ pc = "open"
    /\ IsNext(n)
    /\ content' = [content EXCEPT ![n] = Truncated]
    /\ pc' = "write"
    /\ UNCHANGED <<written, event, place, oldDB, outVars, todo, mem, scanning, crashes>>

\* ... and the JSON is written to it.
WriteJSON(n) ==
    /\ pc = "write"
    /\ IsNext(n)
    /\ content' = [content EXCEPT ![n] = mem]
    /\ pc' = "rename"
    /\ UNCHANGED <<written, event, place, oldDB, outVars, todo, mem, scanning, crashes>>

\* load_listener_file() catches OSError: in both loops the file is discarded unread.
ReadFails(n) ==
    /\ "disk" \in Faults
    /\ pc \in {"preprocess", "copy"}
    /\ IsNext(n)
    /\ place' = [place EXCEPT ![n] = "lost"]
    /\ todo' = todo \ {n}
    /\ UNCHANGED <<written, event, content, oldDB, outVars, pc, mem, scanning, crashes>>

\* Opening or writing raises OSError: ListenerSavingError, the file is discarded.
SaveFails(n) ==
    /\ "disk" \in Faults
    /\ pc \in {"open", "write"}
    /\ IsNext(n)
    /\ place' = [place EXCEPT ![n] = "lost"]
    /\ todo' = todo \ {n}
    /\ pc' = "preprocess"
    /\ mem' = NoData
    /\ UNCHANGED <<written, event, content, oldDB, outVars, scanning, crashes>>

\* path.rename(new_path)
Rename(n) ==
    /\ pc = "rename"
    /\ IsNext(n)
    /\ place' = [place EXCEPT ![n] = "ready"]
    /\ todo' = todo \ {n}
    /\ pc' = "preprocess"
    /\ mem' = NoData
    /\ UNCHANGED <<written, event, content, oldDB, outVars, scanning, crashes>>

\* It is in no try: an OSError leaves the loop.
RenameFails(n) ==
    /\ "disk" \in Faults
    /\ pc = "rename"
    /\ IsNext(n)
    /\ TaskRaises
    /\ UNCHANGED <<fileVars, oldDB, outVars>>

\* The end of the for loop; distribute only if out queues exist.
PreprocessingDone ==
    /\ pc = "preprocess"
    /\ todo = {}
    /\ pc' = IF OutQueues # {} THEN "distribute" ELSE "list"
    /\ UNCHANGED <<fileVars, oldDB, outVars, todo, mem, scanning, crashes>>

\* distribute(): queue_paths
ListReady ==
    /\ pc = "distribute"
    /\ todo' = Ready
    /\ pc' = "copy"
    /\ UNCHANGED <<fileVars, oldDB, outVars, mem, scanning, crashes>>

\* copies after file n was copied to the out queues in whole and partly to those in part.
Copied(n, whole, part) ==
    [a \in OutQueues |->
        [copies[a] EXCEPT ![n] = IF a \in whole THEN "whole"
                                 ELSE IF a \in part THEN "partial" ELSE @]]

\* distribute(): nobody is to get the file, or it cannot be loaded.
DiscardUnaddressed(n) ==
    /\ pc = "copy"
    /\ IsNext(n)
    /\ ~Loadable(n) \/ Targets(n) = {}
    /\ Discard(n)
    /\ UNCHANGED <<written, event, content, oldDB, outVars, pc, mem, scanning, crashes>>

\* A defect of DistributeFile: deactivated out queues get no copy.
DistributeFileToActive(n) ==
    /\ pc = "copy"
    /\ IsNext(n)
    /\ Loadable(n)
    /\ Targets(n) # {}
    /\ copies' = Copied(n, {a \in Consumers(n) : Conf[a].active}, {})
    /\ place' = [place EXCEPT ![n] = "unlinked"]
    /\ todo' = todo \ {n}
    /\ UNCHANGED <<written, event, content, oldDB, taken, failed, pc, mem, scanning, crashes>>

\* distribute(): the file is copied to its out queues and unlinked, without an await.
DistributeFile(n) ==
    /\ pc = "copy"
    /\ IsNext(n)
    /\ Loadable(n)
    /\ Targets(n) # {}
    /\ copies' = Copied(n, Consumers(n), {})
    /\ place' = [place EXCEPT ![n] = "unlinked"]
    /\ todo' = todo \ {n}
    /\ UNCHANGED <<written, event, content, oldDB, taken, failed, pc, mem, scanning, crashes>>

\* distribute() does not get through with file n: some of its out queues have a copy,
\* at most one of them a part of it, and the file is still there.
CutShort(n) ==
    /\ pc = "copy"
    /\ IsNext(n)
    /\ Loadable(n)
    /\ Targets(n) # {}
    /\ \E whole \in SUBSET Consumers(n) :
       \E part \in {{}} \cup {{a} : a \in Consumers(n) \ whole} :
          copies' = Copied(n, whole, part)

(***************************************************************************)
(* shutil.copy2() raises OSError (the disk is full, say), or unlink() one  *)
(* that is not FileNotFoundError: neither distribute() nor                 *)
(* distribute_loop() catches it.  In the initial distribution it ends      *)
(* manage_queues() and with it the service: CrashWhileCopying.             *)
(***************************************************************************)
CopyFails(n) ==
    /\ "disk" \in Faults
    /\ scanning
    /\ CutShort(n)
    /\ failed' = failed \cup {n}
    /\ TaskRaises
    /\ UNCHANGED <<fileVars, oldDB, taken>>

\* distribute() returns: to the loop, or to manage_queues(), which starts the tasks.
DistributionDone ==
    /\ pc = "copy"
    /\ todo = {}
    /\ pc' = "list"
    /\ scanning' = TRUE
    /\ UNCHANGED <<fileVars, oldDB, outVars, todo, mem, crashes>>

(***************************************************************************)
(* The scan of an active out queue is through with a copy: unlinked or in  *)
(* trash.  With a part of one it never is (OutQueue.ListRaises).           *)
(***************************************************************************)
ScanTakes(a, n) ==
    /\ scanning
    /\ Conf[a].active
    /\ copies[a][n] = "whole"
    /\ copies' = [copies EXCEPT ![a][n] = "none"]
    /\ taken' = [taken EXCEPT ![a] = @ \cup {n}]
    /\ UNCHANGED <<fileVars, oldDB, failed, taskVars, crashes>>

-----------------------------------------------------------------------------
(***************************************************************************)
(* The service is killed, or SIGTERM makes shutdown() cancel the tasks at  *)
(* their awaits.                                                           *)
(***************************************************************************)
Stop ==
    /\ pc # "stopped"
    /\ crashes < MaxCrashes
    /\ crashes' = crashes + 1
    /\ pc' = "stopped"
    /\ todo' = {}
    /\ mem' = NoData
    /\ scanning' = FALSE

Crash ==
    /\ Stop
    /\ UNCHANGED <<fileVars, oldDB, outVars>>

\* Killed in distribute() after some copies, before unlink(), or, in the initial
\* distribution, ended by an error of one of them.
CrashWhileCopying(n) ==
    /\ CutShort(n)
    /\ Stop
    /\ UNCHANGED <<fileVars, oldDB, taken, failed>>

-----------------------------------------------------------------------------
TaskStep ==
    \/ ListRaw
    \/ \E n \in Names : DiscardInvalid(n)
    \/ \E n \in Names : Preprocess(n)
    \/ LdapAnswers
    \/ \E n \in Names : OpenForWriting(n)
    \/ \E n \in Names : WriteJSON(n)
    \/ \E n \in Names : Rename(n)
    \/ PreprocessingDone
    \/ ListReady
    \/ \E n \in Names : DiscardUnaddressed(n)
    \/ \E n \in Names : DistributeFile(n)
    \/ DistributionDone

Next ==
    \/ ListenerWrites
    \/ Start
    \/ TaskStep
    \/ LdapFails
    \/ \E n \in Names : OldDataFails(n)
    \/ \E n \in Names : ReadFails(n)
    \/ \E n \in Names : SaveFails(n)
    \/ \E n \in Names : RenameFails(n)
    \/ \E n \in Names : CopyFails(n)
    \/ \E a \in OutQueues, n \in Names : ScanTakes(a, n)
    \/ Crash
    \/ \E n \in Names : CrashWhileCopying(n)

Spec == Init /\ [][Next]_vars

(***************************************************************************)
(* The event loop runs every task that is ready, LDAP answers in the end   *)
(* and the container is started again.                                     *)
(***************************************************************************)
FairSpec == Spec /\ WF_vars(TaskStep) /\ WF_vars(Start)

-----------------------------------------------------------------------------
(***************************************************************************)
(* Properties.                                                             *)
(***************************************************************************)

\* Out queue a holds a whole copy of file n or its scan has taken one.
Got(a, n) == n \in taken[a] \/ copies[a][n] = "whole"

\* Out queue a has, or had, any copy of file n.
Received(a, n) == n \in taken[a] \/ copies[a][n] # "none"

(***************************************************************************)
(* Preprocessing never overtakes: a file that is *_ready.json is older     *)
(* than every file still to be preprocessed, whatever arrives during a     *)
(* pass of distribute_loop() and wherever the service was killed.  So a    *)
(* file's old_data is that of the change before it.                        *)
(***************************************************************************)
ReadyBeforeRaw == \A m \in Ready, n \in Raw : m < n

(***************************************************************************)
(* distribute() hands an out queue the changes in the order in which the   *)
(* listener reported them: a copy that appears in an out queue is of no    *)
(* older file than all the copies that this queue has, or whose scan has   *)
(* had.  Through every kill and error only the newest can be repeated.     *)
(***************************************************************************)
HandOverInOrder ==
    [][\A a \in OutQueues, n \in Names :
          copies[a][n] = "none" /\ copies'[a][n] # "none"
            => \A m \in Names : Received(a, m) => m <= n]_vars

(***************************************************************************)
(* Kills alone never make an out queue get a file again that its scan has  *)
(* already taken: the copies left behind by a killed distribute() are      *)
(* repeated by the initial distribution in manage_queues(), before the     *)
(* first scan starts.  Only where an error of distribute() cut the copying *)
(* short, with the scans running on, is a file handed over once more by    *)
(* the next start.                                                         *)
(***************************************************************************)
RedeliveredOnlyAfterError ==
    \A a \in OutQueues : \A n \in taken[a] \ failed : copies[a][n] = "none"

(***************************************************************************)
(* A scan, which does not survive a file of which shutil.copy2() has       *)
(* written only a part (udm_object_queue_order() raises), can meet one in  *)
(* two cases only: an error of copy2() has ended the task, with the file   *)
(* still *_ready.json, so that the next start completes the copy before    *)
(* the scans run again; or the file itself could not be read when that was *)
(* to be done.  A kill alone leaves none to a scan.                        *)
(***************************************************************************)
PartialOnlyAfterError ==
    scanning => \A a \in OutQueues, n \in Names :
        copies[a][n] = "partial" =>
            \/ pc = "dead" /\ n \in failed /\ place[n] = "ready"
            \/ place[n] = "lost"

(***************************************************************************)
(* distribute() unlinks a file only when every out queue it is meant for   *)
(* has got a whole copy.                                                   *)
(***************************************************************************)
UnlinkedOnlyIfCopied ==
    \A n \in Names :
        place[n] = "unlinked" => \A a \in Consumers(n) : Got(a, n)

(***************************************************************************)
(* A change of an object reaches the out queue of each school authority    *)
(* that the object's schools are mapped to; it does not disappear from the *)
(* in queue before, however often the service is killed.  (Only a file     *)
(* that a kill or a full disk left empty is gone: distribute() cannot      *)
(* load it.)                                                               *)
(***************************************************************************)
CurrentSchoolsServed ==
    \A n \in Names :
        /\ place[n] \in {"trash", "unlinked"}
        /\ event[n].type # "invalid" /\ content[n] # Truncated
        => \A a \in AuthoritiesOf(event[n].schools, Mapping) \cap OutQueues : Got(a, n)

(***************************************************************************)
(* No school authority is forgotten: if the last change of a user that a   *)
(* school authority was told of put the user into one of its schools, then *)
(* it is told of the user's next change, even if that takes the user away  *)
(* from it.  (UserDistributionImpl adds the authorities of the old schools *)
(* for this.)  A change whose file was itself lost is not counted here.    *)
(***************************************************************************)
SameUser(m, n) == event[m].type = "user" /\ event[n].type = "user" /\ event[m].id = event[n].id

LastToldOf(a, m, n) ==
    /\ m < n /\ SameUser(m, n) /\ Got(a, m)
    /\ \A k \in Names : m < k /\ k < n /\ Got(a, k) => ~SameUser(k, n)

NoAuthorityForgotten ==
    \A a \in OutQueues : \A m, n \in 1..written :
        /\ place[n] = "unlinked" \/ (place[n] = "trash" /\ content[n] # Truncated)
        /\ LastToldOf(a, m, n)
        /\ a \in AuthoritiesOf(event[m].schools, Mapping)
        => Got(a, n)

(***************************************************************************)
(* As long as the service is not killed and no file was lost by an error   *)
(* of reading or saving it, no school authority is forgotten: not even     *)
(* where any other error ends the task, be it between the update of the    *)
(* old_data DB and the save or between two copies.                         *)
(***************************************************************************)
NoneForgottenWhileUp ==
    crashes = 0 /\ (\A n \in Names : place[n] # "lost") => NoAuthorityForgotten

(***************************************************************************)
(* The in queue keeps the promise of HandOver, with every kill, restart    *)
(* and error hidden: what it does to the directories of the out queues is  *)
(* to hand each of them its files in order, the newest perhaps again.  A   *)
(* copy that was left incomplete counts as handed over.                    *)
(***************************************************************************)
Queued == [a \in OutQueues |-> {n \in Names : copies[a][n] # "none"}]

HO == INSTANCE HandOver
      WITH Queues <- OutQueues, Files <- Names, waiting <- Queued,
           done <- [a \in OutQueues |-> taken[a] \ Queued[a]]

ImplementsHandOver == HO!Spec

(***************************************************************************)
(* Every file the listener writes leaves the in queue, however often the   *)
(* service is killed, unless an error that distribute_loop() does not      *)
(* catch has ended the task: it is never started again in the same         *)
(* process, whatever recovers.                                             *)
(***************************************************************************)
Drains ==
    \A n \in Names :
        place[n] = "raw" ~> place[n] \in {"trash", "lost", "unlinked"} \/ pc = "dead"
=============================================================================
