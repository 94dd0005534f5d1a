-------------------------- MODULE SchoolAuthorities --------------------------
(***************************************************************************)
(* The configuration of school authorities at run time: the requests of    *)
(* the HTTP API as SimpleRPCServer carries them out, the configuration     *)
(* files (ConfigurationStorage), the out queues with their directories and *)
(* tasks, the handlers the output plugins keep per school authority, and   *)
(* InQueue.distribute(), which looks the out queues up while requests      *)
(* change them.                                                            *)
(*                                                                         *)
(* The RPC server answers one request at a time, but every await in a      *)
(* request lets the other tasks of the service run; an action is the code  *)
(* between two awaits.  A request that is refused before it has changed    *)
(* anything (unknown or existing name, invalid document), or that only     *)
(* reads, is a stuttering step.  A configuration is abstracted to whether  *)
(* it is active and to the version of its plugin_configs.                  *)
(*                                                                         *)
(* The HTTP API sends each request over a socket of its own and gives up   *)
(* after RPC_CLIENT_TIMEOUT.  The request is carried out all the same, now *)
(* or, if the service is down, when it is up again, in whatever order the  *)
(* sockets reconnect.  Clients may have sent and given up any request at   *)
(* any time before, so the server may receive any request from a client    *)
(* that is gone; requests under way need no variable.                      *)
(***************************************************************************)
EXTENDS Integers, FiniteSets

CONSTANTS
    Names,       \* names a school authority can have
    Versions,    \* contents of plugin_configs
    PatchDocs,   \* the PATCH documents that clients send, see PatchDoc
    Mappings,    \* the mappings that clients send
    MaxKills,    \* bound: number of times the service is killed
    MaxErrors,   \* bound: number of disk errors and of scans that end by themselves
    None,        \* no configuration file, no handler, no request
    Truncated,   \* a file that was opened for writing and is still empty
    Unset,       \* a key that a PATCH document does not have
    Invalid,     \* plugin_configs that the model's validator refuses
    Unknown      \* the client got no answer to its last request

Config   == [active : BOOLEAN, plugin_configs : Versions]
PatchDoc == [active : {Unset} \cup BOOLEAN, plugin_configs : {Unset, Invalid} \cup Versions]

\* The requests about the configuration of one name, and about the mapping.
ConfigRequest  == [name : Names, doc : {None} \cup PatchDoc]
MappingRequest == [mapping : SUBSET Names]

ASSUME NoneAssumption ==
    None \notin Config \cup PatchDoc \cup ConfigRequest \cup MappingRequest
\* The history variable failed has an entry "mapping" beside those of the names.
ASSUME NamesAssumption == "mapping" \notin Names
ASSUME PatchDocsAssumption == PatchDocs \subseteq PatchDoc
ASSUME MappingsAssumption == Mappings \subseteq SUBSET Names
ASSUME BoundsAssumption == MaxKills \in Nat /\ MaxErrors \in Nat

VARIABLES
    up,       \* is the service running?
    queues,   \* names of self.out_queues (the in queue shares the list)
    conf,     \* conf[a]: school_authority of the out queue of a
    task,     \* task[a]: does the scan of a run?
    handler,  \* handler[a]: the plugin_configs the cached handlers of a use
    mapping,  \* school_authority_mapping: the authorities that an object's
              \* schools are mapped to
    rpc,      \* where the RPC server is
    req,      \* the request being carried out
    here,     \* does its client still wait for the answer?
    snap,     \* s_a_name_to_out_queue of a distribute() in progress, or None
    disk,     \* disk[a]: the configuration file of a
    mapFile,  \* the mapping file
    outDir,   \* outDir[a]: what out_queues/a is in the file system
    acked,    \* acked[a]: the configuration clients were told of (history)
    ackedMap, \* the mapping clients were told of (history)
    failed,   \* failed[a]: what went wrong with a since the start or the last
              \* request about it that succeeded (history)
    undeleted, \* names whose file stayed although a client was told that the
              \* configuration was deleted (history)
    kills,    \* number of kills so far
    errors    \* number of disk errors and of scans that ended by themselves so far

memVars  == <<queues, conf, task, handler, mapping>>
diskVars == <<disk, mapFile, outDir>>
toldVars == <<acked, ackedMap, failed, undeleted>>
bounds   == <<kills, errors>>
vars == <<up, queues, conf, task, handler, mapping, rpc, req, here, snap, disk,
          mapFile, outDir, acked, ackedMap, failed, undeleted, kills, errors>>

ConfigOrNone == {None} \cup Config

TypeOK ==
    /\ up \in BOOLEAN
    /\ queues \in SUBSET Names
    /\ conf \in [Names -> ConfigOrNone]
    /\ task \in [Names -> BOOLEAN]
    /\ handler \in [Names -> {None} \cup Versions]
    /\ mapping \in SUBSET Names
    /\ rpc \in {"idle", "stop_delete", "unlink", "stop_patch", "open", "write",
                "open_mapping", "write_mapping"}
    /\ req \in {None} \cup ConfigRequest \cup MappingRequest
    /\ here \in BOOLEAN
    /\ snap \in {None} \cup SUBSET Names
    /\ disk \in [Names -> {Truncated} \cup ConfigOrNone]
    /\ mapFile \in {Truncated} \cup SUBSET Names
    /\ outDir \in [Names -> {"absent", "dir", "file"}]
    /\ acked \in [Names -> {Unknown} \cup ConfigOrNone]
    /\ ackedMap \in {Unknown} \cup SUBSET Names
    /\ failed \in [Names \cup {"mapping"} -> {"no", "stopped", "unsaved"}]
    /\ undeleted \subseteq Names
    /\ kills \in 0..MaxKills
    /\ errors \in 0..MaxErrors

Init ==
    /\ up = FALSE
    /\ queues = {}
    /\ conf = [a \in Names |-> None]
    /\ task = [a \in Names |-> FALSE]
    /\ handler = [a \in Names |-> None]
    /\ mapping = {}
    /\ rpc = "idle"
    /\ req = None
    /\ here = FALSE
    /\ snap = None
    /\ disk = [a \in Names |-> None]
    /\ mapFile = {}
    /\ outDir = [a \in Names |-> "absent"]
    /\ acked = [a \in Names |-> None]
    /\ ackedMap = {}
    /\ failed = [x \in Names \cup {"mapping"} |-> "no"]
    /\ undeleted = {}
    /\ kills = 0
    /\ errors = 0

-----------------------------------------------------------------------------
(***************************************************************************)
(* The channel between the HTTP API and the RPC server.                    *)
(***************************************************************************)

\* The server receives request r, whose client still waits for it or is gone.
Receive(r, where) ==
    /\ up /\ rpc = "idle"
    /\ rpc' = where
    /\ req' = r
    /\ here' \in BOOLEAN

\* A defect of GiveUp: the server drops the request as well.
GiveUpAborts ==
    /\ here
    /\ here' = FALSE
    /\ rpc' = "idle"
    /\ req' = None
    /\ UNCHANGED <<up, memVars, snap, diskVars, toldVars, bounds>>

\* query_service(): RCVTIMEO has passed; the client gets status 500.
GiveUp ==
    /\ here
    /\ here' = FALSE
    /\ UNCHANGED <<up, memVars, rpc, req, snap, diskVars, toldVars, bounds>>

\* The request is answered, with a result or with an error, if anyone waits.
Reply == rpc' = "idle" /\ req' = None /\ here' = FALSE

\* A client was told that the configuration of a is c, or nobody was told anything.
Succeeded(a, c) ==
    /\ acked' = [acked EXCEPT ![a] = IF here THEN c ELSE Unknown]
    /\ failed' = [failed EXCEPT ![a] = "no"]
    /\ undeleted' = undeleted \ {a}

\* An OSError ends the request ("Unknown error"): nobody knows what is in force.
DiskError(a) ==
    /\ errors < MaxErrors
    /\ errors' = errors + 1
    /\ acked' = [acked EXCEPT ![a] = Unknown]
    /\ failed' = [failed EXCEPT ![a] = "unsaved"]
    /\ UNCHANGED undeleted

-----------------------------------------------------------------------------
(***************************************************************************)
(* create_school_authority().  OutQueue.from_school_authority() makes the  *)
(* directories, which raises NotADirectoryError if out_queues/a is a file. *)
(***************************************************************************)
Create(a, c) ==
    /\ Receive([name |-> a, doc |-> None], "open")
    /\ a \notin queues
    /\ outDir[a] # "file"
    /\ outDir' = [outDir EXCEPT ![a] = "dir"]
    /\ queues' = queues \cup {a}
    /\ conf' = [conf EXCEPT ![a] = c]
    /\ UNCHANGED <<up, task, handler, mapping, snap, disk, mapFile, toldVars, bounds>>

\* save_school_authority(): open(path, "w") empties the file ...
OpenConfigFile ==
    /\ rpc = "open"
    /\ disk' = [disk EXCEPT ![req.name] = Truncated]
    /\ rpc' = "write"
    /\ UNCHANGED <<up, memVars, req, here, snap, mapFile, outDir, toldVars, bounds>>

\* A defect of WriteConfigFile: the task of a patched queue is not started again.
WriteConfigFileOnly ==
    LET a == req.name IN
    /\ rpc = "write"
    /\ disk' = [disk EXCEPT ![a] = conf[a]]
    /\ task' = [task EXCEPT ![a] = req.doc = None /\ conf[a].active]
    /\ Succeeded(a, conf[a])
    /\ Reply
    /\ UNCHANGED <<up, queues, conf, handler, mapping, snap, mapFile, outDir, ackedMap, bounds>>

\* ... it is written, start_out_queue_task() starts the scan of an active queue.
WriteConfigFile ==
    LET a == req.name IN
    /\ rpc = "write"
    /\ disk' = [disk EXCEPT ![a] = conf[a]]
    /\ task' = [task EXCEPT ![a] = conf[a].active]
    /\ Succeeded(a, conf[a])
    /\ Reply
    /\ UNCHANGED <<up, queues, conf, handler, mapping, snap, mapFile, outDir, ackedMap, bounds>>

(***************************************************************************)
(* open() or write() raises: the queue has been listed, or changed, and    *)
(* its task is not started; the file is as it was, or unreadable.          *)
(***************************************************************************)
SaveFails ==
    /\ rpc \in {"open", "write"}
    /\ DiskError(req.name)
    /\ Reply
    /\ UNCHANGED <<up, memVars, snap, diskVars, ackedMap, kills>>

\* A defect of Delete: the queue is still in the list while it is deleted.
DeleteListed(a) ==
    /\ Receive([name |-> a, doc |-> None], "stop_delete")
    /\ a \in queues
    /\ UNCHANGED <<up, memVars, snap, diskVars, toldVars, bounds>>

\* delete_school_authority(): the queue leaves the list, then its task is stopped.
Delete(a) ==
    /\ Receive([name |-> a, doc |-> None], "stop_delete")
    /\ a \in queues
    /\ queues' = queues \ {a}
    /\ UNCHANGED <<up, conf, task, handler, mapping, snap, diskVars, toldVars, bounds>>

\* A defect of DeleteQueue: the task is not stopped.
DeleteQueueOnly ==
    /\ rpc = "stop_delete"
    /\ outDir' = [outDir EXCEPT ![req.name] = "absent"]
    /\ rpc' = "unlink"
    /\ UNCHANGED <<up, memVars, req, here, snap, disk, mapFile, toldVars, bounds>>

\* delete_queue(): the directory is moved to out_queues_trash.
DeleteQueue ==
    /\ rpc = "stop_delete"
    /\ task' = [task EXCEPT ![req.name] = FALSE]
    /\ outDir' = [outDir EXCEPT ![req.name] = "absent"]
    /\ rpc' = "unlink"
    /\ UNCHANGED <<up, queues, conf, handler, mapping, req, here, snap, disk, mapFile,
                   toldVars, bounds>>

(***************************************************************************)
(* mkdir() or shutil.move() raises, with the queue unlisted and its task   *)
(* stopped: directory and file stay, the next start lists the queue again. *)
(***************************************************************************)
DeleteQueueFails ==
    LET a == req.name IN
    /\ rpc = "stop_delete"
    /\ task' = [task EXCEPT ![a] = FALSE]
    /\ conf' = [conf EXCEPT ![a] = None]
    /\ DiskError(a)
    /\ Reply
    /\ UNCHANGED <<up, queues, handler, mapping, snap, diskVars, ackedMap, kills>>

(***************************************************************************)
(* EvictHandler(a) is handler after "del plugin._per_s_a_handlers[key]".   *)
(* The plugin that get_plugin() returns, KelvinHandler, has such a dict,   *)
(* but the handlers are in those of its user_handler and                   *)
(* school_class_handler: the deletion misses them.                         *)
(***************************************************************************)
EvictHandler(a) == handler

\* A defect of UnlinkConfigFile: the file stays.
KeepConfigFile ==
    /\ rpc = "unlink"
    /\ conf' = [conf EXCEPT ![req.name] = None]
    /\ handler' = EvictHandler(req.name)
    /\ Succeeded(req.name, None)
    /\ Reply
    /\ UNCHANGED <<up, queues, task, mapping, snap, diskVars, ackedMap, bounds>>

\* ConfigurationStorage.delete_school_authority() and the end of the request.
UnlinkConfigFile ==
    /\ rpc = "unlink"
    /\ disk' = [disk EXCEPT ![req.name] = None]
    /\ conf' = [conf EXCEPT ![req.name] = None]
    /\ handler' = EvictHandler(req.name)
    /\ Succeeded(req.name, None)
    /\ Reply
    /\ UNCHANGED <<up, queues, task, mapping, snap, mapFile, outDir, ackedMap, bounds>>

(***************************************************************************)
(* unlink() raises: that is only logged, the file stays, and the client is *)
(* told that the configuration was deleted.                                *)
(***************************************************************************)
UnlinkFails ==
    LET a == req.name IN
    /\ rpc = "unlink"
    /\ disk[a] # None
    /\ errors < MaxErrors
    /\ errors' = errors + 1
    /\ conf' = [conf EXCEPT ![a] = None]
    /\ handler' = EvictHandler(a)
    /\ acked' = [acked EXCEPT ![a] = IF here THEN None ELSE Unknown]
    /\ failed' = [failed EXCEPT ![a] = "unsaved"]
    /\ undeleted' = undeleted \cup {a}
    /\ Reply
    /\ UNCHANGED <<up, queues, task, mapping, snap, diskVars, ackedMap, kills>>

\* patch_school_authority(): the task of the queue is stopped first.
Patch(a, doc) ==
    /\ Receive([name |-> a, doc |-> doc], "stop_patch")
    /\ a \in queues
    /\ UNCHANGED <<up, memVars, snap, diskVars, toldVars, bounds>>

\* A defect of Updatable: a missing plugin_configs overwrites the present one.
AlwaysUpdatable(doc) == TRUE

(***************************************************************************)
(* recursive_dict_update() of the queue's configuration c with the PATCH   *)
(* document.  A key that the document lacks is None in its dict(): that    *)
(* leaves active as it is, but it does not get past plugin_configs, a      *)
(* dict that cannot be updated from a non-dict (ValueError).               *)
(***************************************************************************)
Updatable(doc) == doc.plugin_configs # Unset
Updated(c, doc) ==
    [active |-> IF doc.active = Unset THEN c.active ELSE doc.active,
     plugin_configs |-> doc.plugin_configs]

\* The configuration is replaced if the update and its validation succeed.
ApplyPatch ==
    LET a == req.name
        new == Updated(conf[a], req.doc)
    IN
    /\ rpc = "stop_patch"
    /\ Updatable(req.doc) /\ new.plugin_configs # Invalid
    /\ task' = [task EXCEPT ![a] = FALSE]
    /\ conf' = [conf EXCEPT ![a] = new]
    /\ handler' = EvictHandler(a)
    /\ rpc' = "open"
    /\ UNCHANGED <<up, queues, mapping, req, here, snap, diskVars, toldVars, bounds>>

\* Otherwise the exception ends the request, with the task already stopped.
RefusePatch ==
    /\ rpc = "stop_patch"
    /\ ~Updatable(req.doc) \/ req.doc.plugin_configs = Invalid
    /\ task' = [task EXCEPT ![req.name] = FALSE]
    /\ handler' = IF Updatable(req.doc) THEN EvictHandler(req.name) ELSE handler
    /\ failed' = [failed EXCEPT ![req.name] = IF @ = "no" THEN "stopped" ELSE @]
    /\ Reply
    /\ UNCHANGED <<up, queues, conf, mapping, snap, diskVars, acked, ackedMap, undeleted,
                   bounds>>

\* put_school_to_authority_mapping(): the file first, then the memory.
PutMapping(m) ==
    /\ Receive([mapping |-> m], "open_mapping")
    /\ UNCHANGED <<up, memVars, snap, diskVars, toldVars, bounds>>

OpenMappingFile ==
    /\ rpc = "open_mapping"
    /\ mapFile' = Truncated
    /\ rpc' = "write_mapping"
    /\ UNCHANGED <<up, memVars, req, here, snap, disk, outDir, toldVars, bounds>>

WriteMappingFile ==
    /\ rpc = "write_mapping"
    /\ mapFile' = req.mapping
    /\ mapping' = req.mapping
    /\ ackedMap' = IF here THEN req.mapping ELSE Unknown
    /\ failed' = [failed EXCEPT !["mapping"] = "no"]
    /\ Reply
    /\ UNCHANGED <<up, queues, conf, task, handler, snap, disk, outDir, acked, undeleted,
                   bounds>>

\* open() or write() raises: the mapping in force is the old one still.
SaveMappingFails ==
    /\ rpc \in {"open_mapping", "write_mapping"}
    /\ errors < MaxErrors
    /\ errors' = errors + 1
    /\ ackedMap' = Unknown
    /\ failed' = [failed EXCEPT !["mapping"] = "unsaved"]
    /\ Reply
    /\ UNCHANGED <<up, memVars, snap, diskVars, acked, undeleted, kills>>

-----------------------------------------------------------------------------
(***************************************************************************)
(* The other tasks.                                                        *)
(***************************************************************************)

\* handler(): the scan of a handles a file with the cached handler of a, if any.
ScanHandles(a) ==
    /\ task[a]
    /\ handler' = [handler EXCEPT ![a] = IF @ = None THEN conf[a].plugin_configs ELSE @]
    /\ UNCHANGED <<up, queues, conf, task, mapping, rpc, req, here, snap, diskVars,
                   toldVars, bounds>>

(***************************************************************************)
(* scan() ends by itself: ordering the files raises for an unreadable one, *)
(* and so does listing the directory if the disk fails (OutQueue has the   *)
(* details).  Nobody watches the task.                                     *)
(***************************************************************************)
ScanEnds(a) ==
    /\ task[a]
    /\ errors < MaxErrors
    /\ errors' = errors + 1
    /\ task' = [task EXCEPT ![a] = FALSE]
    /\ failed' = [failed EXCEPT ![a] = IF @ = "no" THEN "stopped" ELSE @]
    /\ UNCHANGED <<up, queues, conf, handler, mapping, rpc, req, here, snap, diskVars,
                   acked, ackedMap, undeleted, kills>>

\* distribute(): the out queues are looked up once, before the files are loaded ...
DistributeStarts ==
    /\ up
    /\ snap = None
    /\ queues # {}
    /\ snap' = queues
    /\ UNCHANGED <<up, memVars, rpc, req, here, diskVars, toldVars, bounds>>

(***************************************************************************)
(* The authorities a user is to be sent to, by UserDistributionImpl: those *)
(* the user's schools are mapped to, if there is an active configuration   *)
(* among the present out queues.  (All configurations use the plugin       *)
(* kelvin here.)                                                           *)
(***************************************************************************)
Targets == IF \E a \in queues : conf[a].active THEN mapping ELSE {}

\* ... and each loaded user is copied to the paths: into the directory, or to a
\* regular file of that name where the directory is gone.
DistributeCopies ==
    /\ snap # None
    /\ outDir' = [a \in Names |->
                    IF a \in snap \cap Targets /\ outDir[a] = "absent" THEN "file"
                    ELSE outDir[a]]
    /\ UNCHANGED <<up, memVars, rpc, req, here, snap, disk, mapFile, toldVars, bounds>>

\* distribute() is through with its list of files.
DistributeEnds ==
    /\ snap # None
    /\ snap' = None
    /\ UNCHANGED <<up, memVars, rpc, req, here, diskVars, toldVars, bounds>>

\* The request being carried out is about the configuration of a / the mapping.
Concerns(a)     == req # None /\ "name" \in DOMAIN req /\ req.name = a
ConcernsMapping == req # None /\ "mapping" \in DOMAIN req

\* The service is killed; a client that waits for an answer gets none.
Kill ==
    /\ up
    /\ kills < MaxKills
    /\ kills' = kills + 1
    /\ up' = FALSE
    /\ queues' = {}
    /\ conf' = [a \in Names |-> None]
    /\ task' = [a \in Names |-> FALSE]
    /\ handler' = [a \in Names |-> None]
    /\ mapping' = {}
    /\ snap' = None
    /\ Reply
    /\ acked' = [a \in Names |-> IF Concerns(a) THEN Unknown ELSE acked[a]]
    /\ ackedMap' = IF ConcernsMapping THEN Unknown ELSE ackedMap
    /\ failed' = [x \in Names \cup {"mapping"} |-> "no"]
    /\ UNCHANGED <<diskVars, undeleted, errors>>

\* What the start of the service needs to be able to read.
Loadable == \A a \in Names : disk[a] # Truncated

\* load_school2target_mapping(); a mapping file that does not exist is an empty mapping.
MappingLoadable == mapFile # Truncated

\* manage_queues(); a path that is not a directory makes OutQueue() raise.
Start ==
    LET configured == {a \in Names : disk[a] # None} IN
    /\ ~up
    /\ MappingLoadable
    /\ Loadable
    /\ \A a \in configured : outDir[a] # "file"
    /\ up' = TRUE
    /\ mapping' = mapFile
    /\ queues' = configured
    /\ conf' = disk
    /\ outDir' = [a \in Names |-> IF a \in configured THEN "dir" ELSE outDir[a]]
    /\ task' = [a \in Names |-> a \in configured /\ disk[a].active]
    /\ UNCHANGED <<handler, rpc, req, here, snap, disk, mapFile, toldVars, bounds>>

-----------------------------------------------------------------------------
RPCStep ==
    \/ OpenConfigFile \/ WriteConfigFile
    \/ DeleteQueue \/ UnlinkConfigFile
    \/ ApplyPatch \/ RefusePatch
    \/ OpenMappingFile \/ WriteMappingFile

RPCFails ==
    \/ SaveFails \/ SaveMappingFails
    \/ DeleteQueueFails \/ UnlinkFails

Request ==
    \/ \E a \in Names, c \in Config : Create(a, c)
    \/ \E a \in Names : Delete(a)
    \/ \E a \in Names, doc \in PatchDocs : Patch(a, doc)
    \/ \E m \in Mappings : PutMapping(m)

Next ==
    \/ Request
    \/ RPCStep
    \/ RPCFails
    \/ GiveUp
    \/ \E a \in Names : ScanHandles(a) \/ ScanEnds(a)
    \/ DistributeStarts
    \/ DistributeCopies
    \/ DistributeEnds
    \/ Kill
    \/ Start

Spec == Init /\ [][Next]_vars

-----------------------------------------------------------------------------
(***************************************************************************)
(* Properties.                                                             *)
(***************************************************************************)
(***************************************************************************)
(* What a client was told holds, in memory and on disk, until somebody     *)
(* changes it: the configuration that the last request left for a name,    *)
(* and the mapping, are the ones the service uses and the ones it will     *)
(* load after it was killed, at whatever moment.  Requests that fail       *)
(* change nothing.  (Nothing was told if the client had given up, if the   *)
(* service was killed, or if a disk error ended the request.)  One promise *)
(* is not kept: a client is told of a deletion although unlink() has       *)
(* failed; the configuration is gone then, but from the next start on it   *)
(* is in force again as the file has it.                                   *)
(***************************************************************************)
AcknowledgedConfigStays ==
    /\ \A a \in Names :
        acked[a] # Unknown /\ ~Concerns(a) =>
            /\ disk[a] = acked[a] \/ (a \in undeleted /\ acked[a] = None)
            /\ up => /\ conf[a] = acked[a] \/ (a \in undeleted /\ conf[a] = disk[a])
                     /\ a \in queues <=> conf[a] # None
    /\ ackedMap # Unknown /\ ~ConcernsMapping =>
            /\ mapFile = ackedMap
            /\ up => mapping = ackedMap

(***************************************************************************)
(* A restart between two requests changes nothing: the configurations and  *)
(* the mapping in force are those in the files, also after requests whose  *)
(* clients had given up and were told of a failure.  Only a disk error may *)
(* part the two, until a request about the same name succeeds.             *)
(***************************************************************************)
RestartKeepsConfig ==
    up => /\ \A a \in Names :
                failed[a] # "unsaved" /\ ~Concerns(a)
                  => disk[a] = conf[a] /\ (a \in queues <=> conf[a] # None)
          /\ failed["mapping"] = "no" /\ ~ConcernsMapping => mapFile = mapping

(***************************************************************************)
(* Nothing is sent for a school authority that was deleted or deactivated: *)
(* outside of a request about it, a scan runs only for a queue in the list *)
(* whose configuration is active.                                          *)
(***************************************************************************)
ScansOnlyForActive ==
    \A a \in Names : task[a] /\ ~Concerns(a) => a \in queues /\ conf[a].active

(***************************************************************************)
(* An active configuration is served: outside of a request about it, the   *)
(* out queue of an active school authority has its scan running.  ("active *)
(* - set to true to activate the configuration for an out queue")          *)
(***************************************************************************)
ActiveIsScanned ==
    \A a \in queues : conf[a].active /\ ~Concerns(a) => task[a]

(***************************************************************************)
(* The same, but for the failures that nobody repairs: a start and every   *)
(* request that succeeds leave an active configuration with its scan       *)
(* running, also after failures, after a kill and for a client that gave   *)
(* up; from then on only a request that fails, or the scan itself on an    *)
(* unreadable file, ends the scan.                                         *)
(***************************************************************************)
ScannedUnlessFailed ==
    \A a \in queues : conf[a].active /\ failed[a] = "no" /\ ~Concerns(a) => task[a]

(***************************************************************************)
(* A changed or re-created configuration takes effect without a restart:   *)
(* the handlers that a running scan uses were made from the configuration  *)
(* in force.                                                               *)
(***************************************************************************)
HandlersAreCurrent ==
    \A a \in queues :
        task[a] /\ handler[a] # None => handler[a] = conf[a].plugin_configs

(***************************************************************************)
(* An out queue in the list has its directory, whatever was deleted,       *)
(* created again or copied meanwhile: distribute() copies the files of a   *)
(* listed queue into a directory, and scan() can read it.  (For a queue    *)
(* that has left the list, distribute() may make a regular file of the     *)
(* name of the directory; create_school_authority() then fails.)           *)
(***************************************************************************)
ListedHaveDirectories == \A a \in queues : outDir[a] = "dir"
=============================================================================
