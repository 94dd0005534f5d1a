---------------------- MODULE SchoolAuthoritiesProofs ----------------------
(***************************************************************************)
(* Proofs about SchoolAuthorities, for any number of school authorities,   *)
(* configurations, kills, disk errors and scans that end by themselves.    *)
(*                                                                         *)
(* What clients are promised speaks of the time between two requests about *)
(* a name.  The invariant below adds what holds inside of a request: where *)
(* the server is in it, whether its queue is listed and scanned            *)
(* (InProgress), and that a PATCH has changed nothing as long as it may    *)
(* still be refused (MemoryIsOnDisk, ToldIsKept).                          *)
(***************************************************************************)
EXTENDS SchoolAuthorities, TLAPS

\* What the place in a request says about the request and about its queue.
InProgress ==
    /\ rpc = "idle" <=> req = None
    /\ rpc # "idle" => up
    /\ rpc \in {"open_mapping", "write_mapping"} => req \in MappingRequest
    /\ rpc \in {"stop_delete", "unlink", "stop_patch", "open", "write"} =>
           req \in ConfigRequest
    /\ rpc = "stop_patch" => req.doc \in PatchDoc
    /\ rpc \in {"stop_patch", "open", "write"} => req.name \in queues
    /\ rpc \in {"stop_delete", "unlink"} => req.name \notin queues
    /\ rpc \in {"unlink", "open", "write"} => ~task[req.name]

\* A queue in the list has a configuration, others none unless they are being deleted.
ListedIsConfigured ==
    \A a \in Names :
        /\ a \in queues => conf[a] \in Config
        /\ conf[a] # None /\ a \notin queues => rpc \in {"stop_delete", "unlink"} /\ req.name = a
        /\ task[a] => conf[a] \in Config

\* Nothing about a was changed by the request being carried out, if any.
Untouched(a) == ~Concerns(a) \/ rpc = "stop_patch"

\* Memory and disk agree on a, unless the disk has failed.
MemoryIsOnDisk ==
    up => /\ \A a \in Names : failed[a] # "unsaved" /\ Untouched(a) => disk[a] = conf[a]
          /\ failed["mapping"] = "no" /\ ~ConcernsMapping => mapFile = mapping

\* What clients were told of a is on disk and, while the service is up, in memory,
\* but for a deletion that left the file: a is gone, or is again what the file has.
ToldIsKept ==
    /\ \A a \in Names :
        acked[a] # Unknown /\ Untouched(a) =>
            \/ disk[a] = acked[a] /\ (up => conf[a] = acked[a])
            \/ /\ a \in undeleted /\ acked[a] = None
               /\ up => conf[a] \in {None, disk[a]}
    /\ ackedMap # Unknown /\ ~ConcernsMapping =>
            mapFile = ackedMap /\ (up => mapping = ackedMap)

Inv ==
    /\ TypeOK
    /\ InProgress
    /\ ListedIsConfigured
    /\ ScansOnlyForActive
    /\ ScannedUnlessFailed
    /\ ListedHaveDirectories
    /\ MemoryIsOnDisk
    /\ ToldIsKept
-----------------------------------------------------------------------------

\* Before the first start there are no queues, files or promises.
LEMMA InvInit == Init => Inv
<1> SUFFICES ASSUME Init PROVE Inv
  OBVIOUS
<1>1. kills \in 0..MaxKills /\ errors \in 0..MaxErrors
  BY BoundsAssumption DEF Init
<1>2. TypeOK
  BY <1>1 DEF Init, TypeOK, ConfigOrNone
<1> QED
  BY <1>2
  DEF Init, Inv, InProgress, ListedIsConfigured, ScansOnlyForActive,
      ScannedUnlessFailed, ListedHaveDirectories, MemoryIsOnDisk, ToldIsKept

(***************************************************************************)
(* The inductive step.  A request takes a name out of Untouched when it is *)
(* received, or for a PATCH when it is applied, and gives it back by       *)
(* Reply: the steps that matter are those that reply, with memory and disk *)
(* equal (WriteConfigFile, UnlinkConfigFile), nothing changed              *)
(* (RefusePatch) or the failure on record (the ...Fails actions and Kill), *)
(* and Start, which makes memory and disk equal for all.                   *)
(***************************************************************************)
LEMMA InvStep == Inv /\ [Next]_vars => Inv'
<1> SUFFICES ASSUME Inv, [Next]_vars PROVE Inv'
  OBVIOUS
<1> USE NoneAssumption, NamesAssumption, MappingsAssumption, PatchDocsAssumption,
        BoundsAssumption
    DEF TypeOK, memVars, diskVars, toldVars, bounds, ConfigOrNone,
        Untouched, Concerns, ConcernsMapping
<1>1. CASE \E a \in Names, c \in Config : Create(a, c)
  BY <1>1
  DEF Create, Receive, Inv, InProgress, ListedIsConfigured, ScansOnlyForActive,
      ScannedUnlessFailed, ListedHaveDirectories, MemoryIsOnDisk, ToldIsKept, Config,
      ConfigRequest
<1>2. CASE OpenConfigFile
  BY <1>2
  DEF OpenConfigFile, Inv, InProgress, ListedIsConfigured, ScansOnlyForActive,
      ScannedUnlessFailed, ListedHaveDirectories, MemoryIsOnDisk, ToldIsKept,
      ConfigRequest
<1>3. CASE WriteConfigFile
  <2>1. TypeOK'
    BY <1>3
    DEF WriteConfigFile, Reply, Succeeded, Inv, InProgress, ListedIsConfigured,
        Config, ConfigRequest
  <2>2. InProgress' /\ ListedIsConfigured'
    BY <1>3
    DEF WriteConfigFile, Reply, Succeeded, Inv, InProgress, ListedIsConfigured,
        Config, ConfigRequest
  <2>3. ScansOnlyForActive' /\ ScannedUnlessFailed'
    BY <1>3
    DEF WriteConfigFile, Reply, Succeeded, Inv, InProgress, ListedIsConfigured,
        ScansOnlyForActive, ScannedUnlessFailed, Config, ConfigRequest
  <2>4. ListedHaveDirectories'
    BY <1>3
    DEF WriteConfigFile, Reply, Succeeded, Inv, InProgress, ListedHaveDirectories,
        Config, ConfigRequest
  <2>5. MemoryIsOnDisk'
    BY <1>3
    DEF WriteConfigFile, Reply, Succeeded, Inv, InProgress, ListedIsConfigured,
        MemoryIsOnDisk, Config, ConfigRequest
  <2>6. ToldIsKept'
    BY <1>3
    DEF WriteConfigFile, Reply, Succeeded, Inv, InProgress, ListedIsConfigured,
        ToldIsKept, Config, ConfigRequest
  <2> QED
    BY <2>1, <2>2, <2>3, <2>4, <2>5, <2>6 DEF Inv
<1>4. CASE SaveFails
  <2>1. errors' \in 0..MaxErrors
    BY <1>4 DEF SaveFails, DiskError, Inv
  <2>2. TypeOK'
    BY <1>4, <2>1
    DEF SaveFails, Reply, DiskError, Inv, InProgress, ListedIsConfigured,
        ConfigRequest
  <2>3. InProgress' /\ ListedIsConfigured'
    BY <1>4
    DEF SaveFails, Reply, DiskError, Inv, InProgress, ListedIsConfigured,
        ConfigRequest
  <2>4. ScansOnlyForActive' /\ ScannedUnlessFailed'
    BY <1>4
    DEF SaveFails, Reply, DiskError, Inv, InProgress, ListedIsConfigured,
        ScansOnlyForActive, ScannedUnlessFailed, ConfigRequest
  <2>5. ListedHaveDirectories'
    BY <1>4
    DEF SaveFails, Reply, DiskError, Inv, InProgress, ListedHaveDirectories,
        ConfigRequest
  <2>6. MemoryIsOnDisk'
    BY <1>4
    DEF SaveFails, Reply, DiskError, Inv, InProgress, ListedIsConfigured,
        MemoryIsOnDisk, ConfigRequest
  <2>7. ToldIsKept'
    BY <1>4
    DEF SaveFails, Reply, DiskError, Inv, InProgress, ListedIsConfigured,
        ToldIsKept, ConfigRequest
  <2> QED
    BY <2>2, <2>3, <2>4, <2>5, <2>6, <2>7 DEF Inv
<1>5. CASE \E a \in Names : Delete(a)
  BY <1>5
  DEF Delete, Receive, Inv, InProgress, ListedIsConfigured, ScansOnlyForActive,
      ScannedUnlessFailed, ListedHaveDirectories, MemoryIsOnDisk, ToldIsKept,
      ConfigRequest
<1>6. CASE DeleteQueue
  BY <1>6
  DEF DeleteQueue, Inv, InProgress, ListedIsConfigured, ScansOnlyForActive,
      ScannedUnlessFailed, ListedHaveDirectories, MemoryIsOnDisk, ToldIsKept,
      ConfigRequest
<1>7. CASE DeleteQueueFails
  <2>1. errors' \in 0..MaxErrors
    BY <1>7 DEF DeleteQueueFails, DiskError, Inv
  <2>2. TypeOK'
    BY <1>7, <2>1
    DEF DeleteQueueFails, Reply, DiskError, Inv, InProgress, ListedIsConfigured,
        ConfigRequest
  <2>3. InProgress' /\ ListedIsConfigured'
    BY <1>7
    DEF DeleteQueueFails, Reply, DiskError, Inv, InProgress, ListedIsConfigured,
        ConfigRequest
  <2>4. ScansOnlyForActive' /\ ScannedUnlessFailed'
    BY <1>7
    DEF DeleteQueueFails, Reply, DiskError, Inv, InProgress, ListedIsConfigured,
        ScansOnlyForActive, ScannedUnlessFailed, ConfigRequest
  <2>5. ListedHaveDirectories'
    BY <1>7
    DEF DeleteQueueFails, Reply, DiskError, Inv, InProgress, ListedHaveDirectories,
        ConfigRequest
  <2>6. MemoryIsOnDisk'
    BY <1>7
    DEF DeleteQueueFails, Reply, DiskError, Inv, InProgress, ListedIsConfigured,
        MemoryIsOnDisk, ConfigRequest
  <2>7. ToldIsKept'
    BY <1>7
    DEF DeleteQueueFails, Reply, DiskError, Inv, InProgress, ListedIsConfigured,
        ToldIsKept, ConfigRequest
  <2> QED
    BY <2>2, <2>3, <2>4, <2>5, <2>6, <2>7 DEF Inv
<1>8. CASE UnlinkConfigFile
  <2>1. TypeOK'
    BY <1>8
    DEF UnlinkConfigFile, Reply, Succeeded, EvictHandler, Inv, InProgress,
        ListedIsConfigured, ConfigRequest
  <2>2. InProgress' /\ ListedIsConfigured'
    BY <1>8
    DEF UnlinkConfigFile, Reply, Succeeded, EvictHandler, Inv, InProgress,
        ListedIsConfigured, ConfigRequest
  <2>3. ScansOnlyForActive' /\ ScannedUnlessFailed'
    BY <1>8
    DEF UnlinkConfigFile, Reply, Succeeded, EvictHandler, Inv, InProgress,
        ListedIsConfigured, ScansOnlyForActive, ScannedUnlessFailed, ConfigRequest
  <2>4. ListedHaveDirectories'
    BY <1>8
    DEF UnlinkConfigFile, Reply, Succeeded, EvictHandler, Inv, InProgress,
        ListedHaveDirectories, ConfigRequest
  <2>5. MemoryIsOnDisk'
    BY <1>8
    DEF UnlinkConfigFile, Reply, Succeeded, EvictHandler, Inv, InProgress,
        ListedIsConfigured, MemoryIsOnDisk, ConfigRequest
  <2>6. ToldIsKept'
    BY <1>8
    DEF UnlinkConfigFile, Reply, Succeeded, EvictHandler, Inv, InProgress,
        ListedIsConfigured, ToldIsKept, ConfigRequest
  <2> QED
    BY <2>1, <2>2, <2>3, <2>4, <2>5, <2>6 DEF Inv
<1>9. CASE UnlinkFails
  <2>1. errors' \in 0..MaxErrors
    BY <1>9 DEF UnlinkFails, Inv
  <2>2. TypeOK'
    BY <1>9, <2>1
    DEF UnlinkFails, Reply, EvictHandler, Inv, InProgress,
        ListedIsConfigured, ConfigRequest
  <2>3. InProgress' /\ ListedIsConfigured'
    BY <1>9
    DEF UnlinkFails, Reply, EvictHandler, Inv, InProgress,
        ListedIsConfigured, ConfigRequest
  <2>4. ScansOnlyForActive' /\ ScannedUnlessFailed'
    BY <1>9
    DEF UnlinkFails, Reply, EvictHandler, Inv, InProgress,
        ListedIsConfigured, ScansOnlyForActive, ScannedUnlessFailed, ConfigRequest
  <2>5. ListedHaveDirectories'
    BY <1>9
    DEF UnlinkFails, Reply, EvictHandler, Inv, InProgress,
        ListedHaveDirectories, ConfigRequest
  <2>6. MemoryIsOnDisk'
    BY <1>9
    DEF UnlinkFails, Reply, EvictHandler, Inv, InProgress,
        ListedIsConfigured, MemoryIsOnDisk, ConfigRequest
  <2>7. ToldIsKept'
    BY <1>9
    DEF UnlinkFails, Reply, EvictHandler, Inv, InProgress,
        ListedIsConfigured, ToldIsKept, ConfigRequest
  <2> QED
    BY <2>2, <2>3, <2>4, <2>5, <2>6, <2>7 DEF Inv
<1>10. CASE \E a \in Names, doc \in PatchDocs : Patch(a, doc)
  BY <1>10
  DEF Patch, Receive, Inv, InProgress, ListedIsConfigured, ScansOnlyForActive,
      ScannedUnlessFailed, ListedHaveDirectories, MemoryIsOnDisk, ToldIsKept,
      ConfigRequest
<1>11. CASE ApplyPatch
  BY <1>11
  DEF ApplyPatch, Updatable, Updated, EvictHandler, Inv, InProgress,
      ListedIsConfigured, ScansOnlyForActive, ScannedUnlessFailed,
      ListedHaveDirectories, MemoryIsOnDisk, ToldIsKept, Config, PatchDoc,
      ConfigRequest
<1>12. CASE RefusePatch
  <2>1. TypeOK'
    BY <1>12
    DEF RefusePatch, Updatable, EvictHandler, Reply, Inv, InProgress,
        ListedIsConfigured, ConfigRequest
  <2>2. InProgress' /\ ListedIsConfigured'
    BY <1>12
    DEF RefusePatch, Updatable, EvictHandler, Reply, Inv, InProgress,
        ListedIsConfigured, ConfigRequest
  <2>3. ScansOnlyForActive' /\ ScannedUnlessFailed'
    BY <1>12
    DEF RefusePatch, Updatable, EvictHandler, Reply, Inv, InProgress,
        ListedIsConfigured, ScansOnlyForActive, ScannedUnlessFailed, ConfigRequest
  <2>4. ListedHaveDirectories'
    BY <1>12
    DEF RefusePatch, Updatable, EvictHandler, Reply, Inv, InProgress,
        ListedHaveDirectories, ConfigRequest
  <2>5. MemoryIsOnDisk'
    BY <1>12
    DEF RefusePatch, Updatable, EvictHandler, Reply, Inv, InProgress,
        ListedIsConfigured, MemoryIsOnDisk, ConfigRequest
  <2>6. ToldIsKept'
    BY <1>12
    DEF RefusePatch, Updatable, EvictHandler, Reply, Inv, InProgress,
        ListedIsConfigured, ToldIsKept, ConfigRequest
  <2> QED
    BY <2>1, <2>2, <2>3, <2>4, <2>5, <2>6 DEF Inv
<1>13. CASE \E m \in Mappings : PutMapping(m)
  BY <1>13
  DEF PutMapping, Receive, Inv, InProgress, ListedIsConfigured, ScansOnlyForActive,
      ScannedUnlessFailed, ListedHaveDirectories, MemoryIsOnDisk, ToldIsKept,
      MappingRequest
<1>14. CASE OpenMappingFile
  BY <1>14
  DEF OpenMappingFile, Inv, InProgress, ListedIsConfigured, ScansOnlyForActive,
      ScannedUnlessFailed, ListedHaveDirectories, MemoryIsOnDisk, ToldIsKept,
      MappingRequest
<1>15. CASE WriteMappingFile
  <2>1. TypeOK'
    BY <1>15
    DEF WriteMappingFile, Reply, Inv, InProgress, ListedIsConfigured, MappingRequest
  <2>2. InProgress' /\ ListedIsConfigured'
    BY <1>15
    DEF WriteMappingFile, Reply, Inv, InProgress, ListedIsConfigured, MappingRequest
  <2>3. ScansOnlyForActive' /\ ScannedUnlessFailed'
    BY <1>15
    DEF WriteMappingFile, Reply, Inv, InProgress, ListedIsConfigured,
        ScansOnlyForActive, ScannedUnlessFailed, MappingRequest
  <2>4. ListedHaveDirectories'
    BY <1>15
    DEF WriteMappingFile, Reply, Inv, InProgress, ListedHaveDirectories,
        MappingRequest
  <2>5. MemoryIsOnDisk'
    BY <1>15
    DEF WriteMappingFile, Reply, Inv, InProgress, ListedIsConfigured,
        MemoryIsOnDisk, MappingRequest
  <2>6. ToldIsKept'
    BY <1>15
    DEF WriteMappingFile, Reply, Inv, InProgress, ListedIsConfigured, ToldIsKept,
        MappingRequest
  <2> QED
    BY <2>1, <2>2, <2>3, <2>4, <2>5, <2>6 DEF Inv
<1>16. CASE SaveMappingFails
  <2>1. errors' \in 0..MaxErrors
    BY <1>16 DEF SaveMappingFails, Inv
  <2> QED
    BY <1>16, <2>1
    DEF SaveMappingFails, Reply, Inv, InProgress, ListedIsConfigured,
        ScansOnlyForActive, ScannedUnlessFailed, ListedHaveDirectories,
        MemoryIsOnDisk, ToldIsKept, MappingRequest
<1>17. CASE GiveUp
  <2>1. TypeOK'
    BY <1>17 DEF GiveUp, Inv, InProgress, ListedIsConfigured
  <2>2. InProgress' /\ ListedIsConfigured'
    BY <1>17 DEF GiveUp, Inv, InProgress, ListedIsConfigured
  <2>3. ScansOnlyForActive' /\ ScannedUnlessFailed'
    BY <1>17
    DEF GiveUp, Inv, InProgress, ListedIsConfigured, ScansOnlyForActive,
        ScannedUnlessFailed
  <2>4. ListedHaveDirectories'
    BY <1>17 DEF GiveUp, Inv, InProgress, ListedHaveDirectories
  <2>5. MemoryIsOnDisk'
    BY <1>17 DEF GiveUp, Inv, InProgress, ListedIsConfigured, MemoryIsOnDisk
  <2>6. ToldIsKept'
    BY <1>17 DEF GiveUp, Inv, InProgress, ListedIsConfigured, ToldIsKept
  <2> QED
    BY <2>1, <2>2, <2>3, <2>4, <2>5, <2>6 DEF Inv
<1>18. CASE \E a \in Names : ScanEnds(a)
  <2> SUFFICES ASSUME NEW a \in Names, ScanEnds(a) PROVE Inv'
    BY <1>18
  <2>1. errors' \in 0..MaxErrors
    BY DEF ScanEnds, Inv
  <2>2. TypeOK'
    BY <2>1 DEF ScanEnds, Inv
  <2>3. InProgress' /\ ListedIsConfigured'
    BY DEF ScanEnds, Inv, InProgress, ListedIsConfigured
  <2>4. ScansOnlyForActive' /\ ScannedUnlessFailed'
    BY DEF ScanEnds, Inv, ScansOnlyForActive, ScannedUnlessFailed
  <2>5. ListedHaveDirectories'
    BY DEF ScanEnds, Inv, ListedHaveDirectories
  <2>6. MemoryIsOnDisk'
    BY DEF ScanEnds, Inv, MemoryIsOnDisk
  <2>7. ToldIsKept'
    BY DEF ScanEnds, Inv, ToldIsKept
  <2> QED
    BY <2>2, <2>3, <2>4, <2>5, <2>6, <2>7 DEF Inv
<1>19. CASE \E a \in Names : ScanHandles(a)
  BY <1>19
  DEF ScanHandles, Inv, InProgress, ListedIsConfigured, ScansOnlyForActive,
      ScannedUnlessFailed, ListedHaveDirectories, MemoryIsOnDisk, ToldIsKept, Config
<1>20. CASE DistributeStarts
  BY <1>20
  DEF DistributeStarts, Inv, InProgress, ListedIsConfigured, ScansOnlyForActive,
      ScannedUnlessFailed, ListedHaveDirectories, MemoryIsOnDisk, ToldIsKept
<1>21. CASE DistributeCopies
  BY <1>21
  DEF DistributeCopies, Inv, InProgress, ListedIsConfigured, ScansOnlyForActive,
      ScannedUnlessFailed, ListedHaveDirectories, MemoryIsOnDisk, ToldIsKept
<1>22. CASE DistributeEnds
  BY <1>22
  DEF DistributeEnds, Inv, InProgress, ListedIsConfigured, ScansOnlyForActive,
      ScannedUnlessFailed, ListedHaveDirectories, MemoryIsOnDisk, ToldIsKept
<1>23. CASE Kill
  <2>1. kills' \in 0..MaxKills
    BY <1>23 DEF Kill, Inv
  <2> QED
    BY <1>23, <2>1
    DEF Kill, Reply, Inv, InProgress, ListedIsConfigured, ScansOnlyForActive,
        ScannedUnlessFailed, ListedHaveDirectories, MemoryIsOnDisk, ToldIsKept
<1>24. CASE Start
  <2>1. TypeOK'
    BY <1>24 DEF Start, Loadable, MappingLoadable, Inv, InProgress, ListedIsConfigured
  <2>2. InProgress' /\ ListedIsConfigured'
    BY <1>24 DEF Start, Loadable, MappingLoadable, Inv, InProgress, ListedIsConfigured
  <2>3. ScansOnlyForActive' /\ ScannedUnlessFailed'
    BY <1>24
    DEF Start, Loadable, MappingLoadable, Inv, InProgress, ListedIsConfigured,
        ScansOnlyForActive, ScannedUnlessFailed
  <2>4. ListedHaveDirectories'
    BY <1>24
    DEF Start, Loadable, MappingLoadable, Inv, InProgress, ListedHaveDirectories
  <2>5. MemoryIsOnDisk'
    BY <1>24
    DEF Start, Loadable, MappingLoadable, Inv, InProgress, ListedIsConfigured,
        MemoryIsOnDisk
  <2>6. ToldIsKept'
    BY <1>24
    DEF Start, Loadable, MappingLoadable, Inv, InProgress, ListedIsConfigured,
        ToldIsKept
  <2> QED
    BY <2>1, <2>2, <2>3, <2>4, <2>5, <2>6 DEF Inv
<1>25. CASE UNCHANGED vars
  BY <1>25
  DEF vars, Inv, InProgress, ListedIsConfigured, ScansOnlyForActive,
      ScannedUnlessFailed, ListedHaveDirectories, MemoryIsOnDisk, ToldIsKept
<1> QED
  BY <1>1, <1>2, <1>3, <1>4, <1>5, <1>6, <1>7, <1>8, <1>9, <1>10, <1>11, <1>12, <1>13,
     <1>14, <1>15, <1>16, <1>17, <1>18, <1>19, <1>20, <1>21, <1>22, <1>23, <1>24, <1>25
  DEF Next, Request, RPCStep, RPCFails

\* The invariant holds at every point of every request and of every restart.
LEMMA Inductive == Spec => []Inv
  BY InvInit, InvStep, PTL DEF Spec
-----------------------------------------------------------------------------
(***************************************************************************)
(* The variables keep their types: no request meets a queue without a      *)
(* configuration.                                                          *)
(***************************************************************************)
THEOREM TypeCorrect == Spec => []TypeOK
<1>1. Inv => TypeOK
  BY DEF Inv
<1> QED
  BY <1>1, Inductive, PTL

(***************************************************************************)
(* What a client was told of a configuration or of the mapping holds until *)
(* somebody changes it, across kills, disk errors and other clients'       *)
(* requests, except that a deletion whose unlink() failed lasts only until *)
(* the next start.                                                         *)
(***************************************************************************)
THEOREM AcknowledgedStays == Spec => []AcknowledgedConfigStays
<1>1. Inv => AcknowledgedConfigStays
  <2> SUFFICES ASSUME Inv PROVE AcknowledgedConfigStays
    OBVIOUS
  <2>1. ASSUME NEW a \in Names, up, ~Concerns(a) PROVE a \in queues <=> conf[a] # None
    BY <2>1, NoneAssumption DEF Inv, InProgress, ListedIsConfigured, Concerns, ConfigRequest
  <2> QED
    BY <2>1 DEF Inv, ToldIsKept, Untouched, AcknowledgedConfigStays
<1> QED
  BY <1>1, Inductive, PTL

(***************************************************************************)
(* A restart between two requests changes neither the configurations nor   *)
(* the mapping, unless the disk has failed.                                *)
(***************************************************************************)
THEOREM RestartIsInvisible == Spec => []RestartKeepsConfig
<1>1. Inv => RestartKeepsConfig
  <2> SUFFICES ASSUME Inv PROVE RestartKeepsConfig
    OBVIOUS
  <2>1. ASSUME NEW a \in Names, up, ~Concerns(a) PROVE a \in queues <=> conf[a] # None
    BY <2>1, NoneAssumption DEF Inv, InProgress, ListedIsConfigured, Concerns, ConfigRequest
  <2> QED
    BY <2>1 DEF Inv, MemoryIsOnDisk, Untouched, RestartKeepsConfig
<1> QED
  BY <1>1, Inductive, PTL

\* No scan runs for a school authority that was deleted or deactivated.
THEOREM DeletedIsSilent == Spec => []ScansOnlyForActive
<1>1. Inv => ScansOnlyForActive
  BY DEF Inv
<1> QED
  BY <1>1, Inductive, PTL

\* A request that succeeds, and a start, leave every active configuration scanned, until
\* a request fails or the scan ends by itself.
THEOREM ActiveIsServed == Spec => []ScannedUnlessFailed
<1>1. Inv => ScannedUnlessFailed
  BY DEF Inv
<1> QED
  BY <1>1, Inductive, PTL

\* Listed queues have their directories while a distribution copies into them.
THEOREM DirectoriesExist == Spec => []ListedHaveDirectories
<1>1. Inv => ListedHaveDirectories
  BY DEF Inv
<1> QED
  BY <1>1, Inductive, PTL
=============================================================================
