--------------------------- MODULE InQueueProofs ---------------------------
(***************************************************************************)
(* Proofs about InQueue, for any number of files, crashes, schools, out    *)
(* queues and configurations.                                              *)
(*                                                                         *)
(* None of the safety properties of InQueue is inductive by itself.        *)
(* IndInv adds what the task knows while it runs: which files its list     *)
(* holds (PassInOrder, ListIsReady) and what a distribute() that was       *)
(* killed, or that raised, may have left in the out queues (LeftBehind,    *)
(* PartialIsReady, TakenIsDone).  TellInv, in the second half, is about    *)
(* the old_data and about who is told of what.                             *)
(***************************************************************************)
EXTENDS InQueue, TLAPS

\* The listener's files are the first ones; each holds a listener object.
FilesWritten ==
    \A n \in Names : /\ place[n] = "absent" <=> n > written
                     /\ n <= written => event[n] \in Event

\* During a pass of preprocessing the list holds the oldest raw files.
PassInOrder ==
    pc \in {"preprocess", "ldap", "open", "write", "rename"} =>
        todo \subseteq Raw /\ \A m \in todo, n \in Raw \ todo : m < n

\* distribute() has all the ready files in its list: nothing else makes files ready.
ListIsReady == pc = "copy" => todo = Ready

\* What an out queue has received is not newer than what is still to come.
ReceivedInOrder ==
    \A a \in OutQueues : \A m, n \in Names :
        Received(a, m) /\ place[n] \in {"raw", "ready"} => m <= n

\* Only files that were preprocessed were ever copied.
CopiesPlaced ==
    \A a \in OutQueues, n \in Names :
        Received(a, n) => place[n] \in {"ready", "unlinked", "lost"}

\* What was copied of a file still to be distributed was left behind by a distribute()
\* that was killed or raised, which will be repeated before the scans start.
LeftBehind ==
    \A a \in OutQueues, n \in Names :
        Received(a, n) /\ place[n] = "ready"
            => /\ ~scanning \/ (pc = "dead" /\ n \in failed)
               /\ a \in Consumers(n) /\ Loadable(n)

\* distribute() unlinks a file only after it has completed the copies.
PartialIsReady ==
    \A a \in OutQueues, n \in Names :
        copies[a][n] = "partial" => place[n] \in {"ready", "lost"}

\* A scan takes a file that is still to be distributed only after an error.
TakenIsDone ==
    \A a \in OutQueues : \A n \in taken[a] \ failed :
        place[n] \in {"unlinked", "lost"} /\ copies[a][n] = "none"

IndInv ==
    /\ TypeOK
    /\ FilesWritten
    /\ PassInOrder
    /\ ListIsReady
    /\ ReadyBeforeRaw
    /\ ReceivedInOrder
    /\ CopiesPlaced
    /\ LeftBehind
    /\ PartialIsReady
    /\ TakenIsDone
    /\ UnlinkedOnlyIfCopied
-----------------------------------------------------------------------------

\* The service starts in states of the right types, with an empty in queue.
LEMMA TypeInit == Init => TypeOK
<1> SUFFICES ASSUME Init PROVE TypeOK
  OBVIOUS
<1>1. written \in 0..MaxEvents /\ crashes \in 0..MaxCrashes
  BY BoundsAssumption DEF Init
<1>2. NoData \in OldData
  BY DEF OldData
<1> QED
  BY <1>1, <1>2 DEF Init, TypeOK

\* Every step keeps the variables in their types.
LEMMA TypeStep == IndInv /\ [Next]_vars => TypeOK'
<1> SUFFICES ASSUME IndInv, [Next]_vars PROVE TypeOK'
  OBVIOUS
<1> USE DEF IndInv
<1>1. CASE ListenerWrites
  BY <1>1, InputsAssumption, BoundsAssumption
  DEF ListenerWrites, TypeOK, Names, outVars, taskVars
<1>2. CASE Start
  BY <1>2 DEF Start, TypeOK, fileVars, outVars
<1>3. CASE ListRaw
  BY <1>3 DEF ListRaw, Raw, TypeOK, fileVars, outVars
<1>4. CASE \E n \in Names : DiscardInvalid(n)
  BY <1>4 DEF DiscardInvalid, Discard, TypeOK, outVars
<1>5. CASE \E n \in Names : Preprocess(n)
  <2> PICK n \in Names : Preprocess(n)
    BY <1>5
  <2>1. event[n] \in Event
    BY DEF Preprocess, IsNext, PassInOrder, FilesWritten, Raw, TypeOK, Names
  <2>2. event[n].id \in Users \cup Groups
    BY <2>1 DEF Event
  <2>3. OldDataEntry(event[n]) \in OldData
    BY DEF OldDataEntry, OldData
  <2>4. oldDB' \in [Users \cup Groups -> OldData]
    BY <2>3 DEF Preprocess, OldDBAfter, TypeOK
  <2>5. mem' \in OldData
    BY <2>2 DEF Preprocess, TypeOK
  <2> QED
    BY <2>4, <2>5 DEF Preprocess, TypeOK, fileVars, outVars
<1>6. CASE LdapAnswers
  BY <1>6 DEF LdapAnswers, TypeOK, fileVars, outVars
<1>7. CASE \E n \in Names : OpenForWriting(n)
  BY <1>7 DEF OpenForWriting, TypeOK, outVars
<1>8. CASE \E n \in Names : WriteJSON(n)
  BY <1>8 DEF WriteJSON, TypeOK, outVars
<1>9. CASE \E n \in Names : Rename(n)
  BY <1>9 DEF Rename, TypeOK, outVars, OldData
<1>10. CASE PreprocessingDone
  BY <1>10 DEF PreprocessingDone, TypeOK, fileVars, outVars
<1>11. CASE ListReady
  BY <1>11 DEF ListReady, Ready, TypeOK, fileVars, outVars
<1>12. CASE \E n \in Names : DiscardUnaddressed(n)
  BY <1>12 DEF DiscardUnaddressed, Discard, TypeOK, outVars
<1>13. CASE \E n \in Names : DistributeFile(n)
  BY <1>13 DEF DistributeFile, Copied, TypeOK
<1>14. CASE DistributionDone
  BY <1>14 DEF DistributionDone, TypeOK, fileVars, outVars
<1>15. CASE LdapFails \/ (\E n \in Names : RenameFails(n))
  BY <1>15 DEF LdapFails, RenameFails, TaskRaises, TypeOK, fileVars, outVars, OldData
<1>16. CASE \E n \in Names : SaveFails(n) \/ ReadFails(n)
  BY <1>16 DEF SaveFails, ReadFails, TypeOK, outVars, OldData
<1>17. CASE \E a \in OutQueues, n \in Names : ScanTakes(a, n)
  BY <1>17 DEF ScanTakes, TypeOK, fileVars, taskVars
<1>18. CASE Crash
  <2>1. crashes' \in 0..MaxCrashes
    BY <1>18, BoundsAssumption DEF Crash, Stop, TypeOK
  <2> QED
    BY <1>18, <2>1 DEF Crash, Stop, TypeOK, fileVars, outVars, OldData
<1>19. CASE \E n \in Names : CrashWhileCopying(n)
  <2>1. crashes' \in 0..MaxCrashes
    BY <1>19, BoundsAssumption DEF CrashWhileCopying, Stop, TypeOK
  <2>2. copies' \in [OutQueues -> [Names -> {"none", "whole", "partial"}]]
    BY <1>19 DEF CrashWhileCopying, CutShort, Copied, TypeOK
  <2> QED
    BY <1>19, <2>1, <2>2 DEF CrashWhileCopying, Stop, TypeOK, fileVars, OldData
<1>20. CASE UNCHANGED vars
  BY <1>20 DEF vars, TypeOK
<1>21. CASE \E n \in Names : OldDataFails(n)
  <2> PICK n \in Names : OldDataFails(n)
    BY <1>21
  <2>1. OldDataEntry(event[n]) \in OldData
    BY DEF OldDataEntry, OldData
  <2>2. oldDB' \in [Users \cup Groups -> OldData]
    BY <2>1 DEF OldDataFails, OldDBAfter, TypeOK
  <2> QED
    BY <2>2 DEF OldDataFails, TaskRaises, TypeOK, fileVars, outVars, OldData
<1>22. CASE \E n \in Names : CopyFails(n)
  <2>1. copies' \in [OutQueues -> [Names -> {"none", "whole", "partial"}]]
    BY <1>22 DEF CopyFails, CutShort, Copied, TypeOK
  <2> QED
    BY <1>22, <2>1 DEF CopyFails, TaskRaises, TypeOK, fileVars, OldData
<1> QED
  BY <1>1, <1>2, <1>3, <1>4, <1>5, <1>6, <1>7, <1>8, <1>9, <1>10, <1>11, <1>12,
     <1>13, <1>14, <1>15, <1>16, <1>17, <1>18, <1>19, <1>20, <1>21, <1>22
  DEF Next, TaskStep

\* An empty in queue satisfies the inductive invariant.
LEMMA IndInit == Init => IndInv
<1> SUFFICES ASSUME Init PROVE IndInv
  OBVIOUS
<1>1. TypeOK
  BY TypeInit
<1>2. FilesWritten
  BY BoundsAssumption DEF Init, FilesWritten, Names
<1> QED
  BY <1>1, <1>2
  DEF Init, IndInv, PassInOrder, ListIsReady, ReadyBeforeRaw, ReceivedInOrder,
      CopiesPlaced, LeftBehind, PartialIsReady, TakenIsDone, UnlinkedOnlyIfCopied,
      Raw, Ready, Received

(***************************************************************************)
(* The inductive step.  The actions that matter are ListenerWrites (a new  *)
(* file is newer than all others), Rename (it takes the oldest raw file),  *)
(* DistributeFile, CrashWhileCopying and CopyFails (they copy the oldest   *)
(* ready file, of which only the last of them leaves copies to running     *)
(* scans), ScanTakes and DistributionDone (the scans start when no file is *)
(* ready any more).                                                        *)
(***************************************************************************)
LEMMA IndStep == IndInv /\ [Next]_vars => IndInv'
<1> SUFFICES ASSUME IndInv, [Next]_vars PROVE IndInv'
  OBVIOUS
<1>0. TypeOK /\ TypeOK'
  BY TypeStep DEF IndInv
<1> USE DEF TypeOK, Names, fileVars, outVars, taskVars, Raw, Ready, IsNext, Discard,
            Received, Got, Loadable, Consumers, Targets, Stop, Copied
<1>1. CASE ListenerWrites
  <2> USE DEF ListenerWrites
  <2>1. \A n \in Names : n # written + 1 => place'[n] = place[n] /\ event'[n] = event[n]
    BY <1>0, <1>1
  <2>2. written + 1 \in Names => place'[written + 1] = "raw" /\ event'[written + 1] \in Event
    BY <1>0, <1>1, InputsAssumption
  <2>3. FilesWritten'
    BY <1>0, <1>1, <2>1, <2>2 DEF IndInv, FilesWritten
  <2>4. PassInOrder' /\ ReadyBeforeRaw'
    BY <1>0, <1>1, <2>1, <2>2 DEF IndInv, FilesWritten, PassInOrder, ReadyBeforeRaw
  <2>5. ReceivedInOrder'
    BY <1>0, <1>1, <2>1, <2>2
    DEF IndInv, FilesWritten, ReceivedInOrder, CopiesPlaced, TakenIsDone
  <2> QED
    BY <1>0, <1>1, <2>1, <2>2, <2>3, <2>4, <2>5
    DEF IndInv, FilesWritten, ListIsReady, CopiesPlaced, LeftBehind, PartialIsReady,
        TakenIsDone, UnlinkedOnlyIfCopied
<1>2. CASE Start
  BY <1>0, <1>2
  DEF IndInv, Start, FilesWritten, PassInOrder, ListIsReady, ReadyBeforeRaw,
      ReceivedInOrder, CopiesPlaced, LeftBehind, PartialIsReady, TakenIsDone,
      UnlinkedOnlyIfCopied
<1>3. CASE ListRaw
  BY <1>0, <1>3
  DEF IndInv, ListRaw, FilesWritten, PassInOrder, ListIsReady, ReadyBeforeRaw,
      ReceivedInOrder, CopiesPlaced, LeftBehind, PartialIsReady, TakenIsDone,
      UnlinkedOnlyIfCopied
<1>4. CASE \E n \in Names : DiscardInvalid(n)
  BY <1>0, <1>4
  DEF IndInv, DiscardInvalid, FilesWritten, PassInOrder, ListIsReady, ReadyBeforeRaw,
      ReceivedInOrder, CopiesPlaced, LeftBehind, PartialIsReady, TakenIsDone,
      UnlinkedOnlyIfCopied
<1>5. CASE \E n \in Names : Preprocess(n)
  BY <1>0, <1>5
  DEF IndInv, Preprocess, FilesWritten, PassInOrder, ListIsReady, ReadyBeforeRaw,
      ReceivedInOrder, CopiesPlaced, LeftBehind, PartialIsReady, TakenIsDone,
      UnlinkedOnlyIfCopied
<1>6. CASE LdapAnswers
  BY <1>0, <1>6
  DEF IndInv, LdapAnswers, FilesWritten, PassInOrder, ListIsReady, ReadyBeforeRaw,
      ReceivedInOrder, CopiesPlaced, LeftBehind, PartialIsReady, TakenIsDone,
      UnlinkedOnlyIfCopied
<1>7. CASE \E n \in Names : OpenForWriting(n)
  BY <1>0, <1>7
  DEF IndInv, OpenForWriting, FilesWritten, PassInOrder, ListIsReady, ReadyBeforeRaw,
      ReceivedInOrder, CopiesPlaced, LeftBehind, PartialIsReady, TakenIsDone,
      UnlinkedOnlyIfCopied
<1>8. CASE \E n \in Names : WriteJSON(n)
  BY <1>0, <1>8
  DEF IndInv, WriteJSON, FilesWritten, PassInOrder, ListIsReady, ReadyBeforeRaw,
      ReceivedInOrder, CopiesPlaced, LeftBehind, PartialIsReady, TakenIsDone,
      UnlinkedOnlyIfCopied
<1>9. CASE \E n \in Names : Rename(n)
  <2> PICK n \in Names : Rename(n)
    BY <1>9
  <2> USE DEF Rename
  <2>1. n \in Raw /\ \A m \in Raw \ {n} : n < m
    BY <1>0 DEF IndInv, PassInOrder
  <2>2. ReadyBeforeRaw'
    BY <1>0, <2>1 DEF IndInv, ReadyBeforeRaw
  <2>3. PassInOrder'
    BY <1>0, <2>1 DEF IndInv, PassInOrder
  <2> QED
    BY <1>0, <2>1, <2>2, <2>3
    DEF IndInv, FilesWritten, ListIsReady, ReceivedInOrder, CopiesPlaced, LeftBehind,
        PartialIsReady, TakenIsDone, UnlinkedOnlyIfCopied
<1>10. CASE PreprocessingDone
  BY <1>0, <1>10
  DEF IndInv, PreprocessingDone, FilesWritten, PassInOrder, ListIsReady, ReadyBeforeRaw,
      ReceivedInOrder, CopiesPlaced, LeftBehind, PartialIsReady, TakenIsDone,
      UnlinkedOnlyIfCopied
<1>11. CASE ListReady
  BY <1>0, <1>11
  DEF IndInv, ListReady, FilesWritten, PassInOrder, ListIsReady, ReadyBeforeRaw,
      ReceivedInOrder, CopiesPlaced, LeftBehind, PartialIsReady, TakenIsDone,
      UnlinkedOnlyIfCopied
<1>12. CASE \E n \in Names : DiscardUnaddressed(n)
  BY <1>0, <1>12
  DEF IndInv, DiscardUnaddressed, FilesWritten, PassInOrder, ListIsReady, ReadyBeforeRaw,
      ReceivedInOrder, CopiesPlaced, LeftBehind, PartialIsReady, TakenIsDone,
      UnlinkedOnlyIfCopied
<1>13. CASE \E n \in Names : DistributeFile(n)
  <2> PICK n \in Names : DistributeFile(n)
    BY <1>13
  <2> USE DEF DistributeFile
  <2>1. n \in Ready /\ \A m \in Ready \cup Raw : n <= m
    BY <1>0 DEF IndInv, ListIsReady, ReadyBeforeRaw
  <2>2. \A a \in OutQueues : copies[a][n] # "none" => a \in Consumers(n)
    BY <2>1 DEF IndInv, LeftBehind
  <2>3. \A a \in OutQueues :
          copies'[a][n] = IF a \in Consumers(n) THEN "whole" ELSE copies[a][n]
    BY <1>0
  <2>4. \A a \in OutQueues, m \in Names : m # n => copies'[a][m] = copies[a][m]
    BY <1>0
  <2>5. UnlinkedOnlyIfCopied'
    BY <1>0, <2>3, <2>4 DEF IndInv, UnlinkedOnlyIfCopied
  <2>6. PartialIsReady'
    BY <1>0, <2>2, <2>3, <2>4 DEF IndInv, PartialIsReady
  <2>7. ReceivedInOrder'
    BY <1>0, <2>1, <2>3, <2>4 DEF IndInv, ReceivedInOrder
  <2>8. CopiesPlaced' /\ LeftBehind'
    BY <1>0, <2>3, <2>4 DEF IndInv, CopiesPlaced, LeftBehind
  <2>9. TakenIsDone'
    BY <1>0, <2>1, <2>4 DEF IndInv, TakenIsDone
  <2> QED
    BY <1>0, <2>1, <2>5, <2>6, <2>7, <2>8, <2>9
    DEF IndInv, FilesWritten, PassInOrder, ListIsReady, ReadyBeforeRaw
<1>14. CASE DistributionDone
  BY <1>0, <1>14
  DEF IndInv, DistributionDone, FilesWritten, PassInOrder, ListIsReady, ReadyBeforeRaw,
      ReceivedInOrder, CopiesPlaced, LeftBehind, PartialIsReady, TakenIsDone,
      UnlinkedOnlyIfCopied
<1>15. CASE LdapFails \/ (\E n \in Names : RenameFails(n))
  BY <1>0, <1>15
  DEF IndInv, LdapFails, RenameFails, TaskRaises, FilesWritten, PassInOrder, ListIsReady, ReadyBeforeRaw,
      ReceivedInOrder, CopiesPlaced, LeftBehind, PartialIsReady, TakenIsDone,
      UnlinkedOnlyIfCopied
<1>16. CASE \E n \in Names : SaveFails(n) \/ ReadFails(n)
  BY <1>0, <1>16
  DEF IndInv, SaveFails, ReadFails, FilesWritten, PassInOrder, ListIsReady, ReadyBeforeRaw,
      ReceivedInOrder, CopiesPlaced, LeftBehind, PartialIsReady, TakenIsDone,
      UnlinkedOnlyIfCopied
<1>17. CASE \E a \in OutQueues, n \in Names : ScanTakes(a, n)
  <2> PICK a \in OutQueues, n \in Names : ScanTakes(a, n)
    BY <1>17
  <2> USE DEF ScanTakes
  <2>1. n \notin failed => place[n] \in {"unlinked", "lost"}
    BY DEF IndInv, CopiesPlaced, LeftBehind
  <2>2. \A b \in OutQueues, m \in Names :
          copies'[b][m] = IF b = a /\ m = n THEN "none" ELSE copies[b][m]
    BY <1>0
  <2>3. \A b \in OutQueues : taken'[b] = IF b = a THEN taken[a] \cup {n} ELSE taken[b]
    BY <1>0
  <2>4. \A b \in OutQueues, m \in Names : Received(b, m)' => Received(b, m)
    BY <1>0, <2>2, <2>3
  <2>5. ReceivedInOrder' /\ CopiesPlaced'
    BY <1>0, <2>4 DEF IndInv, ReceivedInOrder, CopiesPlaced
  <2>6. TakenIsDone'
    BY <1>0, <2>1, <2>2, <2>3 DEF IndInv, TakenIsDone
  <2>7. UnlinkedOnlyIfCopied'
    BY <1>0, <2>2, <2>3 DEF IndInv, UnlinkedOnlyIfCopied
  <2>8. LeftBehind'
    <3> SUFFICES ASSUME NEW b \in OutQueues, NEW m \in Names,
                        Received(b, m)', place[m] = "ready"
                 PROVE  /\ ~scanning \/ (pc = "dead" /\ m \in failed)
                        /\ b \in Consumers(m) /\ Loadable(m)
      BY DEF LeftBehind
    <3>1. Received(b, m)
      BY <2>4
    <3> QED
      BY <3>1 DEF IndInv, LeftBehind
  <2> QED
    BY <1>0, <2>2, <2>5, <2>6, <2>7, <2>8
    DEF IndInv, FilesWritten, PassInOrder, ListIsReady, ReadyBeforeRaw, PartialIsReady
<1>18. CASE Crash
  BY <1>0, <1>18
  DEF IndInv, Crash, FilesWritten, PassInOrder, ListIsReady, ReadyBeforeRaw,
      ReceivedInOrder, CopiesPlaced, LeftBehind, PartialIsReady, TakenIsDone,
      UnlinkedOnlyIfCopied
<1>19. CASE \E n \in Names : CrashWhileCopying(n)
  <2> PICK n \in Names : CrashWhileCopying(n)
    BY <1>19
  <2> USE DEF CrashWhileCopying, CutShort
  <2>1. n \in Ready /\ \A m \in Ready \cup Raw : n <= m
    BY <1>0 DEF IndInv, ListIsReady, ReadyBeforeRaw
  <2>2. \A a \in OutQueues : copies'[a][n] # copies[a][n] => a \in Consumers(n)
    BY <1>0
  <2>3. \A a \in OutQueues, m \in Names : m # n => copies'[a][m] = copies[a][m]
    BY <1>0
  <2>4. ReceivedInOrder'
    BY <1>0, <2>1, <2>3 DEF IndInv, ReceivedInOrder
  <2>5. CopiesPlaced' /\ PartialIsReady'
    BY <1>0, <2>1, <2>3 DEF IndInv, CopiesPlaced, PartialIsReady
  <2>6. LeftBehind'
    BY <1>0, <2>1, <2>2, <2>3 DEF IndInv, LeftBehind
  <2>7. TakenIsDone' /\ UnlinkedOnlyIfCopied'
    BY <1>0, <2>1, <2>3 DEF IndInv, TakenIsDone, UnlinkedOnlyIfCopied
  <2> QED
    BY <1>0, <2>4, <2>5, <2>6, <2>7
    DEF IndInv, FilesWritten, PassInOrder, ListIsReady, ReadyBeforeRaw
<1>20. CASE UNCHANGED vars
  BY <1>0, <1>20
  DEF IndInv, vars, FilesWritten, PassInOrder, ListIsReady, ReadyBeforeRaw,
      ReceivedInOrder, CopiesPlaced, LeftBehind, PartialIsReady, TakenIsDone,
      UnlinkedOnlyIfCopied
<1>21. CASE \E n \in Names : OldDataFails(n)
  BY <1>0, <1>21
  DEF IndInv, OldDataFails, TaskRaises, FilesWritten, PassInOrder, ListIsReady, ReadyBeforeRaw,
      ReceivedInOrder, CopiesPlaced, LeftBehind, PartialIsReady, TakenIsDone,
      UnlinkedOnlyIfCopied
<1>22. CASE \E n \in Names : CopyFails(n)
  <2> PICK n \in Names : CopyFails(n)
    BY <1>22
  <2> USE DEF CopyFails, CutShort, TaskRaises
  <2>1. n \in Ready /\ \A m \in Ready \cup Raw : n <= m
    BY <1>0 DEF IndInv, ListIsReady, ReadyBeforeRaw
  <2>2. \A a \in OutQueues : copies'[a][n] # copies[a][n] => a \in Consumers(n)
    BY <1>0
  <2>3. \A a \in OutQueues, m \in Names : m # n => copies'[a][m] = copies[a][m]
    BY <1>0
  <2>4. ReceivedInOrder'
    BY <1>0, <2>1, <2>3 DEF IndInv, ReceivedInOrder
  <2>5. CopiesPlaced' /\ PartialIsReady'
    BY <1>0, <2>1, <2>3 DEF IndInv, CopiesPlaced, PartialIsReady
  <2>6. LeftBehind'
    BY <1>0, <2>1, <2>2, <2>3 DEF IndInv, LeftBehind
  <2>7. TakenIsDone' /\ UnlinkedOnlyIfCopied'
    BY <1>0, <2>1, <2>3 DEF IndInv, TakenIsDone, UnlinkedOnlyIfCopied
  <2> QED
    BY <1>0, <2>4, <2>5, <2>6, <2>7
    DEF IndInv, FilesWritten, PassInOrder, ListIsReady, ReadyBeforeRaw
<1> QED
  BY <1>1, <1>2, <1>3, <1>4, <1>5, <1>6, <1>7, <1>8, <1>9, <1>10, <1>11, <1>12,
     <1>13, <1>14, <1>15, <1>16, <1>17, <1>18, <1>19, <1>20, <1>21, <1>22
  DEF Next, TaskStep

\* What the task, the scans and a killed service leave true at every point.
LEMMA Inductive == Spec => []IndInv
  BY IndInit, IndStep, PTL DEF Spec
-----------------------------------------------------------------------------
(***************************************************************************)
(* The variables of InQueue keep their types: in particular the task never *)
(* looks up the old_data of an object that does not exist.                 *)
(***************************************************************************)
THEOREM TypeCorrect == Spec => []TypeOK
<1>1. IndInv => TypeOK
  BY DEF IndInv
<1> QED
  BY <1>1, Inductive, PTL

(***************************************************************************)
(* distribute_loop() preprocesses the files in the order in which they     *)
(* were written, across passes and restarts.                               *)
(***************************************************************************)
THEOREM PreprocessingInOrder == Spec => []ReadyBeforeRaw
<1>1. IndInv => ReadyBeforeRaw
  BY DEF IndInv
<1> QED
  BY <1>1, Inductive, PTL

(***************************************************************************)
(* However often the service is killed, no file comes back into an out     *)
(* queue once the queue's scan has taken it, unless an error of            *)
(* distribute() had cut the copying of that file short.                    *)
(***************************************************************************)
THEOREM TakenOnce == Spec => []RedeliveredOnlyAfterError
<1>1. IndInv => RedeliveredOnlyAfterError
  BY DEF IndInv, TakenIsDone, RedeliveredOnlyAfterError
<1> QED
  BY <1>1, Inductive, PTL

(***************************************************************************)
(* An incomplete copy in a queue that is scanned is due to an error:       *)
(* either the task has ended and the next start replaces the copy before   *)
(* the scans run, or the file was lost when that was tried.                *)
(***************************************************************************)
THEOREM PartialCopies == Spec => []PartialOnlyAfterError
<1>1. IndInv => PartialOnlyAfterError
  BY DEF IndInv, PartialIsReady, LeftBehind, Received, PartialOnlyAfterError
<1> QED
  BY <1>1, Inductive, PTL

(***************************************************************************)
(* A file that distribute() unlinked is in, or went through, every out     *)
(* queue it was meant for.                                                 *)
(***************************************************************************)
THEOREM UnlinkedWhenCopied == Spec => []UnlinkedOnlyIfCopied
<1>1. IndInv => UnlinkedOnlyIfCopied
  BY DEF IndInv
<1> QED
  BY <1>1, Inductive, PTL

\* The steps that put copies of file n into out queues.
Copies(n) == DistributeFile(n) \/ CrashWhileCopying(n) \/ CopyFails(n)

\* They work on a file of the list, which is still ready.
LEMMA CopiesReady == ASSUME IndInv, NEW n \in Names, Copies(n) PROVE n \in Ready
  BY DEF Copies, DistributeFile, CrashWhileCopying, CopyFails, CutShort, IsNext, IndInv,
         ListIsReady

(***************************************************************************)
(* Every out queue is handed the changes in the order in which the         *)
(* listener reported them, the newest perhaps more than once.              *)
(***************************************************************************)
THEOREM InOrder == Spec => HandOverInOrder
<1> DEFINE Step == \A a \in OutQueues, n \in Names :
                     copies[a][n] = "none" /\ copies'[a][n] # "none"
                       => \A m \in Names : Received(a, m) => m <= n
<1>1. IndInv /\ [Next]_vars => [Step]_vars
  <2> SUFFICES ASSUME IndInv, Next,
                      NEW a \in OutQueues, NEW n \in Names,
                      copies[a][n] = "none", copies'[a][n] # "none",
                      NEW m \in Names, Received(a, m)
               PROVE  m <= n
    BY DEF vars
  <2>1. ASSUME NEW b \in OutQueues, NEW k \in Names, ScanTakes(b, k) PROVE FALSE
    BY <2>1 DEF ScanTakes, IndInv, TypeOK
  <2>2. ASSUME NEW k \in Names, Copies(k) PROVE k = n
    BY <2>2 DEF Copies, DistributeFile, CrashWhileCopying, CopyFails, CutShort, Copied,
                IndInv, TypeOK
  <2>3. \E k \in Names : Copies(k)
    BY <2>1
    DEF Copies, Next, TaskStep, ListenerWrites, Start, ListRaw, DiscardInvalid, Preprocess,
        LdapAnswers, OpenForWriting, WriteJSON, Rename, PreprocessingDone, ListReady,
        DiscardUnaddressed, DistributionDone, LdapFails, OldDataFails, ReadFails, SaveFails,
        RenameFails, Crash, outVars
  <2>4. n \in Ready
    BY <2>2, <2>3, CopiesReady
  <2> QED
    BY <2>4 DEF IndInv, ReceivedInOrder, Ready
<1> QED
  BY <1>1, Inductive, PTL DEF Spec, HandOverInOrder

(***************************************************************************)
(* The in queue implements HandOver: with kills, restarts and errors       *)
(* hidden, each of its steps hands one file to those out queues that do    *)
(* not have it in their directory (DistributeFile and, for some of them,   *)
(* CrashWhileCopying and CopyFails), takes one out of a queue (ScanTakes), *)
(* or changes nothing that an out queue could see.                         *)
(***************************************************************************)
THEOREM RefinesHandOver == Spec => ImplementsHandOver
<1>1. Init => HO!Init
  BY DEF Init, HO!Init, Queued
<1>2. IndInv /\ [Next]_vars => [HO!Next]_(HO!vars)
  <2> SUFFICES ASSUME IndInv, [Next]_vars
               PROVE  HO!Next \/ (copies' = copies /\ taken' = taken)
    BY DEF HO!vars, Queued
  <2>0. /\ copies \in [OutQueues -> [Names -> {"none", "whole", "partial"}]]
        /\ taken \in [OutQueues -> SUBSET Names]
    BY DEF IndInv, TypeOK
  <2> DEFINE Done == [a \in OutQueues |-> taken[a] \ Queued[a]]
  <2>1. ASSUME NEW n \in Names, Copies(n)
        PROVE  HO!Next
    <3>0. PICK S \in SUBSET OutQueues :
             \A a \in OutQueues : a \in S <=> copies[a][n] = "none" /\ copies'[a][n] # "none"
      <4> DEFINE T == {a \in OutQueues : copies[a][n] = "none" /\ copies'[a][n] # "none"}
      <4>1. T \in SUBSET OutQueues
        OBVIOUS
      <4> QED
        BY <4>1
    <3>1. PICK whole, part : copies' = Copied(n, whole, part)
      BY <2>1 DEF Copies, DistributeFile, CrashWhileCopying, CopyFails, CutShort
    <3>2. \A a \in OutQueues, m \in Names : m # n => copies'[a][m] = copies[a][m]
      BY <2>0, <3>1 DEF Copied
    <3>3. \A a \in OutQueues : copies[a][n] # "none" => copies'[a][n] # "none"
      BY <2>0, <3>1 DEF Copied
    <3>4. taken' = taken
      BY <2>1 DEF Copies, DistributeFile, CrashWhileCopying, CopyFails
    <3>5. n \in Ready
      BY <2>1, CopiesReady
    <3>6. ASSUME NEW a \in S PROVE HO!NotOvertaken(a, n)
      <4> SUFFICES ASSUME NEW m \in Queued[a] \cup Done[a] PROVE m <= n
        BY DEF HO!NotOvertaken
      <4>1. m \in Names /\ Received(a, m)
        BY <2>0, <3>0 DEF Queued, Received
      <4> QED
        BY <3>0, <3>5, <4>1 DEF IndInv, ReceivedInOrder, Ready
    <3>7. ASSUME NEW a \in OutQueues
          PROVE  Queued[a]' = IF a \in S THEN Queued[a] \cup {n} ELSE Queued[a]
      <4>1. {m \in Names : copies'[a][m] # "none"}
              = IF a \in S THEN Queued[a] \cup {n} ELSE Queued[a]
        BY <3>0, <3>2, <3>3 DEF Queued
      <4> QED
        BY <4>1 DEF Queued
    <3>8. Queued' = [a \in OutQueues |-> IF a \in S THEN Queued[a] \cup {n} ELSE Queued[a]]
      BY <3>7 DEF Queued
    <3>9. Done' = [a \in OutQueues |-> IF a \in S THEN Done[a] \ {n} ELSE Done[a]]
      BY <3>4, <3>7
    <3>10. HO!Hand(n, S)
      BY <3>6, <3>8, <3>9 DEF HO!Hand
    <3> QED
      BY <3>10 DEF HO!Next
  <2>2. ASSUME NEW a \in OutQueues, NEW n \in Names, ScanTakes(a, n)
        PROVE  HO!Next
    <3>1. n \in Queued[a]
      BY <2>2 DEF ScanTakes, Queued
    <3>2. ASSUME NEW b \in OutQueues
          PROVE  Queued[b]' = IF b = a THEN Queued[a] \ {n} ELSE Queued[b]
      <4>1. {m \in Names : copies'[b][m] # "none"}
              = IF b = a THEN Queued[a] \ {n} ELSE Queued[b]
        BY <2>0, <2>2 DEF ScanTakes, Queued
      <4> QED
        BY <4>1 DEF Queued
    <3>3. Queued' = [Queued EXCEPT ![a] = @ \ {n}]
      BY <3>2 DEF Queued
    <3>4. \A b \in OutQueues : taken'[b] = IF b = a THEN taken[a] \cup {n} ELSE taken[b]
      BY <2>0, <2>2 DEF ScanTakes
    <3>5. Done' = [Done EXCEPT ![a] = @ \cup {n}]
      BY <3>1, <3>2, <3>4
    <3>6. HO!Take(a, n)
      BY <3>1, <3>3, <3>5 DEF HO!Take
    <3> QED
      BY <3>6 DEF HO!Next
  <2>3. CASE UNCHANGED vars
    BY <2>3 DEF vars
  <2> QED
    BY <2>1, <2>2, <2>3
    DEF Copies, Next, TaskStep, ListenerWrites, Start, ListRaw, DiscardInvalid, Preprocess,
        LdapAnswers, OpenForWriting, WriteJSON, Rename, PreprocessingDone, ListReady,
        DiscardUnaddressed, DistributionDone, LdapFails, OldDataFails, ReadFails, SaveFails,
        RenameFails, Crash, outVars
<1> QED
  BY <1>1, <1>2, Inductive, PTL DEF Spec, ImplementsHandOver, HO!Spec
-----------------------------------------------------------------------------
(***************************************************************************)
(* Who is told: the second invariant. It relates the old_data in a file,   *)
(* in the DB and in hand to the changes before the file, and so needs the  *)
(* order in which files are preprocessed and distributed.                  *)
(***************************************************************************)
\* Files leave the in queue oldest first: what was preprocessed is older than what was not ...
PastBeforeRaw ==
    \A m, n \in Names :
        place[m] \notin {"absent", "raw"} /\ place[n] = "raw" => m < n

\* ... and what was distributed is older than what still is to be.
Distributed(n) == place[n] = "unlinked" \/ (place[n] = "trash" /\ Loadable(n))

PastBeforeReady ==
    \A m, n \in Names : Distributed(m) /\ place[n] = "ready" => m < n

\* distribute() discards what it can load only if nobody is to get it.
TrashIsUnaddressed ==
    \A n \in Names : place[n] = "trash" /\ Loadable(n) => Targets(n) = {}

\* Nobody receives what is not meant for them.
ReceivedIsAddressed ==
    \A a \in OutQueues, n \in Names : Received(a, n) => a \in Targets(n)

\* Neither a kill nor an error of reading or saving a file has lost anything so far.
Undisturbed == crashes = 0 /\ \A n \in Names : place[n] # "lost"

InHand(n) == pc \in {"ldap", "open", "write", "rename"} /\ IsNext(n)

\* m is the change of the same user before n that says where the user was.
LastAddMod(m, n) ==
    /\ m < n /\ SameUser(m, n) /\ event[m].op = "add_mod"
    /\ \A k \in Names : m < k /\ k < n /\ event[k].op = "add_mod" => ~SameUser(k, n)

\* The old_data of file n is what the change before it said.
IsOldDataOf(old, n) == \A m \in Names : LastAddMod(m, n) => old = event[m].schools

\* A file is as the listener wrote it until it is in hand.
RawIsUntouched ==
    \A n \in Names :
        /\ place[n] \in {"absent", "raw"} /\ ~InHand(n) /\ pc # "dead" => content[n] = NoData
        /\ InHand(n) => content[n] = CASE pc \in {"ldap", "open"} -> NoData
                                       [] pc = "write" -> Truncated
                                       [] pc = "rename" -> mem

\* preprocess_file() has read the old_data of the file in hand ...
OldDataInHand == \A n \in Names : InHand(n) /\ event[n].type = "user" => IsOldDataOf(mem, n)

\* ... and preprocessed files hold theirs.
OldDataSaved ==
    \A n \in Names :
        place[n] \in {"ready", "trash", "unlinked"} /\ event[n].type = "user"
            => content[n] # Truncated /\ IsOldDataOf(content[n], n)

\* The change was preprocessed, or is in hand and its old_data is replaced in the DB.
Seen(n) == place[n] \in {"ready", "trash", "unlinked"} \/ InHand(n)

\* The DB's entry of a user is what the last change said that was seen.
OldDBIsCurrent ==
    pc # "dead" =>
        \A m \in Names :
            /\ Seen(m) /\ event[m].type = "user" /\ event[m].op = "add_mod"
            /\ \A k \in Names : m < k /\ Seen(k) /\ event[k].op = "add_mod" => ~SameUser(k, m)
            => oldDB[event[m].id] = event[m].schools

\* What holds as long as nothing was lost.
UpInv ==
    /\ RawIsUntouched
    /\ OldDataInHand
    /\ OldDataSaved
    /\ OldDBIsCurrent
    /\ NoAuthorityForgotten

TellInv ==
    /\ PastBeforeRaw
    /\ PastBeforeReady
    /\ TrashIsUnaddressed
    /\ ReceivedIsAddressed
    /\ Undisturbed => UpInv

-----------------------------------------------------------------------------

\* Before the first file nothing is known and nothing is promised.
LEMMA TellInit == Init => TellInv
<1> SUFFICES ASSUME Init PROVE TellInv
  OBVIOUS
<1> QED
  BY DEF Init, TellInv, UpInv, PastBeforeRaw, PastBeforeReady, Distributed, TrashIsUnaddressed,
         ReceivedIsAddressed, Received, RawIsUntouched, InHand, OldDataInHand, OldDataSaved,
         OldDBIsCurrent, Seen, NoAuthorityForgotten, Names

(***************************************************************************)
(* The task takes its files oldest first, from the raw ones and from the   *)
(* ready ones (DiscardInvalid, Rename, SaveFails, DiscardUnaddressed,      *)
(* DistributeFile), and gives a file to nobody it is not meant for.        *)
(***************************************************************************)
LEMMA PastStep ==
    IndInv /\ TellInv /\ [Next]_vars =>
        (PastBeforeRaw /\ PastBeforeReady /\ TrashIsUnaddressed /\ ReceivedIsAddressed)'
<1> SUFFICES ASSUME IndInv, TellInv, [Next]_vars
             PROVE  (PastBeforeRaw /\ PastBeforeReady /\ TrashIsUnaddressed
                       /\ ReceivedIsAddressed)'
  OBVIOUS
<1>0. TypeOK /\ TypeOK'
  BY TypeStep DEF IndInv
<1> USE DEF TypeOK, Names, fileVars, outVars, taskVars, Raw, Ready, IsNext, Discard,
            Received, Loadable, Targets, Stop, Distributed
<1>1. CASE ListenerWrites
  BY <1>0, <1>1
  DEF ListenerWrites, IndInv, FilesWritten, CopiesPlaced, TakenIsDone, TellInv,
      PastBeforeRaw, PastBeforeReady, TrashIsUnaddressed, ReceivedIsAddressed
<1>2. CASE Start
  BY <1>0, <1>2
  DEF Start, TellInv,
      PastBeforeRaw, PastBeforeReady, TrashIsUnaddressed, ReceivedIsAddressed
<1>3. CASE ListRaw
  BY <1>0, <1>3
  DEF ListRaw, TellInv,
      PastBeforeRaw, PastBeforeReady, TrashIsUnaddressed, ReceivedIsAddressed
<1>4. CASE \E n \in Names : DiscardInvalid(n)
  BY <1>0, <1>4
  DEF DiscardInvalid, IndInv, PassInOrder, TellInv,
      PastBeforeRaw, PastBeforeReady, TrashIsUnaddressed, ReceivedIsAddressed
<1>5. CASE \E n \in Names : Preprocess(n)
  BY <1>0, <1>5
  DEF Preprocess, TellInv,
      PastBeforeRaw, PastBeforeReady, TrashIsUnaddressed, ReceivedIsAddressed
<1>6. CASE LdapAnswers
  BY <1>0, <1>6
  DEF LdapAnswers, TellInv,
      PastBeforeRaw, PastBeforeReady, TrashIsUnaddressed, ReceivedIsAddressed
<1>7. CASE \E n \in Names : OpenForWriting(n)
  BY <1>0, <1>7
  DEF OpenForWriting, IndInv, PassInOrder, CopiesPlaced, TakenIsDone, TellInv,
      PastBeforeRaw, PastBeforeReady, TrashIsUnaddressed, ReceivedIsAddressed
<1>8. CASE \E n \in Names : WriteJSON(n)
  BY <1>0, <1>8
  DEF WriteJSON, IndInv, PassInOrder, CopiesPlaced, TakenIsDone, TellInv,
      PastBeforeRaw, PastBeforeReady, TrashIsUnaddressed, ReceivedIsAddressed
<1>9. CASE \E n \in Names : Rename(n)
  BY <1>0, <1>9
  DEF Rename, IndInv, PassInOrder, TellInv,
      PastBeforeRaw, PastBeforeReady, TrashIsUnaddressed, ReceivedIsAddressed
<1>10. CASE PreprocessingDone
  BY <1>0, <1>10
  DEF PreprocessingDone, TellInv,
      PastBeforeRaw, PastBeforeReady, TrashIsUnaddressed, ReceivedIsAddressed
<1>11. CASE ListReady
  BY <1>0, <1>11
  DEF ListReady, TellInv,
      PastBeforeRaw, PastBeforeReady, TrashIsUnaddressed, ReceivedIsAddressed
<1>12. CASE \E n \in Names : DiscardUnaddressed(n)
  BY <1>0, <1>12
  DEF DiscardUnaddressed, IndInv, ListIsReady, ReadyBeforeRaw, TellInv,
      PastBeforeRaw, PastBeforeReady, TrashIsUnaddressed, ReceivedIsAddressed
<1>13. CASE \E n \in Names : DistributeFile(n)
  <2> PICK n \in Names : DistributeFile(n)
    BY <1>13
  <2>1. /\ n \in Ready
        /\ \A m \in Ready : n <= m
        /\ place' = [place EXCEPT ![n] = "unlinked"]
        /\ event' = event /\ content' = content /\ taken' = taken
    BY DEF DistributeFile, IndInv, ListIsReady
  <2>2. \A a \in OutQueues, m \in Names :
           copies'[a][m] # copies[a][m] => m = n /\ a \in Targets(n)
    BY <1>0 DEF DistributeFile, Copied, Consumers
  <2>3. (PastBeforeRaw /\ PastBeforeReady /\ TrashIsUnaddressed)'
    BY <1>0, <2>1
    DEF IndInv, ReadyBeforeRaw, TellInv, PastBeforeRaw, PastBeforeReady, TrashIsUnaddressed
  <2>4. ReceivedIsAddressed'
    BY <1>0, <2>1, <2>2 DEF TellInv, ReceivedIsAddressed
  <2> QED
    BY <2>3, <2>4
<1>14. CASE DistributionDone
  BY <1>0, <1>14
  DEF DistributionDone, TellInv,
      PastBeforeRaw, PastBeforeReady, TrashIsUnaddressed, ReceivedIsAddressed
<1>15. CASE LdapFails \/ (\E n \in Names : RenameFails(n))
  BY <1>0, <1>15
  DEF LdapFails, RenameFails, TaskRaises, TellInv,
      PastBeforeRaw, PastBeforeReady, TrashIsUnaddressed, ReceivedIsAddressed
<1>16. CASE \E n \in Names : SaveFails(n) \/ ReadFails(n)
  BY <1>0, <1>16
  DEF SaveFails, ReadFails, IndInv, PassInOrder, ListIsReady, ReadyBeforeRaw, TellInv,
      PastBeforeRaw, PastBeforeReady, TrashIsUnaddressed, ReceivedIsAddressed
<1>17. CASE \E a \in OutQueues, n \in Names : ScanTakes(a, n)
  <2> PICK a \in OutQueues, n \in Names : ScanTakes(a, n)
    BY <1>17
  <2>1. place' = place /\ event' = event /\ content' = content
    BY DEF ScanTakes
  <2>2. \A b \in OutQueues, m \in Names : Received(b, m)' => Received(b, m)
    BY <1>0 DEF ScanTakes
  <2> QED
    BY <2>1, <2>2
    DEF TellInv, PastBeforeRaw, PastBeforeReady, TrashIsUnaddressed, ReceivedIsAddressed
<1>18. CASE Crash
  BY <1>0, <1>18
  DEF Crash, TellInv,
      PastBeforeRaw, PastBeforeReady, TrashIsUnaddressed, ReceivedIsAddressed
<1>19. CASE \E n \in Names : CrashWhileCopying(n)
  BY <1>0, <1>19
  DEF CrashWhileCopying, CutShort, Copied, Consumers, IndInv, ListIsReady, TellInv,
      PastBeforeRaw, PastBeforeReady, TrashIsUnaddressed, ReceivedIsAddressed
<1>20. CASE UNCHANGED vars
  BY <1>0, <1>20
  DEF vars, TellInv,
      PastBeforeRaw, PastBeforeReady, TrashIsUnaddressed, ReceivedIsAddressed
<1>21. CASE \E n \in Names : OldDataFails(n)
  BY <1>0, <1>21
  DEF OldDataFails, TaskRaises, TellInv,
      PastBeforeRaw, PastBeforeReady, TrashIsUnaddressed, ReceivedIsAddressed
<1>22. CASE \E n \in Names : CopyFails(n)
  BY <1>0, <1>22
  DEF CopyFails, CutShort, TaskRaises, Copied, Consumers, IndInv, ListIsReady, TellInv,
      PastBeforeRaw, PastBeforeReady, TrashIsUnaddressed, ReceivedIsAddressed
<1> QED
  BY <1>1, <1>2, <1>3, <1>4, <1>5, <1>6, <1>7, <1>8, <1>9, <1>10, <1>11, <1>12,
     <1>13, <1>14, <1>15, <1>16, <1>17, <1>18, <1>19, <1>20, <1>21, <1>22
  DEF Next, TaskStep

\* What was lost stays lost, and a kill stays counted.
LEMMA UndisturbedBefore == IndInv /\ [Next]_vars /\ Undisturbed' => Undisturbed
<1> SUFFICES ASSUME IndInv, [Next]_vars, Undisturbed' PROVE Undisturbed
  OBVIOUS
<1>1. crashes = 0
  BY DEF IndInv, TypeOK, Undisturbed, Next, TaskStep, vars, ListenerWrites, Start, ListRaw,
         DiscardInvalid, Preprocess, LdapAnswers, OpenForWriting, WriteJSON, Rename,
         PreprocessingDone, ListReady, DiscardUnaddressed, DistributeFile, DistributionDone,
         LdapFails, OldDataFails, ReadFails, SaveFails, RenameFails, CopyFails, TaskRaises,
         ScanTakes, Crash, CrashWhileCopying, Stop
<1>2. ASSUME NEW n \in Names, place[n] = "lost" PROVE place'[n] = "lost"
  <2>1. place[n] # "absent" /\ n \notin Raw \cup Ready
    BY <1>2 DEF Raw, Ready
  <2>2. ASSUME NEW m \in Names, place'[m] # place[m] PROVE m = written + 1 \/ m \in todo
    BY <2>2
    DEF IndInv, TypeOK, Next, TaskStep, vars, fileVars, ListenerWrites, Start, ListRaw,
        DiscardInvalid, Discard, IsNext, Preprocess, LdapAnswers, OpenForWriting, WriteJSON,
        Rename, PreprocessingDone, ListReady, DiscardUnaddressed, DistributeFile,
        DistributionDone, LdapFails, OldDataFails, ReadFails, SaveFails, RenameFails,
        CopyFails, TaskRaises, ScanTakes, Crash, CrashWhileCopying
  <2>3. ASSUME place'[n] # place[n]
        PROVE  n = written + 1 \/ pc \in {"preprocess", "open", "write", "rename", "copy"}
    BY <2>3
    DEF IndInv, TypeOK, Next, TaskStep, vars, fileVars, ListenerWrites, Start, ListRaw,
        DiscardInvalid, Discard, IsNext, Preprocess, LdapAnswers, OpenForWriting, WriteJSON,
        Rename, PreprocessingDone, ListReady, DiscardUnaddressed, DistributeFile,
        DistributionDone, LdapFails, OldDataFails, ReadFails, SaveFails, RenameFails,
        CopyFails, TaskRaises, ScanTakes, Crash, CrashWhileCopying
  <2> QED
    BY <1>2, <2>1, <2>2, <2>3, BoundsAssumption
    DEF IndInv, TypeOK, FilesWritten, PassInOrder, ListIsReady, Names
<1> QED
  BY <1>1, <1>2 DEF Undisturbed

(***************************************************************************)
(* The step that matters: distribute() is through with file n. Of the      *)
(* changes m < n of the same user of which a was told, let m be the last.  *)
(* No change of that user lies between the two: distribute() is through    *)
(* with it as well, so a would have been told of it                        *)
(* (NoAuthorityForgotten). So m is what the old_data of n comes from       *)
(* (OldDataSaved), and a is among the authorities of the schools in it.    *)
(***************************************************************************)
LEMMA NextIsTold ==
    ASSUME IndInv, TellInv, Undisturbed, NEW n \in Names,
           DistributeFile(n) \/ DiscardUnaddressed(n)
    PROVE  NoAuthorityForgotten'
<1>0. TypeOK
  BY DEF IndInv
<1>1. /\ n \in Ready /\ \A m \in Ready : n <= m
      /\ \A m \in Names : m # n => place'[m] = place[m]
      /\ event' = event /\ content' = content /\ written' = written /\ taken' = taken
  BY <1>0
  DEF DistributeFile, DiscardUnaddressed, Discard, IsNext, IndInv, ListIsReady, TypeOK, outVars
<1>2. \A a \in OutQueues, m \in Names : m # n => (Got(a, m)' <=> Got(a, m))
  BY <1>0, <1>1 DEF DistributeFile, DiscardUnaddressed, Copied, Got, TypeOK, outVars
<1>3. \A a \in OutQueues : a \in Targets(n) /\ Loadable(n) => Got(a, n)'
  BY <1>0 DEF DistributeFile, DiscardUnaddressed, Copied, Consumers, Got, TypeOK
<1>4. \A m \in Names : m < n /\ event[m].type = "user" => Distributed(m)
  <2> SUFFICES ASSUME NEW m \in Names, m < n, event[m].type = "user" PROVE Distributed(m)
    OBVIOUS
  <2>1. place[m] \notin {"raw", "absent", "ready"}
    BY <1>0, <1>1, BoundsAssumption
    DEF IndInv, FilesWritten, ReadyBeforeRaw, Raw, Ready, Names, TypeOK
  <2>2. place[m] # "lost" /\ OldDataSaved
    BY DEF Undisturbed, TellInv, UpInv
  <2> QED
    BY <1>0, <2>1, <2>2 DEF OldDataSaved, Loadable, Distributed, TypeOK
<1> SUFFICES ASSUME NEW a \in OutQueues, NEW m \in 1..written, NEW k \in 1..written,
                    place'[k] = "unlinked" \/ (place'[k] = "trash" /\ content[k] # Truncated),
                    LastToldOf(a, m, k)', a \in AuthoritiesOf(event[m].schools, Mapping)
             PROVE  Got(a, k)'
  BY <1>1 DEF NoAuthorityForgotten
<1>5. /\ m \in Names /\ k \in Names /\ m < k
      /\ SameUser(m, k) /\ Got(a, m)'
      /\ \A j \in Names : m < j /\ j < k /\ SameUser(j, k) => ~Got(a, j)'
  <2>1. m \in Names /\ k \in Names
    BY <1>0, BoundsAssumption DEF TypeOK, Names
  <2>2. \A i, j \in Names : SameUser(i, j)' <=> SameUser(i, j)
    BY <1>1 DEF SameUser
  <2> QED
    BY <2>1, <2>2 DEF LastToldOf
<1>6. k # n => Distributed(k) /\ k < n
  <2> SUFFICES ASSUME k # n PROVE Distributed(k) /\ k < n
    OBVIOUS
  <2>1. Distributed(k)
    BY <1>1, <1>5 DEF Distributed, Loadable, SameUser
  <2> QED
    BY <1>1, <1>5, <2>1 DEF TellInv, PastBeforeReady, Ready
<1>7. m < n /\ Got(a, m)
  BY <1>2, <1>5, <1>6 DEF Names
<1>8. NoAuthorityForgotten /\ OldDataSaved
  BY DEF TellInv, UpInv
<1>9. ASSUME NEW j \in Names, j # n, Distributed(j), m < j, j <= k, SameUser(j, k)
      PROVE  Got(a, j)'
  <2>1. j <= n
    BY <1>5, <1>6, <1>9 DEF Names
  <2>2. LastToldOf(a, m, j)
    BY <1>2, <1>5, <1>7, <1>9, <2>1 DEF LastToldOf, SameUser, Names
  <2>3. j \in 1..written /\ m \in 1..written
    BY <1>0, <1>5, <1>9 DEF TypeOK, Names
  <2>4. Got(a, j)
    BY <1>8, <1>9, <2>2, <2>3 DEF NoAuthorityForgotten, Distributed, Loadable
  <2> QED
    BY <1>2, <1>9, <2>4
<1>10. CASE k # n
  BY <1>5, <1>6, <1>9, <1>10 DEF SameUser, Names
<1>11. CASE k = n
  <2>1. \A j \in Names : m < j /\ j < n => ~SameUser(j, n)
    BY <1>4, <1>5, <1>9, <1>11 DEF SameUser, Names
  <2>2. event[m] \in Event /\ event[n] \in Event
    BY <1>0, <1>5, <1>11 DEF IndInv, FilesWritten, TypeOK, Names
  <2>3. event[m].schools # {} /\ event[m].schools \in SUBSET Schools /\ event[m].op = "add_mod"
    BY <1>5, <2>2 DEF Event, AuthoritiesOf, SameUser
  <2>4. content[n] = event[m].schools /\ content[n] # Truncated
    BY <1>1, <1>5, <1>8, <1>11, <2>1, <2>3
    DEF OldDataSaved, IsOldDataOf, LastAddMod, SameUser, Ready
  <2>5. ActiveKelvin(Conf) # {}
    <3>1. a \in Targets(m)
      BY <1>0, <1>5, <1>7 DEF TellInv, ReceivedIsAddressed, Received, Got
    <3> QED
      BY <1>5, <3>1
      DEF Targets, SchoolAuthoritiesToDistributeTo, UserAuthorities, SameUser
  <2>6. a \in Targets(n)
    <3>1. AuthoritiesOf(event[m].schools, Mapping)
            \subseteq AuthoritiesOf(event[n].schools \cup OldSchools(content[n]), Mapping)
      BY <2>3, <2>4, NoDataAssumption DEF AuthoritiesOf, OldSchools
    <3> QED
      BY <1>5, <1>11, <2>5, <3>1
      DEF Targets, SchoolAuthoritiesToDistributeTo, UserAuthorities, SameUser
  <2>7. Loadable(n)
    BY <1>5, <1>11, <2>4 DEF Loadable, SameUser
  <2> QED
    BY <1>3, <1>11, <2>6, <2>7
<1> QED
  BY <1>10, <1>11

(***************************************************************************)
(* The steps of preprocessing matter for the old_data: Preprocess reads    *)
(* the entry of the change before, since all older files have been seen    *)
(* and no newer one, OpenForWriting and WriteJSON carry it to the file,    *)
(* and Rename and the discarding of a file leave it there.                 *)
(***************************************************************************)
LEMMA UpStep == IndInv /\ TellInv /\ [Next]_vars /\ Undisturbed' => UpInv'
<1> SUFFICES ASSUME IndInv, TellInv, [Next]_vars, Undisturbed' PROVE UpInv'
  OBVIOUS
<1>0. /\ TypeOK /\ TypeOK' /\ FilesWritten /\ PassInOrder /\ PastBeforeRaw
      /\ Undisturbed /\ UpInv
  BY TypeStep, UndisturbedBefore DEF IndInv, TellInv
<1> USE DEF TypeOK, Names, fileVars, outVars, taskVars, Raw, Ready, IsNext, Discard, Stop,
            InHand, SameUser, LastAddMod, IsOldDataOf
<1>1. CASE ListenerWrites
  <2> DEFINE new == written + 1
  <2>1. \A n \in Names : n # new => place'[n] = place[n] /\ event'[n] = event[n]
    BY <1>0, <1>1 DEF ListenerWrites
  <2>2. /\ new \in Names /\ place[new] = "absent" /\ place'[new] = "raw"
        /\ \A n \in Names : place'[n] \in {"absent", "raw"} \/ n < new
    BY <1>0, <1>1 DEF ListenerWrites, FilesWritten
  <2>3. \A n \in Names : InHand(n)' <=> InHand(n)
    BY <1>1 DEF ListenerWrites
  <2>4. \A n \in Names : InHand(n) => n < new
    BY <1>0, <2>2 DEF FilesWritten, PassInOrder
  <2>5. \A n \in Names : Seen(n)' <=> Seen(n)
    BY <2>1, <2>2, <2>3 DEF Seen
  <2>6. \A n \in Names : \A old : n < new /\ IsOldDataOf(old, n) => IsOldDataOf(old, n)'
    BY <2>1
  <2>7. RawIsUntouched'
    BY <1>0, <1>1, <2>1, <2>2, <2>3 DEF ListenerWrites, UpInv, RawIsUntouched
  <2>8. OldDataInHand' /\ OldDataSaved'
    BY <1>0, <1>1, <2>1, <2>2, <2>3, <2>4, <2>6
    DEF ListenerWrites, UpInv, OldDataInHand, OldDataSaved
  <2>9. OldDBIsCurrent'
    BY <1>0, <1>1, <2>1, <2>2, <2>4, <2>5 DEF ListenerWrites, UpInv, OldDBIsCurrent, Seen
  <2>10. NoAuthorityForgotten'
    BY <1>0, <1>1, <2>1, <2>2 DEF ListenerWrites, UpInv, NoAuthorityForgotten, LastToldOf, Got
  <2> QED
    BY <2>7, <2>8, <2>9, <2>10 DEF UpInv
<1>2. CASE Start
  BY <1>0, <1>2
  DEF Start, UpInv, RawIsUntouched, OldDataInHand, OldDataSaved,
      OldDBIsCurrent, Seen, NoAuthorityForgotten, LastToldOf, Got
<1>3. CASE ListRaw
  BY <1>0, <1>3
  DEF ListRaw, UpInv, RawIsUntouched, OldDataInHand, OldDataSaved,
      OldDBIsCurrent, Seen, NoAuthorityForgotten, LastToldOf, Got
<1>4. CASE \E n \in Names : DiscardInvalid(n)
  <2> PICK n \in Names : DiscardInvalid(n)
    BY <1>4
  <2>1. n \in Raw /\ event[n].type # "user" /\ place' = [place EXCEPT ![n] = "trash"]
    BY <1>0, TruncatedAssumption
    DEF DiscardInvalid, PassInOrder, UpInv, RawIsUntouched, Loadable, OldData
  <2>2. RawIsUntouched' /\ OldDataInHand' /\ OldDataSaved'
    BY <1>0, <2>1 DEF DiscardInvalid, UpInv, RawIsUntouched, OldDataInHand, OldDataSaved
  <2>3. OldDBIsCurrent'
    BY <1>0, <2>1 DEF DiscardInvalid, UpInv, OldDBIsCurrent, Seen
  <2>4. NoAuthorityForgotten'
    BY <1>0, <2>1 DEF DiscardInvalid, UpInv, NoAuthorityForgotten, LastToldOf, Got
  <2> QED
    BY <2>2, <2>3, <2>4 DEF UpInv
<1>5. CASE \E n \in Names : Preprocess(n)
  <2> PICK n \in Names : Preprocess(n)
    BY <1>5
  <2>1. /\ n \in Raw /\ content[n] = NoData
        /\ \A m \in Raw \ {n} : n < m
        /\ \A m \in Names : ~InHand(m)
        /\ \A m \in Names : InHand(m)' <=> m = n
    BY <1>0 DEF Preprocess, PassInOrder, UpInv, RawIsUntouched
  <2>2. \A m \in Names : m < n => Seen(m)
    BY <1>0, <2>1 DEF FilesWritten, Seen, Undisturbed
  <2>3. \A m \in Names : Seen(m) => m < n
    BY <1>0, <2>1 DEF PastBeforeRaw, Seen
  <2>4. \A m \in Names : Seen(m)' <=> Seen(m) \/ m = n
    BY <1>0, <2>1 DEF Preprocess, Seen
  <2>5. event' = event /\ place' = place /\ content' = content
    BY DEF Preprocess
  <2>6. event[n] \in Event
    BY <1>0, <2>1 DEF FilesWritten
  <2>7. RawIsUntouched'
    BY <1>0, <2>1, <2>5 DEF Preprocess, UpInv, RawIsUntouched
  <2>8. OldDataInHand'
    <3> SUFFICES ASSUME event[n].type = "user", NEW m \in Names, LastAddMod(m, n)
                 PROVE  mem' = event[m].schools
      BY <2>1, <2>5 DEF OldDataInHand
    <3>1. Seen(m)
      BY <2>2
    <3>2. \A k \in Names : m < k /\ Seen(k) /\ event[k].op = "add_mod" => ~SameUser(k, m)
      BY <2>3
    <3>3. oldDB[event[m].id] = event[m].schools
      BY <1>0, <3>1, <3>2 DEF Preprocess, UpInv, OldDBIsCurrent
    <3> QED
      BY <3>3 DEF Preprocess
  <2>9. OldDataSaved'
    BY <1>0, <2>5 DEF UpInv, OldDataSaved
  <2>10. OldDBIsCurrent'
    <3> SUFFICES ASSUME NEW m \in Names, Seen(m)',
                        event[m].type = "user", event[m].op = "add_mod",
                        \A k \in Names :
                            m < k /\ Seen(k)' /\ event[k].op = "add_mod" => ~SameUser(k, m)
                 PROVE  oldDB'[event[m].id] = event[m].schools
      BY <2>5 DEF OldDBIsCurrent
    <3>0. event[m] \in Event
      BY <1>0, <2>1, <2>4 DEF FilesWritten, Seen
    <3>1. CASE m = n
      <4>1. event[n].schools \in SUBSET Schools /\ event[n].id \in Users
        BY <2>6, <3>1 DEF Event
      <4>2. OldDataEntry(event[n]) = event[n].schools
        BY <4>1, <3>1 DEF OldDataEntry
      <4> QED
        BY <1>0, <3>1, <4>1, <4>2 DEF Preprocess, OldDBAfter
    <3>2. CASE m # n
      <4>1. Seen(m) /\ m < n
        BY <2>3, <2>4, <3>2
      <4>2. oldDB[event[m].id] = event[m].schools
        BY <1>0, <2>4, <4>1 DEF Preprocess, UpInv, OldDBIsCurrent
      <4>3. event[n].op = "add_mod" => event[n].id # event[m].id
        <5> SUFFICES ASSUME event[n].op = "add_mod", event[n].id = event[m].id PROVE FALSE
          OBVIOUS
        <5>1. event[n].type # "user"
          BY <2>4, <4>1
        <5> QED
          BY <2>6, <3>0, <5>1, ObjectsAssumption DEF Event, Preprocess, Loadable
      <4> QED
        BY <1>0, <4>2, <4>3 DEF Preprocess, OldDBAfter
    <3> QED
      BY <3>1, <3>2
  <2>11. NoAuthorityForgotten'
    BY <1>0, <2>5 DEF Preprocess, UpInv, NoAuthorityForgotten, LastToldOf, Got
  <2> QED
    BY <2>7, <2>8, <2>9, <2>10, <2>11 DEF UpInv
<1>6. CASE LdapAnswers
  BY <1>0, <1>6
  DEF LdapAnswers, UpInv, RawIsUntouched, OldDataInHand, OldDataSaved,
      OldDBIsCurrent, Seen, NoAuthorityForgotten, LastToldOf, Got
<1>7. CASE \E n \in Names : OpenForWriting(n)
  <2> PICK n \in Names : OpenForWriting(n)
    BY <1>7
  <2>1. /\ n \in Raw /\ place' = place /\ event' = event /\ oldDB' = oldDB /\ mem' = mem
        /\ content' = [content EXCEPT ![n] = Truncated]
        /\ \A m \in Names : InHand(m) <=> m = n
        /\ \A m \in Names : InHand(m)' <=> m = n
    BY <1>0 DEF OpenForWriting, PassInOrder
  <2>2. RawIsUntouched'
    BY <1>0, <2>1 DEF OpenForWriting, UpInv, RawIsUntouched
  <2>3. OldDataInHand' /\ OldDataSaved'
    BY <1>0, <2>1 DEF UpInv, OldDataInHand, OldDataSaved
  <2>4. OldDBIsCurrent'
    BY <1>0, <2>1 DEF OpenForWriting, UpInv, OldDBIsCurrent, Seen
  <2>5. NoAuthorityForgotten'
    BY <1>0, <2>1 DEF OpenForWriting, UpInv, NoAuthorityForgotten, LastToldOf, Got
  <2> QED
    BY <2>2, <2>3, <2>4, <2>5 DEF UpInv
<1>8. CASE \E n \in Names : WriteJSON(n)
  <2> PICK n \in Names : WriteJSON(n)
    BY <1>8
  <2>1. /\ n \in Raw /\ place' = place /\ event' = event /\ oldDB' = oldDB /\ mem' = mem
        /\ content' = [content EXCEPT ![n] = mem]
        /\ \A m \in Names : InHand(m) <=> m = n
        /\ \A m \in Names : InHand(m)' <=> m = n
    BY <1>0 DEF WriteJSON, PassInOrder
  <2>2. RawIsUntouched'
    BY <1>0, <2>1 DEF WriteJSON, UpInv, RawIsUntouched
  <2>3. OldDataInHand' /\ OldDataSaved'
    BY <1>0, <2>1 DEF UpInv, OldDataInHand, OldDataSaved
  <2>4. OldDBIsCurrent'
    BY <1>0, <2>1 DEF WriteJSON, UpInv, OldDBIsCurrent, Seen
  <2>5. NoAuthorityForgotten'
    BY <1>0, <2>1 DEF WriteJSON, UpInv, NoAuthorityForgotten, LastToldOf, Got
  <2> QED
    BY <2>2, <2>3, <2>4, <2>5 DEF UpInv
<1>9. CASE \E n \in Names : Rename(n)
  <2> PICK n \in Names : Rename(n)
    BY <1>9
  <2>1. /\ n \in Raw /\ content[n] = mem
        /\ \A m \in Names : InHand(m) <=> m = n
        /\ \A m \in Names : ~InHand(m)'
        /\ place' = [place EXCEPT ![n] = "ready"] /\ event' = event /\ content' = content
    BY <1>0 DEF Rename, PassInOrder, UpInv, RawIsUntouched
  <2>2. RawIsUntouched' /\ OldDataInHand'
    BY <1>0, <2>1 DEF Rename, UpInv, RawIsUntouched, OldDataInHand
  <2>3. OldDataSaved'
    BY <1>0, <2>1, TruncatedAssumption DEF UpInv, OldDataInHand, OldDataSaved
  <2>4. OldDBIsCurrent'
    BY <1>0, <2>1 DEF Rename, UpInv, OldDBIsCurrent, Seen
  <2>5. NoAuthorityForgotten'
    BY <1>0, <2>1 DEF Rename, UpInv, NoAuthorityForgotten, LastToldOf, Got
  <2> QED
    BY <2>2, <2>3, <2>4, <2>5 DEF UpInv
<1>10. CASE PreprocessingDone
  BY <1>0, <1>10
  DEF PreprocessingDone, UpInv, RawIsUntouched, OldDataInHand, OldDataSaved,
      OldDBIsCurrent, Seen, NoAuthorityForgotten, LastToldOf, Got
<1>11. CASE ListReady
  BY <1>0, <1>11
  DEF ListReady, UpInv, RawIsUntouched, OldDataInHand, OldDataSaved,
      OldDBIsCurrent, Seen, NoAuthorityForgotten, LastToldOf, Got
<1>12. CASE \E n \in Names : DiscardUnaddressed(n)
  <2> PICK n \in Names : DiscardUnaddressed(n)
    BY <1>12
  <2>1. /\ n \in Ready
        /\ place' = [place EXCEPT ![n] = "trash"]
        /\ event' = event /\ content' = content /\ copies' = copies /\ taken' = taken
        /\ Loadable(n) => Targets(n) = {}
    BY DEF DiscardUnaddressed, IndInv, ListIsReady
  <2>2. RawIsUntouched' /\ OldDataInHand' /\ OldDataSaved'
    BY <1>0, <2>1 DEF DiscardUnaddressed, UpInv, RawIsUntouched, OldDataInHand, OldDataSaved
  <2>3. OldDBIsCurrent'
    BY <1>0, <2>1 DEF DiscardUnaddressed, UpInv, OldDBIsCurrent, Seen
  <2>4. NoAuthorityForgotten'
    BY UndisturbedBefore, NextIsTold
  <2> QED
    BY <2>2, <2>3, <2>4 DEF UpInv
<1>13. CASE \E n \in Names : DistributeFile(n)
  <2> PICK n \in Names : DistributeFile(n)
    BY <1>13
  <2>1. /\ n \in Ready
        /\ place' = [place EXCEPT ![n] = "unlinked"]
        /\ event' = event /\ content' = content /\ taken' = taken
    BY DEF DistributeFile, IndInv, ListIsReady
  <2>2. RawIsUntouched' /\ OldDataInHand' /\ OldDataSaved'
    BY <1>0, <2>1 DEF DistributeFile, UpInv, RawIsUntouched, OldDataInHand, OldDataSaved
  <2>3. OldDBIsCurrent'
    BY <1>0, <2>1 DEF DistributeFile, UpInv, OldDBIsCurrent, Seen
  <2>4. NoAuthorityForgotten'
    BY UndisturbedBefore, NextIsTold
  <2> QED
    BY <2>2, <2>3, <2>4 DEF UpInv
<1>14. CASE DistributionDone
  BY <1>0, <1>14
  DEF DistributionDone, UpInv, RawIsUntouched, OldDataInHand, OldDataSaved,
      OldDBIsCurrent, Seen, NoAuthorityForgotten, LastToldOf, Got
<1>15. CASE LdapFails
  BY <1>0, <1>15
  DEF LdapFails, TaskRaises, UpInv, RawIsUntouched, OldDataInHand, OldDataSaved,
      OldDBIsCurrent, Seen, NoAuthorityForgotten, LastToldOf, Got
<1>16. CASE \E n \in Names : SaveFails(n) \/ ReadFails(n)
  BY <1>0, <1>16 DEF SaveFails, ReadFails, Undisturbed
<1>17. CASE \E a \in OutQueues, n \in Names : ScanTakes(a, n)
  <2> PICK a \in OutQueues, n \in Names : ScanTakes(a, n)
    BY <1>17
  <2>1. /\ place' = place /\ event' = event /\ content' = content
        /\ UNCHANGED <<pc, todo, mem, oldDB, written>>
    BY DEF ScanTakes
  <2>2. \A b \in OutQueues, m \in Names : Got(b, m)' <=> Got(b, m)
    BY <1>0 DEF ScanTakes, Got
  <2>3. NoAuthorityForgotten'
    <3>1. \A b \in OutQueues, i, j \in Names : LastToldOf(b, i, j)' <=> LastToldOf(b, i, j)
      BY <2>1, <2>2 DEF LastToldOf
    <3>2. 1..written \subseteq Names
      BY <1>0, BoundsAssumption
    <3> QED
      BY <1>0, <2>1, <2>2, <3>1, <3>2 DEF UpInv, NoAuthorityForgotten
  <2> QED
    BY <1>0, <2>1, <2>3
    DEF UpInv, RawIsUntouched, OldDataInHand, OldDataSaved, OldDBIsCurrent, Seen
<1>18. CASE Crash
  BY <1>0, <1>18 DEF Crash, Undisturbed
<1>19. CASE \E n \in Names : CrashWhileCopying(n)
  BY <1>0, <1>19 DEF CrashWhileCopying, Undisturbed
<1>20. CASE UNCHANGED vars
  BY <1>0, <1>20
  DEF vars, UpInv, RawIsUntouched, OldDataInHand, OldDataSaved,
      OldDBIsCurrent, Seen, NoAuthorityForgotten, LastToldOf, Got
<1>21. CASE \E n \in Names : OldDataFails(n)
  BY <1>0, <1>21
  DEF OldDataFails, TaskRaises, UpInv, RawIsUntouched, OldDataInHand, OldDataSaved,
      OldDBIsCurrent, Seen, NoAuthorityForgotten, LastToldOf, Got
<1>22. CASE \E n \in Names : CopyFails(n)
  <2> PICK n \in Names : CopyFails(n)
    BY <1>22
  <2>1. /\ place' = place /\ event' = event /\ content' = content /\ taken' = taken
        /\ written' = written /\ pc' = "dead" /\ todo' = {}
    BY DEF CopyFails, TaskRaises
  <2>2. /\ n \in Ready
        /\ \A b \in OutQueues, m \in Names : m # n => (Got(b, m)' <=> Got(b, m))
    BY <1>0 DEF CopyFails, CutShort, Copied, IndInv, ListIsReady, Got
  <2>3. \A m \in Names : Distributed(m) => m < n
    BY <2>2 DEF TellInv, PastBeforeReady
  <2>4. NoAuthorityForgotten'
    <3> SUFFICES ASSUME NEW a \in OutQueues, NEW m \in 1..written, NEW k \in 1..written,
                        place[k] = "unlinked" \/ (place[k] = "trash" /\ content[k] # Truncated),
                        LastToldOf(a, m, k)', a \in AuthoritiesOf(event[m].schools, Mapping)
                 PROVE  Got(a, k)'
      BY <2>1 DEF NoAuthorityForgotten
    <3>1. m \in Names /\ k \in Names
      BY <1>0, BoundsAssumption
    <3>2. m < k /\ SameUser(m, k) /\ k < n
      BY <2>1, <2>3, <3>1 DEF LastToldOf, Distributed, Loadable
    <3>3. LastToldOf(a, m, k)
      BY <2>1, <2>2, <3>1, <3>2 DEF LastToldOf
    <3>4. Got(a, k)
      BY <1>0, <3>3 DEF UpInv, NoAuthorityForgotten
    <3> QED
      BY <2>2, <3>1, <3>2, <3>4
  <2> QED
    BY <1>0, <2>1, <2>4
    DEF UpInv, RawIsUntouched, OldDataInHand, OldDataSaved, OldDBIsCurrent, Seen
<1>23. CASE \E n \in Names : RenameFails(n)
  BY <1>0, <1>23
  DEF RenameFails, TaskRaises, UpInv, RawIsUntouched, OldDataInHand, OldDataSaved,
      OldDBIsCurrent, Seen, NoAuthorityForgotten, LastToldOf, Got
<1> QED
  BY <1>1, <1>2, <1>3, <1>4, <1>5, <1>6, <1>7, <1>8, <1>9, <1>10, <1>11, <1>12,
     <1>13, <1>14, <1>15, <1>16, <1>17, <1>18, <1>19, <1>20, <1>21, <1>22, <1>23
  DEF Next, TaskStep

\* Both invariants together hold at every point.
LEMMA TellInductive == Spec => []TellInv
<1>1. IndInv /\ TellInv /\ [Next]_vars => TellInv'
  BY PastStep, UpStep DEF TellInv
<1> QED
  BY <1>1, TellInit, Inductive, PTL DEF Spec

-----------------------------------------------------------------------------
(***************************************************************************)
(* As long as the service is not killed and no file is lost, an            *)
(* authority that was told that a user is in one of its schools is told of *)
(* the next change of that user.                                           *)
(***************************************************************************)
THEOREM NoneForgotten == Spec => []NoneForgottenWhileUp
<1>1. TellInv => NoneForgottenWhileUp
  BY DEF TellInv, Undisturbed, UpInv, NoneForgottenWhileUp
<1> QED
  BY <1>1, TellInductive, PTL

(***************************************************************************)
(* What CurrentSchoolsServed needs of the configurations: one that is      *)
(* active uses the plugin kelvin (UserDistributionImpl and                 *)
(* KelvinGroupDistribution do nothing without), and all use one of the two *)
(* plugins. The run inqueue_partialsync shows that the first is needed.    *)
(***************************************************************************)
AllServed ==
    /\ ActiveKelvin(Conf) # {}
    /\ \A a \in OutQueues : Conf[a].plugins \cap {"kelvin", "kelvin-partial-group-sync"} # {}

\* The merged answer of the hooks has the authorities of all the present schools.
LEMMA PresentSchoolsAddressed ==
    ASSUME AllServed, NEW ev \in Event, ev.type # "invalid", NEW old
    PROVE  AuthoritiesOf(ev.schools, Mapping) \cap OutQueues
             \subseteq SchoolAuthoritiesToDistributeTo(ev, old, Mapping, Conf)
<1>1. ev.type = "user" \/ ev.type = "group"
  BY DEF Event
<1>2. CASE ev.type = "user"
  BY <1>2 DEF SchoolAuthoritiesToDistributeTo, UserAuthorities, AuthoritiesOf, AllServed
<1>3. CASE ev.type = "group"
  <2>1. OutQueues = DOMAIN Conf
    BY ConfAssumption
  <2>2. \A a \in OutQueues : \/ a \in ConfiguredWith("kelvin", Conf)
                             \/ a \in ConfiguredWith("kelvin-partial-group-sync", Conf)
    BY <2>1 DEF AllServed, ConfiguredWith
  <2> QED
    BY <1>3, <2>2
    DEF SchoolAuthoritiesToDistributeTo, GroupAuthorities, PluginGroupAuthorities, AllServed
<1> QED
  BY <1>1, <1>2, <1>3

(***************************************************************************)
(* With such configurations every change reaches the out queues of the     *)
(* authorities that the schools in it are mapped to, however often the     *)
(* service is killed.                                                      *)
(***************************************************************************)
THEOREM PresentSchoolsServed == AllServed => (Spec => []CurrentSchoolsServed)
<1> SUFFICES ASSUME AllServed PROVE Spec => []CurrentSchoolsServed
  OBVIOUS
<1>1. IndInv /\ TellInv => CurrentSchoolsServed
  <2> SUFFICES ASSUME IndInv, TellInv, NEW n \in Names, place[n] \in {"trash", "unlinked"},
                      event[n].type # "invalid", content[n] # Truncated,
                      NEW a \in AuthoritiesOf(event[n].schools, Mapping) \cap OutQueues
               PROVE  Got(a, n)
    BY DEF CurrentSchoolsServed
  <2>1. event[n] \in Event
    BY DEF IndInv, FilesWritten, TypeOK, Names
  <2>2. a \in Consumers(n)
    BY <2>1, PresentSchoolsAddressed DEF Consumers, Targets
  <2>3. place[n] = "unlinked"
    BY <2>2 DEF TellInv, TrashIsUnaddressed, Loadable, Consumers
  <2> QED
    BY <2>2, <2>3 DEF IndInv, UnlinkedOnlyIfCopied
<1> QED
  BY <1>1, Inductive, TellInductive, PTL
=============================================================================
