------------------------------ MODULE HandOver ------------------------------
(***************************************************************************)
(* What the in queue promises to the out queues, and they to it: the       *)
(* interface between InQueue, OutQueue and the output plugins.             *)
(*                                                                         *)
(* A file is a number, its place in the order in which the listener       *)
(* reported the changes.  Each queue is handed its files in that order;    *)
(* only the newest one that it ever got can be handed to it again, which   *)
(* an error in the middle of the copying makes the next start do.  Only    *)
(* the queue's own scan takes a file out of it, one at a time, and never   *)
(* puts it back.  Nothing is said of kills: a restart is invisible here,   *)
(* although it repeats copies and empties every memory in the modules that *)
(* implement this one.                                                     *)
(***************************************************************************)
EXTENDS Integers

CONSTANTS
    Queues,  \* the out queues
    Files    \* the files: integers, in the listener's order

VARIABLES
    waiting,  \* waiting[a]: the files in the directory of out queue a
    done      \* done[a]: the files that the scan of a is through with and that
              \* are not in the directory again

vars == <<waiting, done>>

Init ==
    /\ waiting = [a \in Queues |-> {}]
    /\ done = [a \in Queues |-> {}]

\* Nothing that queue a was ever handed is newer than file n.
NotOvertaken(a, n) == \A m \in waiting[a] \cup done[a] : m <= n

\* File n is handed to the queues in S, to some of them perhaps for the second time.
Hand(n, S) ==
    /\ \A a \in S : NotOvertaken(a, n)
    /\ waiting' = [a \in Queues |-> IF a \in S THEN waiting[a] \cup {n} ELSE waiting[a]]
    /\ done' = [a \in Queues |-> IF a \in S THEN done[a] \ {n} ELSE done[a]]

\* The scan of queue a is through with file n.
Take(a, n) ==
    /\ n \in waiting[a]
    /\ waiting' = [waiting EXCEPT ![a] = @ \ {n}]
    /\ done' = [done EXCEPT ![a] = @ \cup {n}]

Next ==
    \/ \E n \in Files : \E S \in SUBSET Queues : Hand(n, S)
    \/ \E a \in Queues, n \in Files : Take(a, n)

Spec == Init /\ [][Next]_vars
=============================================================================
