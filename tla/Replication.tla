----------------------------- MODULE Replication -----------------------------
(***************************************************************************)
(* What an output plugin promises to the service that calls it with the    *)
(* reports of an out queue, one after the other: the interface between     *)
(* OutQueue and KelvinUsers.                                               *)
(*                                                                         *)
(* What the target has of an object of the source changes in one step, and *)
(* only to what the oldest report of that object asks for; a report is not *)
(* disposed of before, unless its object counts as missed.  That is made   *)
(* up for by the next report.  Only what went astray, because the plugin   *)
(* can no longer tell what belongs to the object, is never promised again. *)
(* Nothing is said of the requests it takes, of cancelled handlers and of  *)
(* reports handled twice: they are invisible here.                         *)
(***************************************************************************)
EXTENDS Integers, Sequences

CONSTANTS
    Objects,     \* the objects of the source
    Contents,    \* what the source may say of an object
    Absent,      \* what it says of an object that it does not have
    Accounts,    \* what the target may have
    Right(_, _)  \* Right(u, c): what is right for the target to have of u if c is said of u

VARIABLES
    source,   \* source[u]: what the source says of u
    reports,  \* the reports that the plugin has not disposed of, the oldest one first
    there,    \* there[u]: the accounts of u on the target
    fate      \* fate[u]: is the target right, but for the reports to come?

vars == <<source, reports, there, fate>>

Fates == {"kept", "missed", "astray"}

Init ==
    /\ source = [u \in Objects |-> Absent]
    /\ reports = <<>>
    /\ there = [u \in Objects |-> {}]
    /\ fate = [u \in Objects |-> "kept"]

\* The source says something else of u; that is reported unless it makes no difference here.
Report(u) ==
    /\ source' \in [Objects -> Contents]
    /\ source'[u] # source[u]
    /\ \A v \in Objects \ {u} : source'[v] = source[v]
    /\ \/ reports' = Append(reports, [of |-> u, says |-> source'[u]])
       \/ reports' = reports /\ Right(u, source'[u]) = Right(u, source[u])
    /\ UNCHANGED <<there, fate>>

\* What the oldest report asks for is carried out, also if an earlier one was missed; or
\* its object goes astray.  Nothing happens to the others that are not astray.
CarryOut ==
    LET r == Head(reports) IN
    /\ reports # <<>>
    /\ UNCHANGED <<source, reports>>
    /\ there' \in [Objects -> SUBSET Accounts]
    /\ \A v \in Objects \ {r.of} : fate[v] # "astray" => there'[v] = there[v]
    /\ \/ /\ fate[r.of] # "astray"
          /\ there'[r.of] \in Right(r.of, r.says)
          /\ fate' = [fate EXCEPT ![r.of] = "kept"]
       \/ fate' = [fate EXCEPT ![r.of] = "astray"]

\* The oldest report is disposed of: what it asks for is there, or its object was missed.
Dispose ==
    LET r == Head(reports) IN
    /\ reports # <<>>
    /\ reports' = Tail(reports)
    /\ \/ /\ fate[r.of] = "kept" => there[r.of] \in Right(r.of, r.says)
          /\ UNCHANGED fate
       \/ fate[r.of] # "astray" /\ fate' = [fate EXCEPT ![r.of] = "missed"]
       \/ fate' = [fate EXCEPT ![r.of] = "astray"]
    /\ UNCHANGED <<source, there>>

\* Others take something of u away on the target, which is made up for like a missed report ...
TakeAway(u) ==
    /\ there' \in [Objects -> SUBSET Accounts]
    /\ there'[u] \subseteq there[u] /\ there'[u] # there[u]
    /\ \A v \in Objects \ {u} : there'[v] = there[v]
    /\ fate' = [fate EXCEPT ![u] = IF @ = "astray" THEN "astray" ELSE "missed"]
    /\ UNCHANGED <<source, reports>>

\* ... or change what it accepts of any object.
ChangeRules ==
    /\ fate' = [u \in Objects |-> "astray"]
    /\ UNCHANGED <<source, reports, there>>

Next ==
    \/ \E u \in Objects : Report(u)
    \/ CarryOut
    \/ Dispose
    \/ \E u \in Objects : TakeAway(u)
    \/ ChangeRules

Spec == Init /\ [][Next]_vars

-----------------------------------------------------------------------------
(***************************************************************************)
(* What these promises come to: once all reports of an object are disposed *)
(* of, the target has what is right by what the source says now.           *)
(***************************************************************************)
Agreement ==
    \A u \in Objects :
        fate[u] = "kept" /\ (\A i \in 1..Len(reports) : reports[i].of # u)
            => there[u] \in Right(u, source[u])
=============================================================================
