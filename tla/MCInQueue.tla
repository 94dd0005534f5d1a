------------------------------ MODULE MCInQueue ------------------------------
(* Instances of InQueue for TLC. *)
EXTENDS InQueue

CONSTANTS A, B, u, g, s1, s2

MCOutQueues == {A, B}
MCUsers     == {u}
MCGroups    == {g}
MCSchools   == {s1, s2}
MCMapping   == [s \in {s1, s2} |-> IF s = s1 THEN A ELSE B]

Kelvin(active) == [active |-> active, plugins |-> {"kelvin"}]
PartialSync    == [active |-> TRUE, plugins |-> {"kelvin-partial-group-sync"}]

\* Both school authorities are scanned.
MCConf        == [a \in MCOutQueues |-> Kelvin(TRUE)]
\* B is deactivated: its copies stay in its directory.
MCConfOneActive == [a \in MCOutQueues |-> Kelvin(a = A)]
\* Both use the plugin kelvin-partial-group-sync, as in the documentation's example.
MCConfPartialSync == [a \in MCOutQueues |-> PartialSync]

UserIn(schools) == [type |-> "user", op |-> "add_mod", id |-> u, schools |-> schools]
UserGone        == [type |-> "user", op |-> "remove", id |-> u, schools |-> {}]
Class(op)       == [type |-> "group", op |-> op, id |-> g, schools |-> {s1}]
Junk            == [type |-> "invalid", op |-> "add_mod", id |-> u, schools |-> {}]

\* A user who moves between the schools, who is in both or who is removed.
MCUserInputs == {UserIn({s1}), UserIn({s2}), UserIn({s1, s2}), UserGone}
\* Users, a school class and a file that no hook recognises.
MCInputs == {UserIn({s1}), UserIn({s2}), UserGone, Class("add_mod"), Junk}
=============================================================================
