----------------------------- MODULE MCOutQueue -----------------------------
(* Instances of OutQueue for TLC. *)
EXTENDS OutQueue

CONSTANTS u, v, g

MCUsers  == {u, v}
MCUser   == {u}
MCGroups == {g}
=============================================================================
