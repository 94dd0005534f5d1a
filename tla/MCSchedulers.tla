---------------------------- MODULE MCSchedulers ----------------------------
(* An instance of Schedulers for TLC. *)
EXTENDS Schedulers

CONSTANTS u1, u2, u3, g1, g2

MCUsers  == {u1, u2, u3}
MCGroups == {g1, g2}
=============================================================================
