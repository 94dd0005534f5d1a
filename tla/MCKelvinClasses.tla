-------------------------- MODULE MCKelvinClasses --------------------------
(* Instances of KelvinClasses for TLC. *)
EXTENDS KelvinClasses

CONSTANTS k, elsewhere, pupil, teacher, stranger

MCClasses == {k, elsewhere}
=============================================================================
