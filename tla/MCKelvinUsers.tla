--------------------------- MODULE MCKelvinUsers ---------------------------
(* Instances of KelvinUsers for TLC. *)
EXTENDS KelvinUsers, TLC

CONSTANTS c, p, a, b, d, f, r1, r2, r3, s, x

MCUsers   == {c, p}
MCNames   == {a, b, d, f}
MCUids    == {r1, r2, r3}
MCSources == {s, x}

\* The account of a user whom the target's school manages itself.
MCForeignAccount ==
    [of |-> Foreign, ruid |-> r1, suid |-> x, school |-> 1, schools |-> {1},
     mapping |-> "users", guardians |-> {}, wards |-> {}]

Person(name, ruid, suid, school, ous, roles, guardians, wards) ==
    [name |-> name, ruid |-> ruid, suid |-> suid, school |-> school, schools |-> ous,
     roles |-> roles, guardians |-> guardians, wards |-> wards]

Child(name, ruid, school, ous, roles) ==
    Person(name, ruid, s, school, ous, roles, {d}, {})

\* A child: at school 1; renamed, with another record_uid and a second, first school; with
\* other roles and no record_uid; at the school of another authority.
ChildInputs ==
    {Child(a, r1, 1, {1}, {<<"student", 1>>}),
     Child(b, r2, 2, {1, 2}, {<<"student", 1>>, <<"teacher", 2>>}),
     Child(a, NoUid, 1, {1}, {<<"staff", 3>>}),
     Child(a, r1, 3, {3}, {<<"student", 3>>})}

\* The child's legal guardian, who has a guardian too; or a person who is given the name and
\* the record_uid that the child had.
ParentInputs ==
    {Person(d, r3, s, 1, {1}, {<<"legal_guardian", 1>>}, {b}, {a}),
     Person(a, r1, s, 1, {1}, {<<"staff", 1>>}, {}, {})}

MCInputs == (c :> ChildInputs) @@ (p :> ParentInputs)

\* A user without a source_uid.
SourcelessInputs ==
    (c :> {Person(a, r1, NoUid, 1, {1}, {}, {}, {})}) @@ (p :> {})
=============================================================================
