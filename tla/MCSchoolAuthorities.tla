------------------------ MODULE MCSchoolAuthorities ------------------------
(* Instances of SchoolAuthorities for TLC. *)
EXTENDS SchoolAuthorities, TLC

CONSTANTS A, B, v1, v2

MCNames    == {A, B}
MCName     == {A}
MCVersions == {v1, v2}
MCVersion  == {v1}

\* Documents with the key plugin_configs, the one kind of PATCH that succeeds.
CompleteDocs == [active : {Unset} \cup BOOLEAN, plugin_configs : Versions]
\* All documents, also those without plugin_configs or with invalid ones.
AllDocs == [active : {Unset} \cup BOOLEAN, plugin_configs : {Unset, Invalid} \cup Versions]
\* The school authorities differ in nothing but their names.
Symmetry == Permutations(MCNames)
\* No school, or one school of each authority.
MCMappings == {{}, Names}
=============================================================================
