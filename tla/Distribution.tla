---------------------------- MODULE Distribution ----------------------------
(***************************************************************************)
(* To which school authorities does the in queue send an object?  The      *)
(* answer of the hook school_authorities_to_distribute_to, which           *)
(* UserDistributionImpl, KelvinGroupDistribution and                       *)
(* KelvinPartialGroupSyncGroupDistribution implement and whose results     *)
(* InQueue.distribute() merges.                                            *)
(*                                                                         *)
(* Arguments shared by the operators below:                                *)
(*   mapping  the school to school authority mapping: a function from      *)
(*            some schools to names of school authorities.  The code       *)
(*            lower-cases a school's name when it stores and when it looks *)
(*            up a key, so a school here is a name modulo case;            *)
(*   confs    the configuration of every out queue: a function from names  *)
(*            of school authorities to records with the fields active (a   *)
(*            Boolean) and plugins (a set of plugin names);                *)
(*   ev       a listener object (see Event);                               *)
(*   old      the old_data of that object: NoData or a set of schools.     *)
(***************************************************************************)
CONSTANTS
    Users, Groups,  \* the entryUUIDs of users and of groups
    Schools,        \* the names of schools (OUs)
    NoData          \* the absence of old_data

\* An entryUUID belongs to one object.
ASSUME ObjectsAssumption == Users \cap Groups = {}
ASSUME NoDataAssumption == \A schools \in SUBSET Schools : NoData # schools

(***************************************************************************)
(* A listener object: the UDM object type, whether it adds/modifies or     *)
(* removes (JSON "object" is null), the entryUUID and the schools the file *)
(* itself names.  For a user those are the attribute school of the object, *)
(* so the removal of a user names none.  For a group it is the OU in the   *)
(* DN of a school class, which the removal has too; a group that is not a  *)
(* school class names none.  An object of any other type is invalid: no    *)
(* get_listener_object hook recognises it.                                 *)
(***************************************************************************)
Event ==
    [type : {"user"}, op : {"add_mod"}, id : Users, schools : SUBSET Schools]
      \cup
    [type : {"user"}, op : {"remove"}, id : Users, schools : {{}}]
      \cup
    [type : {"group"}, op : {"add_mod", "remove"}, id : Groups,
     schools : {{}} \cup {{s} : s \in Schools}]
      \cup
    [type : {"invalid"}, op : {"add_mod"}, id : Users \cup Groups, schools : {{}}]

OldData == {NoData} \cup SUBSET Schools

\* _get_school_authority_configs(): the active configurations of the plugin kelvin.
ActiveKelvin(confs) ==
    {a \in DOMAIN confs : "kelvin" \in confs[a].plugins /\ confs[a].active}

\* GroupDistributionImplBase.school_authorities(): the configurations of a plugin.
ConfiguredWith(plugin, confs) == {a \in DOMAIN confs : plugin \in confs[a].plugins}

\* Look schools up in the mapping; the ones that miss are ignored (KeyError).
AuthoritiesOf(schools, mapping) == {mapping[s] : s \in schools \cap DOMAIN mapping}

OldSchools(old) == IF old = NoData THEN {} ELSE old

\* A defect of the next definition: old schools take the place of the present ones.
UserAuthoritiesOldOnly(ev, old, mapping, confs) ==
    IF ActiveKelvin(confs) = {} THEN {}
    ELSE AuthoritiesOf(IF old = NoData THEN ev.schools ELSE old, mapping)

\* UserDistributionImpl.school_authorities_to_distribute_to() for a user.
UserAuthorities(ev, old, mapping, confs) ==
    IF ActiveKelvin(confs) = {}
    THEN {}
    ELSE AuthoritiesOf(ev.schools \cup OldSchools(old), mapping)

\* GroupDistributionImplBase.school_authorities_to_distribute_to() of one plugin.
PluginGroupAuthorities(plugin, ev, mapping, confs) ==
    AuthoritiesOf(ev.schools, mapping) \cap ConfiguredWith(plugin, confs)

\* KelvinGroupDistribution, which asks for an active configuration first, and
\* KelvinPartialGroupSyncGroupDistribution, which does not.
GroupAuthorities(ev, mapping, confs) ==
    (IF ActiveKelvin(confs) = {}
     THEN {}
     ELSE PluginGroupAuthorities("kelvin", ev, mapping, confs))
      \cup
    PluginGroupAuthorities("kelvin-partial-group-sync", ev, mapping, confs)

\* The merged answer of the hooks, s_a_names in InQueue.distribute().
SchoolAuthoritiesToDistributeTo(ev, old, mapping, confs) ==
    CASE ev.type = "user"  -> UserAuthorities(ev, old, mapping, confs)
      [] ev.type = "group" -> GroupAuthorities(ev, mapping, confs)
      [] OTHER             -> {}
=============================================================================
