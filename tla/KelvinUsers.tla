---------------------------- MODULE KelvinUsers ----------------------------
(***************************************************************************)
(* The handler of user objects that an out queue calls for its school      *)
(* authority: KelvinPerSAUserDispatcher with its base classes              *)
(* PerSchoolAuthorityUserDispatcherBase and                                *)
(* PerSchoolAuthorityDispatcherBase.  For each listener object it decides, *)
(* from a cached list of the schools on the target, whether the user       *)
(* belongs there, maps the user's attributes, searches the account by      *)
(* record_uid and source_uid, and creates, modifies or deletes it.         *)
(*                                                                         *)
(* The source directory, the in queue (which adds old_data, see InQueue)   *)
(* and the target's Kelvin API are external.  Every await of the handler   *)
(* is a place where the scan can be cancelled (the object is handled again *)
(* after the restart) or the target can fail (the object goes to the       *)
(* trash, see OutQueue).                                                   *)
(*                                                                         *)
(* Schools are numbered in their alphanumerical order.  A school exists    *)
(* only on the target of the authority it is mapped to.                    *)
(***************************************************************************)
EXTENDS Integers, Sequences, FiniteSets

CONSTANTS
    Users,          \* entryUUIDs
    Names,          \* usernames, here and on the target
    Uids,           \* values of record_uid
    Sources,        \* values of source_uid
    NoUid,          \* a record_uid or source_uid that is not set
    DefaultSource,  \* get_source_uid()
    TargetSource,   \* the source_uid of accounts that are created without one, or NoUid
    Inputs,         \* Inputs[u]: the states that user u may have in the source
    Mapped,         \* the schools the mapping file maps to this authority
    FirstSchools,   \* the schools that exist on the target at first
    Mappings,       \* the roles with a mapping of their own (users_<role>)
    Foreign,        \* the owner of accounts that the connector did not create
    ForeignNames,   \* the names of those accounts
    ForeignAccount, \* their content
    Absent,         \* no user, no account, no object, no old_data
    MaxChanges,     \* bound: number of changes in the source
    MaxFaults,      \* bound: number of failures of the target
    MaxCancels,     \* bound: number of cancellations of the scan
    MaxSchoolChanges \* bound: number of changes of the target's schools

RolePriority == <<"school_admin", "staff", "teacher", "legal_guardian", "student">>
SchoolRoles == {RolePriority[i] : i \in 1..5}

\* What the handler reads of a ListenerUserAddModifyObject.
UserObjects == UNION {Inputs[u] : u \in Users}

Accounts ==
    [of : Users \cup {Foreign}, ruid : Uids \cup {NoUid}, suid : Sources \cup {NoUid},
     school : Mapped, schools : SUBSET Mapped, mapping : {"users"} \cup Mappings,
     guardians : SUBSET Names, wards : SUBSET Names]

ASSUME SourcesAssumption ==
    /\ DefaultSource \in Sources /\ TargetSource \in Sources \cup {NoUid}
    /\ NoUid \notin Uids \cup Sources
ASSUME SchoolsAssumption == FirstSchools \subseteq Mapped /\ Mapped \subseteq Nat
ASSUME MappingsAssumption == Mappings \subseteq SchoolRoles
ASSUME ObjectsAssumption ==
    \A o \in UserObjects :
        /\ o \in [name : Names, ruid : Uids \cup {NoUid}, suid : Sources \cup {NoUid},
                  school : Nat, schools : SUBSET Nat, roles : SUBSET (SchoolRoles \X Nat),
                  guardians : SUBSET Names, wards : SUBSET Names]
        /\ o.school \in o.schools
ASSUME ForeignAssumption ==
    /\ Foreign \notin Users /\ ForeignNames \subseteq Names
    /\ ForeignAccount \in Accounts /\ ForeignAccount.of = Foreign
    /\ \A o \in UserObjects : ForeignAccount.suid \notin {o.suid, DefaultSource}
ASSUME BoundsAssumption ==
    {MaxChanges, MaxFaults, MaxCancels, MaxSchoolChanges} \subseteq Nat

VARIABLES
    source,     \* source[u]: the user in the source directory
    oldDB,      \* oldDB[u]: what the in queue keeps as the user's old_data
    queue,      \* the objects in the out queue, the first one is handled next
    pc,         \* where the handler is
    cur,        \* the object the handler works on
    req,        \* the request body made by map_attributes()
    found,      \* the name of the account found on the target
    cache,      \* the cached list of schools; {} if empty or older than its TTL
    schools,    \* the schools on the target
    target,     \* target[n]: the account of that name on the target
    lost,       \* lost[u]: what u's account missed because something else failed
    changes, faults, cancels, schoolChanges

sourceVars == <<source, oldDB, changes>>
handlerVars == <<pc, cur, req, found>>
countVars == <<faults, cancels, schoolChanges>>
vars == <<source, oldDB, queue, pc, cur, req, found, cache, schools, target, lost,
          changes, faults, cancels, schoolChanges>>

-----------------------------------------------------------------------------
OldData(o) == [ruid |-> o.ruid, suid |-> o.suid, schools |-> o.schools]

AddMod(u, o, old) == [user |-> u, op |-> "add_mod", obj |-> o, old |-> old]
Remove(u, old) == [user |-> u, op |-> "remove", obj |-> Absent, old |-> old]

OldDataOf(u) == {OldData(o) : o \in Inputs[u]}
ItemsOf(u) ==
    {AddMod(u, o, old) : o \in Inputs[u], old \in OldDataOf(u) \cup {Absent}}
        \cup {Remove(u, old) : old \in OldDataOf(u)}
Items == UNION {ItemsOf(u) : u \in Users}

ASSUME AbsentAssumption ==
    /\ Absent \notin Names /\ Absent \notin UserObjects /\ Absent \notin Accounts
    /\ \A o \in UserObjects : OldData(o) # Absent

Requests == [name : Names, ruid : Uids \cup {NoUid}, suid : Sources \cup {NoUid},
             school : Mapped, schools : SUBSET Mapped, mapping : {"users"} \cup Mappings,
             guardians : SUBSET Names, wards : SUBSET Names]

TypeOK ==
    /\ source \in [Users -> UserObjects \cup {Absent}]
    /\ oldDB \in [Users -> {OldData(o) : o \in UserObjects} \cup {Absent}]
    /\ \A u \in Users : /\ source[u] \in Inputs[u] \cup {Absent}
                        /\ oldDB[u] \in OldDataOf(u) \cup {Absent}
    /\ queue \in Seq(Items)
    /\ pc \in {"ping", "idle", "schools", "map", "search", "get", "save", "resave", "delete", "done"}
    /\ cur \in Items \cup {Absent}
    /\ req \in Requests \cup {Absent}
    /\ found \in Names \cup {Absent}
    /\ cache \in SUBSET Mapped
    /\ schools \in SUBSET Mapped
    /\ target \in [Names -> Accounts \cup {Absent}]
    /\ lost \in [Users -> {"nothing", "last", "identity"}]
    /\ changes \in 0..MaxChanges
    /\ faults \in 0..MaxFaults
    /\ cancels \in 0..MaxCancels
    /\ schoolChanges \in 0..MaxSchoolChanges

Init ==
    /\ source = [u \in Users |-> Absent]
    /\ oldDB = [u \in Users |-> Absent]
    /\ queue = <<>>
    /\ pc = "ping"
    /\ cur = Absent
    /\ req = Absent
    /\ found = Absent
    /\ cache = {}
    /\ schools = FirstSchools
    /\ target = [n \in Names |-> IF n \in ForeignNames THEN ForeignAccount ELSE Absent]
    /\ lost = [u \in Users |-> "nothing"]
    /\ changes = 0
    /\ faults = 0
    /\ cancels = 0
    /\ schoolChanges = 0

-----------------------------------------------------------------------------
(***************************************************************************)
(* The source and the in queue (external).  A username, and a pair of      *)
(* record_uid and source_uid, belong to one user at a time; an entryUUID   *)
(* is not used again.  The out queue gets the change if a present or       *)
(* former school is mapped to its authority.                               *)
(***************************************************************************)
SchoolsOf(old) == IF old = Absent THEN {} ELSE old.schools

Enqueue(item, present) ==
    queue' = IF (present \cup SchoolsOf(item.old)) \cap Mapped = {}
             THEN queue ELSE Append(queue, item)

SourceChanges(u, o) ==
    /\ changes < MaxChanges
    /\ source[u] # o
    /\ source[u] = Absent => oldDB[u] = Absent
    /\ \A v \in Users \ {u} : source[v] # Absent =>
          /\ source[v].name # o.name
          /\ o.ruid # NoUid => <<source[v].ruid, source[v].suid>> # <<o.ruid, o.suid>>
    /\ source' = [source EXCEPT ![u] = o]
    /\ oldDB' = [oldDB EXCEPT ![u] = OldData(o)]
    /\ Enqueue(AddMod(u, o, oldDB[u]), o.schools)
    /\ changes' = changes + 1
    /\ UNCHANGED <<handlerVars, cache, schools, target, lost, countVars>>

SourceRemoves(u) ==
    /\ changes < MaxChanges
    /\ source[u] # Absent
    /\ source' = [source EXCEPT ![u] = Absent]
    /\ Enqueue(Remove(u, oldDB[u]), {})
    /\ changes' = changes + 1
    /\ UNCHANGED <<oldDB, handlerVars, cache, schools, target, lost, countVars>>

-----------------------------------------------------------------------------
(* Operators of the handler. *)

\* handled_schools(): read from the mapping file once.
HandledSchools == Mapped

\* fetch_schools()
FetchSchools == schools

\* schools_ids_on_target: the cached list, fetched again if it is empty or too old.
SchoolsIdsOnTarget == IF cache = {} THEN FetchSchools ELSE cache

\* _handle_attr_school: the primary school if the target has it, else the first it has.
PrimarySchool(o, known) ==
    IF o.school \in known THEN o.school
    ELSE CHOOSE s \in o.schools \cap known : \A t \in o.schools \cap known : s <= t

\* _get_role_specific_mapping: the roles at the schools of this authority, by priority.
RoleSpecificMapping(o) ==
    LET here == {r \in Mappings : \E s \in HandledSchools : <<r, s>> \in o.roles}
        best == {i \in 1..5 : RolePriority[i] \in here}
    IN  IF best = {} THEN "users"
        ELSE RolePriority[CHOOSE i \in best : \A j \in best : i <= j]

\* _handle_attr_schools: those of the user's schools that the target has.
SchoolsThere(o, known) == o.schools \cap known

(***************************************************************************)
(* map_attributes(), with the documented mapping: a record_uid or a        *)
(* source_uid that is not set is NoUid in the request, which means that it *)
(* is not sent (SkipAttribute).  (_handle_attr_source_uid is for a key     *)
(* source_uid; the mapping's key is ucsschoolSourceUID.)                   *)
(***************************************************************************)
MapAttributes(o, known) ==
    [name |-> o.name,
     ruid |-> o.ruid,
     suid |-> o.suid,
     school |-> PrimarySchool(o, known),
     schools |-> SchoolsThere(o, known),
     mapping |-> RoleSpecificMapping(o),
     guardians |-> o.guardians,
     wards |-> o.wards]

\* A defect of SearchRecordUid: the record_uid of old_data is not used.
SearchRecordUidNew(item) ==
    IF item.op = "add_mod" THEN item.obj.ruid ELSE item.old.ruid

\* search_params(): what old_data says, else what the object says.
SearchRecordUid(item) ==
    IF item.old # Absent /\ item.old.ruid # NoUid THEN item.old.ruid
    ELSE IF item.op = "add_mod" THEN item.obj.ruid ELSE NoUid

SearchSourceUid(item) ==
    IF item.old # Absent /\ item.old.suid # NoUid THEN item.old.suid
    ELSE IF item.op = "add_mod" /\ item.obj.suid # NoUid THEN item.obj.suid ELSE DefaultSource

(***************************************************************************)
(* search_params() reads params["source_uid"] and params["record_uid"],    *)
(* which it has only set for an object to be removed if old_data has them: *)
(* else it raises KeyError.                                                *)
(***************************************************************************)
ParamsMissing(item) ==
    item.op = "remove" /\ (item.old.ruid = NoUid \/ item.old.suid = NoUid)

\* A defect of Matches: the source_uid is not looked at.
MatchesRecordUid(n, item) == target[n] # Absent /\ target[n].ruid = SearchRecordUid(item)

\* fetch_obj(): the accounts with the record_uid and source_uid.
Matches(n, item) ==
    /\ target[n] # Absent
    /\ target[n].ruid = SearchRecordUid(item)
    /\ target[n].suid = SearchSourceUid(item)

Found(item) == {n \in Names : Matches(n, item)}

\* A defect of RemoveObject: it is not given the old_data.
RemoveObjectBare(item) == Remove(item.user, Absent)

\* handle_has_no_schools(): an object to remove the user is made from the one at hand.
RemoveObject(item) ==
    Remove(item.user, IF item.old # Absent THEN item.old ELSE OldData(item.obj))

Existing == {n \in Names : target[n] # Absent}

\* The Kelvin API answers InvalidRequest if a linked user does not exist (external).
BrokenLinks == {k \in {"guardians", "wards"} : ~(req[k] \subseteq Existing)}

\* The Kelvin API refuses a name in use and an account that is gone (external).
NameTaken == req.name # found /\ target[req.name] # Absent
AccountGone == found # Absent /\ target[found] = Absent

-----------------------------------------------------------------------------
(* How the handling of an object ends. *)

\* A change of the same user at the same target that leaves the account's identity alone.
KeepsIdentity(item) ==
    /\ item.op = "add_mod"
    /\ item.obj.ruid # NoUid
    /\ item.obj.schools \cap Mapped # {}
    /\ item.old # Absent => item.old.ruid = item.obj.ruid /\ item.old.suid = item.obj.suid

EndHandling ==
    /\ queue' = Tail(queue)
    /\ pc' = "idle"
    /\ cur' = Absent
    /\ req' = Absent
    /\ found' = Absent

\* The handler raises: the object goes to the trash.  excused: not by its own doing.
Raise(excused) ==
    /\ EndHandling
    /\ lost' = [lost EXCEPT ![cur.user] =
          IF ~excused \/ @ = "identity" THEN @
          ELSE IF KeepsIdentity(Head(queue)) THEN "last" ELSE "identity"]

\* The target has what the object asks for.  Without a record_uid it cannot be found by it.
CarriedOut ==
    lost' = [lost EXCEPT ![cur.user] =
        IF cur.op = "add_mod" /\ cur.obj.ruid = NoUid THEN "identity"
        ELSE IF @ = "last" THEN "nothing" ELSE @]

-----------------------------------------------------------------------------
(* The steps of the handler. *)

\* scan() starts: school_authority_ping() refreshes the cached list of schools.
Ping ==
    /\ pc = "ping"
    /\ pc' = "idle"
    /\ cache' = FetchSchools
    /\ UNCHANGED <<sourceVars, queue, cur, req, found, schools, target, lost, countVars>>

\* handle_listener_object()
HandleListenerObject ==
    /\ pc = "idle"
    /\ queue # <<>>
    /\ cur' = Head(queue)
    /\ pc' = IF Head(queue).op = "add_mod" THEN "schools" ELSE "search"
    /\ UNCHANGED <<sourceVars, queue, req, found, cache, schools, target, lost, countVars>>

\* handle_create_or_update() with user_has_schools()
UserHasSchools ==
    /\ pc = "schools"
    /\ cache' = SchoolsIdsOnTarget
    /\ IF cur.obj.schools \cap SchoolsIdsOnTarget # {}
       THEN pc' = "map" /\ UNCHANGED cur
       ELSE pc' = "search" /\ cur' = RemoveObject(cur)
    /\ UNCHANGED <<sourceVars, queue, req, found, schools, target, lost, countVars>>

\* do_create_or_update(): the attributes are mapped before the user is searched.
Map ==
    /\ pc = "map"
    /\ cache' = SchoolsIdsOnTarget
    /\ cur.obj.schools \cap SchoolsIdsOnTarget # {}
    /\ req' = MapAttributes(cur.obj, SchoolsIdsOnTarget)
    /\ pc' = "search"
    /\ UNCHANGED <<sourceVars, queue, cur, found, schools, target, lost, countVars>>

\* The list was fetched again meanwhile and none of the schools is left: UnknownSchool.
MapRaises ==
    /\ pc = "map"
    /\ cache' = SchoolsIdsOnTarget
    /\ cur.obj.schools \cap SchoolsIdsOnTarget = {}
    /\ Raise(TRUE)
    /\ UNCHANGED <<sourceVars, schools, target, countVars>>

\* exists_on_target() finds the account.
SearchFinds(n) ==
    /\ pc = "search"
    /\ ~ParamsMissing(cur) /\ SearchRecordUid(cur) # NoUid
    /\ Found(cur) = {n}
    /\ found' = n
    /\ pc' = "get"
    /\ UNCHANGED <<sourceVars, queue, cur, req, cache, schools, target, lost, countVars>>

\* It finds none: the account is created, or there is nothing to remove.
SearchFindsNone ==
    /\ pc = "search"
    /\ ~ParamsMissing(cur) /\ SearchRecordUid(cur) # NoUid
    /\ Found(cur) = {}
    /\ IF cur.op = "add_mod"
       THEN pc' = "save" /\ UNCHANGED lost
       ELSE pc' = "done" /\ CarriedOut
    /\ UNCHANGED <<sourceVars, queue, cur, req, found, cache, schools, target, countVars>>

\* MissingData is logged and the handler returns: nothing was done.
SearchMissesData ==
    /\ pc = "search"
    /\ cur.op = "add_mod" /\ SearchRecordUid(cur) = NoUid
    /\ EndHandling
    /\ lost' = [lost EXCEPT ![cur.user] = "identity"]
    /\ UNCHANGED <<sourceVars, cache, schools, target, countVars>>

\* KeyError or UniquenessError.  Without a record_uid there is no account to be found, and an
\* account of another user is only found after a change of that user's identity was lost.
SearchRaises ==
    /\ pc = "search"
    /\ ParamsMissing(cur) \/ Cardinality(Found(cur)) > 1
    /\ Raise(\/ SearchRecordUid(cur) = NoUid
             \/ \E n \in Found(cur) : target[n].of # cur.user)
    /\ UNCHANGED <<sourceVars, cache, schools, target, countVars>>

\* do_modify() and do_remove() get the account by its name.
Get ==
    /\ pc = "get"
    /\ target[found] # Absent
    /\ pc' = IF cur.op = "add_mod" THEN "save" ELSE "delete"
    /\ UNCHANGED <<sourceVars, queue, cur, req, found, cache, schools, target, lost, countVars>>

\* The account was deleted on the target meanwhile: NoObject.
GetRaises ==
    /\ pc \in {"get", "delete"}
    /\ target[found] = Absent
    /\ Raise(TRUE)
    /\ UNCHANGED <<sourceVars, cache, schools, target, countVars>>

\* A defect of Stored: do_modify() skips the guardians if there are none left.
StoredSkipsEmpty(ruid, suid) ==
    [of |-> cur.user, ruid |-> IF req.ruid = NoUid THEN ruid ELSE req.ruid,
     suid |-> IF req.suid = NoUid THEN suid ELSE req.suid,
     school |-> req.school, schools |-> req.schools, mapping |-> req.mapping,
     guardians |-> IF req.guardians = {} /\ found # Absent THEN target[found].guardians
                   ELSE req.guardians,
     wards |-> req.wards]

(***************************************************************************)
(* What the Kelvin API stores (external): a record_uid and a source_uid    *)
(* that are not sent stay as they are, ruid and suid.                      *)
(***************************************************************************)
Stored(ruid, suid) ==
    [of |-> cur.user, ruid |-> IF req.ruid = NoUid THEN ruid ELSE req.ruid,
     suid |-> IF req.suid = NoUid THEN suid ELSE req.suid,
     school |-> req.school, schools |-> req.schools, mapping |-> req.mapping,
     guardians |-> req.guardians, wards |-> req.wards]

\* do_create() or do_modify(): the account is saved, by its new name.
Save ==
    /\ pc \in {"save", "resave"}
    /\ ~NameTaken /\ ~AccountGone /\ BrokenLinks = {}
    /\ target' = [n \in Names |->
          IF n = req.name THEN IF found = Absent THEN Stored(NoUid, TargetSource)
                               ELSE Stored(target[found].ruid, target[found].suid)
          ELSE IF n = found THEN Absent
          ELSE target[n]]
    /\ pc' = "done"
    /\ CarriedOut
    /\ UNCHANGED <<sourceVars, queue, cur, req, found, cache, schools, countVars>>

\* A defect of DropLinks: the users that are not on the target are kept.
DropLinksKeepsAll(k) ==
    /\ pc = "save"
    /\ k \in BrokenLinks
    /\ pc' = "resave"
    /\ UNCHANGED <<sourceVars, queue, cur, req, found, cache, schools, target, lost, countVars>>

\* save_user_with_retry(): the linked users that the target does not have are left out.
DropLinks(k) ==
    /\ pc = "save"
    /\ k \in BrokenLinks
    /\ req' = [req EXCEPT ![k] = @ \cap Existing]
    /\ pc' = "resave"
    /\ UNCHANGED <<sourceVars, queue, cur, found, cache, schools, target, lost, countVars>>

(***************************************************************************)
(* InvalidRequest for another reason, or a second time.  It is the         *)
(* handler's own doing if the name is in use by an account of the same     *)
(* user, or if it tried again without leaving out any link.                *)
(***************************************************************************)
LinksDropped == req.guardians # cur.obj.guardians \/ req.wards # cur.obj.wards

SaveRaises ==
    /\ pc \in {"save", "resave"}
    /\ NameTaken \/ AccountGone \/ (pc = "resave" /\ BrokenLinks # {})
    /\ Raise(\/ AccountGone
             \/ NameTaken /\ target[req.name].of # cur.user
             \/ BrokenLinks # {} /\ LinksDropped)
    /\ UNCHANGED <<sourceVars, cache, schools, target, countVars>>

\* do_remove()
Delete ==
    /\ pc = "delete"
    /\ target[found] # Absent
    /\ target' = [target EXCEPT ![found] = Absent]
    /\ pc' = "done"
    /\ CarriedOut
    /\ UNCHANGED <<sourceVars, queue, cur, req, found, cache, schools, countVars>>

\* The handler returns and scan() unlinks the object's file.
Done ==
    /\ pc = "done"
    /\ EndHandling
    /\ UNCHANGED <<sourceVars, cache, schools, target, lost, countVars>>

-----------------------------------------------------------------------------
(* What happens around the handler. *)

\* A call of the API fails, or its answer is lost after the target carried it out.
Fault ==
    /\ faults < MaxFaults
    /\ \/ pc \in {"search", "get", "save", "resave", "delete", "done"}
       \/ pc \in {"schools", "map"} /\ cache = {}
    /\ faults' = faults + 1
    /\ Raise(TRUE)
    /\ UNCHANGED <<sourceVars, cache, schools, target, cancels, schoolChanges>>

\* stop_task() or a kill: the object is handled again from the start.
Cancel ==
    /\ pc # "ping"
    /\ cancels < MaxCancels
    /\ cancels' = cancels + 1
    /\ pc' = "ping"
    /\ cur' = Absent
    /\ req' = Absent
    /\ found' = Absent
    /\ UNCHANGED <<sourceVars, queue, cache, schools, target, lost, faults, schoolChanges>>

\* API_SCHOOL_CACHE_TTL has passed.
CacheExpires ==
    /\ cache # {}
    /\ cache' = {}
    /\ UNCHANGED <<sourceVars, queue, handlerVars, schools, target, lost, countVars>>

\* Schools are created or removed on the target (external).
TargetSchoolsChange(new) ==
    /\ schoolChanges < MaxSchoolChanges
    /\ new # schools
    /\ schools' = new
    /\ schoolChanges' = schoolChanges + 1
    /\ UNCHANGED <<sourceVars, queue, handlerVars, cache, target, lost, faults, cancels>>

\* The target's administrator deletes an account (external).
AdminDeletes(n) ==
    /\ faults < MaxFaults
    /\ target[n] # Absent /\ target[n].of \in Users
    /\ target' = [target EXCEPT ![n] = Absent]
    /\ lost' = [lost EXCEPT ![target[n].of] = IF @ = "nothing" THEN "last" ELSE @]
    /\ faults' = faults + 1
    /\ UNCHANGED <<sourceVars, queue, handlerVars, cache, schools, cancels, schoolChanges>>

HandlerStep ==
    \/ Ping
    \/ HandleListenerObject
    \/ UserHasSchools
    \/ Map
    \/ MapRaises
    \/ \E n \in Names : SearchFinds(n)
    \/ SearchFindsNone
    \/ SearchMissesData
    \/ SearchRaises
    \/ Get
    \/ GetRaises
    \/ Save
    \/ \E k \in {"guardians", "wards"} : DropLinks(k)
    \/ SaveRaises
    \/ Delete
    \/ Done

Next ==
    \/ \E u \in Users : \E o \in Inputs[u] : SourceChanges(u, o)
    \/ \E u \in Users : SourceRemoves(u)
    \/ HandlerStep
    \/ Fault
    \/ Cancel
    \/ CacheExpires
    \/ \E new \in SUBSET Mapped : TargetSchoolsChange(new)
    \/ \E n \in Names : AdminDeletes(n)

Spec == Init /\ [][Next]_vars

-----------------------------------------------------------------------------
(***************************************************************************)
(* Properties.                                                             *)
(***************************************************************************)
AccountsOf(u) == {n \in Names : target[n] # Absent /\ target[n].of = u}

Settled(u) == \A i \in 1..Len(queue) : queue[i].user # u

BelongsThere(u) == source[u] # Absent /\ source[u].schools \cap schools # {}

\* Account a of name n says what the source says of the user, as far as the target may know.
IsImage(a, n, o) ==
    /\ n = o.name /\ a.ruid = o.ruid /\ a.suid = o.suid
    /\ a.schools = o.schools \cap schools
    /\ a.school \in a.schools /\ (o.school \in schools => a.school = o.school)
    /\ a.guardians \subseteq o.guardians /\ a.wards \subseteq o.wards
    /\ \A s \in Mapped, r \in Mappings :
          <<r, s>> \in o.roles =>
              \E i, j \in 1..5 : RolePriority[i] = a.mapping /\ RolePriority[j] = r /\ i <= j

(***************************************************************************)
(* The target converges: once all changes of a user are handled, the       *)
(* target has exactly one account for the user, with the attributes of the *)
(* last change, if one of the user's schools is there, and none otherwise. *)
(* This holds through renamings, changes of record_uid, moves between      *)
(* schools, linked users that are not there yet, and handlers cancelled    *)
(* after the request was carried out, and again after a failure once a     *)
(* later change was handled, unless the change that failed was one of the  *)
(* account's identity.  (The target's schools stay the same here.)         *)
(***************************************************************************)
Converges ==
    \A u \in Users :
        Settled(u) /\ lost[u] = "nothing" /\ schoolChanges = 0 =>
            IF BelongsThere(u)
            THEN \E n \in Names : AccountsOf(u) = {n} /\ IsImage(target[n], n, source[u])
            ELSE AccountsOf(u) = {}

(***************************************************************************)
(* A user never has two accounts on the target, as long as no change of    *)
(* the user's identity was lost: the account is searched by the record_uid *)
(* of the change before, also if the object is handled twice.              *)
(***************************************************************************)
OneAccountPerUser ==
    \A u \in Users : lost[u] # "identity" => Cardinality(AccountsOf(u)) <= 1

(***************************************************************************)
(* The handler of an object touches accounts of that object's user only,   *)
(* never the ones the target's school manages itself.  Another user's      *)
(* account can only be taken over after a change of that user's identity   *)
(* was lost.                                                               *)
(***************************************************************************)
OnlyOwnAccounts ==
    [][\A n \in Names :
          target[n] # Absent /\ target'[n] # target[n] /\ faults' = faults =>
              \/ target[n].of = Head(queue).user
              \/ target[n].of \in Users /\ lost[target[n].of] = "identity"]_vars

-----------------------------------------------------------------------------
(***************************************************************************)
(* The handler implements Replication: at any time, not only when a user   *)
(* is settled, what the target has of a user was asked for by one object   *)
(* of the queue after the other, in one step each.  An object leaves the   *)
(* queue when its account says what it says, or is on record as lost, and  *)
(* the next one makes up for a loss that left the identity alone, whatever *)
(* was renamed, dropped, cancelled, handled twice or deleted in between.   *)
(* (If the target's schools change, all users count as astray.)            *)
(***************************************************************************)
AccountImages(u, o) ==
    [of : {u}, ruid : {o.ruid}, suid : {o.suid},
     school : {s \in o.schools \cap FirstSchools : o.school \in FirstSchools => s = o.school},
     schools : {o.schools \cap FirstSchools},
     mapping : {m \in {"users"} \cup Mappings :
                   \A s \in Mapped, r \in Mappings : <<r, s>> \in o.roles =>
                       \E i, j \in 1..5 : RolePriority[i] = m /\ RolePriority[j] = r /\ i <= j},
     guardians : SUBSET o.guardians, wards : SUBSET o.wards]

RightAccounts(u, o) ==
    IF o = Absent \/ o.schools \cap FirstSchools = {} THEN {{}}
    ELSE {{[name |-> o.name, account |-> a]} : a \in AccountImages(u, o)}

ReportsOf(q) == [i \in 1..Len(q) |-> [of |-> q[i].user, says |-> q[i].obj]]

AccountsThere == [u \in Users |-> {[name |-> n, account |-> target[n]] : n \in AccountsOf(u)}]

Fate ==
    [u \in Users |->
        IF lost[u] = "identity" \/ schoolChanges # 0 THEN "astray"
        ELSE IF lost[u] = "last" THEN "missed" ELSE "kept"]

RP == INSTANCE Replication
      WITH Objects <- Users, Contents <- UserObjects \cup {Absent}, Absent <- Absent,
           Accounts <- [name : Names, account : Accounts], Right <- RightAccounts,
           source <- source, reports <- ReportsOf(queue),
           there <- AccountsThere, fate <- Fate

ImplementsReplication == RP!Spec

(***************************************************************************)
(* "if unset, source_uid can be taken from import configuration"           *)
(* (search_params()): if the target gives accounts the same source_uid by  *)
(* default, the account of a user without one is found by it, also when    *)
(* the user is removed or has left.                                        *)
(***************************************************************************)
UnsetSourceUidIsFound ==
    \A u \in Users :
        /\ TargetSource = DefaultSource
        /\ Settled(u) /\ lost[u] = "nothing" /\ schoolChanges = 0
        /\ oldDB[u] # Absent /\ oldDB[u].suid = NoUid
        /\ ~BelongsThere(u)
        => AccountsOf(u) = {}
=============================================================================
