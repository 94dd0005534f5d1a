--------------------------- MODULE KelvinClasses ---------------------------
(***************************************************************************)
(* The handler of school classes that an out queue calls for its school    *)
(* authority: KelvinPerSASchoolClassDispatcher of the plugin kelvin, or    *)
(* its variant of the plugin kelvin-partial-group-sync, which leaves the   *)
(* members with certain roles, and those unknown to the source, to the     *)
(* target's school.                                                        *)
(*                                                                         *)
(* The handler works on an object that says which members a class had when *)
(* it was changed, on the LDAP directory as it is now, and on the target's *)
(* class, read early and written back late, while users disappear from the *)
(* source, accounts appear and disappear on the target (the user handler's *)
(* doing, see KelvinUsers) and the target's school changes the class       *)
(* itself.                                                                 *)
(***************************************************************************)
EXTENDS Integers, Sequences, FiniteSets

CONSTANTS
    Classes,        \* school classes, each with its school
    Pupils,         \* usernames of the source with no role to ignore
    Teachers,       \* usernames of the source with a role in school_classes_ignore_roles
    Strangers,      \* usernames of the target that the source does not know
    UnknownSchools, \* the classes whose school does not exist on the target
    Absent,         \* no class
    MaxChanges,     \* bound: number of changes in the source
    MaxTargetChanges, \* bound: number of changes made on the target by others
    MaxFaults,      \* bound: number of failures of the target and of LDAP
    MaxCancels      \* bound: number of cancellations of the scan

SourceUsers == Pupils \cup Teachers
Usernames == SourceUsers \cup Strangers

ASSUME ClassesAssumption == UnknownSchools \subseteq Classes
ASSUME UsersAssumption ==
    Pupils \cap Teachers = {} /\ SourceUsers \cap Strangers = {}
ASSUME AbsentAssumption == \A S \in SUBSET Usernames : Absent # S
ASSUME BoundsAssumption == {MaxChanges, MaxTargetChanges, MaxFaults, MaxCancels} \subseteq Nat

VARIABLES
    partial,    \* is the plugin kelvin-partial-group-sync configured?
    ldap,       \* the users in the source's LDAP directory
    source,     \* source[g]: the members of class g in the source
    queue,      \* the objects in the out queue, the first one is handled next
    pc,         \* where the handler is
    users,      \* the attribute users of the request body
    remote,     \* the members of the class on the target, as the handler read them
    found,      \* does the class exist on the target, as far as the handler knows?
    misled,     \* has LDAP refused to look up a member, unnoticed by the handler?
    accounts,   \* the usernames that exist on the target
    target,     \* target[g]: the members of class g on the target
    lost,       \* the classes whose last object was not carried out
    changes, targetChanges, faults, cancels

sourceVars == <<partial, ldap, source, changes>>
handlerVars == <<pc, users, remote, found, misled>>
boundVars == <<targetChanges, faults, cancels>>
vars == <<partial, ldap, source, queue, pc, users, remote, found, misled, accounts, target,
          lost, changes, targetChanges, faults, cancels>>

Items == [class : Classes, members : (SUBSET SourceUsers) \cup {Absent}]

TypeOK ==
    /\ partial \in BOOLEAN
    /\ ldap \in SUBSET SourceUsers
    /\ source \in [Classes -> (SUBSET SourceUsers) \cup {Absent}]
    /\ queue \in Seq(Items)
    /\ pc \in {"idle", "school", "ldap", "remote", "roles", "search", "get", "save", "delete", "done"}
    /\ users \in SUBSET Usernames
    /\ remote \in SUBSET Usernames
    /\ found \in BOOLEAN
    /\ misled \in BOOLEAN
    /\ accounts \in SUBSET Usernames
    /\ target \in [Classes -> (SUBSET accounts) \cup {Absent}]
    /\ \A g \in UnknownSchools : target[g] = Absent
    /\ lost \in SUBSET Classes
    /\ changes \in 0..MaxChanges
    /\ targetChanges \in 0..MaxTargetChanges
    /\ faults \in 0..MaxFaults
    /\ cancels \in 0..MaxCancels

Init ==
    /\ partial \in BOOLEAN
    /\ ldap = SourceUsers
    /\ source = [g \in Classes |-> Absent]
    /\ queue = <<>>
    /\ pc = "idle"
    /\ users = {}
    /\ remote = {}
    /\ found = FALSE
    /\ misled = FALSE
    /\ accounts = Usernames
    /\ target = [g \in Classes |-> Absent]
    /\ lost = {}
    /\ changes = 0
    /\ targetChanges = 0
    /\ faults = 0
    /\ cancels = 0

-----------------------------------------------------------------------------
(* The source and the in queue, which passes on the changes in order (external). *)

ClassChanges(g, members) ==
    /\ changes < MaxChanges
    /\ source[g] # members
    /\ source' = [source EXCEPT ![g] = members]
    /\ queue' = Append(queue, [class |-> g, members |-> members])
    /\ changes' = changes + 1
    /\ UNCHANGED <<partial, ldap, handlerVars, accounts, target, lost, boundVars>>

\* A removed user leaves the classes afterwards, each by a change of its own.
UserRemoved(u) ==
    /\ changes < MaxChanges
    /\ u \in ldap
    /\ ldap' = ldap \ {u}
    /\ changes' = changes + 1
    /\ UNCHANGED <<partial, source, queue, handlerVars, accounts, target, lost, boundVars>>

MemberLeaves(u, g) ==
    /\ source[g] # Absent
    /\ u \in source[g] \ ldap
    /\ source' = [source EXCEPT ![g] = @ \ {u}]
    /\ queue' = Append(queue, [class |-> g, members |-> source[g] \ {u}])
    /\ UNCHANGED <<partial, ldap, changes, handlerVars, accounts, target, lost, boundVars>>

-----------------------------------------------------------------------------
(* The target's side (external). *)

Without(u) == [g \in Classes |-> IF target[g] = Absent THEN Absent ELSE target[g] \ {u}]

\* The target's school changes who belongs to a class ...
SchoolEdits(g, u) ==
    /\ targetChanges < MaxTargetChanges
    /\ target[g] # Absent
    /\ u \in accounts \ Pupils
    /\ target' = [target EXCEPT ![g] = IF u \in @ THEN @ \ {u} ELSE @ \cup {u}]
    /\ targetChanges' = targetChanges + 1
    /\ UNCHANGED <<sourceVars, queue, handlerVars, accounts, lost, faults, cancels>>

\* ... or deletes it.
SchoolDeletes(g) ==
    /\ targetChanges < MaxTargetChanges
    /\ target[g] # Absent
    /\ target' = [target EXCEPT ![g] = Absent]
    /\ lost' = lost \cup {g}
    /\ targetChanges' = targetChanges + 1
    /\ UNCHANGED <<sourceVars, queue, handlerVars, accounts, faults, cancels>>

\* The account of a removed user is deleted, by the same queue and so between two objects.
AccountDeleted(u) ==
    /\ pc = "idle"
    /\ u \in (accounts \cap SourceUsers) \ ldap
    /\ accounts' = accounts \ {u}
    /\ target' = Without(u)
    /\ UNCHANGED <<sourceVars, queue, handlerVars, lost, boundVars>>

\* The account of a user is deleted on the target although the user exists, which may also
\* make the class invalid that the handler is about to write back ...
AccountMissing(u) ==
    /\ targetChanges < MaxTargetChanges
    /\ u \in accounts \cap ldap
    /\ accounts' = accounts \ {u}
    /\ target' = Without(u)
    /\ lost' = lost \cup {g \in Classes : target[g] # Absent /\ u \in target[g]}
                   \cup {g \in Classes : u \in remote /\ g = Head(queue).class}
    /\ targetChanges' = targetChanges + 1
    /\ UNCHANGED <<sourceVars, queue, handlerVars, faults, cancels>>

\* ... until it is sent again.
AccountCreated(u) ==
    /\ pc = "idle"
    /\ u \in ldap \ accounts
    /\ accounts' = accounts \cup {u}
    /\ UNCHANGED <<sourceVars, queue, handlerVars, target, lost, boundVars>>

-----------------------------------------------------------------------------
(* Operators of the handler. *)

cur == Head(queue)

\* A defect of PreconditionsMet: the class's school is not looked up.
IsSchoolsClass(item) == item.class \in Classes

\* is_schools_class(), true of all the groups the in queue passes on, and
\* school_class_school_exists_on_target()
PreconditionsMet(item) == item.class \in Classes \ UnknownSchools

\* _handle_attr_users(): the names in the DNs of the object's members
LocalUsernames(item) == IF item.members = Absent THEN {} ELSE item.members

(***************************************************************************)
(* LDAPAccess.get_user() finds a user in LDAP.  For one that is not there, *)
(* but also if LDAP refuses the connector's bind, it returns None.         *)
(***************************************************************************)
GetUser(refused) == ldap \ refused

\* _check_user_ignore(), for a user that is in LDAP
CheckUserIgnore(u) == u \in Teachers

\* A defect of UsersAttribute: the target's own members are not kept.
UsersAttributeLocalOnly(names, there, known) == {u \in names : ~CheckUserIgnore(u)}

\* A defect of UsersAttribute: members are only ever added.
UsersAttributeAddsOnly(names, there, known) == {u \in names : ~CheckUserIgnore(u)} \cup there

(***************************************************************************)
(* _handle_attr_users() of the partial group sync: the local members but   *)
(* those to ignore, the target's members to ignore, and those that         *)
(* get_user() does not find.                                               *)
(***************************************************************************)
UsersAttribute(names, there, known) ==
    {u \in names : ~CheckUserIgnore(u)}
        \cup {u \in there \cap known : CheckUserIgnore(u)}
        \cup (there \ known)

EndHandling ==
    /\ queue' = Tail(queue)
    /\ pc' = "idle"
    /\ users' = {}
    /\ remote' = {}
    /\ found' = FALSE
    /\ misled' = FALSE

-----------------------------------------------------------------------------
(* The steps of the handler. *)

HandleListenerObject ==
    /\ pc = "idle"
    /\ queue # <<>>
    /\ pc' = "school"
    /\ UNCHANGED <<sourceVars, queue, users, remote, found, misled, accounts, target, lost, boundVars>>

\* create_or_update_preconditions_met() and remove_preconditions_met()
CheckPreconditions ==
    /\ pc = "school"
    /\ PreconditionsMet(cur)
    /\ pc' = IF partial /\ cur.members # Absent THEN "ldap" ELSE "search"
    /\ users' = LocalUsernames(cur)
    /\ UNCHANGED <<sourceVars, queue, remote, found, misled, accounts, target, lost, boundVars>>

SkipObject ==
    /\ pc = "school"
    /\ ~PreconditionsMet(cur)
    /\ EndHandling
    /\ UNCHANGED <<sourceVars, accounts, target, lost, boundVars>>

\* The roles of the local members are read from LDAP.
LookUpMembers ==
    /\ pc = "ldap"
    /\ cur.members \subseteq GetUser({})
    /\ pc' = "remote"
    /\ UNCHANGED <<sourceVars, queue, users, remote, found, misled, accounts, target, lost, boundVars>>

\* get_user() returns None for a member that was removed meanwhile: AttributeError.
LookUpRaises ==
    /\ pc = "ldap"
    /\ ~(cur.members \subseteq GetUser({}))
    /\ EndHandling
    /\ UNCHANGED <<sourceVars, accounts, target, lost, boundVars>>

\* _get_remote_usernames()
GetRemoteUsernames ==
    /\ pc = "remote"
    /\ remote' = IF target[cur.class] = Absent THEN {} ELSE target[cur.class]
    /\ pc' = "roles"
    /\ UNCHANGED <<sourceVars, queue, users, found, misled, accounts, target, lost, boundVars>>

\* The target's members are looked up in LDAP.
HandleAttrUsers ==
    /\ pc = "roles"
    /\ users' = UsersAttribute(LocalUsernames(cur), remote, GetUser({}))
    /\ pc' = "search"
    /\ UNCHANGED <<sourceVars, queue, remote, found, misled, accounts, target, lost, boundVars>>

\* The bind is refused for some of them, who then seem to be unknown to the source.
BindRefused(refused) ==
    /\ pc = "roles"
    /\ faults < MaxFaults
    /\ refused # {}
    /\ users' = UsersAttribute(LocalUsernames(cur), remote, GetUser(refused))
    /\ misled' = TRUE
    /\ faults' = faults + 1
    /\ pc' = "search"
    /\ UNCHANGED <<sourceVars, queue, remote, found, accounts, target, lost, targetChanges, cancels>>

\* exists_on_target(): by name and school.  A class that is not there need not be removed.
Search ==
    /\ pc = "search"
    /\ found' = (target[cur.class] # Absent)
    /\ pc' = IF found' THEN "get" ELSE IF cur.members = Absent THEN "done" ELSE "save"
    /\ lost' = IF pc' = "done" THEN lost \ {cur.class} ELSE lost
    /\ UNCHANGED <<sourceVars, queue, users, remote, misled, accounts, target, boundVars>>

\* do_modify() and do_remove() get the class again.
Get ==
    /\ pc = "get"
    /\ target[cur.class] # Absent
    /\ pc' = IF cur.members = Absent THEN "delete" ELSE "save"
    /\ UNCHANGED <<sourceVars, queue, users, remote, found, misled, accounts, target, lost, boundVars>>

\* The class was deleted on the target meanwhile: NoObject.
ClassGone ==
    /\ pc \in {"get", "delete"}
    /\ target[cur.class] = Absent
    /\ EndHandling
    /\ UNCHANGED <<sourceVars, accounts, target, lost, boundVars>>

\* The Kelvin API answers "no object" for a member or a class it does not have (external).
NoObject == ~(users \subseteq accounts) \/ (found /\ target[cur.class] = Absent)

\* do_create() or do_modify(): the class is saved ...
Save ==
    /\ pc = "save"
    /\ ~NoObject
    /\ target' = [target EXCEPT ![cur.class] = users]
    /\ lost' = IF misled THEN lost \cup {cur.class} ELSE lost \ {cur.class}
    /\ pc' = "done"
    /\ UNCHANGED <<sourceVars, queue, users, remote, found, misled, accounts, boundVars>>

(***************************************************************************)
(* ... or NoObject is logged and the handler returns as if it had been.    *)
(* This is counted as a loss if an account of a present user is missing.   *)
(***************************************************************************)
SaveFindsNoObject ==
    /\ pc = "save"
    /\ NoObject
    /\ lost' = IF users \cap ldap \subseteq accounts THEN lost ELSE lost \cup {cur.class}
    /\ pc' = "done"
    /\ UNCHANGED <<sourceVars, queue, users, remote, found, misled, accounts, target, boundVars>>

\* do_remove()
Delete ==
    /\ pc = "delete"
    /\ target[cur.class] # Absent
    /\ target' = [target EXCEPT ![cur.class] = Absent]
    /\ lost' = lost \ {cur.class}
    /\ pc' = "done"
    /\ UNCHANGED <<sourceVars, queue, users, remote, found, misled, accounts, boundVars>>

\* The handler returns and scan() unlinks the object's file.
Done ==
    /\ pc = "done"
    /\ EndHandling
    /\ UNCHANGED <<sourceVars, accounts, target, lost, boundVars>>

\* A call of the API or LDAP fails, or its answer is lost: the object goes to the trash.
Fault ==
    /\ pc \in {"ldap", "roles", "remote", "search", "get", "save", "delete", "done"}
    /\ faults < MaxFaults
    /\ faults' = faults + 1
    /\ lost' = lost \cup {cur.class}
    /\ EndHandling
    /\ UNCHANGED <<sourceVars, accounts, target, targetChanges, cancels>>

\* stop_task() or a kill: the object is handled again from the start.
Cancel ==
    /\ pc # "idle"
    /\ cancels < MaxCancels
    /\ cancels' = cancels + 1
    /\ pc' = "idle"
    /\ users' = {}
    /\ remote' = {}
    /\ found' = FALSE
    /\ misled' = FALSE
    /\ UNCHANGED <<sourceVars, queue, accounts, target, lost, targetChanges, faults>>

HandlerStep ==
    \/ HandleListenerObject
    \/ CheckPreconditions
    \/ SkipObject
    \/ LookUpMembers
    \/ LookUpRaises
    \/ GetRemoteUsernames
    \/ HandleAttrUsers
    \/ \E refused \in SUBSET (remote \cap ldap) : BindRefused(refused)
    \/ Search
    \/ Get
    \/ ClassGone
    \/ Save
    \/ SaveFindsNoObject
    \/ Delete
    \/ Done

Next ==
    \/ \E g \in Classes : \E members \in (SUBSET ldap) \cup {Absent} : ClassChanges(g, members)
    \/ \E u \in SourceUsers : UserRemoved(u)
    \/ \E u \in SourceUsers, g \in Classes : MemberLeaves(u, g)
    \/ \E g \in Classes, u \in Usernames : SchoolEdits(g, u)
    \/ \E g \in Classes : SchoolDeletes(g)
    \/ \E u \in SourceUsers : AccountDeleted(u)
    \/ \E u \in SourceUsers : AccountMissing(u)
    \/ \E u \in SourceUsers : AccountCreated(u)
    \/ HandlerStep
    \/ Fault
    \/ Cancel

Spec == Init /\ [][Next]_vars

-----------------------------------------------------------------------------
(***************************************************************************)
(* Properties.                                                             *)
(***************************************************************************)

\* All changes of g have been handled, those that follow the removal of a member included.
Settled(g) ==
    /\ \A i \in 1..Len(queue) : queue[i].class # g
    /\ source[g] = Absent \/ source[g] \subseteq ldap

(***************************************************************************)
(* A school class converges: once all its changes are handled it exists on *)
(* the target if it does in the source, with the same members, as far as   *)
(* the connector is in charge of them.  This holds although a change may   *)
(* be thrown away because a member was removed from the source before it   *)
(* was handled, and although an object may be handled twice; after a       *)
(* failure it holds again with the next change.                            *)
(***************************************************************************)
ClassConverges ==
    \A g \in Classes \ UnknownSchools :
        Settled(g) /\ g \notin lost =>
            /\ source[g] = Absent <=> target[g] = Absent
            /\ source[g] # Absent => target[g] \cap Pupils \cap ldap = source[g] \cap Pupils

(***************************************************************************)
(* With the partial group sync the members that the target's school        *)
(* manages itself (users with a role to ignore and users unknown to the    *)
(* source) are not touched: after the class was written they are the ones  *)
(* that it had when the handler read it, whoever was removed from the      *)
(* source in between and whatever LDAP refuses to answer.                  *)
(***************************************************************************)
LocalMembersStay ==
    [][\A g \in Classes :
          partial /\ pc = "save" /\ target'[g] # target[g] /\ targetChanges' = targetChanges =>
              target'[g] \ Pupils = remote \ Pupils]_vars
=============================================================================
