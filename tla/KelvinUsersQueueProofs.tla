----------------------- MODULE KelvinUsersQueueProofs -----------------------
(***************************************************************************)
(* Proofs about KelvinUsers that need no hypothesis on the users: what the *)
(* handler has in hand at each of its steps (HandInv), and what the queue  *)
(* knows of the users (QueueInv).                                          *)
(*                                                                         *)
(* An object carries old_data, the user as the in queue saw it last.  So   *)
(* the queue tells who a user was at each of its positions (Holds), and a  *)
(* pair of record_uid and source_uid that was unique in the source when an *)
(* object was written is unique at that object's position in the queue     *)
(* (QueueUnique), however much the source has changed since.               *)
(***************************************************************************)
EXTENDS KelvinUsers, SequenceTheorems, WellFoundedInduction, TLAPS

-----------------------------------------------------------------------------
(* Lemmas about queues that are only appended to and taken from at the head. *)

\* The head of a queue is its first element.
LEMMA HeadIsFirst ==
    ASSUME NEW S, NEW q \in Seq(S), q # <<>>
    PROVE  Len(q) \in Nat /\ 1 \in 1..Len(q) /\ Head(q) = q[1] /\ Head(q) \in S
BY EmptySeq, LenProperties, HeadTailProperties

\* What is appended comes last and does not change what is before it.
LEMMA Appended ==
    ASSUME NEW S, NEW q \in Seq(S), NEW e \in S
    PROVE  /\ Append(q, e) \in Seq(S)
           /\ Append(q, e) # <<>>
           /\ Len(Append(q, e)) = Len(q) + 1
           /\ \A i \in 1..Len(q) : Append(q, e)[i] = q[i]
           /\ Append(q, e)[Len(q) + 1] = e
           /\ q # <<>> => Head(Append(q, e)) = Head(q)
BY AppendProperties, HeadIsFirst, LenProperties

\* Without its head, a queue is moved up by one.
LEMMA MovedUp ==
    ASSUME NEW S, NEW q \in Seq(S), q # <<>>
    PROVE  /\ Tail(q) \in Seq(S)
           /\ Len(q) \in Nat /\ Len(Tail(q)) = Len(q) - 1
           /\ \A i \in 1..Len(Tail(q)) : i + 1 \in 1..Len(q) /\ Tail(q)[i] = q[i + 1]
<1>1. Len(q) \in Nat
      BY LenProperties
<1> QED BY <1>1, HeadTailProperties

-----------------------------------------------------------------------------
(* Lemmas about roles. *)

\* A set of numbers has a smallest one.
LEMMA Smallest ==
    ASSUME NEW S \in SUBSET Nat, S # {}
    PROVE  \E s \in S : \A t \in S : s <= t
<1> DEFINE R == OpToRel(<, Nat)
<1>1. IsWellFoundedOn(R, Nat)
      BY NatLessThanWellFounded
<1>2. \A s, t \in Nat : s < t => <<s, t>> \in R
      BY DEF OpToRel
<1> HIDE DEF R
<1>3. PICK s \in S : \A t \in S : ~(<<t, s>> \in R)
      BY <1>1, WFMin
<1>4. ASSUME NEW t \in S PROVE s <= t
  <2>1. s \in Nat /\ t \in Nat
        OBVIOUS
  <2>2. ~(<<t, s>> \in R)
        BY <1>3
  <2>3. ~(t < s)
        BY <1>2, <2>1, <2>2
  <2> QED BY <2>1, <2>3
<1> QED BY <1>4

\* _get_role_specific_mapping picks a mapping that no other role of the user precedes.
LEMMA RoleFacts ==
    ASSUME NEW o \in UserObjects
    PROVE  /\ RoleSpecificMapping(o) \in {"users"} \cup Mappings
           /\ \A s \in Mapped, r \in Mappings :
                 <<r, s>> \in o.roles =>
                     \E i, j \in 1..5 : /\ RolePriority[i] = RoleSpecificMapping(o)
                                        /\ RolePriority[j] = r /\ i <= j
<1> DEFINE here == {r \in Mappings : \E s \in HandledSchools : <<r, s>> \in o.roles}
           best == {i \in 1..5 : RolePriority[i] \in here}
<1>1. best = {} => RoleSpecificMapping(o) = "users"
      BY DEF RoleSpecificMapping
<1>2. best # {} => \E i \in best : /\ RoleSpecificMapping(o) = RolePriority[i]
                                   /\ \A j \in best : i <= j
  <2>1. best # {} => \E i \in best : \A j \in best : i <= j
    <3>1. best \in SUBSET Nat
          OBVIOUS
    <3> HIDE DEF best
    <3> QED BY <3>1, Smallest
  <2> QED BY <2>1 DEF RoleSpecificMapping
<1>3. ASSUME NEW r \in Mappings, NEW s \in Mapped, <<r, s>> \in o.roles
      PROVE  \E j \in best : RolePriority[j] = r
  <2>1. PICK j \in 1..5 : RolePriority[j] = r
        BY MappingsAssumption DEF SchoolRoles
  <2> QED BY <1>3, <2>1 DEF HandledSchools
<1>4. \A i \in best : i \in 1..5 /\ RolePriority[i] \in Mappings
      OBVIOUS
<1> HIDE DEF best
<1> QED BY <1>1, <1>2, <1>3, <1>4

-----------------------------------------------------------------------------
(* Lemmas about the objects. *)

\* The bounds are numbers.
LEMMA Limits ==
    /\ MaxChanges \in Nat /\ MaxFaults \in Nat
    /\ MaxCancels \in Nat /\ MaxSchoolChanges \in Nat
BY BoundsAssumption

\* A state that a user may have in the source.
LEMMA ObjectFacts ==
    ASSUME NEW u \in Users, NEW o \in Inputs[u]
    PROVE  /\ o \in UserObjects /\ o # Absent /\ OldData(o) # Absent /\ OldData(o) \in OldDataOf(u)
           /\ o.name \in Names /\ o.ruid \in Uids \cup {NoUid} /\ o.suid \in Sources \cup {NoUid}
           /\ o.school \in o.schools /\ o.schools \subseteq Nat
           /\ o.guardians \subseteq Names /\ o.wards \subseteq Names
<1>1. o \in UserObjects
      BY DEF UserObjects
<1> QED BY <1>1, ObjectsAssumption, AbsentAssumption DEF OldDataOf

\* old_data of a user is what the user was at some time.
LEMMA OldDataFacts ==
    ASSUME NEW u \in Users, NEW old \in OldDataOf(u)
    PROVE  /\ old # Absent
           /\ \E o \in Inputs[u] : old = OldData(o) /\ old.ruid = o.ruid /\ old.suid = o.suid
                                   /\ old.schools = o.schools
BY ObjectFacts DEF OldDataOf, OldData

\* An object that reports a change of a user.
LEMMA AddModFacts ==
    ASSUME NEW u \in Users, NEW o \in Inputs[u], NEW old \in OldDataOf(u) \cup {Absent}
    PROVE  /\ AddMod(u, o, old) \in ItemsOf(u)
           /\ AddMod(u, o, old).user = u /\ AddMod(u, o, old).op = "add_mod"
           /\ AddMod(u, o, old).obj = o /\ AddMod(u, o, old).old = old
BY DEF AddMod, ItemsOf

\* An object that reports the removal of a user.
LEMMA RemoveFacts ==
    ASSUME NEW u \in Users, NEW old \in OldDataOf(u)
    PROVE  /\ Remove(u, old) \in ItemsOf(u)
           /\ Remove(u, old).user = u /\ Remove(u, old).op = "remove"
           /\ Remove(u, old).obj = Absent /\ Remove(u, old).old = old
BY DEF Remove, ItemsOf

\* Every object is one of these two.
LEMMA ItemFacts ==
    ASSUME NEW item \in Items
    PROVE  /\ item.user \in Users
           /\ item.op \in {"add_mod", "remove"}
           /\ item.op = "add_mod" => /\ item.obj \in Inputs[item.user]
                                     /\ item.old \in OldDataOf(item.user) \cup {Absent}
           /\ item.op = "remove" => item.obj = Absent /\ item.old \in OldDataOf(item.user)
<1>1. PICK u \in Users : item \in ItemsOf(u)
      BY DEF Items
<1>2. CASE \E o \in Inputs[u], old \in OldDataOf(u) \cup {Absent} : item = AddMod(u, o, old)
      BY <1>2, AddModFacts
<1>3. CASE \E old \in OldDataOf(u) : item = Remove(u, old)
      BY <1>3, RemoveFacts
<1> QED BY <1>1, <1>2, <1>3 DEF ItemsOf

\* The objects of a user are objects.
LEMMA ItemsOfItems ==
    ASSUME NEW u \in Users, NEW item \in ItemsOf(u)
    PROVE  item \in Items
BY DEF Items

\* handle_has_no_schools() makes an object of the same user, always with old_data.
LEMMA RemoveObjectFacts ==
    ASSUME NEW item \in Items, item.op = "add_mod"
    PROVE  /\ RemoveObject(item) \in Items
           /\ RemoveObject(item).user = item.user /\ RemoveObject(item).op = "remove"
           /\ RemoveObject(item).old =
                 IF item.old # Absent THEN item.old ELSE OldData(item.obj)
<1> DEFINE old == IF item.old # Absent THEN item.old ELSE OldData(item.obj)
<1>1. item.user \in Users /\ old \in OldDataOf(item.user)
      BY ItemFacts, ObjectFacts
<1> HIDE DEF old
<1>2. RemoveObject(item) = Remove(item.user, old)
      BY DEF RemoveObject, old
<1>3. RemoveObject(item).old = old
      BY <1>1, <1>2, RemoveFacts
<1> QED BY <1>1, <1>2, <1>3, RemoveFacts, ItemsOfItems DEF old

\* map_attributes() for a user with a school on the target.
LEMMA MapFacts ==
    ASSUME NEW u \in Users, NEW o \in Inputs[u],
           NEW known \in SUBSET Mapped, o.schools \cap known # {}
    PROVE  /\ MapAttributes(o, known) \in Requests
           /\ MapAttributes(o, known).name = o.name
           /\ MapAttributes(o, known).ruid = o.ruid
           /\ MapAttributes(o, known).suid = o.suid
           /\ MapAttributes(o, known).schools = o.schools \cap known
           /\ MapAttributes(o, known).school \in o.schools \cap known
           /\ o.school \in known => MapAttributes(o, known).school = o.school
           /\ MapAttributes(o, known).mapping = RoleSpecificMapping(o)
           /\ MapAttributes(o, known).guardians = o.guardians
           /\ MapAttributes(o, known).wards = o.wards
<1>1. /\ o \in UserObjects /\ o.name \in Names /\ o.ruid \in Uids \cup {NoUid}
      /\ o.suid \in Sources \cup {NoUid} /\ o.school \in o.schools /\ o.schools \subseteq Nat
      /\ o.guardians \subseteq Names /\ o.wards \subseteq Names
      BY ObjectFacts
<1>2. /\ PrimarySchool(o, known) \in o.schools \cap known
      /\ o.school \in known => PrimarySchool(o, known) = o.school
  <2>1. \E s \in o.schools \cap known : \A t \in o.schools \cap known : s <= t
    <3>1. o.schools \cap known \in SUBSET Nat
          BY <1>1
    <3> QED BY <3>1, Smallest
  <2> QED BY <1>1, <2>1 DEF PrimarySchool
<1>3. RoleSpecificMapping(o) \in {"users"} \cup Mappings
      BY <1>1, RoleFacts
<1>4. SchoolsThere(o, known) = o.schools \cap known
      BY DEF SchoolsThere
<1> QED BY <1>1, <1>2, <1>3, <1>4 DEF MapAttributes, Requests

-----------------------------------------------------------------------------
(* What the handler has in hand. *)

\* The object that is handled next, or now.
head == Head(queue)

\* The handler works on an object.
Handling == pc \notin {"ping", "idle"}

\* The handler works on the first object of the queue, or on one made from it to remove the user.
Shape ==
    /\ Handling => /\ queue # <<>>
                   /\ cur = head \/ (head.op = "add_mod" /\ cur = RemoveObject(head))
    /\ pc \in {"schools", "map"} => cur = head /\ cur.op = "add_mod"
    /\ pc = "get" => found \in Names
    /\ pc = "delete" => found \in Names /\ cur.op = "remove"
    /\ pc \in {"save", "resave"} => cur.op = "add_mod"

\* The request says what the object says.
InHand ==
    pc \in {"search", "get", "save", "resave"} /\ cur.op = "add_mod" =>
        /\ req \in Requests
        /\ req.name = cur.obj.name /\ req.ruid = cur.obj.ruid /\ req.suid = cur.obj.suid
        /\ req.mapping = RoleSpecificMapping(cur.obj)
        /\ cur.obj.schools \cap Mapped # {}
        /\ req.guardians \subseteq cur.obj.guardians /\ req.wards \subseteq cur.obj.wards
        /\ IF pc = "resave" THEN LinksDropped ELSE ~LinksDropped

\* As long as the target's schools stay the same, the cached list is not outdated.
SchoolsInHand ==
    schoolChanges = 0 =>
        /\ cache \in {{}, schools}
        /\ Handling /\ head.op = "add_mod" /\ cur.op = "remove" =>
              head.obj.schools \cap schools = {}
        /\ pc \in {"search", "get", "save", "resave"} /\ cur.op = "add_mod" =>
              /\ req.schools = cur.obj.schools \cap schools
              /\ req.school \in req.schools
              /\ cur.obj.school \in schools => req.school = cur.obj.school

\* The in queue keeps old_data of all the users of the source.
SourceKept == \A u \in Users : source[u] # Absent => oldDB[u] = OldData(source[u])

\* What the handler has in hand.
HandInv == TypeOK /\ SourceKept /\ Shape /\ InHand /\ SchoolsInHand

\* The object in hand is one of the same user as the head of the queue.
LEMMA CurFacts ==
    ASSUME TypeOK, Shape, Handling
    PROVE  /\ queue # <<>> /\ head \in Items /\ cur \in Items
           /\ cur.user = head.user /\ cur.user \in Users
           /\ cur.op \in {"add_mod", "remove"} /\ head.op \in {"add_mod", "remove"}
           /\ cur.op = "add_mod" => cur = head
           /\ head.op = "remove" => cur = head
           /\ cur.op = "add_mod" => cur.obj \in Inputs[cur.user]
           /\ cur # head => cur = RemoveObject(head)
<1>1. queue # <<>> /\ head \in Items
      BY HeadIsFirst DEF TypeOK, Shape, head
<1>2. head.op = "add_mod" =>
          RemoveObject(head) \in Items /\ RemoveObject(head).user = head.user
          /\ RemoveObject(head).op = "remove"
      BY <1>1, RemoveObjectFacts
<1>3. cur = head \/ (head.op = "add_mod" /\ cur = RemoveObject(head))
      BY DEF Shape
<1> QED BY <1>1, <1>2, <1>3, ItemFacts

\* A change in the source leaves the object alone that the handler works on.
LEMMA EnqueueFacts ==
    ASSUME TypeOK, NEW item \in Items, NEW present, Enqueue(item, present)
    PROVE  /\ queue' \in Seq(Items)
           /\ queue # <<>> => queue' # <<>> /\ head' = head
BY Appended DEF TypeOK, Enqueue, head

\* At first the handler has nothing in hand.
LEMMA HandInit ==
    Init => HandInv
<1> SUFFICES ASSUME Init PROVE HandInv
    OBVIOUS
<1>1. queue \in Seq(Items)
      BY EmptySeq DEF Init
<1>2. target \in [Names -> Accounts \cup {Absent}]
      BY ForeignAssumption DEF Init
<1>3. /\ source \in [Users -> UserObjects \cup {Absent}]
      /\ oldDB \in [Users -> {OldData(o) : o \in UserObjects} \cup {Absent}]
      /\ \A u \in Users : source[u] = Absent /\ oldDB[u] = Absent
      /\ lost \in [Users -> {"nothing", "last", "identity"}]
      BY DEF Init
<1>4. cache \in SUBSET Mapped /\ schools \in SUBSET Mapped
      BY SchoolsAssumption DEF Init
<1>5. /\ changes \in 0..MaxChanges /\ faults \in 0..MaxFaults
      /\ cancels \in 0..MaxCancels /\ schoolChanges \in 0..MaxSchoolChanges
      BY Limits DEF Init
<1>6. /\ pc = "ping" /\ cur \in Items \cup {Absent}
      /\ req \in Requests \cup {Absent} /\ found \in Names \cup {Absent}
      BY DEF Init
<1>7. TypeOK
      BY <1>1, <1>2, <1>3, <1>4, <1>5, <1>6 DEF TypeOK
<1> QED BY <1>3, <1>7 DEF Init, HandInv, SourceKept, Shape, InHand, SchoolsInHand, Handling

\* Every step keeps what the handler has in hand right.
LEMMA HandNext ==
    HandInv /\ [Next]_vars => HandInv'
<1> SUFFICES ASSUME HandInv, [Next]_vars PROVE HandInv'
    OBVIOUS
<1> USE DEF HandInv
<1>1. ASSUME NEW u \in Users, NEW o \in Inputs[u], SourceChanges(u, o) PROVE HandInv'
  <2>1. AddMod(u, o, oldDB[u]) \in Items
        BY <1>1, AddModFacts, RemoveFacts, ItemsOfItems DEF SourceChanges, TypeOK
  <2>2. queue' \in Seq(Items) /\ (queue # <<>> => queue' # <<>> /\ head' = head)
        BY <1>1, <2>1, EnqueueFacts DEF SourceChanges
  <2>3. TypeOK'
        BY <1>1, <2>2, ObjectFacts, Limits DEF SourceChanges, handlerVars, countVars, TypeOK
  <2>4. SourceKept'
        BY <1>1 DEF SourceChanges, SourceKept, TypeOK
  <2> QED BY <1>1, <2>2, <2>3, <2>4 DEF SourceChanges, handlerVars, countVars, Shape, InHand,
             SchoolsInHand, Handling, LinksDropped
<1>2. ASSUME NEW u \in Users, SourceRemoves(u) PROVE HandInv'
  <2>1. Remove(u, oldDB[u]) \in Items
    <3>1. oldDB[u] \in OldDataOf(u)
          BY <1>2, ObjectFacts DEF SourceRemoves, SourceKept, TypeOK
    <3> QED BY <3>1, RemoveFacts, ItemsOfItems
  <2>2. queue' \in Seq(Items) /\ (queue # <<>> => queue' # <<>> /\ head' = head)
        BY <1>2, <2>1, EnqueueFacts DEF SourceRemoves
  <2>3. TypeOK'
        BY <1>2, <2>2, Limits DEF SourceRemoves, handlerVars, countVars, TypeOK
  <2>4. SourceKept'
        BY <1>2 DEF SourceRemoves, SourceKept, TypeOK
  <2> QED BY <1>2, <2>2, <2>3, <2>4 DEF SourceRemoves, handlerVars, countVars, Shape, InHand,
             SchoolsInHand, Handling, LinksDropped
<1>3. CASE Ping
  <2>1. Handling => queue # <<>> /\ head \in Items /\ cur \in Items /\ cur.user \in Users
        BY CurFacts
  <2>2. TypeOK'
        BY <1>3, <2>1 DEF Ping, FetchSchools, sourceVars, countVars, TypeOK
  <2>3. Shape'
        BY <1>3, <2>1 DEF Ping, Shape, Handling
  <2>4. InHand'
        BY <1>3, <2>1 DEF Ping, InHand
  <2>5. SchoolsInHand'
        BY <1>3, <2>1 DEF Ping, FetchSchools, SchoolsInHand, Handling
  <2> QED BY <1>3, <2>2, <2>3, <2>4, <2>5 DEF Ping, sourceVars, SourceKept
<1>4. CASE HandleListenerObject
  <2>1. Handling => queue # <<>> /\ head \in Items /\ cur \in Items /\ cur.user \in Users
        BY CurFacts
  <2>2. TypeOK'
        BY <1>4, <2>1 DEF HandleListenerObject, sourceVars, countVars, TypeOK
  <2>3. Shape'
        BY <1>4, <2>1 DEF HandleListenerObject, Shape, head
  <2>4. InHand'
        BY <1>4, <2>1 DEF HandleListenerObject, InHand
  <2>5. SchoolsInHand'
        BY <1>4, <2>1 DEF HandleListenerObject, countVars, SchoolsInHand, head
  <2> QED BY <1>4, <2>2, <2>3, <2>4, <2>5 DEF HandleListenerObject, sourceVars, SourceKept
<1>5. CASE UserHasSchools
  <2>1. /\ queue # <<>> /\ head \in Items /\ cur \in Items /\ cur.user \in Users
        /\ cur.op \in {"add_mod", "remove"} /\ (cur.op = "add_mod" => cur.obj \in Inputs[cur.user])
        BY <1>5, CurFacts DEF UserHasSchools, Handling
  <2>2. /\ cur = head /\ cur.op = "add_mod"
        /\ RemoveObject(cur) \in Items /\ RemoveObject(cur).op = "remove"
        BY <1>5, <2>1, RemoveObjectFacts DEF UserHasSchools, Shape
  <2>3. TypeOK'
        BY <1>5, <2>2 DEF UserHasSchools, SchoolsIdsOnTarget, FetchSchools, sourceVars,
           countVars, TypeOK
  <2>4. Shape'
        BY <1>5, <2>1, <2>2 DEF UserHasSchools, Shape, head
  <2>5. InHand'
        BY <1>5, <2>2 DEF UserHasSchools, InHand
  <2>6. SchoolsInHand'
        BY <1>5, <2>2 DEF UserHasSchools, SchoolsIdsOnTarget, FetchSchools, countVars,
           SchoolsInHand, head
  <2> QED BY <1>5, <2>3, <2>4, <2>5, <2>6 DEF UserHasSchools, sourceVars, SourceKept
<1>6. CASE Map
  <2>1. /\ queue # <<>> /\ head \in Items /\ cur \in Items /\ cur.user \in Users
        /\ cur.op \in {"add_mod", "remove"} /\ (cur.op = "add_mod" => cur.obj \in Inputs[cur.user])
        BY <1>6, CurFacts DEF Map, Handling
  <2>2. cur = head /\ cur.op = "add_mod" /\ SchoolsIdsOnTarget \in SUBSET Mapped
        BY <1>6 DEF Map, Shape, TypeOK, SchoolsIdsOnTarget, FetchSchools
  <2>3. /\ req' \in Requests
        /\ req'.name = cur.obj.name /\ req'.ruid = cur.obj.ruid /\ req'.suid = cur.obj.suid
        /\ req'.schools = cur.obj.schools \cap SchoolsIdsOnTarget
        /\ req'.school \in req'.schools
        /\ cur.obj.school \in SchoolsIdsOnTarget => req'.school = cur.obj.school
        /\ req'.mapping = RoleSpecificMapping(cur.obj)
        /\ req'.guardians = cur.obj.guardians /\ req'.wards = cur.obj.wards
        BY <1>6, <2>1, <2>2, MapFacts DEF Map
  <2>4. cur.obj.schools \cap Mapped # {}
        BY <1>6, <2>2 DEF Map
  <2>5. pc' = "search" /\ cur' = cur /\ head' = head /\ cache' = SchoolsIdsOnTarget
        BY <1>6 DEF Map, head
  <2>6. TypeOK'
        BY <1>6, <2>2, <2>3 DEF Map, sourceVars, countVars, TypeOK
  <2>7. Shape'
        BY <1>6, <2>1, <2>2, <2>5 DEF Map, Shape, Handling
  <2>8. InHand'
        BY <2>3, <2>4, <2>5 DEF InHand, LinksDropped
  <2>9. SchoolsInHand'
    <3>1. schoolChanges = 0 => SchoolsIdsOnTarget = schools
          BY DEF SchoolsInHand, SchoolsIdsOnTarget, FetchSchools
    <3>2. schoolChanges' = schoolChanges /\ schools' = schools
          BY <1>6 DEF Map, countVars
    <3> QED BY <2>2, <2>3, <2>5, <3>1, <3>2 DEF SchoolsInHand
  <2> QED BY <1>6, <2>6, <2>7, <2>8, <2>9 DEF Map, sourceVars, SourceKept
<1>7. CASE MapRaises
  <2>1. queue # <<>> /\ cur.user \in Users
        BY <1>7, CurFacts DEF MapRaises, Handling
  <2>2. queue' \in Seq(Items)
        BY <1>7, <2>1, MovedUp DEF MapRaises, Raise, EndHandling, TypeOK
  <2>3. TypeOK'
        BY <1>7, <2>1, <2>2 DEF MapRaises, Raise, EndHandling, sourceVars, countVars, TypeOK,
           SchoolsIdsOnTarget, FetchSchools
  <2> QED BY <1>7, <2>3 DEF SourceKept, MapRaises, Raise, EndHandling, sourceVars, countVars,
             Shape, InHand, SchoolsInHand, Handling, SchoolsIdsOnTarget, FetchSchools
<1>8. ASSUME NEW n \in Names, SearchFinds(n) PROVE HandInv'
  <2>1. Handling => queue # <<>> /\ head \in Items /\ cur \in Items /\ cur.user \in Users
        BY CurFacts
  <2>2. TypeOK'
        BY <1>8, <2>1 DEF SearchFinds, sourceVars, countVars, TypeOK
  <2>3. Shape'
        BY <1>8, <2>1 DEF SearchFinds, Shape, Handling, head
  <2>4. InHand'
        BY <1>8, <2>1 DEF SearchFinds, InHand, LinksDropped
  <2>5. SchoolsInHand'
        BY <1>8, <2>1 DEF SearchFinds, countVars, SchoolsInHand, Handling, head
  <2> QED BY <1>8, <2>2, <2>3, <2>4, <2>5 DEF SearchFinds, sourceVars, SourceKept
<1>9. CASE SearchFindsNone
  <2>1. Handling => queue # <<>> /\ head \in Items /\ cur \in Items /\ cur.user \in Users
        BY CurFacts
  <2>2. TypeOK'
        BY <1>9, <2>1 DEF SearchFindsNone, CarriedOut, sourceVars, countVars, TypeOK
  <2>3. Shape'
        BY <1>9, <2>1 DEF SearchFindsNone, Shape, Handling, head
  <2>4. InHand'
        BY <1>9, <2>1 DEF SearchFindsNone, InHand, LinksDropped
  <2>5. SchoolsInHand'
        BY <1>9, <2>1 DEF SearchFindsNone, countVars, SchoolsInHand, Handling, head
  <2> QED BY <1>9, <2>2, <2>3, <2>4, <2>5 DEF SearchFindsNone, sourceVars, SourceKept
<1>10. CASE SearchMissesData
  <2>1. queue # <<>> /\ cur.user \in Users
        BY <1>10, CurFacts DEF SearchMissesData, Handling
  <2>2. queue' \in Seq(Items)
        BY <1>10, <2>1, MovedUp DEF SearchMissesData, EndHandling, TypeOK
  <2>3. TypeOK'
        BY <1>10, <2>1, <2>2 DEF SearchMissesData, EndHandling, sourceVars, countVars, TypeOK
  <2> QED BY <1>10, <2>3 DEF SourceKept, SearchMissesData, EndHandling, sourceVars, countVars,
             Shape, InHand, SchoolsInHand, Handling
<1>11. CASE SearchRaises
  <2>1. queue # <<>> /\ cur.user \in Users
        BY <1>11, CurFacts DEF SearchRaises, Handling
  <2>2. queue' \in Seq(Items)
        BY <1>11, <2>1, MovedUp DEF SearchRaises, Raise, EndHandling, TypeOK
  <2>3. TypeOK'
        BY <1>11, <2>1, <2>2 DEF SearchRaises, Raise, EndHandling, sourceVars, countVars, TypeOK
  <2> QED BY <1>11, <2>3 DEF SourceKept, SearchRaises, Raise, EndHandling, sourceVars,
             countVars, Shape, InHand, SchoolsInHand, Handling
<1>12. CASE Get
  <2>1. Handling => queue # <<>> /\ head \in Items /\ cur \in Items /\ cur.user \in Users
                    /\ cur.op \in {"add_mod", "remove"}
        BY CurFacts
  <2>2. TypeOK'
        BY <1>12, <2>1 DEF Get, sourceVars, countVars, TypeOK
  <2>3. Shape'
        BY <1>12, <2>1 DEF Get, Shape, Handling, head
  <2>4. InHand'
        BY <1>12, <2>1 DEF Get, InHand, LinksDropped
  <2>5. SchoolsInHand'
        BY <1>12, <2>1 DEF Get, countVars, SchoolsInHand, Handling, head
  <2> QED BY <1>12, <2>2, <2>3, <2>4, <2>5 DEF Get, sourceVars, SourceKept
<1>13. CASE GetRaises
  <2>1. queue # <<>> /\ cur.user \in Users
        BY <1>13, CurFacts DEF GetRaises, Handling
  <2>2. queue' \in Seq(Items)
        BY <1>13, <2>1, MovedUp DEF GetRaises, Raise, EndHandling, TypeOK
  <2>3. TypeOK'
        BY <1>13, <2>1, <2>2 DEF GetRaises, Raise, EndHandling, sourceVars, countVars, TypeOK
  <2> QED BY <1>13, <2>3 DEF SourceKept, GetRaises, Raise, EndHandling, sourceVars, countVars,
             Shape, InHand, SchoolsInHand, Handling
<1>14. CASE Save
  <2>1. Handling => queue # <<>> /\ head \in Items /\ cur \in Items /\ cur.user \in Users
        BY CurFacts
  <2>2. TypeOK'
    <3>1. req \in Requests /\ cur.op = "add_mod"
          BY <1>14, <2>1 DEF Save, Shape, InHand
    <3>2. \A ruid \in Uids \cup {NoUid}, suid \in Sources \cup {NoUid} :
              Stored(ruid, suid) \in Accounts
          BY <1>14, <2>1, <3>1 DEF Save, Handling, Stored, Requests, Accounts
    <3>3. found # Absent => /\ target[found].ruid \in Uids \cup {NoUid}
                            /\ target[found].suid \in Sources \cup {NoUid}
          BY <1>14 DEF Save, AccountGone, TypeOK, Accounts
    <3>4. target' \in [Names -> Accounts \cup {Absent}]
          BY <1>14, <3>2, <3>3, SourcesAssumption DEF Save, TypeOK
    <3> QED BY <3>4, <1>14, <2>1 DEF Save, CarriedOut, sourceVars, countVars, TypeOK
  <2>3. Shape'
        BY <1>14, <2>1 DEF Save, Shape, Handling, head
  <2>4. InHand'
        BY <1>14, <2>1 DEF Save, InHand
  <2>5. SchoolsInHand'
        BY <1>14, <2>1 DEF Save, countVars, SchoolsInHand, Shape
  <2> QED BY <1>14, <2>2, <2>3, <2>4, <2>5 DEF Save, sourceVars, SourceKept
<1>15. ASSUME NEW k \in {"guardians", "wards"}, DropLinks(k) PROVE HandInv'
  <2>1. /\ queue # <<>> /\ head \in Items /\ cur \in Items /\ cur.user \in Users
        /\ cur.op \in {"add_mod", "remove"} /\ (cur.op = "add_mod" => cur.obj \in Inputs[cur.user])
        BY <1>15, CurFacts DEF DropLinks, Handling
  <2>2. /\ cur.op = "add_mod" /\ req \in Requests /\ pc = "save" /\ ~LinksDropped
        BY <1>15, <2>1 DEF DropLinks, Shape, InHand
  <2>3. /\ req' \in Requests
        /\ req'.name = req.name /\ req'.ruid = req.ruid /\ req'.suid = req.suid
        /\ req'.mapping = req.mapping /\ req'.school = req.school /\ req'.schools = req.schools
        /\ req'.guardians \subseteq req.guardians /\ req'.wards \subseteq req.wards
        BY <1>15, <2>2 DEF DropLinks, Requests
  <2>4. req'.guardians # req.guardians \/ req'.wards # req.wards
    <3>1. ~(req[k] \subseteq Existing)
          BY <1>15 DEF DropLinks, BrokenLinks
    <3>2. CASE k = "guardians"
      <4>1. req'.guardians = req.guardians \cap Existing /\ ~(req.guardians \subseteq Existing)
            BY <1>15, <2>2, <3>1, <3>2 DEF DropLinks, Requests
      <4> QED BY <4>1
    <3>3. CASE k = "wards"
      <4>1. req'.wards = req.wards \cap Existing /\ ~(req.wards \subseteq Existing)
            BY <1>15, <2>2, <3>1, <3>3 DEF DropLinks, Requests
      <4> QED BY <4>1
    <3> QED BY <3>2, <3>3
  <2>5. pc' = "resave" /\ cur' = cur /\ head' = head
        BY <1>15 DEF DropLinks, head
  <2>6. TypeOK'
        BY <1>15, <2>3 DEF DropLinks, sourceVars, countVars, TypeOK
  <2>7. Shape'
        BY <1>15, <2>1, <2>2, <2>5 DEF DropLinks, Shape, Handling
  <2>8. InHand'
        BY <2>2, <2>3, <2>4, <2>5 DEF InHand, LinksDropped
  <2>9. SchoolsInHand'
        BY <1>15, <2>2, <2>3, <2>5 DEF DropLinks, SchoolsInHand, countVars
  <2> QED BY <1>15, <2>6, <2>7, <2>8, <2>9 DEF DropLinks, sourceVars, SourceKept
<1>16. CASE SaveRaises
  <2>1. queue # <<>> /\ cur.user \in Users
        BY <1>16, CurFacts DEF SaveRaises, Handling
  <2>2. queue' \in Seq(Items)
        BY <1>16, <2>1, MovedUp DEF SaveRaises, Raise, EndHandling, TypeOK
  <2>3. TypeOK'
        BY <1>16, <2>1, <2>2 DEF SaveRaises, Raise, EndHandling, sourceVars, countVars, TypeOK
  <2> QED BY <1>16, <2>3 DEF SourceKept, SaveRaises, Raise, EndHandling, sourceVars, countVars,
             Shape, InHand, SchoolsInHand, Handling
<1>17. CASE Delete
  <2>1. Handling => queue # <<>> /\ head \in Items /\ cur \in Items /\ cur.user \in Users
        BY CurFacts
  <2>2. TypeOK'
        BY <1>17, <2>1 DEF Delete, CarriedOut, sourceVars, countVars, TypeOK
  <2>3. Shape'
        BY <1>17, <2>1 DEF Delete, Shape, Handling, head
  <2>4. InHand'
        BY <1>17, <2>1 DEF Delete, InHand
  <2>5. SchoolsInHand'
        BY <1>17, <2>1 DEF Delete, countVars, SchoolsInHand, Handling, head
  <2> QED BY <1>17, <2>2, <2>3, <2>4, <2>5 DEF Delete, sourceVars, SourceKept
<1>18. CASE Done
  <2>1. queue # <<>> /\ cur.user \in Users
        BY <1>18, CurFacts DEF Done, Handling
  <2>2. queue' \in Seq(Items)
        BY <1>18, <2>1, MovedUp DEF Done, EndHandling, TypeOK
  <2>3. TypeOK'
        BY <1>18, <2>1, <2>2 DEF Done, EndHandling, sourceVars, countVars, TypeOK
  <2> QED BY <1>18, <2>3 DEF SourceKept, Done, EndHandling, sourceVars, countVars, Shape,
             InHand, SchoolsInHand, Handling
<1>19. CASE Fault
  <2>1. queue # <<>> /\ cur.user \in Users
        BY <1>19, CurFacts DEF Fault, Handling
  <2>2. queue' \in Seq(Items)
        BY <1>19, <2>1, MovedUp DEF Fault, Raise, EndHandling, TypeOK
  <2>3. TypeOK'
    <3>1. faults' \in 0..MaxFaults
          BY <1>19, Limits DEF Fault, TypeOK
    <3> QED BY <3>1, <1>19, <2>1, <2>2 DEF Fault, Raise, EndHandling, sourceVars, TypeOK
  <2> QED BY <1>19, <2>3 DEF SourceKept, Fault, Raise, EndHandling, sourceVars, Shape, InHand,
             SchoolsInHand, Handling
<1>20. CASE Cancel
  <2>1. Handling => queue # <<>> /\ head \in Items /\ cur \in Items /\ cur.user \in Users
        BY CurFacts
  <2>2. TypeOK'
        BY <1>20, <2>1, Limits DEF Cancel, sourceVars, TypeOK
  <2>3. Shape'
        BY <1>20, <2>1 DEF Cancel, Shape, Handling
  <2>4. InHand'
        BY <1>20, <2>1 DEF Cancel, InHand
  <2>5. SchoolsInHand'
        BY <1>20, <2>1 DEF Cancel, SchoolsInHand, Handling
  <2> QED BY <1>20, <2>2, <2>3, <2>4, <2>5 DEF Cancel, sourceVars, SourceKept
<1>21. CASE CacheExpires
  <2>1. Handling => queue # <<>> /\ head \in Items /\ cur \in Items /\ cur.user \in Users
        BY CurFacts
  <2>2. TypeOK'
        BY <1>21, <2>1 DEF CacheExpires, sourceVars, handlerVars, countVars, TypeOK
  <2>3. Shape'
        BY <1>21, <2>1 DEF CacheExpires, handlerVars, Shape, Handling, head
  <2>4. InHand'
        BY <1>21, <2>1 DEF CacheExpires, handlerVars, InHand, LinksDropped
  <2>5. SchoolsInHand'
        BY <1>21, <2>1 DEF CacheExpires, handlerVars, countVars, SchoolsInHand, Handling, head
  <2> QED BY <1>21, <2>2, <2>3, <2>4, <2>5 DEF CacheExpires, sourceVars, SourceKept
<1>22. ASSUME NEW new \in SUBSET Mapped, TargetSchoolsChange(new) PROVE HandInv'
  <2>1. Handling => queue # <<>> /\ head \in Items /\ cur \in Items /\ cur.user \in Users
        BY CurFacts
  <2>2. TypeOK'
        BY <1>22, <2>1, Limits DEF TargetSchoolsChange, sourceVars, handlerVars, TypeOK
  <2>3. Shape'
        BY <1>22, <2>1 DEF TargetSchoolsChange, handlerVars, Shape, Handling, head
  <2>4. InHand'
        BY <1>22, <2>1 DEF TargetSchoolsChange, handlerVars, InHand, LinksDropped
  <2>5. SchoolsInHand'
    <3>1. schoolChanges' # 0
          BY <1>22 DEF TargetSchoolsChange, TypeOK
    <3> QED BY <3>1, <1>22, <2>1 DEF TargetSchoolsChange, SchoolsInHand
  <2> QED BY <1>22, <2>2, <2>3, <2>4, <2>5 DEF TargetSchoolsChange, sourceVars, SourceKept
<1>23. ASSUME NEW n \in Names, AdminDeletes(n) PROVE HandInv'
  <2>1. Handling => queue # <<>> /\ head \in Items /\ cur \in Items /\ cur.user \in Users
        BY CurFacts
  <2>2. TypeOK'
        BY <1>23, <2>1, Limits DEF AdminDeletes, sourceVars, handlerVars, TypeOK
  <2>3. Shape'
        BY <1>23, <2>1 DEF AdminDeletes, handlerVars, Shape, Handling, head
  <2>4. InHand'
        BY <1>23, <2>1 DEF AdminDeletes, handlerVars, InHand, LinksDropped
  <2>5. SchoolsInHand'
        BY <1>23, <2>1 DEF AdminDeletes, handlerVars, SchoolsInHand, Handling, head
  <2> QED BY <1>23, <2>2, <2>3, <2>4, <2>5 DEF AdminDeletes, sourceVars, SourceKept
<1>24. CASE UNCHANGED vars
  <2>1. TypeOK' /\ SourceKept'
        BY <1>24 DEF vars, TypeOK, SourceKept
  <2>2. Shape' /\ head' = head
        BY <1>24 DEF vars, Shape, Handling, head
  <2>3. InHand'
        BY <1>24 DEF vars, InHand, LinksDropped
  <2>4. SchoolsInHand'
        BY <1>24, <2>2 DEF vars, SchoolsInHand, Handling
  <2> QED BY <2>1, <2>2, <2>3, <2>4
<1> QED BY <1>1, <1>2, <1>3, <1>4, <1>5, <1>6, <1>7, <1>8, <1>9, <1>10, <1>11, <1>12, <1>13,
           <1>14, <1>15, <1>16, <1>17, <1>18, <1>19, <1>20, <1>21, <1>22, <1>23, <1>24 DEF Next,
           HandlerStep

-----------------------------------------------------------------------------
(* What the queue knows of the users. *)

\* The user's old_data says that the user is at a school of this authority.
There(h) == h # Absent /\ h.schools \cap Mapped # {}

\* What the target is searched by.
SameIdentity(x, y) == x.ruid = y.ruid /\ x.suid = y.suid

(***************************************************************************)
(* h is what user u was in the source, at a school of this authority, when *)
(* the object at position k of queue q was written: what u's next object   *)
(* has as old_data or, if there is none, what u is in the source s now.    *)
(***************************************************************************)
HoldsIn(q, s, u, h, k) ==
    /\ There(h)
    /\ \/ \E i \in k..Len(q) : /\ q[i].user = u /\ q[i].old = h
                               /\ \A j \in k..(i - 1) : q[j].user # u
       \/ /\ \A j \in k..Len(q) : q[j].user # u
          /\ s[u] # Absent /\ h = OldData(s[u])

\* HoldsIn for the present queue and source.
Holds(u, h, k) == HoldsIn(queue, source, u, h, k)

\* What is appended does not change what the queue says of the time before.
LEMMA HoldsAppended ==
    ASSUME NEW q \in Seq(Items), NEW item \in Items, NEW s, NEW t, NEW u \in Users,
           item.user = u, item.old = IF s[u] = Absent THEN Absent ELSE OldData(s[u]),
           \A v \in Users \ {u} : t[v] = s[v],
           NEW v \in Users, NEW h, NEW k \in 1..(Len(q) + 1)
    PROVE  HoldsIn(Append(q, item), t, v, h, k) <=> HoldsIn(q, s, v, h, k)
<1> DEFINE Q == Append(q, item)
           n == Len(q) + 1
<1>1. /\ Len(q) \in Nat /\ Len(Q) = n /\ Q[n] = item
      /\ \A i \in 1..Len(q) : Q[i] = q[i]
      BY Appended, LenProperties
<1>2. /\ n \in k..n /\ n \in k..Len(Q)
      /\ \A i \in k..Len(q) : i \in 1..Len(q) /\ Q[i] = q[i] /\ i \in k..Len(Q)
      BY <1>1
<1>3. \A i \in k..Len(Q) : i = n \/ i \in k..Len(q)
      BY <1>1
<1>4. k..(n - 1) = k..Len(q)
      BY <1>1
<1> HIDE DEF Q, n
<1>5. CASE \E i \in k..Len(q) : q[i].user = v
  <2>1. ~(\A j \in k..Len(q) : q[j].user # v) /\ ~(\A j \in k..Len(Q) : Q[j].user # v)
        BY <1>2, <1>5
  <2>2. ASSUME NEW i \in k..Len(q)
        PROVE  (\A j \in k..(i - 1) : q[j].user # v) <=> (\A j \in k..(i - 1) : Q[j].user # v)
    <3>1. \A j \in k..(i - 1) : j \in k..Len(q)
          BY <1>1
    <3> QED BY <3>1, <1>2
  <2>3. ~(\A j \in k..(n - 1) : Q[j].user # v)
        BY <1>2, <1>4, <1>5
  <2>4. (\E i \in k..Len(q) : /\ q[i].user = v /\ q[i].old = h
                              /\ \A j \in k..(i - 1) : q[j].user # v)
        <=> (\E i \in k..Len(Q) : /\ Q[i].user = v /\ Q[i].old = h
                                  /\ \A j \in k..(i - 1) : Q[j].user # v)
    <3>1. ASSUME NEW i \in k..Len(q), q[i].user = v, q[i].old = h,
                 \A j \in k..(i - 1) : q[j].user # v
          PROVE  \E m \in k..Len(Q) : /\ Q[m].user = v /\ Q[m].old = h
                                      /\ \A j \in k..(m - 1) : Q[j].user # v
      <4>1. i \in k..Len(Q) /\ Q[i] = q[i] /\ \A j \in k..(i - 1) : Q[j].user # v
            BY <1>2, <2>2, <3>1
      <4> QED BY <3>1, <4>1
    <3>2. ASSUME NEW i \in k..Len(Q), Q[i].user = v, Q[i].old = h,
                 \A j \in k..(i - 1) : Q[j].user # v
          PROVE  \E m \in k..Len(q) : /\ q[m].user = v /\ q[m].old = h
                                      /\ \A j \in k..(m - 1) : q[j].user # v
      <4>1. i \in k..Len(q)
            BY <1>3, <2>3, <3>2
      <4>2. Q[i] = q[i] /\ \A j \in k..(i - 1) : q[j].user # v
            BY <1>2, <2>2, <3>2, <4>1
      <4> QED BY <3>2, <4>1, <4>2
    <3> QED BY <3>1, <3>2
  <2> QED BY <2>1, <2>4 DEF HoldsIn, Q
<1>6. CASE \A i \in k..Len(q) : q[i].user # v
  <2>1. HoldsIn(q, s, v, h, k) <=> There(h) /\ s[v] # Absent /\ h = OldData(s[v])
        BY <1>6 DEF HoldsIn
  <2>2. CASE v = u
    <3>1. \A j \in k..(n - 1) : Q[j].user # v
          BY <1>2, <1>4, <1>6
    <3>2. HoldsIn(Q, t, v, h, k) <=> There(h) /\ Q[n].old = h
          BY <1>1, <1>2, <1>3, <1>6, <2>2, <3>1 DEF HoldsIn
    <3> QED BY <1>1, <2>1, <2>2, <3>2 DEF There, Q
  <2>3. CASE v # u
    <3>1. \A i \in k..Len(Q) : Q[i].user # v
          BY <1>1, <1>2, <1>3, <1>6, <2>3
    <3> QED BY <2>1, <2>3, <3>1 DEF HoldsIn, Q
  <2> QED BY <2>2, <2>3
<1> QED BY <1>5, <1>6

\* Without the head of the queue its positions are moved up.
LEMMA HoldsMovedUp ==
    ASSUME NEW q \in Seq(Items), q # <<>>, NEW s, NEW u, NEW h, NEW k \in Nat \ {0}
    PROVE  HoldsIn(Tail(q), s, u, h, k) <=> HoldsIn(q, s, u, h, k + 1)
<1> DEFINE T == Tail(q)
<1>1. /\ Len(q) \in Nat /\ Len(T) = Len(q) - 1
      /\ \A i \in 1..Len(T) : T[i] = q[i + 1]
      BY MovedUp
<1> HIDE DEF T
<1>2. \A i \in k..Len(T) : i \in Nat /\ i + 1 \in (k + 1)..Len(q) /\ T[i] = q[i + 1]
      BY <1>1
<1>3. \A i \in (k + 1)..Len(q) : i \in Nat /\ i - 1 \in k..Len(T) /\ q[i] = T[i - 1]
      BY <1>1
<1>4. (\A j \in k..Len(T) : T[j].user # u) <=> (\A j \in (k + 1)..Len(q) : q[j].user # u)
      BY <1>2, <1>3
<1>5. ASSUME NEW i \in k..Len(T)
      PROVE  (\A j \in k..(i - 1) : T[j].user # u)
                 <=> (\A j \in (k + 1)..((i + 1) - 1) : q[j].user # u)
  <2>1. \A j \in k..(i - 1) : j \in k..Len(T) /\ j + 1 \in (k + 1)..((i + 1) - 1)
        BY <1>1
  <2>2. \A j \in (k + 1)..((i + 1) - 1) : j \in (k + 1)..Len(q) /\ j - 1 \in k..(i - 1)
        BY <1>1
  <2> QED BY <1>2, <1>3, <2>1, <2>2
<1>6. ASSUME NEW i \in (k + 1)..Len(q)
      PROVE  /\ i - 1 \in k..Len(T) /\ q[i] = T[i - 1]
             /\ (\A j \in k..((i - 1) - 1) : T[j].user # u)
                    <=> (\A j \in (k + 1)..(i - 1) : q[j].user # u)
  <2>1. i - 1 \in k..Len(T) /\ q[i] = T[i - 1] /\ (i - 1) + 1 = i
        BY <1>3
  <2> QED BY <2>1, <1>5
<1>7. (\E i \in k..Len(T) : /\ T[i].user = u /\ T[i].old = h
                            /\ \A j \in k..(i - 1) : T[j].user # u)
      => (\E i \in (k + 1)..Len(q) : /\ q[i].user = u /\ q[i].old = h
                                    /\ \A j \in (k + 1)..(i - 1) : q[j].user # u)
      BY <1>2, <1>5
<1>8. (\E i \in (k + 1)..Len(q) : /\ q[i].user = u /\ q[i].old = h
                                    /\ \A j \in (k + 1)..(i - 1) : q[j].user # u)
      => (\E i \in k..Len(T) : /\ T[i].user = u /\ T[i].old = h
                            /\ \A j \in k..(i - 1) : T[j].user # u)
      BY <1>6
<1> QED BY <1>4, <1>7, <1>8 DEF HoldsIn, T

\* A record_uid and source_uid belong to one user of the source at a time.
SourceUnique ==
    \A u, v \in Users :
        u # v /\ source[u] # Absent /\ source[v] # Absent /\ source[u].ruid # NoUid =>
            ~SameIdentity(source[u], source[v])

\* And so they do in the queue: an object does not name what another user is at the time.
QueueUnique ==
    \A i \in 1..Len(queue) : \A v \in Users : \A h \in OldDataOf(v) :
        queue[i].user # v /\ Holds(v, h, i) /\ h.ruid # NoUid =>
            /\ queue[i].old # Absent => ~SameIdentity(queue[i].old, h)
            /\ queue[i].op = "add_mod" => ~SameIdentity(queue[i].obj, h)

\* After an object its user is what the object says.
Chain ==
    \A i \in 1..Len(queue) :
        queue[i].op = "add_mod" /\ There(OldData(queue[i].obj)) =>
            Holds(queue[i].user, OldData(queue[i].obj), i + 1)

\* The last object of a user is the user's present state, as far as this authority is concerned.
IsPresent(item, o) ==
    \/ item.op = "remove" /\ o = Absent
    \/ item.op = "add_mod" /\ o = item.obj
    \/ /\ item.op = "add_mod" /\ ~There(OldData(item.obj))
       /\ o = Absent \/ ~There(OldData(o))

\* Nothing follows it: the object is what the user is in the source.
LastIsPresent ==
    \A i \in 1..Len(queue) :
        (\A j \in (i + 1)..Len(queue) : queue[j].user # queue[i].user) =>
            IsPresent(queue[i], source[queue[i].user])

\* A removed user does not come back.
RemovedIsGone ==
    \A i \in 1..Len(queue) :
        queue[i].op = "remove" =>
            source[queue[i].user] = Absent /\ oldDB[queue[i].user] # Absent

\* What the queue knows of the users.
QueueInv == SourceUnique /\ QueueUnique /\ Chain /\ LastIsPresent /\ RemovedIsGone

\* A change in the source, with the object that is written for it.
LEMMA ChangeKeepsQueue ==
    ASSUME HandInv, QueueInv, HandInv',
           NEW u \in Users, NEW new \in Inputs[u] \cup {Absent}, NEW item \in Items,
           item.user = u, item.obj = new,
           item.op = IF new = Absent THEN "remove" ELSE "add_mod",
           item.old = IF source[u] = Absent THEN Absent ELSE OldData(source[u]),
           source'[u] = new, \A v \in Users \ {u} : source'[v] = source[v],
           IF There(item.old) \/ (new # Absent /\ There(OldData(new)))
               THEN queue' = Append(queue, item) ELSE queue' = queue,
           source[u] = Absent => oldDB[u] = Absent,
           new = Absent => oldDB[u] # Absent,
           \A v \in Users : oldDB[v] # Absent => oldDB'[v] # Absent,
           \A v \in Users \ {u} :
               source[v] # Absent /\ new # Absent /\ new.ruid # NoUid =>
                   ~SameIdentity(source[v], new)
    PROVE  /\ QueueInv'
           /\ \A v \in Users : \A h : \A k \in 1..(Len(queue) + 1) :
                 HoldsIn(queue', source', v, h, k) <=> Holds(v, h, k)
<1> USE DEF HandInv, QueueInv
<1>1. Len(queue) \in Nat /\ queue \in Seq(Items) /\ \A i \in 1..Len(queue) : queue[i] \in Items
      BY LenProperties, ElementOfSeq DEF TypeOK
<1>2. source'[u] = new /\ \A v \in Users \ {u} : source'[v] = source[v]
      OBVIOUS
<1>3. SourceUnique'
      BY <1>2 DEF SourceUnique, SameIdentity
<1>4. ASSUME NEW i \in 1..Len(queue), queue[i].op = "remove"
      PROVE  queue[i].user # u /\ source'[queue[i].user] = Absent /\ oldDB'[queue[i].user] # Absent
  <2>1. queue[i].user \in Users /\ source[queue[i].user] = Absent /\ oldDB[queue[i].user] # Absent
        BY <1>1, <1>4, ItemFacts DEF RemovedIsGone
  <2> QED BY <1>2, <2>1
<1>5. CASE There(item.old) \/ (new # Absent /\ There(OldData(new)))
  <2> DEFINE n == Len(queue) + 1
  <2>1. /\ Len(queue') = n /\ queue'[n] = item /\ n \in 1..n /\ n \in Nat
        /\ \A i \in 1..Len(queue) : queue'[i] = queue[i] /\ i \in 1..n
        /\ \A i \in 1..n : i = n \/ i \in 1..Len(queue)
        BY <1>1, <1>5, Appended
  <2>2. ASSUME NEW v \in Users, NEW h, NEW k \in 1..n
        PROVE  HoldsIn(queue', source', v, h, k) <=> Holds(v, h, k)
    <3>1. HoldsIn(Append(queue, item), source', v, h, k) <=> HoldsIn(queue, source, v, h, k)
          BY <1>1, <1>2, HoldsAppended
    <3> QED BY <1>5, <3>1 DEF Holds
  <2>3. ASSUME NEW v \in Users, NEW h
        PROVE  Holds(v, h, n) <=> There(h) /\ source[v] # Absent /\ h = OldData(source[v])
    <3>1. n..Len(queue) = {}
          BY <1>1
    <3> QED BY <3>1 DEF Holds, HoldsIn
  <2>4. ASSUME NEW h
        PROVE  HoldsIn(queue', source', u, h, n + 1) <=>
                   There(h) /\ new # Absent /\ h = OldData(new)
    <3>1. (n + 1)..Len(queue') = {}
          BY <2>1
    <3> QED BY <1>2, <3>1 DEF HoldsIn
  <2> HIDE DEF n
  <2>5. QueueUnique'
    <3> SUFFICES ASSUME NEW i \in 1..Len(queue'), NEW v \in Users, NEW h \in OldDataOf(v),
                        queue'[i].user # v, Holds(v, h, i)', h.ruid # NoUid
                 PROVE  /\ queue'[i].old # Absent => ~SameIdentity(queue'[i].old, h)
                        /\ queue'[i].op = "add_mod" => ~SameIdentity(queue'[i].obj, h)
        BY DEF QueueUnique
    <3>1. Holds(v, h, i)
          BY <2>1, <2>2 DEF Holds
    <3>2. CASE i \in 1..Len(queue)
          BY <2>1, <3>1, <3>2 DEF QueueUnique
    <3>3. CASE i = n
      <4>1. v # u /\ source[v] # Absent /\ h = OldData(source[v])
            BY <2>1, <2>3, <3>1, <3>3
      <4>2. h.ruid = source[v].ruid /\ h.suid = source[v].suid
            BY <4>1 DEF OldData
      <4>3. item.old # Absent => ~SameIdentity(item.old, h)
            BY <4>1, <4>2 DEF SourceUnique, SameIdentity, OldData
      <4>4. item.op = "add_mod" => ~SameIdentity(item.obj, h)
            BY <4>1, <4>2 DEF SameIdentity
      <4> QED BY <2>1, <3>3, <4>3, <4>4
    <3> QED BY <2>1, <3>2, <3>3
  <2>6. Chain'
    <3> SUFFICES ASSUME NEW i \in 1..Len(queue'), queue'[i].op = "add_mod",
                        There(OldData(queue'[i].obj))
                 PROVE  HoldsIn(queue', source', queue'[i].user, OldData(queue'[i].obj), i + 1)
        BY DEF Chain, Holds
    <3>1. CASE i \in 1..Len(queue)
      <4>1. i + 1 \in 1..n /\ queue'[i] = queue[i] /\ queue[i].user \in Users
            BY <1>1, <2>1, <3>1, ItemFacts DEF n
      <4>2. Holds(queue[i].user, OldData(queue[i].obj), i + 1)
            BY <3>1, <4>1 DEF Chain
      <4> QED BY <2>2, <4>1, <4>2
    <3>2. CASE i = n
          BY <2>1, <2>4, <3>2
    <3> QED BY <2>1, <3>1, <3>2
  <2>7. LastIsPresent'
    <3> SUFFICES ASSUME NEW i \in 1..Len(queue'),
                        \A j \in (i + 1)..Len(queue') : queue'[j].user # queue'[i].user
                 PROVE  IsPresent(queue'[i], source'[queue'[i].user])
        BY DEF LastIsPresent
    <3>1. CASE i \in 1..Len(queue)
      <4>1. /\ n \in (i + 1)..Len(queue')
            /\ \A j \in (i + 1)..Len(queue) : j \in (i + 1)..Len(queue') /\ queue'[j] = queue[j]
            BY <1>1, <2>1, <3>1 DEF n
      <4>2. queue'[i] = queue[i] /\ queue[i].user # u /\ queue[i].user \in Users
            BY <1>1, <2>1, <3>1, <4>1, ItemFacts
      <4>3. IsPresent(queue[i], source[queue[i].user])
            BY <3>1, <4>1, <4>2 DEF LastIsPresent
      <4> QED BY <1>2, <4>2, <4>3 DEF IsPresent
    <3>2. CASE i = n
          BY <1>2, <2>1, <3>2 DEF IsPresent
    <3> QED BY <2>1, <3>1, <3>2
  <2>8. RemovedIsGone'
    <3> SUFFICES ASSUME NEW i \in 1..Len(queue'), queue'[i].op = "remove"
                 PROVE  source'[queue'[i].user] = Absent /\ oldDB'[queue'[i].user] # Absent
        BY DEF RemovedIsGone
    <3>1. CASE i \in 1..Len(queue)
          BY <1>4, <2>1, <3>1
    <3>2. CASE i = n
          BY <1>2, <2>1, <3>2
    <3> QED BY <2>1, <3>1, <3>2
  <2> QED BY <1>3, <2>2, <2>5, <2>6, <2>7, <2>8 DEF n
<1>6. CASE ~(There(item.old) \/ (new # Absent /\ There(OldData(new))))
  <2>1. queue' = queue
        BY <1>6
  <2>2. \A v \in Users : \A h, k : HoldsIn(queue', source', v, h, k) <=> Holds(v, h, k)
    <3> TAKE v \in Users
    <3> TAKE h, k
    <3>1. CASE v # u
          BY <1>2, <2>1, <3>1 DEF Holds, HoldsIn
    <3>2. CASE v = u
      <4>1. There(h) => ~(source[u] # Absent /\ h = OldData(source[u]))
            BY <1>6
      <4>2. There(h) => ~(source'[u] # Absent /\ h = OldData(source'[u]))
            BY <1>2, <1>6
      <4> QED BY <2>1, <3>2, <4>1, <4>2 DEF Holds, HoldsIn
    <3> QED BY <3>1, <3>2
  <2>3. QueueUnique'
        BY <2>1, <2>2 DEF QueueUnique, Holds
  <2>4. Chain'
        BY <1>1, <2>1, <2>2, ItemFacts DEF Chain, Holds
  <2>5. LastIsPresent'
    <3> SUFFICES ASSUME NEW i \in 1..Len(queue),
                        \A j \in (i + 1)..Len(queue) : queue[j].user # queue[i].user
                 PROVE  IsPresent(queue[i], source'[queue[i].user])
        BY <2>1 DEF LastIsPresent
    <3>1. /\ IsPresent(queue[i], source[queue[i].user]) /\ queue[i].user \in Users
          /\ queue[i].op \in {"add_mod", "remove"}
          BY <1>1, ItemFacts DEF LastIsPresent
    <3>2. CASE queue[i].user # u
          BY <1>2, <2>1, <3>1, <3>2 DEF IsPresent
    <3>3. CASE queue[i].user = u
      <4>1. queue[i].op = "add_mod"
            BY <1>4, <3>1, <3>3
      <4>2. ~There(OldData(queue[i].obj))
            BY <1>1, <1>6, <3>1, <3>3, <4>1, ItemFacts, ObjectFacts DEF IsPresent
      <4> QED BY <1>2, <1>6, <2>1, <3>3, <4>1, <4>2 DEF IsPresent
    <3> QED BY <3>2, <3>3
  <2>6. RemovedIsGone'
        BY <1>4, <2>1 DEF RemovedIsGone
  <2> QED BY <1>3, <2>2, <2>3, <2>4, <2>5, <2>6
<1> QED BY <1>5, <1>6

\* The first object leaves the queue.
LEMMA TailKeepsQueue ==
    ASSUME HandInv, QueueInv, queue # <<>>, queue' = Tail(queue), UNCHANGED <<source, oldDB>>
    PROVE  /\ QueueInv'
           /\ \A u \in Users : \A h : \A k \in Nat \ {0} :
                 HoldsIn(queue', source', u, h, k) <=> Holds(u, h, k + 1)
<1> USE DEF HandInv, QueueInv
<1>1. /\ Len(queue) \in Nat /\ Len(queue') = Len(queue) - 1
      /\ \A i \in 1..Len(queue') : i + 1 \in 1..Len(queue) /\ queue'[i] = queue[i + 1]
      /\ \A i \in 1..Len(queue) : queue[i] \in Items
      BY MovedUp, ElementOfSeq DEF TypeOK
<1>2. ASSUME NEW u, NEW h, NEW k \in Nat \ {0}
      PROVE  HoldsIn(queue', source', u, h, k) <=> Holds(u, h, k + 1)
      BY HoldsMovedUp DEF TypeOK, Holds
<1>3. QueueUnique'
  <2> SUFFICES ASSUME NEW i \in 1..Len(queue'), NEW v \in Users, NEW h \in OldDataOf(v),
                      queue'[i].user # v, Holds(v, h, i)', h.ruid # NoUid
               PROVE  /\ queue'[i].old # Absent => ~SameIdentity(queue'[i].old, h)
                      /\ queue'[i].op = "add_mod" => ~SameIdentity(queue'[i].obj, h)
      BY DEF QueueUnique
  <2>1. i + 1 \in 1..Len(queue) /\ queue'[i] = queue[i + 1] /\ Holds(v, h, i + 1)
        BY <1>1, <1>2 DEF Holds
  <2> QED BY <2>1 DEF QueueUnique
<1>4. Chain'
  <2> SUFFICES ASSUME NEW i \in 1..Len(queue'), queue'[i].op = "add_mod",
                      There(OldData(queue'[i].obj))
               PROVE  HoldsIn(queue', source', queue'[i].user, OldData(queue'[i].obj), i + 1)
      BY DEF Chain, Holds
  <2>1. i + 1 \in 1..Len(queue) /\ queue'[i] = queue[i + 1] /\ i + 1 \in Nat \ {0}
        BY <1>1
  <2>2. Holds(queue[i + 1].user, OldData(queue[i + 1].obj), (i + 1) + 1)
        BY <2>1 DEF Chain
  <2> QED BY <1>2, <2>1, <2>2
<1>5. LastIsPresent'
  <2> SUFFICES ASSUME NEW i \in 1..Len(queue'),
                      \A j \in (i + 1)..Len(queue') : queue'[j].user # queue'[i].user
               PROVE  IsPresent(queue'[i], source'[queue'[i].user])
      BY DEF LastIsPresent
  <2>1. i + 1 \in 1..Len(queue) /\ queue'[i] = queue[i + 1]
        BY <1>1
  <2>2. ASSUME NEW j \in ((i + 1) + 1)..Len(queue) PROVE queue[j].user # queue[i + 1].user
    <3>1. j - 1 \in (i + 1)..Len(queue') /\ j - 1 \in 1..Len(queue') /\ (j - 1) + 1 = j
          BY <1>1
    <3> QED BY <1>1, <2>1, <3>1
  <2>3. IsPresent(queue[i + 1], source[queue[i + 1].user])
        BY <2>1, <2>2 DEF LastIsPresent
  <2> QED BY <2>1, <2>3 DEF IsPresent
<1>6. RemovedIsGone' /\ SourceUnique'
      BY <1>1 DEF RemovedIsGone, SourceUnique
<1> QED BY <1>2, <1>3, <1>4, <1>5, <1>6

\* The queue is empty at first.
LEMMA QueueInit ==
    Init => QueueInv
<1> SUFFICES ASSUME Init PROVE QueueInv
    OBVIOUS
<1>1. 1..Len(queue) = {}
      BY DEF Init
<1>2. \A u \in Users : source[u] = Absent
      BY DEF Init
<1> QED BY <1>1, <1>2 DEF QueueInv, SourceUnique, QueueUnique, Chain, LastIsPresent,
           RemovedIsGone

\* What SourceChanges and SourceRemoves do to the queue.
LEMMA SourceKeepsQueue ==
    ASSUME HandInv, QueueInv, HandInv', NEW u \in Users,
           (\E o \in Inputs[u] : SourceChanges(u, o)) \/ SourceRemoves(u)
    PROVE  /\ QueueInv'
           /\ \A v \in Users : \A h : \A k \in 1..(Len(queue) + 1) :
                 HoldsIn(queue', source', v, h, k) <=> Holds(v, h, k)
<1>1. source[u] # Absent => oldDB[u] = OldData(source[u]) /\ source[u] \in Inputs[u]
      BY DEF HandInv, SourceKept, TypeOK
<1>2. \A item, present : Enqueue(item, present) =>
          IF There(item.old) \/ present \cap Mapped # {}
              THEN queue' = Append(queue, item) ELSE queue' = queue
      BY DEF Enqueue, There, SchoolsOf
<1>3. ASSUME NEW o \in Inputs[u], SourceChanges(u, o)
      PROVE  /\ QueueInv'
             /\ \A v \in Users : \A h : \A k \in 1..(Len(queue) + 1) :
                   HoldsIn(queue', source', v, h, k) <=> Holds(v, h, k)
  <2> DEFINE item == AddMod(u, o, oldDB[u])
  <2>1. oldDB[u] = IF source[u] = Absent THEN Absent ELSE OldData(source[u])
        BY <1>1, <1>3 DEF SourceChanges
  <2>2. oldDB[u] \in OldDataOf(u) \cup {Absent}
        BY DEF HandInv, TypeOK
  <2>3. /\ item \in Items /\ item.user = u /\ item.op = "add_mod"
        /\ item.obj = o /\ item.old = oldDB[u]
        BY <2>2, AddModFacts, ItemsOfItems
  <2>4. Enqueue(item, o.schools)
        BY <1>3 DEF SourceChanges
  <2> HIDE DEF item
  <2>5. There(OldData(o)) <=> o.schools \cap Mapped # {}
        BY ObjectFacts DEF There, OldData
  <2>6. IF There(item.old) \/ (o # Absent /\ There(OldData(o)))
            THEN queue' = Append(queue, item) ELSE queue' = queue
        BY <1>2, <2>4, <2>5, ObjectFacts
  <2>7. /\ source'[u] = o /\ \A v \in Users \ {u} : source'[v] = source[v]
        /\ \A v \in Users : oldDB[v] # Absent => oldDB'[v] # Absent
        BY <1>3, ObjectFacts DEF SourceChanges, HandInv, TypeOK
  <2>8. \A v \in Users \ {u} : source[v] # Absent /\ o # Absent /\ o.ruid # NoUid =>
            ~SameIdentity(source[v], o)
        BY <1>3 DEF SourceChanges, SameIdentity
  <2>9. source[u] = Absent => oldDB[u] = Absent
        BY <2>1
  <2> QED BY <2>1, <2>3, <2>6, <2>7, <2>8, <2>9, ObjectFacts, ChangeKeepsQueue
<1>4. ASSUME SourceRemoves(u)
      PROVE  /\ QueueInv'
             /\ \A v \in Users : \A h : \A k \in 1..(Len(queue) + 1) :
                   HoldsIn(queue', source', v, h, k) <=> Holds(v, h, k)
  <2> DEFINE item == Remove(u, oldDB[u])
  <2>1. source[u] # Absent /\ oldDB[u] = OldData(source[u]) /\ oldDB[u] # Absent
        BY <1>1, <1>4, ObjectFacts DEF SourceRemoves
  <2>2. oldDB[u] \in OldDataOf(u)
        BY <2>1 DEF HandInv, TypeOK
  <2>3. /\ item \in Items /\ item.user = u /\ item.op = "remove"
        /\ item.obj = Absent /\ item.old = oldDB[u]
        BY <2>2, RemoveFacts, ItemsOfItems
  <2>4. Enqueue(item, {})
        BY <1>4 DEF SourceRemoves
  <2> HIDE DEF item
  <2>5. IF There(item.old) THEN queue' = Append(queue, item) ELSE queue' = queue
        BY <1>2, <2>4
  <2>6. /\ source'[u] = Absent /\ \A v \in Users \ {u} : source'[v] = source[v]
        /\ oldDB' = oldDB
        BY <1>4 DEF SourceRemoves, HandInv, TypeOK
  <2> QED BY <2>1, <2>3, <2>5, <2>6, ChangeKeepsQueue
<1> QED BY <1>3, <1>4

\* Whatever leaves the queue and the source alone leaves QueueInv alone.
LEMMA QueueUnchanged ==
    ASSUME QueueInv, UNCHANGED <<queue, source, oldDB>>
    PROVE  QueueInv'
BY DEF QueueInv, SourceUnique, QueueUnique, Chain, LastIsPresent, RemovedIsGone, Holds

\* Every step keeps what the queue knows.
LEMMA QueueNext ==
    HandInv /\ QueueInv /\ HandInv' /\ [Next]_vars => QueueInv'
<1> SUFFICES ASSUME HandInv /\ QueueInv /\ HandInv', [Next]_vars PROVE QueueInv'
    OBVIOUS
<1>1. ASSUME NEW u \in Users, NEW o \in Inputs[u], SourceChanges(u, o) PROVE QueueInv'
      BY <1>1, SourceKeepsQueue
<1>2. ASSUME NEW u \in Users, SourceRemoves(u) PROVE QueueInv'
      BY <1>2, SourceKeepsQueue
<1>3. CASE Ping
      BY <1>3, QueueUnchanged DEF Ping, sourceVars
<1>4. CASE HandleListenerObject
      BY <1>4, QueueUnchanged DEF HandleListenerObject, sourceVars
<1>5. CASE UserHasSchools
      BY <1>5, QueueUnchanged DEF UserHasSchools, sourceVars
<1>6. CASE Map
      BY <1>6, QueueUnchanged DEF Map, sourceVars
<1>7. CASE MapRaises
  <2>1. queue # <<>> /\ queue' = Tail(queue) /\ UNCHANGED <<source, oldDB>>
        BY <1>7 DEF MapRaises, Raise, EndHandling, sourceVars, HandInv, Shape, Handling
  <2> QED BY <2>1, TailKeepsQueue
<1>8. ASSUME NEW n \in Names, SearchFinds(n) PROVE QueueInv'
      BY <1>8, QueueUnchanged DEF SearchFinds, sourceVars
<1>9. CASE SearchFindsNone
      BY <1>9, QueueUnchanged DEF SearchFindsNone, sourceVars
<1>10. CASE SearchMissesData
  <2>1. queue # <<>> /\ queue' = Tail(queue) /\ UNCHANGED <<source, oldDB>>
        BY <1>10 DEF SearchMissesData, EndHandling, sourceVars, HandInv, Shape, Handling
  <2> QED BY <2>1, TailKeepsQueue
<1>11. CASE SearchRaises
  <2>1. queue # <<>> /\ queue' = Tail(queue) /\ UNCHANGED <<source, oldDB>>
        BY <1>11 DEF SearchRaises, Raise, EndHandling, sourceVars, HandInv, Shape, Handling
  <2> QED BY <2>1, TailKeepsQueue
<1>12. CASE Get
       BY <1>12, QueueUnchanged DEF Get, sourceVars
<1>13. CASE GetRaises
  <2>1. queue # <<>> /\ queue' = Tail(queue) /\ UNCHANGED <<source, oldDB>>
        BY <1>13 DEF GetRaises, Raise, EndHandling, sourceVars, HandInv, Shape, Handling
  <2> QED BY <2>1, TailKeepsQueue
<1>14. CASE Save
       BY <1>14, QueueUnchanged DEF Save, sourceVars
<1>15. ASSUME NEW k \in {"guardians", "wards"}, DropLinks(k) PROVE QueueInv'
       BY <1>15, QueueUnchanged DEF DropLinks, sourceVars
<1>16. CASE SaveRaises
  <2>1. queue # <<>> /\ queue' = Tail(queue) /\ UNCHANGED <<source, oldDB>>
        BY <1>16 DEF SaveRaises, Raise, EndHandling, sourceVars, HandInv, Shape, Handling
  <2> QED BY <2>1, TailKeepsQueue
<1>17. CASE Delete
       BY <1>17, QueueUnchanged DEF Delete, sourceVars
<1>18. CASE Done
  <2>1. queue # <<>> /\ queue' = Tail(queue) /\ UNCHANGED <<source, oldDB>>
        BY <1>18 DEF Done, EndHandling, sourceVars, HandInv, Shape, Handling
  <2> QED BY <2>1, TailKeepsQueue
<1>19. CASE Fault
  <2>1. queue # <<>> /\ queue' = Tail(queue) /\ UNCHANGED <<source, oldDB>>
        BY <1>19 DEF Fault, Raise, EndHandling, sourceVars, HandInv, Shape, Handling
  <2> QED BY <2>1, TailKeepsQueue
<1>20. CASE Cancel
       BY <1>20, QueueUnchanged DEF Cancel, sourceVars
<1>21. CASE CacheExpires
       BY <1>21, QueueUnchanged DEF CacheExpires, sourceVars
<1>22. ASSUME NEW new \in SUBSET Mapped, TargetSchoolsChange(new) PROVE QueueInv'
       BY <1>22, QueueUnchanged DEF TargetSchoolsChange, sourceVars
<1>23. ASSUME NEW n \in Names, AdminDeletes(n) PROVE QueueInv'
       BY <1>23, QueueUnchanged DEF AdminDeletes, sourceVars
<1>24. CASE UNCHANGED vars
       BY <1>24, QueueUnchanged DEF vars
<1> QED BY <1>1, <1>2, <1>3, <1>4, <1>5, <1>6, <1>7, <1>8, <1>9, <1>10, <1>11, <1>12, <1>13,
           <1>14, <1>15, <1>16, <1>17, <1>18, <1>19, <1>20, <1>21, <1>22, <1>23, <1>24 DEF Next,
           HandlerStep

-----------------------------------------------------------------------------
\* What holds for all inputs.
IndInv == HandInv /\ QueueInv

\* What the handler has in hand and what the queue knows, for all inputs.
THEOREM Invariance == Spec => []IndInv
<1>1. Init => IndInv
      BY HandInit, QueueInit DEF IndInv
<1>2. IndInv /\ [Next]_vars => IndInv'
      BY HandNext, QueueNext DEF IndInv
<1> QED BY <1>1, <1>2, PTL DEF Spec

(***************************************************************************)
(* TypeOK: among others, the handler always has an old_data at hand when   *)
(* it searches the account of a removed user, and a request it sends names *)
(* schools of the target.                                                  *)
(***************************************************************************)
THEOREM TypeCorrect == Spec => []TypeOK
<1>1. IndInv => TypeOK
      BY DEF IndInv, HandInv
<1> QED BY <1>1, Invariance, PTL
=============================================================================
