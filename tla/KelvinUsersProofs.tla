------------------------- MODULE KelvinUsersProofs -------------------------
(***************************************************************************)
(* Proofs about KelvinUsers, for any users, schools and inputs and for any *)
(* number of changes, failures and cancellations: whose accounts are       *)
(* whose, and what they say.                                               *)
(*                                                                         *)
(* OneAccountPerUser and OnlyOwnAccounts depend on what the search finds.  *)
(* AccountsKnown says which identity each account of a user has while      *)
(* changes of the user are in the queue: the one from before the next      *)
(* object (Before), or the one after it if the handler has saved the       *)
(* account already (After).  By QueueUnique nobody else has either of them *)
(* at that time.  Converges is about the users without objects in the      *)
(* queue; ImageInv adds what the account says while the user's object is   *)
(* handled, and handled again.  What a step does to the accounts is stated *)
(* once for all steps that carry an object out (WorkFacts) and once for    *)
(* all that end its handling (EndFacts); both ImageInv and the refinement  *)
(* of Replication rest on these two.                                       *)
(***************************************************************************)
EXTENDS KelvinUsersQueueProofs, FiniteSetTheorems

-----------------------------------------------------------------------------
(* Whose accounts are whose. *)

(***************************************************************************)
(* The hypothesis of the theorems about accounts: the users of the source  *)
(* have a source_uid, and it stays the same for a user who may be without  *)
(* a record_uid.  Without the first part a removed user's account may stay *)
(* (see UnsetSourceUidIsFound), or the target gives the account another    *)
(* source_uid than the one it is searched by; without the second           *)
(* search_params() may combine the new record_uid with the old source_uid. *)
(***************************************************************************)
Identified ==
    /\ \A o \in UserObjects : o.suid # NoUid
    /\ \A u \in Users : \A o, p \in Inputs[u] : o.ruid = NoUid => p.suid = o.suid

\* No change of the user's identity was lost.
Sane(u) == lost[u] # "identity"

\* search_params() neither raises nor misses data.
Searching(item) == ~ParamsMissing(item) /\ SearchRecordUid(item) # NoUid

\* Account n has the identity that u has when the next object is handled ...
Before(u, n) == \E h \in OldDataOf(u) : Holds(u, h, 1) /\ SameIdentity(target[n], h)

\* ... or the one that u has afterwards, and is by the handler of this object.
After(u, n) ==
    /\ queue # <<>> /\ head.user = u /\ head.op = "add_mod" /\ There(OldData(head.obj))
    /\ SameIdentity(target[n], head.obj) /\ n = head.obj.name
    /\ schoolChanges = 0 => head.obj.schools \cap schools # {}

\* Account n has the identity that u has once the next object is handled.
NextIdentity(u, n) == \E h \in OldDataOf(u) : Holds(u, h, 2) /\ SameIdentity(target[n], h)

\* Every account of such a user has one of these two identities.
AccountsKnown ==
    \A u \in Users : Sane(u) =>
        \A n \in AccountsOf(u) : target[n].ruid # NoUid /\ (Before(u, n) \/ After(u, n))

\* And there is at most one.
OneEach == \A u \in Users : Sane(u) => \A m, n \in AccountsOf(u) : m = n

\* What the connector did not create keeps its source_uid.
ForeignStays ==
    \A n \in Names : target[n] # Absent /\ target[n].of \notin Users =>
        target[n].suid = ForeignAccount.suid

\* What the handler found is still what it would find, unless it is gone.
FoundInHand ==
    /\ pc \in {"get", "save", "resave", "delete"} =>
          /\ Searching(cur)
          /\ \A n \in Names : Matches(n, cur) <=> n = found /\ target[n] # Absent
    /\ pc \notin {"get", "save", "resave", "delete", "done"} => found = Absent

\* An object that was carried out has left the user with the next identity.
DoneKnown ==
    pc = "done" /\ Sane(head.user) => \A n \in AccountsOf(head.user) : NextIdentity(head.user, n)

\* Whose accounts are whose.
AccountInv == AccountsKnown /\ OneEach /\ ForeignStays /\ FoundInHand /\ DoneKnown

\* The head of the queue is an object of a user.
LEMMA HeadFacts ==
    ASSUME HandInv, queue # <<>>
    PROVE  /\ head \in Items /\ head.user \in Users /\ 1 \in 1..Len(queue) /\ head = queue[1]
           /\ head.op \in {"add_mod", "remove"}
           /\ head.op = "add_mod" => head.obj \in Inputs[head.user]
           /\ head.old \in OldDataOf(head.user) \cup {Absent}
BY HeadIsFirst, ItemFacts DEF HandInv, TypeOK, head

\* Who the head's user is before it is what its old_data says.
LEMMA HoldsAtHead ==
    ASSUME HandInv, queue # <<>>, NEW h, Holds(head.user, h, 1)
    PROVE  h = head.old /\ h # Absent
<1>1. /\ Len(queue) \in Nat /\ 1 \in 1..Len(queue) /\ head = queue[1]
      BY HeadIsFirst DEF HandInv, TypeOK, head
<1>2. PICK i \in 1..Len(queue) : /\ queue[i].user = head.user /\ queue[i].old = h
                                 /\ \A j \in 1..(i - 1) : queue[j].user # head.user
      BY <1>1 DEF Holds, HoldsIn
<1>3. i = 1
      BY <1>1, <1>2
<1> QED BY <1>1, <1>2, <1>3 DEF Holds, HoldsIn, There

\* For the others nothing changes when the first object leaves the queue.
LEMMA HoldsOfOthers ==
    ASSUME HandInv, queue # <<>>, NEW v, v # head.user, NEW h
    PROVE  Holds(v, h, 1) <=> Holds(v, h, 2)
<1>1. /\ Len(queue) \in Nat /\ 1 \in 1..Len(queue) /\ head = queue[1]
      BY HeadIsFirst DEF HandInv, TypeOK, head
<1>2. \A i \in 1..Len(queue) : i = 1 \/ i \in 2..Len(queue)
      BY <1>1
<1>3. \A i \in 2..Len(queue) : /\ i \in 1..Len(queue)
                              /\ \A j \in 1..(i - 1) : j = 1 \/ j \in 2..(i - 1)
      BY <1>1
<1>4. \A i \in 2..Len(queue) : \A j \in 2..(i - 1) : j \in 1..(i - 1)
      BY <1>1
<1>5. (\A j \in 1..Len(queue) : queue[j].user # v) <=> (\A j \in 2..Len(queue) : queue[j].user # v)
      BY <1>1, <1>2, <1>3
<1>6. ASSUME NEW i \in 2..Len(queue)
      PROVE  (\A j \in 1..(i - 1) : queue[j].user # v) <=> (\A j \in 2..(i - 1) : queue[j].user # v)
      BY <1>1, <1>3, <1>4
<1>7. ASSUME NEW i \in 1..Len(queue), queue[i].user = v
      PROVE  i \in 2..Len(queue)
      BY <1>1, <1>2, <1>7
<1>8. (\E i \in 1..Len(queue) : /\ queue[i].user = v /\ queue[i].old = h
                                /\ \A j \in 1..(i - 1) : queue[j].user # v)
      <=> (\E i \in 2..Len(queue) : /\ queue[i].user = v /\ queue[i].old = h
                                    /\ \A j \in 2..(i - 1) : queue[j].user # v)
      BY <1>3, <1>6, <1>7
<1> QED BY <1>5, <1>8 DEF Holds, HoldsIn

\* The identity that is searched for is the one before the change, if there is one, or after it.
LEMMA SearchedIdentity ==
    ASSUME Identified, HandInv, Handling, Searching(cur)
    PROVE  /\ \/ /\ head.old # Absent /\ head.old.ruid # NoUid
                 /\ SearchRecordUid(cur) = head.old.ruid /\ SearchSourceUid(cur) = head.old.suid
              \/ /\ head.op = "add_mod"
                 /\ SearchRecordUid(cur) = head.obj.ruid /\ SearchSourceUid(cur) = head.obj.suid
           /\ head.old # Absent /\ head.old.ruid # NoUid =>
                 SearchRecordUid(cur) = head.old.ruid /\ SearchSourceUid(cur) = head.old.suid
           /\ SearchRecordUid(head) = SearchRecordUid(cur)
           /\ SearchSourceUid(head) = SearchSourceUid(cur)
<1>1. /\ queue # <<>> /\ head \in Items /\ head.user \in Users
      /\ head.op \in {"add_mod", "remove"} /\ (cur # head => cur = RemoveObject(head))
      /\ head.op = "remove" => cur = head
      BY CurFacts, ItemFacts DEF HandInv
<1>2. head.op = "add_mod" =>
          /\ RemoveObject(head).op = "remove"
          /\ RemoveObject(head).old = IF head.old # Absent THEN head.old ELSE OldData(head.obj)
      BY <1>1, RemoveObjectFacts
<1>3. head.old # Absent =>
          \E p \in Inputs[head.user] : head.old.ruid = p.ruid /\ head.old.suid = p.suid
      BY <1>1, ItemFacts, OldDataFacts
<1>4. head.old # Absent => head.old.suid # NoUid
      BY <1>1, <1>3, ObjectFacts DEF Identified
<1>5. head.op = "add_mod" => head.obj \in Inputs[head.user] /\ head.obj.suid # NoUid
      BY <1>1, ItemFacts, ObjectFacts DEF Identified
<1>6. head.op = "add_mod" /\ head.old # Absent /\ head.old.ruid = NoUid =>
          head.old.suid = head.obj.suid
      BY <1>1, <1>3, <1>5 DEF Identified
<1>7. head.op = "remove" => head.old # Absent
      BY <1>1, ItemFacts, OldDataFacts
<1>8. /\ OldData(head.obj).ruid = head.obj.ruid /\ OldData(head.obj).suid = head.obj.suid
      BY DEF OldData
<1>9. head.op = "add_mod" => OldData(head.obj) # Absent
      BY <1>1, <1>5, ObjectFacts
<1>10. CASE cur = head
       BY <1>1, <1>4, <1>5, <1>6, <1>7, <1>10 DEF Searching, SearchRecordUid, SearchSourceUid
<1>11. CASE cur # head
  <2>1. head.op = "add_mod" /\ cur = RemoveObject(head)
        BY <1>1, <1>11
  <2>2. CASE head.old # Absent
        BY <1>2, <1>4, <2>1, <2>2 DEF Searching, SearchRecordUid, SearchSourceUid
  <2>3. CASE head.old = Absent
        BY <1>2, <1>5, <1>8, <1>9, <2>1, <2>3 DEF Searching, SearchRecordUid, SearchSourceUid
  <2> QED BY <2>2, <2>3
<1> QED BY <1>10, <1>11

(***************************************************************************)
(* An account that is found belongs to the object's user, or to one whose  *)
(* change of identity was lost.                                            *)
(***************************************************************************)
LEMMA FoundIsOwn ==
    ASSUME Identified, HandInv, QueueInv, AccountsKnown, ForeignStays, Handling, Searching(cur),
           NEW n \in Names, Matches(n, cur)
    PROVE  /\ target[n].of \in Users
           /\ target[n].of = head.user \/ ~Sane(target[n].of)
<1>1. /\ queue # <<>> /\ head \in Items /\ head.user \in Users /\ 1 \in 1..Len(queue)
      /\ head = queue[1]
      BY HeadFacts DEF HandInv, Shape
<1>2. /\ target[n] # Absent
      /\ target[n].ruid = SearchRecordUid(cur) /\ target[n].suid = SearchSourceUid(cur)
      BY DEF Matches
<1>3. target[n].of \in Users
  <2>1. \E o \in UserObjects : target[n].suid = o.suid
    <3>1. head.old # Absent => \E o \in UserObjects : head.old.suid = o.suid
          BY <1>1, ItemFacts, OldDataFacts, ObjectFacts
    <3>2. head.op = "add_mod" => head.obj \in UserObjects
          BY <1>1, ItemFacts, ObjectFacts
    <3> QED BY <1>2, <3>1, <3>2, SearchedIdentity
  <2> QED BY <1>2, <2>1, ForeignAssumption DEF ForeignStays
<1>4. ASSUME target[n].of # head.user, Sane(target[n].of) PROVE FALSE
  <2> DEFINE v == target[n].of
  <2>1. v \in Users /\ n \in AccountsOf(v)
        BY <1>2, <1>3 DEF AccountsOf
  <2>2. target[n].ruid # NoUid /\ Before(v, n)
        BY <1>4, <2>1 DEF AccountsKnown, After
  <2>3. PICK h \in OldDataOf(v) : Holds(v, h, 1) /\ SameIdentity(target[n], h)
        BY <2>2 DEF Before
  <2>4. /\ head.old # Absent => ~SameIdentity(head.old, h)
        /\ head.op = "add_mod" => ~SameIdentity(head.obj, h)
        BY <1>1, <1>4, <2>1, <2>2, <2>3 DEF QueueInv, QueueUnique, SameIdentity
  <2> QED BY <1>2, <2>3, <2>4, SearchedIdentity DEF SameIdentity
<1> QED BY <1>3, <1>4

\* An account with the identity from before the object is found.
LEMMA BeforeIsFound ==
    ASSUME Identified, HandInv, Handling, Searching(cur),
           NEW n \in AccountsOf(head.user), target[n].ruid # NoUid, Before(head.user, n)
    PROVE  Matches(n, cur)
<1>1. queue # <<>> /\ target[n] # Absent
      BY DEF HandInv, Shape, AccountsOf
<1>2. PICK h \in OldDataOf(head.user) : Holds(head.user, h, 1) /\ SameIdentity(target[n], h)
      BY DEF Before
<1>3. h = head.old /\ h # Absent
      BY <1>1, <1>2, HoldsAtHead
<1>4. SearchRecordUid(cur) = h.ruid /\ SearchSourceUid(cur) = h.suid
      BY <1>2, <1>3, SearchedIdentity DEF SameIdentity
<1> QED BY <1>1, <1>2, <1>4 DEF Matches, SameIdentity

\* An account of the user that is not found has the new identity already.
LEMMA UnfoundIsNew ==
    ASSUME Identified, HandInv, AccountsKnown, Handling, Searching(cur), Sane(head.user),
           NEW n \in AccountsOf(head.user), ~Matches(n, cur)
    PROVE  After(head.user, n)
<1>1. queue # <<>> /\ head.user \in Users
      BY HeadFacts DEF HandInv, Shape
<1>2. target[n].ruid # NoUid
      BY <1>1 DEF AccountsKnown
<1> QED BY <1>1, <1>2, BeforeIsFound DEF AccountsKnown

\* The identity after the object is the one that the rest of the queue starts from.
LEMMA NewIsNext ==
    ASSUME HandInv, QueueInv, NEW n, After(head.user, n)
    PROVE  NextIdentity(head.user, n)
<1>1. /\ queue # <<>> /\ 1 \in 1..Len(queue) /\ head = queue[1] /\ head.op = "add_mod"
      /\ head.user \in Users /\ head.obj \in Inputs[head.user]
      BY HeadFacts DEF After
<1>2. Holds(head.user, OldData(head.obj), 2)
      BY <1>1 DEF After, QueueInv, Chain
<1>3. OldData(head.obj) \in OldDataOf(head.user) /\ SameIdentity(target[n], OldData(head.obj))
      BY <1>1, ObjectFacts DEF After, SameIdentity, OldData
<1> QED BY <1>2, <1>3 DEF NextIdentity

\* A change that keeps the identity may be lost.
LEMMA KeptIsNext ==
    ASSUME HandInv, QueueInv, AccountsKnown, queue # <<>>, Sane(head.user), KeepsIdentity(head),
           NEW n \in AccountsOf(head.user)
    PROVE  NextIdentity(head.user, n)
<1>1. /\ 1 \in 1..Len(queue) /\ head = queue[1] /\ head.op = "add_mod"
      /\ head.user \in Users /\ head.obj \in Inputs[head.user]
      BY HeadFacts DEF KeepsIdentity
<1>2. CASE After(head.user, n)
      BY <1>2, NewIsNext
<1>3. CASE Before(head.user, n)
  <2>1. PICK h \in OldDataOf(head.user) : Holds(head.user, h, 1) /\ SameIdentity(target[n], h)
        BY <1>3 DEF Before
  <2>2. h = head.old /\ h # Absent
        BY <2>1, HoldsAtHead
  <2>3. There(OldData(head.obj)) /\ SameIdentity(target[n], OldData(head.obj))
        BY <1>1, <2>1, <2>2, ObjectFacts DEF KeepsIdentity, There, SameIdentity, OldData
  <2>4. Holds(head.user, OldData(head.obj), 2)
        BY <1>1, <2>3 DEF QueueInv, Chain
  <2> QED BY <1>1, <2>3, <2>4, ObjectFacts DEF NextIdentity
<1> QED BY <1>1, <1>2, <1>3 DEF AccountsKnown

\* Accounts may disappear while the queue stays as it is.
LEMMA ShrinkKeeps ==
    ASSUME AccountsKnown, OneEach, ForeignStays, UNCHANGED <<queue, source>>,
           UNCHANGED <<schools, schoolChanges>> \/ schoolChanges' # 0,
           \A n \in Names : target'[n] \in {target[n], Absent},
           \A v \in Users : Sane(v)' => Sane(v)
    PROVE  AccountsKnown' /\ OneEach' /\ ForeignStays'
<1>1. \A v \in Users : \A n \in AccountsOf(v)' :
          n \in AccountsOf(v) /\ n \in Names /\ target'[n] = target[n]
      BY DEF AccountsOf
<1>2. ASSUME NEW v \in Users, Sane(v)', NEW n \in AccountsOf(v)'
      PROVE  target'[n].ruid # NoUid /\ (Before(v, n)' \/ After(v, n)')
  <2>1. Sane(v) /\ n \in AccountsOf(v) /\ target'[n] = target[n]
        BY <1>1, <1>2
  <2>2. target[n].ruid # NoUid /\ (Before(v, n) \/ After(v, n))
        BY <2>1 DEF AccountsKnown
  <2>3. Before(v, n) => Before(v, n)'
        BY <2>1 DEF Before, Holds
  <2>4. After(v, n) => After(v, n)'
        BY <2>1 DEF After, head
  <2> QED BY <2>1, <2>2, <2>3, <2>4
<1>3. OneEach'
      BY <1>1 DEF OneEach
<1>4. ForeignStays'
      BY DEF ForeignStays
<1> QED BY <1>2, <1>3, <1>4 DEF AccountsKnown

\* What the handler has found it keeps in hand.
LEMMA FoundKept ==
    ASSUME FoundInHand, UNCHANGED <<cur, found>>,
           \A n \in Names : target'[n] \in {target[n], Absent},
           pc' \in {"get", "save", "resave", "delete"} =>
               pc \in {"get", "save", "resave", "delete"},
           pc \in {"get", "save", "resave", "delete", "done"} =>
               pc' \in {"get", "save", "resave", "delete", "done"}
    PROVE  FoundInHand'
<1>1. \A n \in Names : Matches(n, cur)' <=> Matches(n, cur) /\ target'[n] # Absent
      BY DEF Matches, SearchRecordUid, SearchSourceUid
<1>2. Searching(cur)' <=> Searching(cur)
      BY DEF Searching, ParamsMissing, SearchRecordUid
<1> QED BY <1>1, <1>2 DEF FoundInHand

\* A state of the handler in which the next object is not done yet, or done as before.
LEMMA DoneKept ==
    ASSUME DoneKnown, UNCHANGED <<queue, source>>,
           \A n \in Names : target'[n] \in {target[n], Absent},
           pc' = "done" => pc = "done" /\ (Sane(head.user)' => Sane(head.user))
    PROVE  DoneKnown'
<1> SUFFICES ASSUME pc' = "done", Sane(head.user)', NEW n \in AccountsOf(head.user)'
             PROVE  NextIdentity(head.user, n)'
    BY DEF DoneKnown
<1>1. head' = head /\ pc = "done"
      BY DEF head
<1>2. n \in AccountsOf(head.user) /\ target'[n] = target[n] /\ Sane(head.user)
      BY <1>1 DEF AccountsOf
<1>3. NextIdentity(head.user, n)
      BY <1>1, <1>2 DEF DoneKnown
<1> QED BY <1>1, <1>2, <1>3 DEF NextIdentity, Holds

(***************************************************************************)
(* The first object leaves the queue: carried out, or without an effect on *)
(* its user's identity, or the user's identity is lost.                    *)
(***************************************************************************)
LEMMA EndKeepsAccounts ==
    ASSUME HandInv, QueueInv, AccountInv, Handling, EndHandling,
           UNCHANGED <<source, oldDB, target>>,
           \A v \in Users \ {head.user} : lost'[v] = lost[v],
           lost'[head.user] # "identity" =>
               /\ Sane(head.user)
               /\ \/ KeepsIdentity(head)
                  \/ \A n \in AccountsOf(head.user) : NextIdentity(head.user, n)
    PROVE  /\ AccountInv'
           /\ \A u \in Users : Sane(u)' => \A n \in AccountsOf(u)' : Before(u, n)'
<1> USE DEF AccountInv
<1>1. queue # <<>> /\ head.user \in Users
      BY HeadFacts DEF HandInv, Shape
<1>2. \A u \in Users : \A h : \A k \in Nat \ {0} :
          HoldsIn(queue', source', u, h, k) <=> Holds(u, h, k + 1)
      BY <1>1, TailKeepsQueue DEF EndHandling
<1>3. \A u \in Users : \A h : HoldsIn(queue', source', u, h, 1) <=> Holds(u, h, 2)
      BY <1>2
<1>4. \A u \in Users : AccountsOf(u)' = AccountsOf(u) /\ (Sane(u)' => Sane(u))
      BY DEF AccountsOf, Sane
<1>5. ASSUME NEW u \in Users, Sane(u)', NEW n \in AccountsOf(u)
      PROVE  /\ target[n].ruid # NoUid
             /\ \E h \in OldDataOf(u) : Holds(u, h, 2) /\ SameIdentity(target[n], h)
  <2>1. target[n].ruid # NoUid /\ (Before(u, n) \/ After(u, n))
        BY <1>4, <1>5 DEF AccountsKnown
  <2>2. CASE u = head.user
    <3>1. Sane(head.user) /\ lost'[head.user] # "identity"
          BY <1>4, <1>5, <2>2 DEF Sane
    <3>2. NextIdentity(head.user, n)
          BY <1>1, <1>5, <2>2, <3>1, KeptIsNext
    <3> QED BY <2>1, <2>2, <3>2 DEF NextIdentity
  <2>3. CASE u # head.user
    <3>1. Before(u, n)
          BY <2>1, <2>3 DEF After
    <3>2. PICK h \in OldDataOf(u) : Holds(u, h, 1) /\ SameIdentity(target[n], h)
          BY <3>1 DEF Before
    <3>3. Holds(u, h, 2)
          BY <1>1, <2>3, <3>2, HoldsOfOthers
    <3> QED BY <2>1, <3>2, <3>3
  <2> QED BY <2>2, <2>3
<1>6. ASSUME NEW u \in Users, Sane(u)', NEW n \in AccountsOf(u)'
      PROVE  target'[n].ruid # NoUid /\ Before(u, n)'
  <2>1. target[n].ruid # NoUid
        BY <1>4, <1>5, <1>6
  <2>2. PICK h \in OldDataOf(u) : Holds(u, h, 2) /\ SameIdentity(target[n], h)
        BY <1>4, <1>5, <1>6
  <2>3. HoldsIn(queue', source', u, h, 1)
        BY <1>3, <2>2
  <2> QED BY <2>1, <2>2, <2>3 DEF Before, Holds, SameIdentity
<1>7. AccountsKnown'
      BY <1>6 DEF AccountsKnown
<1>8. OneEach'
      BY <1>4 DEF OneEach
<1>9. ForeignStays' /\ FoundInHand' /\ DoneKnown'
      BY DEF ForeignStays, FoundInHand, DoneKnown, EndHandling
<1> QED BY <1>6, <1>7, <1>8, <1>9

\* A set of which all elements are equal.
LEMMA AtMostOne ==
    ASSUME NEW S, \A x, y \in S : x = y
    PROVE  Cardinality(S) \in {0, 1}
<1>1. CASE S = {}
      BY <1>1, FS_EmptySet
<1>2. CASE S # {}
  <2>1. PICK x : S = {x}
        BY <1>2
  <2> QED BY <2>1, FS_Singleton
<1> QED BY <1>1, <1>2

\* A change in the source leaves what the queue knows of the accounts alone.
LEMMA SourceKeepsAccounts ==
    ASSUME HandInv, QueueInv, AccountInv, HandInv', NEW u \in Users,
           (\E o \in Inputs[u] : SourceChanges(u, o)) \/ SourceRemoves(u),
           queue # <<>> => queue' # <<>> /\ head' = head,
           UNCHANGED <<handlerVars, schools, target, lost, schoolChanges>>
    PROVE  AccountInv'
<1> USE DEF AccountInv
<1>1. \A v \in Users : \A h : \A k \in 1..(Len(queue) + 1) :
          HoldsIn(queue', source', v, h, k) <=> Holds(v, h, k)
      BY SourceKeepsQueue
<1>2. Len(queue) \in Nat
      BY LenProperties DEF HandInv, TypeOK
<1>3. \A v \in Users : \A h : HoldsIn(queue', source', v, h, 1) <=> Holds(v, h, 1)
      BY <1>1, <1>2
<1>4. \A v \in Users : AccountsOf(v)' = AccountsOf(v) /\ Sane(v)' = Sane(v)
      BY DEF AccountsOf, Sane
<1>5. \A v \in Users : \A n : Before(v, n)' <=> Before(v, n)
      BY <1>3 DEF Before, Holds, SameIdentity
<1>6. \A v \in Users : \A n : After(v, n) => After(v, n)'
      BY DEF After
<1>7. AccountsKnown' /\ OneEach' /\ ForeignStays'
      BY <1>4, <1>5, <1>6 DEF AccountsKnown, OneEach, ForeignStays
<1>8. FoundInHand'
      BY FoundKept DEF handlerVars
<1>9. DoneKnown'
  <2> SUFFICES ASSUME pc = "done", Sane(head.user)', NEW n \in AccountsOf(head.user)'
               PROVE  NextIdentity(head.user, n)'
      BY DEF DoneKnown, handlerVars
  <2>1. queue # <<>> /\ head.user \in Users /\ 1 \in 1..Len(queue) /\ head' = head
        BY HeadFacts DEF HandInv, Shape, Handling
  <2>2. \A h : HoldsIn(queue', source', head.user, h, 2) <=> Holds(head.user, h, 2)
        BY <1>1, <1>2, <2>1
  <2>3. NextIdentity(head.user, n)
        BY <1>4, <2>1 DEF DoneKnown
  <2> QED BY <2>1, <2>2, <2>3 DEF NextIdentity, Holds, SameIdentity
<1> QED BY <1>7, <1>8, <1>9

\* Once the user's account is not found any more, the user is known as after the object.
LEMMA RemovalKnown ==
    ASSUME Identified, HandInv, QueueInv, AccountsKnown, Handling, Searching(cur),
           Sane(head.user), UNCHANGED <<queue, source>>,
           \A n \in Names : target'[n] \in {target[n], Absent},
           \A n \in Names : target'[n] # Absent => ~Matches(n, cur)
    PROVE  \A n \in AccountsOf(head.user)' : NextIdentity(head.user, n)'
<1> TAKE n \in AccountsOf(head.user)'
<1>1. head' = head
      BY DEF head
<1>2. n \in AccountsOf(head.user) /\ target'[n] = target[n] /\ ~Matches(n, cur)
      BY <1>1 DEF AccountsOf
<1>3. NextIdentity(head.user, n)
      BY <1>2, UnfoundIsNew, NewIsNext
<1> QED BY <1>1, <1>2, <1>3 DEF NextIdentity, Holds

\* The account is saved: it is the only one the user has.
LEMMA SaveKeepsAccounts ==
    ASSUME Identified, HandInv, QueueInv, AccountInv, Save
    PROVE  /\ AccountInv'
           /\ lost'[head.user] # "identity" => \A n \in AccountsOf(head.user)' : n = req.name
<1> USE DEF AccountInv
<1> DEFINE u == head.user
<1>1. /\ Handling /\ queue # <<>> /\ u \in Users /\ cur = head /\ head.op = "add_mod"
      /\ head.obj \in Inputs[u] /\ 1 \in 1..Len(queue) /\ head = queue[1]
      BY CurFacts, HeadFacts DEF Save, HandInv, Shape, Handling
<1>2. /\ UNCHANGED <<queue, source, schools, schoolChanges, cur, req, found>> /\ head' = head
      /\ pc \in {"save", "resave"} /\ pc' = "done"
      BY DEF Save, sourceVars, countVars, head
<1>3. /\ req.name = head.obj.name /\ req.name \in Names /\ req.ruid = head.obj.ruid
      /\ req.suid = head.obj.suid /\ req.suid # NoUid /\ There(OldData(head.obj))
  <2>1. /\ req \in Requests /\ req.name = head.obj.name /\ req.ruid = head.obj.ruid
        /\ req.suid = head.obj.suid /\ head.obj.schools \cap Mapped # {}
        BY <1>1, <1>2 DEF HandInv, InHand
  <2>2. head.obj.suid # NoUid /\ OldData(head.obj) # Absent
        BY <1>1, ObjectFacts DEF Identified
  <2> QED BY <2>1, <2>2 DEF Requests, There, OldData
<1>4. schoolChanges = 0 => head.obj.schools \cap schools # {}
      BY <1>1, <1>2 DEF HandInv, SchoolsInHand
<1>5. /\ target'[req.name].of = u /\ target'[req.name].suid = req.suid
      /\ req.ruid # NoUid => target'[req.name].ruid = req.ruid
      /\ \A n \in Names : n # req.name => target'[n] \in {target[n], Absent}
      /\ \A n \in Names : n # req.name /\ n = found => target'[n] = Absent
      BY <1>1, <1>3 DEF Save, Stored
<1>6. \A v \in Users : Sane(v)' => Sane(v)
      BY <1>1 DEF Save, CarriedOut, Sane
<1>7. Sane(u)' => req.ruid # NoUid
      BY <1>1, <1>2, <1>3 DEF Save, CarriedOut, Sane, HandInv, TypeOK
<1>8. Searching(cur) /\ \A n \in Names : Matches(n, cur) <=> n = found /\ target[n] # Absent
      BY <1>2 DEF FoundInHand
<1>9. ASSUME Sane(u), NEW n \in AccountsOf(u)'
      PROVE  n = req.name
  <2>1. n \in Names /\ target'[n] # Absent
        BY DEF AccountsOf
  <2>2. SUFFICES ASSUME n # req.name PROVE FALSE
        OBVIOUS
  <2>3. target'[n] = target[n] /\ n # found /\ n \in AccountsOf(u)
        BY <1>2, <1>5, <2>1, <2>2 DEF AccountsOf
  <2>4. ~Matches(n, cur)
        BY <1>8, <2>1, <2>3
  <2>5. After(u, n)
        BY <1>1, <1>8, <1>9, <2>3, <2>4, UnfoundIsNew
  <2> QED BY <1>3, <2>2, <2>5 DEF After
<1>10. ASSUME NEW v \in Users, v # u, NEW n \in AccountsOf(v)'
       PROVE  n \in AccountsOf(v) /\ target'[n] = target[n] /\ n \in Names
       BY <1>5, <1>10 DEF AccountsOf
<1>11. ASSUME NEW v \in Users, Sane(v)', NEW n \in AccountsOf(v)'
       PROVE  target'[n].ruid # NoUid /\ (Before(v, n)' \/ After(v, n)')
  <2>1. CASE v = u
    <3>1. n = req.name
          BY <1>1, <1>2, <1>6, <1>9, <1>11, <2>1
    <3>2. /\ target'[n].ruid = head.obj.ruid /\ target'[n].ruid # NoUid
          /\ target'[n].suid = head.obj.suid
          BY <1>1, <1>2, <1>3, <1>5, <1>7, <1>11, <2>1, <3>1
    <3>3. After(v, n)'
          BY <1>1, <1>2, <1>3, <1>4, <2>1, <3>1, <3>2 DEF After, SameIdentity
    <3> QED BY <3>2, <3>3
  <2>2. CASE v # u
    <3>1. n \in AccountsOf(v) /\ target'[n] = target[n] /\ Sane(v)
          BY <1>6, <1>10, <1>11, <2>2
    <3>2. target[n].ruid # NoUid /\ Before(v, n)
          BY <2>2, <3>1 DEF AccountsKnown, After
    <3>3. Before(v, n)'
          BY <1>2, <3>1, <3>2 DEF Before, Holds
    <3> QED BY <3>1, <3>2, <3>3
  <2> QED BY <2>1, <2>2
<1>12. OneEach'
  <2> SUFFICES ASSUME NEW v \in Users, Sane(v)', NEW m \in AccountsOf(v)', NEW n \in AccountsOf(v)'
               PROVE  m = n
      BY DEF OneEach
  <2>1. CASE v = u
        BY <1>1, <1>2, <1>6, <1>9, <2>1
  <2>2. CASE v # u
        BY <1>6, <1>10, <2>2 DEF OneEach
  <2> QED BY <2>1, <2>2
<1>13. ForeignStays'
  <2> SUFFICES ASSUME NEW n \in Names, target'[n] # Absent, target'[n].of \notin Users
               PROVE  target'[n].suid = ForeignAccount.suid
      BY DEF ForeignStays
  <2> QED BY <1>1, <1>5 DEF ForeignStays
<1>14. DoneKnown'
  <2> SUFFICES ASSUME Sane(head.user)', NEW n \in AccountsOf(head.user)'
               PROVE  NextIdentity(head.user, n)'
      BY DEF DoneKnown
  <2>1. n = req.name /\ target'[n].ruid = head.obj.ruid /\ target'[n].suid = head.obj.suid
        BY <1>1, <1>2, <1>3, <1>5, <1>6, <1>7, <1>9
  <2>2. Holds(u, OldData(head.obj), 2)
        BY <1>1, <1>3 DEF QueueInv, Chain
  <2>3. OldData(head.obj) \in OldDataOf(u) /\ SameIdentity(target'[n], OldData(head.obj))
        BY <1>1, <2>1, ObjectFacts DEF SameIdentity, OldData
  <2> QED BY <1>2, <2>2, <2>3 DEF NextIdentity, Holds
<1>15. FoundInHand'
       BY <1>2 DEF FoundInHand
<1>16. lost'[u] # "identity" => \A n \in AccountsOf(u)' : n = req.name
       BY <1>1, <1>2, <1>6, <1>9 DEF Sane
<1> QED BY <1>11, <1>12, <1>13, <1>14, <1>15, <1>16 DEF AccountsKnown

\* An account of the same user that is in the way has the new identity.
LEMMA TakenIsNext ==
    ASSUME Identified, HandInv, QueueInv, AccountInv, pc \in {"save", "resave"}, Sane(head.user),
           NameTaken, target[req.name].of = cur.user
    PROVE  \A n \in AccountsOf(head.user) : NextIdentity(head.user, n)
<1> USE DEF AccountInv
<1>1. Handling /\ cur.op = "add_mod" /\ cur.user = head.user /\ head.user \in Users
      BY CurFacts DEF HandInv, Shape, Handling
<1>2. req.name \in Names
      BY <1>1 DEF HandInv, InHand, Requests
<1>3. req.name \in AccountsOf(head.user) /\ req.name # found
      BY <1>1, <1>2 DEF NameTaken, AccountsOf
<1>4. Searching(cur) /\ ~Matches(req.name, cur)
      BY <1>2, <1>3 DEF FoundInHand
<1>5. NextIdentity(head.user, req.name)
      BY <1>1, <1>3, <1>4, UnfoundIsNew, NewIsNext
<1> QED BY <1>1, <1>3, <1>5 DEF OneEach

\* Without an excuse the search does not raise.
LEMMA SearchIsUnique ==
    ASSUME Identified, HandInv, AccountInv, pc = "search", Sane(head.user),
           SearchRecordUid(cur) # NoUid, \A n \in Found(cur) : target[n].of = cur.user
    PROVE  ~ParamsMissing(cur) /\ ~(Cardinality(Found(cur)) > 1)
<1>1. cur \in Items /\ cur.user = head.user /\ head.user \in Users
      BY CurFacts DEF HandInv, Handling
<1>2. cur.op = "remove" =>
          cur.old # Absent /\ \E o \in Inputs[cur.user] : cur.old.suid = o.suid
      BY <1>1, ItemFacts, OldDataFacts
<1>3. cur.op = "remove" => cur.old.suid # NoUid
      BY <1>1, <1>2, ObjectFacts DEF Identified
<1>4. ~ParamsMissing(cur)
      BY <1>2, <1>3 DEF ParamsMissing, SearchRecordUid
<1>5. \A m, n \in Found(cur) : m = n
      BY <1>1 DEF AccountInv, OneEach, AccountsOf, Found, Matches
<1>6. Cardinality(Found(cur)) \in {0, 1}
      BY <1>5, AtMostOne
<1> QED BY <1>4, <1>6

\* Every step keeps AccountInv.
LEMMA AccountNext ==
    ASSUME Identified, HandInv, QueueInv, AccountInv, HandInv', [Next]_vars
    PROVE  AccountInv'
<1> USE DEF AccountInv
<1>1. ASSUME NEW u \in Users, NEW o \in Inputs[u], SourceChanges(u, o) PROVE AccountInv'
  <2>1. AddMod(u, o, oldDB[u]) \in Items
        BY <1>1, AddModFacts, ItemsOfItems DEF SourceChanges, HandInv, TypeOK
  <2>2. queue # <<>> => queue' # <<>> /\ head' = head
        BY <1>1, <2>1, EnqueueFacts DEF SourceChanges, HandInv
  <2> QED BY <1>1, <2>2, SourceKeepsAccounts DEF SourceChanges, countVars
<1>2. ASSUME NEW u \in Users, SourceRemoves(u) PROVE AccountInv'
  <2>1. Remove(u, oldDB[u]) \in Items
    <3>1. oldDB[u] \in OldDataOf(u)
          BY <1>2, ObjectFacts DEF SourceRemoves, HandInv, SourceKept, TypeOK
    <3> QED BY <3>1, RemoveFacts, ItemsOfItems
  <2>2. queue # <<>> => queue' # <<>> /\ head' = head
        BY <1>2, <2>1, EnqueueFacts DEF SourceRemoves, HandInv
  <2> QED BY <1>2, <2>2, SourceKeepsAccounts DEF SourceRemoves, countVars
<1>3. CASE Ping
  <2>1. /\ UNCHANGED <<queue, source>>
        /\ \A n \in Names : target'[n] \in {target[n], Absent}
        BY <1>3 DEF Ping, sourceVars
  <2>2. UNCHANGED <<schools, schoolChanges, lost>>
        BY <1>3 DEF Ping, countVars
  <2>3. AccountsKnown' /\ OneEach' /\ ForeignStays'
        BY <2>1, <2>2, ShrinkKeeps DEF Sane
  <2>4. FoundInHand'
        BY <1>3 DEF Ping, FoundInHand
  <2>5. DoneKnown'
        BY <1>3 DEF Ping, DoneKnown
  <2> QED BY <2>3, <2>4, <2>5
<1>4. CASE HandleListenerObject
  <2>1. /\ UNCHANGED <<queue, source>>
        /\ \A n \in Names : target'[n] \in {target[n], Absent}
        BY <1>4 DEF HandleListenerObject, sourceVars
  <2>2. UNCHANGED <<schools, schoolChanges, lost>>
        BY <1>4 DEF HandleListenerObject, countVars
  <2>3. AccountsKnown' /\ OneEach' /\ ForeignStays'
        BY <2>1, <2>2, ShrinkKeeps DEF Sane
  <2>4. FoundInHand'
        BY <1>4 DEF HandleListenerObject, FoundInHand
  <2>5. DoneKnown'
        BY <1>4 DEF HandleListenerObject, DoneKnown
  <2> QED BY <2>3, <2>4, <2>5
<1>5. CASE UserHasSchools
  <2>1. /\ UNCHANGED <<queue, source>>
        /\ \A n \in Names : target'[n] \in {target[n], Absent}
        BY <1>5 DEF UserHasSchools, sourceVars
  <2>2. UNCHANGED <<schools, schoolChanges, lost>>
        BY <1>5 DEF UserHasSchools, countVars
  <2>3. AccountsKnown' /\ OneEach' /\ ForeignStays'
        BY <2>1, <2>2, ShrinkKeeps DEF Sane
  <2>4. FoundInHand'
        BY <1>5 DEF UserHasSchools, FoundInHand
  <2>5. DoneKnown'
        BY <1>5 DEF UserHasSchools, DoneKnown
  <2> QED BY <2>3, <2>4, <2>5
<1>6. CASE Map
  <2>1. /\ UNCHANGED <<queue, source>>
        /\ \A n \in Names : target'[n] \in {target[n], Absent}
        BY <1>6 DEF Map, sourceVars
  <2>2. UNCHANGED <<schools, schoolChanges, lost>>
        BY <1>6 DEF Map, countVars
  <2>3. AccountsKnown' /\ OneEach' /\ ForeignStays'
        BY <2>1, <2>2, ShrinkKeeps DEF Sane
  <2>4. FoundInHand'
        BY <1>6 DEF Map, FoundInHand
  <2>5. DoneKnown'
        BY <1>6 DEF Map, DoneKnown
  <2> QED BY <2>3, <2>4, <2>5
<1>7. CASE MapRaises
  <2>1. Handling /\ EndHandling /\ UNCHANGED <<source, oldDB, target>>
        BY <1>7 DEF MapRaises, Raise, sourceVars, Handling
  <2>2. cur.user = head.user /\ head.user \in Users
        BY <2>1, CurFacts DEF HandInv
  <2>3. /\ \A v \in Users \ {head.user} : lost'[v] = lost[v]
        /\ lost'[head.user] # "identity" => Sane(head.user) /\ KeepsIdentity(head)
        BY <1>7, <2>2 DEF MapRaises, Raise, Sane, HandInv, TypeOK, head
  <2> QED BY <2>1, <2>3, EndKeepsAccounts
<1>8. ASSUME NEW n \in Names, SearchFinds(n) PROVE AccountInv'
  <2>1. /\ UNCHANGED <<queue, source>>
        /\ \A m \in Names : target'[m] \in {target[m], Absent}
        BY <1>8 DEF SearchFinds, sourceVars
  <2>2. UNCHANGED <<schools, schoolChanges, lost>>
        BY <1>8 DEF SearchFinds, countVars
  <2>3. AccountsKnown' /\ OneEach' /\ ForeignStays'
        BY <2>1, <2>2, ShrinkKeeps DEF Sane
  <2>4. FoundInHand'
    <3>1. Searching(cur) /\ \A m \in Names : Matches(m, cur) <=> m = n
          BY <1>8 DEF SearchFinds, Searching, Found
    <3>2. Searching(cur)' /\ \A m \in Names : Matches(m, cur)' <=> m = n
          BY <1>8, <3>1 DEF SearchFinds, Matches
    <3>3. target'[n] # Absent /\ found' = n /\ pc' = "get"
          BY <1>8, <3>1 DEF SearchFinds, Matches
    <3> QED BY <3>2, <3>3 DEF FoundInHand
  <2>5. DoneKnown'
        BY <1>8 DEF SearchFinds, DoneKnown
  <2> QED BY <2>3, <2>4, <2>5
<1>9. CASE SearchFindsNone
  <2>1. Handling /\ UNCHANGED <<queue, source, schools, schoolChanges, cur, found>>
        BY <1>9 DEF SearchFindsNone, sourceVars, countVars, Handling
  <2>2. /\ cur.user = head.user /\ head.user \in Users /\ cur.op \in {"add_mod", "remove"}
        /\ head' = head
        BY <2>1, CurFacts DEF HandInv, head
  <2>3. \A n \in Names : target'[n] \in {target[n], Absent}
        BY <1>9 DEF SearchFindsNone, HandInv, TypeOK
  <2>4. Searching(cur) /\ \A n \in Names : ~Matches(n, cur)
        BY <1>9 DEF SearchFindsNone, Searching, Found
  <2>5. \A n \in Names : target'[n] # Absent => ~Matches(n, cur)
        BY <2>4
  <2>6. \A v \in Users : Sane(v)' => Sane(v)
        BY <1>9, <2>2 DEF SearchFindsNone, CarriedOut, Sane, HandInv, TypeOK
  <2>7. AccountsKnown' /\ OneEach' /\ ForeignStays'
        BY <2>1, <2>3, <2>6, ShrinkKeeps
  <2>8. Sane(head.user)' => \A n \in AccountsOf(head.user)' : NextIdentity(head.user, n)'
        BY <2>1, <2>2, <2>3, <2>4, <2>5, <2>6, RemovalKnown
  <2>9. FoundInHand'
    <3>1. found' = Absent /\ found' \notin Names
          BY <1>9, <2>1, AbsentAssumption DEF SearchFindsNone, FoundInHand
    <3>2. Searching(cur)' /\ \A n \in Names : ~Matches(n, cur)'
          BY <1>9, <2>1, <2>4 DEF SearchFindsNone, Matches
    <3> QED BY <3>1, <3>2 DEF FoundInHand
  <2> QED BY <2>7, <2>8, <2>9 DEF DoneKnown
<1>10. CASE SearchMissesData
  <2>1. Handling /\ EndHandling /\ UNCHANGED <<source, oldDB, target>>
        BY <1>10 DEF SearchMissesData, sourceVars, Handling
  <2>2. cur.user = head.user /\ head.user \in Users
        BY <2>1, CurFacts DEF HandInv
  <2>3. /\ \A v \in Users \ {head.user} : lost'[v] = lost[v]
        /\ lost'[head.user] = "identity"
        BY <1>10, <2>2 DEF SearchMissesData, HandInv, TypeOK
  <2> QED BY <2>1, <2>3, EndKeepsAccounts
<1>11. CASE SearchRaises
  <2> DEFINE excused == \/ SearchRecordUid(cur) = NoUid
                        \/ \E n \in Found(cur) : target[n].of # cur.user
  <2>1. Handling /\ EndHandling /\ UNCHANGED <<source, oldDB, target>>
        BY <1>11 DEF SearchRaises, Raise, sourceVars, Handling
  <2>2. cur.user = head.user /\ head.user \in Users
        BY <2>1, CurFacts DEF HandInv
  <2>3. Sane(head.user) => excused
        BY <1>11, SearchIsUnique DEF SearchRaises
  <2>4. Raise(excused)
        BY <1>11 DEF SearchRaises
  <2> HIDE DEF excused
  <2>5. /\ \A v \in Users \ {head.user} : lost'[v] = lost[v]
        /\ lost'[head.user] # "identity" => Sane(head.user) /\ KeepsIdentity(head)
        BY <2>2, <2>3, <2>4 DEF Raise, Sane, HandInv, TypeOK, head
  <2> QED BY <2>1, <2>5, EndKeepsAccounts
<1>12. CASE Get
  <2>1. /\ UNCHANGED <<queue, source>>
        /\ \A n \in Names : target'[n] \in {target[n], Absent}
        BY <1>12 DEF Get, sourceVars
  <2>2. UNCHANGED <<schools, schoolChanges, lost>>
        BY <1>12 DEF Get, countVars
  <2>3. AccountsKnown' /\ OneEach' /\ ForeignStays'
        BY <2>1, <2>2, ShrinkKeeps DEF Sane
  <2>4. FoundInHand'
        BY <1>12, <2>1, FoundKept DEF Get
  <2>5. DoneKnown'
        BY <1>12 DEF Get, DoneKnown
  <2> QED BY <2>3, <2>4, <2>5
<1>13. CASE GetRaises
  <2>1. Handling /\ EndHandling /\ UNCHANGED <<source, oldDB, target>>
        BY <1>13 DEF GetRaises, Raise, sourceVars, Handling
  <2>2. cur.user = head.user /\ head.user \in Users
        BY <2>1, CurFacts DEF HandInv
  <2>3. /\ \A v \in Users \ {head.user} : lost'[v] = lost[v]
        /\ lost'[head.user] # "identity" => Sane(head.user) /\ KeepsIdentity(head)
        BY <1>13, <2>2 DEF GetRaises, Raise, Sane, HandInv, TypeOK, head
  <2> QED BY <2>1, <2>3, EndKeepsAccounts
<1>14. CASE Save
       BY <1>14, SaveKeepsAccounts
<1>15. ASSUME NEW k \in {"guardians", "wards"}, DropLinks(k) PROVE AccountInv'
  <2>1. /\ UNCHANGED <<queue, source>>
        /\ \A n \in Names : target'[n] \in {target[n], Absent}
        BY <1>15 DEF DropLinks, sourceVars
  <2>2. UNCHANGED <<schools, schoolChanges, lost>>
        BY <1>15 DEF DropLinks, countVars
  <2>3. AccountsKnown' /\ OneEach' /\ ForeignStays'
        BY <2>1, <2>2, ShrinkKeeps DEF Sane
  <2>4. FoundInHand'
        BY <1>15, <2>1, FoundKept DEF DropLinks
  <2>5. DoneKnown'
        BY <1>15 DEF DropLinks, DoneKnown
  <2> QED BY <2>3, <2>4, <2>5
<1>16. CASE SaveRaises
  <2> DEFINE excused == \/ AccountGone
                        \/ NameTaken /\ target[req.name].of # cur.user
                        \/ BrokenLinks # {} /\ LinksDropped
  <2>1. Handling /\ EndHandling /\ UNCHANGED <<source, oldDB, target>>
        BY <1>16 DEF SaveRaises, Raise, sourceVars, Handling
  <2>2. cur.user = head.user /\ head.user \in Users /\ cur.op = "add_mod"
        BY <1>16, <2>1, CurFacts DEF HandInv, Shape, SaveRaises
  <2>3. ~excused => NameTaken /\ target[req.name].of = cur.user
        BY <1>16, <2>2 DEF SaveRaises, HandInv, InHand
  <2>4. Raise(excused)
        BY <1>16 DEF SaveRaises
  <2> HIDE DEF excused
  <2>5. /\ \A v \in Users \ {head.user} : lost'[v] = lost[v]
        /\ lost'[head.user] # "identity" => Sane(head.user) /\ (KeepsIdentity(head) \/ ~excused)
        BY <2>2, <2>4 DEF Raise, Sane, HandInv, TypeOK, head
  <2>6. ~excused /\ Sane(head.user) =>
            \A n \in AccountsOf(head.user) : NextIdentity(head.user, n)
        BY <1>16, <2>3, TakenIsNext DEF SaveRaises
  <2> QED BY <2>1, <2>5, <2>6, EndKeepsAccounts
<1>17. CASE Delete
  <2>1. Handling /\ UNCHANGED <<queue, source, schools, schoolChanges, cur, found>>
        BY <1>17 DEF Delete, sourceVars, countVars, Handling
  <2>2. /\ cur.user = head.user /\ head.user \in Users /\ cur.op \in {"add_mod", "remove"}
        /\ head' = head
        BY <2>1, CurFacts DEF HandInv, head
  <2>3. \A n \in Names : target'[n] \in {target[n], Absent}
        BY <1>17 DEF Delete, HandInv, TypeOK
  <2>4. Searching(cur) /\ \A n \in Names : Matches(n, cur) <=> n = found /\ target[n] # Absent
        BY <1>17 DEF Delete, FoundInHand
  <2>5. \A n \in Names : target'[n] # Absent => ~Matches(n, cur)
        BY <1>17, <2>4 DEF Delete, HandInv, TypeOK
  <2>6. \A v \in Users : Sane(v)' => Sane(v)
        BY <1>17, <2>2 DEF Delete, CarriedOut, Sane
  <2>7. AccountsKnown' /\ OneEach' /\ ForeignStays'
        BY <2>1, <2>3, <2>6, ShrinkKeeps
  <2>8. Sane(head.user)' => \A n \in AccountsOf(head.user)' : NextIdentity(head.user, n)'
        BY <2>1, <2>2, <2>3, <2>4, <2>5, <2>6, RemovalKnown
  <2>9. FoundInHand'
        BY <1>17 DEF Delete, FoundInHand
  <2> QED BY <2>7, <2>8, <2>9 DEF DoneKnown
<1>18. CASE Done
  <2>1. Handling /\ EndHandling /\ UNCHANGED <<source, oldDB, target, lost>>
        BY <1>18 DEF Done, sourceVars, Handling
  <2>2. Sane(head.user) => \A n \in AccountsOf(head.user) : NextIdentity(head.user, n)
        BY <1>18 DEF Done, DoneKnown
  <2> QED BY <2>1, <2>2, EndKeepsAccounts DEF Sane
<1>19. CASE Fault
  <2>1. Handling /\ EndHandling /\ UNCHANGED <<source, oldDB, target>>
        BY <1>19 DEF Fault, Raise, sourceVars, Handling
  <2>2. cur.user = head.user /\ head.user \in Users
        BY <2>1, CurFacts DEF HandInv
  <2>3. /\ \A v \in Users \ {head.user} : lost'[v] = lost[v]
        /\ lost'[head.user] # "identity" => Sane(head.user) /\ KeepsIdentity(head)
        BY <1>19, <2>2 DEF Fault, Raise, Sane, HandInv, TypeOK, head
  <2> QED BY <2>1, <2>3, EndKeepsAccounts
<1>20. CASE Cancel
  <2>1. /\ UNCHANGED <<queue, source>>
        /\ \A n \in Names : target'[n] \in {target[n], Absent}
        BY <1>20 DEF Cancel, sourceVars
  <2>2. UNCHANGED <<schools, schoolChanges, lost>>
        BY <1>20 DEF Cancel
  <2>3. AccountsKnown' /\ OneEach' /\ ForeignStays'
        BY <2>1, <2>2, ShrinkKeeps DEF Sane
  <2>4. FoundInHand'
        BY <1>20 DEF Cancel, FoundInHand
  <2>5. DoneKnown'
        BY <1>20 DEF Cancel, DoneKnown
  <2> QED BY <2>3, <2>4, <2>5
<1>21. CASE CacheExpires
  <2>1. /\ UNCHANGED <<queue, source>>
        /\ \A n \in Names : target'[n] \in {target[n], Absent}
        BY <1>21 DEF CacheExpires, sourceVars
  <2>2. UNCHANGED <<schools, schoolChanges, lost>>
        BY <1>21 DEF CacheExpires, countVars
  <2>3. AccountsKnown' /\ OneEach' /\ ForeignStays'
        BY <2>1, <2>2, ShrinkKeeps DEF Sane
  <2>4. FoundInHand'
        BY <1>21, <2>1, FoundKept DEF CacheExpires, handlerVars
  <2>5. DoneKnown'
        BY <1>21, <2>1, <2>2, DoneKept DEF CacheExpires, handlerVars, Sane, head
  <2> QED BY <2>3, <2>4, <2>5
<1>22. ASSUME NEW new \in SUBSET Mapped, TargetSchoolsChange(new) PROVE AccountInv'
  <2>1. /\ UNCHANGED <<queue, source>>
        /\ \A n \in Names : target'[n] \in {target[n], Absent}
        BY <1>22 DEF TargetSchoolsChange, sourceVars
  <2>2. schoolChanges' # 0 /\ lost' = lost
        BY <1>22 DEF TargetSchoolsChange, HandInv, TypeOK
  <2>3. AccountsKnown' /\ OneEach' /\ ForeignStays'
        BY <2>1, <2>2, ShrinkKeeps DEF Sane
  <2>4. FoundInHand'
        BY <1>22, <2>1, FoundKept DEF TargetSchoolsChange, handlerVars
  <2>5. DoneKnown'
        BY <1>22, <2>1, <2>2, DoneKept DEF TargetSchoolsChange, handlerVars, Sane, head
  <2> QED BY <2>3, <2>4, <2>5
<1>23. ASSUME NEW n \in Names, AdminDeletes(n) PROVE AccountInv'
  <2>1. /\ UNCHANGED <<queue, source>>
        /\ \A m \in Names : target'[m] \in {target[m], Absent}
        BY <1>23 DEF AdminDeletes, sourceVars
  <2>2. UNCHANGED <<schools, schoolChanges>> /\ \A v \in Users : Sane(v)' => Sane(v)
        BY <1>23 DEF AdminDeletes, Sane
  <2>3. AccountsKnown' /\ OneEach' /\ ForeignStays'
        BY <2>1, <2>2, ShrinkKeeps
  <2>4. FoundInHand'
        BY <1>23, <2>1, FoundKept DEF AdminDeletes, handlerVars
  <2>5. pc = "done" => head.user \in Users
        BY CurFacts DEF HandInv, Handling
  <2>6. DoneKnown'
        BY <1>23, <2>1, <2>2, <2>5, DoneKept DEF AdminDeletes, handlerVars, head
  <2> QED BY <2>3, <2>4, <2>6
<1>24. CASE UNCHANGED vars
  <2>1. AccountsKnown' /\ OneEach' /\ ForeignStays'
        BY <1>24, ShrinkKeeps DEF vars, Sane
  <2>2. FoundInHand'
        BY <1>24, FoundKept DEF vars
  <2>3. DoneKnown'
        BY <1>24, DoneKept DEF vars, Sane, head
  <2> QED BY <2>1, <2>2, <2>3
<1> QED BY <1>1, <1>2, <1>3, <1>4, <1>5, <1>6, <1>7, <1>8, <1>9, <1>10, <1>11, <1>12, <1>13,
           <1>14, <1>15, <1>16, <1>17, <1>18, <1>19, <1>20, <1>21, <1>22, <1>23, <1>24 DEF Next,
           HandlerStep

\* At first there are only accounts of the target's own.
LEMMA AccountInit ==
    Init => AccountInv
<1> SUFFICES ASSUME Init PROVE AccountInv
    OBVIOUS
<1>1. \A n \in Names : target[n] # Absent => target[n] = ForeignAccount
      BY DEF Init
<1>2. \A u \in Users : AccountsOf(u) = {}
      BY <1>1, ForeignAssumption DEF AccountsOf
<1>3. pc = "ping" /\ found = Absent
      BY DEF Init
<1> QED BY <1>1, <1>2, <1>3 DEF AccountInv, AccountsKnown, OneEach, ForeignStays, FoundInHand,
           DoneKnown

-----------------------------------------------------------------------------
(* What the accounts say. *)

\* Nothing that Converges makes an exception for has happened.
Quiet(u) == lost[u] = "nothing" /\ schoolChanges = 0

\* The target has what state o of user u asks for.
ImageOf(u, o) ==
    IF o # Absent /\ o.schools \cap schools # {}
    THEN \E n \in Names : AccountsOf(u) = {n} /\ IsImage(target[n], n, o)
    ELSE AccountsOf(u) = {}

\* Converges, for one user.
ConvergesFor(u) == Settled(u) /\ Quiet(u) => ImageOf(u, source[u])

\* An account that has the new identity already has the new attributes as well.
HeadKnown ==
    queue # <<>> /\ Quiet(head.user) =>
        \A n \in AccountsOf(head.user) :
            Before(head.user, n) \/ IsImage(target[n], n, head.obj)

\* An object that was carried out shows on the target.
DoneIsImage == pc = "done" /\ Quiet(head.user) => ImageOf(head.user, head.obj)

\* What the accounts say.
ImageInv == (\A u \in Users : ConvergesFor(u)) /\ HeadKnown /\ DoneIsImage

\* What happens to the accounts of others does not matter.
LEMMA ImageKept ==
    ASSUME NEW u, NEW o, schools' = schools, ImageOf(u, o),
           \A n \in Names : n \in AccountsOf(u) \/ n \in AccountsOf(u)' => target'[n] = target[n]
    PROVE  ImageOf(u, o)'
<1>1. AccountsOf(u)' = AccountsOf(u)
      BY DEF AccountsOf
<1>2. CASE o # Absent /\ o.schools \cap schools # {}
  <2>1. PICK n \in Names : AccountsOf(u) = {n} /\ IsImage(target[n], n, o)
        BY <1>2 DEF ImageOf
  <2>2. target'[n] = target[n]
        BY <2>1
  <2>3. IsImage(target[n], n, o)'
        BY <2>1, <2>2 DEF IsImage
  <2> QED BY <1>1, <1>2, <2>1, <2>3 DEF ImageOf
<1>3. CASE ~(o # Absent /\ o.schools \cap schools # {})
      BY <1>1, <1>3 DEF ImageOf
<1> QED BY <1>2, <1>3

\* A user that nothing happens to.
LEMMA ConvergesKept ==
    ASSUME NEW v, ConvergesFor(v), source'[v] = source[v],
           Settled(v)' => Settled(v),
           Quiet(v)' => /\ Quiet(v) /\ schools' = schools
                        /\ \A n \in Names : n \in AccountsOf(v) \/ n \in AccountsOf(v)' =>
                                                target'[n] = target[n]
    PROVE  ConvergesFor(v)'
<1> SUFFICES ASSUME Settled(v)', Quiet(v)' PROVE ImageOf(v, source[v])'
    BY DEF ConvergesFor
<1>1. PICK o : o = source[v]
      OBVIOUS
<1>2. ImageOf(v, o)
      BY <1>1 DEF ConvergesFor
<1>3. ImageOf(v, o)'
      BY <1>2, ImageKept
<1>4. source'[v] = o
      BY <1>1
<1> QED BY <1>3, <1>4 DEF ImageOf, IsImage

\* A user without a school of this authority is not on its target.
LEMMA NotThereIsImage ==
    ASSUME HandInv, NEW u, NEW o, NEW p,
           o = Absent \/ ~There(OldData(o)), p = Absent \/ ~There(OldData(p)),
           o # Absent => OldData(o) # Absent, p # Absent => OldData(p) # Absent,
           ImageOf(u, o)
    PROVE  ImageOf(u, p)
<1>1. /\ ~(o # Absent /\ o.schools \cap schools # {})
      /\ ~(p # Absent /\ p.schools \cap schools # {})
      BY DEF There, OldData, HandInv, TypeOK
<1> QED BY <1>1 DEF ImageOf

\* Once the last object of a user is carried out, the target has the user's present state.
LEMMA LastImage ==
    ASSUME HandInv, QueueInv, queue # <<>>, ImageOf(head.user, head.obj),
           \A j \in 2..Len(queue) : queue[j].user # head.user
    PROVE  ImageOf(head.user, source[head.user])
<1> DEFINE u == head.user
<1>1. /\ 1 \in 1..Len(queue) /\ head = queue[1] /\ u \in Users /\ head \in Items
      /\ head.op \in {"add_mod", "remove"}
      /\ head.op = "add_mod" => head.obj \in Inputs[u]
      BY HeadFacts
<1>2. IsPresent(head, source[u])
      BY <1>1 DEF QueueInv, LastIsPresent
<1>3. CASE head.op = "remove"
  <2>1. head.obj = Absent /\ source[u] = Absent
        BY <1>1, <1>2, <1>3, ItemFacts DEF IsPresent
  <2> QED BY <2>1
<1>4. CASE head.op = "add_mod" /\ source[u] = head.obj
      BY <1>4
<1>5. CASE head.op = "add_mod" /\ ~There(OldData(head.obj))
           /\ (source[u] = Absent \/ ~There(OldData(source[u])))
  <2>1. head.obj # Absent => OldData(head.obj) # Absent
        BY <1>1, <1>5, ObjectFacts
  <2>2. source[u] # Absent => OldData(source[u]) # Absent
        BY <1>1, ObjectFacts DEF HandInv, TypeOK
  <2> QED BY <1>5, <2>1, <2>2, NotThereIsImage
<1> QED BY <1>1, <1>2, <1>3, <1>4, <1>5 DEF IsPresent

\* The handler is at work, or something around it happens, without an effect on accounts.
LEMMA StillImage ==
    ASSUME ImageInv, UNCHANGED <<queue, source, target, lost>>,
           UNCHANGED <<schools, schoolChanges>> \/ schoolChanges' # 0,
           pc' = "done" => pc = "done"
    PROVE  ImageInv'
<1>1. CASE schoolChanges' # 0
      BY <1>1 DEF ImageInv, ConvergesFor, HeadKnown, DoneIsImage, Quiet
<1>2. CASE UNCHANGED <<schools, schoolChanges>>
  <2>1. \A u, n : Before(u, n)' <=> Before(u, n)
        BY <1>2 DEF Before, Holds
  <2>2. \A u : AccountsOf(u)' = AccountsOf(u) /\ (Settled(u)' <=> Settled(u))
        BY DEF AccountsOf, Settled
  <2>3. \A a, n, o : IsImage(a, n, o)' <=> IsImage(a, n, o)
        BY <1>2 DEF IsImage
  <2>4. \A u, o : ImageOf(u, o)' <=> ImageOf(u, o)
        BY <1>2, <2>2, <2>3 DEF ImageOf, IsImage
  <2>5. ASSUME NEW u \in Users PROVE ConvergesFor(u)'
        BY <1>2, <2>2, ConvergesKept DEF ImageInv, Quiet
  <2>6. HeadKnown'
        BY <1>2, <2>1, <2>2 DEF ImageInv, HeadKnown, Quiet, head, IsImage
  <2>7. DoneIsImage'
    <3> SUFFICES ASSUME pc = "done", Quiet(head.user) PROVE ImageOf(head.user, head.obj)'
        BY <1>2 DEF DoneIsImage, Quiet, head
    <3>1. PICK u, o : u = head.user /\ o = head.obj
          OBVIOUS
    <3>2. ImageOf(u, o)
          BY <3>1 DEF ImageInv, DoneIsImage
    <3>3. ImageOf(u, o)'
          BY <2>4, <3>2
    <3>4. head'.user = u /\ head'.obj = o
          BY <3>1 DEF head
    <3> QED BY <3>3, <3>4 DEF ImageOf, AccountsOf, IsImage
  <2> QED BY <2>5, <2>6, <2>7 DEF ImageInv
<1> QED BY <1>1, <1>2

\* The first object leaves the queue.
LEMMA EndKeepsImage ==
    ASSUME HandInv, QueueInv, AccountInv, ImageInv, HandInv', Handling, EndHandling,
           UNCHANGED <<source, oldDB, target, schools, schoolChanges>>,
           \A v \in Users \ {head.user} : lost'[v] = lost[v],
           lost'[head.user] # "identity" =>
               /\ Sane(head.user)
               /\ \/ KeepsIdentity(head)
                  \/ \A n \in AccountsOf(head.user) : NextIdentity(head.user, n),
           lost'[head.user] = "nothing" /\ schoolChanges = 0 => ImageOf(head.user, head.obj)
    PROVE  ImageInv'
<1>1. /\ queue # <<>> /\ head.user \in Users /\ 1 \in 1..Len(queue) /\ head = queue[1]
      /\ queue' = Tail(queue)
      BY HeadFacts DEF HandInv, Shape, EndHandling
<1>2. /\ Len(queue) \in Nat /\ Len(queue') = Len(queue) - 1
      /\ \A i \in 1..Len(queue') : i + 1 \in 1..Len(queue) /\ queue'[i] = queue[i + 1]
      BY <1>1, MovedUp DEF HandInv, TypeOK
<1>3. \A j \in 2..Len(queue) : j - 1 \in 1..Len(queue') /\ queue'[j - 1] = queue[j]
      BY <1>2
<1>4. \A i \in 1..Len(queue) : i = 1 \/ i \in 2..Len(queue)
      BY <1>2
<1>5. ASSUME NEW v \in Users PROVE ConvergesFor(v)'
  <2>1. CASE v # head.user
    <3>1. Settled(v)' => Settled(v)
          BY <1>1, <1>3, <1>4, <2>1 DEF Settled
    <3>2. Quiet(v)' => Quiet(v)
          BY <2>1 DEF Quiet
    <3> QED BY <3>1, <3>2, ConvergesKept DEF ImageInv
  <2>2. CASE v = head.user
    <3> SUFFICES ASSUME Settled(v)', Quiet(v)' PROVE ImageOf(v, source[v])'
        BY DEF ConvergesFor
    <3>1. \A j \in 2..Len(queue) : queue[j].user # head.user
          BY <1>3, <2>2 DEF Settled
    <3>2. ImageOf(head.user, head.obj)
          BY <2>2 DEF Quiet
    <3>3. ImageOf(v, source[v])
          BY <1>1, <2>2, <3>1, <3>2, LastImage
    <3>4. PICK o : o = source[v]
          OBVIOUS
    <3>5. ImageOf(v, o)'
          BY <3>3, <3>4, ImageKept
    <3> QED BY <3>4, <3>5 DEF ImageOf, IsImage
  <2> QED BY <2>1, <2>2
<1>6. HeadKnown'
  <2> SUFFICES ASSUME queue' # <<>>, Quiet(head.user)', NEW n \in AccountsOf(head.user)'
               PROVE  Before(head.user, n)'
      BY DEF HeadKnown
  <2>1. head' \in Items
        BY HeadIsFirst DEF HandInv, TypeOK, head
  <2>2. PICK w \in Users : w = head'.user
        BY <2>1, ItemFacts
  <2>3. Sane(w)' /\ n \in AccountsOf(w)'
        BY <2>2 DEF Quiet, Sane, AccountsOf
  <2>4. Before(w, n)'
        BY <2>3, EndKeepsAccounts
  <2> QED BY <2>2, <2>4 DEF Before
<1>7. DoneIsImage'
      BY DEF DoneIsImage, EndHandling
<1> QED BY <1>5, <1>6, <1>7 DEF ImageInv

\* The handler's work leaves the accounts of others alone, unless one's identity was lost.
LEMMA OthersStay ==
    ASSUME Identified, HandInv, QueueInv, AccountInv, Handling, Searching(cur),
           \A n \in Names : target'[n] # target[n] =>
               /\ target'[n] = Absent \/ target'[n].of = head.user
               /\ target[n] = Absent \/ Matches(n, cur),
           NEW v \in Users \ {head.user}, Sane(v),
           NEW n \in Names, n \in AccountsOf(v) \/ n \in AccountsOf(v)'
    PROVE  target'[n] = target[n]
<1> SUFFICES ASSUME target'[n] # target[n] PROVE FALSE
    OBVIOUS
<1>1. n \notin AccountsOf(v)'
      BY DEF AccountsOf
<1>2. target[n] # Absent /\ target[n].of = v /\ Matches(n, cur)
      BY <1>1 DEF AccountsOf
<1> QED BY <1>2, FoundIsOwn DEF AccountInv

\* The handler has carried out its object: what belongs to others stays as it is.
LEMMA WorkKeepsImage ==
    ASSUME Identified, HandInv, QueueInv, AccountInv, ImageInv, Handling, Searching(cur),
           UNCHANGED <<queue, source, schools, schoolChanges>>,
           \A v \in Users \ {head.user} : lost'[v] = lost[v],
           \A n \in Names : target'[n] # target[n] =>
               /\ target'[n] = Absent \/ target'[n].of = head.user
               /\ target[n] = Absent \/ Matches(n, cur),
           Quiet(head.user)' => ImageOf(head.user, head.obj)'
    PROVE  ImageInv'
<1>1. /\ queue # <<>> /\ head.user \in Users /\ 1 \in 1..Len(queue) /\ head = queue[1]
      /\ head' = head
      BY HeadFacts DEF HandInv, Shape, head
<1>2. ASSUME NEW v \in Users PROVE ConvergesFor(v)'
  <2>1. CASE v = head.user
        BY <1>1, <2>1 DEF ConvergesFor, Settled
  <2>2. CASE v # head.user
    <3>1. (Settled(v)' => Settled(v)) /\ (Quiet(v)' => Quiet(v))
          BY <2>2 DEF Settled, Quiet
    <3>2. ASSUME Quiet(v), NEW n \in Names, n \in AccountsOf(v) \/ n \in AccountsOf(v)'
          PROVE  target'[n] = target[n]
          BY <2>2, <3>2, OthersStay DEF Quiet, Sane
    <3> QED BY <3>1, <3>2, ConvergesKept DEF ImageInv
  <2> QED BY <2>1, <2>2
<1>3. HeadKnown'
      BY <1>1 DEF HeadKnown, ImageOf
<1>4. DoneIsImage'
      BY <1>1 DEF DoneIsImage
<1> QED BY <1>2, <1>3, <1>4 DEF ImageInv

\* A user who is removed, or has left, has no account any more.
LEMMA RemovalIsImage ==
    ASSUME Identified, HandInv, AccountInv, Handling, Searching(cur), cur.op = "remove",
           Sane(head.user), schoolChanges = 0, UNCHANGED <<queue, schools>>,
           \A n \in Names : target'[n] \in {target[n], Absent},
           \A n \in Names : target'[n] # Absent => ~Matches(n, cur)
    PROVE  ImageOf(head.user, head.obj)'
<1>1. head' = head /\ head \in Items /\ head.op \in {"add_mod", "remove"}
      BY CurFacts DEF HandInv, head
<1>2. head.op = "add_mod" => head.obj.schools \cap schools = {}
      BY DEF HandInv, SchoolsInHand
<1>3. head.op = "remove" => head.obj = Absent
      BY <1>1, ItemFacts
<1>4. ASSUME NEW n \in AccountsOf(head.user)' PROVE FALSE
  <2>1. n \in AccountsOf(head.user) /\ ~Matches(n, cur)
        BY <1>1 DEF AccountsOf
  <2>2. After(head.user, n)
        BY <2>1, UnfoundIsNew DEF AccountInv
  <2> QED BY <1>2, <2>2 DEF After
<1> QED BY <1>1, <1>2, <1>3, <1>4 DEF ImageOf

\* The account that was saved says what the object says.
LEMMA SavedIsImage ==
    ASSUME Identified, HandInv, QueueInv, AccountInv, Save, Quiet(head.user)'
    PROVE  ImageOf(head.user, head.obj)'
<1> DEFINE u == head.user
           o == head.obj
           n == req.name
<1>1. /\ Handling /\ u \in Users /\ cur = head /\ head.op = "add_mod" /\ cur.user = u
      /\ o \in Inputs[u] /\ o # Absent /\ o \in UserObjects
      BY CurFacts, HeadFacts, ObjectFacts DEF Save, HandInv, Shape, Handling
<1>2. /\ UNCHANGED <<queue, schools, schoolChanges>> /\ head' = head
      /\ pc \in {"save", "resave"} /\ schoolChanges = 0 /\ lost'[u] = "nothing"
      BY DEF Save, countVars, head, Quiet
<1>3. /\ req \in Requests /\ n = o.name /\ n \in Names /\ req.ruid = o.ruid
      /\ req.suid = o.suid /\ req.suid # NoUid /\ req.mapping = RoleSpecificMapping(o)
      /\ req.guardians \subseteq o.guardians /\ req.wards \subseteq o.wards
  <2>1. o.suid # NoUid
        BY <1>1 DEF Identified
  <2> QED BY <1>1, <1>2, <2>1 DEF HandInv, InHand, Requests
<1>4. /\ req.schools = o.schools \cap schools /\ req.school \in req.schools
      /\ o.school \in schools => req.school = o.school
      BY <1>1, <1>2 DEF HandInv, SchoolsInHand
<1>5. req.ruid # NoUid
      BY <1>1, <1>2, <1>3 DEF Save, CarriedOut, HandInv, TypeOK
<1>6. PICK ruid, suid : target'[n] = Stored(ruid, suid)
      BY <1>3 DEF Save
<1>7. /\ target'[n].of = u /\ target'[n].ruid = o.ruid /\ target'[n].suid = o.suid
      /\ target'[n].school = req.school /\ target'[n].schools = req.schools
      /\ target'[n].mapping = req.mapping
      /\ target'[n].guardians = req.guardians /\ target'[n].wards = req.wards
      BY <1>1, <1>3, <1>5, <1>6 DEF Stored
<1>8. target'[n] # Absent
  <2>1. Stored(ruid, suid) \in Accounts
        BY <1>1, <1>3, <1>5 DEF Stored, Requests, Accounts
  <2> QED BY <1>6, <2>1, AbsentAssumption
<1>9. AccountsOf(u)' = {n}
  <2>1. \A m \in AccountsOf(u)' : m = n
        BY <1>2, SaveKeepsAccounts
  <2>2. n \in AccountsOf(u)'
        BY <1>2, <1>3, <1>7, <1>8 DEF AccountsOf, Save
  <2> QED BY <2>1, <2>2
<1>10. \A s \in Mapped, r \in Mappings : <<r, s>> \in o.roles =>
          \E i, j \in 1..5 : RolePriority[i] = req.mapping /\ RolePriority[j] = r /\ i <= j
       BY <1>1, <1>3, RoleFacts
<1>11. IsImage(target[n], n, o)'
  <2>1. req' = req
        BY DEF Save
  <2> QED BY <1>2, <1>3, <1>4, <1>7, <1>10, <2>1 DEF IsImage
<1>12. o.schools \cap schools # {}
       BY <1>4
<1> QED BY <1>1, <1>2, <1>3, <1>9, <1>11, <1>12 DEF ImageOf, Save

\* An account of the same user is in the way: it has the new attributes already.
LEMMA TakenIsImage ==
    ASSUME Identified, HandInv, QueueInv, AccountInv, ImageInv, pc \in {"save", "resave"},
           NameTaken, target[req.name].of = cur.user, Quiet(head.user)
    PROVE  ImageOf(head.user, head.obj)
<1>1. /\ Handling /\ queue # <<>> /\ head.user \in Users /\ cur = head /\ head.op = "add_mod"
      /\ head.obj # Absent /\ Sane(head.user)
      BY CurFacts, HeadFacts, ObjectFacts DEF HandInv, Shape, Handling, Quiet, Sane
<1>2. req.name \in Names
      BY <1>1 DEF HandInv, InHand, Requests
<1>3. req.name \in AccountsOf(head.user) /\ req.name # found
      BY <1>1, <1>2 DEF NameTaken, AccountsOf
<1>4. Searching(cur) /\ ~Matches(req.name, cur)
      BY <1>2, <1>3 DEF AccountInv, FoundInHand
<1>5. After(head.user, req.name)
      BY <1>1, <1>3, <1>4, UnfoundIsNew DEF AccountInv
<1>6. head.obj.schools \cap schools # {}
      BY <1>5 DEF After, Quiet
<1>7. target[req.name].ruid # NoUid
      BY <1>1, <1>3 DEF AccountInv, AccountsKnown
<1>8. ~Before(head.user, req.name)
      BY <1>1, <1>3, <1>4, <1>7, BeforeIsFound
<1>9. IsImage(target[req.name], req.name, head.obj)
      BY <1>1, <1>3, <1>8 DEF ImageInv, HeadKnown
<1>10. AccountsOf(head.user) = {req.name}
       BY <1>1, <1>3 DEF AccountInv, OneEach
<1> QED BY <1>1, <1>2, <1>6, <1>9, <1>10 DEF ImageOf

(***************************************************************************)
(* How the handling of an object ends: it was carried out, or what the     *)
(* target lacks of it is on record.                                        *)
(***************************************************************************)
LEMMA EndFacts ==
    ASSUME Identified, HandInv, QueueInv, AccountInv, ImageInv,
           \/ MapRaises \/ SearchMissesData \/ SearchRaises \/ GetRaises \/ SaveRaises
           \/ Done \/ Fault
    PROVE  /\ Handling /\ EndHandling
           /\ UNCHANGED <<source, oldDB, target, schools, schoolChanges>>
           /\ \A v \in Users \ {head.user} : lost'[v] = lost[v]
           /\ lost'[head.user] # "identity" =>
                 /\ Sane(head.user)
                 /\ \/ KeepsIdentity(head)
                    \/ \A n \in AccountsOf(head.user) : NextIdentity(head.user, n)
           /\ lost'[head.user] = "nothing" =>
                 /\ lost[head.user] = "nothing"
                 /\ schoolChanges = 0 => ImageOf(head.user, head.obj)
<1>1. /\ Handling /\ EndHandling
      /\ UNCHANGED <<source, oldDB, target, schools, schoolChanges>>
      BY DEF MapRaises, SearchMissesData, SearchRaises, GetRaises, SaveRaises, Done, Fault, Raise,
         sourceVars, countVars, Handling
<1>2. cur.user = head.user /\ head.user \in Users
      BY <1>1, CurFacts DEF HandInv
<1>3. ASSUME Raise(TRUE)
      PROVE  /\ \A v \in Users \ {head.user} : lost'[v] = lost[v]
             /\ lost'[head.user] # "identity" => Sane(head.user) /\ KeepsIdentity(head)
             /\ lost'[head.user] # "nothing"
      BY <1>2, <1>3 DEF Raise, Sane, HandInv, TypeOK, head
<1>4. CASE MapRaises \/ GetRaises \/ Fault
      BY <1>1, <1>3, <1>4 DEF MapRaises, GetRaises, Fault
<1>5. CASE SearchMissesData
  <2>1. /\ \A v \in Users \ {head.user} : lost'[v] = lost[v]
        /\ lost'[head.user] = "identity"
        BY <1>2, <1>5 DEF SearchMissesData, HandInv, TypeOK
  <2> QED BY <1>1, <2>1
<1>6. CASE SearchRaises
  <2> DEFINE excused == \/ SearchRecordUid(cur) = NoUid
                        \/ \E n \in Found(cur) : target[n].of # cur.user
  <2>1. Sane(head.user) => excused
        BY <1>2, <1>6, SearchIsUnique DEF SearchRaises
  <2>2. Raise(excused)
        BY <1>6 DEF SearchRaises
  <2> HIDE DEF excused
  <2>3. /\ \A v \in Users \ {head.user} : lost'[v] = lost[v]
        /\ lost'[head.user] # "identity" =>
              Sane(head.user) /\ KeepsIdentity(head) /\ lost'[head.user] = "last"
        BY <1>2, <2>1, <2>2 DEF Raise, Sane, HandInv, TypeOK, head
  <2> QED BY <1>1, <2>3
<1>7. CASE SaveRaises
  <2> DEFINE excused == \/ AccountGone
                        \/ NameTaken /\ target[req.name].of # cur.user
                        \/ BrokenLinks # {} /\ LinksDropped
  <2>1. cur.op = "add_mod" /\ pc \in {"save", "resave"}
        BY <1>7 DEF HandInv, Shape, SaveRaises
  <2>2. ~excused => NameTaken /\ target[req.name].of = cur.user
        BY <1>7, <2>1 DEF SaveRaises, HandInv, InHand
  <2>3. Raise(excused)
        BY <1>7 DEF SaveRaises
  <2> HIDE DEF excused
  <2>4. /\ \A v \in Users \ {head.user} : lost'[v] = lost[v]
        /\ lost'[head.user] # "identity" => Sane(head.user) /\ (KeepsIdentity(head) \/ ~excused)
        /\ lost'[head.user] = "nothing" => ~excused /\ lost[head.user] = "nothing"
        BY <1>2, <2>3 DEF Raise, Sane, HandInv, TypeOK, head
  <2>5. ~excused /\ Sane(head.user) =>
            \A n \in AccountsOf(head.user) : NextIdentity(head.user, n)
        BY <1>2, <2>1, <2>2, TakenIsNext
  <2>6. lost'[head.user] = "nothing" /\ schoolChanges = 0 => ImageOf(head.user, head.obj)
        BY <2>1, <2>2, <2>4, TakenIsImage DEF Quiet
  <2> QED BY <1>1, <2>4, <2>5, <2>6
<1>8. CASE Done
  <2>1. pc = "done" /\ UNCHANGED lost
        BY <1>8 DEF Done
  <2>2. Sane(head.user) => \A n \in AccountsOf(head.user) : NextIdentity(head.user, n)
        BY <2>1 DEF AccountInv, DoneKnown
  <2>3. Quiet(head.user) => ImageOf(head.user, head.obj)
        BY <2>1 DEF ImageInv, DoneIsImage
  <2> QED BY <1>1, <2>1, <2>2, <2>3 DEF Sane, Quiet
<1> QED BY <1>4, <1>5, <1>6, <1>7, <1>8

(***************************************************************************)
(* How an object is carried out: accounts that the search found, and those *)
(* of the object's user, change in one step to what the object says.       *)
(***************************************************************************)
LEMMA WorkFacts ==
    ASSUME Identified, HandInv, QueueInv, AccountInv,
           Save \/ Delete \/ (SearchFindsNone /\ cur.op = "remove")
    PROVE  /\ Handling /\ Searching(cur)
           /\ UNCHANGED <<queue, source, schools, schoolChanges>>
           /\ \A v \in Users \ {head.user} : lost'[v] = lost[v]
           /\ lost'[head.user] # "last"
           /\ lost'[head.user] = "nothing" => Sane(head.user)
           /\ \A n \in Names : target'[n] # target[n] =>
                 /\ target'[n] = Absent \/ target'[n].of = head.user
                 /\ target[n] = Absent \/ Matches(n, cur)
           /\ Quiet(head.user)' => ImageOf(head.user, head.obj)'
<1>1. Handling /\ UNCHANGED <<queue, source, schools, schoolChanges>> /\ CarriedOut
      BY DEF Save, Delete, SearchFindsNone, sourceVars, countVars, Handling
<1>2. cur.user = head.user /\ head.user \in Users /\ cur.op \in {"add_mod", "remove"}
      BY <1>1, CurFacts DEF HandInv
<1>3. /\ \A v \in Users \ {head.user} : lost'[v] = lost[v]
      /\ lost'[head.user] # "last"
      /\ lost'[head.user] = "nothing" => Sane(head.user)
      BY <1>1, <1>2 DEF CarriedOut, Sane, HandInv, TypeOK
<1>4. Quiet(head.user)' => Sane(head.user) /\ schoolChanges = 0
      BY <1>1, <1>3 DEF Quiet, head
<1>5. CASE SearchFindsNone /\ cur.op = "remove"
  <2>1. target' = target /\ Searching(cur) /\ \A n \in Names : ~Matches(n, cur)
        BY <1>5 DEF SearchFindsNone, Searching, Found
  <2>2. Quiet(head.user)' => ImageOf(head.user, head.obj)'
        BY <1>1, <1>4, <1>5, <2>1, RemovalIsImage
  <2> QED BY <1>1, <1>3, <2>1, <2>2
<1>6. CASE Save
  <2>1. pc \in {"save", "resave"}
        BY <1>6 DEF Save
  <2>2. Searching(cur) /\ \A n \in Names : Matches(n, cur) <=> n = found /\ target[n] # Absent
        BY <2>1 DEF AccountInv, FoundInHand
  <2>3. ASSUME NEW n \in Names, target'[n] # target[n]
        PROVE  /\ target'[n] = Absent \/ target'[n].of = head.user
               /\ target[n] = Absent \/ Matches(n, cur)
    <3>1. n = req.name \/ n = found
          BY <1>6, <2>3 DEF Save
    <3>2. target'[n] = Absent \/ target'[n].of = head.user
          BY <1>2, <1>6, <3>1 DEF Save, Stored
    <3>3. target[n] = Absent \/ n = found
          BY <1>6, <3>1 DEF Save, NameTaken
    <3> QED BY <2>2, <3>2, <3>3
  <2> QED BY <1>1, <1>3, <1>6, <2>2, <2>3, SavedIsImage
<1>7. CASE Delete
  <2>1. cur.op = "remove" /\ found \in Names
        BY <1>7 DEF Delete, HandInv, Shape
  <2>2. Searching(cur) /\ \A n \in Names : Matches(n, cur) <=> n = found /\ target[n] # Absent
        BY <1>7 DEF Delete, AccountInv, FoundInHand
  <2>3. /\ \A n \in Names : target'[n] \in {target[n], Absent}
        /\ \A n \in Names : target'[n] # Absent => ~Matches(n, cur)
        /\ \A n \in Names : target'[n] # target[n] => Matches(n, cur)
        BY <1>7, <2>1, <2>2 DEF Delete, HandInv, TypeOK
  <2>4. Quiet(head.user)' => ImageOf(head.user, head.obj)'
        BY <1>1, <1>4, <2>1, <2>2, <2>3, RemovalIsImage
  <2> QED BY <1>1, <1>3, <2>2, <2>3, <2>4
<1> QED BY <1>5, <1>6, <1>7

\* A change in the source is reported, unless the user neither was nor is at a school here.
LEMMA SourceFacts ==
    ASSUME HandInv, NEW u \in Users,
           (\E o \in Inputs[u] : SourceChanges(u, o)) \/ SourceRemoves(u)
    PROVE  /\ source'[u] # source[u] /\ \A v \in Users \ {u} : source'[v] = source[v]
           /\ UNCHANGED <<handlerVars, schools, target, lost, schoolChanges>>
           /\ \E item \in Items :
                 /\ item.user = u /\ item.obj = source'[u]
                 /\ \/ queue' = Append(queue, item)
                    \/ /\ queue' = queue
                       /\ source[u] = Absent \/ ~There(OldData(source[u]))
                       /\ source'[u] = Absent \/ ~There(OldData(source'[u]))
<1>1. ASSUME NEW o \in Inputs[u], SourceChanges(u, o)
      PROVE  /\ source'[u] = o
             /\ \E item \in Items :
                   /\ item.user = u /\ item.obj = o
                   /\ \/ queue' = Append(queue, item)
                      \/ /\ queue' = queue
                         /\ source[u] = Absent \/ ~There(OldData(source[u]))
                         /\ ~There(OldData(o))
  <2> DEFINE item == AddMod(u, o, oldDB[u])
  <2>1. item \in Items /\ item.user = u /\ item.old = oldDB[u] /\ item.obj = o
        BY AddModFacts, ItemsOfItems DEF HandInv, TypeOK
  <2>2. Enqueue(item, o.schools) /\ source'[u] = o
        BY <1>1 DEF SourceChanges, HandInv, TypeOK
  <2> HIDE DEF item
  <2>3. source[u] # Absent => oldDB[u] = OldData(source[u])
        BY DEF HandInv, SourceKept
  <2> QED BY <2>1, <2>2, <2>3 DEF Enqueue, There, SchoolsOf, OldData
<1>2. ASSUME SourceRemoves(u)
      PROVE  /\ source'[u] = Absent
             /\ \E item \in Items :
                   /\ item.user = u /\ item.obj = Absent
                   /\ \/ queue' = Append(queue, item)
                      \/ queue' = queue /\ ~There(OldData(source[u]))
  <2> DEFINE item == Remove(u, oldDB[u])
  <2>1. source[u] # Absent /\ oldDB[u] = OldData(source[u]) /\ oldDB[u] \in OldDataOf(u)
        BY <1>2, ObjectFacts DEF SourceRemoves, HandInv, SourceKept, TypeOK
  <2>2. item \in Items /\ item.user = u /\ item.old = oldDB[u] /\ item.obj = Absent
        BY <2>1, RemoveFacts, ItemsOfItems
  <2>3. Enqueue(item, {}) /\ source'[u] = Absent
        BY <1>2 DEF SourceRemoves, HandInv, TypeOK
  <2> HIDE DEF item
  <2> QED BY <2>1, <2>2, <2>3 DEF Enqueue, There, SchoolsOf
<1>3. /\ source'[u] # source[u] /\ \A v \in Users \ {u} : source'[v] = source[v]
      /\ UNCHANGED <<handlerVars, schools, target, lost, schoolChanges>>
      BY DEF SourceChanges, SourceRemoves, HandInv, TypeOK, countVars
<1> QED BY <1>1, <1>2, <1>3

\* A change in the source: the user's new object is in the queue, or the user is not there.
LEMMA SourceKeepsImage ==
    ASSUME HandInv, QueueInv, AccountInv, ImageInv, HandInv', NEW u \in Users, NEW item \in Items,
           (\E o \in Inputs[u] : SourceChanges(u, o)) \/ SourceRemoves(u),
           \/ queue' = Append(queue, item) /\ item.user = u
           \/ /\ queue' = queue
              /\ source[u] = Absent \/ ~There(OldData(source[u]))
              /\ source'[u] = Absent \/ ~There(OldData(source'[u])),
           \A v \in Users \ {u} : source'[v] = source[v],
           UNCHANGED <<handlerVars, schools, target, lost, schoolChanges>>
    PROVE  ImageInv'
<1>1. Len(queue) \in Nat /\ queue \in Seq(Items)
      BY LenProperties DEF HandInv, TypeOK
<1>2. \A v : AccountsOf(v)' = AccountsOf(v) /\ Quiet(v)' = Quiet(v)
      BY DEF AccountsOf, Quiet
<1>3. \A v \in Users : \A n : Before(v, n)' <=> Before(v, n)
  <2>1. \A v \in Users : \A h : HoldsIn(queue', source', v, h, 1) <=> Holds(v, h, 1)
        BY <1>1, SourceKeepsQueue
  <2> QED BY <2>1 DEF Before, Holds, SameIdentity
<1>4. ASSUME NEW v \in Users PROVE ConvergesFor(v)'
  <2>1. CASE v # u
    <3>1. Settled(v)' => Settled(v)
          BY <1>1, Appended DEF Settled
    <3> QED BY <1>2, <2>1, <3>1, ConvergesKept DEF ImageInv
  <2>2. CASE v = u /\ queue' = Append(queue, item) /\ item.user = u
    <3>1. ~Settled(v)'
          BY <1>1, <2>2, Appended DEF Settled
    <3> QED BY <3>1 DEF ConvergesFor
  <2>3. CASE /\ v = u /\ queue' = queue
             /\ source[u] = Absent \/ ~There(OldData(source[u]))
             /\ source'[u] = Absent \/ ~There(OldData(source'[u]))
    <3> SUFFICES ASSUME Settled(v), Quiet(v) PROVE ImageOf(v, source[v])'
        BY <1>2, <2>3 DEF ConvergesFor, Settled
    <3>1. PICK o, p : o = source[v] /\ p = source'[v]
          OBVIOUS
    <3>2. ImageOf(v, o)
          BY <3>1 DEF ImageInv, ConvergesFor
    <3>3. o # Absent => OldData(o) # Absent
          BY <3>1, ObjectFacts DEF HandInv, TypeOK
    <3>4. p # Absent => OldData(p) # Absent
          BY <3>1, ObjectFacts DEF HandInv, TypeOK
    <3>5. ImageOf(v, p)
          BY <2>3, <3>1, <3>2, <3>3, <3>4, NotThereIsImage
    <3>6. ImageOf(v, p)'
          BY <3>5, ImageKept
    <3> QED BY <3>1, <3>6 DEF ImageOf, IsImage
  <2> QED BY <2>1, <2>2, <2>3
<1>5. queue # <<>> => head' = head
      BY <1>1, Appended DEF head
<1>6. HeadKnown'
  <2> SUFFICES ASSUME queue' # <<>>, Quiet(head.user)', NEW n \in AccountsOf(head.user)'
               PROVE  Before(head.user, n)' \/ IsImage(target[n], n, head.obj)'
      BY DEF HeadKnown
  <2>1. PICK w \in Users : w = head'.user
    <3>1. head' \in Items
          BY HeadIsFirst DEF HandInv, TypeOK, head
    <3> QED BY <3>1, ItemFacts
  <2>2. n \in AccountsOf(w) /\ Quiet(w) /\ Sane(w)
        BY <2>1 DEF AccountsOf, Quiet, Sane
  <2>3. CASE Before(w, n)
        BY <1>3, <2>1, <2>3 DEF Before
  <2>4. CASE ~Before(w, n)
    <3>1. After(w, n)
          BY <2>2, <2>4 DEF AccountInv, AccountsKnown
    <3>2. queue # <<>> /\ head' = head
          BY <1>5, <3>1 DEF After
    <3>3. IsImage(target[n], n, head.obj)
          BY <2>1, <2>2, <2>4, <3>2 DEF ImageInv, HeadKnown
    <3> QED BY <3>2, <3>3 DEF IsImage
  <2> QED BY <2>3, <2>4
<1>7. DoneIsImage'
  <2> SUFFICES ASSUME pc = "done", Quiet(head.user)' PROVE ImageOf(head.user, head.obj)'
      BY DEF DoneIsImage, handlerVars
  <2>1. head' = head
        BY <1>5 DEF HandInv, Shape, Handling
  <2>2. PICK w, o : w = head.user /\ o = head.obj
        OBVIOUS
  <2>3. ImageOf(w, o)
        BY <1>2, <2>1, <2>2 DEF ImageInv, DoneIsImage
  <2>4. ImageOf(w, o)'
        BY <2>3, ImageKept
  <2> QED BY <2>1, <2>2, <2>4 DEF ImageOf, AccountsOf, IsImage
<1> QED BY <1>4, <1>6, <1>7 DEF ImageInv

\* An account that is deleted on the target is counted as a loss of its user.
LEMMA AdminKeepsImage ==
    ASSUME HandInv, ImageInv, NEW m \in Names, AdminDeletes(m)
    PROVE  ImageInv'
<1>1. /\ UNCHANGED <<queue, source, schools, schoolChanges, pc>> /\ head' = head
      /\ \A n \in Names : target'[n] \in {target[n], Absent}
      BY DEF AdminDeletes, sourceVars, handlerVars, head
<1>2. ASSUME NEW v \in Users, Quiet(v)'
      PROVE  /\ Quiet(v)
             /\ \A n \in Names :
                   n \in AccountsOf(v) \/ n \in AccountsOf(v)' => target'[n] = target[n]
  <2>1. Quiet(v) /\ v # target[m].of
        BY <1>2 DEF AdminDeletes, Quiet, HandInv, TypeOK
  <2> QED BY <1>1, <2>1 DEF AdminDeletes, AccountsOf
<1>3. ASSUME NEW v \in Users PROVE ConvergesFor(v)'
  <2>1. Settled(v)' => Settled(v)
        BY <1>1 DEF Settled
  <2> QED BY <1>1, <1>2, <2>1, ConvergesKept DEF ImageInv
<1>4. HeadKnown'
  <2> SUFFICES ASSUME queue # <<>>, Quiet(head.user)', NEW n \in AccountsOf(head.user)'
               PROVE  Before(head.user, n)' \/ IsImage(target[n], n, head.obj)'
      BY <1>1 DEF HeadKnown
  <2>1. head.user \in Users
        BY HeadFacts
  <2>2. PICK w \in Users : w = head.user
        BY <2>1
  <2>3. Quiet(w)' /\ n \in AccountsOf(w)' /\ n \in Names
        BY <1>1, <2>2 DEF Quiet, AccountsOf
  <2>4. Quiet(w) /\ target'[n] = target[n]
        BY <1>2, <2>3
  <2>5. n \in AccountsOf(w)
        BY <2>3, <2>4 DEF AccountsOf
  <2>6. Before(w, n) \/ IsImage(target[n], n, head.obj)
        BY <2>2, <2>4, <2>5 DEF ImageInv, HeadKnown
  <2>7. Before(w, n) => Before(w, n)'
        BY <1>1, <2>4 DEF Before, Holds
  <2>8. IsImage(target[n], n, head.obj) => IsImage(target[n], n, head.obj)'
        BY <1>1, <2>4 DEF IsImage
  <2> QED BY <1>1, <2>2, <2>6, <2>7, <2>8 DEF Before
<1>5. DoneIsImage'
  <2> SUFFICES ASSUME pc = "done", Quiet(head.user)' PROVE ImageOf(head.user, head.obj)'
      BY <1>1 DEF DoneIsImage
  <2>1. head.user \in Users
        BY CurFacts DEF HandInv, Handling
  <2>2. PICK w \in Users : w = head.user
        BY <2>1
  <2>3. PICK o : o = head.obj
        OBVIOUS
  <2>4. Quiet(w)'
        BY <1>1, <2>2 DEF Quiet
  <2>5. ImageOf(w, o)
        BY <1>2, <2>2, <2>3, <2>4 DEF ImageInv, DoneIsImage
  <2>6. ImageOf(w, o)'
        BY <1>1, <1>2, <2>4, <2>5, ImageKept
  <2> QED BY <1>1, <2>2, <2>3, <2>6 DEF ImageOf, AccountsOf, IsImage
<1> QED BY <1>3, <1>4, <1>5 DEF ImageInv

\* Every step keeps ImageInv.
LEMMA ImageNext ==
    ASSUME Identified, HandInv, QueueInv, AccountInv, ImageInv, HandInv', [Next]_vars
    PROVE  ImageInv'
<1>1. ASSUME NEW u \in Users, NEW o \in Inputs[u], SourceChanges(u, o) PROVE ImageInv'
      BY <1>1, SourceFacts, SourceKeepsImage
<1>2. ASSUME NEW u \in Users, SourceRemoves(u) PROVE ImageInv'
      BY <1>2, SourceFacts, SourceKeepsImage
<1>3. CASE Ping
      BY <1>3, StillImage DEF Ping, sourceVars, countVars
<1>4. CASE HandleListenerObject
      BY <1>4, StillImage DEF HandleListenerObject, sourceVars, countVars
<1>5. CASE UserHasSchools
      BY <1>5, StillImage DEF UserHasSchools, sourceVars, countVars
<1>6. CASE Map
      BY <1>6, StillImage DEF Map, sourceVars, countVars
<1>7. CASE MapRaises
      BY <1>7, EndFacts, EndKeepsImage
<1>8. ASSUME NEW n \in Names, SearchFinds(n) PROVE ImageInv'
      BY <1>8, StillImage DEF SearchFinds, sourceVars, countVars
<1>9. CASE SearchFindsNone
  <2>1. CASE cur.op = "remove"
        BY <1>9, <2>1, WorkFacts, WorkKeepsImage
  <2>2. CASE cur.op = "add_mod"
        BY <1>9, <2>2, StillImage DEF SearchFindsNone, sourceVars, countVars
  <2> QED BY <1>9, <2>1, <2>2, CurFacts DEF SearchFindsNone, HandInv, Handling
<1>10. CASE SearchMissesData
       BY <1>10, EndFacts, EndKeepsImage
<1>11. CASE SearchRaises
       BY <1>11, EndFacts, EndKeepsImage
<1>12. CASE Get
       BY <1>12, StillImage DEF Get, sourceVars, countVars
<1>13. CASE GetRaises
       BY <1>13, EndFacts, EndKeepsImage
<1>14. CASE Save
       BY <1>14, WorkFacts, WorkKeepsImage
<1>15. ASSUME NEW k \in {"guardians", "wards"}, DropLinks(k) PROVE ImageInv'
       BY <1>15, StillImage DEF DropLinks, sourceVars, countVars
<1>16. CASE SaveRaises
       BY <1>16, EndFacts, EndKeepsImage
<1>17. CASE Delete
       BY <1>17, WorkFacts, WorkKeepsImage
<1>18. CASE Done
       BY <1>18, EndFacts, EndKeepsImage
<1>19. CASE Fault
       BY <1>19, EndFacts, EndKeepsImage
<1>20. CASE Cancel
       BY <1>20, StillImage DEF Cancel, sourceVars
<1>21. CASE CacheExpires
       BY <1>21, StillImage DEF CacheExpires, sourceVars, handlerVars, countVars
<1>22. ASSUME NEW new \in SUBSET Mapped, TargetSchoolsChange(new) PROVE ImageInv'
  <2>1. schoolChanges' # 0
        BY <1>22 DEF TargetSchoolsChange, HandInv, TypeOK
  <2> QED BY <1>22, <2>1, StillImage DEF TargetSchoolsChange, sourceVars, handlerVars
<1>23. ASSUME NEW n \in Names, AdminDeletes(n) PROVE ImageInv'
       BY <1>23, AdminKeepsImage
<1>24. CASE UNCHANGED vars
       BY <1>24, StillImage DEF vars
<1> QED BY <1>1, <1>2, <1>3, <1>4, <1>5, <1>6, <1>7, <1>8, <1>9, <1>10, <1>11, <1>12, <1>13,
           <1>14, <1>15, <1>16, <1>17, <1>18, <1>19, <1>20, <1>21, <1>22, <1>23, <1>24 DEF Next,
           HandlerStep

\* At first the source is empty and nobody has an account.
LEMMA ImageInit ==
    Init => ImageInv
<1> SUFFICES ASSUME Init PROVE ImageInv
    OBVIOUS
<1>1. \A n \in Names : target[n] # Absent => target[n] = ForeignAccount
      BY DEF Init
<1>2. \A u \in Users : AccountsOf(u) = {} /\ source[u] = Absent
      BY <1>1, ForeignAssumption DEF AccountsOf, Init
<1>3. pc = "ping" /\ queue = <<>>
      BY DEF Init
<1> QED BY <1>2, <1>3 DEF ImageInv, ConvergesFor, ImageOf, HeadKnown, DoneIsImage

-----------------------------------------------------------------------------
(* The theorems. *)

\* Whose accounts are whose, and what they say, if all users are identified.
THEOREM AccountInvariance == Identified => (Spec => [](AccountInv /\ ImageInv))
<1> SUFFICES ASSUME Identified PROVE Spec => [](AccountInv /\ ImageInv)
    OBVIOUS
<1>1. Init => AccountInv /\ ImageInv
      BY AccountInit, ImageInit
<1>2. IndInv /\ IndInv' /\ AccountInv /\ ImageInv /\ [Next]_vars => (AccountInv /\ ImageInv)'
      BY AccountNext, ImageNext DEF IndInv
<1> QED BY <1>1, <1>2, Invariance, PTL DEF Spec

(***************************************************************************)
(* The search by the record_uid and source_uid of old_data finds the       *)
(* account that an earlier object made, also if the identity changes and   *)
(* if an object is handled twice: no user gets a second account.           *)
(***************************************************************************)
THEOREM OneAccount == Identified => (Spec => []OneAccountPerUser)
<1> SUFFICES ASSUME Identified PROVE Spec => []OneAccountPerUser
    OBVIOUS
<1>1. AccountInv => OneAccountPerUser
  <2> SUFFICES ASSUME AccountInv, NEW u \in Users, lost[u] # "identity"
               PROVE  Cardinality(AccountsOf(u)) <= 1
      BY DEF OneAccountPerUser
  <2>1. \A m, n \in AccountsOf(u) : m = n
        BY DEF AccountInv, OneEach, Sane
  <2>2. Cardinality(AccountsOf(u)) \in {0, 1}
        BY <2>1, AtMostOne
  <2> QED BY <2>2
<1> QED BY <1>1, AccountInvariance, PTL

(***************************************************************************)
(* do_modify() and do_remove() are only called with an account of the      *)
(* object's own user: the identity that is searched for is nobody else's   *)
(* at that point of the queue.                                             *)
(***************************************************************************)
THEOREM OwnAccounts == Identified => (Spec => OnlyOwnAccounts)
<1> SUFFICES ASSUME Identified PROVE Spec => OnlyOwnAccounts
    OBVIOUS
<1> DEFINE Own ==
        \A n \in Names :
          target[n] # Absent /\ target'[n] # target[n] /\ faults' = faults =>
              \/ target[n].of = Head(queue).user
              \/ target[n].of \in Users /\ lost[target[n].of] = "identity"
<1>1. ASSUME IndInv, AccountInv, [Next]_vars PROVE [Own]_vars
  <2> SUFFICES ASSUME NEW n \in Names, target[n] # Absent, target'[n] # target[n], faults' = faults
               PROVE  \/ target[n].of = head.user
                      \/ target[n].of \in Users /\ lost[target[n].of] = "identity"
      BY DEF head
  <2>1. HandInv /\ QueueInv /\ AccountsKnown /\ ForeignStays /\ FoundInHand
        BY <1>1 DEF IndInv, AccountInv
  <2>2. CASE Save
    <3>1. n = found /\ pc \in {"save", "resave"}
          BY <2>2 DEF Save, NameTaken
    <3>2. Handling /\ Searching(cur) /\ Matches(n, cur)
          BY <2>1, <3>1 DEF FoundInHand, Handling
    <3> QED BY <2>1, <3>2, FoundIsOwn DEF Sane
  <2>3. CASE Delete
    <3>1. n = found /\ pc = "delete"
          BY <2>1, <2>3 DEF Delete, HandInv, TypeOK
    <3>2. Handling /\ Searching(cur) /\ Matches(n, cur)
          BY <2>1, <3>1 DEF FoundInHand, Handling
    <3> QED BY <2>1, <3>2, FoundIsOwn DEF Sane
  <2>4. ASSUME NEW m \in Names, AdminDeletes(m) PROVE FALSE
        BY <2>1, <2>4 DEF AdminDeletes, HandInv, TypeOK
  <2>5. CASE target' = target
        BY <2>5
  <2>6. Save \/ Delete \/ (\E m \in Names : AdminDeletes(m)) \/ target' = target
        BY <1>1 DEF Next, HandlerStep, vars, SourceChanges, SourceRemoves, Ping,
           HandleListenerObject, UserHasSchools, Map, MapRaises, SearchFinds,
           SearchFindsNone, SearchMissesData, SearchRaises, Get, GetRaises, DropLinks,
           SaveRaises, Done, Fault, Cancel, CacheExpires, TargetSchoolsChange
  <2> QED BY <2>2, <2>3, <2>4, <2>5, <2>6
<1>2. IndInv /\ AccountInv /\ [Next]_vars => [Own]_vars
      BY <1>1
<1>3. OnlyOwnAccounts <=> [][Own]_vars
      BY DEF OnlyOwnAccounts
<1> HIDE DEF Own
<1> QED BY <1>2, <1>3, Invariance, AccountInvariance, PTL DEF Spec

(***************************************************************************)
(* The target converges to the source, through every interleaving of       *)
(* changes, cancelled handlers, failures and deletions on the target.      *)
(***************************************************************************)
THEOREM Convergence == Identified => (Spec => []Converges)
<1> SUFFICES ASSUME Identified PROVE Spec => []Converges
    OBVIOUS
<1>1. ImageInv => Converges
  <2> SUFFICES ASSUME ImageInv, NEW u \in Users, Settled(u), lost[u] = "nothing", schoolChanges = 0
               PROVE  IF BelongsThere(u)
                      THEN \E n \in Names : AccountsOf(u) = {n} /\ IsImage(target[n], n, source[u])
                      ELSE AccountsOf(u) = {}
      BY DEF Converges
  <2>1. ImageOf(u, source[u])
        BY DEF ImageInv, ConvergesFor, Quiet
  <2> QED BY <2>1 DEF ImageOf, BelongsThere
<1> QED BY <1>1, AccountInvariance, PTL

-----------------------------------------------------------------------------
(* The handler implements Replication. *)

\* As long as the target's schools did not change, they are the first ones.
FirstSchoolsStay == schoolChanges = 0 => schools = FirstSchools

\* An object in the queue, as Replication sees it.
ReportOf(item) == [of |-> item.user, says |-> item.obj]

\* The reports of a queue are a queue of the same length.
LEMMA ReportsAreQueue ==
    ASSUME NEW q \in Seq(Items)
    PROVE  /\ ReportsOf(q) \in Seq({ReportOf(item) : item \in Items})
           /\ Len(q) \in Nat /\ Len(ReportsOf(q)) = Len(q)
           /\ \A i \in 1..Len(q) : ReportsOf(q)[i] = ReportOf(q[i])
<1>1. Len(q) \in Nat /\ \A i \in 1..Len(q) : q[i] \in Items
      BY ElementOfSeq, LenProperties
<1>2. /\ ReportsOf(q) \in [1..Len(q) -> {ReportOf(item) : item \in Items}]
      /\ \A i \in 1..Len(q) : ReportsOf(q)[i] = ReportOf(q[i])
      BY <1>1 DEF ReportsOf, ReportOf
<1>3. ReportsOf(q) \in Seq({ReportOf(item) : item \in Items})
      BY <1>1, <1>2, SeqDef
<1>4. Len(ReportsOf(q)) = Len(q)
      BY <1>1, <1>2, <1>3, LenProperties
<1> QED BY <1>1, <1>2, <1>3, <1>4

\* An object that is appended is reported last.
LEMMA ReportsAppended ==
    ASSUME NEW q \in Seq(Items), NEW item \in Items
    PROVE  ReportsOf(Append(q, item)) = Append(ReportsOf(q), ReportOf(item))
<1> DEFINE Reports == {ReportOf(e) : e \in Items}
           p == Append(q, item)
           r == Append(ReportsOf(q), ReportOf(item))
<1>1. /\ Len(q) \in Nat /\ ReportsOf(q) \in Seq(Reports) /\ Len(ReportsOf(q)) = Len(q)
      /\ \A i \in 1..Len(q) : ReportsOf(q)[i] = ReportOf(q[i])
      BY ReportsAreQueue
<1>2. /\ p \in Seq(Items) /\ Len(p) = Len(q) + 1 /\ p[Len(q) + 1] = item
      /\ \A i \in 1..Len(q) : p[i] = q[i]
      BY Appended
<1>3. /\ ReportsOf(p) \in Seq(Reports) /\ Len(ReportsOf(p)) = Len(q) + 1
      /\ \A i \in 1..(Len(q) + 1) : ReportsOf(p)[i] = ReportOf(p[i])
      BY <1>2, ReportsAreQueue
<1>4. ReportOf(item) \in Reports
      OBVIOUS
<1> HIDE DEF Reports
<1>5. /\ r \in Seq(Reports) /\ Len(r) = Len(q) + 1 /\ r[Len(q) + 1] = ReportOf(item)
      /\ \A i \in 1..Len(q) : r[i] = ReportsOf(q)[i]
      BY <1>1, <1>4, Appended
<1> HIDE DEF p, r
<1>6. \A i \in 1..(Len(q) + 1) : i \in 1..Len(q) \/ i = Len(q) + 1
      BY <1>1
<1>7. \A i \in 1..(Len(q) + 1) : ReportsOf(p)[i] = r[i]
      BY <1>1, <1>2, <1>3, <1>5, <1>6
<1>8. ReportsOf(p) = r
      BY <1>3, <1>5, <1>7, SeqEqual
<1> QED BY <1>8 DEF p, r

\* The first report is of the first object, and leaves with it.
LEMMA ReportsMovedUp ==
    ASSUME NEW q \in Seq(Items), q # <<>>
    PROVE  /\ ReportsOf(q) # <<>>
           /\ Head(ReportsOf(q)) = ReportOf(Head(q))
           /\ ReportsOf(Tail(q)) = Tail(ReportsOf(q))
<1> DEFINE Reports == {ReportOf(e) : e \in Items}
<1>1. /\ Len(q) \in Nat /\ ReportsOf(q) \in Seq(Reports) /\ Len(ReportsOf(q)) = Len(q)
      /\ \A i \in 1..Len(q) : ReportsOf(q)[i] = ReportOf(q[i])
      BY ReportsAreQueue
<1>2. 1 \in 1..Len(q) /\ Head(q) = q[1]
      BY HeadIsFirst
<1> HIDE DEF Reports
<1>3. ReportsOf(q) # <<>>
      BY <1>1, <1>2, EmptySeq
<1>4. Head(ReportsOf(q)) = ReportsOf(q)[1]
      BY <1>1, <1>3, HeadIsFirst
<1>5. /\ Tail(q) \in Seq(Items) /\ Len(Tail(q)) = Len(q) - 1
      /\ \A i \in 1..Len(Tail(q)) : i + 1 \in 1..Len(q) /\ Tail(q)[i] = q[i + 1]
      BY MovedUp
<1>6. /\ ReportsOf(Tail(q)) \in Seq(Reports) /\ Len(ReportsOf(Tail(q))) = Len(q) - 1
      /\ \A i \in 1..Len(Tail(q)) : ReportsOf(Tail(q))[i] = ReportOf(Tail(q)[i])
      BY <1>5, ReportsAreQueue DEF Reports
<1>7. /\ Tail(ReportsOf(q)) \in Seq(Reports) /\ Len(Tail(ReportsOf(q))) = Len(q) - 1
      /\ \A i \in 1..Len(Tail(q)) : Tail(ReportsOf(q))[i] = ReportsOf(q)[i + 1]
      BY <1>1, <1>3, <1>5, MovedUp
<1>8. ReportsOf(Tail(q)) = Tail(ReportsOf(q))
      BY <1>1, <1>5, <1>6, <1>7, SeqEqual
<1> QED BY <1>1, <1>2, <1>3, <1>4, <1>8

\* An account that is the image of an object is right.
LEMMA ImageIsRight ==
    ASSUME NEW u \in Users, NEW o \in Inputs[u], NEW n \in Names, NEW a \in Accounts, a.of = u,
           o.schools \cap FirstSchools # {}, schools = FirstSchools, IsImage(a, n, o)
    PROVE  {[name |-> n, account |-> a]} \in RightAccounts(u, o)
<1>1. /\ n = o.name /\ a.ruid = o.ruid /\ a.suid = o.suid
      /\ a.schools = o.schools \cap FirstSchools
      /\ a.school \in a.schools /\ (o.school \in FirstSchools => a.school = o.school)
      /\ a.guardians \subseteq o.guardians /\ a.wards \subseteq o.wards
      /\ a.mapping \in {"users"} \cup Mappings
      /\ \A s \in Mapped, r \in Mappings :
            <<r, s>> \in o.roles =>
                \E i, j \in 1..5 : RolePriority[i] = a.mapping /\ RolePriority[j] = r /\ i <= j
      BY DEF IsImage, Accounts
<1>2. a = [of |-> a.of, ruid |-> a.ruid, suid |-> a.suid, school |-> a.school,
           schools |-> a.schools, mapping |-> a.mapping, guardians |-> a.guardians,
           wards |-> a.wards]
      BY DEF Accounts
<1>3. a \in AccountImages(u, o)
      BY <1>1, <1>2 DEF AccountImages
<1>4. o # Absent
      BY ObjectFacts
<1> QED BY <1>1, <1>3, <1>4 DEF RightAccounts

\* So are the accounts of a user that the target has if they are what an object asks for.
LEMMA ImageOfIsRight ==
    ASSUME HandInv, schools = FirstSchools,
           NEW u \in Users, NEW o \in Inputs[u] \cup {Absent}, ImageOf(u, o)
    PROVE  AccountsThere[u] \in RightAccounts(u, o)
<1>1. AccountsThere[u] = {[name |-> n, account |-> target[n]] : n \in AccountsOf(u)}
      BY DEF AccountsThere
<1>2. CASE o # Absent /\ o.schools \cap schools # {}
  <2>1. PICK n \in Names : AccountsOf(u) = {n} /\ IsImage(target[n], n, o)
        BY <1>2 DEF ImageOf
  <2>2. target[n] \in Accounts /\ target[n].of = u
        BY <2>1 DEF AccountsOf, HandInv, TypeOK
  <2>3. {[name |-> n, account |-> target[n]]} \in RightAccounts(u, o)
        BY <1>2, <2>1, <2>2, ImageIsRight
  <2> QED BY <1>1, <2>1, <2>3
<1>3. CASE ~(o # Absent /\ o.schools \cap schools # {})
      BY <1>1, <1>3 DEF ImageOf, RightAccounts
<1> QED BY <1>2, <1>3

\* The same after a step that carries the object out.
LEMMA NextImageIsRight ==
    ASSUME HandInv', schools = FirstSchools, schools' = schools,
           NEW u \in Users, NEW o \in Inputs[u] \cup {Absent}, ImageOf(u, o)'
    PROVE  AccountsThere'[u] \in RightAccounts(u, o)
<1>1. AccountsThere'[u] = {[name |-> n, account |-> target'[n]] : n \in AccountsOf(u)'}
      BY DEF AccountsThere
<1>2. CASE o # Absent /\ o.schools \cap schools # {}
  <2>1. PICK n \in Names : AccountsOf(u)' = {n} /\ IsImage(target[n], n, o)'
        BY <1>2 DEF ImageOf
  <2>2. PICK a : a = target'[n]
        OBVIOUS
  <2>3. a \in Accounts /\ a.of = u
        BY <2>1, <2>2 DEF AccountsOf, HandInv, TypeOK
  <2>4. IsImage(a, n, o)
        BY <2>1, <2>2 DEF IsImage
  <2>5. {[name |-> n, account |-> a]} \in RightAccounts(u, o)
        BY <1>2, <2>3, <2>4, ImageIsRight
  <2> QED BY <1>1, <2>1, <2>2, <2>5
<1>3. CASE ~(o # Absent /\ o.schools \cap schools # {})
      BY <1>1, <1>3 DEF ImageOf, RightAccounts
<1> QED BY <1>2, <1>3

\* The fate of a user depends on what is on record as lost of that user.
LEMMA FateFacts ==
    ASSUME HandInv, HandInv', NEW u \in Users, schoolChanges' = schoolChanges,
           \A v \in Users \ {u} : lost'[v] = lost[v]
    PROVE  /\ Fate' = [Fate EXCEPT ![u] = Fate'[u]]
           /\ schoolChanges # 0 => Fate[u] = "astray" /\ Fate'[u] = "astray"
           /\ schoolChanges = 0 =>
                 /\ Fate[u] = "astray" <=> ~Sane(u)
                 /\ Fate[u] = "kept" => lost[u] = "nothing"
                 /\ lost'[u] = lost[u] => Fate'[u] = Fate[u]
                 /\ lost'[u] = "nothing" => Fate'[u] = "kept"
                 /\ lost'[u] = "last" => Fate'[u] = "missed"
                 /\ lost'[u] = "identity" => Fate'[u] = "astray"
<1>1. \A v \in Users \ {u} : Fate'[v] = Fate[v]
      BY DEF Fate
<1>2. Fate' = [Fate EXCEPT ![u] = Fate'[u]]
      BY <1>1 DEF Fate
<1> QED BY <1>2 DEF Fate, Sane, HandInv, TypeOK

\* What the target has of its users.
LEMMA ThereFacts ==
    ASSUME HandInv
    PROVE  AccountsThere \in [Users -> SUBSET [name : Names, account : Accounts]]
BY DEF AccountsThere, AccountsOf, HandInv, TypeOK

\* What happens to the accounts of others does not matter to a user.
LEMMA ThereKept ==
    ASSUME NEW v \in Users,
           \A n \in Names : n \in AccountsOf(v) \/ n \in AccountsOf(v)' => target'[n] = target[n]
    PROVE  AccountsThere'[v] = AccountsThere[v]
<1>1. AccountsOf(v)' = AccountsOf(v)
      BY DEF AccountsOf
<1>2. \A n \in AccountsOf(v) : target'[n] = target[n]
      BY DEF AccountsOf
<1> QED BY <1>1, <1>2 DEF AccountsThere

\* The object of a step that handles one is reported first.
LEMMA HeadReported ==
    ASSUME HandInv, queue # <<>>
    PROVE  /\ ReportsOf(queue) # <<>>
           /\ Head(ReportsOf(queue)) = ReportOf(head)
           /\ Tail(ReportsOf(queue)) = ReportsOf(Tail(queue))
           /\ ReportOf(head).of = head.user /\ ReportOf(head).says = head.obj
           /\ head.user \in Users /\ head.obj \in Inputs[head.user] \cup {Absent}
<1>1. head \in Items /\ head.user \in Users /\ head.obj \in Inputs[head.user] \cup {Absent}
      BY HeadFacts, ItemFacts
<1>2. queue \in Seq(Items)
      BY DEF HandInv, TypeOK
<1> QED BY <1>1, <1>2, ReportsMovedUp DEF head, ReportOf

\* An object leaves the queue.
LEMMA EndDisposes ==
    ASSUME Identified, HandInv, HandInv', QueueInv, AccountInv, ImageInv, FirstSchoolsStay,
           \/ MapRaises \/ SearchMissesData \/ SearchRaises \/ GetRaises \/ SaveRaises
           \/ Done \/ Fault
    PROVE  RP!Dispose
<1> DEFINE u == head.user
<1>1. /\ Handling /\ EndHandling
      /\ UNCHANGED <<source, target, schools, schoolChanges>>
      /\ \A v \in Users \ {u} : lost'[v] = lost[v]
      /\ lost'[u] # "identity" => Sane(u)
      /\ lost'[u] = "nothing" =>
            lost[u] = "nothing" /\ (schoolChanges = 0 => ImageOf(u, head.obj))
      BY EndFacts
<1>2. /\ ReportsOf(queue) # <<>> /\ Head(ReportsOf(queue)) = ReportOf(head)
      /\ Tail(ReportsOf(queue)) = ReportsOf(queue)'
      /\ ReportOf(head).of = u /\ ReportOf(head).says = head.obj
      /\ u \in Users /\ head.obj \in Inputs[u] \cup {Absent}
      BY <1>1, HeadReported DEF HandInv, Shape, EndHandling
<1>3. AccountsThere' = AccountsThere
      BY <1>1 DEF AccountsThere, AccountsOf
<1>4. \/ /\ Fate[u] = "kept" => AccountsThere[u] \in RightAccounts(u, head.obj)
         /\ Fate' = Fate
      \/ Fate[u] # "astray" /\ Fate' = [Fate EXCEPT ![u] = "missed"]
      \/ Fate' = [Fate EXCEPT ![u] = "astray"]
  <2>1. lost'[u] \in {"nothing", "last", "identity"}
        BY <1>2 DEF HandInv, TypeOK
  <2>2. CASE schoolChanges # 0
        BY <1>1, <1>2, <2>2, FateFacts
  <2>3. CASE schoolChanges = 0 /\ lost'[u] = "nothing"
    <3>1. AccountsThere[u] \in RightAccounts(u, head.obj)
          BY <1>1, <1>2, <2>3, ImageOfIsRight DEF FirstSchoolsStay
    <3>2. Fate'[u] = Fate[u] /\ Fate' = [Fate EXCEPT ![u] = Fate'[u]]
          BY <1>1, <1>2, <2>3, FateFacts
    <3>3. Fate' = Fate
          BY <3>2 DEF Fate
    <3> QED BY <3>1, <3>3
  <2>4. CASE schoolChanges = 0 /\ lost'[u] = "last"
        BY <1>1, <1>2, <2>4, FateFacts
  <2>5. CASE schoolChanges = 0 /\ lost'[u] = "identity"
        BY <1>1, <1>2, <2>5, FateFacts
  <2> QED BY <2>1, <2>2, <2>3, <2>4, <2>5
<1> QED BY <1>1, <1>2, <1>3, <1>4 DEF RP!Dispose

\* An object is carried out.
LEMMA WorkCarriesOut ==
    ASSUME Identified, HandInv, HandInv', QueueInv, AccountInv, FirstSchoolsStay,
           Save \/ Delete \/ (SearchFindsNone /\ cur.op = "remove")
    PROVE  RP!CarryOut
<1> DEFINE u == head.user
<1>1. /\ Handling /\ Searching(cur)
      /\ UNCHANGED <<queue, source, schools, schoolChanges>>
      /\ \A v \in Users \ {u} : lost'[v] = lost[v]
      /\ lost'[u] # "last"
      /\ lost'[u] = "nothing" => Sane(u)
      /\ \A n \in Names : target'[n] # target[n] =>
            /\ target'[n] = Absent \/ target'[n].of = head.user
            /\ target[n] = Absent \/ Matches(n, cur)
      /\ Quiet(u)' => ImageOf(u, head.obj)'
      BY WorkFacts
<1>2. /\ ReportsOf(queue) # <<>> /\ Head(ReportsOf(queue)) = ReportOf(head)
      /\ ReportOf(head).of = u /\ ReportOf(head).says = head.obj
      /\ u \in Users /\ head.obj \in Inputs[u] \cup {Absent}
      /\ ReportsOf(queue)' = ReportsOf(queue) /\ head' = head
      BY <1>1, HeadReported DEF HandInv, Shape, head
<1>3. AccountsThere' \in [Users -> SUBSET [name : Names, account : Accounts]]
      BY DEF AccountsThere, AccountsOf, HandInv, TypeOK
<1>4. ASSUME NEW v \in Users \ {u}, Fate[v] # "astray"
      PROVE  AccountsThere'[v] = AccountsThere[v]
  <2>1. Sane(v)
        BY <1>4 DEF Fate, Sane
  <2> QED BY <1>1, <2>1, OthersStay, ThereKept
<1>5. \/ /\ Fate[u] # "astray"
         /\ AccountsThere'[u] \in RightAccounts(u, head.obj)
         /\ Fate' = [Fate EXCEPT ![u] = "kept"]
      \/ Fate' = [Fate EXCEPT ![u] = "astray"]
  <2>1. lost'[u] \in {"nothing", "identity"}
        BY <1>1, <1>2 DEF HandInv, TypeOK
  <2>2. CASE schoolChanges # 0
        BY <1>1, <1>2, <2>2, FateFacts
  <2>3. CASE schoolChanges = 0 /\ lost'[u] = "nothing"
    <3>1. PICK w, o : w = u /\ o = head.obj
          OBVIOUS
    <3>2. Quiet(u)'
          BY <1>1, <1>2, <2>3 DEF Quiet
    <3>3. ImageOf(w, o)'
          BY <1>1, <1>2, <3>1, <3>2 DEF ImageOf, AccountsOf, IsImage
    <3>4. AccountsThere'[w] \in RightAccounts(w, o)
          BY <1>1, <1>2, <2>3, <3>1, <3>3, NextImageIsRight DEF FirstSchoolsStay
    <3> QED BY <1>1, <1>2, <2>3, <3>1, <3>4, FateFacts
  <2>4. CASE schoolChanges = 0 /\ lost'[u] = "identity"
        BY <1>1, <1>2, <2>4, FateFacts
  <2> QED BY <2>1, <2>2, <2>3, <2>4
<1> QED BY <1>1, <1>2, <1>3, <1>4, <1>5 DEF RP!CarryOut

\* A change in the source.
LEMMA SourceReports ==
    ASSUME HandInv, HandInv', NEW u \in Users,
           (\E o \in Inputs[u] : SourceChanges(u, o)) \/ SourceRemoves(u)
    PROVE  RP!Report(u)
<1>1. PICK item \in Items :
          /\ item.user = u /\ item.obj = source'[u]
          /\ \/ queue' = Append(queue, item)
             \/ /\ queue' = queue
                /\ source[u] = Absent \/ ~There(OldData(source[u]))
                /\ source'[u] = Absent \/ ~There(OldData(source'[u]))
      BY SourceFacts
<1>2. /\ source'[u] # source[u] /\ \A v \in Users \ {u} : source'[v] = source[v]
      /\ UNCHANGED <<target, lost, schoolChanges>>
      BY SourceFacts
<1>3. source' \in [Users -> UserObjects \cup {Absent}]
      BY DEF HandInv, TypeOK
<1>4. AccountsThere' = AccountsThere /\ Fate' = Fate
      BY <1>2 DEF AccountsThere, AccountsOf, Fate
<1>5. CASE queue' = Append(queue, item)
  <2>1. ReportsOf(queue)' = Append(ReportsOf(queue), ReportOf(item))
        BY <1>5, ReportsAppended DEF HandInv, TypeOK
  <2>2. ReportOf(item) = [of |-> u, says |-> source'[u]]
        BY <1>1 DEF ReportOf
  <2> QED BY <1>2, <1>3, <1>4, <2>1, <2>2 DEF RP!Report
<1>6. CASE queue' # Append(queue, item)
  <2>1. ASSUME NEW o, o = Absent \/ (OldData(o) # Absent /\ ~There(OldData(o)))
        PROVE  RightAccounts(u, o) = {{}}
        BY <2>1, SchoolsAssumption DEF RightAccounts, There, OldData
  <2>2. source[u] # Absent => OldData(source[u]) # Absent
        BY ObjectFacts DEF HandInv, TypeOK
  <2>3. source'[u] # Absent => OldData(source'[u]) # Absent
        BY ObjectFacts DEF HandInv, TypeOK
  <2>4. RightAccounts(u, source[u]) = RightAccounts(u, source'[u])
        BY <1>1, <1>6, <2>1, <2>2, <2>3
  <2>5. ReportsOf(queue)' = ReportsOf(queue)
        BY <1>1, <1>6
  <2> QED BY <1>2, <1>3, <1>4, <2>4, <2>5 DEF RP!Report
<1> QED BY <1>5, <1>6

\* The administrator of the target deletes an account.
LEMMA AdminTakesAway ==
    ASSUME HandInv, HandInv', NEW n \in Names, AdminDeletes(n)
    PROVE  \E u \in Users : RP!TakeAway(u)
<1>1. PICK u \in Users : u = target[n].of
      BY DEF AdminDeletes
<1>2. /\ n \in AccountsOf(u) /\ n \notin AccountsOf(u)'
      /\ UNCHANGED <<queue, source, schoolChanges>>
      /\ \A m \in Names \ {n} : target'[m] = target[m]
      /\ \A v \in Users \ {u} : lost'[v] = lost[v]
      /\ lost'[u] = IF lost[u] = "nothing" THEN "last" ELSE lost[u]
      BY <1>1 DEF AdminDeletes, AccountsOf, HandInv, TypeOK, sourceVars
<1>3. AccountsThere' \in [Users -> SUBSET [name : Names, account : Accounts]]
      BY DEF AccountsThere, AccountsOf, HandInv, TypeOK
<1>4. ASSUME NEW v \in Users \ {u} PROVE AccountsThere'[v] = AccountsThere[v]
  <2>1. n \notin AccountsOf(v) /\ n \notin AccountsOf(v)'
        BY <1>1, <1>2 DEF AccountsOf, AdminDeletes
  <2> QED BY <1>2, <2>1, ThereKept DEF AccountsOf
<1>5. AccountsThere'[u] \subseteq AccountsThere[u] /\ AccountsThere'[u] # AccountsThere[u]
  <2>1. /\ AccountsThere[u] = {[name |-> m, account |-> target[m]] : m \in AccountsOf(u)}
        /\ AccountsThere'[u] = {[name |-> m, account |-> target'[m]] : m \in AccountsOf(u)'}
        BY DEF AccountsThere
  <2>2. AccountsOf(u)' \subseteq AccountsOf(u) \ {n}
        BY <1>2 DEF AccountsOf
  <2>3. \A m \in AccountsOf(u)' : target'[m] = target[m] /\ m # n
        BY <1>2, <2>2 DEF AccountsOf
  <2>4. [name |-> n, account |-> target[n]] \in AccountsThere[u]
        BY <1>2, <2>1
  <2>5. [name |-> n, account |-> target[n]] \notin AccountsThere'[u]
        BY <2>1, <2>3
  <2>6. AccountsThere'[u] \subseteq AccountsThere[u]
        BY <2>1, <2>2, <2>3
  <2> QED BY <2>4, <2>5, <2>6
<1>6. Fate' = [Fate EXCEPT ![u] = IF @ = "astray" THEN "astray" ELSE "missed"]
  <2>1. lost[u] \in {"nothing", "last", "identity"}
        BY DEF HandInv, TypeOK
  <2>2. \A v \in Users \ {u} : Fate'[v] = Fate[v]
        BY <1>2 DEF Fate
  <2>3. Fate'[u] = IF Fate[u] = "astray" THEN "astray" ELSE "missed"
        BY <1>2, <2>1 DEF Fate
  <2> QED BY <2>2, <2>3 DEF Fate
<1>7. ReportsOf(queue)' = ReportsOf(queue)
      BY <1>2
<1> QED BY <1>2, <1>3, <1>4, <1>5, <1>6, <1>7 DEF RP!TakeAway

\* The target's schools are the first ones until they change.
LEMMA FirstSchoolsNext ==
    ASSUME TypeOK, FirstSchoolsStay, [Next]_vars
    PROVE  FirstSchoolsStay'
<1>1. CASE UNCHANGED <<schools, schoolChanges>>
      BY <1>1 DEF FirstSchoolsStay
<1>2. ASSUME NEW new \in SUBSET Mapped, TargetSchoolsChange(new) PROVE FirstSchoolsStay'
      BY <1>2 DEF TargetSchoolsChange, TypeOK, FirstSchoolsStay
<1> QED BY <1>1, <1>2 DEF Next, HandlerStep, vars, SourceChanges, SourceRemoves, Ping,
           HandleListenerObject, UserHasSchools, Map, MapRaises, SearchFinds, SearchFindsNone,
           SearchMissesData, SearchRaises, Get, GetRaises, Save, DropLinks, SaveRaises, Delete,
           Done, Fault, Cancel, CacheExpires, AdminDeletes, countVars

\* Every step is one of Replication's, or shows nothing.
LEMMA StepReplicates ==
    ASSUME Identified, IndInv, IndInv', AccountInv, ImageInv, FirstSchoolsStay, [Next]_vars
    PROVE  [RP!Next]_RP!vars
<1> USE DEF IndInv
<1>1. CASE \E u \in Users : (\E o \in Inputs[u] : SourceChanges(u, o)) \/ SourceRemoves(u)
      BY <1>1, SourceReports DEF RP!Next
<1>2. CASE \/ MapRaises \/ SearchMissesData \/ SearchRaises \/ GetRaises \/ SaveRaises
           \/ Done \/ Fault
      BY <1>2, EndDisposes DEF RP!Next
<1>3. CASE Save \/ Delete \/ (SearchFindsNone /\ cur.op = "remove")
      BY <1>3, WorkCarriesOut DEF RP!Next
<1>4. CASE \E new \in SUBSET Mapped : TargetSchoolsChange(new)
  <2>1. schoolChanges' # 0 /\ UNCHANGED <<source, queue, target>>
        BY <1>4 DEF TargetSchoolsChange, sourceVars, HandInv, TypeOK
  <2>2. Fate' = [u \in Users |-> "astray"]
        BY <2>1 DEF Fate
  <2>3. ReportsOf(queue)' = ReportsOf(queue) /\ AccountsThere' = AccountsThere
        BY <2>1 DEF AccountsThere, AccountsOf
  <2>4. RP!ChangeRules
        BY <2>1, <2>2, <2>3 DEF RP!ChangeRules
  <2> QED BY <2>4 DEF RP!Next
<1>5. CASE \E n \in Names : AdminDeletes(n)
      BY <1>5, AdminTakesAway DEF RP!Next
<1>6. CASE UNCHANGED <<source, queue, target, lost, schoolChanges>>
  <2>1. ReportsOf(queue)' = ReportsOf(queue) /\ AccountsThere' = AccountsThere /\ Fate' = Fate
        BY <1>6 DEF AccountsThere, AccountsOf, Fate
  <2> QED BY <1>6, <2>1 DEF RP!vars
<1>7. SearchFindsNone => cur.op \in {"add_mod", "remove"}
      BY CurFacts DEF SearchFindsNone, HandInv, Handling
<1> QED BY <1>1, <1>2, <1>3, <1>4, <1>5, <1>6, <1>7 DEF Next, HandlerStep, vars, Ping,
           HandleListenerObject, UserHasSchools, Map, SearchFinds, SearchFindsNone, Get,
           DropLinks, Cancel, CacheExpires, sourceVars, countVars

\* At first there is nothing to report and nobody has an account.
LEMMA ReplicationInit ==
    Init => RP!Init /\ FirstSchoolsStay
<1> SUFFICES ASSUME Init PROVE RP!Init /\ FirstSchoolsStay
    OBVIOUS
<1>1. \A n \in Names : target[n] # Absent => target[n] = ForeignAccount
      BY DEF Init
<1>2. AccountsThere = [u \in Users |-> {}]
      BY <1>1, ForeignAssumption DEF AccountsThere, AccountsOf
<1>3. Fate = [u \in Users |-> "kept"]
      BY DEF Fate, Init
<1>4. ReportsOf(queue) = <<>>
      BY EmptySeq, ReportsAreQueue DEF Init
<1> QED BY <1>2, <1>3, <1>4 DEF Init, RP!Init, FirstSchoolsStay

(***************************************************************************)
(* What the target has of a user changes only to what the oldest object    *)
(* of that user asks for, and an object leaves the queue only if that is   *)
(* there or on record as lost: the handler keeps the promises of           *)
(* Replication, through every interleaving of changes, cancelled handlers, *)
(* failures and deletions on the target.                                   *)
(***************************************************************************)
THEOREM RefinesReplication == Identified => (Spec => ImplementsReplication)
<1> SUFFICES ASSUME Identified PROVE Spec => ImplementsReplication
    OBVIOUS
<1>1. Init => RP!Init /\ FirstSchoolsStay
      BY ReplicationInit
<1>2. IndInv /\ FirstSchoolsStay /\ [Next]_vars => FirstSchoolsStay'
      BY FirstSchoolsNext DEF IndInv, HandInv
<1>3. /\ IndInv /\ IndInv' /\ AccountInv /\ ImageInv /\ FirstSchoolsStay /\ [Next]_vars
      => [RP!Next]_RP!vars
      BY StepReplicates
<1> QED BY <1>1, <1>2, <1>3, Invariance, AccountInvariance, PTL DEF Spec, ImplementsReplication,
           RP!Spec
=============================================================================
