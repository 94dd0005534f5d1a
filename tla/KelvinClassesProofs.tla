------------------------ MODULE KelvinClassesProofs ------------------------
(***************************************************************************)
(* Proofs about KelvinClasses, for any classes and users and for any       *)
(* number of changes, failures and cancellations.                          *)
(*                                                                         *)
(* ClassConverges is about the classes that are settled: none of their     *)
(* changes is in the queue.  IndInv adds what is known of the changes that *)
(* are, namely that the last one of a class says what the source says      *)
(* (LastIsCurrent), and what the handler has in hand at each step: how its *)
(* request differs from the object's members (UsersAreTheMembers), and     *)
(* which of what it has read may be outdated (MembersHaveAccounts,         *)
(* GoneIsLost).                                                            *)
(***************************************************************************)
EXTENDS KelvinClasses, SequenceTheorems, TLAPS

\* What the handler has found out by the time it is at a step.
WhereItIs ==
    /\ pc # "idle" => queue # <<>>
    /\ pc \notin {"idle", "school"} => cur.class \in Classes \ UnknownSchools
    /\ pc \in {"ldap", "remote", "roles"} => partial /\ cur.members # Absent
    /\ pc = "save" => cur.members # Absent
    /\ pc = "delete" => cur.members = Absent
    /\ pc \in {"get", "delete"} => found
    /\ pc \in {"idle", "school", "ldap", "remote"} => remote = {} /\ ~misled

\* The last change of a class in the queue is the present state of the class.
LastIsCurrent ==
    \A i \in 1..Len(queue) :
        (\A j \in 1..Len(queue) : queue[j].class = queue[i].class => j <= i)
            => queue[i].members = source[queue[i].class]

\* The members that the target's school manages are in the request as they were read.
LocalMembersInHand ==
    partial /\ pc \in {"search", "get", "save"} /\ cur.members # Absent =>
        users \ Pupils = remote \ Pupils

\* The request names the object's members, as far as the connector is in charge of them.
UsersAreTheMembers ==
    pc \in {"search", "get", "save"} /\ cur.members # Absent =>
        /\ ~misled => users \cap Pupils \cap ldap = cur.members \cap Pupils \cap ldap
        /\ users \subseteq cur.members \cup remote

\* What was read of the target is still there, unless that is counted as a loss.
MembersHaveAccounts ==
    pc \in {"roles", "search", "get", "save"} /\ cur.class \notin lost =>
        remote \subseteq accounts

\* A class that was found is still there, unless that is counted as a loss.
GoneIsLost ==
    pc \in {"get", "save", "delete"} /\ found /\ target[cur.class] = Absent =>
        cur.class \in lost

\* Class g on the target has these members, as far as the connector is in charge of them.
Agrees(g, members) ==
    /\ members = Absent <=> target[g] = Absent
    /\ members # Absent =>
          target[g] \cap Pupils \cap ldap = members \cap Pupils \cap ldap

\* The handler returns from an object that was carried out, or that another one follows.
DoneIsCarriedOut ==
    /\ pc = "done" /\ cur.class \notin lost
    /\ cur.members = Absent \/ cur.members \subseteq ldap
    => Agrees(cur.class, cur.members)

\* The inductive invariant.
IndInv ==
    /\ TypeOK
    /\ WhereItIs
    /\ LastIsCurrent
    /\ LocalMembersInHand
    /\ UsersAreTheMembers
    /\ MembersHaveAccounts
    /\ GoneIsLost
    /\ DoneIsCarriedOut
    /\ ClassConverges

-----------------------------------------------------------------------------
(* Lemmas about the queue. *)

\* The object in hand is the first one of the queue.
LEMMA HeadIsFirst ==
    ASSUME TypeOK, queue # <<>>
    PROVE  Len(queue) \in Nat /\ 1 \in 1..Len(queue) /\ cur = queue[1] /\ cur \in Items
BY EmptySeq, LenProperties, HeadTailProperties DEF TypeOK, cur

\* A class that has a change in the queue is not settled.
LEMMA AtWorkUnsettled ==
    ASSUME TypeOK, queue # <<>>
    PROVE  cur \in Items /\ ~Settled(cur.class)
BY HeadIsFirst DEF Settled

\* A new change is the last one of its class.
LEMMA AppendKeepsQueue ==
    ASSUME TypeOK, LastIsCurrent, ClassConverges,
           NEW g \in Classes, NEW members \in (SUBSET SourceUsers) \cup {Absent},
           queue' = Append(queue, [class |-> g, members |-> members]),
           source' = [source EXCEPT ![g] = members],
           UNCHANGED <<target, lost, ldap>>
    PROVE  /\ queue' \in Seq(Items)
           /\ LastIsCurrent'
           /\ ClassConverges'
           /\ queue # <<>> => queue' # <<>> /\ cur' = cur
<1> DEFINE e == [class |-> g, members |-> members]
<1>1. e \in Items
      BY DEF Items
<1>2. /\ queue' \in Seq(Items) /\ queue' # <<>>
      /\ Len(queue') = Len(queue) + 1
      /\ \A i \in 1..Len(queue) : queue'[i] = queue[i]
      /\ queue'[Len(queue) + 1] = e
      /\ queue # <<>> => Head(queue') = Head(queue)
      BY <1>1, AppendProperties, EmptySeq, LenProperties, HeadTailProperties DEF TypeOK
<1>3. Len(queue) \in Nat /\ \A i \in 1..Len(queue) : queue[i] \in Items
      BY LenProperties, ElementOfSeq DEF TypeOK
<1> HIDE DEF e
<1>4. e.class = g /\ e.members = members
      BY DEF e
<1>5. LastIsCurrent'
  <2> SUFFICES ASSUME NEW i \in 1..Len(queue'),
                      \A j \in 1..Len(queue') : queue'[j].class = queue'[i].class => j <= i
               PROVE  queue'[i].members = source'[queue'[i].class]
      BY DEF LastIsCurrent
  <2>1. CASE i = Len(queue) + 1
        BY <2>1, <1>2, <1>4 DEF TypeOK
  <2>2. CASE i # Len(queue) + 1
    <3>1. i \in 1..Len(queue) /\ Len(queue) + 1 \in 1..Len(queue')
          BY <2>2, <1>2, <1>3
    <3>2. queue[i].class # g
          BY <3>1, <1>2, <1>3, <1>4
    <3>3. \A j \in 1..Len(queue) : j \in 1..Len(queue') /\ queue'[j] = queue[j]
          BY <1>2, <1>3
    <3>4. \A j \in 1..Len(queue) : queue[j].class = queue[i].class => j <= i
          BY <3>1, <3>3
    <3>5. queue[i].members = source[queue[i].class]
          BY <3>1, <3>4 DEF LastIsCurrent
    <3>6. queue[i].class \in Classes
          BY <3>1, <1>3 DEF Items
    <3> QED BY <3>1, <3>2, <3>3, <3>5, <3>6 DEF TypeOK
  <2> QED BY <2>1, <2>2
<1>6. ClassConverges'
  <2> SUFFICES ASSUME NEW h \in Classes \ UnknownSchools, Settled(h)', h \notin lost'
               PROVE  /\ source'[h] = Absent <=> target'[h] = Absent
                      /\ source'[h] # Absent =>
                            target'[h] \cap Pupils \cap ldap' = source'[h] \cap Pupils
      BY DEF ClassConverges
  <2>1. Len(queue) + 1 \in 1..Len(queue')
        BY <1>2, <1>3
  <2>2. h # g
        BY <2>1, <1>2, <1>4 DEF Settled
  <2>3. \A j \in 1..Len(queue) : j \in 1..Len(queue') /\ queue'[j] = queue[j]
        BY <1>2, <1>3
  <2>4. source'[h] = source[h]
        BY <2>2 DEF TypeOK
  <2>5. Settled(h)
        BY <2>3, <2>4 DEF Settled
  <2> QED BY <2>4, <2>5 DEF ClassConverges
<1> QED BY <1>2, <1>5, <1>6 DEF cur

(***************************************************************************)
(* The first object leaves the queue.  If it was the last one of its class *)
(* the class is settled now, unless a member was removed from the source,  *)
(* and must agree with the source.                                         *)
(***************************************************************************)
LEMMA TailKeepsQueue ==
    ASSUME TypeOK, LastIsCurrent, ClassConverges, queue # <<>>,
           queue' = Tail(queue), UNCHANGED <<source, target, ldap>>,
           lost \subseteq lost',
           /\ cur.class \in Classes \ UnknownSchools /\ cur.class \notin lost'
           /\ cur.members = Absent \/ cur.members \subseteq ldap
           => Agrees(cur.class, cur.members)
    PROVE  queue' \in Seq(Items) /\ LastIsCurrent' /\ ClassConverges'
<1>1. /\ queue' \in Seq(Items)
      /\ Len(queue') = Len(queue) - 1
      /\ \A i \in 1..Len(queue') : queue'[i] = queue[i + 1]
      BY HeadTailProperties DEF TypeOK
<1>2. /\ Len(queue) \in Nat /\ 1 \in 1..Len(queue) /\ cur = queue[1] /\ cur \in Items
      BY HeadIsFirst
<1>3. \A i \in 1..Len(queue) : queue[i] \in Items
      BY LenProperties, ElementOfSeq DEF TypeOK
<1>4. LastIsCurrent'
  <2> SUFFICES ASSUME NEW i \in 1..Len(queue'),
                      \A j \in 1..Len(queue') : queue'[j].class = queue'[i].class => j <= i
               PROVE  queue'[i].members = source'[queue'[i].class]
      BY DEF LastIsCurrent
  <2>1. i + 1 \in 1..Len(queue) /\ queue'[i] = queue[i + 1]
        BY <1>1, <1>2
  <2>2. ASSUME NEW j \in 1..Len(queue), queue[j].class = queue[i + 1].class
        PROVE  j <= i + 1
    <3>1. CASE j = 1
          BY <3>1, <1>1, <1>2
    <3>2. CASE j # 1
      <4>1. j - 1 \in 1..Len(queue') /\ queue'[j - 1] = queue[j]
            BY <3>2, <1>1, <1>2
      <4>2. j - 1 <= i
            BY <4>1, <2>1, <2>2
      <4> QED BY <4>2, <1>1, <1>2
    <3> QED BY <3>1, <3>2
  <2>3. queue[i + 1].members = source[queue[i + 1].class]
        BY <2>1, <2>2 DEF LastIsCurrent
  <2> QED BY <2>1, <2>3
<1>5. ClassConverges'
  <2> SUFFICES ASSUME NEW h \in Classes \ UnknownSchools, Settled(h)', h \notin lost'
               PROVE  /\ source'[h] = Absent <=> target'[h] = Absent
                      /\ source'[h] # Absent =>
                            target'[h] \cap Pupils \cap ldap' = source'[h] \cap Pupils
      BY DEF ClassConverges
  <2>1. ASSUME NEW j \in 1..Len(queue), j # 1
        PROVE  queue[j].class # h
    <3>1. j - 1 \in 1..Len(queue') /\ queue'[j - 1] = queue[j]
          BY <2>1, <1>1, <1>2
    <3> QED BY <3>1 DEF Settled
  <2>2. source[h] = Absent \/ source[h] \subseteq ldap
        BY DEF Settled
  <2>3. CASE h = cur.class
    <3>1. \A j \in 1..Len(queue) : queue[j].class = queue[1].class => j <= 1
          BY <2>1, <2>3, <1>2
    <3>2. cur.members = source[h]
          BY <3>1, <2>3, <1>2 DEF LastIsCurrent
    <3>3. Agrees(h, source[h])
          BY <3>2, <2>2, <2>3
    <3> QED BY <3>3, <2>2 DEF Agrees
  <2>4. CASE h # cur.class
    <3>1. Settled(h)
          BY <2>1, <2>2, <2>4, <1>2 DEF Settled
    <3>2. h \notin lost
          OBVIOUS
    <3> QED BY <3>1, <3>2 DEF ClassConverges
  <2> QED BY <2>3, <2>4
<1> QED BY <1>1, <1>4, <1>5

-----------------------------------------------------------------------------
(* The invariant. *)

\* The bounds are numbers.
LEMMA Limits ==
    /\ MaxChanges \in Nat /\ MaxTargetChanges \in Nat
    /\ MaxFaults \in Nat /\ MaxCancels \in Nat
BY BoundsAssumption

\* It holds at first.
LEMMA InitInv ==
    Init => IndInv
<1> SUFFICES ASSUME Init PROVE IndInv
    OBVIOUS
<1>1. Len(queue) = 0 /\ queue \in Seq(Items)
      BY EmptySeq DEF Init
<1>2. /\ target \in [Classes -> (SUBSET accounts) \cup {Absent}]
      /\ source \in [Classes -> (SUBSET SourceUsers) \cup {Absent}]
      /\ \A g \in UnknownSchools : target[g] = Absent
      BY ClassesAssumption DEF Init
<1>3. /\ changes \in 0..MaxChanges /\ targetChanges \in 0..MaxTargetChanges
      /\ faults \in 0..MaxFaults /\ cancels \in 0..MaxCancels
      BY Limits DEF Init
<1>4. /\ users \in SUBSET Usernames /\ remote \in SUBSET Usernames /\ lost \in SUBSET Classes
      /\ found \in BOOLEAN /\ misled \in BOOLEAN /\ partial \in BOOLEAN
      /\ ldap \in SUBSET SourceUsers /\ accounts \in SUBSET Usernames
      BY DEF Init
<1>5. TypeOK
      BY <1>1, <1>2, <1>3 DEF Init, TypeOK
<1> QED BY <1>1, <1>5 DEF Init, IndInv, WhereItIs, LastIsCurrent, LocalMembersInHand,
           UsersAreTheMembers, MembersHaveAccounts, GoneIsLost, DoneIsCarriedOut, ClassConverges

\* Every step keeps it.
LEMMA NextInv ==
    IndInv /\ [Next]_vars => IndInv'
<1> SUFFICES ASSUME IndInv, [Next]_vars PROVE IndInv'
    OBVIOUS
<1> USE ClassesAssumption, UsersAssumption, Limits, AbsentAssumption
<1> USE DEF IndInv
<1>1. ASSUME NEW g \in Classes, NEW members \in (SUBSET ldap) \cup {Absent}, ClassChanges(g, members)
      PROVE  IndInv'
  <2>1. members \in (SUBSET SourceUsers) \cup {Absent}
        BY <1>1 DEF ClassChanges, TypeOK
  <2>2. /\ queue' \in Seq(Items) /\ LastIsCurrent' /\ ClassConverges'
        /\ queue # <<>> => queue' # <<>> /\ cur' = cur
        BY <1>1, <2>1, AppendKeepsQueue DEF ClassChanges
  <2>3. TypeOK'
        BY <1>1, <2>2 DEF ClassChanges, handlerVars, boundVars, TypeOK
  <2> QED BY <1>1, <2>2, <2>3 DEF ClassChanges, handlerVars, WhereItIs, LocalMembersInHand,
             UsersAreTheMembers, MembersHaveAccounts, GoneIsLost, DoneIsCarriedOut, Agrees
<1>2. ASSUME NEW u \in SourceUsers, UserRemoved(u) PROVE IndInv'
  <2>1. pc # "idle" => queue # <<>> /\ cur \in Items /\ ~Settled(cur.class)
        BY AtWorkUnsettled DEF WhereItIs
  <2>2. TypeOK'
        BY <1>2 DEF UserRemoved, handlerVars, boundVars, TypeOK
  <2>3. LastIsCurrent' /\ cur' = cur
        BY <1>2 DEF UserRemoved, LastIsCurrent, cur
  <2>4. ClassConverges'
        BY <1>2 DEF UserRemoved, ClassConverges, Settled
  <2>5. WhereItIs'
        BY <1>2, <2>3 DEF UserRemoved, handlerVars, WhereItIs
  <2>6. LocalMembersInHand' /\ UsersAreTheMembers'
        BY <1>2, <2>3 DEF UserRemoved, handlerVars, LocalMembersInHand, UsersAreTheMembers
  <2>7. MembersHaveAccounts' /\ GoneIsLost'
        BY <1>2, <2>3 DEF UserRemoved, handlerVars, MembersHaveAccounts, GoneIsLost
  <2>8. DoneIsCarriedOut'
        BY <1>2, <2>3 DEF UserRemoved, handlerVars, DoneIsCarriedOut, Agrees
  <2> QED BY <2>2, <2>3, <2>4, <2>5, <2>6, <2>7, <2>8
<1>3. ASSUME NEW u \in SourceUsers, NEW g \in Classes, MemberLeaves(u, g) PROVE IndInv'
  <2>1. source[g] \ {u} \in (SUBSET SourceUsers) \cup {Absent}
        BY <1>3 DEF MemberLeaves, TypeOK
  <2>2. /\ queue' \in Seq(Items) /\ LastIsCurrent' /\ ClassConverges'
        /\ queue # <<>> => queue' # <<>> /\ cur' = cur
        BY <1>3, <2>1, AppendKeepsQueue DEF MemberLeaves
  <2>3. TypeOK'
        BY <1>3, <2>2 DEF MemberLeaves, handlerVars, boundVars, TypeOK
  <2> QED BY <1>3, <2>2, <2>3 DEF MemberLeaves, handlerVars, WhereItIs, LocalMembersInHand,
             UsersAreTheMembers, MembersHaveAccounts, GoneIsLost, DoneIsCarriedOut, Agrees
<1>4. ASSUME NEW g \in Classes, NEW u \in Usernames, SchoolEdits(g, u) PROVE IndInv'
  <2>1. pc # "idle" => queue # <<>> /\ cur \in Items /\ ~Settled(cur.class)
        BY AtWorkUnsettled DEF WhereItIs
  <2>2. TypeOK'
        BY <1>4 DEF SchoolEdits, sourceVars, handlerVars, TypeOK
  <2>3. LastIsCurrent' /\ cur' = cur
        BY <1>4 DEF SchoolEdits, sourceVars, LastIsCurrent, cur
  <2>4. ClassConverges'
        BY <1>4 DEF SchoolEdits, sourceVars, ClassConverges, Settled, TypeOK
  <2>5. WhereItIs'
        BY <1>4, <2>3 DEF SchoolEdits, sourceVars, handlerVars, WhereItIs
  <2>6. LocalMembersInHand' /\ UsersAreTheMembers'
        BY <1>4, <2>3 DEF SchoolEdits, sourceVars, handlerVars, LocalMembersInHand,
           UsersAreTheMembers
  <2>7. MembersHaveAccounts' /\ GoneIsLost'
        BY <1>4, <2>3 DEF SchoolEdits, handlerVars, TypeOK, MembersHaveAccounts, GoneIsLost
  <2>8. DoneIsCarriedOut'
        BY <1>4, <2>3 DEF SchoolEdits, sourceVars, handlerVars, TypeOK, DoneIsCarriedOut, Agrees
  <2> QED BY <2>2, <2>3, <2>4, <2>5, <2>6, <2>7, <2>8
<1>5. ASSUME NEW g \in Classes, SchoolDeletes(g) PROVE IndInv'
  <2>1. pc # "idle" => queue # <<>> /\ cur \in Items /\ ~Settled(cur.class)
        BY AtWorkUnsettled DEF WhereItIs
  <2>2. TypeOK'
        BY <1>5 DEF SchoolDeletes, sourceVars, handlerVars, TypeOK
  <2>3. LastIsCurrent' /\ cur' = cur
        BY <1>5 DEF SchoolDeletes, sourceVars, LastIsCurrent, cur
  <2>4. ClassConverges'
        BY <1>5 DEF SchoolDeletes, sourceVars, ClassConverges, Settled
  <2>5. WhereItIs'
        BY <1>5, <2>3 DEF SchoolDeletes, sourceVars, handlerVars, WhereItIs
  <2>6. LocalMembersInHand' /\ UsersAreTheMembers'
        BY <1>5, <2>3 DEF SchoolDeletes, sourceVars, handlerVars, LocalMembersInHand,
           UsersAreTheMembers
  <2>7. MembersHaveAccounts' /\ GoneIsLost'
        BY <1>5, <2>3 DEF SchoolDeletes, handlerVars, MembersHaveAccounts, GoneIsLost
  <2>8. DoneIsCarriedOut'
        BY <1>5, <2>3 DEF SchoolDeletes, sourceVars, handlerVars, DoneIsCarriedOut, Agrees
  <2> QED BY <2>2, <2>3, <2>4, <2>5, <2>6, <2>7, <2>8
<1>6. ASSUME NEW u \in SourceUsers, AccountDeleted(u) PROVE IndInv'
  <2>1. pc # "idle" => queue # <<>> /\ cur \in Items /\ ~Settled(cur.class)
        BY AtWorkUnsettled DEF WhereItIs
  <2>2. TypeOK'
        BY <1>6 DEF AccountDeleted, Without, sourceVars, handlerVars, boundVars, TypeOK
  <2>3. LastIsCurrent' /\ cur' = cur
        BY <1>6 DEF AccountDeleted, sourceVars, LastIsCurrent, cur
  <2>4. ClassConverges'
        BY <1>6 DEF AccountDeleted, Without, sourceVars, ClassConverges, Settled, TypeOK
  <2>5. WhereItIs'
        BY <1>6 DEF AccountDeleted, handlerVars, WhereItIs
  <2>6. LocalMembersInHand' /\ UsersAreTheMembers'
        BY <1>6 DEF AccountDeleted, handlerVars, LocalMembersInHand, UsersAreTheMembers
  <2>7. MembersHaveAccounts' /\ GoneIsLost'
        BY <1>6 DEF AccountDeleted, handlerVars, MembersHaveAccounts, GoneIsLost
  <2>8. DoneIsCarriedOut'
        BY <1>6 DEF AccountDeleted, handlerVars, DoneIsCarriedOut
  <2> QED BY <2>2, <2>3, <2>4, <2>5, <2>6, <2>7, <2>8
<1>7. ASSUME NEW u \in SourceUsers, AccountMissing(u) PROVE IndInv'
  <2>1. pc # "idle" => queue # <<>> /\ cur \in Items /\ ~Settled(cur.class)
        BY AtWorkUnsettled DEF WhereItIs
  <2>2. TypeOK'
        BY <1>7 DEF AccountMissing, Without, sourceVars, handlerVars, TypeOK
  <2>3. LastIsCurrent' /\ cur' = cur
        BY <1>7 DEF AccountMissing, sourceVars, LastIsCurrent, cur
  <2>4. ClassConverges'
        BY <1>7 DEF AccountMissing, Without, sourceVars, ClassConverges, Settled, TypeOK
  <2>5. WhereItIs'
        BY <1>7, <2>3 DEF AccountMissing, sourceVars, handlerVars, WhereItIs
  <2>6. LocalMembersInHand' /\ UsersAreTheMembers'
        BY <1>7, <2>3 DEF AccountMissing, sourceVars, handlerVars, LocalMembersInHand,
           UsersAreTheMembers
  <2>7. MembersHaveAccounts' /\ GoneIsLost'
    <3>1. \A g \in Classes : target'[g] = Absent <=> target[g] = Absent
      <4>1. \A g \in Classes : target[g] # Absent => target[g] \ {u} \in SUBSET Usernames
            BY DEF TypeOK
      <4> QED BY <1>7, <4>1 DEF AccountMissing, Without
    <3>2. lost \subseteq lost' /\ (pc # "idle" /\ u \in remote => cur.class \in lost')
          BY <1>7, <2>1 DEF AccountMissing, cur, Items
    <3>3. GoneIsLost'
          BY <1>7, <2>1, <2>3, <3>1 DEF AccountMissing, handlerVars, GoneIsLost, Items
    <3>4. MembersHaveAccounts'
          BY <1>7, <2>3, <3>2 DEF AccountMissing, handlerVars, MembersHaveAccounts
    <3> QED BY <3>3, <3>4
  <2>8. DoneIsCarriedOut'
        BY <1>7, <2>1, <2>3 DEF AccountMissing, Without, sourceVars, handlerVars, TypeOK, Items,
           DoneIsCarriedOut, Agrees
  <2> QED BY <2>2, <2>3, <2>4, <2>5, <2>6, <2>7, <2>8
<1>8. ASSUME NEW u \in SourceUsers, AccountCreated(u) PROVE IndInv'
  <2>1. pc # "idle" => queue # <<>> /\ cur \in Items /\ ~Settled(cur.class)
        BY AtWorkUnsettled DEF WhereItIs
  <2>2. TypeOK'
        BY <1>8 DEF AccountCreated, sourceVars, handlerVars, boundVars, TypeOK, Usernames
  <2>3. LastIsCurrent' /\ cur' = cur
        BY <1>8 DEF AccountCreated, sourceVars, LastIsCurrent, cur
  <2>4. ClassConverges'
        BY <1>8 DEF AccountCreated, sourceVars, ClassConverges, Settled
  <2>5. WhereItIs'
        BY <1>8 DEF AccountCreated, handlerVars, WhereItIs
  <2>6. LocalMembersInHand' /\ UsersAreTheMembers'
        BY <1>8 DEF AccountCreated, handlerVars, LocalMembersInHand, UsersAreTheMembers
  <2>7. MembersHaveAccounts' /\ GoneIsLost'
        BY <1>8 DEF AccountCreated, handlerVars, MembersHaveAccounts, GoneIsLost
  <2>8. DoneIsCarriedOut'
        BY <1>8 DEF AccountCreated, handlerVars, DoneIsCarriedOut
  <2> QED BY <2>2, <2>3, <2>4, <2>5, <2>6, <2>7, <2>8
<1>9. CASE HandleListenerObject
  <2>1. pc # "idle" => queue # <<>> /\ cur \in Items /\ ~Settled(cur.class)
        BY AtWorkUnsettled DEF WhereItIs
  <2>2. TypeOK'
        BY <1>9 DEF HandleListenerObject, sourceVars, boundVars, TypeOK
  <2>3. LastIsCurrent' /\ cur' = cur
        BY <1>9 DEF HandleListenerObject, sourceVars, LastIsCurrent, cur
  <2>4. ClassConverges'
        BY <1>9 DEF HandleListenerObject, sourceVars, ClassConverges, Settled
  <2>5. WhereItIs'
        BY <1>9 DEF HandleListenerObject, WhereItIs
  <2>6. LocalMembersInHand' /\ UsersAreTheMembers'
        BY <1>9 DEF HandleListenerObject, LocalMembersInHand, UsersAreTheMembers
  <2>7. MembersHaveAccounts' /\ GoneIsLost'
        BY <1>9 DEF HandleListenerObject, MembersHaveAccounts, GoneIsLost
  <2>8. DoneIsCarriedOut'
        BY <1>9 DEF HandleListenerObject, DoneIsCarriedOut
  <2> QED BY <2>2, <2>3, <2>4, <2>5, <2>6, <2>7, <2>8
<1>10. CASE CheckPreconditions
  <2>1. pc # "idle" => queue # <<>> /\ cur \in Items /\ ~Settled(cur.class)
        BY AtWorkUnsettled DEF WhereItIs
  <2>2. TypeOK'
        BY <1>10, <2>1 DEF CheckPreconditions, LocalUsernames, sourceVars, boundVars, TypeOK,
           Items, Usernames
  <2>3. LastIsCurrent' /\ cur' = cur
        BY <1>10 DEF CheckPreconditions, sourceVars, LastIsCurrent, cur
  <2>4. ClassConverges'
        BY <1>10 DEF CheckPreconditions, sourceVars, ClassConverges, Settled
  <2>5. WhereItIs'
        BY <1>10, <2>3 DEF CheckPreconditions, PreconditionsMet, sourceVars, WhereItIs
  <2>6. LocalMembersInHand' /\ UsersAreTheMembers'
        BY <1>10, <2>3 DEF CheckPreconditions, LocalUsernames, sourceVars, LocalMembersInHand,
           UsersAreTheMembers
  <2>7. MembersHaveAccounts' /\ GoneIsLost'
        BY <1>10 DEF CheckPreconditions, MembersHaveAccounts, GoneIsLost, WhereItIs
  <2>8. DoneIsCarriedOut'
        BY <1>10 DEF CheckPreconditions, DoneIsCarriedOut
  <2> QED BY <2>2, <2>3, <2>4, <2>5, <2>6, <2>7, <2>8
<1>11. CASE SkipObject
  <2>1. queue # <<>> /\ cur \in Items
        BY <1>11, AtWorkUnsettled DEF SkipObject, WhereItIs
  <2>2. queue' \in Seq(Items) /\ LastIsCurrent' /\ ClassConverges'
        BY <1>11, <2>1, TailKeepsQueue DEF SkipObject, PreconditionsMet, EndHandling, sourceVars
  <2>3. TypeOK'
        BY <1>11, <2>2 DEF SkipObject, EndHandling, sourceVars, boundVars, TypeOK
  <2> QED BY <1>11, <2>2, <2>3 DEF SkipObject, EndHandling, WhereItIs, LocalMembersInHand,
             UsersAreTheMembers, MembersHaveAccounts, GoneIsLost, DoneIsCarriedOut
<1>12. CASE LookUpMembers
  <2>1. pc # "idle" => queue # <<>> /\ cur \in Items /\ ~Settled(cur.class)
        BY AtWorkUnsettled DEF WhereItIs
  <2>2. TypeOK'
        BY <1>12 DEF LookUpMembers, sourceVars, boundVars, TypeOK
  <2>3. LastIsCurrent' /\ cur' = cur
        BY <1>12 DEF LookUpMembers, sourceVars, LastIsCurrent, cur
  <2>4. ClassConverges'
        BY <1>12 DEF LookUpMembers, sourceVars, ClassConverges, Settled
  <2>5. WhereItIs'
        BY <1>12, <2>3 DEF LookUpMembers, sourceVars, WhereItIs
  <2>6. LocalMembersInHand' /\ UsersAreTheMembers'
        BY <1>12 DEF LookUpMembers, LocalMembersInHand, UsersAreTheMembers
  <2>7. MembersHaveAccounts' /\ GoneIsLost'
        BY <1>12 DEF LookUpMembers, MembersHaveAccounts, GoneIsLost
  <2>8. DoneIsCarriedOut'
        BY <1>12 DEF LookUpMembers, DoneIsCarriedOut
  <2> QED BY <2>2, <2>3, <2>4, <2>5, <2>6, <2>7, <2>8
<1>13. CASE LookUpRaises
  <2>1. queue # <<>> /\ cur \in Items
        BY <1>13, AtWorkUnsettled DEF LookUpRaises, WhereItIs
  <2>2. queue' \in Seq(Items) /\ LastIsCurrent' /\ ClassConverges'
        BY <1>13, TailKeepsQueue DEF LookUpRaises, GetUser, EndHandling, sourceVars, WhereItIs
  <2>3. TypeOK'
        BY <1>13, <2>2 DEF LookUpRaises, EndHandling, sourceVars, boundVars, TypeOK
  <2> QED BY <1>13, <2>2, <2>3 DEF LookUpRaises, EndHandling, WhereItIs, LocalMembersInHand,
             UsersAreTheMembers, MembersHaveAccounts, GoneIsLost, DoneIsCarriedOut
<1>14. CASE GetRemoteUsernames
  <2>1. pc # "idle" => queue # <<>> /\ cur \in Items /\ ~Settled(cur.class)
        BY AtWorkUnsettled DEF WhereItIs
  <2>2. TypeOK'
        BY <1>14, <2>1 DEF GetRemoteUsernames, sourceVars, boundVars, TypeOK, Items
  <2>3. LastIsCurrent' /\ cur' = cur
        BY <1>14 DEF GetRemoteUsernames, sourceVars, LastIsCurrent, cur
  <2>4. ClassConverges'
        BY <1>14 DEF GetRemoteUsernames, sourceVars, ClassConverges, Settled
  <2>5. WhereItIs'
        BY <1>14, <2>3 DEF GetRemoteUsernames, sourceVars, WhereItIs
  <2>6. LocalMembersInHand' /\ UsersAreTheMembers'
        BY <1>14 DEF GetRemoteUsernames, LocalMembersInHand, UsersAreTheMembers
  <2>7. MembersHaveAccounts' /\ GoneIsLost'
        BY <1>14, <2>1 DEF GetRemoteUsernames, TypeOK, Items, MembersHaveAccounts, GoneIsLost
  <2>8. DoneIsCarriedOut'
        BY <1>14 DEF GetRemoteUsernames, DoneIsCarriedOut
  <2> QED BY <2>2, <2>3, <2>4, <2>5, <2>6, <2>7, <2>8
<1>15. CASE HandleAttrUsers
  <2>1. pc # "idle" => queue # <<>> /\ cur \in Items /\ ~Settled(cur.class)
        BY AtWorkUnsettled DEF WhereItIs
  <2>2. TypeOK'
        BY <1>15, <2>1 DEF HandleAttrUsers, UsersAttribute, LocalUsernames, sourceVars,
           boundVars, TypeOK, Items, Usernames
  <2>3. LastIsCurrent' /\ cur' = cur
        BY <1>15 DEF HandleAttrUsers, sourceVars, LastIsCurrent, cur
  <2>4. ClassConverges'
        BY <1>15 DEF HandleAttrUsers, sourceVars, ClassConverges, Settled
  <2>5. WhereItIs'
        BY <1>15, <2>3 DEF HandleAttrUsers, WhereItIs
  <2>6. LocalMembersInHand' /\ UsersAreTheMembers'
        BY <1>15, <2>1, <2>3 DEF HandleAttrUsers, UsersAttribute, LocalUsernames, GetUser,
           CheckUserIgnore, sourceVars, TypeOK, Items, LocalMembersInHand,
           UsersAreTheMembers, SourceUsers
  <2>7. MembersHaveAccounts' /\ GoneIsLost'
        BY <1>15, <2>3 DEF HandleAttrUsers, MembersHaveAccounts, GoneIsLost
  <2>8. DoneIsCarriedOut'
        BY <1>15 DEF HandleAttrUsers, DoneIsCarriedOut
  <2> QED BY <2>2, <2>3, <2>4, <2>5, <2>6, <2>7, <2>8
<1>16. ASSUME NEW refused \in SUBSET (remote \cap ldap), BindRefused(refused) PROVE IndInv'
  <2>1. pc # "idle" => queue # <<>> /\ cur \in Items /\ ~Settled(cur.class)
        BY AtWorkUnsettled DEF WhereItIs
  <2>2. TypeOK'
        BY <1>16, <2>1 DEF BindRefused, UsersAttribute, LocalUsernames, sourceVars, TypeOK,
           Items, Usernames
  <2>3. LastIsCurrent' /\ cur' = cur
        BY <1>16 DEF BindRefused, sourceVars, LastIsCurrent, cur
  <2>4. ClassConverges'
        BY <1>16 DEF BindRefused, sourceVars, ClassConverges, Settled
  <2>5. WhereItIs'
        BY <1>16, <2>3 DEF BindRefused, WhereItIs
  <2>6. LocalMembersInHand' /\ UsersAreTheMembers'
        BY <1>16, <2>1, <2>3 DEF BindRefused, UsersAttribute, LocalUsernames, GetUser,
           CheckUserIgnore, TypeOK, Items, LocalMembersInHand, UsersAreTheMembers,
           SourceUsers
  <2>7. MembersHaveAccounts' /\ GoneIsLost'
        BY <1>16, <2>3 DEF BindRefused, MembersHaveAccounts, GoneIsLost
  <2>8. DoneIsCarriedOut'
        BY <1>16 DEF BindRefused, DoneIsCarriedOut
  <2> QED BY <2>2, <2>3, <2>4, <2>5, <2>6, <2>7, <2>8
<1>17. CASE Search
  <2>1. pc # "idle" => queue # <<>> /\ cur \in Items /\ ~Settled(cur.class)
        BY AtWorkUnsettled DEF WhereItIs
  <2>2. TypeOK'
        BY <1>17 DEF Search, sourceVars, boundVars, TypeOK
  <2>3. LastIsCurrent' /\ cur' = cur
        BY <1>17 DEF Search, sourceVars, LastIsCurrent, cur
  <2>4. ClassConverges'
        BY <1>17, <2>1 DEF Search, sourceVars, ClassConverges, Settled
  <2>5. WhereItIs'
        BY <1>17, <2>3 DEF Search, WhereItIs
  <2>6. LocalMembersInHand' /\ UsersAreTheMembers'
        BY <1>17, <2>3 DEF Search, sourceVars, LocalMembersInHand, UsersAreTheMembers
  <2>7. MembersHaveAccounts' /\ GoneIsLost'
        BY <1>17, <2>3 DEF Search, MembersHaveAccounts, GoneIsLost
  <2>8. DoneIsCarriedOut'
        BY <1>17, <2>3 DEF Search, DoneIsCarriedOut, Agrees
  <2> QED BY <2>2, <2>3, <2>4, <2>5, <2>6, <2>7, <2>8
<1>18. CASE Get
  <2>1. pc # "idle" => queue # <<>> /\ cur \in Items /\ ~Settled(cur.class)
        BY AtWorkUnsettled DEF WhereItIs
  <2>2. TypeOK'
        BY <1>18 DEF Get, sourceVars, boundVars, TypeOK
  <2>3. LastIsCurrent' /\ cur' = cur
        BY <1>18 DEF Get, sourceVars, LastIsCurrent, cur
  <2>4. ClassConverges'
        BY <1>18 DEF Get, sourceVars, ClassConverges, Settled
  <2>5. WhereItIs'
        BY <1>18, <2>3 DEF Get, WhereItIs
  <2>6. LocalMembersInHand' /\ UsersAreTheMembers'
        BY <1>18, <2>3 DEF Get, sourceVars, LocalMembersInHand, UsersAreTheMembers
  <2>7. MembersHaveAccounts' /\ GoneIsLost'
        BY <1>18, <2>3 DEF Get, MembersHaveAccounts, GoneIsLost
  <2>8. DoneIsCarriedOut'
        BY <1>18 DEF Get, DoneIsCarriedOut
  <2> QED BY <2>2, <2>3, <2>4, <2>5, <2>6, <2>7, <2>8
<1>19. CASE ClassGone
  <2>1. queue # <<>> /\ cur \in Items
        BY <1>19, AtWorkUnsettled DEF ClassGone, WhereItIs
  <2>2. queue' \in Seq(Items) /\ LastIsCurrent' /\ ClassConverges'
        BY <1>19, TailKeepsQueue DEF ClassGone, EndHandling, sourceVars, WhereItIs, GoneIsLost
  <2>3. TypeOK'
        BY <1>19, <2>2 DEF ClassGone, EndHandling, sourceVars, boundVars, TypeOK
  <2> QED BY <1>19, <2>2, <2>3 DEF ClassGone, EndHandling, WhereItIs, LocalMembersInHand,
             UsersAreTheMembers, MembersHaveAccounts, GoneIsLost, DoneIsCarriedOut
<1>20. CASE Save
  <2>1. pc # "idle" => queue # <<>> /\ cur \in Items /\ ~Settled(cur.class)
        BY AtWorkUnsettled DEF WhereItIs
  <2>2. TypeOK'
        BY <1>20 DEF Save, NoObject, sourceVars, boundVars, TypeOK, WhereItIs
  <2>3. LastIsCurrent' /\ cur' = cur
        BY <1>20 DEF Save, sourceVars, LastIsCurrent, cur
  <2>4. ClassConverges'
        BY <1>20, <2>1 DEF Save, sourceVars, ClassConverges, Settled
  <2>5. WhereItIs'
        BY <1>20, <2>3 DEF Save, WhereItIs
  <2>6. LocalMembersInHand' /\ UsersAreTheMembers'
        BY <1>20 DEF Save, LocalMembersInHand, UsersAreTheMembers
  <2>7. MembersHaveAccounts' /\ GoneIsLost'
        BY <1>20 DEF Save, MembersHaveAccounts, GoneIsLost
  <2>8. DoneIsCarriedOut'
        BY <1>20, <2>3 DEF Save, sourceVars, TypeOK, DoneIsCarriedOut, Agrees,
           UsersAreTheMembers, WhereItIs
  <2> QED BY <2>2, <2>3, <2>4, <2>5, <2>6, <2>7, <2>8
<1>21. CASE SaveFindsNoObject
  <2>1. pc # "idle" => queue # <<>> /\ cur \in Items /\ ~Settled(cur.class)
        BY AtWorkUnsettled DEF WhereItIs
  <2>2. TypeOK'
        BY <1>21, <2>1 DEF SaveFindsNoObject, sourceVars, boundVars, TypeOK, Items
  <2>3. LastIsCurrent' /\ cur' = cur
        BY <1>21 DEF SaveFindsNoObject, sourceVars, LastIsCurrent, cur
  <2>4. ClassConverges'
        BY <1>21 DEF SaveFindsNoObject, sourceVars, ClassConverges, Settled
  <2>5. WhereItIs'
        BY <1>21, <2>3 DEF SaveFindsNoObject, WhereItIs
  <2>6. LocalMembersInHand' /\ UsersAreTheMembers'
        BY <1>21 DEF SaveFindsNoObject, LocalMembersInHand, UsersAreTheMembers
  <2>7. MembersHaveAccounts' /\ GoneIsLost'
        BY <1>21 DEF SaveFindsNoObject, MembersHaveAccounts, GoneIsLost
  <2>8. DoneIsCarriedOut'
        BY <1>21, <2>3 DEF SaveFindsNoObject, NoObject, sourceVars, DoneIsCarriedOut,
           UsersAreTheMembers, MembersHaveAccounts, GoneIsLost, WhereItIs
  <2> QED BY <2>2, <2>3, <2>4, <2>5, <2>6, <2>7, <2>8
<1>22. CASE Delete
  <2>1. pc # "idle" => queue # <<>> /\ cur \in Items /\ ~Settled(cur.class)
        BY AtWorkUnsettled DEF WhereItIs
  <2>2. TypeOK'
    <3>1. cur.class \in Classes /\ target' = [target EXCEPT ![cur.class] = Absent]
          BY <1>22 DEF Delete, WhereItIs
    <3>2. /\ target' \in [Classes -> (SUBSET accounts) \cup {Absent}]
          /\ \A h \in UnknownSchools : target'[h] = Absent
          BY <3>1 DEF TypeOK
    <3> QED BY <1>22 DEF Delete, TypeOK, sourceVars, boundVars
  <2>3. LastIsCurrent' /\ cur' = cur
        BY <1>22 DEF Delete, sourceVars, LastIsCurrent, cur
  <2>4. ClassConverges'
        BY <1>22, <2>1 DEF Delete, sourceVars, ClassConverges, Settled
  <2>5. WhereItIs'
        BY <1>22, <2>3 DEF Delete, WhereItIs
  <2>6. LocalMembersInHand' /\ UsersAreTheMembers'
        BY <1>22 DEF Delete, LocalMembersInHand, UsersAreTheMembers
  <2>7. MembersHaveAccounts' /\ GoneIsLost'
        BY <1>22 DEF Delete, MembersHaveAccounts, GoneIsLost
  <2>8. DoneIsCarriedOut'
        BY <1>22, <2>3 DEF Delete, TypeOK, DoneIsCarriedOut, Agrees, WhereItIs
  <2> QED BY <2>2, <2>3, <2>4, <2>5, <2>6, <2>7, <2>8
<1>23. CASE Done
  <2>1. queue # <<>> /\ cur \in Items
        BY <1>23, AtWorkUnsettled DEF Done, WhereItIs
  <2>2. queue' \in Seq(Items) /\ LastIsCurrent' /\ ClassConverges'
        BY <1>23, <2>1, TailKeepsQueue DEF Done, EndHandling, sourceVars, DoneIsCarriedOut
  <2>3. TypeOK'
        BY <1>23, <2>2 DEF Done, EndHandling, sourceVars, boundVars, TypeOK
  <2> QED BY <1>23, <2>2, <2>3 DEF Done, EndHandling, WhereItIs, LocalMembersInHand,
             UsersAreTheMembers, MembersHaveAccounts, GoneIsLost, DoneIsCarriedOut
<1>24. CASE Fault
  <2>1. queue # <<>> /\ cur \in Items
        BY <1>24, AtWorkUnsettled DEF Fault, WhereItIs
  <2>2. queue' \in Seq(Items) /\ LastIsCurrent' /\ ClassConverges'
        BY <1>24, <2>1, TailKeepsQueue DEF Fault, EndHandling, sourceVars
  <2>3. TypeOK'
    <3>1. faults' \in 0..MaxFaults /\ lost' \in SUBSET Classes
          BY <1>24, <2>1 DEF Fault, TypeOK, Items
    <3> QED BY <3>1, <1>24, <2>2 DEF Fault, EndHandling, sourceVars, TypeOK
  <2> QED BY <1>24, <2>2, <2>3 DEF Fault, EndHandling, WhereItIs, LocalMembersInHand,
             UsersAreTheMembers, MembersHaveAccounts, GoneIsLost, DoneIsCarriedOut
<1>25. CASE Cancel
  <2>1. pc # "idle" => queue # <<>> /\ cur \in Items /\ ~Settled(cur.class)
        BY AtWorkUnsettled DEF WhereItIs
  <2>2. TypeOK'
    <3>1. cancels' \in 0..MaxCancels
          BY <1>25 DEF Cancel, TypeOK
    <3> QED BY <3>1, <1>25 DEF Cancel, sourceVars, TypeOK
  <2>3. LastIsCurrent' /\ cur' = cur
        BY <1>25 DEF Cancel, sourceVars, LastIsCurrent, cur
  <2>4. ClassConverges'
        BY <1>25 DEF Cancel, sourceVars, ClassConverges, Settled
  <2>5. WhereItIs'
        BY <1>25 DEF Cancel, WhereItIs
  <2>6. LocalMembersInHand' /\ UsersAreTheMembers'
        BY <1>25 DEF Cancel, LocalMembersInHand, UsersAreTheMembers
  <2>7. MembersHaveAccounts' /\ GoneIsLost'
        BY <1>25 DEF Cancel, MembersHaveAccounts, GoneIsLost
  <2>8. DoneIsCarriedOut'
        BY <1>25 DEF Cancel, DoneIsCarriedOut
  <2> QED BY <2>2, <2>3, <2>4, <2>5, <2>6, <2>7, <2>8
<1>26. CASE UNCHANGED vars
  <2>1. cur' = cur
        BY <1>26 DEF vars, cur
  <2> QED BY <1>26, <2>1 DEF vars, TypeOK, WhereItIs, LastIsCurrent, LocalMembersInHand,
             UsersAreTheMembers, MembersHaveAccounts, GoneIsLost, DoneIsCarriedOut,
             ClassConverges, Agrees, Settled
<1> QED BY <1>1, <1>2, <1>3, <1>4, <1>5, <1>6, <1>7, <1>8, <1>9, <1>10, <1>11, <1>12, <1>13,
           <1>14, <1>15, <1>16, <1>17, <1>18, <1>19, <1>20, <1>21, <1>22, <1>23, <1>24, <1>25,
           <1>26 DEF Next, HandlerStep

\* What the handler knows at each of its steps, and what the queue knows of the classes.
THEOREM Invariance == Spec => []IndInv
<1> QED BY InitInv, NextInv, PTL DEF Spec

-----------------------------------------------------------------------------
(* What follows from the invariant. *)

(***************************************************************************)
(* The types, and with them that no class exists on the target whose       *)
(* school does not, and that a class there has members with accounts only. *)
(***************************************************************************)
THEOREM TypeCorrect == Spec => []TypeOK
<1> QED BY Invariance, PTL DEF IndInv

(***************************************************************************)
(* A school class converges, see ClassConverges: once its changes are      *)
(* handled and nothing of them was lost to a failure, the target has the   *)
(* members of the source, as far as the connector is in charge of them.    *)
(***************************************************************************)
THEOREM ClassesConverge == Spec => []ClassConverges
<1> QED BY Invariance, PTL DEF IndInv

(***************************************************************************)
(* The partial group sync leaves the members alone that the target's       *)
(* school manages itself, see LocalMembersStay.                            *)
(***************************************************************************)
THEOREM LocalMembers == Spec => LocalMembersStay
<1> DEFINE Kept ==
        \A g \in Classes :
            partial /\ pc = "save" /\ target'[g] # target[g] /\ targetChanges' = targetChanges =>
                target'[g] \ Pupils = remote \ Pupils
<1>1. ASSUME IndInv, Next, NEW g \in Classes,
             partial, pc = "save", target'[g] # target[g], targetChanges' = targetChanges
      PROVE  target'[g] \ Pupils = remote \ Pupils
  <2>1. TypeOK /\ users \ Pupils = remote \ Pupils
        BY <1>1 DEF IndInv, WhereItIs, LocalMembersInHand
  <2>2. Save
    <3>1. target' # target /\ targetChanges' # targetChanges + 1
          BY <1>1, <2>1 DEF TypeOK
    <3> QED
        BY <1>1, <3>1 DEF Next, HandlerStep, ClassChanges, UserRemoved, MemberLeaves,
           SchoolEdits, SchoolDeletes, AccountDeleted, AccountMissing, AccountCreated,
           HandleListenerObject, CheckPreconditions, SkipObject, LookUpMembers,
           LookUpRaises, GetRemoteUsernames, HandleAttrUsers, BindRefused, Search, Get,
           ClassGone, SaveFindsNoObject, Delete, Done, Fault, Cancel
  <2>3. target'[g] = users
        BY <1>1, <2>2 DEF Save
  <2> QED BY <2>1, <2>3
<1>2. IndInv /\ [Next]_vars => [Kept]_vars
      BY <1>1
<1> QED BY <1>2, Invariance, PTL DEF Spec, LocalMembersStay
=============================================================================
