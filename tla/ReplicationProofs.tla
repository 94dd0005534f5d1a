--------------------------- MODULE ReplicationProofs ---------------------------
(***************************************************************************)
(* What the promises of Replication come to, for any objects, any contents *)
(* and any idea of what is right.  Agreement is not inductive: LastIsSaid  *)
(* adds that the last report of an object says what the source says, or    *)
(* something for which the same is right.                                  *)
(***************************************************************************)
EXTENDS Replication, SequenceTheorems, TLAPS

Reported == [of : Objects, says : Contents \cup {Absent}]

\* The variables have their types, as far as Agreement depends on it.
TypeOK ==
    /\ source \in [Objects -> Contents \cup {Absent}]
    /\ reports \in Seq(Reported)
    /\ fate \in [Objects -> Fates]

\* Nothing is reported of u after position i.
LastOf(u, i) == \A j \in (i + 1)..Len(reports) : reports[j].of # u

\* The last report of an object is as good as what the source says.
LastIsSaid ==
    \A u \in Objects : \A i \in 1..Len(reports) :
        reports[i].of = u /\ LastOf(u, i) => Right(u, reports[i].says) = Right(u, source[u])

IndInv == TypeOK /\ LastIsSaid /\ Agreement

\* At first nothing is said, and nothing is there.
LEMMA InitInductive ==
    ASSUME Init, \A u \in Objects : {} \in Right(u, Absent)
    PROVE  IndInv
<1>1. reports \in Seq(Reported) /\ Len(reports) = 0
      BY EmptySeq DEF Init
<1> QED BY <1>1 DEF Init, IndInv, TypeOK, LastIsSaid, Agreement, Fates

\* A new report becomes the last one of its object.
LEMMA ReportInductive ==
    ASSUME IndInv, NEW u \in Objects, Report(u)
    PROVE  IndInv'
<1> DEFINE r == [of |-> u, says |-> source'[u]]
<1>1. /\ r \in Reported /\ r.of = u /\ r.says = source'[u]
      BY DEF Report, Reported
<1>2. Len(reports) \in Nat /\ \A i \in 1..Len(reports) : reports[i] \in Reported
      BY LenProperties, ElementOfSeq DEF IndInv, TypeOK
<1> HIDE DEF r
<1>3. \A v \in Objects \ {u} : source'[v] = source[v]
      BY DEF Report
<1>4. CASE reports' = Append(reports, r)
  <2>1. /\ reports' \in Seq(Reported) /\ Len(reports') = Len(reports) + 1
        /\ \A i \in 1..Len(reports) : reports'[i] = reports[i]
        /\ reports'[Len(reports) + 1] = r
        BY <1>1, <1>4, AppendProperties DEF IndInv, TypeOK
  <2>2. Len(reports) + 1 \in 1..Len(reports')
        BY <1>2, <2>1
  <2>3. ASSUME NEW v \in Objects, NEW i \in 1..Len(reports'), reports'[i].of = v, LastOf(v, i)'
        PROVE  Right(v, reports'[i].says) = Right(v, source'[v])
    <3>1. CASE i = Len(reports) + 1
          BY <1>1, <2>1, <2>3, <3>1
    <3>2. CASE i \in 1..Len(reports)
      <4>1. Len(reports) + 1 \in (i + 1)..Len(reports')
            BY <1>2, <2>1, <3>2
      <4>2. v # u
            BY <1>1, <2>1, <2>3, <4>1 DEF LastOf
      <4>3. reports[i].of = v /\ LastOf(v, i)
            BY <1>2, <2>1, <2>3, <3>2 DEF LastOf
      <4> QED BY <1>3, <2>1, <3>2, <4>2, <4>3 DEF IndInv, LastIsSaid
    <3> QED BY <1>2, <2>1, <3>1, <3>2
  <2>4. Agreement'
    <3> SUFFICES ASSUME NEW v \in Objects, fate[v] = "kept",
                        \A i \in 1..Len(reports') : reports'[i].of # v
                 PROVE  there[v] \in Right(v, source'[v])
        BY DEF Agreement, Report
    <3>1. v # u
          BY <1>1, <2>1, <2>2
    <3>2. \A i \in 1..Len(reports) : i \in 1..Len(reports') /\ reports[i].of # v
          BY <1>2, <2>1
    <3> QED BY <1>3, <3>1, <3>2 DEF IndInv, Agreement
  <2> QED BY <2>1, <2>3, <2>4 DEF IndInv, TypeOK, LastIsSaid, Report
<1>5. CASE reports' = reports /\ Right(u, source'[u]) = Right(u, source[u])
  <2>1. \A v \in Objects : Right(v, source'[v]) = Right(v, source[v])
        BY <1>3, <1>5
  <2>2. \A v, i : LastOf(v, i)' <=> LastOf(v, i)
        BY <1>5 DEF LastOf
  <2>3. LastIsSaid'
        BY <1>5, <2>1, <2>2 DEF IndInv, LastIsSaid
  <2>4. Agreement'
        BY <1>5, <2>1 DEF IndInv, Agreement, Report
  <2> QED BY <1>5, <2>3, <2>4 DEF IndInv, TypeOK, Report
<1> QED BY <1>4, <1>5 DEF Report, r

\* What an object has after its last report was disposed of is right by the source.
LEMMA DisposeInductive ==
    ASSUME IndInv, Dispose
    PROVE  IndInv'
<1> DEFINE r == Head(reports)
<1>1. /\ reports # <<>> /\ reports' = Tail(reports) /\ UNCHANGED <<source, there>>
      /\ reports \in Seq(Reported)
      BY DEF Dispose, IndInv, TypeOK
<1>2. /\ Len(reports) \in Nat /\ 1 \in 1..Len(reports) /\ r = reports[1]
      BY <1>1, EmptySeq, LenProperties, HeadTailProperties
<1>3. /\ reports' \in Seq(Reported) /\ Len(reports') = Len(reports) - 1
      /\ \A i \in 1..Len(reports') : i + 1 \in 1..Len(reports) /\ reports'[i] = reports[i + 1]
      BY <1>1, <1>2, HeadTailProperties
<1>4. \A i \in 1..Len(reports) : reports[i] \in Reported
      BY <1>1, ElementOfSeq
<1>5. r.of \in Objects
      BY <1>2, <1>4 DEF Reported
<1>6. /\ fate' \in [Objects -> Fates]
      /\ \A v \in Objects \ {r.of} : fate'[v] = fate[v]
      /\ fate'[r.of] = "kept" => fate[r.of] = "kept" /\ there[r.of] \in Right(r.of, r.says)
      BY <1>5 DEF Dispose, IndInv, TypeOK, Fates
<1> HIDE DEF r
<1>7. ASSUME NEW u \in Objects, NEW i \in 1..Len(reports'), reports'[i].of = u, LastOf(u, i)'
      PROVE  Right(u, reports'[i].says) = Right(u, source'[u])
  <2>1. i + 1 \in 1..Len(reports) /\ reports'[i] = reports[i + 1]
        BY <1>3
  <2>2. LastOf(u, i + 1)
    <3> SUFFICES ASSUME NEW j \in (i + 2)..Len(reports) PROVE reports[j].of # u
        BY <1>2, <2>1 DEF LastOf
    <3>1. j - 1 \in (i + 1)..Len(reports') /\ j - 1 \in 1..Len(reports') /\ (j - 1) + 1 = j
          BY <1>2, <1>3
    <3>2. reports'[j - 1] = reports[j]
          BY <1>3, <3>1
    <3> QED BY <1>7, <3>1, <3>2 DEF LastOf
  <2> QED BY <1>1, <1>7, <2>1, <2>2 DEF IndInv, LastIsSaid
<1>8. ASSUME NEW u \in Objects, fate'[u] = "kept",
             \A i \in 1..Len(reports') : reports'[i].of # u
      PROVE  there'[u] \in Right(u, source'[u])
  <2>1. \A j \in 2..Len(reports) : reports[j].of # u
    <3> SUFFICES ASSUME NEW j \in 2..Len(reports) PROVE reports[j].of # u
        OBVIOUS
    <3>1. j - 1 \in 1..Len(reports') /\ (j - 1) + 1 = j
          BY <1>2, <1>3
    <3> QED BY <1>3, <1>8, <3>1
  <2>2. CASE u = r.of
    <3>1. LastOf(u, 1)
          BY <2>1 DEF LastOf
    <3>2. Right(u, r.says) = Right(u, source[u])
          BY <1>2, <2>2, <3>1 DEF IndInv, LastIsSaid
    <3> QED BY <1>1, <1>6, <1>8, <2>2, <3>2
  <2>3. CASE u # r.of
    <3>1. \A j \in 1..Len(reports) : reports[j].of # u
      <4>1. \A j \in 1..Len(reports) : j = 1 \/ j \in 2..Len(reports)
            BY <1>2
      <4> QED BY <1>2, <2>1, <2>3, <4>1
    <3> QED BY <1>1, <1>6, <1>8, <2>3, <3>1 DEF IndInv, Agreement
  <2> QED BY <2>2, <2>3
<1> QED BY <1>1, <1>3, <1>6, <1>7, <1>8 DEF IndInv, TypeOK, LastIsSaid, Agreement

\* The other steps touch no object that is settled and whose fate is to be kept.
LEMMA OthersInductive ==
    ASSUME IndInv, CarryOut \/ (\E u \in Objects : TakeAway(u)) \/ ChangeRules \/ UNCHANGED vars
    PROVE  IndInv'
<1>1. UNCHANGED <<source, reports>>
      BY DEF CarryOut, TakeAway, ChangeRules, vars
<1>2. \A v, i : LastOf(v, i)' <=> LastOf(v, i)
      BY <1>1 DEF LastOf
<1>3. LastIsSaid'
      BY <1>1, <1>2 DEF IndInv, LastIsSaid
<1>4. fate' \in [Objects -> Fates] /\ Agreement'
  <2>1. CASE CarryOut
    <3> DEFINE r == Head(reports)
    <3>1. r \in Reported /\ 1 \in 1..Len(reports) /\ r = reports[1]
          BY <2>1, EmptySeq, LenProperties, HeadTailProperties DEF CarryOut, IndInv, TypeOK
    <3>2. r.of \in Objects
          BY <3>1 DEF Reported
    <3>3. /\ fate' \in [Objects -> Fates]
          /\ \A v \in Objects \ {r.of} :
                fate'[v] = fate[v] /\ (fate[v] # "astray" => there'[v] = there[v])
          BY <2>1, <3>2 DEF CarryOut, IndInv, TypeOK, Fates
    <3> HIDE DEF r
    <3> QED BY <1>1, <3>1, <3>2, <3>3 DEF IndInv, Agreement
  <2>2. ASSUME NEW u \in Objects, TakeAway(u)
        PROVE  fate' \in [Objects -> Fates] /\ Agreement'
    <3>1. /\ fate' \in [Objects -> Fates] /\ fate'[u] # "kept"
          /\ \A v \in Objects \ {u} : fate'[v] = fate[v] /\ there'[v] = there[v]
          BY <2>2 DEF TakeAway, IndInv, TypeOK, Fates
    <3> QED BY <1>1, <3>1 DEF IndInv, Agreement
  <2>3. CASE ChangeRules
        BY <2>3 DEF ChangeRules, Fates, Agreement
  <2>4. CASE UNCHANGED vars
        BY <2>4 DEF vars, IndInv, TypeOK, Agreement
  <2> QED BY <2>1, <2>2, <2>3, <2>4
<1> QED BY <1>1, <1>3, <1>4 DEF IndInv, TypeOK

(***************************************************************************)
(* A plugin that keeps the promises of Replication makes the target agree  *)
(* with the source, whatever the order of reports, failures and repairs,   *)
(* if it is right to have nothing of an object that the source does not    *)
(* have.                                                                   *)
(***************************************************************************)
THEOREM Agree ==
    ASSUME \A u \in Objects : {} \in Right(u, Absent)
    PROVE  Spec => []Agreement
<1>1. Init => IndInv
      BY InitInductive
<1>2. IndInv /\ [Next]_vars => IndInv'
      BY ReportInductive, DisposeInductive, OthersInductive DEF Next
<1>3. IndInv => Agreement
      BY DEF IndInv
<1> QED BY <1>1, <1>2, <1>3, PTL DEF Spec
=============================================================================
