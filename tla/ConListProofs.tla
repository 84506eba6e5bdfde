--------------------------- MODULE ConListProofs ---------------------------
(***************************************************************************)
(* Proofs about the connection list, for any IDs and any amount of memory. *)
(*                                                                         *)
(* WellFormed speaks of the chain that the next pointers make from the     *)
(* head, a recursive function of the heap.  The proofs reason of IsList(s) *)
(* instead: the memory holds the nodes s, linked in this order.  The two   *)
(* agree (ListIsWellFormed, WellFormedIsList); what the walks of the code  *)
(* meet on IsList(s) is found at the least or the greatest index where     *)
(* they may stop.  A step then links one node into s or out of it, moves   *)
(* the cursor or fails (ListStep).                                         *)
(***************************************************************************)
EXTENDS ConList, FiniteSetTheorems, SequenceTheorems, TLAPS

-----------------------------------------------------------------------------
(* The least and the greatest of some indexes.                             *)

LEMMA LeastOf ==
  ASSUME NEW S, S \subseteq Nat, S # {}
  PROVE  Min(S) \in S /\ \A y \in S : Min(S) =< y
<1> DEFINE T == {0 .. n : n \in S}
<1>1. T \subseteq FiniteSubsetsOf(Nat)
  <2> SUFFICES ASSUME NEW n \in S PROVE 0 .. n \subseteq Nat /\ IsFiniteSet(0 .. n)
    BY DEF FiniteSubsetsOf
  <2> QED
    BY FS_Interval
<1>2. T # {}
  OBVIOUS
<1>3. PICK t \in T : \A u \in T : ~(<<u, t>> \in StrictSubsetOrdering(Nat))
  <2> HIDE DEF T
  <2>1. IsWellFoundedOn(StrictSubsetOrdering(Nat), FiniteSubsetsOf(Nat))
    BY FS_StrictSubsetOrderingWellFounded
  <2> QED
    BY <1>1, <1>2, <2>1, WFMin
<1>4. PICK x \in S : t = 0 .. x
  OBVIOUS
<1>5. ASSUME NEW y \in S PROVE x =< y
  <2> SUFFICES ASSUME y < x PROVE FALSE
    OBVIOUS
  <2>1. 0 .. y \in SUBSET Nat /\ 0 .. x \in SUBSET Nat
    OBVIOUS
  <2>2. 0 .. y \subseteq 0 .. x /\ 0 .. y # 0 .. x
    <3>1. x \in 0 .. x /\ x \notin 0 .. y
      OBVIOUS
    <3> QED
      BY <3>1
  <2>3. <<0 .. y, 0 .. x>> \in StrictSubsetOrdering(Nat)
    BY <2>1, <2>2 DEF StrictSubsetOrdering
  <2> QED
    BY <1>3, <1>4, <2>3
<1>6. \E z \in S : \A y \in S : z =< y
  BY <1>5
<1> QED
  BY <1>6 DEF Min

LEMMA GreatestOf ==
  ASSUME NEW n \in Nat, NEW S, S \subseteq 0 .. n, S # {}
  PROVE  Max(S) \in S /\ \A y \in S : Max(S) >= y
<1> DEFINE T == {n - x : x \in S}
<1>1. T \subseteq Nat /\ T # {}
  <2>1. \A x \in S : n - x \in Nat
    <3> SUFFICES ASSUME NEW x \in S PROVE n - x \in Nat
      OBVIOUS
    <3>1. x \in 0 .. n
      OBVIOUS
    <3> QED
      BY <3>1
  <2>2. T \subseteq Nat
    BY <2>1
  <2> QED
    BY <2>2
<1>2. PICK t \in T : \A u \in T : t =< u
  BY <1>1, LeastOf
<1>3. PICK x \in S : t = n - x
  OBVIOUS
<1>4. ASSUME NEW y \in S PROVE x >= y
  <2>1. n - x =< n - y
    BY <1>2, <1>3
  <2>2. x \in 0 .. n /\ y \in 0 .. n
    OBVIOUS
  <2> QED
    BY <2>1, <2>2
<1>5. \E z \in S : \A y \in S : z >= y
  BY <1>4
<1> QED
  BY <1>5 DEF Max

-----------------------------------------------------------------------------
(* Trails.                                                                 *)

LEMMA StepsAre == Cardinality(Addrs) \in Nat /\ Steps = 0 .. Cardinality(Addrs)
BY ConListAssumption, FS_CardinalityType DEF Steps

\* Where a trail goes from a pointer.
Onwards(p, link) == IF p \in allocated THEN heap[p][link] ELSE p

\* The recursive function of Trail exists.
LEMMA TrailIs ==
  ASSUME NEW a, NEW link
  PROVE  Trail(a, link) = [n \in Steps |-> IF n = 0 THEN a
                                           ELSE Onwards(Trail(a, link)[n - 1], link)]
<1> DEFINE N == Cardinality(Addrs)
           Is(f, m) == f = [n \in 0 .. m |-> IF n = 0 THEN a ELSE Onwards(f[n - 1], link)]
           Missing == {m \in 0 .. N : ~ \E f : Is(f, m)}
<1>1. N \in Nat /\ Steps = 0 .. N
  BY StepsAre
<1>2. Missing = {}
  <2> SUFFICES ASSUME Missing # {} PROVE FALSE
    OBVIOUS
  <2>1. PICK m \in Missing : \A k \in Missing : m =< k
    <3>1. Missing \subseteq Nat
      BY <1>1
    <3> QED
      BY <3>1, LeastOf
  <2>2. CASE m = 0
    <3>1. Is([n \in 0 .. 0 |-> a], 0)
      OBVIOUS
    <3> QED
      BY <2>2, <3>1
  <2>3. CASE m # 0
    <3>1. m - 1 \in 0 .. N /\ m - 1 \notin Missing /\ m \in Nat
      BY <1>1, <2>1, <2>3
    <3>2. PICK f : Is(f, m - 1)
      BY <3>1
    <3> DEFINE g == [n \in 0 .. m |-> IF n = m THEN Onwards(f[m - 1], link) ELSE f[n]]
    <3>3. \A n \in 0 .. m - 1 : g[n] = f[n]
      BY <3>1
    <3>4. \A n \in 0 .. m : g[n] = IF n = 0 THEN a ELSE Onwards(g[n - 1], link)
      <4> SUFFICES ASSUME NEW n \in 0 .. m
                   PROVE  g[n] = IF n = 0 THEN a ELSE Onwards(g[n - 1], link)
        OBVIOUS
      <4> HIDE DEF g
      <4>1. CASE n = m
        <5>1. g[n] = Onwards(f[m - 1], link)
          BY <4>1, <3>1 DEF g
        <5>2. g[m - 1] = f[m - 1]
          BY <3>1, <3>3
        <5> QED
          BY <5>1, <5>2, <4>1, <2>3
      <4>2. CASE n # m
        <5>1. n \in 0 .. m - 1 /\ (n # 0 => n - 1 \in 0 .. m - 1)
          BY <4>2, <3>1
        <5>2. f[n] = IF n = 0 THEN a ELSE Onwards(f[n - 1], link)
          BY <5>1, <3>2
        <5> QED
          BY <5>1, <5>2, <3>3
      <4> QED
        BY <4>1, <4>2
    <3>5. g = [n \in 0 .. m |-> g[n]]
      OBVIOUS
    <3>6. Is(g, m)
      <4> HIDE DEF g
      <4> QED
        BY <3>4, <3>5
    <3> QED
      BY <3>6
  <2> QED
    BY <2>2, <2>3
<1>3. \E f : Is(f, N)
  BY <1>1, <1>2
<1>4. Trail(a, link) = CHOOSE f : Is(f, N)
  BY <1>1 DEF Trail, Onwards
<1>5. Is(Trail(a, link), N)
  BY <1>3, <1>4
<1> QED
  BY <1>1, <1>5

LEMMA TrailStarts ==
  ASSUME NEW a, NEW link
  PROVE  Trail(a, link)[0] = a
<1>1. 0 \in Steps
  BY StepsAre
<1> QED
  BY <1>1, TrailIs

LEMMA TrailGoesOn ==
  ASSUME NEW a, NEW link, NEW n \in Steps, n > 0
  PROVE  Trail(a, link)[n] = Onwards(Trail(a, link)[n - 1], link)
<1>1. n \in Nat /\ n # 0
  BY StepsAre
<1> QED
  BY <1>1, TrailIs

-----------------------------------------------------------------------------
(* Lists.                                                                  *)

TypeOK ==
  /\ heap \in [Addrs -> [cid : Nat, previous : Pointer, next : Pointer]]
  /\ allocated \subseteq Addrs
  /\ head \in Pointer /\ last \in Pointer /\ current \in Pointer

\* The nodes of s are linked both ways in their order, and sorted.
IsLinked(s) ==
  /\ \A i \in 1 .. Len(s) - 1 : heap[s[i]].next = s[i + 1] /\ heap[s[i + 1]].previous = s[i]
  /\ \A i, j \in 1 .. Len(s) : i <= j => cid(s[i]) <= cid(s[j])

\* The ends of s are the list's, and the cursor is on it.
HasEnds(s) ==
  /\ head = s[1] /\ last = s[Len(s)]
  /\ heap[s[1]].previous = NULL /\ heap[s[Len(s)]].next = NULL
  /\ \E k \in 1 .. Len(s) : current = s[k]

\* The memory holds the list of the nodes s.
IsList(s) ==
  /\ s \in Seq(allocated)
  /\ s = <<>> => head = NULL /\ last = NULL /\ current = NULL
  /\ s # <<>> => HasEnds(s)
  /\ IsLinked(s)

LEMMA ListIsSeq ==
  ASSUME NEW s, IsList(s)
  PROVE  /\ Len(s) \in Nat /\ s \in [1 .. Len(s) -> allocated]
         /\ s = <<>> <=> Len(s) = 0
BY LenProperties, EmptySeq DEF IsList

\* What a list says of its nodes and their links.
LEMMA ListLinks ==
  ASSUME TypeOK, NEW s, IsList(s), NEW i \in 1 .. Len(s)
  PROVE  /\ s[i] \in allocated /\ s[i] \in Addrs /\ s[i] # NULL
         /\ i = 1 => heap[s[i]].previous = NULL
         /\ i > 1 => i - 1 \in 1 .. Len(s) /\ heap[s[i]].previous = s[i - 1]
         /\ i = Len(s) => heap[s[i]].next = NULL
         /\ i < Len(s) => i + 1 \in 1 .. Len(s) /\ heap[s[i]].next = s[i + 1]
<1>1. Len(s) \in Nat /\ s # <<>> /\ s \in [1 .. Len(s) -> allocated]
  BY ListIsSeq
<1>2. s[i] \in allocated
  BY <1>1
<1>3. s[i] \in Addrs /\ s[i] # NULL
  BY <1>2, ConListAssumption DEF TypeOK
<1>4. i = 1 => heap[s[i]].previous = NULL
  BY <1>1 DEF IsList, HasEnds
<1>5. i = Len(s) => heap[s[i]].next = NULL
  BY <1>1 DEF IsList, HasEnds
<1>6. ASSUME i > 1 PROVE i - 1 \in 1 .. Len(s) /\ heap[s[i]].previous = s[i - 1]
  <2>1. i - 1 \in 1 .. Len(s) - 1 /\ (i - 1) + 1 = i
    BY <1>1, <1>6
  <2> QED
    BY <1>1, <2>1 DEF IsList, IsLinked
<1>7. ASSUME i < Len(s) PROVE i + 1 \in 1 .. Len(s) /\ heap[s[i]].next = s[i + 1]
  <2>1. i \in 1 .. Len(s) - 1
    BY <1>1, <1>7
  <2> QED
    BY <1>1, <2>1 DEF IsList, IsLinked
<1> QED
  BY <1>2, <1>3, <1>4, <1>5, <1>6, <1>7

\* No node is on a list twice: what is before it would be too.
LEMMA ListIsDistinct ==
  ASSUME TypeOK, NEW s, IsList(s)
  PROVE  \A i, j \in 1 .. Len(s) : s[i] = s[j] => i = j
<1> DEFINE Twice == {i \in 1 .. Len(s) : \E j \in 1 .. Len(s) : j > i /\ s[i] = s[j]}
<1>0. Len(s) \in Nat
  BY ListIsSeq
<1>1. Twice = {}
  <2> SUFFICES ASSUME Twice # {} PROVE FALSE
    OBVIOUS
  <2>1. PICK i \in Twice : \A k \in Twice : i =< k
    <3>1. Twice \subseteq Nat
      OBVIOUS
    <3> QED
      BY <3>1, LeastOf
  <2>2. i \in 1 .. Len(s)
    OBVIOUS
  <2>3. PICK j \in 1 .. Len(s) : j > i /\ s[i] = s[j]
    OBVIOUS
  <2>4. j > 1 /\ j - 1 \in 1 .. Len(s) /\ heap[s[j]].previous = s[j - 1]
    <3>1. j > 1
      BY <2>2, <2>3
    <3> QED
      BY <3>1, ListLinks
  <2>5. CASE i = 1
    <3>1. heap[s[i]].previous = NULL /\ s[j - 1] # NULL
      BY <2>2, <2>4, <2>5, ListLinks
    <3> QED
      BY <3>1, <2>3, <2>4
  <2>6. CASE i > 1
    <3>1. i - 1 \in 1 .. Len(s) /\ heap[s[i]].previous = s[i - 1]
      BY <2>2, <2>6, ListLinks
    <3>2. s[i - 1] = s[j - 1] /\ j - 1 > i - 1
      BY <2>2, <2>3, <2>4, <3>1
    <3>3. i - 1 \in Twice
      BY <3>1, <3>2, <2>4
    <3>4. ~(i =< i - 1)
      BY <2>2
    <3> QED
      BY <3>3, <3>4, <2>1
  <2> QED
    BY <2>2, <2>5, <2>6
<1> QED
  <2> SUFFICES ASSUME NEW i \in 1 .. Len(s), NEW j \in 1 .. Len(s), s[i] = s[j], i # j
               PROVE  FALSE
    OBVIOUS
  <2>1. CASE i < j
    BY <1>1, <2>1
  <2>2. CASE j < i
    BY <1>1, <2>2
  <2> QED
    BY <2>1, <2>2

LEMMA ListIsShort ==
  ASSUME TypeOK, NEW s, IsList(s)
  PROVE  /\ Len(s) <= Cardinality(allocated) /\ Len(s) <= Cardinality(Addrs)
         /\ Cardinality(allocated) \in Nat /\ Cardinality(allocated) <= Cardinality(Addrs)
         /\ \A i \in 0 .. Len(s) : i \in Steps
<1>1. IsFiniteSet(allocated) /\ Cardinality(allocated) <= Cardinality(Addrs)
  BY ConListAssumption, FS_Subset DEF TypeOK
<1>2. Len(s) \in Nat /\ s \in [1 .. Len(s) -> allocated]
  BY ListIsSeq
<1>3. s \in Injection(1 .. Len(s), allocated)
  BY <1>2, ListIsDistinct DEF Injection, IsInjective
<1>4. Cardinality(1 .. Len(s)) <= Cardinality(allocated)
  BY <1>1, <1>3, FS_Injection
<1>5. Cardinality(1 .. Len(s)) = Len(s)
  BY <1>2, FS_Interval
<1>6. Cardinality(allocated) \in Nat /\ Cardinality(Addrs) \in Nat
  BY <1>1, FS_CardinalityType, StepsAre
<1> QED
  BY <1>1, <1>2, <1>4, <1>5, <1>6, StepsAre

-----------------------------------------------------------------------------
(* Trails along a list.                                                    *)

LEMMA FieldsOf ==
  ASSUME TypeOK, NEW p \in allocated
  PROVE  heap[p]["next"] = heap[p].next /\ heap[p]["previous"] = heap[p].previous
OBVIOUS

\* From its k-th node to the right.
LEMMA RightTrail ==
  ASSUME TypeOK, NEW s, IsList(s), NEW k \in 1 .. Len(s)
  PROVE  /\ \A m \in 0 .. Len(s) - k : Trail(s[k], "next")[m] = s[k + m]
         /\ Trail(s[k], "next")[Len(s) - k + 1] = NULL
<1> DEFINE at == Trail(s[k], "next")
           Off == {m \in 0 .. Len(s) - k : at[m] # s[k + m]}
<1>0. Len(s) \in Nat /\ \A m \in 0 .. Len(s) - k + 1 : m \in Steps
  <2>1. Len(s) \in Nat /\ \A m \in 0 .. Len(s) : m \in Steps
    BY ListIsSeq, ListIsShort
  <2> QED
    BY <2>1
<1>1. at[0] = s[k]
  BY TrailStarts
<1>2. Off = {}
  <2> SUFFICES ASSUME Off # {} PROVE FALSE
    OBVIOUS
  <2>1. PICK m \in Off : \A i \in Off : m =< i
    <3>1. Off \subseteq Nat
      BY <1>0
    <3> HIDE DEF Off
    <3> QED
      BY <3>1, LeastOf
  <2>2. m \in 0 .. Len(s) - k /\ at[m] # s[k + m]
    BY <2>1
  <2>3. m > 0 /\ m - 1 \in 0 .. Len(s) - k /\ m - 1 \notin Off
    <3>1. m # 0
      BY <1>1, <2>2
    <3>2. m > 0 /\ m - 1 \in 0 .. Len(s) - k /\ ~(m =< m - 1)
      BY <1>0, <2>2, <3>1
    <3> QED
      BY <2>1, <3>2
  <2>4. at[m - 1] = s[k + (m - 1)]
    BY <2>3
  <2>5. k + (m - 1) \in 1 .. Len(s) /\ k + (m - 1) < Len(s) /\ k + (m - 1) + 1 = k + m
    BY <1>0, <2>2, <2>3
  <2>6. m \in Steps
    BY <1>0, <2>2
  <2> HIDE DEF at
  <2>7. at[m] = Onwards(at[m - 1], "next")
    BY <2>3, <2>6, TrailGoesOn DEF at
  <2>8. /\ s[k + (m - 1)] \in allocated
        /\ heap[s[k + (m - 1)]].next = s[k + (m - 1) + 1]
    BY <2>5, ListLinks
  <2>9. heap[s[k + (m - 1)]]["next"] = s[k + m]
    BY <2>5, <2>8, FieldsOf
  <2> QED
    BY <2>2, <2>4, <2>7, <2>8, <2>9 DEF Onwards
<1> DEFINE n == Len(s) - k + 1
<1>3. n > 0 /\ n \in Steps /\ n - 1 \in 0 .. Len(s) - k /\ k + (n - 1) = Len(s)
      /\ Len(s) \in 1 .. Len(s)
  BY <1>0
<1>4. at[n - 1] = s[Len(s)]
  BY <1>2, <1>3
<1>5. s[Len(s)] \in allocated /\ heap[s[Len(s)]]["next"] = NULL
  BY <1>3, ListLinks, FieldsOf
<1>6. at[n] = NULL
  <2>1. at[n] = Onwards(at[n - 1], "next")
    BY <1>3, TrailGoesOn
  <2> HIDE DEF at, n
  <2> QED
    BY <1>4, <1>5, <2>1 DEF Onwards
<1> QED
  BY <1>2, <1>6

\* To the left.
LEMMA LeftTrail ==
  ASSUME TypeOK, NEW s, IsList(s), NEW k \in 1 .. Len(s)
  PROVE  \A m \in 0 .. k - 1 : Trail(s[k], "previous")[m] = s[k - m]
<1> DEFINE at == Trail(s[k], "previous")
           Off == {m \in 0 .. k - 1 : at[m] # s[k - m]}
<1>0. Len(s) \in Nat /\ \A m \in 0 .. k : m \in Steps
  <2>1. Len(s) \in Nat /\ \A m \in 0 .. Len(s) : m \in Steps
    BY ListIsSeq, ListIsShort
  <2> QED
    BY <2>1
<1>1. at[0] = s[k]
  BY TrailStarts
<1>2. Off = {}
  <2> SUFFICES ASSUME Off # {} PROVE FALSE
    OBVIOUS
  <2>1. PICK m \in Off : \A i \in Off : m =< i
    <3>1. Off \subseteq Nat
      BY <1>0
    <3> HIDE DEF Off
    <3> QED
      BY <3>1, LeastOf
  <2>2. m \in 0 .. k - 1 /\ at[m] # s[k - m]
    BY <2>1
  <2>3. m > 0 /\ m - 1 \in 0 .. k - 1 /\ m - 1 \notin Off
    <3>1. m # 0
      BY <1>1, <2>2
    <3>2. m > 0 /\ m - 1 \in 0 .. k - 1 /\ ~(m =< m - 1)
      BY <1>0, <2>2, <3>1
    <3> QED
      BY <2>1, <3>2
  <2>4. at[m - 1] = s[k - (m - 1)]
    BY <2>3
  <2>5. k - (m - 1) \in 1 .. Len(s) /\ k - (m - 1) > 1 /\ k - (m - 1) - 1 = k - m
    BY <1>0, <2>2, <2>3
  <2>6. m \in Steps
    BY <1>0, <2>2
  <2> HIDE DEF at
  <2>7. at[m] = Onwards(at[m - 1], "previous")
    BY <2>3, <2>6, TrailGoesOn DEF at
  <2>8. /\ s[k - (m - 1)] \in allocated
        /\ heap[s[k - (m - 1)]].previous = s[k - (m - 1) - 1]
    BY <2>5, ListLinks
  <2>9. heap[s[k - (m - 1)]]["previous"] = s[k - m]
    BY <2>5, <2>8, FieldsOf
  <2> QED
    BY <2>2, <2>4, <2>7, <2>8, <2>9 DEF Onwards
<1> QED
  BY <1>2

-----------------------------------------------------------------------------
(* The chain of a list.                                                    *)

LEMMA SeqOfLen ==
  ASSUME NEW S, NEW n \in Nat, NEW f \in [1 .. n -> S]
  PROVE  f \in Seq(S) /\ Len(f) = n
<1>1. f \in Seq(S)
  BY SeqDef
<1>2. Len(f) \in Nat /\ DOMAIN f = 1 .. Len(f) /\ DOMAIN f = 1 .. n
  BY <1>1, LenProperties
<1> QED
  BY <1>1, <1>2

\* The trail from the head leaves the list after its last node.
LEMMA ChainOfList == \A s : TypeOK /\ IsList(s) => Chain = s
<1> SUFFICES ASSUME NEW s, TypeOK, IsList(s) PROVE Chain = s
  OBVIOUS
<1> DEFINE at == Trail(head, "next")
           ends == {n \in Steps : at[n] \notin allocated}
<1>0. /\ Len(s) \in Nat /\ s \in [1 .. Len(s) -> allocated] /\ (s = <<>> <=> Len(s) = 0)
      /\ s \in Seq(allocated)
      /\ NULL \notin allocated /\ Len(s) \in Steps
      /\ \A m \in 0 .. Len(s) : m \in Steps
  <2>1. Len(s) \in Nat /\ \A m \in 0 .. Len(s) : m \in Steps
    BY ListIsSeq, ListIsShort
  <2>2. Len(s) \in Steps
    BY <2>1
  <2> QED
    BY <2>1, <2>2, ListIsSeq, ConListAssumption DEF TypeOK, IsList
<1>1. /\ at[Len(s)] \notin allocated
      /\ \A n \in 0 .. Len(s) - 1 : at[n] = s[n + 1]
  <2>1. CASE s = <<>>
    <3>1. head = NULL /\ Len(s) = 0
      BY <1>0, <2>1 DEF IsList
    <3>2. at[0] = NULL
      BY <3>1, TrailStarts
    <3> QED
      BY <1>0, <3>1, <3>2
  <2>2. CASE s # <<>>
    <3>1. 1 \in 1 .. Len(s) /\ Len(s) - 1 + 1 = Len(s)
      BY <1>0, <2>2
    <3>2. head = s[1]
      BY <2>2 DEF IsList, HasEnds
    <3>3. at[Len(s)] = NULL
      BY <3>1, <3>2, RightTrail
    <3>4. \A m \in 0 .. Len(s) - 1 : at[m] = s[1 + m]
      BY <3>1, <3>2, RightTrail
    <3>5. \A m \in 0 .. Len(s) - 1 : 1 + m = m + 1
      BY <1>0
    <3> QED
      BY <1>0, <3>3, <3>4, <3>5
  <2> QED
    BY <2>1, <2>2
<1>2. Len(s) \in ends
  BY <1>0, <1>1
<1>3. Min(ends) = Len(s)
  <2>1. ends \subseteq Nat
    BY StepsAre
  <2>2. Min(ends) \in ends /\ \A y \in ends : Min(ends) =< y
    <3> HIDE DEF ends
    <3> QED
      BY <1>2, <2>1, LeastOf
  <2>3. \A n \in 0 .. Len(s) - 1 : n \notin ends
    <3> SUFFICES ASSUME NEW n \in 0 .. Len(s) - 1 PROVE at[n] \in allocated
      OBVIOUS
    <3>1. n + 1 \in 1 .. Len(s)
      BY <1>0
    <3> QED
      BY <1>0, <1>1, <3>1
  <2> HIDE DEF ends
  <2>4. Min(ends) \in Nat /\ Min(ends) =< Len(s) /\ Min(ends) \notin 0 .. Len(s) - 1
    BY <1>2, <2>1, <2>2, <2>3
  <2> QED
    BY <1>0, <2>4
<1> DEFINE f == [i \in 1 .. Len(s) |-> at[i - 1]]
<1>4. Chain = f
  BY <1>2, <1>3 DEF Chain
<1>5. \A i \in 1 .. Len(s) : f[i] = s[i]
  <2> SUFFICES ASSUME NEW i \in 1 .. Len(s) PROVE at[i - 1] = s[i]
    OBVIOUS
  <2>1. i - 1 \in 0 .. Len(s) - 1 /\ (i - 1) + 1 = i
    BY <1>0
  <2> HIDE DEF at
  <2> QED
    BY <1>1, <2>1
<1>6. f = s
  <2>1. f = [i \in 1 .. Len(s) |-> f[i]] /\ s = [i \in 1 .. Len(s) |-> s[i]]
    BY <1>0
  <2> HIDE DEF f
  <2> QED
    BY <1>5, <2>1
<1> QED
  BY <1>4, <1>6

LEMMA SortedThroughout ==
  ASSUME NEW n \in Nat, NEW f \in [1 .. n -> Nat], \A i \in 1 .. n - 1 : f[i] <= f[i + 1]
  PROVE  \A i, j \in 1 .. n : i <= j => f[i] <= f[j]
<1> SUFFICES ASSUME NEW i \in 1 .. n PROVE \A j \in 1 .. n : i <= j => f[i] <= f[j]
  OBVIOUS
<1> DEFINE Lower == {j \in 1 .. n : i <= j /\ ~(f[i] <= f[j])}
<1> SUFFICES ASSUME Lower # {} PROVE FALSE
  OBVIOUS
<1>1. PICK j \in Lower : \A k \in Lower : j =< k
  <2>1. Lower \subseteq Nat
    OBVIOUS
  <2> HIDE DEF Lower
  <2> QED
    BY <2>1, LeastOf
<1>2. j \in 1 .. n /\ i <= j /\ ~(f[i] <= f[j])
  BY <1>1
<1>3. j # i /\ j - 1 \in 1 .. n - 1 /\ j - 1 \in 1 .. n /\ i <= j - 1 /\ ~(j =< j - 1)
      /\ (j - 1) + 1 = j
  <2>1. f[i] \in Nat
    OBVIOUS
  <2>2. j # i
    BY <1>2, <2>1
  <2> QED
    BY <1>2, <2>2
<1>4. j - 1 \notin Lower
  BY <1>1, <1>3
<1>5. f[i] <= f[j - 1]
  BY <1>3, <1>4
<1>6. f[j - 1] <= f[j]
  <2>1. f[j - 1] <= f[(j - 1) + 1]
    BY <1>3
  <2> QED
    BY <1>3, <2>1
<1>7. f[i] \in Nat /\ f[j] \in Nat /\ f[j - 1] \in Nat
  BY <1>2, <1>3
<1> QED
  BY <1>2, <1>5, <1>6, <1>7

LEMMA RangeIs ==
  ASSUME NEW S, NEW s \in Seq(S), NEW x
  PROVE  x \in Range(s) <=> \E k \in 1 .. Len(s) : x = s[k]
<1>1. DOMAIN s = 1 .. Len(s)
  BY LenProperties
<1> QED
  BY <1>1 DEF Range

LEMMA ListIsWellFormed == \A s : TypeOK /\ IsList(s) => WellFormed
<1> SUFFICES ASSUME NEW s, TypeOK, IsList(s) PROVE WellFormed
  OBVIOUS
<1>1. Chain = s
  BY ChainOfList
<1>2. Len(s) \in Nat /\ s \in Seq(allocated) /\ (s = <<>> <=> Len(s) = 0)
  BY ListIsSeq DEF IsList
<1>3. CASE Len(s) = 0
  BY <1>1, <1>2, <1>3 DEF WellFormed, IsList
<1>4. CASE Len(s) # 0
  <2>1. HasEnds(s)
    BY <1>2, <1>4 DEF IsList
  <2>2. current \in Range(s)
    BY <1>2, <2>1, RangeIs DEF HasEnds
  <2>3. \A i \in 1 .. Len(s) - 1 : cid(s[i]) <= cid(s[i + 1])
    <3> SUFFICES ASSUME NEW i \in 1 .. Len(s) - 1 PROVE cid(s[i]) <= cid(s[i + 1])
      OBVIOUS
    <3>1. i \in 1 .. Len(s) /\ i + 1 \in 1 .. Len(s) /\ i <= i + 1
      BY <1>2
    <3> QED
      BY <3>1 DEF IsList, IsLinked
  <2>4. heap[head].previous = NULL /\ heap[last].next = NULL /\ head = s[1] /\ last = s[Len(s)]
    BY <2>1 DEF HasEnds
  <2> QED
    BY <1>1, <1>4, <2>2, <2>3, <2>4 DEF WellFormed, IsList, IsLinked
<1> QED
  BY <1>3, <1>4

LEMMA ChainIsSeq == Chain \in Seq(allocated)
<1> DEFINE at == Trail(head, "next")
           ends == {n \in Steps : at[n] \notin allocated}
           m == Min(ends)
           f == [i \in 1 .. m |-> at[i - 1]]
<1>1. CASE ends = {}
  <2>1. Chain = <<>>
    BY <1>1 DEF Chain
  <2> QED
    BY <2>1, EmptySeq
<1>2. CASE ends # {}
  <2>1. Chain = f
    BY <1>2 DEF Chain
  <2>2. m \in ends /\ \A y \in ends : m =< y
    <3>1. ends \subseteq Nat
      BY StepsAre
    <3> HIDE DEF ends
    <3> QED
      BY <1>2, <3>1, LeastOf
  <2>3. m \in Nat /\ m \in Steps
    BY <2>2, StepsAre
  <2>4. \A i \in 1 .. m : at[i - 1] \in allocated
    <3> SUFFICES ASSUME NEW i \in 1 .. m PROVE at[i - 1] \in allocated
      OBVIOUS
    <3>1. i - 1 \in Steps /\ ~(m =< i - 1)
      <4> HIDE DEF m
      <4> QED
        BY <2>3, StepsAre
    <3>2. i - 1 \notin ends
      BY <2>2, <3>1
    <3> QED
      BY <3>1, <3>2
  <2>5. f \in [1 .. m -> allocated]
    BY <2>4
  <2> HIDE DEF f
  <2> QED
    BY <2>1, <2>3, <2>5, SeqOfLen
<1> QED
  BY <1>1, <1>2

LEMMA WellFormedIsList ==
  ASSUME TypeOK, WellFormed
  PROVE  IsList(Chain)
<1>1. Chain \in Seq(allocated) /\ Len(Chain) \in Nat /\ (Chain = <<>> <=> Len(Chain) = 0)
      /\ Chain \in [1 .. Len(Chain) -> allocated]
  BY ChainIsSeq, LenProperties, EmptySeq
<1>2. CASE Chain = <<>>
  <2>1. head = NULL /\ last = NULL /\ current = NULL
    BY <1>1, <1>2 DEF WellFormed
  <2>2. IsLinked(Chain)
    BY <1>1, <1>2 DEF IsLinked
  <2> QED
    BY <1>1, <1>2, <2>1, <2>2 DEF IsList
<1>3. CASE Chain # <<>>
  <2>1. /\ head = Chain[1] /\ last = Chain[Len(Chain)]
        /\ current \in Range(Chain)
        /\ heap[head].previous = NULL /\ heap[last].next = NULL
        /\ \A i \in 1 .. Len(Chain) - 1 :
            /\ heap[Chain[i]].next = Chain[i + 1]
            /\ heap[Chain[i + 1]].previous = Chain[i]
            /\ cid(Chain[i]) <= cid(Chain[i + 1])
    BY <1>1, <1>3 DEF WellFormed
  <2>2. HasEnds(Chain)
    BY <1>1, <2>1, RangeIs DEF HasEnds
  <2> DEFINE c == [i \in 1 .. Len(Chain) |-> cid(Chain[i])]
  <2>3. c \in [1 .. Len(Chain) -> Nat]
    BY <1>1 DEF cid, TypeOK
  <2>4. \A i \in 1 .. Len(Chain) - 1 : c[i] <= c[i + 1]
    <3> SUFFICES ASSUME NEW i \in 1 .. Len(Chain) - 1 PROVE c[i] <= c[i + 1]
      OBVIOUS
    <3>1. i \in 1 .. Len(Chain) /\ i + 1 \in 1 .. Len(Chain)
      BY <1>1
    <3> QED
      BY <2>1, <3>1
  <2>5. \A i, j \in 1 .. Len(Chain) : i <= j => c[i] <= c[j]
    <3> HIDE DEF c
    <3> QED
      BY <1>1, <2>3, <2>4, SortedThroughout
  <2>6. \A i, j \in 1 .. Len(Chain) : i <= j => cid(Chain[i]) <= cid(Chain[j])
    BY <2>5
  <2>7. IsLinked(Chain)
    BY <2>1, <2>6 DEF IsLinked
  <2> QED
    BY <1>1, <1>3, <2>2, <2>7 DEF IsList
<1> QED
  BY <1>2, <1>3

-----------------------------------------------------------------------------
(* Walks from the cursor.                                                  *)

LEMMA WalkRight ==
  ASSUME TypeOK, NEW s, IsList(s), NEW k \in 1 .. Len(s), current = s[k], NEW stops
  PROVE  \E j \in k .. Len(s) :
           /\ Walk("next", stops) = s[j]
           /\ j = Len(s) \/ (j > k /\ s[j] \in stops)
           /\ j = k => k = Len(s)
           /\ \A i \in k + 1 .. j - 1 : s[i] \notin stops
<1> DEFINE at == Trail(s[k], "next")
           ends == {n \in Steps : \/ at[n] \notin allocated
                                  \/ heap[at[n]]["next"] = NULL
                                  \/ n > 0 /\ at[n] \in stops}
           m == Min(ends)
<1>0. /\ Len(s) \in Nat /\ \A i \in 0 .. Len(s) : i \in Steps
      /\ \A i \in Steps : i \in Nat
  BY ListIsSeq, ListIsShort, StepsAre
<1>1. \A i \in 0 .. Len(s) - k : at[i] = s[k + i]
  BY RightTrail
<1>2. Len(s) - k \in ends
  <2>1. Len(s) - k \in 0 .. Len(s) - k /\ k + (Len(s) - k) = Len(s) /\ Len(s) \in 1 .. Len(s)
        /\ Len(s) - k \in Steps
    BY <1>0
  <2>2. heap[s[Len(s)]]["next"] = NULL
    BY <2>1, ListLinks, FieldsOf
  <2>3. at[Len(s) - k] = s[Len(s)]
    BY <1>1, <2>1
  <2> HIDE DEF at
  <2> QED
    BY <2>1, <2>2, <2>3
<1>3. m \in ends /\ \A y \in ends : m =< y
  <2>1. ends \subseteq Nat
    BY <1>0
  <2> HIDE DEF ends
  <2> QED
    BY <1>2, <2>1, LeastOf
<1>4. Walk("next", stops) = at[m]
  BY <1>2 DEF Walk
<1>5. m \in 0 .. Len(s) - k
  <2>1. m \in Nat /\ m =< Len(s) - k
    BY <1>0, <1>2, <1>3
  <2> HIDE DEF m
  <2> QED
    BY <1>0, <2>1
<1>6. at[m] = s[k + m]
  BY <1>1, <1>5
<1>7. k + m \in k .. Len(s) /\ k + m \in 1 .. Len(s) /\ (m > 0 <=> k + m > k)
  <2> HIDE DEF m
  <2> QED
    BY <1>0, <1>5
<1>8. k + m = Len(s) \/ (m > 0 /\ s[k + m] \in stops)
  <2> SUFFICES ASSUME k + m # Len(s) PROVE m > 0 /\ s[k + m] \in stops
    OBVIOUS
  <2>1. k + m < Len(s)
    <3> HIDE DEF m
    <3> QED
      BY <1>0, <1>7
  <2>2. k + m + 1 \in 1 .. Len(s) /\ heap[s[k + m]].next = s[k + m + 1] /\ s[k + m] \in allocated
    BY <1>7, <2>1, ListLinks
  <2>3. heap[s[k + m]]["next"] # NULL
    <3> HIDE DEF m
    <3>1. s[k + m + 1] # NULL
      BY <2>2, ListLinks
    <3> QED
      BY <2>2, <3>1, FieldsOf
  <2> HIDE DEF at, m
  <2> QED
    BY <1>3, <1>6, <2>2, <2>3 DEF m
<1>9. \A i \in k + 1 .. k + m - 1 : s[i] \notin stops
  <2> SUFFICES ASSUME NEW i \in k + 1 .. k + m - 1 PROVE s[i] \notin stops
    OBVIOUS
  <2>1. i - k \in 0 .. Len(s) - k /\ i - k > 0 /\ ~(m =< i - k) /\ k + (i - k) = i
        /\ i - k \in 0 .. Len(s)
    <3> HIDE DEF m
    <3> QED
      BY <1>0, <1>5
  <2>2. i - k \in Steps /\ i - k \notin ends
    BY <1>0, <1>3, <2>1
  <2>3. at[i - k] \notin stops
    BY <2>1, <2>2
  <2>4. at[i - k] = s[i]
    BY <1>1, <2>1
  <2> QED
    BY <2>3, <2>4
<1>10. k + m = k => k = Len(s)
  <2> HIDE DEF m
  <2> QED
    BY <1>0, <1>7, <1>8
<1> HIDE DEF at, m
<1> HIDE DEF ends
<1> QED
  BY <1>0, <1>4, <1>5, <1>6, <1>7, <1>8, <1>9, <1>10

LEMMA WalkLeft ==
  ASSUME TypeOK, NEW s, IsList(s), NEW k \in 1 .. Len(s), current = s[k], NEW stops
  PROVE  \E j \in 1 .. k :
           /\ Walk("previous", stops) = s[j]
           /\ j = 1 \/ (j < k /\ s[j] \in stops)
           /\ j = k => k = 1
           /\ \A i \in j + 1 .. k - 1 : s[i] \notin stops
<1> DEFINE at == Trail(s[k], "previous")
           ends == {n \in Steps : \/ at[n] \notin allocated
                                  \/ heap[at[n]]["previous"] = NULL
                                  \/ n > 0 /\ at[n] \in stops}
           m == Min(ends)
<1>0. /\ Len(s) \in Nat /\ \A i \in 0 .. Len(s) : i \in Steps
      /\ \A i \in Steps : i \in Nat
  BY ListIsSeq, ListIsShort, StepsAre
<1>1. \A i \in 0 .. k - 1 : at[i] = s[k - i]
  BY LeftTrail
<1>2. k - 1 \in ends
  <2>1. k - 1 \in 0 .. k - 1 /\ k - (k - 1) = 1 /\ 1 \in 1 .. Len(s) /\ k - 1 \in Steps
    BY <1>0
  <2>2. heap[s[1]]["previous"] = NULL
    BY <2>1, ListLinks, FieldsOf
  <2>3. at[k - 1] = s[1]
    BY <1>1, <2>1
  <2> HIDE DEF at
  <2> QED
    BY <2>1, <2>2, <2>3
<1>3. m \in ends /\ \A y \in ends : m =< y
  <2>1. ends \subseteq Nat
    BY <1>0
  <2> HIDE DEF ends
  <2> QED
    BY <1>2, <2>1, LeastOf
<1>4. Walk("previous", stops) = at[m]
  BY <1>2 DEF Walk
<1>5. m \in 0 .. k - 1
  <2>1. m \in Nat /\ m =< k - 1
    BY <1>0, <1>2, <1>3
  <2> HIDE DEF m
  <2> QED
    BY <1>0, <2>1
<1>6. at[m] = s[k - m]
  BY <1>1, <1>5
<1>7. k - m \in 1 .. k /\ k - m \in 1 .. Len(s) /\ (m > 0 <=> k - m < k)
  <2> HIDE DEF m
  <2> QED
    BY <1>0, <1>5
<1>8. k - m = 1 \/ (m > 0 /\ s[k - m] \in stops)
  <2> SUFFICES ASSUME k - m # 1 PROVE m > 0 /\ s[k - m] \in stops
    OBVIOUS
  <2>1. k - m > 1
    <3> HIDE DEF m
    <3> QED
      BY <1>0, <1>7
  <2>2. k - m - 1 \in 1 .. Len(s) /\ heap[s[k - m]].previous = s[k - m - 1] /\ s[k - m] \in allocated
    BY <1>7, <2>1, ListLinks
  <2>3. heap[s[k - m]]["previous"] # NULL
    <3> HIDE DEF m
    <3>1. s[k - m - 1] # NULL
      BY <2>2, ListLinks
    <3> QED
      BY <2>2, <3>1, FieldsOf
  <2> HIDE DEF at, m
  <2> QED
    BY <1>3, <1>6, <2>2, <2>3 DEF m
<1>9. \A i \in k - m + 1 .. k - 1 : s[i] \notin stops
  <2> SUFFICES ASSUME NEW i \in k - m + 1 .. k - 1 PROVE s[i] \notin stops
    OBVIOUS
  <2>1. k - i \in 0 .. k - 1 /\ k - i > 0 /\ ~(m =< k - i) /\ k - (k - i) = i
        /\ k - i \in 0 .. Len(s)
    <3> HIDE DEF m
    <3> QED
      BY <1>0, <1>5
  <2>2. k - i \in Steps /\ k - i \notin ends
    BY <1>0, <1>3, <2>1
  <2>3. at[k - i] \notin stops
    BY <2>1, <2>2
  <2>4. at[k - i] = s[i]
    BY <1>1, <2>1
  <2> QED
    BY <2>3, <2>4
<1> HIDE DEF at, m
<1> QED
  BY <1>4, <1>6, <1>7, <1>8, <1>9

-----------------------------------------------------------------------------
(* Searches.                                                               *)

\* The cursor of a list with nodes.
LEMMA CursorOf ==
  ASSUME NEW s, IsList(s), s # <<>>
  PROVE  \E k \in 1 .. Len(s) : current = s[k]
BY DEF IsList, HasEnds

LEMMA IDsOf ==
  ASSUME TypeOK, NEW s, IsList(s)
  PROVE  /\ \A i \in 1 .. Len(s) : cid(s[i]) \in Nat
         /\ \A i, j \in 1 .. Len(s) : i <= j => cid(s[i]) <= cid(s[j])
<1>1. \A i \in 1 .. Len(s) : s[i] \in Addrs
  BY ListLinks
<1> QED
  BY <1>1 DEF IsList, IsLinked, TypeOK, cid

\* Where the search for c from the k-th node ends: at the first node with c on
\* its way, or else no node has it.
Ends(s, k, c, j) ==
  \/ cid(s[j]) # c /\ \A i \in 1 .. Len(s) : cid(s[i]) # c
  \/ c = cid(s[k]) /\ j = k
  \/ cid(s[j]) = c /\ c > cid(s[k]) /\ j > k /\ \A i \in k + 1 .. j - 1 : cid(s[i]) # c
  \/ cid(s[j]) = c /\ c < cid(s[k]) /\ j < k /\ \A i \in j + 1 .. k - 1 : cid(s[i]) # c

LEMMA SearchEnds ==
  ASSUME TypeOK, NEW s, IsList(s), NEW k \in 1 .. Len(s), current = s[k], NEW c \in Nat
  PROVE  \E j \in 1 .. Len(s) : Search(c) = s[j] /\ Ends(s, k, c, j)
<1> DEFINE stops == {n \in allocated : cid(n) = c}
<1>0. Len(s) \in Nat /\ \A i \in 1 .. Len(s) : s[i] \in allocated
  BY ListIsSeq, ListLinks
<1>1. /\ \A i \in 1 .. Len(s) : cid(s[i]) \in Nat
      /\ \A i, j \in 1 .. Len(s) : i <= j => cid(s[i]) <= cid(s[j])
  BY IDsOf
<1>2. CASE c = cid(s[k])
  BY <1>2 DEF Search, Ends
<1>3. CASE c > cid(s[k])
  <2>1. PICK j \in k .. Len(s) :
           /\ Walk("next", stops) = s[j]
           /\ j = Len(s) \/ (j > k /\ s[j] \in stops)
           /\ j = k => k = Len(s)
           /\ \A i \in k + 1 .. j - 1 : s[i] \notin stops
    <3> HIDE DEF stops
    <3> QED
      BY WalkRight
  <2>2. j \in 1 .. Len(s) /\ Search(c) = s[j]
    BY <1>0, <1>1, <1>3, <2>1 DEF Search
  <2>3. \A i \in k + 1 .. j - 1 : cid(s[i]) # c
    <3> SUFFICES ASSUME NEW i \in k + 1 .. j - 1 PROVE cid(s[i]) # c
      OBVIOUS
    <3>1. i \in 1 .. Len(s)
      BY <1>0, <2>2
    <3> QED
      BY <1>0, <2>1, <3>1
  <2>4. CASE cid(s[j]) = c
    <3>1. j # k
      BY <1>1, <1>3, <2>4
    <3>2. j > k
      BY <2>1, <3>1
    <3> QED
      BY <1>3, <2>2, <2>3, <2>4, <3>2 DEF Ends
  <2>5. CASE cid(s[j]) # c
    <3>1. j = Len(s)
      BY <2>1, <2>5
    <3>2. ASSUME NEW i \in 1 .. Len(s) PROVE cid(s[i]) # c
      <4>1. CASE i <= k
        <5>1. cid(s[i]) <= cid(s[k])
          BY <1>1, <4>1
        <5> QED
          BY <1>1, <1>3, <5>1
      <4>2. CASE i > k
        <5>1. i \in k + 1 .. j - 1 \/ i = j
          BY <1>0, <3>1, <4>2
        <5> QED
          BY <2>3, <2>5, <5>1
      <4> QED
        BY <4>1, <4>2
    <3> QED
      BY <2>2, <2>5, <3>2 DEF Ends
  <2> QED
    BY <2>4, <2>5
<1>4. CASE c < cid(s[k])
  <2>1. PICK j \in 1 .. k :
           /\ Walk("previous", stops) = s[j]
           /\ j = 1 \/ (j < k /\ s[j] \in stops)
           /\ j = k => k = 1
           /\ \A i \in j + 1 .. k - 1 : s[i] \notin stops
    <3> HIDE DEF stops
    <3> QED
      BY WalkLeft
  <2>2. j \in 1 .. Len(s)
    BY <1>0, <2>1
  <2>2a. c # cid(current) /\ ~(c > cid(current))
    BY <1>1, <1>4
  <2>2b. Search(c) = s[j]
    BY <2>1, <2>2a DEF Search
  <2>3. \A i \in j + 1 .. k - 1 : cid(s[i]) # c
    <3> SUFFICES ASSUME NEW i \in j + 1 .. k - 1 PROVE cid(s[i]) # c
      OBVIOUS
    <3>1. i \in 1 .. Len(s)
      BY <1>0, <2>2
    <3> QED
      BY <1>0, <2>1, <3>1
  <2>4. CASE cid(s[j]) = c
    <3>1. j # k
      BY <1>1, <1>4, <2>4
    <3>2. j < k
      BY <2>1, <3>1
    <3> QED
      BY <1>4, <2>2, <2>2b, <2>3, <2>4, <3>2 DEF Ends
  <2>5. CASE cid(s[j]) # c
    <3>1. j = 1
      BY <2>1, <2>5
    <3>2. ASSUME NEW i \in 1 .. Len(s) PROVE cid(s[i]) # c
      <4>1. CASE k <= i
        <5>1. cid(s[k]) <= cid(s[i])
          BY <1>1, <4>1
        <5> QED
          BY <1>1, <1>4, <5>1
      <4>2. CASE i < k
        <5>1. i \in j + 1 .. k - 1 \/ i = j
          BY <1>0, <3>1, <4>2
        <5> QED
          BY <2>3, <2>5, <5>1
      <4> QED
        BY <4>1, <4>2
    <3> QED
      BY <2>2, <2>2b, <2>5, <3>2 DEF Ends
  <2> QED
    BY <2>4, <2>5
<1> QED
  BY <1>1, <1>2, <1>3, <1>4

LEMMA SearchOfList == TypeOK => SearchIsComplete
<1> SUFFICES ASSUME TypeOK, WellFormed, current # NULL, NEW c \in CIDs
             PROVE  Found(c) <=> \E a \in Range(Chain) : cid(a) = c
  BY DEF SearchIsComplete
<1>1. IsList(Chain) /\ Chain \in Seq(allocated)
  BY WellFormedIsList, ChainIsSeq
<1>2. Chain # <<>>
  BY <1>1 DEF IsList
<1>3. PICK k \in 1 .. Len(Chain) : current = Chain[k]
  BY <1>1, <1>2, CursorOf
<1>4. c \in Nat
  BY ConListAssumption
<1>5. PICK j \in 1 .. Len(Chain) : Search(c) = Chain[j] /\ Ends(Chain, k, c, j)
  BY <1>1, <1>3, <1>4, SearchEnds
<1>6. Chain[j] \in allocated
  BY <1>1, ListLinks
<1>7. CASE cid(Chain[j]) = c
  <2>1. Chain[j] \in Range(Chain)
    BY <1>1, RangeIs
  <2> QED
    BY <1>5, <1>6, <1>7, <2>1 DEF Found
<1>8. CASE cid(Chain[j]) # c
  <2>1. \A i \in 1 .. Len(Chain) : cid(Chain[i]) # c
    BY <1>3, <1>5, <1>8 DEF Ends
  <2>2. \A a \in Range(Chain) : cid(a) # c
    BY <1>1, <2>1, RangeIs
  <2> QED
    BY <1>5, <1>8, <2>2 DEF Found
<1> QED
  BY <1>7, <1>8

-----------------------------------------------------------------------------
(* Types.                                                                  *)

LEMMA TypesInit == Init => TypeOK
BY DEF Init, TypeOK, Blank, Node, Pointer

LEMMA TypesKept == TypeOK /\ [Next]_vars => TypeOK'
<1> SUFFICES ASSUME TypeOK, [Next]_vars PROVE TypeOK'
  OBVIOUS
<1> DEFINE Cells == [cid : Nat, previous : Pointer, next : Pointer]
<1>0. /\ heap \in [Addrs -> Cells] /\ allocated \subseteq Addrs
      /\ head \in Pointer /\ last \in Pointer /\ current \in Pointer
      /\ Addrs \subseteq Pointer /\ NULL \in Pointer /\ CIDs \subseteq Nat
  BY ConListAssumption DEF TypeOK, Pointer
<1>c. \A p : Crash(p) => TypeOK'
  BY DEF Crash, pointers, TypeOK
<1>n. \A c \in Nat, p \in Pointer, q \in Pointer : Node(c, p, q) \in Cells
  BY DEF Node
<1>b. Blank \in Cells
  BY <1>0, <1>n DEF Blank
<1>1. ASSUME NEW c \in CIDs, NEW a \in Addrs, InsertEmpty(a, c) PROVE TypeOK'
  BY <1>0, <1>1, <1>n DEF InsertEmpty, TypeOK
<1>2. ASSUME NEW c \in CIDs, NEW a \in Addrs, InsertRight(a, c) PROVE TypeOK'
  <2> DEFINE tmp == Walk("next", {n \in allocated : c <= cid(n)})
             tmp1 == heap[tmp].previous
  <2>1. CASE Crash(tmp) \/ Crash(tmp1)
    BY <2>1, <1>c
  <2>2. CASE /\ tmp \in allocated
             /\ allocated' = allocated \cup {a}
             /\ heap' = [heap EXCEPT ![last].next = a, ![a] = Node(c, last, NULL)]
             /\ last' = a /\ current' = a
             /\ UNCHANGED <<head, fault>>
    BY <1>0, <2>2, <1>n DEF TypeOK
  <2>3. CASE /\ tmp \in allocated /\ tmp1 \in allocated
             /\ allocated' = allocated \cup {a}
             /\ heap' = [heap EXCEPT ![a] = Node(c, tmp1, tmp),
                                     ![tmp].previous = a, ![tmp1].next = a]
             /\ current' = a
             /\ UNCHANGED <<head, last, fault>>
    <3>1. Node(c, tmp1, tmp) \in Cells
      BY <1>0, <1>n, <2>3
    <3> HIDE DEF tmp, tmp1
    <3> QED
      BY <1>0, <2>3, <3>1 DEF TypeOK
  <2> HIDE DEF tmp, tmp1
  <2> QED
    BY <1>2, <2>1, <2>2, <2>3 DEF InsertRight, tmp, tmp1
<1>3. ASSUME NEW c \in CIDs, NEW a \in Addrs, InsertLeft(a, c) PROVE TypeOK'
  <2> DEFINE tmp == Walk("previous", {n \in allocated : c >= cid(n)})
             tmp1 == heap[tmp].next
  <2>1. CASE Crash(tmp) \/ Crash(tmp1)
    BY <2>1, <1>c
  <2>2. CASE /\ tmp \in allocated
             /\ allocated' = allocated \cup {a}
             /\ heap' = [heap EXCEPT ![head].previous = a, ![a] = Node(c, NULL, head)]
             /\ head' = a /\ current' = a
             /\ UNCHANGED <<last, fault>>
    BY <1>0, <2>2, <1>n DEF TypeOK
  <2>3. CASE /\ tmp \in allocated /\ tmp1 \in allocated
             /\ allocated' = allocated \cup {a}
             /\ heap' = [heap EXCEPT ![a] = Node(c, tmp, tmp1),
                                     ![tmp1].previous = a, ![tmp].next = a]
             /\ current' = a
             /\ UNCHANGED <<head, last, fault>>
    <3>1. Node(c, tmp, tmp1) \in Cells
      BY <1>0, <1>n, <2>3
    <3> HIDE DEF tmp, tmp1
    <3> QED
      BY <1>0, <2>3, <3>1 DEF TypeOK
  <2> HIDE DEF tmp, tmp1
  <2> QED
    BY <1>3, <2>1, <2>2, <2>3 DEF InsertLeft, tmp, tmp1
<1>4. ASSUME NEW c \in CIDs, NEW a \in Addrs, InsertDropped(a, c) PROVE TypeOK'
  BY <1>0, <1>4, <1>n DEF InsertDropped, TypeOK, pointers
<1>5. ASSUME NEW c \in CIDs, find_con_node(c) PROVE TypeOK'
  BY <1>0, <1>5, <1>c DEF find_con_node, Found, TypeOK
<1>6. ASSUME NEW c \in CIDs, remove_con_node(c) PROVE TypeOK'
  <2> DEFINE t == Search(c)
  <2>1. ASSUME RemoveOnly(t), t \in allocated PROVE TypeOK'
    BY <1>0, <2>1, <1>b DEF RemoveOnly, Freed, TypeOK
  <2>2. ASSUME RemoveHead(t), t \in allocated PROVE TypeOK'
    BY <1>0, <2>2, <1>b, <1>c DEF RemoveHead, Freed, TypeOK
  <2>3. ASSUME RemoveLast(t), t \in allocated PROVE TypeOK'
    BY <1>0, <2>3, <1>b, <1>c DEF RemoveLast, Freed, TypeOK
  <2>4. ASSUME Relink(t), t \in allocated PROVE TypeOK'
    BY <1>0, <2>4, <1>b, <1>c DEF Relink, Freed, TypeOK
  <2> HIDE DEF t
  <2>5. CASE Crash(current) \/ Crash(t)
    BY <2>5, <1>c
  <2>6. CASE /\ Found(c)
             /\ \/ c = cid(current) /\ RemoveAtCursor(t)
                \/ c > cid(current) /\ RemoveRight(t)
                \/ c < cid(current) /\ RemoveLeft(t)
    <3>1. t \in allocated
      BY <2>6 DEF Found, t
    <3> QED
      BY <2>1, <2>2, <2>3, <2>4, <2>6, <3>1 DEF RemoveAtCursor, RemoveRight, RemoveLeft
  <2> QED
    BY <1>6, <2>5, <2>6 DEF remove_con_node, t
<1>7. CASE UNCHANGED vars
  BY <1>7 DEF vars, pointers, TypeOK
<1>8. CASE Next
  <2>1. PICK c \in CIDs : \/ \E a \in Addrs \ allocated : insert_con_node(a, c)
                          \/ find_con_node(c)
                          \/ remove_con_node(c)
    BY <1>8 DEF Next
  <2>2. ASSUME NEW a \in Addrs \ allocated, insert_con_node(a, c) PROVE TypeOK'
    BY <2>2, <1>1, <1>2, <1>3, <1>4, <1>c DEF insert_con_node, InsertLost
  <2> QED
    BY <2>1, <2>2, <1>5, <1>6
<1> QED
  BY <1>7, <1>8

-----------------------------------------------------------------------------
(* Linking in and unlinking a node.                                        *)

\* s with a in front of its j-th node, or behind its last.
With(s, j, a) == [i \in 1 .. Len(s) + 1 |-> IF i < j THEN s[i] ELSE IF i = j THEN a ELSE s[i - 1]]

\* s without its j-th node.
Without(s, j) == [i \in 1 .. Len(s) - 1 |-> IF i < j THEN s[i] ELSE s[i + 1]]

\* Node a with ID c is linked into s, at its place in the order.
LinksIn(s, j, a, c) ==
  /\ allocated' = allocated \cup {a}
  /\ heap'[a].cid = c
  /\ heap'[a].previous = IF j = 1 THEN NULL ELSE s[j - 1]
  /\ heap'[a].next = IF j = Len(s) + 1 THEN NULL ELSE s[j]
  /\ \A i \in 1 .. Len(s) :
       /\ heap'[s[i]].cid = cid(s[i])
       /\ heap'[s[i]].previous = IF i = j THEN a ELSE heap[s[i]].previous
       /\ heap'[s[i]].next = IF i = j - 1 THEN a ELSE heap[s[i]].next
  /\ head' = IF j = 1 THEN a ELSE head
  /\ last' = IF j = Len(s) + 1 THEN a ELSE last
  /\ current' = a
  /\ \A i \in 1 .. Len(s) : IF i < j THEN cid(s[i]) <= c ELSE c <= cid(s[i])

\* The j-th node of s is unlinked and freed.
LinksOut(s, j) ==
  /\ allocated' = allocated \ {s[j]}
  /\ \A i \in 1 .. Len(s) : i # j =>
       /\ heap'[s[i]].cid = cid(s[i])
       /\ heap'[s[i]].previous = IF i # j + 1 THEN heap[s[i]].previous
                                 ELSE IF j = 1 THEN NULL ELSE s[j - 1]
       /\ heap'[s[i]].next = IF i # j - 1 THEN heap[s[i]].next
                             ELSE IF j = Len(s) THEN NULL ELSE s[j + 1]
  /\ head' = IF j # 1 THEN head ELSE IF Len(s) = 1 THEN NULL ELSE s[2]
  /\ last' = IF j # Len(s) THEN last ELSE IF Len(s) = 1 THEN NULL ELSE s[Len(s) - 1]
  /\ current' = IF j < Len(s) THEN s[j + 1] ELSE IF Len(s) = 1 THEN NULL ELSE s[Len(s) - 1]

LEMMA LinkedIn ==
  ASSUME TypeOK, NEW s, IsList(s), NEW j \in 1 .. Len(s) + 1,
         NEW a \in Addrs \ allocated, NEW c \in Nat, LinksIn(s, j, a, c)
  PROVE  IsList(With(s, j, a))'
<1> DEFINE t == With(s, j, a)
           n == Len(s)
<1>0. /\ n \in Nat /\ s \in [1 .. n -> allocated]
      /\ \A i \in 1 .. n : s[i] \in allocated /\ cid(s[i]) \in Nat
      /\ (s = <<>> <=> n = 0)
  BY ListIsSeq, ListLinks, IDsOf
<1>1. t \in [1 .. n + 1 -> allocated']
  <2> SUFFICES ASSUME NEW i \in 1 .. n + 1
               PROVE  (IF i < j THEN s[i] ELSE IF i = j THEN a ELSE s[i - 1]) \in allocated'
    BY DEF With
  <2>1. CASE i < j
    <3>1. i \in 1 .. n
      BY <1>0, <2>1
    <3> QED
      BY <1>0, <2>1, <3>1 DEF LinksIn
  <2>2. CASE i = j
    BY <2>2 DEF LinksIn
  <2>3. CASE i > j
    <3>1. i - 1 \in 1 .. n
      BY <1>0, <2>3
    <3> QED
      BY <1>0, <2>3, <3>1 DEF LinksIn
  <2> QED
    BY <2>1, <2>2, <2>3
<1>2. t \in Seq(allocated') /\ Len(t) = n + 1 /\ t # <<>>
  <2>1. t \in Seq(allocated') /\ Len(t) = n + 1
    <3> HIDE DEF t
    <3> QED
      BY <1>0, <1>1, SeqOfLen
  <2> QED
    BY <1>0, <2>1, EmptySeq
<1>3. \A i \in 1 .. n + 1 : t[i] = IF i < j THEN s[i] ELSE IF i = j THEN a ELSE s[i - 1]
  BY DEF With
<1> HIDE DEF t
<1>4. ASSUME NEW i \in 1 .. n
      PROVE  heap'[t[i]].next = t[i + 1] /\ heap'[t[i + 1]].previous = t[i]
  <2>0. i \in 1 .. n + 1 /\ i + 1 \in 1 .. n + 1 /\ i + 1 - 1 = i /\ i # i + 1
    BY <1>0
  <2>1. CASE i < j - 1
    <3>1. i < j /\ i + 1 < j /\ i + 1 \in 1 .. n /\ i + 1 # 1 /\ i # n /\ i < n /\ i # j - 1 /\ i + 1 # j
      BY <1>0, <2>1
    <3>2. t[i] = s[i] /\ t[i + 1] = s[i + 1]
      BY <1>3, <2>0, <3>1
    <3>3. heap[s[i]].next = s[i + 1]
      BY <3>1, ListLinks
    <3>4. heap[s[i + 1]].previous = s[i]
      BY <3>1, ListLinks DEF IsList, IsLinked
    <3>5. heap'[s[i]].next = heap[s[i]].next
      BY <3>1 DEF LinksIn
    <3>6. heap'[s[i + 1]].previous = heap[s[i + 1]].previous
      BY <3>1 DEF LinksIn
    <3> QED
      BY <3>2, <3>3, <3>4, <3>5, <3>6
  <2>2. CASE i = j - 1
    <3>1. i < j /\ i + 1 = j /\ j # 1
      BY <1>0, <2>2
    <3>2. t[i] = s[i] /\ t[i + 1] = a
      BY <1>3, <2>0, <3>1
    <3>3. heap'[s[i]].next = a
      BY <2>2 DEF LinksIn
    <3>4. heap'[a].previous = s[i]
      BY <2>2, <3>1 DEF LinksIn
    <3> QED
      BY <3>2, <3>3, <3>4
  <2>3. CASE i = j
    <3>1. ~(i + 1 < j) /\ i + 1 # j /\ j # n + 1
      BY <1>0, <2>3
    <3>2. t[i] = a /\ t[i + 1] = s[i]
      BY <1>3, <2>0, <2>3, <3>1
    <3>3. heap'[a].next = s[i]
      BY <2>3, <3>1 DEF LinksIn
    <3>4. heap'[s[i]].previous = a
      BY <2>3 DEF LinksIn
    <3> QED
      BY <3>2, <3>3, <3>4
  <2>4. CASE i > j
    <3>1. ~(i < j) /\ ~(i + 1 < j) /\ i # j /\ i + 1 # j /\ i - 1 \in 1 .. n /\ i > 1
          /\ i - 1 # j - 1 /\ i - 1 < n /\ (i - 1) + 1 = i
      BY <1>0, <2>4
    <3>2. t[i] = s[i - 1] /\ t[i + 1] = s[i]
      BY <1>3, <2>0, <3>1
    <3>3. heap[s[i]].previous = s[i - 1]
      BY <3>1, ListLinks
    <3>4. heap[s[i - 1]].next = s[i]
      <4>1. heap[s[i - 1]].next = s[(i - 1) + 1]
        BY <3>1, ListLinks
      <4> QED
        BY <3>1, <4>1
    <3>5. heap'[s[i]].previous = heap[s[i]].previous
      BY <3>1 DEF LinksIn
    <3>6. heap'[s[i - 1]].next = heap[s[i - 1]].next
      BY <3>1 DEF LinksIn
    <3> QED
      BY <3>2, <3>3, <3>4, <3>5, <3>6
  <2> QED
    BY <1>0, <2>1, <2>2, <2>3, <2>4
<1>5. ASSUME NEW i \in 1 .. n + 1, NEW k \in 1 .. n + 1, i <= k
      PROVE  heap'[t[i]].cid <= heap'[t[k]].cid
  <2> DEFINE before(m) == IF m < j THEN m ELSE m - 1
  <2>1. \A m \in 1 .. n + 1 : m # j => before(m) \in 1 .. n /\ t[m] = s[before(m)]
    <3> SUFFICES ASSUME NEW m \in 1 .. n + 1, m # j
                 PROVE  before(m) \in 1 .. n /\ t[m] = s[before(m)]
      OBVIOUS
    <3>1. CASE m < j
      BY <1>0, <1>3, <3>1
    <3>2. CASE ~(m < j)
      BY <1>0, <1>3, <3>2
    <3> QED
      BY <3>1, <3>2
  <2>2. \A m \in 1 .. n + 1 : heap'[t[m]].cid = IF m = j THEN c ELSE cid(s[before(m)])
    <3> SUFFICES ASSUME NEW m \in 1 .. n + 1
                 PROVE  heap'[t[m]].cid = IF m = j THEN c ELSE cid(s[before(m)])
      OBVIOUS
    <3>1. CASE m = j
      BY <1>3, <3>1 DEF LinksIn
    <3>2. CASE m # j
      <4> HIDE DEF before
      <4> QED
        BY <2>1, <3>2 DEF LinksIn
    <3> QED
      BY <3>1, <3>2
  <2>3. CASE i = k
    <3>1. heap'[t[i]].cid \in Nat
      <4>1. i # j => cid(s[before(i)]) \in Nat
        <5> HIDE DEF before
        <5> QED
          BY <1>0, <2>1
      <4> HIDE DEF before
      <4> QED
        BY <2>2, <4>1
    <3> QED
      BY <2>3, <3>1
  <2>4. CASE i # k /\ i = j
    <3>1. ~(k < j) /\ k # j /\ before(k) >= j
      BY <1>0, <2>4, <1>5
    <3>2. before(k) \in 1 .. n
      BY <2>1, <3>1
    <3> HIDE DEF before
    <3>3. c <= cid(s[before(k)])
      BY <1>0, <3>1, <3>2 DEF LinksIn
    <3> QED
      BY <2>2, <2>4, <3>1, <3>3
  <2>5. CASE i # k /\ k = j
    <3>1. i # j /\ before(i) < j
      BY <1>0, <2>5, <1>5
    <3>2. before(i) \in 1 .. n
      BY <2>1, <3>1
    <3> HIDE DEF before
    <3>3. cid(s[before(i)]) <= c
      BY <1>0, <3>1, <3>2 DEF LinksIn
    <3> QED
      BY <2>2, <2>5, <3>1, <3>3
  <2>6. CASE i # j /\ k # j
    <3>1. before(i) <= before(k)
      BY <1>0, <1>5
    <3>2. before(i) \in 1 .. n /\ before(k) \in 1 .. n
      BY <2>1, <2>6
    <3> HIDE DEF before
    <3>3. cid(s[before(i)]) <= cid(s[before(k)])
      BY <3>1, <3>2, IDsOf
    <3> QED
      BY <2>2, <2>6, <3>3
  <2> QED
    BY <2>3, <2>4, <2>5, <2>6
<1>6. IsLinked(t)'
  <2>1. n + 1 - 1 = n
    BY <1>0
  <2> QED
    BY <1>2, <1>4, <1>5, <2>1 DEF IsLinked, cid
<1>7. HasEnds(t)'
  <2>0. 1 \in 1 .. n + 1 /\ n + 1 \in 1 .. n + 1 /\ j \in 1 .. n + 1
    BY <1>0
  <2>1. head' = t[1] /\ heap'[t[1]].previous = NULL
    <3>1. CASE j = 1
      <4>1. t[1] = a
        BY <1>3, <2>0, <3>1
      <4> QED
        BY <3>1, <4>1 DEF LinksIn
    <3>2. CASE j # 1
      <4>1. 1 < j /\ 1 \in 1 .. n /\ s # <<>>
        BY <1>0, <3>2
      <4>2. t[1] = s[1] /\ head' = head
        BY <1>3, <2>0, <3>2, <4>1 DEF LinksIn
      <4>3. head = s[1] /\ heap[s[1]].previous = NULL
        BY <4>1 DEF IsList, HasEnds
      <4>4. heap'[s[1]].previous = heap[s[1]].previous
        BY <3>2, <4>1 DEF LinksIn
      <4> QED
        BY <4>2, <4>3, <4>4
    <3> QED
      BY <3>1, <3>2
  <2>2. last' = t[n + 1] /\ heap'[t[n + 1]].next = NULL
    <3>1. CASE j = n + 1
      <4>1. t[n + 1] = a
        BY <1>3, <2>0, <3>1
      <4> QED
        BY <3>1, <4>1 DEF LinksIn
    <3>2. CASE j # n + 1
      <4>1. ~(n + 1 < j) /\ n + 1 # j /\ n + 1 - 1 = n /\ n \in 1 .. n /\ s # <<>> /\ n # j - 1
        BY <1>0, <3>2
      <4>2. t[n + 1] = s[n] /\ last' = last
        BY <1>3, <2>0, <3>2, <4>1 DEF LinksIn
      <4>3. last = s[n] /\ heap[s[n]].next = NULL
        BY <4>1 DEF IsList, HasEnds
      <4>4. heap'[s[n]].next = heap[s[n]].next
        BY <4>1 DEF LinksIn
      <4> QED
        BY <4>2, <4>3, <4>4
    <3> QED
      BY <3>1, <3>2
  <2>3. current' = t[j]
    BY <1>3, <2>0 DEF LinksIn
  <2>4. \E k \in 1 .. Len(t) : current' = t[k]
    BY <1>2, <2>0, <2>3
  <2> QED
    BY <1>2, <2>1, <2>2, <2>4 DEF HasEnds
<1> QED
  BY <1>2, <1>6, <1>7 DEF IsList, t

LEMMA LinkedOut ==
  ASSUME TypeOK, NEW s, IsList(s), NEW j \in 1 .. Len(s), LinksOut(s, j)
  PROVE  IsList(Without(s, j))'
<1> DEFINE t == Without(s, j)
           n == Len(s)
           old(m) == IF m < j THEN m ELSE m + 1
<1>0. /\ n \in Nat /\ n >= 1 /\ s \in [1 .. n -> allocated]
      /\ \A i \in 1 .. n : s[i] \in allocated /\ cid(s[i]) \in Nat
      /\ \A i, k \in 1 .. n : s[i] = s[k] => i = k
      /\ n - 1 \in Nat
  <2>1. n \in Nat /\ s \in [1 .. n -> allocated]
    BY ListIsSeq
  <2>2. n >= 1 /\ n - 1 \in Nat
    BY <2>1
  <2>3. \A i \in 1 .. n : s[i] \in allocated /\ cid(s[i]) \in Nat
    BY ListLinks, IDsOf
  <2>4. \A i, k \in 1 .. n : s[i] = s[k] => i = k
    BY ListIsDistinct
  <2> QED
    BY <2>1, <2>2, <2>3, <2>4
<1>n. n \in Nat /\ j \in 1 .. n
  BY <1>0
<1>1. \A m \in 1 .. n - 1 : old(m) \in 1 .. n /\ old(m) # j /\ t[m] = s[old(m)]
  <2> SUFFICES ASSUME NEW m \in 1 .. n - 1
               PROVE  old(m) \in 1 .. n /\ old(m) # j /\ t[m] = s[old(m)]
    OBVIOUS
  <2>1. t[m] = IF m < j THEN s[m] ELSE s[m + 1]
    BY DEF Without
  <2> HIDE DEF t
  <2> QED
    BY <1>0, <2>1
<1>2. t \in [1 .. n - 1 -> allocated']
  <2>1. t = [m \in 1 .. n - 1 |-> t[m]]
    BY DEF Without
  <2>2. \A m \in 1 .. n - 1 : t[m] \in allocated'
    <3> HIDE DEF t, old
    <3> QED
      BY <1>0, <1>1 DEF LinksOut
  <2> HIDE DEF t
  <2> QED
    BY <2>1, <2>2
<1>3. t \in Seq(allocated') /\ Len(t) = n - 1 /\ (t = <<>> <=> n = 1)
  <2>1. t \in Seq(allocated') /\ Len(t) = n - 1
    <3>1. n - 1 \in Nat
      BY <1>0
    <3> HIDE DEF t, n
    <3> QED
      BY <1>2, <3>1, SeqOfLen
  <2>2. t = <<>> => n - 1 = 0
    <3> HIDE DEF t
    <3> QED
      BY <2>1, EmptySeq
  <2>3. t # <<>> => n - 1 # 0
    <3> HIDE DEF t
    <3> QED
      BY <2>1, EmptySeq
  <2> HIDE DEF t
  <2> QED
    BY <1>0, <2>1, <2>2, <2>3
<1>4. ASSUME NEW i \in 1 .. n - 2
      PROVE  heap'[t[i]].next = t[i + 1] /\ heap'[t[i + 1]].previous = t[i]
  <2>0. i \in 1 .. n - 1 /\ i + 1 \in 1 .. n - 1 /\ i \in 1 .. n /\ i + 1 \in 1 .. n
        /\ i + 2 \in 1 .. n /\ i < n /\ i + 1 < n /\ (i + 1) + 1 = i + 2
    BY <1>0
  <2>1. CASE i + 1 < j
    <3>1. old(i) = i /\ old(i + 1) = i + 1 /\ i # j /\ i + 1 # j /\ i # j - 1 /\ i + 1 # j + 1
      BY <1>0, <2>1
    <3> HIDE DEF t, old
    <3>2. t[i] = s[i] /\ t[i + 1] = s[i + 1]
      BY <1>1, <2>0, <3>1
    <3>3. heap[s[i]].next = s[i + 1]
      BY <2>0, ListLinks
    <3>4. heap[s[i + 1]].previous = s[i]
      BY <2>0, ListLinks DEF IsList, IsLinked
    <3>5. heap'[s[i]].next = heap[s[i]].next
      BY <2>0, <3>1 DEF LinksOut
    <3>6. heap'[s[i + 1]].previous = heap[s[i + 1]].previous
      BY <2>0, <3>1 DEF LinksOut
    <3> QED
      BY <3>2, <3>3, <3>4, <3>5, <3>6
  <2>2. CASE i + 1 = j
    <3>1. old(i) = i /\ old(i + 1) = i + 2 /\ i # j /\ i + 2 # j /\ i = j - 1 /\ i + 2 = j + 1
          /\ j # n /\ j # 1
      BY <1>0, <2>0, <2>2
    <3> HIDE DEF t, old
    <3>2. t[i] = s[i] /\ t[i + 1] = s[i + 2]
      BY <1>1, <2>0, <3>1
    <3>5. heap'[s[i]].next = s[i + 2]
      BY <2>0, <3>1 DEF LinksOut
    <3>6. heap'[s[i + 2]].previous = s[i]
      BY <2>0, <3>1 DEF LinksOut
    <3> QED
      BY <3>2, <3>5, <3>6
  <2>3. CASE i + 1 > j
    <3>1. old(i) = i + 1 /\ old(i + 1) = i + 2 /\ i + 1 # j /\ i + 2 # j /\ i + 1 # j - 1
          /\ i + 2 # j + 1
      BY <1>0, <2>0, <2>3
    <3> HIDE DEF t, old
    <3>2. t[i] = s[i + 1] /\ t[i + 1] = s[i + 2]
      BY <1>1, <2>0, <3>1
    <3>3. heap[s[i + 1]].next = s[i + 2]
      <4>1. heap[s[i + 1]].next = s[(i + 1) + 1]
        BY <2>0, ListLinks
      <4> QED
        BY <2>0, <4>1
    <3>4. heap[s[i + 2]].previous = s[i + 1]
      <4>1. heap[s[(i + 1) + 1]].previous = s[i + 1]
        <5>1. i + 1 \in 1 .. n - 1
          BY <2>0
        <5> QED
          BY <5>1 DEF IsList, IsLinked
      <4> QED
        BY <2>0, <4>1
    <3>5. heap'[s[i + 1]].next = heap[s[i + 1]].next
      BY <2>0, <3>1 DEF LinksOut
    <3>6. heap'[s[i + 2]].previous = heap[s[i + 2]].previous
      BY <2>0, <3>1 DEF LinksOut
    <3> QED
      BY <3>2, <3>3, <3>4, <3>5, <3>6
  <2> QED
    BY <1>0, <2>1, <2>2, <2>3
<1>5. ASSUME NEW i \in 1 .. n - 1, NEW k \in 1 .. n - 1, i <= k
      PROVE  heap'[t[i]].cid <= heap'[t[k]].cid
  <2>1. old(i) <= old(k)
    BY <1>0, <1>5
  <2> HIDE DEF t, old
  <2>2. old(i) \in 1 .. n /\ old(k) \in 1 .. n
    BY <1>1
  <2>3. cid(s[old(i)]) <= cid(s[old(k)])
    BY <2>1, <2>2, IDsOf
  <2> QED
    BY <1>1, <2>2, <2>3 DEF LinksOut
<1>6. IsLinked(t)'
  <2>1. n - 1 - 1 = n - 2
    BY <1>0
  <2> HIDE DEF t
  <2> QED
    BY <1>3, <1>4, <1>5, <2>1 DEF IsLinked, cid
<1>7. ASSUME n # 1 PROVE HasEnds(t)'
  <2>0. 1 \in 1 .. n - 1 /\ n - 1 \in 1 .. n - 1 /\ s # <<>> /\ 1 \in 1 .. n /\ n \in 1 .. n
        /\ 2 \in 1 .. n /\ n - 1 \in 1 .. n /\ n # 1
    BY <1>0, <1>7, ListIsSeq
  <2>e. /\ head = s[1] /\ heap[s[1]].previous = NULL
        /\ last = s[n] /\ heap[s[n]].next = NULL
    BY <2>0 DEF IsList, HasEnds
  <2>1. head' = t[1] /\ heap'[t[1]].previous = NULL
    <3>1. CASE j = 1
      <4>1. old(1) = 2 /\ 2 # j /\ 2 = j + 1
        BY <3>1
      <4> HIDE DEF t, old
      <4>2. t[1] = s[2]
        BY <1>1, <2>0, <4>1
      <4>3. heap'[s[2]].previous = NULL /\ head' = s[2]
        BY <2>0, <3>1, <4>1 DEF LinksOut
      <4> QED
        BY <4>2, <4>3
    <3>2. CASE j # 1
      <4>1. old(1) = 1 /\ 1 # j /\ 1 # j + 1
        BY <1>0, <3>2
      <4> HIDE DEF t, old
      <4>2. t[1] = s[1]
        BY <1>1, <2>0, <4>1
      <4>3. heap'[s[1]].previous = heap[s[1]].previous /\ head' = head
        BY <2>0, <3>2, <4>1 DEF LinksOut
      <4> QED
        BY <2>e, <4>2, <4>3
    <3> QED
      BY <3>1, <3>2
  <2>2. last' = t[n - 1] /\ heap'[t[n - 1]].next = NULL
    <3>1. CASE j = n
      <4>1. old(n - 1) = n - 1 /\ n - 1 # j /\ n - 1 = j - 1
        <5> HIDE DEF t, n
        <5> QED
          BY <1>n, <3>1
      <4> HIDE DEF t, old
      <4>2. t[n - 1] = s[n - 1]
        BY <1>1, <2>0, <4>1
      <4>3. heap'[s[n - 1]].next = NULL /\ last' = s[n - 1]
        BY <2>0, <3>1, <4>1 DEF LinksOut
      <4> QED
        BY <4>2, <4>3
    <3>2. CASE j # n
      <4>1. old(n - 1) = n /\ n # j /\ n # j - 1
        <5> HIDE DEF t, n
        <5> QED
          BY <1>n, <3>2
      <4> HIDE DEF t, old
      <4>2. t[n - 1] = s[n]
        BY <1>1, <2>0, <4>1
      <4>3. heap'[s[n]].next = heap[s[n]].next /\ last' = last
        BY <2>0, <3>2, <4>1 DEF LinksOut
      <4> QED
        BY <2>e, <4>2, <4>3
    <3> QED
      BY <3>1, <3>2
  <2>3. \E k \in 1 .. n - 1 : current' = t[k]
    <3>1. CASE j < n
      <4>1. j \in 1 .. n - 1 /\ old(j) = j + 1
        BY <1>0, <3>1
      <4>2. current' = s[j + 1]
        BY <3>1 DEF LinksOut
      <4> HIDE DEF t, old
      <4>3. t[j] = s[j + 1]
        BY <1>1, <4>1
      <4> QED
        BY <4>1, <4>2, <4>3
    <3>2. CASE ~(j < n)
      <4>1. old(n - 1) = n - 1
        <5> HIDE DEF t, n
        <5> QED
          BY <1>n, <3>2
      <4>2. current' = s[n - 1]
        BY <2>0, <3>2 DEF LinksOut
      <4> HIDE DEF t, old
      <4>3. t[n - 1] = s[n - 1]
        BY <1>1, <2>0, <4>1
      <4> QED
        BY <2>0, <4>2, <4>3
    <3> QED
      BY <3>1, <3>2
  <2> HIDE DEF t
  <2> QED
    BY <1>3, <2>1, <2>2, <2>3 DEF HasEnds
<1>8. ASSUME n = 1 PROVE head' = NULL /\ last' = NULL /\ current' = NULL
  <2>1. j = 1 /\ ~(j < n)
    BY <1>8
  <2> QED
    BY <1>8, <2>1 DEF LinksOut
<1> HIDE DEF t
<1> QED
  BY <1>3, <1>6, <1>7, <1>8 DEF IsList, t

\* The cursor moves.
LEMMA CursorMoved ==
  ASSUME TypeOK, NEW s, IsList(s), NEW j \in 1 .. Len(s), current' = s[j],
         UNCHANGED <<heap, allocated, head, last>>
  PROVE  IsList(s)'
<1>1. s # <<>>
  BY ListIsSeq
<1>2. HasEnds(s)'
  BY <1>1 DEF IsList, HasEnds
<1>3. IsLinked(s)'
  BY DEF IsList, IsLinked, cid
<1> QED
  BY <1>1, <1>2, <1>3 DEF IsList

-----------------------------------------------------------------------------
(* The operations on a list: insert_con_node.                              *)

LEMMA EndsOf ==
  ASSUME TypeOK, NEW s, IsList(s), s # <<>>
  PROVE  /\ Len(s) \in Nat /\ Len(s) >= 1
         /\ head = s[1] /\ last = s[Len(s)]
         /\ head \in allocated /\ last \in allocated /\ head # NULL
         /\ 1 \in 1 .. Len(s) /\ Len(s) \in 1 .. Len(s)
<1>1. Len(s) \in Nat /\ Len(s) # 0
  BY ListIsSeq
<1>2. 1 \in 1 .. Len(s) /\ Len(s) \in 1 .. Len(s) /\ Len(s) >= 1
  BY <1>1
<1>3. head = s[1] /\ last = s[Len(s)]
  BY DEF IsList, HasEnds
<1>4. s[1] \in allocated /\ s[Len(s)] \in allocated /\ s[1] # NULL
  BY <1>2, ListLinks
<1> QED
  BY <1>1, <1>2, <1>3, <1>4

\* A pointer to an allocated node crashes nothing.
LEMMA NoCrash == \A p \in allocated : ~Crash(p)
BY DEF Crash

\* Between the nodes p - 1 and p.
LEMMA LinkedBetween ==
  ASSUME TypeOK, NEW s, IsList(s), NEW p \in 2 .. Len(s),
         NEW a \in Addrs \ allocated, NEW c \in Nat,
         allocated' = allocated \cup {a},
         heap' = [heap EXCEPT ![a] = Node(c, s[p - 1], s[p]),
                              ![s[p]].previous = a, ![s[p - 1]].next = a],
         current' = a, UNCHANGED <<head, last>>,
         \A i \in 1 .. Len(s) : IF i < p THEN cid(s[i]) <= c ELSE c <= cid(s[i])
  PROVE  LinksIn(s, p, a, c)
<1>0. /\ Len(s) \in Nat /\ p \in 1 .. Len(s) /\ p - 1 \in 1 .. Len(s) /\ p # 1 /\ p # Len(s) + 1
      /\ p # p - 1
  BY ListIsSeq
<1>1. /\ \A i \in 1 .. Len(s) : s[i] \in Addrs /\ s[i] # a
      /\ \A i, k \in 1 .. Len(s) : s[i] = s[k] => i = k
  BY ListLinks, ListIsDistinct
<1>2. s[p] \in Addrs /\ s[p - 1] \in Addrs /\ s[p] # s[p - 1] /\ s[p] # a /\ s[p - 1] # a
  BY <1>0, <1>1
<1>3. heap'[a] = Node(c, s[p - 1], s[p])
  BY <1>2 DEF TypeOK
<1>4. heap'[a].cid = c /\ heap'[a].previous = s[p - 1] /\ heap'[a].next = s[p]
  BY <1>3 DEF Node
<1>5. ASSUME NEW i \in 1 .. Len(s)
      PROVE  /\ heap'[s[i]].cid = cid(s[i])
             /\ heap'[s[i]].previous = IF i = p THEN a ELSE heap[s[i]].previous
             /\ heap'[s[i]].next = IF i = p - 1 THEN a ELSE heap[s[i]].next
  <2>1. CASE i = p
    BY <1>0, <1>2, <2>1 DEF TypeOK, cid
  <2>2. CASE i = p - 1
    BY <1>0, <1>2, <2>2 DEF TypeOK, cid
  <2>3. CASE i # p /\ i # p - 1
    <3>1. s[i] # s[p] /\ s[i] # s[p - 1] /\ s[i] # a
      BY <1>0, <1>1, <2>3
    <3>2. heap'[s[i]] = heap[s[i]]
      BY <1>1, <3>1 DEF TypeOK
    <3>3. /\ heap'[s[i]].cid = cid(s[i]) /\ heap'[s[i]].previous = heap[s[i]].previous
          /\ heap'[s[i]].next = heap[s[i]].next
      BY <3>2 DEF cid
    <3> QED
      BY <2>3, <3>3
  <2> QED
    BY <2>1, <2>2, <2>3
<1> QED
  BY <1>0, <1>4, <1>5 DEF LinksIn

\* Where the walk of an insertion at k stops: j is the place of c.
Slotted(s, k, c, j) ==
  \/ c > cid(s[k]) /\ j > k /\ \A i \in k + 1 .. j - 1 : cid(s[i]) < c
  \/ c < cid(s[k]) /\ j <= k /\ \A i \in j .. k - 1 : c < cid(s[i])

LEMMA RightInserts ==
  ASSUME TypeOK, NEW s, IsList(s), NEW k \in 1 .. Len(s), current = s[k],
         NEW a \in Addrs \ allocated, NEW c \in CIDs, InsertRight(a, c)
  PROVE  /\ \E j \in 1 .. Len(s) + 1 : LinksIn(s, j, a, c) /\ Slotted(s, k, c, j)
         /\ UNCHANGED fault
<1> DEFINE stops == {n \in allocated : c <= cid(n)}
           tmp == Walk("next", stops)
           tmp1 == heap[tmp].previous
<1>0. /\ s # <<>> /\ c \in Nat /\ Len(s) \in Nat /\ k \in Nat /\ Len(s) \in 1 .. Len(s)
      /\ \A i \in 1 .. Len(s) : s[i] \in allocated /\ s[i] \in Addrs /\ s[i] # a
      /\ \A i \in 1 .. Len(s) : cid(s[i]) \in Nat
      /\ \A i, j \in 1 .. Len(s) : i <= j => cid(s[i]) <= cid(s[j])
      /\ last = s[Len(s)]
  <2>1. s # <<>> /\ c \in Nat /\ Len(s) \in Nat /\ k \in Nat
    BY ListIsSeq, ConListAssumption
  <2>2. \A i \in 1 .. Len(s) : s[i] \in allocated /\ s[i] \in Addrs /\ s[i] # a
    BY ListLinks
  <2> QED
    BY <2>1, <2>2, IDsOf, EndsOf
<1>1. c > cid(s[k])
  BY DEF InsertRight
<1>2. PICK p \in k .. Len(s) :
         /\ Walk("next", stops) = s[p]
         /\ p = Len(s) \/ (p > k /\ s[p] \in stops)
         /\ p = k => k = Len(s)
         /\ \A i \in k + 1 .. p - 1 : s[i] \notin stops
  <2> HIDE DEF stops
  <2> QED
    BY WalkRight
<1>3. p \in 1 .. Len(s) /\ tmp = s[p]
  BY <1>0, <1>2
<1>4. \A i \in k + 1 .. p - 1 : cid(s[i]) < c
  <2> SUFFICES ASSUME NEW i \in k + 1 .. p - 1 PROVE cid(s[i]) < c
    OBVIOUS
  <2>1. i \in 1 .. Len(s)
    BY <1>0, <1>3
  <2>2. s[i] \notin stops
    BY <1>2
  <2>3. ~(c <= cid(s[i]))
    BY <1>0, <2>1, <2>2
  <2> QED
    BY <1>0, <2>1, <2>3
<1>5. \A i \in 1 .. k : cid(s[i]) < c
  <2> SUFFICES ASSUME NEW i \in 1 .. k PROVE cid(s[i]) < c
    OBVIOUS
  <2>1. i \in 1 .. Len(s) /\ i <= k
    BY <1>0
  <2>2. cid(s[i]) <= cid(s[k]) /\ cid(s[i]) \in Nat /\ cid(s[k]) \in Nat
    BY <1>0, <2>1
  <2> QED
    BY <1>0, <1>1, <2>2
<1>t. tmp \in allocated
  BY <1>0, <1>3
<1>6. CASE tmp = last /\ c > cid(last)
  <2>1. /\ allocated' = allocated \cup {a}
        /\ heap' = [heap EXCEPT ![s[Len(s)]].next = a, ![a] = Node(c, s[Len(s)], NULL)]
        /\ last' = a /\ current' = a
        /\ UNCHANGED <<head, fault>>
    BY <1>0, <1>6, <1>t, NoCrash DEF InsertRight
  <2>2. \A i \in 1 .. Len(s) : cid(s[i]) < c
    <3> SUFFICES ASSUME NEW i \in 1 .. Len(s) PROVE cid(s[i]) < c
      OBVIOUS
    <3>1. cid(s[i]) <= cid(s[Len(s)]) /\ cid(s[i]) \in Nat /\ cid(s[Len(s)]) \in Nat
      BY <1>0
    <3> QED
      BY <1>0, <1>6, <3>1
  <2> DEFINE n == Len(s)
  <2>3. n \in Nat /\ n + 1 # 1 /\ n + 1 - 1 = n /\ n + 1 > k /\ n + 1 \in 1 .. n + 1
        /\ \A i \in 1 .. n : i < n + 1 /\ i # n + 1
    BY <1>0
  <2>4. heap'[a] = Node(c, s[n], NULL)
    BY <1>0, <2>1 DEF TypeOK
  <2>5. heap'[a].cid = c /\ heap'[a].previous = s[n] /\ heap'[a].next = NULL
    BY <2>4 DEF Node
  <2>6. \A i \in 1 .. n : i # n => s[i] # s[n]
    BY <1>0, ListIsDistinct
  <2>7. ASSUME NEW i \in 1 .. n
        PROVE  /\ heap'[s[i]].cid = cid(s[i]) /\ heap'[s[i]].previous = heap[s[i]].previous
               /\ heap'[s[i]].next = IF i = n THEN a ELSE heap[s[i]].next
    <3>1. CASE i = n
      BY <1>0, <2>1, <3>1 DEF TypeOK, cid
    <3>2. CASE i # n
      <4>1. heap'[s[i]] = heap[s[i]]
        BY <1>0, <2>1, <2>6, <3>2 DEF TypeOK
      <4> QED
        BY <3>2, <4>1 DEF cid
    <3> QED
      BY <3>1, <3>2
  <2>8. \A i \in 1 .. n : cid(s[i]) <= c
    BY <1>0, <2>2
  <2> HIDE DEF n
  <2>9. LinksIn(s, n + 1, a, c)
    <3>0. PICK q \in 1 .. n + 1 : q = n + 1
      BY <2>3
    <3>1. /\ allocated' = allocated \cup {a} /\ head' = head /\ last' = a /\ current' = a
      BY <2>1
    <3>2. \A i \in 1 .. n : IF i < q THEN cid(s[i]) <= c ELSE c <= cid(s[i])
      BY <2>3, <2>8, <3>0
    <3>3. \A i \in 1 .. n :
            /\ heap'[s[i]].cid = cid(s[i])
            /\ heap'[s[i]].previous = IF i = q THEN a ELSE heap[s[i]].previous
            /\ heap'[s[i]].next = IF i = q - 1 THEN a ELSE heap[s[i]].next
      BY <2>3, <2>7, <3>0
    <3>4. q # 1 /\ q - 1 = n /\ q = Len(s) + 1
      BY <2>3, <3>0 DEF n
    <3>5. LinksIn(s, q, a, c)
      BY <2>5, <3>1, <3>2, <3>3, <3>4 DEF LinksIn, n
    <3> QED
      BY <3>0, <3>5
  <2>10. Slotted(s, k, c, n + 1)
    <3>1. \A i \in k + 1 .. n + 1 - 1 : i \in 1 .. n
      BY <1>0, <2>3 DEF n
    <3> QED
      BY <1>1, <2>2, <2>3, <3>1 DEF Slotted, n
  <2> QED
    BY <2>1, <2>3, <2>9, <2>10 DEF n
<1>7. CASE ~(tmp = last /\ c > cid(last))
  <2>1. c <= cid(s[p])
    <3>1. CASE p = Len(s)
      <4>1. ~(c > cid(s[p]))
        BY <1>0, <1>3, <1>7, <3>1
      <4> QED
        BY <1>0, <1>3, <4>1
    <3>2. CASE p # Len(s)
      BY <1>2, <3>2
    <3> QED
      BY <3>1, <3>2
  <2>2. p # k
    <3>1. cid(s[p]) \in Nat /\ cid(s[k]) \in Nat
      BY <1>0, <1>3
    <3> QED
      BY <1>0, <1>1, <2>1, <3>1
  <2>3. p > k /\ p \in 2 .. Len(s) /\ p > 1 /\ p \in 1 .. Len(s) + 1
    BY <1>0, <1>2, <2>2
  <2>4. tmp1 = s[p - 1] /\ p - 1 \in 1 .. Len(s) /\ s[p - 1] \in allocated
    <3>1. heap[s[p]].previous = s[p - 1] /\ p - 1 \in 1 .. Len(s)
      BY <1>3, <2>3, ListLinks
    <3>2. s[p - 1] \in allocated
      BY <1>0, <3>1
    <3> HIDE DEF tmp
    <3> QED
      BY <1>3, <3>1, <3>2
  <2>5. /\ allocated' = allocated \cup {a}
        /\ heap' = [heap EXCEPT ![a] = Node(c, tmp1, tmp), ![tmp].previous = a, ![tmp1].next = a]
        /\ current' = a
        /\ UNCHANGED <<head, last, fault>>
    <3>1. tmp1 \in allocated
      <4> HIDE DEF tmp1
      <4> QED
        BY <2>4
    <3> QED
      BY <1>0, <1>7, <1>t, <3>1, NoCrash DEF InsertRight
  <2>6. heap' = [heap EXCEPT ![a] = Node(c, s[p - 1], s[p]),
                             ![s[p]].previous = a, ![s[p - 1]].next = a]
    <3> HIDE DEF tmp, tmp1
    <3> QED
      BY <1>3, <2>4, <2>5
  <2>7. \A i \in 1 .. Len(s) : IF i < p THEN cid(s[i]) <= c ELSE c <= cid(s[i])
    <3> SUFFICES ASSUME NEW i \in 1 .. Len(s)
                 PROVE  IF i < p THEN cid(s[i]) <= c ELSE c <= cid(s[i])
      OBVIOUS
    <3>1. CASE i < p
      <4>1. i \in 1 .. k \/ i \in k + 1 .. p - 1
        BY <1>0, <1>3, <3>1
      <4>2. cid(s[i]) < c /\ cid(s[i]) \in Nat
        BY <1>0, <1>4, <1>5, <4>1
      <4> QED
        BY <1>0, <3>1, <4>2
    <3>2. CASE ~(i < p)
      <4>1. cid(s[p]) <= cid(s[i]) /\ cid(s[i]) \in Nat /\ cid(s[p]) \in Nat
        BY <1>0, <1>3, <3>2
      <4> QED
        BY <1>0, <2>1, <3>2, <4>1
    <3> QED
      BY <3>1, <3>2
  <2>8. LinksIn(s, p, a, c)
    BY <1>0, <2>3, <2>5, <2>6, <2>7, LinkedBetween
  <2>9. Slotted(s, k, c, p)
    BY <1>1, <1>4, <2>3 DEF Slotted
  <2> QED
    BY <2>3, <2>5, <2>8, <2>9
<1> QED
  BY <1>6, <1>7

LEMMA LeftInserts ==
  ASSUME TypeOK, NEW s, IsList(s), NEW k \in 1 .. Len(s), current = s[k],
         NEW a \in Addrs \ allocated, NEW c \in CIDs, InsertLeft(a, c)
  PROVE  /\ \E j \in 1 .. Len(s) + 1 : LinksIn(s, j, a, c) /\ Slotted(s, k, c, j)
         /\ UNCHANGED fault
<1> DEFINE stops == {n \in allocated : c >= cid(n)}
           tmp == Walk("previous", stops)
           tmp1 == heap[tmp].next
<1>0. /\ s # <<>> /\ c \in Nat /\ Len(s) \in Nat /\ k \in Nat /\ 1 \in 1 .. Len(s)
      /\ 1 \in 1 .. Len(s) + 1
      /\ \A i \in 1 .. Len(s) : s[i] \in allocated /\ s[i] \in Addrs /\ s[i] # a
      /\ \A i \in 1 .. Len(s) : cid(s[i]) \in Nat
      /\ \A i, j \in 1 .. Len(s) : i <= j => cid(s[i]) <= cid(s[j])
      /\ head = s[1]
  <2>1. s # <<>> /\ c \in Nat /\ Len(s) \in Nat /\ k \in Nat
    BY ListIsSeq, ConListAssumption
  <2>2. \A i \in 1 .. Len(s) : s[i] \in allocated /\ s[i] \in Addrs /\ s[i] # a
    BY ListLinks
  <2>3. 1 \in 1 .. Len(s) + 1
    BY <2>1
  <2> QED
    BY <2>1, <2>2, <2>3, IDsOf, EndsOf
<1>1. c < cid(s[k])
  BY DEF InsertLeft
<1>2. PICK p \in 1 .. k :
         /\ Walk("previous", stops) = s[p]
         /\ p = 1 \/ (p < k /\ s[p] \in stops)
         /\ p = k => k = 1
         /\ \A i \in p + 1 .. k - 1 : s[i] \notin stops
  <2> HIDE DEF stops
  <2> QED
    BY WalkLeft
<1>3. p \in 1 .. Len(s) /\ tmp = s[p]
  BY <1>0, <1>2
<1>4. \A i \in p + 1 .. k - 1 : c < cid(s[i])
  <2> SUFFICES ASSUME NEW i \in p + 1 .. k - 1 PROVE c < cid(s[i])
    OBVIOUS
  <2>1. i \in 1 .. Len(s)
    BY <1>0, <1>3
  <2>2. s[i] \notin stops
    BY <1>2
  <2>3. ~(c >= cid(s[i]))
    BY <1>0, <2>1, <2>2
  <2> QED
    BY <1>0, <2>1, <2>3
<1>5. \A i \in k .. Len(s) : c < cid(s[i])
  <2> SUFFICES ASSUME NEW i \in k .. Len(s) PROVE c < cid(s[i])
    OBVIOUS
  <2>1. i \in 1 .. Len(s) /\ k <= i
    BY <1>0
  <2>2. cid(s[k]) <= cid(s[i]) /\ cid(s[i]) \in Nat /\ cid(s[k]) \in Nat
    BY <1>0, <2>1
  <2> QED
    BY <1>0, <1>1, <2>2
<1>t. tmp \in allocated
  BY <1>0, <1>3
<1>6. CASE tmp = head /\ c < cid(head)
  <2>1. /\ allocated' = allocated \cup {a}
        /\ heap' = [heap EXCEPT ![s[1]].previous = a, ![a] = Node(c, NULL, s[1])]
        /\ head' = a /\ current' = a
        /\ UNCHANGED <<last, fault>>
    BY <1>0, <1>6, <1>t, NoCrash DEF InsertLeft
  <2>2. \A i \in 1 .. Len(s) : c < cid(s[i])
    <3> SUFFICES ASSUME NEW i \in 1 .. Len(s) PROVE c < cid(s[i])
      OBVIOUS
    <3>1. cid(s[1]) <= cid(s[i]) /\ cid(s[i]) \in Nat /\ cid(s[1]) \in Nat
      BY <1>0
    <3> QED
      BY <1>0, <1>6, <3>1
  <2>4. heap'[a] = Node(c, NULL, s[1])
    BY <1>0, <2>1 DEF TypeOK
  <2>5. heap'[a].cid = c /\ heap'[a].previous = NULL /\ heap'[a].next = s[1]
    BY <2>4 DEF Node
  <2>6. \A i \in 1 .. Len(s) : i # 1 => s[i] # s[1]
    BY <1>0, ListIsDistinct
  <2>7. ASSUME NEW i \in 1 .. Len(s)
        PROVE  /\ heap'[s[i]].cid = cid(s[i]) /\ heap'[s[i]].next = heap[s[i]].next
               /\ heap'[s[i]].previous = IF i = 1 THEN a ELSE heap[s[i]].previous
    <3>1. CASE i = 1
      BY <1>0, <2>1, <3>1 DEF TypeOK, cid
    <3>2. CASE i # 1
      <4>1. heap'[s[i]] = heap[s[i]]
        BY <1>0, <2>1, <2>6, <3>2 DEF TypeOK
      <4> QED
        BY <3>2, <4>1 DEF cid
    <3> QED
      BY <3>1, <3>2
  <2>8. /\ 1 # Len(s) + 1 /\ 1 - 1 = 0
        /\ \A i \in 1 .. Len(s) : ~(i < 1) /\ i # 0 /\ c <= cid(s[i])
    BY <1>0, <2>2
  <2>9. LinksIn(s, 1, a, c)
    <3>1. /\ allocated' = allocated \cup {a} /\ head' = a /\ last' = last /\ current' = a
      BY <2>1
    <3> QED
      BY <2>5, <2>7, <2>8, <3>1 DEF LinksIn
  <2>10. Slotted(s, k, c, 1)
    <3>1. \A i \in 1 .. k - 1 : i \in 1 .. Len(s)
      BY <1>0
    <3> QED
      BY <1>0, <1>1, <2>2, <3>1 DEF Slotted
  <2> QED
    BY <1>0, <2>1, <2>9, <2>10
<1>7. CASE ~(tmp = head /\ c < cid(head))
  <2>1. cid(s[p]) <= c
    <3>1. CASE p = 1
      <4>1. ~(c < cid(s[p]))
        BY <1>0, <1>3, <1>7, <3>1
      <4> QED
        BY <1>0, <1>3, <4>1
    <3>2. CASE p # 1
      <4>1. c >= cid(s[p])
        BY <1>2, <3>2
      <4> QED
        BY <1>0, <1>3, <4>1
    <3> QED
      BY <3>1, <3>2
  <2>2. p # k
    <3>1. cid(s[p]) \in Nat /\ cid(s[k]) \in Nat
      BY <1>0, <1>3
    <3> QED
      BY <1>0, <1>1, <2>1, <3>1
  <2>3. p < k /\ p < Len(s)
    BY <1>0, <1>2, <2>2
  <2>p. PICK q \in 2 .. Len(s) : q = p + 1
    BY <1>0, <1>2, <2>3
  <2>q. q - 1 = p /\ q <= k /\ q \in 1 .. Len(s) /\ q \in 1 .. Len(s) + 1
    BY <1>0, <1>2, <2>3, <2>p
  <2>4. tmp1 = s[q] /\ s[q] \in allocated
    <3>1. heap[s[p]].next = s[p + 1]
      BY <1>3, <2>3, ListLinks
    <3>2. s[q] \in allocated
      BY <1>0, <2>q
    <3> HIDE DEF tmp
    <3> QED
      BY <1>3, <2>p, <3>1, <3>2
  <2>5. /\ allocated' = allocated \cup {a}
        /\ heap' = [heap EXCEPT ![a] = Node(c, tmp, tmp1), ![tmp1].previous = a, ![tmp].next = a]
        /\ current' = a
        /\ UNCHANGED <<head, last, fault>>
    <3>1. tmp1 \in allocated
      <4> HIDE DEF tmp1
      <4> QED
        BY <2>4
    <3> QED
      BY <1>0, <1>7, <1>t, <3>1, NoCrash DEF InsertLeft
  <2>6. heap' = [heap EXCEPT ![a] = Node(c, s[q - 1], s[q]),
                             ![s[q]].previous = a, ![s[q - 1]].next = a]
    <3> HIDE DEF tmp, tmp1
    <3> QED
      BY <1>3, <2>4, <2>5, <2>q
  <2>7. \A i \in 1 .. Len(s) : IF i < q THEN cid(s[i]) <= c ELSE c <= cid(s[i])
    <3> SUFFICES ASSUME NEW i \in 1 .. Len(s)
                 PROVE  IF i < q THEN cid(s[i]) <= c ELSE c <= cid(s[i])
      OBVIOUS
    <3>1. CASE i < q
      <4>1. i <= p
        BY <1>0, <1>3, <2>p, <3>1
      <4>2. cid(s[i]) <= cid(s[p]) /\ cid(s[i]) \in Nat /\ cid(s[p]) \in Nat
        BY <1>0, <1>3, <4>1
      <4> QED
        BY <1>0, <2>1, <3>1, <4>2
    <3>2. CASE ~(i < q)
      <4>1. i \in p + 1 .. k - 1 \/ i \in k .. Len(s)
        BY <1>0, <1>3, <2>p, <3>2
      <4>2. c < cid(s[i]) /\ cid(s[i]) \in Nat
        BY <1>0, <1>4, <1>5, <4>1
      <4> QED
        BY <1>0, <3>2, <4>2
    <3> QED
      BY <3>1, <3>2
  <2>8. LinksIn(s, q, a, c)
    BY <1>0, <2>5, <2>6, <2>7, LinkedBetween
  <2>9. Slotted(s, k, c, q)
    BY <1>1, <1>4, <2>p, <2>q DEF Slotted
  <2> QED
    BY <2>5, <2>8, <2>9, <2>q
<1> QED
  BY <1>6, <1>7

LEMMA FirstInserted ==
  ASSUME TypeOK, NEW s, IsList(s), NEW a \in Addrs \ allocated, NEW c \in CIDs, InsertEmpty(a, c)
  PROVE  s = <<>> /\ LinksIn(s, 1, a, c) /\ UNCHANGED fault
<1>1. s = <<>> /\ Len(s) = 0
  BY EndsOf, ListIsSeq DEF InsertEmpty
<1>2. heap'[a] = Node(c, NULL, NULL)
  BY DEF InsertEmpty, TypeOK
<1>3. heap'[a].cid = c /\ heap'[a].previous = NULL /\ heap'[a].next = NULL
  BY <1>2 DEF Node
<1> QED
  BY <1>1, <1>3 DEF InsertEmpty, LinksIn

\* The node of a dropped insertion is the caller's.
LEMMA DroppedKeepsList ==
  ASSUME TypeOK, NEW s, IsList(s), NEW a \in Addrs \ allocated, NEW c \in CIDs, InsertDropped(a, c)
  PROVE  /\ IsList(s)' /\ UNCHANGED <<head, last, current, fault>>
         /\ \A i \in 1 .. Len(s) : heap'[s[i]].cid = cid(s[i])
<1>1. Len(s) \in Nat /\ \A i \in 1 .. Len(s) : s[i] \in allocated /\ s[i] \in Addrs /\ s[i] # a
  BY ListIsSeq, ListLinks
<1>2. \A i \in 1 .. Len(s) : heap'[s[i]] = heap[s[i]]
  BY <1>1 DEF InsertDropped, TypeOK
<1>3. UNCHANGED <<head, last, current, fault>> /\ allocated' = allocated \cup {a}
  BY DEF InsertDropped, pointers
<1>4. s \in Seq(allocated')
  <2>1. s \in [1 .. Len(s) -> allocated']
    BY <1>3, ListIsSeq
  <2> QED
    BY <1>1, <2>1, SeqDef
<1>5. IsLinked(s)'
  <2>1. \A i \in 1 .. Len(s) - 1 : i \in 1 .. Len(s) /\ i + 1 \in 1 .. Len(s)
    BY <1>1
  <2> QED
    BY <1>2, <2>1 DEF IsList, IsLinked, cid
<1>6. s # <<>> => HasEnds(s)'
  BY <1>2, <1>3, EndsOf DEF IsList, HasEnds
<1> QED
  BY <1>2, <1>3, <1>4, <1>5, <1>6 DEF IsList, cid

-----------------------------------------------------------------------------
(* The operations on a list: remove_con_node.                              *)

LEMMA OnlyRemoved ==
  ASSUME TypeOK, NEW s, IsList(s), NEW k \in 1 .. Len(s), current = s[k], RemoveOnly(current)
  PROVE  k = 1 /\ Len(s) = 1 /\ LinksOut(s, 1) /\ UNCHANGED fault
<1>1. heap[s[k]].next = NULL /\ heap[s[k]].previous = NULL
  BY DEF RemoveOnly
<1>2. Len(s) \in Nat
  BY ListIsSeq
<1>3. k = 1
  <2>1. ~(k > 1)
    BY <1>1, ListLinks
  <2> QED
    BY <2>1
<1>4. k = Len(s)
  <2>1. ~(k < Len(s))
    BY <1>1, ListLinks
  <2> QED
    BY <1>2, <2>1
<1>5. /\ head' = NULL /\ last' = NULL /\ current' = NULL
      /\ allocated' = allocated \ {s[1]} /\ UNCHANGED fault
  BY <1>3 DEF RemoveOnly, Freed
<1>6. Len(s) = 1 /\ \A i \in 1 .. Len(s) : i = 1
  BY <1>3, <1>4
<1>7. LinksOut(s, 1)
  BY <1>5, <1>6 DEF LinksOut
<1> QED
  BY <1>3, <1>5, <1>6, <1>7

LEMMA HeadRemoved ==
  ASSUME TypeOK, NEW s, IsList(s), NEW k \in 1 .. Len(s), current = s[k],
         Len(s) > 1, k = 1 \/ Len(s) = 2, RemoveHead(s[1])
  PROVE  LinksOut(s, 1) /\ UNCHANGED fault
<1>0. /\ Len(s) \in Nat /\ 1 \in 1 .. Len(s) /\ 2 \in 1 .. Len(s) /\ 1 < Len(s)
      /\ s # <<>> /\ head = s[1] /\ last = s[Len(s)]
      /\ \A i \in 1 .. Len(s) : s[i] \in allocated /\ s[i] \in Addrs
      /\ \A i, j \in 1 .. Len(s) : s[i] = s[j] => i = j
  <2>1. Len(s) \in Nat /\ 1 \in 1 .. Len(s) /\ 2 \in 1 .. Len(s) /\ 1 < Len(s) /\ s # <<>>
    BY ListIsSeq
  <2> QED
    BY <2>1, EndsOf, ListLinks, ListIsDistinct
<1>1. heap[head].next = s[2]
  <2>1. heap[s[1]].next = s[1 + 1]
    BY <1>0, ListLinks
  <2> QED
    BY <1>0, <2>1
<1>2. (IF s[1] = current THEN heap[head].next ELSE last) = s[2]
  <2>1. CASE k = 1
    BY <1>1, <2>1
  <2>2. CASE k # 1
    <3>1. Len(s) = 2 /\ s[1] # s[k]
      BY <1>0, <2>2
    <3> QED
      BY <1>0, <3>1
  <2> QED
    BY <2>1, <2>2
<1>3. /\ head' = s[2] /\ current' = s[2]
      /\ allocated' = allocated \ {s[1]}
      /\ heap' = [[heap EXCEPT ![s[2]].previous = NULL] EXCEPT ![s[1]] = Blank]
      /\ UNCHANGED <<last, fault>>
  BY <1>0, <1>1, <1>2, NoCrash DEF RemoveHead, Freed
<1>4. ASSUME NEW i \in 1 .. Len(s), i # 1
      PROVE  /\ heap'[s[i]].cid = cid(s[i]) /\ heap'[s[i]].next = heap[s[i]].next
             /\ heap'[s[i]].previous = IF i # 2 THEN heap[s[i]].previous ELSE NULL
  <2>1. s[i] # s[1]
    BY <1>0, <1>4
  <2>2. CASE i = 2
    BY <1>0, <1>3, <2>1, <2>2 DEF TypeOK, cid
  <2>3. CASE i # 2
    <3>1. s[i] # s[2]
      BY <1>0, <2>3
    <3>2. heap'[s[i]] = heap[s[i]]
      BY <1>0, <1>3, <2>1, <3>1 DEF TypeOK
    <3> QED
      BY <2>3, <3>2 DEF cid
  <2> QED
    BY <2>2, <2>3
<1>5. ASSUME NEW i \in 1 .. Len(s), i # 1
      PROVE  /\ heap'[s[i]].cid = cid(s[i])
             /\ heap'[s[i]].previous = IF i # 1 + 1 THEN heap[s[i]].previous ELSE NULL
             /\ heap'[s[i]].next = IF i # 1 - 1 THEN heap[s[i]].next ELSE s[1 + 1]
  <2>1. i # 1 - 1 /\ 1 + 1 = 2
    OBVIOUS
  <2> QED
    BY <1>4, <1>5, <2>1
<1>6. LinksOut(s, 1)
  <2>1. allocated' = allocated \ {s[1]} /\ head' = s[2] /\ last' = last /\ current' = s[1 + 1]
    BY <1>3
  <2>2. 1 # Len(s) /\ 1 < Len(s) /\ Len(s) # 1
    BY <1>0
  <2> QED
    BY <1>5, <2>1, <2>2 DEF LinksOut
<1> QED
  BY <1>3, <1>6

LEMMA LastRemoved ==
  ASSUME TypeOK, NEW s, IsList(s), Len(s) > 1, RemoveLast(s[Len(s)])
  PROVE  LinksOut(s, Len(s)) /\ UNCHANGED fault
<1> DEFINE n == Len(s)
<1>0. /\ n \in Nat /\ n \in 1 .. n /\ n - 1 \in 1 .. n /\ 1 < n /\ n # n - 1
      /\ s # <<>> /\ last = s[n]
      /\ \A i \in 1 .. n : s[i] \in allocated /\ s[i] \in Addrs
      /\ \A i, j \in 1 .. n : s[i] = s[j] => i = j
  <2>1. n \in Nat /\ n \in 1 .. n /\ n - 1 \in 1 .. n /\ 1 < n /\ n # n - 1 /\ s # <<>>
    BY ListIsSeq
  <2> QED
    BY <2>1, EndsOf, ListLinks, ListIsDistinct
<1>1. heap[last].previous = s[n - 1]
  BY <1>0, ListLinks
<1>3. /\ last' = s[n - 1] /\ current' = s[n - 1]
      /\ allocated' = allocated \ {s[n]}
      /\ heap' = [[heap EXCEPT ![s[n - 1]].next = NULL] EXCEPT ![s[n]] = Blank]
      /\ UNCHANGED <<head, fault>>
  BY <1>0, <1>1, NoCrash DEF RemoveLast, Freed
<1> HIDE DEF n
<1>4. ASSUME NEW i \in 1 .. n, i # n
      PROVE  /\ heap'[s[i]].cid = cid(s[i]) /\ heap'[s[i]].previous = heap[s[i]].previous
             /\ heap'[s[i]].next = IF i # n - 1 THEN heap[s[i]].next ELSE NULL
  <2>1. s[i] # s[n]
    BY <1>0, <1>4
  <2>2. CASE i = n - 1
    BY <1>0, <1>3, <2>1, <2>2 DEF TypeOK, cid
  <2>3. CASE i # n - 1
    <3>1. s[i] # s[n - 1]
      BY <1>0, <2>3
    <3>2. heap'[s[i]] = heap[s[i]]
      BY <1>0, <1>3, <2>1, <3>1 DEF TypeOK
    <3>3. /\ heap'[s[i]].cid = cid(s[i]) /\ heap'[s[i]].previous = heap[s[i]].previous
          /\ heap'[s[i]].next = heap[s[i]].next
      BY <3>2 DEF cid
    <3> QED
      BY <2>3, <3>3
  <2> QED
    BY <2>2, <2>3
<1>5. n # 1 /\ ~(n < n) /\ \A i \in 1 .. n : i # n + 1
  BY <1>0
<1> QED
  BY <1>3, <1>4, <1>5 DEF LinksOut, n

LEMMA MiddleRemoved ==
  ASSUME TypeOK, NEW s, IsList(s), NEW j \in 1 .. Len(s), j # 1, j # Len(s), Relink(s[j])
  PROVE  LinksOut(s, j) /\ UNCHANGED fault
<1>0. /\ Len(s) \in Nat /\ j > 1 /\ j < Len(s) /\ j - 1 \in 1 .. Len(s) /\ j + 1 \in 1 .. Len(s)
      /\ j - 1 # j /\ j + 1 # j /\ j - 1 # j + 1
      /\ \A i \in 1 .. Len(s) : s[i] \in allocated /\ s[i] \in Addrs
      /\ \A i, k \in 1 .. Len(s) : s[i] = s[k] => i = k
  <2>1. Len(s) \in Nat
    BY ListIsSeq
  <2>2. j > 1 /\ j < Len(s) /\ j - 1 \in 1 .. Len(s) /\ j + 1 \in 1 .. Len(s)
        /\ j - 1 # j /\ j + 1 # j /\ j - 1 # j + 1
    BY <2>1
  <2> QED
    BY <2>1, <2>2, ListLinks, ListIsDistinct
<1>1. heap[s[j]].next = s[j + 1] /\ heap[s[j]].previous = s[j - 1]
  BY <1>0, ListLinks
<1>2. /\ s[j - 1] \in allocated /\ s[j + 1] \in allocated
      /\ s[j - 1] # s[j] /\ s[j + 1] # s[j] /\ s[j - 1] # s[j + 1]
  BY <1>0
<1>3. /\ current' = s[j + 1]
      /\ allocated' = allocated \ {s[j]}
      /\ heap' = [[heap EXCEPT ![s[j + 1]].previous = s[j - 1], ![s[j - 1]].next = s[j + 1]]
                    EXCEPT ![s[j]] = Blank]
      /\ UNCHANGED <<head, last, fault>>
  BY <1>1, <1>2, NoCrash DEF Relink, Freed
<1>4. ASSUME NEW i \in 1 .. Len(s), i # j
      PROVE  /\ heap'[s[i]].cid = cid(s[i])
             /\ heap'[s[i]].previous = IF i # j + 1 THEN heap[s[i]].previous ELSE s[j - 1]
             /\ heap'[s[i]].next = IF i # j - 1 THEN heap[s[i]].next ELSE s[j + 1]
  <2>1. s[i] # s[j]
    BY <1>0, <1>4
  <2>2. CASE i = j + 1
    <3>1. /\ heap'[s[i]].cid = cid(s[i]) /\ heap'[s[i]].previous = s[j - 1]
          /\ heap'[s[i]].next = heap[s[i]].next
      BY <1>0, <1>2, <1>3, <2>1, <2>2 DEF TypeOK, cid
    <3> QED
      BY <1>0, <2>2, <3>1
  <2>3. CASE i = j - 1
    <3>1. /\ heap'[s[i]].cid = cid(s[i]) /\ heap'[s[i]].next = s[j + 1]
          /\ heap'[s[i]].previous = heap[s[i]].previous
      BY <1>0, <1>2, <1>3, <2>1, <2>3 DEF TypeOK, cid
    <3> QED
      BY <1>0, <2>3, <3>1
  <2>4. CASE i # j + 1 /\ i # j - 1
    <3>1. s[i] # s[j + 1] /\ s[i] # s[j - 1]
      BY <1>0, <2>4
    <3>2. heap'[s[i]] = heap[s[i]]
      BY <1>0, <1>3, <2>1, <3>1 DEF TypeOK
    <3>3. /\ heap'[s[i]].cid = cid(s[i]) /\ heap'[s[i]].previous = heap[s[i]].previous
          /\ heap'[s[i]].next = heap[s[i]].next
      BY <3>2 DEF cid
    <3> QED
      BY <2>4, <3>3
  <2> QED
    BY <2>2, <2>3, <2>4
<1> QED
  BY <1>0, <1>3, <1>4 DEF LinksOut

-----------------------------------------------------------------------------
(* What a call does to a list.                                             *)

Inserts(s) ==
  \E c \in CIDs, a \in Addrs \ allocated, j \in 1 .. Len(s) + 1 :
    /\ LinksIn(s, j, a, c)
    /\ s # <<>> => \E k \in 1 .. Len(s) : current = s[k] /\ Slotted(s, k, c, j)

Finds(s) ==
  \E c \in CIDs, j, k \in 1 .. Len(s) :
    /\ current = s[k] /\ Ends(s, k, c, j) /\ cid(s[j]) = c
    /\ current' = s[j]
    /\ UNCHANGED <<heap, allocated, head, last>>

Removes(s) ==
  \E c \in CIDs, j, k \in 1 .. Len(s) :
    /\ current = s[k] /\ Ends(s, k, c, j) /\ cid(s[j]) = c
    /\ LinksOut(s, j)

Keeps(s) ==
  /\ IsList(s)' /\ UNCHANGED pointers
  /\ \A i \in 1 .. Len(s) : heap'[s[i]].cid = cid(s[i])

Fails == head = NULL /\ fault' = "null" /\ UNCHANGED <<heap, allocated, pointers>>

ListStep(s) ==
  \/ UNCHANGED fault /\ (Inserts(s) \/ Finds(s) \/ Removes(s) \/ Keeps(s))
  \/ UNCHANGED fault /\ HeadTakenFromTheRight /\ ~careful
  \/ Fails

LEMMA SearchHits ==
  ASSUME TypeOK, NEW s, IsList(s), NEW k \in 1 .. Len(s), current = s[k], NEW c \in CIDs
  PROVE  /\ ~Crash(current) /\ ~Crash(Search(c))
         /\ Found(c) => \E j \in 1 .. Len(s) : Search(c) = s[j] /\ Ends(s, k, c, j) /\ cid(s[j]) = c
<1>1. c \in Nat
  BY ConListAssumption
<1>2. PICK j \in 1 .. Len(s) : Search(c) = s[j] /\ Ends(s, k, c, j)
  BY <1>1, SearchEnds
<1>3. s[j] \in allocated /\ s[k] \in allocated
  BY ListLinks
<1>4. Found(c) => cid(s[j]) = c
  BY <1>2 DEF Found
<1> QED
  BY <1>2, <1>3, <1>4, NoCrash

LEMMA RemovedFromList ==
  ASSUME TypeOK, NEW s, IsList(s), NEW k \in 1 .. Len(s), current = s[k],
         NEW c \in CIDs, remove_con_node(c)
  PROVE  UNCHANGED fault /\ (Removes(s) \/ (HeadTakenFromTheRight /\ ~careful))
<1>1. /\ Found(c)
      /\ careful /\ Search(c) = head => current = head
      /\ \/ c = cid(current) /\ RemoveAtCursor(Search(c))
         \/ c > cid(current) /\ RemoveRight(Search(c))
         \/ c < cid(current) /\ RemoveLeft(Search(c))
  BY SearchHits DEF remove_con_node
<1>2. PICK j \in 1 .. Len(s) : Search(c) = s[j] /\ Ends(s, k, c, j) /\ cid(s[j]) = c
  BY <1>1, SearchHits
<1>3. /\ Len(s) \in Nat /\ Len(s) >= 1 /\ head = s[1] /\ last = s[Len(s)] /\ last \in allocated
      /\ 1 \in 1 .. Len(s) /\ Len(s) \in 1 .. Len(s) /\ s # <<>>
      /\ \A i, m \in 1 .. Len(s) : s[i] = s[m] => i = m
  <2>1. s # <<>>
    BY ListIsSeq
  <2> QED
    BY <2>1, EndsOf, ListIsDistinct
<1>4. c \in Nat /\ cid(s[k]) \in Nat
  BY ConListAssumption, IDsOf
<1>5. /\ c = cid(s[k]) => j = k
      /\ c > cid(s[k]) => j > k
      /\ c < cid(s[k]) => j < k
  BY <1>2, <1>4 DEF Ends
<1>6. ASSUME LinksOut(s, j) PROVE Removes(s)
  BY <1>2, <1>6 DEF Removes
<1>7. CASE c = cid(current) /\ RemoveAtCursor(Search(c))
  <2>1. j = k /\ Search(c) = current
    BY <1>2, <1>5, <1>7
  <2> DEFINE only == heap[current].next = NULL /\ heap[current].previous = NULL
  <2>2. CASE RemoveOnly(current)
    BY <1>6, <2>1, <2>2, OnlyRemoved
  <2>3. ASSUME ~only PROVE Len(s) > 1
    <3>1. CASE Len(s) = 1
      <4>1. k = 1 /\ k = Len(s)
        BY <3>1
      <4>2. heap[s[k]].next = NULL /\ heap[s[k]].previous = NULL
        BY <4>1, ListLinks
      <4> QED
        BY <2>3, <4>2
    <3>2. Len(s) \in Nat /\ Len(s) >= 1
      BY <1>3
    <3>3. CASE Len(s) # 1
      BY <3>2, <3>3
    <3> QED
      BY <3>1, <3>3
  <2>4. CASE ~only /\ RemoveHead(current)
    <3>1. k = 1
      BY <1>3, <2>4 DEF RemoveHead
    <3>2. LinksOut(s, 1) /\ UNCHANGED fault
      BY <2>3, <2>4, <3>1, HeadRemoved
    <3> QED
      BY <1>6, <2>1, <3>1, <3>2
  <2>5. CASE ~only /\ RemoveLast(current)
    <3>1. k = Len(s)
      BY <1>3, <2>5 DEF RemoveLast
    <3>2. LinksOut(s, Len(s)) /\ UNCHANGED fault
      BY <2>3, <2>5, <3>1, LastRemoved
    <3> QED
      BY <1>6, <2>1, <3>1, <3>2
  <2>6. CASE ~only /\ current # head /\ current # last /\ Relink(current)
    <3>1. j # 1 /\ j # Len(s)
      BY <1>3, <2>1, <2>6
    <3>2. LinksOut(s, j) /\ UNCHANGED fault
      BY <2>1, <2>6, <3>1, MiddleRemoved
    <3> QED
      BY <1>6, <3>2
  <2> QED
    BY <1>7, <2>1, <2>2, <2>4, <2>5, <2>6 DEF RemoveAtCursor
<1>8. CASE c > cid(current) /\ RemoveRight(Search(c))
  <2>1. j > k /\ j > 1 /\ j # 1 /\ Len(s) > 1
    BY <1>3, <1>5, <1>8
  <2>2. CASE RemoveLast(s[j])
    <3>1. j = Len(s)
      BY <1>3, <2>2 DEF RemoveLast
    <3>2. LinksOut(s, Len(s)) /\ UNCHANGED fault
      BY <2>1, <2>2, <3>1, LastRemoved
    <3> QED
      BY <1>6, <3>1, <3>2
  <2>3. CASE s[j] # last /\ Relink(s[j])
    <3>1. j # Len(s)
      BY <1>3, <2>3
    <3>2. LinksOut(s, j) /\ UNCHANGED fault
      BY <2>1, <2>3, <3>1, MiddleRemoved
    <3> QED
      BY <1>6, <3>2
  <2> QED
    BY <1>2, <1>8, <2>2, <2>3 DEF RemoveRight
<1>9. CASE c < cid(current) /\ RemoveLeft(Search(c))
  <2>1. j < k /\ j < Len(s) /\ j # Len(s) /\ Len(s) > 1 /\ k # 1
    BY <1>3, <1>5, <1>9
  <2>2. CASE RemoveHead(s[j])
    <3>1. j = 1 /\ s[j] = head
      BY <1>3, <2>2 DEF RemoveHead
    <3>2. CASE Len(s) = 2
      <4>1. LinksOut(s, 1) /\ UNCHANGED fault
        BY <2>1, <2>2, <3>1, <3>2, HeadRemoved
      <4> QED
        BY <1>6, <3>1, <4>1
    <3>3. CASE Len(s) # 2
      <4>1. current # head /\ s[1] # current
        BY <1>3, <2>1
      <4>2. ~careful
        BY <1>1, <1>2, <3>1, <4>1
      <4>3. allocated' = allocated \ {s[1]} /\ UNCHANGED fault
        BY <1>3, <2>2, <3>1, <4>1, NoCrash DEF RemoveHead, Freed
      <4>4. Chain = s
        BY ChainOfList
      <4>5. Len(s) \in Nat /\ Len(s) > 1
        BY <1>3, <2>1
      <4>6. Len(s) > 2
        <5>1. PICK n \in Nat : n = Len(s)
          BY <4>5
        <5>2. n > 1 /\ n # 2
          BY <3>3, <4>5, <5>1
        <5>3. n > 2
          BY <5>2
        <5> QED
          BY <5>1, <5>3
      <4>7. Len(Chain) > 2
        BY <4>4, <4>6
      <4> QED
        BY <1>3, <4>1, <4>2, <4>3, <4>7 DEF HeadTakenFromTheRight
    <3> QED
      BY <3>2, <3>3
  <2>3. CASE s[j] # head /\ Relink(s[j])
    <3>1. j # 1
      BY <1>3, <2>3
    <3>2. LinksOut(s, j) /\ UNCHANGED fault
      BY <2>1, <2>3, <3>1, MiddleRemoved
    <3> QED
      BY <1>6, <3>2
  <2> QED
    BY <1>2, <1>9, <2>2, <2>3 DEF RemoveLeft
<1> QED
  BY <1>1, <1>7, <1>8, <1>9

LEMMA NextOnList ==
  ASSUME TypeOK, NEW s, IsList(s), Next
  PROVE  ListStep(s)
<1>1. PICK c \in CIDs : \/ \E a \in Addrs \ allocated : insert_con_node(a, c)
                        \/ find_con_node(c)
                        \/ remove_con_node(c)
  BY DEF Next
<1>2. CASE s = <<>>
  <2>1. head = NULL /\ current = NULL /\ current \notin allocated /\ Len(s) = 0
    BY <1>2, ListIsSeq, ConListAssumption DEF IsList, TypeOK
  <2>2. ASSUME NEW a \in Addrs \ allocated, insert_con_node(a, c) PROVE ListStep(s)
    <3>1. InsertEmpty(a, c)
      BY <2>1, <2>2 DEF insert_con_node, InsertRight, InsertLeft, InsertDropped, InsertLost
    <3>2. LinksIn(s, 1, a, c) /\ UNCHANGED fault
      BY <3>1, FirstInserted
    <3>3. 1 \in 1 .. Len(s) + 1
      BY <2>1
    <3> QED
      BY <1>2, <3>2, <3>3 DEF ListStep, Inserts
  <2>3. CASE Crash(current)
    BY <2>1, <2>3 DEF Crash, FaultOf, ListStep, Fails
  <2> QED
    BY <1>1, <2>1, <2>2, <2>3 DEF find_con_node, remove_con_node
<1>3. CASE s # <<>>
  <2>1. PICK k \in 1 .. Len(s) : current = s[k]
    BY <1>3, CursorOf
  <2>2. ASSUME NEW a \in Addrs \ allocated, insert_con_node(a, c) PROVE ListStep(s)
    <3>1. CASE InsertEmpty(a, c)
      BY <1>3, <3>1, FirstInserted
    <3>2. CASE InsertRight(a, c)
      <4>1. /\ \E j \in 1 .. Len(s) + 1 : LinksIn(s, j, a, c) /\ Slotted(s, k, c, j)
            /\ UNCHANGED fault
        BY <2>1, <3>2, RightInserts
      <4> QED
        BY <2>1, <4>1 DEF ListStep, Inserts
    <3>3. CASE InsertLeft(a, c)
      <4>1. /\ \E j \in 1 .. Len(s) + 1 : LinksIn(s, j, a, c) /\ Slotted(s, k, c, j)
            /\ UNCHANGED fault
        BY <2>1, <3>3, LeftInserts
      <4> QED
        BY <2>1, <4>1 DEF ListStep, Inserts
    <3>4. CASE InsertDropped(a, c)
      <4>1. /\ IsList(s)' /\ UNCHANGED <<head, last, current, fault>>
            /\ \A i \in 1 .. Len(s) : heap'[s[i]].cid = cid(s[i])
        BY <3>4, DroppedKeepsList
      <4> QED
        BY <4>1 DEF ListStep, Keeps, pointers
    <3>5. ~InsertLost(a, c)
      BY <2>1, SearchHits DEF InsertLost
    <3> QED
      BY <2>2, <3>1, <3>2, <3>3, <3>4, <3>5 DEF insert_con_node
  <2>3. CASE find_con_node(c)
    <3>1. Found(c) /\ current' = Search(c) /\ UNCHANGED <<heap, allocated, head, last, fault>>
      BY <2>1, <2>3, SearchHits DEF find_con_node
    <3>2. PICK j \in 1 .. Len(s) : Search(c) = s[j] /\ Ends(s, k, c, j) /\ cid(s[j]) = c
      BY <2>1, <3>1, SearchHits
    <3> QED
      BY <2>1, <3>1, <3>2 DEF ListStep, Finds
  <2>4. CASE remove_con_node(c)
    BY <2>1, <2>4, RemovedFromList DEF ListStep
  <2> QED
    BY <1>1, <2>2, <2>3, <2>4
<1> QED
  BY <1>2, <1>3

\* What follows of the list.
LEMMA StepKeepsList ==
  ASSUME TypeOK, NEW s, IsList(s), ListStep(s)
  PROVE  \/ \E t : IsList(t)'
         \/ HeadTakenFromTheRight /\ ~careful
<1>1. CASE Inserts(s)
  <2>1. PICK c \in CIDs, a \in Addrs \ allocated, j \in 1 .. Len(s) + 1 : LinksIn(s, j, a, c)
    BY <1>1 DEF Inserts
  <2>2. c \in Nat
    BY ConListAssumption
  <2>3. IsList(With(s, j, a))'
    BY <2>1, <2>2, LinkedIn
  <2> QED
    BY <2>3
<1>2. CASE Finds(s)
  <2>1. IsList(s)'
    BY <1>2, CursorMoved DEF Finds
  <2> QED
    BY <2>1
<1>3. CASE Removes(s)
  <2>1. PICK j \in 1 .. Len(s) : LinksOut(s, j)
    BY <1>3 DEF Removes
  <2>2. IsList(Without(s, j))'
    BY <2>1, LinkedOut
  <2> QED
    BY <2>2
<1>4. CASE Keeps(s)
  BY <1>4 DEF Keeps
<1>5. CASE Fails
  <2>1. IsList(s)'
    BY <1>5 DEF Fails, pointers, IsList, HasEnds, IsLinked, cid
  <2> QED
    BY <2>1
<1> QED
  BY <1>1, <1>2, <1>3, <1>4, <1>5 DEF ListStep

\* What a step of the program does to a sound list, and where it spoils it.
LEMMA StepOnList ==
  TypeOK /\ TypeOK' /\ [Next]_vars =>
    [WellFormed =>
       /\ WellFormed' \/ (HeadTakenFromTheRight /\ ~careful)
       /\ fault' # fault => head = NULL /\ fault' = "null"]_vars
<1>5. (\A s : TypeOK /\ IsList(s) => WellFormed)'
  BY ListIsWellFormed, PTL
<1> SUFFICES ASSUME TypeOK, TypeOK', Next, WellFormed
             PROVE  /\ WellFormed' \/ (HeadTakenFromTheRight /\ ~careful)
                    /\ fault' # fault => head = NULL /\ fault' = "null"
  BY DEF vars, pointers
<1>1. IsList(Chain)
  BY WellFormedIsList
<1>2. PICK s : IsList(s)
  BY <1>1
<1>3. ListStep(s)
  BY <1>2, NextOnList
<1>4. (\E t : IsList(t)') \/ (HeadTakenFromTheRight /\ ~careful)
  BY <1>2, <1>3, StepKeepsList
<1>6. ASSUME NEW t, IsList(t)' PROVE WellFormed'
  BY <1>5, <1>6
<1>7. fault' # fault => head = NULL /\ fault' = "null"
  BY <1>3 DEF ListStep, Fails
<1> QED
  BY <1>4, <1>6, <1>7

-----------------------------------------------------------------------------
(* The sequence of IDs that the list stands for.                           *)

\* The IDs of the nodes s.
IDs(s) == [i \in 1 .. Len(s) |-> cid(s[i])]

LEMMA MapsTo ==
  \A s : TypeOK /\ careful /\ IsList(s) =>
    /\ IDsInOrder = IDs(s)
    /\ s = <<>> => CursorIndex = 0
    /\ \A k \in 1 .. Len(s) : current = s[k] => CursorIndex = k
<1> SUFFICES ASSUME NEW s, TypeOK, careful, IsList(s)
             PROVE  /\ IDsInOrder = IDs(s)
                    /\ s = <<>> => CursorIndex = 0
                    /\ \A k \in 1 .. Len(s) : current = s[k] => CursorIndex = k
  OBVIOUS
<1>1. Chain = s
  BY ChainOfList
<1>2. s \in [1 .. Len(s) -> allocated] /\ DOMAIN s = 1 .. Len(s)
  BY ListIsSeq
<1>3. IDsInOrder = IDs(s)
  BY <1>1, <1>2 DEF IDsInOrder, IDs
<1>4. s = <<>> => CursorIndex = 0
  BY DEF IsList, CursorIndex
<1>5. ASSUME NEW k \in 1 .. Len(s), current = s[k] PROVE CursorIndex = k
  <2>1. current # NULL
    BY <1>5, ListLinks
  <2>2. CursorIndex = CHOOSE i \in 1 .. Len(s) : s[i] = current
    BY <1>1, <1>2, <2>1 DEF CursorIndex
  <2>3. \A i \in 1 .. Len(s) : s[i] = current <=> i = k
    BY <1>5, ListIsDistinct
  <2> QED
    BY <2>2, <2>3
<1> QED
  BY <1>3, <1>4, <1>5

\* The sequence of a list holds natural numbers in order.
LEMMA IDsAre ==
  ASSUME TypeOK, NEW s, IsList(s)
  PROVE  /\ Len(s) \in Nat /\ Len(IDs(s)) = Len(s) /\ IDs(s) \in Seq(Nat)
         /\ DOMAIN IDs(s) = 1 .. Len(s)
         /\ \A i \in 1 .. Len(s) : IDs(s)[i] = cid(s[i]) /\ IDs(s)[i] \in Nat
         /\ IDs(s) = <<>> <=> s = <<>>
<1>1. Len(s) \in Nat /\ (s = <<>> <=> Len(s) = 0)
  BY ListIsSeq
<1>2. IDs(s) \in [1 .. Len(s) -> Nat]
  BY IDsOf DEF IDs
<1>3. IDs(s) \in Seq(Nat) /\ Len(IDs(s)) = Len(s)
  BY <1>1, <1>2, SeqOfLen
<1>4. IDs(s) = <<>> <=> Len(IDs(s)) = 0
  BY <1>3, EmptySeq
<1> QED
  BY <1>1, <1>2, <1>3, <1>4, IDsOf DEF IDs

\* An entry put in, and one taken out.
LEMMA InsertAtIs ==
  ASSUME NEW S, NEW u \in Seq(S), NEW j \in 1 .. Len(u) + 1, NEW c \in S
  PROVE  Sequence!InsertAt(u, j, c) =
           [i \in 1 .. Len(u) + 1 |-> IF i < j THEN u[i] ELSE IF i = j THEN c ELSE u[i - 1]]
<1> DEFINE n == Len(u)
           l == SubSeq(u, 1, j - 1)
           r == SubSeq(u, j, n)
<1>1. n \in Nat /\ \A i \in 1 .. n : u[i] \in S
  BY LenProperties, ElementOfSeq
<1>2. l \in Seq(S) /\ Len(l) = j - 1 /\ \A i \in 1 .. j - 1 : l[i] = u[i]
  <2>1. j - 1 \in Int /\ 1 \in Int /\ \A i \in 1 .. j - 1 : u[i] \in S
    BY <1>1
  <2>2. /\ l \in Seq(S) /\ Len(l) = IF 1 <= j - 1 THEN (j - 1) - 1 + 1 ELSE 0
        /\ \A i \in 1 .. (j - 1) - 1 + 1 : l[i] = u[1 + i - 1]
    BY <2>1, SubSeqProperties
  <2> QED
    BY <1>1, <2>2
<1>3. r \in Seq(S) /\ Len(r) = n - j + 1 /\ \A i \in 1 .. n - j + 1 : r[i] = u[j + i - 1]
  <2>1. j \in Int /\ n \in Int /\ \A i \in j .. n : u[i] \in S
    BY <1>1
  <2>2. /\ r \in Seq(S) /\ Len(r) = IF j <= n THEN n - j + 1 ELSE 0
        /\ \A i \in 1 .. n - j + 1 : r[i] = u[j + i - 1]
    BY <2>1, SubSeqProperties
  <2> QED
    BY <1>1, <2>2
<1>4. <<c>> \in Seq(S) /\ Len(<<c>>) = 1 /\ <<c>>[1] = c
  OBVIOUS
<1>5. /\ l \o <<c>> \in Seq(S) /\ Len(l \o <<c>>) = j
      /\ \A i \in 1 .. j : (l \o <<c>>)[i] = IF i < j THEN u[i] ELSE c
  <2> HIDE DEF l, r, n
  <2>1. /\ l \o <<c>> \in Seq(S) /\ Len(l \o <<c>>) = (j - 1) + 1
        /\ \A i \in 1 .. (j - 1) + 1 : (l \o <<c>>)[i] =
             IF i <= j - 1 THEN l[i] ELSE <<c>>[i - (j - 1)]
    BY <1>2, <1>4, ConcatProperties
  <2>2. j \in Int
    BY <1>1 DEF n
  <2>3. (j - 1) + 1 = j
    BY <2>2
  <2>4. ASSUME NEW i \in 1 .. j PROVE (l \o <<c>>)[i] = IF i < j THEN u[i] ELSE c
    <3>1. CASE i < j
      BY <1>2, <2>1, <2>2, <3>1
    <3>2. CASE i = j
      BY <1>4, <2>1, <2>2, <3>2
    <3>3. i < j \/ i = j
      BY <2>2
    <3> QED
      BY <3>1, <3>2, <3>3
  <2> QED
    BY <2>1, <2>3, <2>4
<1>6. /\ (l \o <<c>>) \o r \in Seq(S) /\ Len((l \o <<c>>) \o r) = n + 1
      /\ \A i \in 1 .. n + 1 : ((l \o <<c>>) \o r)[i] =
           IF i < j THEN u[i] ELSE IF i = j THEN c ELSE u[i - 1]
  <2> DEFINE lc == l \o <<c>>
  <2>1. j \in Int /\ j + (n - j + 1) = n + 1
    BY <1>1
  <2>2. j \in 1 .. n + 1
    OBVIOUS
  <2> HIDE DEF l, r, n, lc
  <2>3. lc \in Seq(S) /\ Len(lc) = j /\ r \in Seq(S) /\ Len(r) = n - j + 1
    BY <1>3, <1>5 DEF lc
  <2>4. /\ lc \o r \in Seq(S) /\ Len(lc \o r) = j + (n - j + 1)
        /\ \A i \in 1 .. j + (n - j + 1) : (lc \o r)[i] = IF i <= j THEN lc[i] ELSE r[i - j]
    <3>1. /\ lc \o r \in Seq(S) /\ Len(lc \o r) = Len(lc) + Len(r)
          /\ \A i \in 1 .. Len(lc) + Len(r) :
               (lc \o r)[i] = IF i <= Len(lc) THEN lc[i] ELSE r[i - Len(lc)]
      BY <2>3, ConcatProperties
    <3> QED
      BY <2>3, <3>1
  <2>5. ASSUME NEW i \in 1 .. n + 1
        PROVE (lc \o r)[i] = IF i < j THEN u[i] ELSE IF i = j THEN c ELSE u[i - 1]
    <3>1. CASE i <= j
      <4>1. i \in 1 .. j /\ (lc \o r)[i] = lc[i]
        BY <2>1, <2>4, <3>1, <1>1
      <4> QED
        BY <1>5, <4>1, <2>1 DEF lc
    <3>2. CASE i > j
      <4>1. PICK m : m = i - j
        OBVIOUS
      <4>2. m \in 1 .. n - j + 1 /\ j + m - 1 = i - 1 /\ ~(i < j) /\ i # j
        BY <1>1, <2>1, <3>2, <4>1
      <4>3. (lc \o r)[i] = r[m]
        BY <1>1, <2>1, <2>4, <3>2, <4>1
      <4>4. r[m] = u[j + m - 1]
        BY <1>3, <4>2
      <4> QED
        BY <4>2, <4>3, <4>4
    <3>3. i <= j \/ i > j
      BY <1>1, <2>1
    <3> QED
      BY <3>1, <3>2, <3>3
  <2> QED
    BY <2>1, <2>4, <2>5 DEF lc
<1> DEFINE w == Sequence!InsertAt(u, j, c)
<1>7. w \in Seq(S) /\ Len(w) = n + 1 /\ \A i \in 1 .. n + 1 : w[i] =
        IF i < j THEN u[i] ELSE IF i = j THEN c ELSE u[i - 1]
  BY <1>6 DEF Sequence!InsertAt
<1>8. w = [i \in 1 .. Len(w) |-> w[i]]
  <2> HIDE DEF w
  <2> QED
    BY <1>7
<1> QED
  <2> HIDE DEF w, l, r
  <2>1. w = [i \in 1 .. n + 1 |-> IF i < j THEN u[i] ELSE IF i = j THEN c ELSE u[i - 1]]
    BY <1>7, <1>8
  <2> QED
    BY <2>1 DEF w

LEMMA RemoveAtIs ==
  ASSUME NEW S, NEW u \in Seq(S), NEW j \in 1 .. Len(u)
  PROVE  Sequence!RemoveAt(u, j) = [i \in 1 .. Len(u) - 1 |-> IF i < j THEN u[i] ELSE u[i + 1]]
<1> DEFINE n == Len(u)
           l == SubSeq(u, 1, j - 1)
           r == SubSeq(u, j + 1, n)
<1>1. n \in Nat /\ j \in 1 .. n /\ \A i \in 1 .. n : u[i] \in S
  BY LenProperties, ElementOfSeq
<1>2. l \in Seq(S) /\ Len(l) = j - 1 /\ \A i \in 1 .. j - 1 : l[i] = u[i]
  <2>1. j - 1 \in Int /\ 1 \in Int /\ \A i \in 1 .. j - 1 : u[i] \in S
    BY <1>1
  <2>2. /\ l \in Seq(S) /\ Len(l) = IF 1 <= j - 1 THEN (j - 1) - 1 + 1 ELSE 0
        /\ \A i \in 1 .. (j - 1) - 1 + 1 : l[i] = u[1 + i - 1]
    BY <2>1, SubSeqProperties
  <2> QED
    BY <1>1, <2>2
<1>3. r \in Seq(S) /\ Len(r) = n - j /\ \A i \in 1 .. n - j : r[i] = u[j + i]
  <2>1. j + 1 \in Int /\ n \in Int /\ \A i \in j + 1 .. n : u[i] \in S
    BY <1>1
  <2>2. /\ r \in Seq(S) /\ Len(r) = IF j + 1 <= n THEN n - (j + 1) + 1 ELSE 0
        /\ \A i \in 1 .. n - (j + 1) + 1 : r[i] = u[j + 1 + i - 1]
    BY <2>1, SubSeqProperties
  <2> QED
    BY <1>1, <2>2
<1> HIDE DEF l, r, n
<1>4. /\ l \o r \in Seq(S) /\ Len(l \o r) = n - 1
      /\ \A i \in 1 .. n - 1 : (l \o r)[i] = IF i < j THEN u[i] ELSE u[i + 1]
  <2>1. /\ l \o r \in Seq(S) /\ Len(l \o r) = Len(l) + Len(r)
        /\ \A i \in 1 .. Len(l) + Len(r) : (l \o r)[i] = IF i <= Len(l) THEN l[i] ELSE r[i - Len(l)]
    BY <1>2, <1>3, ConcatProperties
  <2>2. Len(l) + Len(r) = n - 1
    BY <1>1, <1>2, <1>3
  <2>3. ASSUME NEW i \in 1 .. n - 1 PROVE (l \o r)[i] = IF i < j THEN u[i] ELSE u[i + 1]
    <3>1. (l \o r)[i] = IF i <= Len(l) THEN l[i] ELSE r[i - Len(l)]
      BY <2>1, <2>2
    <3>2. CASE i < j
      <4>1. i \in 1 .. j - 1 /\ i <= Len(l)
        BY <1>1, <1>2, <3>2
      <4> QED
        BY <1>2, <3>1, <3>2, <4>1
    <3>3. CASE ~(i < j)
      <4>1. PICK m : m = i - Len(l)
        OBVIOUS
      <4>2. m \in 1 .. n - j /\ j + m = i + 1 /\ ~(i <= Len(l))
        BY <1>1, <1>2, <3>3, <4>1
      <4>3. (l \o r)[i] = r[m]
        BY <3>1, <4>1, <4>2
      <4>4. r[m] = u[j + m]
        BY <1>3, <4>2
      <4> QED
        BY <3>3, <4>2, <4>3, <4>4
    <3> QED
      BY <3>2, <3>3
  <2> QED
    BY <2>1, <2>2, <2>3
<1> DEFINE w == Sequence!RemoveAt(u, j)
<1>5. w = l \o r
  BY DEF Sequence!RemoveAt, l, r, n
<1>6. w \in Seq(S) /\ Len(w) = n - 1 /\ \A i \in 1 .. n - 1 : w[i] = IF i < j THEN u[i] ELSE u[i + 1]
  BY <1>4, <1>5
<1> HIDE DEF w
<1>7. w = [i \in 1 .. Len(w) |-> w[i]]
  BY <1>6
<1>8. w = [i \in 1 .. n - 1 |-> IF i < j THEN u[i] ELSE u[i + 1]]
  BY <1>6, <1>7
<1> QED
  BY <1>8 DEF w, n

\* The places where an insertion and a search end are the sequence's.
LEMMA SlotIs ==
  ASSUME TypeOK, careful, NEW s, IsList(s), NEW k \in 1 .. Len(s), current = s[k],
         NEW c \in Nat, NEW j \in 1 .. Len(s) + 1, Slotted(s, k, c, j),
         \A i \in 1 .. Len(s) : IF i < j THEN cid(s[i]) <= c ELSE c <= cid(s[i])
  PROVE  Sequence!Slot(c) = j /\ c # IDsInOrder[CursorIndex]
<1> DEFINE L == IDsInOrder
           n == Len(s)
           right == {i \in CursorIndex + 1 .. Len(L) : c <= L[i]} \cup {Len(L) + 1}
           left == {i \in 1 .. CursorIndex - 1 : L[i] <= c} \cup {0}
<1>1. L = IDs(s) /\ CursorIndex = k
  BY MapsTo
<1>2. n \in Nat /\ Len(L) = n /\ \A i \in 1 .. n : L[i] = cid(s[i]) /\ L[i] \in Nat
  BY <1>1, IDsAre
<1> HIDE DEF L, n
<1>3. k \in 1 .. n /\ j \in 1 .. n + 1 /\ k \in Nat /\ j \in Nat
  BY <1>2 DEF n
<1>4. \A i \in 1 .. n : (i < j => L[i] <= c) /\ (~(i < j) => c <= L[i])
  BY <1>2 DEF n
<1>5. c # L[k] /\ (c > L[k] => j > k) /\ (c < L[k] => j <= k)
  BY <1>2, <1>3 DEF Slotted
<1>6. CASE c > L[k]
  <2>1. j > k /\ \A i \in k + 1 .. j - 1 : L[i] < c
    <3>1. \A i \in k + 1 .. j - 1 : i \in 1 .. n
      BY <1>2, <1>3
    <3> QED
      BY <1>2, <1>3, <1>6, <3>1 DEF Slotted
  <2>2. right = {i \in k + 1 .. n : c <= L[i]} \cup {n + 1}
    BY <1>1, <1>2
  <2>3. right \subseteq Nat /\ right # {} /\ j \in right
    <3>1. right \subseteq Nat
      BY <1>2, <1>3, <2>2
    <3>2. j \in right
      <4>1. CASE j = n + 1
        BY <2>2, <4>1
      <4>2. CASE j # n + 1
        <5>1. j \in k + 1 .. n /\ j \in 1 .. n /\ ~(j < j)
          BY <1>2, <1>3, <2>1, <4>2
        <5>2. c <= L[j]
          BY <1>4, <5>1
        <5> QED
          BY <2>2, <5>1, <5>2
      <4> QED
        BY <4>1, <4>2
    <3> QED
      BY <3>1, <3>2
  <2> HIDE DEF right
  <2>4. Min(right) \in right /\ Min(right) <= j
    BY <2>3, LeastOf
  <2>5. PICK m \in Nat : m = Min(right)
    BY <2>3, <2>4
  <2>6. m >= j
    <3>1. SUFFICES ASSUME m < j PROVE FALSE
      BY <1>3, <2>5
    <3>2. m \in k + 1 .. n /\ c <= L[m]
      BY <1>2, <1>3, <2>2, <2>4, <2>5, <3>1
    <3>3. m \in k + 1 .. j - 1 /\ m \in 1 .. n
      BY <1>2, <1>3, <3>1, <3>2
    <3> QED
      BY <1>2, <2>1, <3>2, <3>3
  <2>7. Min(right) = j
    BY <1>3, <2>4, <2>5, <2>6
  <2>8. c > L[CursorIndex]
    BY <1>1, <1>6
  <2>9. Sequence!Slot(c) = Sequence!Min(right)
    BY <2>8 DEF Sequence!Slot, right, L
  <2> QED
    BY <1>1, <1>5, <2>7, <2>9 DEF Sequence!Min, Min, L
<1>7. CASE c < L[k]
  <2>1. j <= k /\ \A i \in j .. k - 1 : c < L[i]
    <3>1. \A i \in j .. k - 1 : i \in 1 .. n
      BY <1>2, <1>3
    <3> QED
      BY <1>2, <1>3, <1>7, <3>1 DEF Slotted
  <2>2. left = {i \in 1 .. k - 1 : L[i] <= c} \cup {0}
    BY <1>1
  <2>3. left \subseteq 0 .. n /\ left # {} /\ j - 1 \in left
    <3>1. j - 1 # 0 => j - 1 \in 1 .. k - 1 /\ j - 1 \in 1 .. n /\ j - 1 < j
      BY <1>2, <1>3, <2>1
    <3>2. left \subseteq 0 .. n
      BY <1>2, <1>3, <2>2
    <3>3. j - 1 \in left
      <4>1. CASE j - 1 = 0
        BY <2>2, <4>1
      <4>2. CASE j - 1 # 0
        <5>1. L[j - 1] <= c
          BY <1>4, <3>1, <4>2
        <5> QED
          BY <2>2, <3>1, <4>2, <5>1
      <4> QED
        BY <4>1, <4>2
    <3> QED
      BY <3>2, <3>3
  <2> HIDE DEF left
  <2>4. Max(left) \in left /\ Max(left) >= j - 1
    BY <1>2, <2>3, GreatestOf
  <2>5. PICK m \in 0 .. n : m = Max(left)
    BY <2>3, <2>4
  <2>6. m <= j - 1
    <3>1. SUFFICES ASSUME m > j - 1 PROVE FALSE
      BY <1>2, <1>3, <2>5
    <3>2. m \in 1 .. k - 1 /\ L[m] <= c
      BY <1>2, <1>3, <2>2, <2>4, <2>5, <3>1
    <3>3. m \in j .. k - 1 /\ m \in 1 .. n
      BY <1>2, <1>3, <3>1, <3>2
    <3> QED
      BY <1>2, <2>1, <3>2, <3>3
  <2>7. Max(left) + 1 = j
    BY <1>2, <1>3, <2>4, <2>5, <2>6
  <2>8. ~(c > L[CursorIndex])
    BY <1>1, <1>2, <1>3, <1>7
  <2>9. Sequence!Slot(c) = Sequence!Max(left) + 1
    BY <2>8 DEF Sequence!Slot, left, L
  <2> QED
    BY <1>1, <1>5, <2>7, <2>9 DEF Sequence!Max, Max, L
<1>8. L[k] \in Nat
  BY <1>2, <1>3
<1> QED
  BY <1>5, <1>6, <1>7, <1>8

LEMMA MetIs ==
  ASSUME TypeOK, careful, NEW s, IsList(s), NEW k \in 1 .. Len(s), current = s[k],
         NEW c \in Nat, NEW j \in 1 .. Len(s), Ends(s, k, c, j), cid(s[j]) = c
  PROVE  Sequence!Met(c) = j /\ CursorIndex # 0 /\ c \in Sequence!Range(IDsInOrder)
<1> DEFINE L == IDsInOrder
           n == Len(s)
           right == Sequence!Right(c)
           left == Sequence!Left(c)
<1>1. L = IDs(s) /\ CursorIndex = k
  BY MapsTo
<1>2. n \in Nat /\ Len(L) = n /\ DOMAIN L = 1 .. n /\ \A i \in 1 .. n : L[i] = cid(s[i]) /\ L[i] \in Nat
  BY <1>1, IDsAre
<1> HIDE DEF L, n
<1>3. k \in 1 .. n /\ j \in 1 .. n /\ k \in Nat /\ j \in Nat /\ L[j] = c /\ k # 0 /\ L[k] \in Nat
  BY <1>2 DEF n
<1>4. c \in Sequence!Range(L)
  BY <1>2, <1>3 DEF Sequence!Range
<1>5. CASE c = L[k]
  <2>1. j = k
    BY <1>2, <1>3, <1>5 DEF Ends
  <2>2. Sequence!Met(c) = CursorIndex
    BY <1>1, <1>5 DEF Sequence!Met, L
  <2> QED
    BY <1>1, <1>3, <1>4, <2>1, <2>2 DEF L
<1>6. CASE c > L[k]
  <2>1. j > k /\ \A i \in k + 1 .. j - 1 : L[i] # c
    <3>1. \A i \in k + 1 .. j - 1 : i \in 1 .. n
      BY <1>3, <1>2
    <3> QED
      BY <1>2, <1>3, <1>6, <3>1 DEF Ends
  <2>2. right = {i \in k + 1 .. n : L[i] = c}
    BY <1>1, <1>2 DEF Sequence!Right, L
  <2>3. right \subseteq Nat /\ right # {} /\ j \in right
    BY <1>2, <1>3, <2>1, <2>2
  <2> HIDE DEF right
  <2>4. Min(right) \in right /\ Min(right) <= j
    BY <2>3, LeastOf
  <2>5. PICK m \in Nat : m = Min(right)
    BY <2>3, <2>4
  <2>6. m >= j
    <3>1. SUFFICES ASSUME m < j PROVE FALSE
      BY <1>3, <2>5
    <3>2. m \in k + 1 .. n /\ L[m] = c
      BY <2>2, <2>4, <2>5
    <3>3. m \in k + 1 .. j - 1
      BY <1>2, <1>3, <3>1, <3>2
    <3> QED
      BY <2>1, <3>2, <3>3
  <2>7. Min(right) = j
    BY <1>3, <2>4, <2>5, <2>6
  <2>8. c > L[CursorIndex] /\ c # L[CursorIndex]
    BY <1>1, <1>6, <1>3
  <2>9. Sequence!Met(c) = Sequence!Min(right)
    BY <2>8 DEF Sequence!Met, right, L
  <2> QED
    BY <1>1, <1>3, <1>4, <2>7, <2>9 DEF Sequence!Min, Min, L
<1>7. CASE c < L[k]
  <2>1. j < k /\ \A i \in j + 1 .. k - 1 : L[i] # c
    <3>1. \A i \in j + 1 .. k - 1 : i \in 1 .. n
      BY <1>3, <1>2
    <3> QED
      BY <1>2, <1>3, <1>7, <3>1 DEF Ends
  <2>2. left = {i \in 1 .. k - 1 : L[i] = c}
    BY <1>1, <1>2 DEF Sequence!Left, L
  <2>3. left \subseteq 0 .. n /\ left # {} /\ j \in left
    BY <1>2, <1>3, <2>1, <2>2
  <2> HIDE DEF left
  <2>4. Max(left) \in left /\ Max(left) >= j
    BY <1>2, <2>3, GreatestOf
  <2>5. PICK m \in 0 .. n : m = Max(left)
    BY <2>3, <2>4
  <2>6. m <= j
    <3>1. SUFFICES ASSUME m > j PROVE FALSE
      BY <1>2, <1>3, <2>5
    <3>2. m \in 1 .. k - 1 /\ L[m] = c
      BY <2>2, <2>4, <2>5
    <3>3. m \in j + 1 .. k - 1
      BY <1>2, <1>3, <3>1, <3>2
    <3> QED
      BY <2>1, <3>2, <3>3
  <2>7. Max(left) = j
    BY <1>2, <1>3, <2>4, <2>5, <2>6
  <2>8. ~(c > L[CursorIndex]) /\ c # L[CursorIndex]
    BY <1>1, <1>7, <1>3
  <2>9. Sequence!Met(c) = Sequence!Max(left)
    BY <2>8 DEF Sequence!Met, left, L
  <2> QED
    BY <1>1, <1>3, <1>4, <2>7, <2>9 DEF Sequence!Max, Max, L
<1> QED
  BY <1>3, <1>5, <1>6, <1>7

\* What every list of a careful caller stands for.
ListStands ==
  \A s : careful /\ IsList(s) =>
    /\ IDsInOrder = IDs(s)
    /\ s = <<>> => CursorIndex = 0
    /\ \A k \in 1 .. Len(s) : current = s[k] => CursorIndex = k
    /\ Len(s) <= Cardinality(Addrs)

LEMMA ListsStand == TypeOK => ListStands
BY MapsTo, ListIsShort DEF ListStands

LEMMA LenOfFcn ==
  ASSUME NEW n \in Nat, NEW f, f = [i \in 1 .. n |-> f[i]]
  PROVE  Len(f) = n
<1>1. f \in [1 .. n -> {f[i] : i \in 1 .. n}]
  OBVIOUS
<1> QED
  BY <1>1, SeqOfLen

LEMMA LeastOfTwo ==
  ASSUME NEW x \in Nat, NEW y \in Nat
  PROVE  Min({x, y}) = IF x <= y THEN x ELSE y
<1>1. Min({x, y}) \in {x, y} /\ Min({x, y}) <= x /\ Min({x, y}) <= y
  BY LeastOf
<1> QED
  BY <1>1

\* An insertion puts the ID into its slot.
LEMMA InsertMaps ==
  ASSUME TypeOK, careful, careful', ListStands', NEW s, IsList(s), Inserts(s)
  PROVE  Sequence!Next
<1>1. PICK c \in CIDs, a \in Addrs \ allocated, j \in 1 .. Len(s) + 1 :
        /\ LinksIn(s, j, a, c)
        /\ s # <<>> => \E k \in 1 .. Len(s) : current = s[k] /\ Slotted(s, k, c, j)
  BY DEF Inserts
<1> DEFINE L == IDsInOrder
           w == With(s, j, a)
<1>2. c \in Nat
  BY ConListAssumption
<1>3. /\ Len(s) \in Nat /\ Len(IDs(s)) = Len(s) /\ IDs(s) \in Seq(Nat)
      /\ \A i \in 1 .. Len(s) : IDs(s)[i] = cid(s[i])
      /\ IDs(s) = <<>> <=> s = <<>>
  BY IDsAre
<1>4. L = IDs(s)
  BY MapsTo
<1>5. IsList(w)' /\ Len(w) = Len(s) + 1
  <2>1. w = [i \in 1 .. Len(s) + 1 |-> w[i]] /\ Len(s) + 1 \in Nat
    BY <1>3 DEF With
  <2>2. Len(w) = Len(s) + 1
    BY <2>1, LenOfFcn
  <2> QED
    BY <1>1, <1>2, <2>2, LinkedIn
<1>6. /\ L' = [i \in 1 .. Len(s) + 1 |-> heap'[w[i]].cid]
      /\ \A k \in 1 .. Len(s) + 1 : current' = w[k] => CursorIndex' = k
      /\ Len(s) + 1 <= Cardinality(Addrs)
  BY <1>5 DEF ListStands, IDs, cid
<1>7. CursorIndex' = j
  BY <1>1, <1>3, <1>6 DEF LinksIn, With
<1>8. L' = [i \in 1 .. Len(s) + 1 |->
              IF i < j THEN IDs(s)[i] ELSE IF i = j THEN c ELSE IDs(s)[i - 1]]
  <2> SUFFICES ASSUME NEW i \in 1 .. Len(s) + 1
               PROVE  heap'[w[i]].cid =
                        IF i < j THEN IDs(s)[i] ELSE IF i = j THEN c ELSE IDs(s)[i - 1]
    BY <1>6
  <2>1. CASE i < j
    <3>1. i \in 1 .. Len(s) /\ w[i] = s[i]
      BY <1>3, <2>1 DEF With
    <3> QED
      BY <1>1, <1>3, <2>1, <3>1 DEF LinksIn
  <2>2. CASE i = j
    <3>1. w[i] = a
      BY <1>3, <2>2 DEF With
    <3> QED
      BY <1>1, <1>3, <2>2, <3>1 DEF LinksIn
  <2>3. CASE i > j
    <3>1. PICK m : m = i - 1
      OBVIOUS
    <3>2. m \in 1 .. Len(s) /\ w[i] = s[m] /\ ~(i < j) /\ i # j
      BY <1>3, <2>3, <3>1 DEF With
    <3>3. heap'[s[m]].cid = cid(s[m])
      BY <1>1, <3>2 DEF LinksIn
    <3> QED
      BY <1>3, <3>1, <3>2, <3>3
  <2>4. i < j \/ i = j \/ i > j
    BY <1>3
  <2> QED
    BY <2>1, <2>2, <2>3, <2>4
<1>9. CASE s = <<>>
  <2>1. j = 1 /\ Len(s) = 0
    BY <1>3, <1>9
  <2>2. L' = [i \in 1 .. 1 |-> c]
    <3>1. L' = [i \in 1 .. 1 |-> IF i < 1 THEN IDs(s)[i] ELSE IF i = 1 THEN c ELSE IDs(s)[i - 1]]
      BY <1>8, <2>1
    <3>2. \A i \in 1 .. 1 : ~(i < 1) /\ i = 1
      OBVIOUS
    <3> QED
      BY <3>1, <3>2
  <2>3. L' = <<c>>
    BY <2>2
  <2>4. Sequence!InsertFirst(c)
    BY <1>3, <1>4, <1>7, <1>9, <2>1, <2>3 DEF Sequence!InsertFirst
  <2> QED
    BY <2>4 DEF Sequence!Next
<1>10. CASE s # <<>>
  <2>1. PICK k \in 1 .. Len(s) : current = s[k] /\ Slotted(s, k, c, j)
    BY <1>1, <1>10
  <2>2. Sequence!Slot(c) = j /\ c # L[CursorIndex]
    <3>1. \A i \in 1 .. Len(s) : IF i < j THEN cid(s[i]) <= c ELSE c <= cid(s[i])
      BY <1>1 DEF LinksIn
    <3> QED
      BY <1>2, <2>1, <3>1, SlotIs
  <2>3. L' = Sequence!InsertAt(L, j, c)
    <3>1. Sequence!InsertAt(IDs(s), j, c) =
            [i \in 1 .. Len(s) + 1 |->
               IF i < j THEN IDs(s)[i] ELSE IF i = j THEN c ELSE IDs(s)[i - 1]]
      <4>1. j \in 1 .. Len(IDs(s)) + 1
        BY <1>3
      <4>2. Sequence!InsertAt(IDs(s), j, c) =
              [i \in 1 .. Len(IDs(s)) + 1 |->
                 IF i < j THEN IDs(s)[i] ELSE IF i = j THEN c ELSE IDs(s)[i - 1]]
        BY <1>2, <1>3, <4>1, InsertAtIs
      <4> QED
        BY <1>3, <4>2
    <3> QED
      BY <1>4, <1>8, <3>1
  <2>4. L # <<>> /\ Len(L) < Cardinality(Addrs)
    BY <1>3, <1>4, <1>6, <1>10, StepsAre
  <2>5. Sequence!Insert(c)
    BY <1>7, <2>2, <2>3, <2>4 DEF Sequence!Insert
  <2> QED
    BY <2>5 DEF Sequence!Next
<1> QED
  BY <1>9, <1>10

\* A search moves the cursor to the entry it met.
LEMMA FindMaps ==
  ASSUME TypeOK, careful, careful', ListStands', NEW s, IsList(s), Finds(s)
  PROVE  Sequence!Next
<1>1. PICK c \in CIDs, j \in 1 .. Len(s), k \in 1 .. Len(s) :
        /\ current = s[k] /\ Ends(s, k, c, j) /\ cid(s[j]) = c
        /\ current' = s[j]
        /\ UNCHANGED <<heap, allocated, head, last>>
  BY DEF Finds
<1>2. c \in Nat
  BY ConListAssumption
<1>3. Sequence!Met(c) = j /\ CursorIndex # 0 /\ c \in Sequence!Range(IDsInOrder)
  BY <1>1, <1>2, MetIs
<1>4. IsList(s)'
  BY <1>1, CursorMoved
<1>5. IDsInOrder' = IDs(s)' /\ CursorIndex' = j
  BY <1>1, <1>4 DEF ListStands
<1>6. IDs(s)' = IDs(s) /\ IDsInOrder = IDs(s)
  BY <1>1, MapsTo DEF IDs, cid
<1>7. Sequence!Find(c)
  BY <1>3, <1>5, <1>6 DEF Sequence!Find
<1> QED
  BY <1>7 DEF Sequence!Next

\* A removal takes out the entry it met.
LEMMA RemoveMaps ==
  ASSUME TypeOK, careful, careful', ListStands', NEW s, IsList(s), Removes(s)
  PROVE  Sequence!Next
<1>1. PICK c \in CIDs, j \in 1 .. Len(s), k \in 1 .. Len(s) :
        /\ current = s[k] /\ Ends(s, k, c, j) /\ cid(s[j]) = c
        /\ LinksOut(s, j)
  BY DEF Removes
<1> DEFINE L == IDsInOrder
           w == Without(s, j)
<1>2. c \in Nat
  BY ConListAssumption
<1>3. /\ Len(s) \in Nat /\ Len(s) >= 1 /\ Len(IDs(s)) = Len(s) /\ IDs(s) \in Seq(Nat)
      /\ \A i \in 1 .. Len(s) : IDs(s)[i] = cid(s[i])
  BY IDsAre
<1>4. L = IDs(s)
  BY MapsTo
<1>5. Sequence!Met(c) = j /\ CursorIndex # 0 /\ c \in Sequence!Range(L)
  BY <1>1, <1>2, MetIs
<1>6. IsList(w)' /\ Len(w) = Len(s) - 1
  <2>1. w = [i \in 1 .. Len(s) - 1 |-> w[i]] /\ Len(s) - 1 \in Nat
    BY <1>3 DEF Without
  <2>2. Len(w) = Len(s) - 1
    BY <2>1, LenOfFcn
  <2> QED
    BY <1>1, <2>2, LinkedOut
<1>7. /\ L' = [i \in 1 .. Len(s) - 1 |-> heap'[w[i]].cid]
      /\ w = <<>> => CursorIndex' = 0
      /\ \A m \in 1 .. Len(s) - 1 : current' = w[m] => CursorIndex' = m
  BY <1>6 DEF ListStands, IDs, cid
<1>8. L' = [i \in 1 .. Len(s) - 1 |-> IF i < j THEN IDs(s)[i] ELSE IDs(s)[i + 1]]
  <2> SUFFICES ASSUME NEW i \in 1 .. Len(s) - 1
               PROVE  heap'[w[i]].cid = IF i < j THEN IDs(s)[i] ELSE IDs(s)[i + 1]
    BY <1>7
  <2>1. CASE i < j
    <3>1. i \in 1 .. Len(s) /\ w[i] = s[i] /\ i # j
      BY <1>3, <2>1 DEF Without
    <3> QED
      BY <1>1, <1>3, <2>1, <3>1 DEF LinksOut
  <2>2. CASE ~(i < j)
    <3>1. PICK m : m = i + 1
      OBVIOUS
    <3>2. m \in 1 .. Len(s) /\ w[i] = s[m] /\ m # j
      BY <1>3, <2>2, <3>1 DEF Without
    <3>3. heap'[s[m]].cid = cid(s[m])
      BY <1>1, <3>2 DEF LinksOut
    <3> QED
      BY <1>3, <2>2, <3>1, <3>2, <3>3
  <2> QED
    BY <2>1, <2>2
<1>9. L' = Sequence!RemoveAt(L, j)
  <2>1. j \in 1 .. Len(IDs(s))
    BY <1>3
  <2>2. Sequence!RemoveAt(IDs(s), j) =
          [i \in 1 .. Len(IDs(s)) - 1 |-> IF i < j THEN IDs(s)[i] ELSE IDs(s)[i + 1]]
    BY <1>3, <2>1, RemoveAtIs
  <2> QED
    BY <1>3, <1>4, <1>8, <2>2
<1>10. CursorIndex' = Min({j, Len(L) - 1})
  <2>1. j \in Nat /\ Len(L) - 1 \in Nat /\ Len(L) = Len(s)
    BY <1>3, <1>4
  <2>2. Min({j, Len(L) - 1}) = IF j <= Len(s) - 1 THEN j ELSE Len(s) - 1
    BY <2>1, LeastOfTwo
  <2>3. CASE j < Len(s)
    <3>1. j \in 1 .. Len(s) - 1 /\ w[j] = s[j + 1] /\ j <= Len(s) - 1
      BY <1>3, <2>3 DEF Without
    <3>2. current' = w[j]
      BY <1>1, <2>3, <3>1 DEF LinksOut
    <3> QED
      BY <1>7, <2>2, <3>1, <3>2
  <2>4. CASE j = Len(s) /\ Len(s) = 1
    <3>1. w = <<>> /\ ~(j <= Len(s) - 1) /\ Len(s) - 1 = 0
      <4>1. Len(w) = 0
        BY <1>6, <2>4
      <4> QED
        BY <2>4 DEF Without
    <3> QED
      BY <1>7, <2>2, <3>1
  <2>5. CASE j = Len(s) /\ Len(s) # 1
    <3>1. PICK m : m = Len(s) - 1
      OBVIOUS
    <3>2. m \in 1 .. Len(s) - 1 /\ w[m] = s[m] /\ ~(j <= Len(s) - 1) /\ ~(j < Len(s))
      BY <1>3, <2>5, <3>1 DEF Without
    <3>3. current' = w[m]
      BY <1>1, <2>5, <3>1, <3>2 DEF LinksOut
    <3> QED
      BY <1>7, <2>2, <3>1, <3>2, <3>3
  <2>6. j < Len(s) \/ j = Len(s)
    BY <1>3
  <2> QED
    BY <2>3, <2>4, <2>5, <2>6
<1>11. Sequence!Min({j, Len(L) - 1}) = Min({j, Len(L) - 1})
  BY DEF Sequence!Min, Min
<1>12. Sequence!Delete(c)
  BY <1>5, <1>9, <1>10, <1>11 DEF Sequence!Delete
<1> QED
  BY <1>12 DEF Sequence!Next

\* A list that stays as it was stands for the same.
LEMMA SameMaps ==
  ASSUME TypeOK, careful, careful', ListStands', NEW s, IsList(s), IsList(s)', UNCHANGED pointers,
         \A i \in 1 .. Len(s) : heap'[s[i]].cid = cid(s[i])
  PROVE  UNCHANGED <<IDsInOrder, CursorIndex>>
<1>1. IDsInOrder' = IDs(s)' /\ IDsInOrder = IDs(s)
  BY MapsTo DEF ListStands
<1>2. IDs(s)' = IDs(s)
  BY DEF IDs, cid
<1>3. CASE s = <<>>
  BY <1>1, <1>2, <1>3, MapsTo DEF ListStands
<1>4. CASE s # <<>>
  <2>1. PICK k \in 1 .. Len(s) : current = s[k]
    BY <1>4, CursorOf
  <2>2. CursorIndex = k /\ CursorIndex' = k
    BY <2>1, MapsTo DEF ListStands, pointers
  <2> QED
    BY <1>1, <1>2, <2>2
<1> QED
  BY <1>3, <1>4

\* Every step of a careful caller is one of the sequence.
LEMMA StepMaps ==
  TypeOK /\ (careful => WellFormed) /\ ListStands' /\ [Next]_vars =>
    [Sequence!Next]_Sequence!vars
<1> SUFFICES ASSUME TypeOK, careful => WellFormed, ListStands', Next
             PROVE  Sequence!Next \/ UNCHANGED <<IDsInOrder, CursorIndex>>
  <2>1. UNCHANGED vars => UNCHANGED <<IDsInOrder, CursorIndex>>
    <3> SUFFICES ASSUME UNCHANGED vars PROVE UNCHANGED <<IDsInOrder, CursorIndex>>
      OBVIOUS
    <3>1. UNCHANGED <<heap, allocated, head, last, current, careful>>
      BY DEF vars, pointers
    <3>2. Chain' = Chain
      BY <3>1 DEF Chain, Trail
    <3> QED
      BY <3>1, <3>2 DEF IDsInOrder, CursorIndex, cid
  <2> QED
    BY <2>1 DEF Sequence!vars
<1>1. careful' = careful
  BY DEF Next
<1>2. CASE ~careful
  BY <1>1, <1>2 DEF IDsInOrder, CursorIndex
<1>3. CASE careful
  <2>1. PICK s : IsList(s)
    BY <1>3, WellFormedIsList
  <2>2. ListStep(s)
    BY <2>1, NextOnList
  <2>3. CASE Inserts(s)
    BY <1>1, <1>3, <2>1, <2>3, InsertMaps
  <2>4. CASE Finds(s)
    BY <1>1, <1>3, <2>1, <2>4, FindMaps
  <2>5. CASE Removes(s)
    BY <1>1, <1>3, <2>1, <2>5, RemoveMaps
  <2>6. CASE Keeps(s)
    <3>1. IsList(s)' /\ UNCHANGED pointers /\ \A i \in 1 .. Len(s) : heap'[s[i]].cid = cid(s[i])
      BY <2>6 DEF Keeps
    <3> QED
      BY <1>1, <1>3, <2>1, <3>1, SameMaps
  <2>7. CASE Fails
    <3>1. IsList(s)'
      BY <2>1, <2>7 DEF Fails, pointers, IsList, HasEnds, IsLinked, cid
    <3>2. UNCHANGED pointers /\ \A i \in 1 .. Len(s) : heap'[s[i]].cid = cid(s[i])
      BY <2>7 DEF Fails, cid
    <3> QED
      BY <1>1, <1>3, <2>1, <3>1, <3>2, SameMaps
  <2> QED
    BY <1>3, <2>2, <2>3, <2>4, <2>5, <2>6, <2>7 DEF ListStep
<1> QED
  BY <1>2, <1>3

LEMMA InitMaps == Init => WellFormed /\ Sequence!Init
<1> SUFFICES ASSUME Init PROVE WellFormed /\ Sequence!Init
  OBVIOUS
<1>1. TypeOK
  BY TypesInit
<1>2. IsList(<<>>)
  BY DEF Init, IsList, IsLinked
<1>3. WellFormed
  BY <1>1, <1>2, ListIsWellFormed
<1>4. CASE careful
  <2>1. IDsInOrder = IDs(<<>>) /\ CursorIndex = 0
    BY <1>1, <1>2, <1>4, MapsTo
  <2>2. IDs(<<>>) = <<>>
    BY <1>1, <1>2, IDsAre
  <2> QED
    BY <1>3, <2>1, <2>2 DEF Sequence!Init
<1>5. CASE ~careful
  BY <1>3, <1>5 DEF Sequence!Init, IDsInOrder, CursorIndex
<1> QED
  BY <1>4, <1>5

-----------------------------------------------------------------------------
(* The results.                                                            *)

\* The memory is typed throughout.
THEOREM TypeCorrect == Spec => []TypeOK
<1>1. Init => TypeOK
  BY TypesInit
<1>2. TypeOK /\ [Next]_vars => TypeOK'
  BY TypesKept
<1> QED
  BY <1>1, <1>2, PTL DEF Spec

\* A search that starts anywhere on a sound list finds an ID exactly if the
\* list holds it.
THEOREM SearchesAreComplete == Spec => []SearchIsComplete
BY TypeCorrect, SearchOfList, PTL

\* No operation on a sound list touches NULL or freed memory or runs forever,
\* and only the head taken from its right leaves it unsound.
THEOREM OnlyTheHeadBreaksIt == Spec => OnlyAHeadTakenFromTheRightBreaksTheList
BY TypeCorrect, StepOnList, PTL DEF Spec, OnlyAHeadTakenFromTheRightBreaksTheList

\* A careful caller's list stays sound.
LEMMA CarefulListsStaySound == Spec => [](careful => WellFormed)
<1>1. Init => (careful => WellFormed)
  BY InitMaps
<1>2. TypeOK /\ TypeOK' /\ (careful => WellFormed) /\ [Next]_vars => (careful => WellFormed)'
  <2> SUFFICES ASSUME TypeOK, TypeOK', careful => WellFormed, [Next]_vars, careful'
               PROVE  WellFormed'
    OBVIOUS
  <2>1. careful
    BY DEF Next, vars
  <2>2. WellFormed' \/ UNCHANGED vars
    BY <2>1, StepOnList
  <2>3. CASE UNCHANGED vars
    <3>1. UNCHANGED <<heap, allocated, head, last, current>>
      BY <2>3 DEF vars, pointers
    <3>2. Chain' = Chain
      BY <3>1 DEF Chain, Trail
    <3> QED
      BY <2>1, <3>1, <3>2 DEF WellFormed, cid
  <2> QED
    BY <2>2, <2>3
<1> QED
  BY <1>1, <1>2, TypeCorrect, PTL DEF Spec

\* The pointer code of a careful caller implements the sorted sequence of IDs
\* with a cursor, for any IDs and any amount of memory.
THEOREM RefinesTheSequence == Spec => ImplementsSequence
<1>1. Init => Sequence!Init
  BY InitMaps
<1>2. TypeOK' => ListStands'
  BY ListsStand, PTL
<1>3. TypeOK /\ TypeOK' /\ (careful => WellFormed) /\ [Next]_vars =>
        [Sequence!Next]_Sequence!vars
  BY <1>2, StepMaps
<1> QED
  BY <1>1, <1>3, TypeCorrect, CarefulListsStaySound, PTL DEF Spec, ImplementsSequence, Sequence!Spec
=============================================================================
