--------------------------- MODULE LinkListProofs ---------------------------
(***************************************************************************)
(* Proofs about the linked list, for any memory and any indexes.           *)
(*                                                                         *)
(* Each end of the list is followed by one of the two links.  Path(s, a,   *)
(* link) says that link leads from a through the nodes s to NULL; what the *)
(* recursive Trail meets on a path is found at the least index where it    *)
(* would part from it.                                                     *)
(***************************************************************************)
EXTENDS LinkList, FiniteSetTheorems, SequenceTheorems, TLAPS

-----------------------------------------------------------------------------
(* The least and the greatest of some indexes.                             *)

LEMMA LeastOf ==
  ASSUME NEW S, S \subseteq Nat, S # {}
  PROVE  Min(S) \in S /\ \A y \in S : Min(S) =< y
<1> DEFINE T == {0 .. n : n \in S}
<1>1. T \subseteq FiniteSubsetsOf(Nat)
  <2> SUFFICES ASSUME NEW n \in S PROVE 0 .. n \subseteq Nat /\ IsFiniteSet(0 .. n)
    BY DEF FiniteSubsetsOf
  <2> QED
    BY FS_Interval
<1>2. T # {}
  OBVIOUS
<1>3. PICK t \in T : \A u \in T : ~(<<u, t>> \in StrictSubsetOrdering(Nat))
  <2> HIDE DEF T
  <2>1. IsWellFoundedOn(StrictSubsetOrdering(Nat), FiniteSubsetsOf(Nat))
    BY FS_StrictSubsetOrderingWellFounded
  <2> QED
    BY <1>1, <1>2, <2>1, WFMin
<1>4. PICK x \in S : t = 0 .. x
  OBVIOUS
<1>5. ASSUME NEW y \in S PROVE x =< y
  <2> SUFFICES ASSUME y < x PROVE FALSE
    OBVIOUS
  <2>1. 0 .. y \in SUBSET Nat /\ 0 .. x \in SUBSET Nat
    OBVIOUS
  <2>2. 0 .. y \subseteq 0 .. x /\ 0 .. y # 0 .. x
    <3>1. x \in 0 .. x /\ x \notin 0 .. y
      OBVIOUS
    <3> QED
      BY <3>1
  <2>3. <<0 .. y, 0 .. x>> \in StrictSubsetOrdering(Nat)
    BY <2>1, <2>2 DEF StrictSubsetOrdering
  <2> QED
    BY <1>3, <1>4, <2>3
<1>6. \E z \in S : \A y \in S : z =< y
  BY <1>5
<1> QED
  BY <1>6 DEF Min

LEMMA GreatestOf ==
  ASSUME NEW n \in Nat, NEW S, S \subseteq 0 .. n, S # {}
  PROVE  Max(S) \in S /\ \A y \in S : Max(S) >= y
<1> DEFINE T == {n - x : x \in S}
<1>1. T \subseteq Nat /\ T # {}
  <2>1. \A x \in S : n - x \in Nat
    <3> SUFFICES ASSUME NEW x \in S PROVE n - x \in Nat
      OBVIOUS
    <3>1. x \in 0 .. n
      OBVIOUS
    <3> QED
      BY <3>1
  <2>2. T \subseteq Nat
    BY <2>1
  <2> QED
    BY <2>2
<1>2. PICK t \in T : \A u \in T : t =< u
  BY <1>1, LeastOf
<1>3. PICK x \in S : t = n - x
  OBVIOUS
<1>4. ASSUME NEW y \in S PROVE x >= y
  <2>1. n - x =< n - y
    BY <1>2, <1>3
  <2>2. x \in 0 .. n /\ y \in 0 .. n
    OBVIOUS
  <2> QED
    BY <2>1, <2>2
<1>5. \E z \in S : \A y \in S : z >= y
  BY <1>4
<1> QED
  BY <1>5 DEF Max

LEMMA SeqOfLen ==
  ASSUME NEW S, NEW n \in Nat, NEW f \in [1 .. n -> S]
  PROVE  f \in Seq(S) /\ Len(f) = n
<1>1. f \in Seq(S)
  BY SeqDef
<1>2. Len(f) \in Nat /\ DOMAIN f = 1 .. Len(f) /\ DOMAIN f = 1 .. n
  BY <1>1, LenProperties
<1> QED
  BY <1>1, <1>2

-----------------------------------------------------------------------------
(* Trails.                                                                 *)

Steps == 0 .. Cardinality(Addrs)

LEMMA StepsAre == Cardinality(Addrs) \in Nat /\ Steps = 0 .. Cardinality(Addrs)
BY LinkListAssumption, FS_CardinalityType DEF Steps

\* Where a trail goes from a pointer.
Onwards(p, link) == IF p \in allocated THEN heap[p][link] ELSE p

\* The recursive function of Trail exists.
LEMMA TrailIs ==
  ASSUME NEW a, NEW link
  PROVE  Trail(a, link) = [n \in Steps |-> IF n = 0 THEN a
                                           ELSE Onwards(Trail(a, link)[n - 1], link)]
<1> DEFINE N == Cardinality(Addrs)
           Is(f, m) == f = [n \in 0 .. m |-> IF n = 0 THEN a ELSE Onwards(f[n - 1], link)]
           Missing == {m \in 0 .. N : ~ \E f : Is(f, m)}
<1>1. N \in Nat /\ Steps = 0 .. N
  BY StepsAre
<1>2. Missing = {}
  <2> SUFFICES ASSUME Missing # {} PROVE FALSE
    OBVIOUS
  <2>1. PICK m \in Missing : \A k \in Missing : m =< k
    <3>1. Missing \subseteq Nat
      BY <1>1
    <3> QED
      BY <3>1, LeastOf
  <2>2. CASE m = 0
    <3>1. Is([n \in 0 .. 0 |-> a], 0)
      OBVIOUS
    <3> QED
      BY <2>2, <3>1
  <2>3. CASE m # 0
    <3>1. m - 1 \in 0 .. N /\ m - 1 \notin Missing /\ m \in Nat
      BY <1>1, <2>1, <2>3
    <3>2. PICK f : Is(f, m - 1)
      BY <3>1
    <3> DEFINE g == [n \in 0 .. m |-> IF n = m THEN Onwards(f[m - 1], link) ELSE f[n]]
    <3>3. \A n \in 0 .. m - 1 : g[n] = f[n]
      BY <3>1
    <3>4. \A n \in 0 .. m : g[n] = IF n = 0 THEN a ELSE Onwards(g[n - 1], link)
      <4> SUFFICES ASSUME NEW n \in 0 .. m
                   PROVE  g[n] = IF n = 0 THEN a ELSE Onwards(g[n - 1], link)
        OBVIOUS
      <4> HIDE DEF g
      <4>1. CASE n = m
        <5>1. g[n] = Onwards(f[m - 1], link)
          BY <4>1, <3>1 DEF g
        <5>2. g[m - 1] = f[m - 1]
          BY <3>1, <3>3
        <5> QED
          BY <5>1, <5>2, <4>1, <2>3
      <4>2. CASE n # m
        <5>1. n \in 0 .. m - 1 /\ (n # 0 => n - 1 \in 0 .. m - 1)
          BY <4>2, <3>1
        <5>2. f[n] = IF n = 0 THEN a ELSE Onwards(f[n - 1], link)
          BY <5>1, <3>2
        <5> QED
          BY <5>1, <5>2, <3>3
      <4> QED
        BY <4>1, <4>2
    <3>5. g = [n \in 0 .. m |-> g[n]]
      OBVIOUS
    <3>6. Is(g, m)
      <4> HIDE DEF g
      <4> QED
        BY <3>4, <3>5
    <3> QED
      BY <3>6
  <2> QED
    BY <2>2, <2>3
<1>3. \E f : Is(f, N)
  BY <1>1, <1>2
<1>4. Trail(a, link) = CHOOSE f : Is(f, N)
  BY <1>1 DEF Trail, Onwards
<1>5. Is(Trail(a, link), N)
  BY <1>3, <1>4
<1> QED
  BY <1>1, <1>5

LEMMA TrailStarts ==
  ASSUME NEW a, NEW link
  PROVE  Trail(a, link)[0] = a
<1>1. 0 \in Steps
  BY StepsAre
<1> QED
  BY <1>1, TrailIs

LEMMA TrailGoesOn ==
  ASSUME NEW a, NEW link, NEW n \in Steps, n > 0
  PROVE  Trail(a, link)[n] = Onwards(Trail(a, link)[n - 1], link)
<1>1. n \in Nat /\ n # 0
  BY StepsAre
<1> QED
  BY <1>1, TrailIs

-----------------------------------------------------------------------------
(* Paths.                                                                  *)

TypeOK ==
  /\ heap \in [Addrs -> Nodes]
  /\ allocated \subseteq Addrs
  /\ head_node \in Pointer /\ last_node \in Pointer

\* In a memory, link leads from a through the nodes s, and from the last of
\* them to NULL.
PathIn(s, a, link, memory, nodes) ==
  /\ s \in Seq(nodes)
  /\ s = <<>> => a = NULL
  /\ s # <<>> => a = s[1] /\ memory[s[Len(s)]][link] = NULL
  /\ \A i \in 1 .. Len(s) - 1 : memory[s[i]][link] = s[i + 1]
Path(s, a, link) == PathIn(s, a, link, heap, allocated)

LEMMA PathIsSeq ==
  ASSUME NEW s, NEW a, NEW link, Path(s, a, link)
  PROVE  /\ Len(s) \in Nat /\ s \in [1 .. Len(s) -> allocated]
         /\ s = <<>> <=> Len(s) = 0
BY LenProperties, EmptySeq DEF Path, PathIn

\* What a path says of its nodes.
LEMMA PathLinks ==
  ASSUME TypeOK, NEW s, NEW a, NEW link, Path(s, a, link), NEW i \in 1 .. Len(s)
  PROVE  /\ s[i] \in allocated /\ s[i] \in Addrs /\ s[i] # NULL
         /\ i = 1 => a = s[i]
         /\ i = Len(s) => heap[s[i]][link] = NULL
         /\ i < Len(s) => i + 1 \in 1 .. Len(s) /\ heap[s[i]][link] = s[i + 1]
<1>1. Len(s) \in Nat /\ s \in [1 .. Len(s) -> allocated] /\ s # <<>>
  BY PathIsSeq
<1>2. s[i] \in allocated /\ s[i] \in Addrs /\ s[i] # NULL
  BY <1>1, LinkListAssumption DEF TypeOK
<1>3. i < Len(s) => i + 1 \in 1 .. Len(s) /\ i \in 1 .. Len(s) - 1
  BY <1>1
<1>4. a = s[1] /\ heap[s[Len(s)]][link] = NULL
  BY <1>1 DEF Path, PathIn
<1>5. i < Len(s) => heap[s[i]][link] = s[i + 1]
  BY <1>3 DEF Path, PathIn
<1> QED
  BY <1>2, <1>3, <1>4, <1>5

\* No node is on a path twice: what comes after it would be too.
LEMMA PathIsDistinct ==
  ASSUME TypeOK, NEW s, NEW a, NEW link, Path(s, a, link)
  PROVE  \A i, j \in 1 .. Len(s) : s[i] = s[j] => i = j
<1> DEFINE Twice == {j \in 1 .. Len(s) : \E i \in 1 .. Len(s) : i < j /\ s[i] = s[j]}
<1>0. Len(s) \in Nat
  BY PathIsSeq
<1>1. Twice = {}
  <2> SUFFICES ASSUME Twice # {} PROVE FALSE
    OBVIOUS
  <2>1. PICK j \in Twice : \A k \in Twice : j >= k
    <3>1. Twice \subseteq 0 .. Len(s)
      BY <1>0
    <3> HIDE DEF Twice
    <3> QED
      BY <1>0, <3>1, GreatestOf
  <2>2. j \in 1 .. Len(s)
    OBVIOUS
  <2>3. PICK i \in 1 .. Len(s) : i < j /\ s[i] = s[j]
    OBVIOUS
  <2>4. i < Len(s) /\ i + 1 \in 1 .. Len(s)
    BY <1>0, <2>2, <2>3
  <2>5. heap[s[i]][link] = s[i + 1] /\ s[i + 1] # NULL
    BY <2>4, PathLinks
  <2>6. CASE j = Len(s)
    <3>1. heap[s[j]][link] = NULL
      BY <2>2, <2>6, PathLinks
    <3> QED
      BY <2>3, <2>5, <3>1
  <2>7. CASE j # Len(s)
    <3>1. j < Len(s) /\ j + 1 \in 1 .. Len(s) /\ i + 1 < j + 1
      BY <1>0, <2>2, <2>3, <2>7
    <3>2. heap[s[j]][link] = s[j + 1]
      BY <2>2, <3>1, PathLinks
    <3>3. j + 1 \in Twice
      BY <2>3, <2>4, <2>5, <3>1, <3>2
    <3>4. ~(j >= j + 1)
      BY <2>2
    <3> QED
      BY <2>1, <3>3, <3>4
  <2> QED
    BY <2>6, <2>7
<1> QED
  <2> SUFFICES ASSUME NEW i \in 1 .. Len(s), NEW j \in 1 .. Len(s), s[i] = s[j], i # j
               PROVE  FALSE
    OBVIOUS
  <2>1. CASE i < j
    BY <1>1, <2>1
  <2>2. CASE j < i
    BY <1>1, <2>2
  <2> QED
    BY <2>1, <2>2

LEMMA PathIsShort ==
  ASSUME TypeOK, NEW s, NEW a, NEW link, Path(s, a, link)
  PROVE  Len(s) \in Nat /\ Len(s) <= Cardinality(Addrs) /\ \A i \in 0 .. Len(s) : i \in Steps
<1>1. IsFiniteSet(allocated) /\ Cardinality(allocated) <= Cardinality(Addrs)
  BY LinkListAssumption, FS_Subset DEF TypeOK
<1>2. Len(s) \in Nat /\ s \in [1 .. Len(s) -> allocated]
  BY PathIsSeq
<1>3. s \in Injection(1 .. Len(s), allocated)
  BY <1>2, PathIsDistinct DEF Injection, IsInjective
<1>4. Cardinality(1 .. Len(s)) <= Cardinality(allocated)
  BY <1>1, <1>3, FS_Injection
<1>5. Cardinality(1 .. Len(s)) = Len(s)
  BY <1>2, FS_Interval
<1>6. Cardinality(allocated) \in Nat /\ Cardinality(Addrs) \in Nat
  BY <1>1, FS_CardinalityType, StepsAre
<1> QED
  BY <1>1, <1>2, <1>4, <1>5, <1>6, StepsAre

\* A trail from the start of a path follows it.
LEMMA TrailOfPath ==
  ASSUME TypeOK, NEW s, NEW a, NEW link, Path(s, a, link)
  PROVE  /\ \A m \in 1 .. Len(s) : m - 1 \in Steps /\ Trail(a, link)[m - 1] = s[m]
         /\ \A m \in Steps : m >= Len(s) => Trail(a, link)[m] = NULL
<1> DEFINE at == Trail(a, link)
           Off == {m \in 1 .. Len(s) : at[m - 1] # s[m]}
           Far == {m \in Steps : m >= Len(s) /\ at[m] # NULL}
<1>0. Len(s) \in Nat /\ \A m \in 0 .. Len(s) : m \in Steps
  BY PathIsShort
<1>1. at[0] = a
  BY TrailStarts
<1>2. Off = {}
  <2> SUFFICES ASSUME Off # {} PROVE FALSE
    OBVIOUS
  <2>1. PICK m \in Off : \A i \in Off : m =< i
    <3>1. Off \subseteq Nat
      BY <1>0
    <3> HIDE DEF Off
    <3> QED
      BY <3>1, LeastOf
  <2>2. m \in 1 .. Len(s) /\ at[m - 1] # s[m]
    BY <2>1
  <2>3. m # 1
    <3>1. m = 1 => a = s[m]
      BY <2>2, PathLinks
    <3> QED
      BY <1>1, <2>2, <3>1
  <2>4. PICK p : p = m - 1
    OBVIOUS
  <2>5. /\ p \in 1 .. Len(s) /\ p < Len(s) /\ p + 1 = m /\ p \in Steps /\ p > 0
        /\ ~(m =< p)
    BY <1>0, <2>2, <2>3, <2>4
  <2>6. at[p - 1] = s[p]
    <3>1. p \notin Off
      BY <2>1, <2>5
    <3> QED
      BY <2>5, <3>1
  <2>7. at[p] = Onwards(at[p - 1], link)
    BY <2>5, TrailGoesOn
  <2>8. s[p] \in allocated /\ heap[s[p]][link] = s[p + 1]
    BY <2>5, PathLinks
  <2> HIDE DEF at
  <2> QED
    BY <2>2, <2>4, <2>5, <2>6, <2>7, <2>8 DEF Onwards
<1>3. at[Len(s)] = NULL
  <2>1. CASE Len(s) = 0
    <3>1. a = NULL
      BY <2>1, PathIsSeq DEF Path, PathIn
    <3> QED
      BY <1>1, <2>1, <3>1
  <2>2. CASE Len(s) # 0
    <3>1. Len(s) \in Steps /\ Len(s) > 0 /\ Len(s) \in 1 .. Len(s)
      BY <1>0, <2>2
    <3>2. at[Len(s)] = Onwards(at[Len(s) - 1], link)
      BY <3>1, TrailGoesOn
    <3>3. at[Len(s) - 1] = s[Len(s)]
      BY <1>2, <3>1
    <3>4. s[Len(s)] \in allocated /\ heap[s[Len(s)]][link] = NULL
      BY <3>1, PathLinks
    <3> HIDE DEF at
    <3> QED
      BY <3>2, <3>3, <3>4 DEF Onwards
  <2> QED
    BY <2>1, <2>2
<1>4. Far = {}
  <2> SUFFICES ASSUME Far # {} PROVE FALSE
    OBVIOUS
  <2>1. PICK m \in Far : \A i \in Far : m =< i
    <3>1. Far \subseteq Nat
      BY StepsAre
    <3> HIDE DEF Far
    <3> QED
      BY <3>1, LeastOf
  <2>2. m \in Steps /\ m \in Nat /\ m >= Len(s) /\ at[m] # NULL
    BY <2>1, StepsAre
  <2>3. m > Len(s) /\ m > 0 /\ m - 1 \in Steps /\ m - 1 >= Len(s) /\ ~(m =< m - 1)
    <3>1. m # Len(s)
      BY <1>3, <2>2
    <3> HIDE DEF at
    <3> QED
      BY <1>0, <2>2, <3>1, StepsAre
  <2>4. at[m - 1] = NULL
    <3>1. m - 1 \notin Far
      BY <2>1, <2>3
    <3> QED
      BY <2>3, <3>1
  <2>5. at[m] = Onwards(at[m - 1], link)
    BY <2>2, <2>3, TrailGoesOn
  <2>6. NULL \notin allocated
    BY LinkListAssumption DEF TypeOK
  <2> HIDE DEF at
  <2> QED
    BY <2>2, <2>4, <2>5, <2>6 DEF Onwards
<1>5. \A m \in 1 .. Len(s) : m - 1 \in Steps
  BY <1>0
<1> QED
  BY <1>2, <1>4, <1>5

\* Chain is the path.
LEMMA ChainOfPath ==
  ASSUME TypeOK, NEW s, NEW a, NEW link, Path(s, a, link)
  PROVE  Chain(a, link) = s /\ Ends(a, link)
<1> DEFINE at == Trail(a, link)
           N == Cardinality(Addrs)
           out == {k \in DOMAIN at : at[k] \notin allocated} \cup {N}
           n == Min(out)
           f == [k \in 1 .. Len(s) |-> at[k - 1]]
<1>0. /\ Len(s) \in Nat /\ s \in [1 .. Len(s) -> allocated]
      /\ N \in Nat /\ Steps = 0 .. N /\ Len(s) <= N /\ NULL \notin allocated
  BY PathIsSeq, PathIsShort, StepsAre, LinkListAssumption DEF TypeOK
<1>1. DOMAIN at = Steps
  <2>1. at = [k \in Steps |-> IF k = 0 THEN a ELSE Onwards(at[k - 1], link)]
    BY TrailIs
  <2> HIDE DEF at
  <2> QED
    BY <2>1
<1>2. /\ \A m \in 1 .. Len(s) : m - 1 \in Steps /\ at[m - 1] = s[m]
      /\ \A m \in Steps : m >= Len(s) => at[m] = NULL
  BY TrailOfPath
<1> HIDE DEF at
<1>3. n = Len(s)
  <2>1. out \subseteq Nat /\ N \in out
    BY <1>0, <1>1
  <2>2. n \in out /\ \A y \in out : n =< y
    <3> HIDE DEF out
    <3> QED
      BY <2>1, LeastOf
  <2>3. Len(s) \in out
    <3>1. Len(s) \in Steps /\ Len(s) >= Len(s)
      BY <1>0
    <3>2. at[Len(s)] = NULL
      BY <1>2, <3>1
    <3> QED
      BY <1>0, <1>1, <3>1, <3>2
  <2>4. \A k \in 0 .. Len(s) - 1 : k \notin out
    <3> SUFFICES ASSUME NEW k \in 0 .. Len(s) - 1 PROVE at[k] \in allocated /\ k # N
      OBVIOUS
    <3>1. k + 1 \in 1 .. Len(s) /\ (k + 1) - 1 = k /\ k # N
      BY <1>0
    <3> QED
      BY <1>0, <1>2, <3>1
  <2> HIDE DEF out
  <2>5. n \in Nat /\ n <= Len(s) /\ n \notin 0 .. Len(s) - 1
    BY <2>1, <2>2, <2>3, <2>4
  <2> HIDE DEF n
  <2>6. PICK l \in Nat : l = Len(s)
    BY <1>0
  <2>7. n <= l /\ n \notin 0 .. l - 1
    BY <2>5, <2>6
  <2>8. n = l
    BY <2>5, <2>7
  <2> QED
    BY <2>6, <2>8
<1>4. Chain(a, link) = f
  BY <1>3 DEF Chain, at
<1>5. f = s
  <2>1. \A k \in 1 .. Len(s) : f[k] = s[k]
    BY <1>2
  <2>2. f = [k \in 1 .. Len(s) |-> f[k]] /\ s = [k \in 1 .. Len(s) |-> s[k]]
    BY <1>0
  <2> HIDE DEF f
  <2> QED
    BY <2>1, <2>2
<1>6. Ends(a, link)
  <2>1. N \in Steps /\ N >= Len(s)
    BY <1>0
  <2>2. at[N] = NULL
    BY <1>2, <2>1
  <2> QED
    BY <2>2 DEF Ends, at
<1> QED
  BY <1>4, <1>5, <1>6

-----------------------------------------------------------------------------
(* Types.                                                                  *)

LEMMA TypesInit == Init => TypeOK
<1>1. Blank \in Nodes
  BY LinkListAssumption DEF Blank, Node, Nodes, Pointer
<1> QED
  BY <1>1 DEF Init, TypeOK, Pointer

\* The node InsertBeside fills in.
LEMMA BesideIs ==
  ASSUME NEW u, NEW p, NEW q
  PROVE  /\ [Node(u, NULL, NULL) EXCEPT !["next"] = p, !["previous"] = q] = Node(u, q, p)
         /\ [Node(u, NULL, NULL) EXCEPT !["previous"] = p, !["next"] = q] = Node(u, p, q)
<1>1. [Node(u, NULL, NULL) EXCEPT !["next"] = p, !["previous"] = q] = Node(u, q, p)
  BY DEF Node
<1>2. [Node(u, NULL, NULL) EXCEPT !["previous"] = p, !["next"] = q] = Node(u, p, q)
  BY DEF Node
<1> QED
  BY <1>1, <1>2

LEMMA TypesKept == TypeOK /\ [Next]_vars => TypeOK'
<1> SUFFICES ASSUME TypeOK, [Next]_vars PROVE TypeOK'
  OBVIOUS
<1>0. /\ heap \in [Addrs -> Nodes] /\ allocated \subseteq Addrs
      /\ head_node \in Pointer /\ last_node \in Pointer
      /\ Addrs \subseteq Pointer /\ NULL \in Pointer
  BY DEF TypeOK, Pointer
<1>n. \A u \in Indexes, p \in Pointer, q \in Pointer : Node(u, p, q) \in Nodes
  BY DEF Node, Nodes
<1>l. \A x \in Addrs : heap[x].next \in Pointer /\ heap[x].previous \in Pointer
  BY <1>0 DEF Nodes
<1>b. Blank \in Nodes
  <2>1. (CHOOSE i \in Indexes : TRUE) \in Indexes
    BY LinkListAssumption
  <2> QED
    BY <1>0, <1>n, <2>1 DEF Blank
<1>c. \A p : Crash(p) => TypeOK'
  BY <1>0 DEF Crash, TypeOK
<1>f. ASSUME NEW t \in allocated, NEW m \in [Addrs -> Nodes], Free(t, m)
      PROVE  heap' \in [Addrs -> Nodes] /\ allocated' \subseteq Addrs
  BY <1>0, <1>b, <1>f DEF Free
<1>1. ASSUME NEW a \in Addrs, NEW i \in Indexes, add_first(a, i) \/ add_last(a, i) PROVE TypeOK'
  <2>1. /\ heap' \in [Addrs -> Nodes] /\ allocated' \subseteq Addrs
        /\ head_node' \in Pointer /\ last_node' \in Pointer
    BY <1>0, <1>1, <1>n DEF add_first, add_last, Malloc
  <2> QED
    BY <2>1 DEF TypeOK
<1>2. ASSUME NEW a \in Addrs, NEW u \in Indexes, NEW i \in Indexes,
             insert_after(a, u, i) \/ insert_before(a, u, i)
      PROVE  TypeOK'
  <2>1. CASE InsertFirst(a, u) \/ InsertNowhere(a, i)
    <3>1. /\ heap' \in [Addrs -> Nodes] /\ allocated' \subseteq Addrs
          /\ head_node' \in Pointer /\ last_node' \in Pointer
      BY <1>0, <1>n, <2>1 DEF InsertFirst, InsertNowhere, Malloc
    <3> QED
      BY <3>1 DEF TypeOK
  <2>2. CASE InsertBeside(a, u, i, "next", "previous")
    <3> DEFINE temp1 == Walk(i)
               temp2 == heap[temp1].next
    <3>1. CASE Crash(temp1) \/ Crash(temp2)
      BY <1>c, <3>1
    <3>2. CASE /\ temp1 \in allocated /\ temp2 \in allocated
               /\ allocated' = allocated \cup {a}
               /\ heap' = [heap EXCEPT ![a] = Node(u, temp1, temp2),
                                       ![temp1]["next"] = a, ![temp2]["previous"] = a]
               /\ UNCHANGED <<head_node, last_node, fault>>
      <4> HIDE DEF temp1, temp2
      <4>1. Node(u, temp1, temp2) \in Nodes /\ temp1 \in Addrs /\ temp2 \in Addrs /\ a \in Pointer
        BY <1>0, <1>n, <3>2
      <4>2. heap' \in [Addrs -> Nodes]
        BY <1>0, <3>2, <4>1 DEF Nodes
      <4> QED
        BY <1>0, <3>2, <4>2 DEF TypeOK
    <3> HIDE DEF temp1
    <3>3. temp2 = heap[temp1]["next"]
      OBVIOUS
    <3> HIDE DEF temp2
    <3>4. [Node(u, NULL, NULL) EXCEPT !["next"] = temp2, !["previous"] = temp1] = Node(u, temp1, temp2)
      BY BesideIs
    <3>5. \/ Crash(temp1) \/ Crash(temp2)
          \/ /\ temp1 \in allocated /\ temp2 \in allocated
             /\ Malloc(a)
             /\ heap' = [heap EXCEPT
                  ![a] = [Node(u, NULL, NULL) EXCEPT !["next"] = temp2, !["previous"] = temp1],
                  ![temp1]["next"] = a, ![temp2]["previous"] = a]
             /\ UNCHANGED <<head_node, last_node, fault>>
      BY <2>2, <3>3 DEF InsertBeside, temp1
    <3> QED
      BY <3>1, <3>2, <3>4, <3>5 DEF Malloc
  <2>3. CASE InsertBeside(a, u, i, "previous", "next")
    <3> DEFINE temp1 == Walk(i)
               temp2 == heap[temp1].previous
    <3>1. CASE Crash(temp1) \/ Crash(temp2)
      BY <1>c, <3>1
    <3>2. CASE /\ temp1 \in allocated /\ temp2 \in allocated
               /\ allocated' = allocated \cup {a}
               /\ heap' = [heap EXCEPT ![a] = Node(u, temp2, temp1),
                                       ![temp1]["previous"] = a, ![temp2]["next"] = a]
               /\ UNCHANGED <<head_node, last_node, fault>>
      <4> HIDE DEF temp1, temp2
      <4>1. Node(u, temp2, temp1) \in Nodes /\ temp1 \in Addrs /\ temp2 \in Addrs /\ a \in Pointer
        BY <1>0, <1>n, <3>2
      <4>2. heap' \in [Addrs -> Nodes]
        BY <1>0, <3>2, <4>1 DEF Nodes
      <4> QED
        BY <1>0, <3>2, <4>2 DEF TypeOK
    <3> HIDE DEF temp1
    <3>3. temp2 = heap[temp1]["previous"]
      OBVIOUS
    <3> HIDE DEF temp2
    <3>4. [Node(u, NULL, NULL) EXCEPT !["previous"] = temp2, !["next"] = temp1] = Node(u, temp2, temp1)
      BY BesideIs
    <3>5. \/ Crash(temp1) \/ Crash(temp2)
          \/ /\ temp1 \in allocated /\ temp2 \in allocated
             /\ Malloc(a)
             /\ heap' = [heap EXCEPT
                  ![a] = [Node(u, NULL, NULL) EXCEPT !["previous"] = temp2, !["next"] = temp1],
                  ![temp1]["previous"] = a, ![temp2]["next"] = a]
             /\ UNCHANGED <<head_node, last_node, fault>>
      BY <2>3, <3>3 DEF InsertBeside, temp1
    <3> QED
      BY <3>1, <3>2, <3>4, <3>5 DEF Malloc
  <2> QED
    BY <1>2, <2>1, <2>2, <2>3 DEF insert_after, insert_before
<1>o. ASSUME NEW t \in allocated, RemoveOnly(t) PROVE TypeOK'
  BY <1>0, <1>f, <1>o DEF RemoveOnly, TypeOK
<1>3. CASE remove_first
  <2> DEFINE new == heap[head_node].next
  <2>1. CASE Crash(head_node) \/ Crash(new)
    BY <1>c, <2>1
  <2>2. CASE head_node \in allocated /\ RemoveOnly(head_node)
    BY <1>o, <2>2
  <2>3. CASE /\ head_node \in allocated /\ new \in allocated
             /\ head_node' = new
             /\ Free(head_node, [heap EXCEPT ![new].previous = NULL])
             /\ UNCHANGED <<last_node, fault>>
    <3> HIDE DEF new
    <3>1. [heap EXCEPT ![new].previous = NULL] \in [Addrs -> Nodes]
      BY <1>0, <2>3 DEF Nodes
    <3>2. heap' \in [Addrs -> Nodes] /\ allocated' \subseteq Addrs
      BY <1>f, <2>3, <3>1
    <3> QED
      BY <1>0, <2>3, <3>2 DEF TypeOK
  <2> QED
    BY <1>3, <2>1, <2>2, <2>3 DEF remove_first
<1>4. CASE remove_last
  <2> DEFINE new == heap[last_node].previous
  <2>1. CASE Crash(last_node) \/ Crash(new)
    BY <1>c, <2>1
  <2>2. CASE last_node \in allocated /\ RemoveOnly(last_node)
    BY <1>o, <2>2
  <2>3. CASE /\ last_node \in allocated /\ new \in allocated
             /\ last_node' = new
             /\ Free(last_node, [heap EXCEPT ![new].next = NULL])
             /\ UNCHANGED <<head_node, fault>>
    <3> HIDE DEF new
    <3>1. [heap EXCEPT ![new].next = NULL] \in [Addrs -> Nodes]
      BY <1>0, <2>3 DEF Nodes
    <3>2. heap' \in [Addrs -> Nodes] /\ allocated' \subseteq Addrs
      BY <1>f, <2>3, <3>1
    <3> QED
      BY <1>0, <2>3, <3>2 DEF TypeOK
  <2> QED
    BY <1>4, <2>1, <2>2, <2>3 DEF remove_last
<1>5. ASSUME NEW i \in Indexes, remove_node(i) PROVE TypeOK'
  <2> DEFINE temp == Walk(i)
             left == heap[temp].previous
  <2>1. CASE Crash(temp) \/ Crash(left)
    BY <1>c, <2>1
  <2>2. CASE /\ temp \in allocated
             /\ head_node' = NULL /\ last_node' = NULL
             /\ Free(temp, heap)
    <3> HIDE DEF temp
    <3> QED
      BY <1>0, <1>f, <2>2 DEF TypeOK
  <2>3. CASE /\ temp \in allocated /\ left \in allocated
             /\ Free(temp, [heap EXCEPT ![left].next = heap[temp].next])
             /\ UNCHANGED <<head_node, last_node, fault>>
    <3> HIDE DEF temp, left
    <3>1. [heap EXCEPT ![left].next = heap[temp].next] \in [Addrs -> Nodes]
      BY <1>0, <1>l, <2>3 DEF Nodes
    <3>2. heap' \in [Addrs -> Nodes] /\ allocated' \subseteq Addrs
      BY <1>f, <2>3, <3>1
    <3> QED
      BY <1>0, <2>3, <3>2 DEF TypeOK
  <2> HIDE DEF temp
  <2> QED
    BY <1>5, <2>1, <2>2, <2>3 DEF remove_node, temp
<1>6. ASSUME NEW i \in Indexes, find_node(i) PROVE TypeOK'
  BY <1>6, <1>c DEF find_node
<1>7. CASE OutOfMemory \/ UNCHANGED vars
  BY <1>0, <1>7 DEF OutOfMemory, vars, TypeOK
<1> QED
  BY <1>1, <1>2, <1>3, <1>4, <1>5, <1>6, <1>7 DEF Next

-----------------------------------------------------------------------------
(* One end used alone.                                                     *)

\* A path whose nodes have no link back.
OneWayIn(s, a, link, back, memory, nodes) ==
  /\ PathIn(s, a, link, memory, nodes)
  /\ \A k \in 1 .. Len(s) : memory[s[k]][back] = NULL
OneWay(s, a, link, back) == OneWayIn(s, a, link, back, heap, allocated)

\* The indexes of the nodes s.
IndexesIn(s, memory) == [k \in 1 .. Len(s) |-> memory[s[k]].index]
IndexesOf(s) == IndexesIn(s, heap)

\* Node a with index i becomes the first on the path that link leads from e.
PushesNode(a, i, e, link, back) ==
  /\ a \in Addrs \ allocated
  /\ allocated' = allocated \cup {a}
  /\ heap'[a].index = i /\ heap'[a][link] = e /\ heap'[a][back] = NULL
  /\ \A x \in allocated : heap'[x] = heap[x]

\* Node e is freed and the next may lose its link back.
PopsNode(e, link, back) ==
  /\ allocated' = allocated \ {e}
  /\ \A x \in allocated \ {e} :
       /\ heap'[x].index = heap[x].index /\ heap'[x][link] = heap[x][link]
       /\ heap[x][back] = NULL => heap'[x][back] = NULL

Onto(x, s) == <<x>> \o s

LEMMA PathPushed ==
  ASSUME TypeOK, NEW s, NEW e, NEW link, NEW back, OneWay(s, e, link, back),
         NEW a, NEW i, PushesNode(a, i, e, link, back),
         NEW t, t = Onto(a, s), NEW u, u = Onto(i, IndexesOf(s))
  PROVE  /\ OneWayIn(t, a, link, back, heap', allocated')
         /\ IndexesIn(t, heap') = u
<1> DEFINE n == Len(s)
<1>1. Path(s, e, link) /\ \A k \in 1 .. Len(s) : heap[s[k]][back] = NULL
  BY DEF OneWay, OneWayIn, Path
<1>2. n \in Nat /\ s \in Seq(allocated) /\ s \in [1 .. n -> allocated]
  BY <1>1, PathIsSeq DEF Path, PathIn
<1>3. /\ t \in Seq(allocated \cup {a}) /\ Len(t) = n + 1
      /\ t[1] = a /\ \A k \in 1 .. n : t[k + 1] = s[k]
  <2>1. <<a>> \in Seq(allocated \cup {a}) /\ Len(<<a>>) = 1 /\ <<a>>[1] = a
    OBVIOUS
  <2>2. s \in Seq(allocated \cup {a})
    BY <1>2
  <2>3. /\ t \in Seq(allocated \cup {a}) /\ Len(t) = 1 + n
        /\ \A k \in 1 .. 1 + n : t[k] = IF k <= 1 THEN <<a>>[k] ELSE s[k - 1]
    BY <2>1, <2>2, ConcatProperties DEF Onto
  <2> HIDE DEF n
  <2>4. \A k \in 1 .. n : t[k + 1] = s[k]
    <3> SUFFICES ASSUME NEW k \in 1 .. n PROVE t[k + 1] = s[k]
      OBVIOUS
    <3>1. k + 1 \in 1 .. 1 + n /\ ~(k + 1 <= 1) /\ (k + 1) - 1 = k
      BY <1>2
    <3> QED
      BY <2>3, <3>1
  <2>5. 1 \in 1 .. 1 + n /\ 1 <= 1 /\ 1 + n = n + 1
    BY <1>2
  <2> QED
    BY <2>1, <2>3, <2>4, <2>5
<1>4. \A k \in 1 .. n : heap'[s[k]] = heap[s[k]]
  BY <1>2 DEF PushesNode
<1>5. \A k \in 1 .. n + 1 : k = 1 \/ (k - 1 \in 1 .. n /\ (k - 1) + 1 = k /\ t[k] = s[k - 1])
  <2> SUFFICES ASSUME NEW k \in 1 .. n + 1, k # 1
               PROVE  k - 1 \in 1 .. n /\ (k - 1) + 1 = k /\ t[k] = s[k - 1]
    OBVIOUS
  <2>1. k - 1 \in 1 .. n /\ (k - 1) + 1 = k
    BY <1>2
  <2> QED
    BY <1>3, <2>1
<1>6. \A k \in 1 .. n + 1 : heap'[t[k]][back] = NULL
  <2> SUFFICES ASSUME NEW k \in 1 .. n + 1 PROVE heap'[t[k]][back] = NULL
    OBVIOUS
  <2>1. CASE k = 1
    BY <1>3, <2>1 DEF PushesNode
  <2>2. CASE k # 1
    BY <1>1, <1>4, <1>5, <2>2
  <2> QED
    BY <2>1, <2>2
<1>7. t # <<>> /\ heap'[t[n + 1]][link] = NULL
  <2>1. t # <<>>
    BY <1>2, <1>3, EmptySeq
  <2>2. CASE n = 0
    <3>1. e = NULL
      BY <1>1, <2>2, PathIsSeq DEF Path, PathIn
    <3> QED
      BY <1>3, <2>1, <2>2, <3>1 DEF PushesNode
  <2>3. CASE n # 0
    <3>1. n \in 1 .. n
      BY <1>2, <2>3
    <3>2. t[n + 1] = s[n] /\ heap'[s[n]] = heap[s[n]]
      BY <1>3, <1>4, <3>1
    <3>3. heap[s[n]][link] = NULL
      BY <1>1, <3>1, PathLinks
    <3> QED
      BY <2>1, <3>2, <3>3
  <2> QED
    BY <2>2, <2>3
<1>8. \A k \in 1 .. n : heap'[t[k]][link] = t[k + 1]
  <2> SUFFICES ASSUME NEW k \in 1 .. n PROVE heap'[t[k]][link] = t[k + 1]
    OBVIOUS
  <2>1. t[k + 1] = s[k]
    BY <1>3
  <2>2. CASE k = 1
    <3>1. e = s[k]
      BY <1>1, <2>2, PathLinks
    <3> QED
      BY <1>3, <2>1, <2>2, <3>1 DEF PushesNode
  <2>3. CASE k # 1
    <3>1. PICK m : m = k - 1
      OBVIOUS
    <3>2. m \in 1 .. n /\ m + 1 = k /\ m < n /\ k \in 1 .. n + 1
      BY <1>2, <2>3, <3>1
    <3>3. t[k] = s[m]
      BY <1>3, <3>2
    <3>4. heap[s[m]][link] = s[k]
      BY <1>1, <3>2, PathLinks
    <3> QED
      BY <1>4, <2>1, <3>2, <3>3, <3>4
  <2> QED
    BY <2>2, <2>3
<1>9. OneWayIn(t, a, link, back, heap', allocated')
  <2>1. allocated' = allocated \cup {a}
    BY DEF PushesNode
  <2>2. \A k \in 1 .. Len(t) - 1 : k \in 1 .. n
    BY <1>2, <1>3
  <2>3. PathIn(t, a, link, heap', allocated')
    BY <1>3, <1>7, <1>8, <2>1, <2>2 DEF Path, PathIn
  <2> QED
    BY <1>3, <1>6, <2>3 DEF OneWay, OneWayIn, Path
<1>10. IndexesIn(t, heap') = u
  <2> DEFINE S == {i} \cup {heap[s[k]].index : k \in 1 .. n}
             w == IndexesOf(s)
  <2>1. w \in Seq(S) /\ Len(w) = n /\ \A k \in 1 .. n : w[k] = heap[s[k]].index
    <3>1. w \in [1 .. n -> S]
      BY DEF IndexesOf, IndexesIn
    <3> QED
      BY <1>2, <3>1, SeqOfLen DEF IndexesOf, IndexesIn
  <2>2. <<i>> \in Seq(S) /\ Len(<<i>>) = 1 /\ <<i>>[1] = i
    OBVIOUS
  <2> HIDE DEF w, S
  <2>3. /\ u \in Seq(S) /\ Len(u) = 1 + n
        /\ \A k \in 1 .. 1 + n : u[k] = IF k <= 1 THEN <<i>>[k] ELSE w[k - 1]
    BY <2>1, <2>2, ConcatProperties DEF w, Onto
  <2>4. u = [k \in 1 .. 1 + n |-> u[k]]
    BY <2>3
  <2>5. IndexesIn(t, heap') = [k \in 1 .. 1 + n |-> heap'[t[k]].index]
    <3>1. 1 + n = n + 1
      BY <1>2
    <3> QED
      BY <1>3, <3>1 DEF IndexesOf, IndexesIn
  <2>6. \A k \in 1 .. 1 + n : heap'[t[k]].index = u[k]
    <3> SUFFICES ASSUME NEW k \in 1 .. 1 + n PROVE heap'[t[k]].index = u[k]
      OBVIOUS
    <3>1. CASE k = 1
      <4>1. u[k] = i
        BY <2>2, <2>3, <3>1
      <4> QED
        BY <1>3, <3>1, <4>1 DEF PushesNode
    <3>2. CASE k # 1
      <4>1. PICK m : m = k - 1
        OBVIOUS
      <4>2. m \in 1 .. n /\ m + 1 = k /\ ~(k <= 1)
        BY <1>2, <3>2, <4>1
      <4>3. t[k] = s[m] /\ u[k] = w[m]
        BY <1>3, <2>3, <4>1, <4>2
      <4> QED
        BY <1>4, <2>1, <4>2, <4>3
    <3> QED
      BY <3>1, <3>2
  <2> QED
    BY <2>4, <2>5, <2>6
<1> QED
  BY <1>9, <1>10

LEMMA PathPopped ==
  ASSUME TypeOK, NEW s, NEW e, NEW link, NEW back, OneWay(s, e, link, back), s # <<>>,
         PopsNode(e, link, back), NEW b, b = heap[e][link]
  PROVE  /\ OneWayIn(Tail(s), b, link, back, heap', allocated')
         /\ IndexesIn(Tail(s), heap') = Tail(IndexesOf(s))
<1> DEFINE t == Tail(s)
           n == Len(s)
<1>1. Path(s, e, link) /\ \A k \in 1 .. Len(s) : heap[s[k]][back] = NULL
  BY DEF OneWay, OneWayIn, Path
<1>2. n \in Nat /\ n >= 1 /\ s \in Seq(allocated) /\ s \in [1 .. n -> allocated] /\ e = s[1]
  BY <1>1, PathIsSeq DEF Path, PathIn
<1>3. t \in Seq(allocated) /\ Len(t) = n - 1 /\ \A k \in 1 .. n - 1 : t[k] = s[k + 1]
  BY <1>2, HeadTailProperties
<1> HIDE DEF t, n
<1>4. \A k \in 1 .. n - 1 : k + 1 \in 1 .. n /\ s[k + 1] \in allocated \ {e}
  <2> SUFFICES ASSUME NEW k \in 1 .. n - 1 PROVE k + 1 \in 1 .. n /\ s[k + 1] \in allocated \ {e}
    OBVIOUS
  <2>1. k + 1 \in 1 .. n /\ 1 \in 1 .. n /\ k + 1 # 1
    BY <1>2
  <2>2. s[k + 1] # s[1]
    BY <1>1, <2>1, PathIsDistinct DEF n
  <2> QED
    BY <1>2, <2>1, <2>2
<1>5. \A k \in 1 .. n - 1 : t[k] \in allocated \ {e}
  BY <1>3, <1>4
<1>6. \A k \in 1 .. n - 1 : /\ heap'[t[k]].index = heap[s[k + 1]].index
                            /\ heap'[t[k]][link] = heap[s[k + 1]][link]
                            /\ heap'[t[k]][back] = NULL
  BY <1>1, <1>3, <1>4 DEF PopsNode, n
<1>7. t \in Seq(allocated')
  <2>1. t \in [1 .. n - 1 -> allocated \ {e}]
    <3>1. t = [k \in 1 .. n - 1 |-> t[k]]
      BY <1>3
    <3> QED
      BY <1>5, <3>1
  <2>2. n - 1 \in Nat
    BY <1>2
  <2>3. t \in Seq(allocated \ {e})
    BY <2>1, <2>2, SeqOfLen
  <2> QED
    BY <2>3 DEF PopsNode
<1>8. CASE n = 1
  <2>1. Len(t) = 0 /\ t = <<>>
    BY <1>3, <1>8, EmptySeq
  <2>2. b = NULL
    <3>1. 1 \in 1 .. Len(s) /\ 1 = Len(s)
      BY <1>8 DEF n
    <3> QED
      BY <1>1, <1>2, <3>1, PathLinks
  <2>3. OneWayIn(t, b, link, back, heap', allocated')
    BY <1>7, <2>1, <2>2 DEF OneWay, OneWayIn, Path, PathIn
  <2>4. IndexesIn(t, heap') = <<>>
    BY <2>1 DEF IndexesOf, IndexesIn
  <2>5. Tail(IndexesOf(s)) = <<>>
    BY <1>8 DEF IndexesOf, IndexesIn, n, Tail
  <2> QED
    BY <2>3, <2>4, <2>5 DEF t
<1>9. CASE n # 1
  <2>1. n - 1 \in 1 .. n - 1 /\ 1 \in 1 .. n - 1 /\ t # <<>> /\ 1 + 1 = 2 /\ (n - 1) + 1 = n
        /\ 1 \in 1 .. n /\ 1 < n /\ n \in 1 .. n
    <3>1. t # <<>>
      BY <1>2, <1>3, <1>9, EmptySeq
    <3> QED
      BY <1>2, <1>9, <3>1
  <2>2. b = t[1]
    <3>1. heap[s[1]][link] = s[1 + 1]
      BY <1>1, <2>1, PathLinks DEF n
    <3> QED
      BY <1>2, <1>3, <2>1, <3>1
  <2>3. heap'[t[n - 1]][link] = NULL
    <3>1. heap[s[n]][link] = NULL
      BY <1>1, <2>1, PathLinks DEF n
    <3> QED
      BY <1>6, <2>1, <3>1
  <2>4. \A k \in 1 .. (n - 1) - 1 : heap'[t[k]][link] = t[k + 1]
    <3> SUFFICES ASSUME NEW k \in 1 .. (n - 1) - 1 PROVE heap'[t[k]][link] = t[k + 1]
      OBVIOUS
    <3>1. PICK m : m = k + 1
      OBVIOUS
    <3>2. k \in 1 .. n - 1 /\ m \in 1 .. n - 1 /\ m \in 1 .. n /\ m < n
      BY <1>2, <3>1
    <3>3. heap[s[m]][link] = s[m + 1]
      BY <1>1, <3>2, PathLinks DEF n
    <3>4. heap'[t[k]][link] = heap[s[m]][link]
      BY <1>6, <3>1, <3>2
    <3>5. t[m] = s[m + 1]
      BY <1>3, <3>2
    <3> QED
      BY <3>1, <3>3, <3>4, <3>5
  <2>5. PathIn(t, b, link, heap', allocated')
    BY <1>3, <1>7, <2>1, <2>2, <2>3, <2>4 DEF Path, PathIn
  <2>6. OneWayIn(t, b, link, back, heap', allocated')
    BY <1>3, <1>6, <2>5 DEF OneWay, OneWayIn, Path
  <2>7. IndexesIn(t, heap') = Tail(IndexesOf(s))
    <3> DEFINE u == IndexesOf(s)
               S == {heap[s[k]].index : k \in 1 .. n}
    <3>1. u \in Seq(S) /\ Len(u) = n /\ \A k \in 1 .. n : u[k] = heap[s[k]].index
      <4>1. u \in [1 .. n -> S]
        BY DEF IndexesOf, IndexesIn, n
      <4> QED
        BY <1>2, <4>1, SeqOfLen DEF IndexesOf, IndexesIn, n
    <3> HIDE DEF u, S
    <3>2. u # <<>>
      BY <1>2, <3>1, EmptySeq
    <3> DEFINE v == Tail(u)
    <3>3. v \in Seq(S) /\ Len(v) = n - 1 /\ \A k \in 1 .. n - 1 : v[k] = u[k + 1]
      BY <3>1, <3>2, HeadTailProperties
    <3> HIDE DEF v
    <3>4. v = [k \in 1 .. n - 1 |-> v[k]]
      BY <3>3
    <3>5. IndexesIn(t, heap') = [k \in 1 .. n - 1 |-> heap'[t[k]].index]
      BY <1>3 DEF IndexesOf, IndexesIn
    <3>6. \A k \in 1 .. n - 1 : heap'[t[k]].index = v[k]
      BY <1>4, <1>6, <3>1, <3>3
    <3>7. IndexesIn(t, heap') = v
      BY <3>4, <3>5, <3>6
    <3> QED
      BY <3>7 DEF v, u
  <2> QED
    BY <2>6, <2>7 DEF t
<1> QED
  BY <1>8, <1>9

\* On a list that is not empty a walk ends at a node of the list: one with the
\* index it looks for, or the last.
LEMMA WalkOnPath ==
  ASSUME TypeOK, NEW s, Path(s, head_node, "next"), s # <<>>, NEW i
  PROVE  \E k \in 1 .. Len(s) : Walk(i) = s[k] /\ (heap[s[k]].index = i \/ k = Len(s))
<1> DEFINE at == Trail(head_node, "next")
           ends == {n \in DOMAIN at : \/ at[n] \notin allocated
                                      \/ heap[at[n]].index = i
                                      \/ heap[at[n]].next = NULL}
           n == Min(ends)
           l == Len(s)
<1>0. l \in Nat /\ l >= 1
  BY PathIsSeq
<1>1. DOMAIN at = Steps
  <2>1. at = [k \in Steps |-> IF k = 0 THEN head_node ELSE Onwards(at[k - 1], "next")]
    BY TrailIs
  <2> HIDE DEF at
  <2> QED
    BY <2>1
<1>2. \A m \in 1 .. l : m - 1 \in Steps /\ at[m - 1] = s[m]
  BY TrailOfPath
<1>3. Walk(i) = IF ends = {} THEN Endless ELSE at[n]
  BY DEF Walk
<1>4. ends \subseteq Nat
  BY <1>1, StepsAre
<1> HIDE DEF at, l
<1>5. l - 1 \in ends
  <2>1. l \in 1 .. l
    BY <1>0
  <2>2. heap[s[l]]["next"] = NULL
    BY <2>1, PathLinks DEF l
  <2> QED
    BY <1>1, <1>2, <2>1, <2>2
<1>6. n \in ends /\ \A y \in ends : n =< y
  <2> HIDE DEF ends
  <2> QED
    BY <1>4, <1>5, LeastOf
<1>7. PICK k : k = n + 1
  OBVIOUS
<1>8. n \in Nat /\ n =< l - 1
  <2> HIDE DEF ends, n
  <2> QED
    BY <1>4, <1>5, <1>6
<1>9. k \in 1 .. l /\ k - 1 = n
  <2> HIDE DEF ends, n
  <2> QED
    BY <1>0, <1>7, <1>8
<1>10. at[n] = s[k]
  <2> HIDE DEF ends, n
  <2> QED
    BY <1>2, <1>9
<1>11. s[k] \in allocated /\ (k < l => heap[s[k]]["next"] = s[k + 1] /\ s[k + 1] # NULL)
  <2>1. k < l => k + 1 \in 1 .. l
    BY <1>0, <1>9
  <2> QED
    BY <1>9, <2>1, PathLinks DEF l
<1>12. heap[s[k]].index = i \/ k = l
  <2>1. at[n] \notin allocated \/ heap[at[n]].index = i \/ heap[at[n]].next = NULL
    BY <1>6
  <2>2. k < l \/ k = l
    BY <1>0, <1>9
  <2> HIDE DEF ends, n
  <2> QED
    BY <1>10, <1>11, <2>1, <2>2
<1> QED
  <2> HIDE DEF n
  <2>1. Walk(i) = s[k]
    BY <1>3, <1>5, <1>10
  <2> QED
    BY <1>9, <1>12, <2>1 DEF l

\* The indexes that a caller at the first, or the last, end stands for.
FirstStands == \A s : AtFirst /\ Path(s, head_node, "next") => FirstIndices = IndexesOf(s)
LastStands == \A s : AtLast /\ Path(s, last_node, "previous") => LastIndices = IndexesOf(s)

LEMMA EndsStand == TypeOK => FirstStands /\ LastStands
<1> SUFFICES ASSUME TypeOK PROVE FirstStands /\ LastStands
  OBVIOUS
<1>1. ASSUME NEW s, NEW a, NEW link, Path(s, a, link)
      PROVE  Indices(Chain(a, link)) = IndexesOf(s)
  <2>1. Chain(a, link) = s
    BY <1>1, ChainOfPath
  <2>2. DOMAIN s = 1 .. Len(s)
    BY <1>1, PathIsSeq
  <2> QED
    BY <2>1, <2>2 DEF Indices, IndexesOf, IndexesIn
<1> QED
  BY <1>1 DEF FirstStands, LastStands, FirstIndices, LastIndices

\* While callers keep to one end nothing but memory has failed them, and one
\* of the links leads through all nodes of their stack.
FirstInv == AtFirst => /\ fault \in {"none", "memory"}
                       /\ \E s : OneWay(s, head_node, "next", "previous")
LastInv == AtLast => /\ fault \in {"none", "memory"}
                     /\ \E s : OneWay(s, last_node, "previous", "next")

\* What the first end of a list that has nodes looks like.
LEMMA EndOfPath ==
  ASSUME TypeOK, NEW s, NEW e, NEW link, NEW back, OneWay(s, e, link, back), e # NULL
  PROVE  /\ s # <<>> /\ e \in allocated /\ heap[e][back] = NULL
         /\ heap[e][link] # NULL => heap[e][link] \in allocated /\ heap[e][link] # e
<1>1. Path(s, e, link) /\ \A k \in 1 .. Len(s) : heap[s[k]][back] = NULL
  BY DEF OneWay, OneWayIn, Path
<1>2. s # <<>> /\ Len(s) \in Nat /\ Len(s) >= 1 /\ e = s[1]
  BY <1>1, PathIsSeq DEF Path, PathIn
<1>3. 1 \in 1 .. Len(s)
  BY <1>2
<1>4. e \in allocated /\ heap[e][back] = NULL
  BY <1>1, <1>2, <1>3, PathLinks
<1>5. ASSUME heap[e][link] # NULL
      PROVE  heap[e][link] \in allocated /\ heap[e][link] # e
  <2>1. 1 < Len(s) /\ 2 \in 1 .. Len(s) /\ 1 + 1 = 2
    <3>1. 1 # Len(s)
      BY <1>1, <1>2, <1>3, <1>5, PathLinks
    <3>2. PICK l \in Nat : l = Len(s)
      BY <1>2
    <3> QED
      BY <1>2, <3>1, <3>2
  <2>2. heap[e][link] = s[2]
    BY <1>1, <1>2, <1>3, <2>1, PathLinks
  <2>3. s[2] \in allocated /\ s[2] # s[1]
    <3>1. s[2] = s[1] => 2 = 1
      BY <1>1, <1>3, <2>1, PathIsDistinct
    <3> QED
      BY <1>1, <2>1, <3>1, PathLinks
  <2> QED
    BY <1>2, <2>2, <2>3
<1> QED
  BY <1>2, <1>4, <1>5

LEMMA IndexesOfNone ==
  ASSUME NEW s, NEW a, NEW link, Path(s, a, link), IndexesOf(s) = <<>>
  PROVE  s = <<>>
<1>1. Len(s) \in Nat /\ (s = <<>> <=> Len(s) = 0)
  BY PathIsSeq
<1>2. DOMAIN IndexesOf(s) = 1 .. Len(s)
  BY DEF IndexesOf, IndexesIn
<1>3. DOMAIN IndexesOf(s) = {}
  OBVIOUS
<1> QED
  BY <1>1, <1>2, <1>3

\* A step at the first end keeps its path, and does to its indexes what a
\* stack allows.
LEMMA FirstStep ==
  TypeOK /\ TypeOK' /\ FirstInv /\ [Next]_vars
    => FirstInv' /\ [FirstStack!Next]_FirstIndices
<1>1. TypeOK => FirstStands
  BY EndsStand
<1>2. (TypeOK => FirstStands)'
  BY EndsStand, PTL
<1> SUFFICES ASSUME TypeOK, TypeOK', FirstInv, [Next]_vars
             PROVE  FirstInv' /\ [FirstStack!Next]_FirstIndices
  OBVIOUS
<1>3. FirstStands /\ FirstStands'
  BY <1>1, <1>2
<1>4. used' = used
  BY DEF Next, vars
<1>5. CASE ~AtFirst
  BY <1>4, <1>5 DEF FirstInv, FirstIndices, AtFirst, KeepTo
<1>6. CASE AtFirst
  <2>1. AtFirst'
    BY <1>4, <1>6 DEF AtFirst, KeepTo
  <2>2. fault \in {"none", "memory"} /\ \E s : OneWay(s, head_node, "next", "previous")
    BY <1>6 DEF FirstInv
  <2>3. PICK s : OneWay(s, head_node, "next", "previous")
    BY <2>2
  <2>e. PICK e : e = head_node /\ OneWay(s, e, "next", "previous")
    BY <2>3
  <2>4. FirstIndices = IndexesOf(s)
    BY <1>3, <1>6, <2>3 DEF FirstStands, OneWay, OneWayIn, Path
  <2>5. ASSUME NEW t, NEW f, f = head_node', OneWayIn(t, f, "next", "previous", heap', allocated'),
               fault' \in {"none", "memory"}
        PROVE  FirstInv' /\ FirstIndices' = IndexesIn(t, heap')
    <3>1. OneWayIn(t, head_node', "next", "previous", heap', allocated')
      BY <2>5
    <3> QED
      BY <1>3, <2>1, <2>5, <3>1 DEF FirstStands, FirstInv, OneWay, OneWayIn, Path, IndexesOf
  <2>6. CASE UNCHANGED <<heap, allocated, head_node>> /\ fault' \in {"none", "memory"}
    <3>1. /\ e = head_node' /\ OneWayIn(s, e, "next", "previous", heap', allocated')
          /\ IndexesIn(s, heap') = IndexesOf(s)
      BY <2>e, <2>6 DEF OneWay, OneWayIn, Path, PathIn, IndexesOf, IndexesIn
    <3> QED
      BY <2>4, <2>5, <2>6, <3>1
  <2>7. ASSUME NEW a \in Addrs, NEW i \in Indexes, fault = "none", add_first(a, i)
        PROVE  FirstInv' /\ FirstStack!Push(i)
    <3>1. PushesNode(a, i, e, "next", "previous")
      BY <2>e, <2>7 DEF add_first, Malloc, PushesNode, TypeOK, Node
    <3>2. PICK t, u : t = Onto(a, s) /\ u = Onto(i, IndexesOf(s))
      OBVIOUS
    <3>3. OneWayIn(t, a, "next", "previous", heap', allocated') /\ IndexesIn(t, heap') = u
      BY <2>e, <3>1, <3>2, PathPushed
    <3>4. head_node' = a /\ fault' = "none"
      BY <2>7 DEF add_first
    <3> QED
      BY <2>4, <2>5, <3>2, <3>3, <3>4 DEF FirstStack!Push, Onto
  <2>8. CASE fault = "none" /\ remove_first
    <3>0. PICK new : new = heap[e].next
      OBVIOUS
    <3>1. /\ e # NULL /\ s # <<>> /\ e \in allocated /\ heap[e].previous = NULL
          /\ new # NULL => new \in allocated /\ new # e
      <4>1. e # NULL
        BY <2>e, <2>8 DEF remove_first
      <4> QED
        BY <2>e, <3>0, <4>1, EndOfPath
    <3>2. ASSUME PopsNode(e, "next", "previous"), head_node' = new, fault' = "none"
          PROVE  FirstInv' /\ FirstStack!Pop
      <4>1. /\ OneWayIn(Tail(s), new, "next", "previous", heap', allocated')
            /\ IndexesIn(Tail(s), heap') = Tail(IndexesOf(s))
        BY <2>e, <3>0, <3>1, <3>2, PathPopped
      <4>2. IndexesOf(s) # <<>>
        BY <2>e, <3>1, IndexesOfNone DEF OneWay, OneWayIn, Path, PathIn
      <4> QED
        BY <2>4, <2>5, <3>2, <4>1, <4>2 DEF FirstStack!Pop
    <3>3. CASE RemoveOnly(e)
      <4>1. PopsNode(e, "next", "previous") /\ head_node' = new /\ fault' = "none"
        BY <2>8, <3>0, <3>1, <3>3 DEF RemoveOnly, Free, PopsNode, TypeOK
      <4> QED
        BY <3>2, <4>1 DEF FirstStack!Next
    <3>4. CASE /\ heap[e].previous # new /\ new \in allocated
               /\ head_node' = new
               /\ Free(e, [heap EXCEPT ![new].previous = NULL])
               /\ UNCHANGED <<last_node, fault>>
      <4>1. PopsNode(e, "next", "previous") /\ head_node' = new /\ fault' = "none"
        BY <2>8, <3>1, <3>4 DEF Free, PopsNode, TypeOK, Nodes
      <4> QED
        BY <3>2, <4>1 DEF FirstStack!Next
    <3> QED
      BY <2>e, <2>8, <3>0, <3>1, <3>3, <3>4 DEF remove_first, Crash
  <2>9. ASSUME NEW i \in Indexes PROVE ~find_node(i)
    <3> SUFFICES ASSUME find_node(i) PROVE FALSE
      OBVIOUS
    <3>1. s # <<>>
      BY <2>3, EndOfPath DEF find_node
    <3>2. PICK k \in 1 .. Len(s) : Walk(i) = s[k]
      BY <2>3, <3>1, WalkOnPath DEF OneWay, OneWayIn, Path
    <3>3. s[k] \in allocated
      BY <2>3, PathLinks DEF OneWay, OneWayIn, Path
    <3> QED
      BY <3>2, <3>3 DEF find_node, Crash
  <2>10. CASE OutOfMemory \/ UNCHANGED vars
    BY <2>2, <2>6, <2>10 DEF OutOfMemory, vars
  <2>11. used # {} /\ used \subseteq {"add_first", "remove_first", "find_node"}
    BY <1>6 DEF AtFirst, KeepTo
  <2> QED
    BY <2>7, <2>8, <2>9, <2>10, <2>11 DEF Next, FirstStack!Next
<1> QED
  BY <1>5, <1>6

\* The same of a step at the last end, where the links change places.
LEMMA LastStep ==
  TypeOK /\ TypeOK' /\ LastInv /\ [Next]_vars
    => LastInv' /\ [LastStack!Next]_LastIndices
<1>1. TypeOK => LastStands
  BY EndsStand
<1>2. (TypeOK => LastStands)'
  BY EndsStand, PTL
<1> SUFFICES ASSUME TypeOK, TypeOK', LastInv, [Next]_vars
             PROVE  LastInv' /\ [LastStack!Next]_LastIndices
  OBVIOUS
<1>3. LastStands /\ LastStands'
  BY <1>1, <1>2
<1>4. used' = used
  BY DEF Next, vars
<1>5. CASE ~AtLast
  BY <1>4, <1>5 DEF LastInv, LastIndices, AtLast, KeepTo
<1>6. CASE AtLast
  <2>1. AtLast'
    BY <1>4, <1>6 DEF AtLast, KeepTo
  <2>2. fault \in {"none", "memory"} /\ \E s : OneWay(s, last_node, "previous", "next")
    BY <1>6 DEF LastInv
  <2>3. PICK s : OneWay(s, last_node, "previous", "next")
    BY <2>2
  <2>e. PICK e : e = last_node /\ OneWay(s, e, "previous", "next")
    BY <2>3
  <2>4. LastIndices = IndexesOf(s)
    BY <1>3, <1>6, <2>3 DEF LastStands, OneWay, OneWayIn, Path
  <2>5. ASSUME NEW t, NEW f, f = last_node', OneWayIn(t, f, "previous", "next", heap', allocated'),
               fault' \in {"none", "memory"}
        PROVE  LastInv' /\ LastIndices' = IndexesIn(t, heap')
    <3>1. OneWayIn(t, last_node', "previous", "next", heap', allocated')
      BY <2>5
    <3> QED
      BY <1>3, <2>1, <2>5, <3>1 DEF LastStands, LastInv, OneWay, OneWayIn, Path, IndexesOf
  <2>6. CASE UNCHANGED <<heap, allocated, last_node>> /\ fault' \in {"none", "memory"}
    <3>1. /\ e = last_node' /\ OneWayIn(s, e, "previous", "next", heap', allocated')
          /\ IndexesIn(s, heap') = IndexesOf(s)
      BY <2>e, <2>6 DEF OneWay, OneWayIn, Path, PathIn, IndexesOf, IndexesIn
    <3> QED
      BY <2>4, <2>5, <2>6, <3>1
  <2>7. ASSUME NEW a \in Addrs, NEW i \in Indexes, fault = "none", add_last(a, i)
        PROVE  LastInv' /\ LastStack!Push(i)
    <3>1. PushesNode(a, i, e, "previous", "next")
      BY <2>e, <2>7 DEF add_last, Malloc, PushesNode, TypeOK, Node
    <3>2. PICK t, u : t = Onto(a, s) /\ u = Onto(i, IndexesOf(s))
      OBVIOUS
    <3>3. OneWayIn(t, a, "previous", "next", heap', allocated') /\ IndexesIn(t, heap') = u
      BY <2>e, <3>1, <3>2, PathPushed
    <3>4. last_node' = a /\ fault' = "none"
      BY <2>7 DEF add_last
    <3> QED
      BY <2>4, <2>5, <3>2, <3>3, <3>4 DEF LastStack!Push, Onto
  <2>8. CASE fault = "none" /\ remove_last
    <3>0. PICK new : new = heap[e].previous
      OBVIOUS
    <3>1. /\ e # NULL /\ s # <<>> /\ e \in allocated /\ heap[e].next = NULL
          /\ new # NULL => new \in allocated /\ new # e
      <4>1. e # NULL
        BY <2>e, <2>8 DEF remove_last
      <4> QED
        BY <2>e, <3>0, <4>1, EndOfPath
    <3>2. ASSUME PopsNode(e, "previous", "next"), last_node' = new, fault' = "none"
          PROVE  LastInv' /\ LastStack!Pop
      <4>1. /\ OneWayIn(Tail(s), new, "previous", "next", heap', allocated')
            /\ IndexesIn(Tail(s), heap') = Tail(IndexesOf(s))
        BY <2>e, <3>0, <3>1, <3>2, PathPopped
      <4>2. IndexesOf(s) # <<>>
        BY <2>e, <3>1, IndexesOfNone DEF OneWay, OneWayIn, Path, PathIn
      <4> QED
        BY <2>4, <2>5, <3>2, <4>1, <4>2 DEF LastStack!Pop
    <3>3. CASE RemoveOnly(e)
      <4>1. PopsNode(e, "previous", "next") /\ last_node' = new /\ fault' = "none"
        BY <2>8, <3>0, <3>1, <3>3 DEF RemoveOnly, Free, PopsNode, TypeOK
      <4> QED
        BY <3>2, <4>1 DEF LastStack!Next
    <3>4. CASE /\ heap[e].next # new /\ new \in allocated
               /\ last_node' = new
               /\ Free(e, [heap EXCEPT ![new].next = NULL])
               /\ UNCHANGED <<head_node, fault>>
      <4>1. PopsNode(e, "previous", "next") /\ last_node' = new /\ fault' = "none"
        BY <2>8, <3>1, <3>4 DEF Free, PopsNode, TypeOK, Nodes
      <4> QED
        BY <3>2, <4>1 DEF LastStack!Next
    <3> QED
      BY <2>e, <2>8, <3>0, <3>1, <3>3, <3>4 DEF remove_last, Crash
  <2>9. CASE OutOfMemory \/ UNCHANGED vars
    BY <2>2, <2>6, <2>9 DEF OutOfMemory, vars
  <2>10. used # {} /\ used \subseteq {"add_last", "remove_last"}
    BY <1>6 DEF AtLast, KeepTo
  <2> QED
    BY <2>7, <2>8, <2>9, <2>10 DEF Next, LastStack!Next
<1> QED
  BY <1>5, <1>6

LEMMA EndsInit ==
  Init => /\ FirstInv /\ LastInv
          /\ FirstStack!Init /\ LastStack!Init
<1> SUFFICES ASSUME Init PROVE /\ FirstInv /\ LastInv
                               /\ FirstStack!Init /\ LastStack!Init
  OBVIOUS
<1>1. ASSUME NEW link, NEW back PROVE OneWay(<<>>, NULL, link, back)
  BY DEF OneWay, OneWayIn, PathIn
<1>2. FirstInv /\ LastInv
  BY <1>1 DEF Init, FirstInv, LastInv
<1>3. FirstStands /\ LastStands
  BY TypesInit, EndsStand
<1>4. IndexesOf(<<>>) = <<>>
  BY DEF IndexesOf, IndexesIn
<1>5. AtFirst => FirstIndices = <<>>
  <2>1. Path(<<>>, head_node, "next")
    BY <1>1 DEF Init, OneWay, OneWayIn, Path
  <2> QED
    BY <1>3, <1>4, <2>1 DEF FirstStands
<1>6. AtLast => LastIndices = <<>>
  <2>1. Path(<<>>, last_node, "previous")
    BY <1>1 DEF Init, OneWay, OneWayIn, Path
  <2> QED
    BY <1>3, <1>4, <2>1 DEF LastStands
<1> QED
  BY <1>2, <1>5, <1>6 DEF FirstStack!Init, LastStack!Init, FirstIndices, LastIndices

-----------------------------------------------------------------------------
(* The list read both ways.                                                *)

\* A trail that ends at NULL has followed a path.
LEMMA PathOfChain ==
  ASSUME TypeOK, NEW a, NEW link, Ends(a, link)
  PROVE  Path(Chain(a, link), a, link)
<1> DEFINE at == Trail(a, link)
           N == Cardinality(Addrs)
           out == {k \in DOMAIN at : at[k] \notin allocated} \cup {N}
           n == Min(out)
           s == [k \in 1 .. n |-> at[k - 1]]
           Moves == {k \in Steps : k >= n /\ at[k] # at[n]}
<1>0. N \in Nat /\ Steps = 0 .. N /\ NULL \notin allocated
  BY StepsAre, LinkListAssumption DEF TypeOK
<1>1. DOMAIN at = Steps
  <2>1. at = [k \in Steps |-> IF k = 0 THEN a ELSE Onwards(at[k - 1], link)]
    BY TrailIs
  <2> HIDE DEF at
  <2> QED
    BY <2>1
<1>2. at[0] = a /\ at[N] = NULL
  BY TrailStarts DEF Ends
<1>3. \A k \in Steps : k > 0 => at[k] = Onwards(at[k - 1], link)
  BY TrailGoesOn
<1>4. Chain(a, link) = s
  BY DEF Chain
<1> HIDE DEF at
<1>5. n \in out /\ \A y \in out : n =< y
  <2>1. out \subseteq Nat /\ N \in out
    BY <1>0, <1>1
  <2> HIDE DEF out
  <2> QED
    BY <2>1, LeastOf
<1>6. n \in Steps /\ n \in Nat /\ n =< N
  BY <1>0, <1>1, <1>5
<1>7. \A k \in 0 .. n - 1 : k \in Steps /\ at[k] \in allocated
  <2> SUFFICES ASSUME NEW k \in 0 .. n - 1 PROVE k \in Steps /\ at[k] \in allocated
    OBVIOUS
  <2>1. k \in Steps /\ ~(n =< k)
    <3> HIDE DEF n, N
    <3> QED
      BY <1>0, <1>6
  <2>2. k \notin out
    <3> HIDE DEF out, n
    <3> QED
      BY <1>5, <2>1
  <2> QED
    BY <1>1, <2>1, <2>2
<1>8. n = N \/ at[n] \notin allocated
  BY <1>5
<1> HIDE DEF out, n, N
<1>9. at[n] = NULL
  <2>1. CASE n = N
    BY <1>2, <2>1
  <2>2. CASE at[n] \notin allocated
    <3>1. Moves = {}
      <4> SUFFICES ASSUME Moves # {} PROVE FALSE
        OBVIOUS
      <4>1. PICK m \in Moves : \A y \in Moves : m =< y
        <5>1. Moves \subseteq Nat
          BY <1>0
        <5> HIDE DEF Moves
        <5> QED
          BY <5>1, LeastOf
      <4>2. m \in Steps /\ m \in Nat /\ m >= n /\ at[m] # at[n]
        BY <1>0, <4>1
      <4>3. m # n
        BY <4>2
      <4>4. m > 0 /\ m - 1 \in Steps /\ m - 1 >= n /\ ~(m =< m - 1)
        BY <1>0, <1>6, <4>2, <4>3
      <4>5. at[m - 1] = at[n]
        BY <4>1, <4>4
      <4> QED
        BY <1>3, <2>2, <4>2, <4>4, <4>5 DEF Onwards
    <3>2. N \in Steps /\ N >= n
      BY <1>0, <1>6
    <3> QED
      BY <1>2, <3>1, <3>2
  <2> QED
    BY <1>8, <2>1, <2>2
<1>10. /\ s \in Seq(allocated) /\ Len(s) = n
       /\ \A k \in 1 .. n : s[k] = at[k - 1] /\ k - 1 \in 0 .. n - 1
  <2>1. \A k \in 1 .. n : k - 1 \in 0 .. n - 1
    BY <1>6
  <2>2. s \in [1 .. n -> allocated]
    BY <1>7, <2>1
  <2> QED
    BY <1>6, <2>1, <2>2, SeqOfLen
<1> HIDE DEF s
<1>11. s = <<>> => a = NULL
  BY <1>2, <1>9, <1>10
<1>12. \A k \in 1 .. n : heap[s[k]][link] = at[k]
  <2> SUFFICES ASSUME NEW k \in 1 .. n PROVE heap[s[k]][link] = at[k]
    OBVIOUS
  <2>1. k \in Steps /\ k > 0
    BY <1>0, <1>6
  <2> QED
    BY <1>3, <1>7, <1>10, <2>1 DEF Onwards
<1>13. s # <<>> => a = s[1] /\ heap[s[Len(s)]][link] = NULL
  <2> SUFFICES ASSUME s # <<>> PROVE a = s[1] /\ heap[s[Len(s)]][link] = NULL
    OBVIOUS
  <2>1. n # 0
    BY <1>10, EmptySeq
  <2>2. n \in 1 .. n /\ 1 \in 1 .. n /\ 1 - 1 = 0
    BY <1>6, <2>1
  <2>3. s[1] = a
    BY <1>2, <1>10, <2>2
  <2> QED
    BY <1>9, <1>10, <1>12, <2>2, <2>3
<1>14. \A k \in 1 .. Len(s) - 1 : heap[s[k]][link] = s[k + 1]
  <2> SUFFICES ASSUME NEW k \in 1 .. n - 1 PROVE heap[s[k]][link] = s[k + 1]
    BY <1>10
  <2>1. k \in 1 .. n /\ k + 1 \in 1 .. n /\ (k + 1) - 1 = k
    BY <1>6
  <2>2. s[k + 1] = at[k]
    BY <1>10, <2>1
  <2> QED
    BY <1>12, <2>1, <2>2
<1> QED
  BY <1>4, <1>10, <1>11, <1>13, <1>14 DEF Path, PathIn

\* In a memory, n nodes s in a line from h to l, each linked to the next and
\* back to the one before it.
LineIn(n, s, h, l, memory, nodes) ==
  /\ n \in Nat /\ s \in [1 .. n -> nodes]
  /\ n = 0 => h = NULL /\ l = NULL
  /\ n > 0 => /\ h = s[1] /\ l = s[n]
              /\ memory[s[1]].previous = NULL /\ memory[s[n]].next = NULL
  /\ \A k \in 1 .. n - 1 : memory[s[k]].next = s[k + 1] /\ memory[s[k + 1]].previous = s[k]
Line(n, s) == LineIn(n, s, head_node, last_node, heap, allocated)

Backwards(n, s) == [k \in 1 .. n |-> s[n + 1 - k]]

\* A line is a path each way.
LEMMA LineIsPaths ==
  ASSUME TypeOK, NEW n, NEW s, Line(n, s)
  PROVE  /\ s \in Seq(allocated) /\ Len(s) = n /\ Path(s, head_node, "next")
         /\ Len(Backwards(n, s)) = n /\ Path(Backwards(n, s), last_node, "previous")
<1> DEFINE t == Backwards(n, s)
<1>1. n \in Nat /\ s \in [1 .. n -> allocated]
  BY DEF Line, LineIn
<1>2. s \in Seq(allocated) /\ Len(s) = n
  BY <1>1, SeqOfLen
<1>3. \A k \in 1 .. n : n + 1 - k \in 1 .. n /\ t[k] = s[n + 1 - k]
  BY <1>1 DEF Backwards
<1>4. t \in Seq(allocated) /\ Len(t) = n
  <2>1. t \in [1 .. n -> allocated]
    BY <1>1, <1>3 DEF Backwards
  <2> QED
    BY <1>1, <2>1, SeqOfLen
<1>5. (s = <<>> => n = 0) /\ (t = <<>> => n = 0)
  BY <1>2, <1>4
<1>6. (s # <<>> => n > 0) /\ (t # <<>> => n > 0)
  BY <1>1, <1>2, <1>4, EmptySeq
<1>7. Path(s, head_node, "next")
  BY <1>2, <1>5, <1>6 DEF Path, PathIn, Line, LineIn
<1> HIDE DEF t
<1>8. Path(t, last_node, "previous")
  <2>1. ASSUME n > 0
        PROVE  last_node = t[1] /\ heap[t[n]].previous = NULL
    <3>1. 1 \in 1 .. n /\ n \in 1 .. n /\ n + 1 - 1 = n /\ n + 1 - n = 1
      BY <1>1, <2>1
    <3>2. t[1] = s[n] /\ t[n] = s[1]
      BY <1>3, <3>1
    <3> QED
      BY <2>1, <3>2 DEF Line, LineIn
  <2>2. ASSUME NEW k \in 1 .. n - 1 PROVE heap[t[k]].previous = t[k + 1]
    <3>1. PICK m : m = n - k
      OBVIOUS
    <3>2. /\ m \in 1 .. n - 1 /\ n + 1 - k = m + 1 /\ n + 1 - (k + 1) = m
          /\ k \in 1 .. n /\ k + 1 \in 1 .. n
      BY <1>1, <3>1
    <3>3. t[k] = s[m + 1] /\ t[k + 1] = s[m]
      BY <1>3, <3>2
    <3>4. heap[s[m + 1]].previous = s[m]
      BY <3>2 DEF Line, LineIn
    <3> QED
      BY <3>3, <3>4
  <2>3. t = <<>> => last_node = NULL
    BY <1>5 DEF Line, LineIn
  <2> QED
    BY <1>4, <1>6, <2>1, <2>2, <2>3 DEF Path, PathIn
<1> QED
  BY <1>2, <1>4, <1>7, <1>8 DEF t

\* Two paths that mirror each other are a line.
LEMMA PathsAreLine ==
  ASSUME TypeOK, NEW s, NEW t, Path(s, head_node, "next"), Path(t, last_node, "previous"),
         Len(t) = Len(s), \A k \in 1 .. Len(s) : t[k] = s[Len(s) + 1 - k]
  PROVE  Line(Len(s), s)
<1>0. PICK n : n = Len(s)
  OBVIOUS
<1>1. n \in Nat /\ s \in [1 .. n -> allocated] /\ (s = <<>> <=> n = 0) /\ (t = <<>> <=> n = 0)
  BY <1>0, PathIsSeq
<1>2. n = 0 => head_node = NULL /\ last_node = NULL
  BY <1>1 DEF Path, PathIn
<1>3. ASSUME n > 0
      PROVE  /\ head_node = s[1] /\ last_node = s[n]
             /\ heap[s[1]].previous = NULL /\ heap[s[n]].next = NULL
  <2>1. 1 \in 1 .. n /\ n \in 1 .. n /\ n + 1 - 1 = n /\ n + 1 - n = 1 /\ n # 0
    BY <1>1, <1>3
  <2>2. t[1] = s[n] /\ t[n] = s[1]
    BY <1>0, <2>1
  <2>3. head_node = s[1] /\ heap[s[n]]["next"] = NULL
    BY <1>0, <1>1, <2>1 DEF Path, PathIn
  <2>4. last_node = t[1] /\ heap[t[n]]["previous"] = NULL
    BY <1>0, <1>1, <2>1 DEF Path, PathIn
  <2> QED
    BY <2>2, <2>3, <2>4
<1>4. ASSUME NEW k \in 1 .. n - 1
      PROVE  heap[s[k]].next = s[k + 1] /\ heap[s[k + 1]].previous = s[k]
  <2>1. heap[s[k]]["next"] = s[k + 1]
    BY <1>0 DEF Path, PathIn
  <2>2. PICK m : m = n - k
    OBVIOUS
  <2>3. /\ m \in 1 .. n /\ m + 1 \in 1 .. n /\ m \in 1 .. n - 1
        /\ n + 1 - m = k + 1 /\ n + 1 - (m + 1) = k
    BY <1>1, <2>2
  <2>4. t[m] = s[k + 1] /\ t[m + 1] = s[k]
    BY <1>0, <2>3
  <2>5. heap[t[m]]["previous"] = t[m + 1]
    BY <1>0, <2>3 DEF Path, PathIn
  <2> QED
    BY <2>1, <2>4, <2>5
<1> QED
  BY <1>0, <1>1, <1>2, <1>3, <1>4 DEF Line, LineIn

\* A list reads the same both ways when it is a line from its head to its tail.
IsLine == \E n, s : Line(n, s)

LEMMA SoundIsLine == TypeOK => (Sound <=> IsLine)
<1> SUFFICES ASSUME TypeOK PROVE Sound <=> IsLine
  OBVIOUS
<1>1. ASSUME Sound PROVE IsLine
  <2> DEFINE there == Chain(head_node, "next")
             back == Chain(last_node, "previous")
  <2>1. Path(there, head_node, "next") /\ Path(back, last_node, "previous")
    BY <1>1, PathOfChain DEF Sound
  <2>2. Len(back) = Len(there) /\ \A k \in 1 .. Len(there) : back[k] = there[Len(there) + 1 - k]
    BY <1>1 DEF Sound
  <2>3. Line(Len(there), there)
    <3> HIDE DEF there, back
    <3> QED
      BY <2>1, <2>2, PathsAreLine
  <2> QED
    BY <2>3 DEF IsLine
<1>2. ASSUME IsLine PROVE Sound
  <2>1. PICK n, s : Line(n, s)
    BY <1>2 DEF IsLine
  <2>2. PICK t : t = Backwards(n, s)
    OBVIOUS
  <2>3. Len(s) = n /\ Path(s, head_node, "next") /\ Len(t) = n /\ Path(t, last_node, "previous")
    BY <2>1, <2>2, LineIsPaths
  <2>4. /\ Chain(head_node, "next") = s /\ Ends(head_node, "next")
        /\ Chain(last_node, "previous") = t /\ Ends(last_node, "previous")
    BY <2>3, ChainOfPath
  <2>5. \A k \in 1 .. n : t[k] = s[n + 1 - k]
    BY <2>2 DEF Backwards
  <2> QED
    BY <2>3, <2>4, <2>5 DEF Sound
<1> QED
  BY <1>1, <1>2

\* What a line says of one of its nodes.
LEMMA LineLinks ==
  ASSUME TypeOK, NEW n, NEW s, Line(n, s), NEW k \in 1 .. n
  PROVE  /\ s[k] \in allocated /\ s[k] \in Addrs /\ s[k] # NULL
         /\ k = 1 => s[k] = head_node /\ heap[s[k]].previous = NULL
         /\ k > 1 => k - 1 \in 1 .. n /\ heap[s[k]].previous = s[k - 1]
         /\ k = n => s[k] = last_node /\ heap[s[k]].next = NULL
         /\ k < n => k + 1 \in 1 .. n /\ heap[s[k]].next = s[k + 1]
<1>1. n \in Nat /\ s \in [1 .. n -> allocated] /\ n > 0
  BY DEF Line, LineIn
<1>2. s[k] \in allocated /\ s[k] \in Addrs /\ s[k] # NULL
  BY <1>1, LinkListAssumption DEF TypeOK
<1>3. ASSUME k > 1 PROVE k - 1 \in 1 .. n /\ heap[s[k]].previous = s[k - 1]
  <2>1. k - 1 \in 1 .. n - 1 /\ k - 1 \in 1 .. n /\ (k - 1) + 1 = k
    BY <1>1, <1>3
  <2> QED
    BY <2>1 DEF Line, LineIn
<1>4. ASSUME k < n PROVE k + 1 \in 1 .. n /\ heap[s[k]].next = s[k + 1]
  <2>1. k \in 1 .. n - 1 /\ k + 1 \in 1 .. n
    BY <1>1, <1>4
  <2> QED
    BY <2>1 DEF Line, LineIn
<1> QED
  BY <1>1, <1>2, <1>3, <1>4 DEF Line, LineIn

LEMMA LineIsDistinct ==
  ASSUME TypeOK, NEW n, NEW s, Line(n, s)
  PROVE  \A i, j \in 1 .. n : s[i] = s[j] => i = j
<1>1. Path(s, head_node, "next") /\ Len(s) = n
  BY LineIsPaths
<1> QED
  BY <1>1, PathIsDistinct

\* A list without nodes has neither end.
LEMMA LineEnds ==
  ASSUME TypeOK, NEW n, NEW s, Line(n, s)
  PROVE  /\ n \in Nat
         /\ n = 0 => head_node = NULL /\ last_node = NULL
         /\ n > 0 => /\ 1 \in 1 .. n /\ n \in 1 .. n
                     /\ head_node # NULL /\ last_node # NULL
<1>1. n \in Nat /\ (n > 0 => 1 \in 1 .. n /\ n \in 1 .. n)
  BY DEF Line, LineIn
<1>2. n > 0 => head_node # NULL /\ last_node # NULL
  BY <1>1, LineLinks
<1> QED
  BY <1>1, <1>2 DEF Line, LineIn

\* The three shapes of a list after one of its nodes has come or gone.
LEMMA LineOfNone ==
  ASSUME NEW memory, NEW nodes
  PROVE  \E n, s : LineIn(n, s, NULL, NULL, memory, nodes)
<1> DEFINE s == [k \in 1 .. 0 |-> NULL]
<1>1. s \in [1 .. 0 -> nodes]
  OBVIOUS
<1> HIDE DEF s
<1>2. LineIn(0, s, NULL, NULL, memory, nodes)
  BY <1>1 DEF LineIn
<1> QED
  BY <1>2

LEMMA LineOfOne ==
  ASSUME NEW memory, NEW nodes, NEW a \in nodes,
         memory[a].previous = NULL, memory[a].next = NULL
  PROVE  \E n, s : LineIn(n, s, a, a, memory, nodes)
<1> DEFINE s == [k \in 1 .. 1 |-> a]
<1>1. s \in [1 .. 1 -> nodes] /\ s[1] = a
  OBVIOUS
<1> HIDE DEF s
<1>2. LineIn(1, s, a, a, memory, nodes)
  BY <1>1 DEF LineIn
<1> QED
  BY <1>2

LEMMA LineWithoutFirst ==
  ASSUME TypeOK, NEW n, NEW s, Line(n, s), n > 1, NEW memory, NEW e, e = s[1], NEW b, b = s[2],
         memory[b].previous = NULL,
         \A x \in allocated \ {e} : memory[x].next = heap[x].next,
         \A x \in allocated \ {e, b} : memory[x].previous = heap[x].previous
  PROVE  \E m, t : LineIn(m, t, b, last_node, memory, allocated \ {e})
<1>1. n \in Nat /\ s \in [1 .. n -> allocated] /\ \A i, j \in 1 .. n : s[i] = s[j] => i = j
  BY LineIsDistinct DEF Line, LineIn
<1>2. PICK m : m = n - 1
  OBVIOUS
<1>3. /\ m \in Nat /\ m > 0 /\ m + 1 = n /\ 1 \in 1 .. n /\ 2 \in 1 .. n
      /\ 1 \in 1 .. m /\ m \in 1 .. m /\ 1 + 1 = 2
  BY <1>1, <1>2
<1> DEFINE t == [k \in 1 .. m |-> s[k + 1]]
<1>4. \A k \in 1 .. m : /\ k + 1 \in 1 .. n /\ t[k] = s[k + 1] /\ t[k] \in allocated \ {e}
                        /\ k # 1 => t[k] # b
  <2> SUFFICES ASSUME NEW k \in 1 .. m
               PROVE  /\ k + 1 \in 1 .. n /\ t[k] = s[k + 1] /\ t[k] \in allocated \ {e}
                      /\ k # 1 => t[k] # b
    OBVIOUS
  <2>1. k + 1 \in 1 .. n /\ k + 1 # 1 /\ (k # 1 => k + 1 # 2)
    BY <1>1, <1>2
  <2> QED
    BY <1>1, <1>3, <2>1
<1>5. t \in [1 .. m -> allocated \ {e}]
  BY <1>4
<1> HIDE DEF t
<1>6. b = t[1] /\ memory[t[1]].previous = NULL
  BY <1>3, <1>4
<1>7. last_node = t[m] /\ memory[t[m]].next = NULL
  <2>1. t[m] = s[n] /\ t[m] \in allocated \ {e}
    BY <1>3, <1>4
  <2>2. n \in 1 .. n
    BY <1>1
  <2> QED
    BY <2>1, <2>2, LineLinks
<1>8. ASSUME NEW k \in 1 .. m - 1
      PROVE  memory[t[k]].next = t[k + 1] /\ memory[t[k + 1]].previous = t[k]
  <2>1. PICK j : j = k + 1
    OBVIOUS
  <2>2. /\ k \in 1 .. m /\ j \in 1 .. m /\ j \in 1 .. n - 1 /\ j # 1
    BY <1>1, <1>2, <2>1
  <2>3. t[k] = s[j] /\ t[j] = s[j + 1]
    BY <1>4, <2>1, <2>2
  <2>4. heap[s[j]].next = s[j + 1] /\ heap[s[j + 1]].previous = s[j]
    BY <2>2 DEF Line, LineIn
  <2>5. t[k] \in allocated \ {e} /\ t[j] \in allocated \ {e, b}
    BY <1>4, <2>2
  <2> QED
    BY <2>1, <2>3, <2>4, <2>5
<1>9. LineIn(m, t, b, last_node, memory, allocated \ {e})
  BY <1>3, <1>5, <1>6, <1>7, <1>8 DEF LineIn
<1> QED
  BY <1>9

LEMMA LineWithoutLast ==
  ASSUME TypeOK, NEW n, NEW s, Line(n, s), NEW m, m = n - 1, m > 0, NEW memory,
         NEW e, e = s[n], NEW b, b = s[m],
         memory[b].next = NULL,
         \A x \in allocated \ {e} : memory[x].previous = heap[x].previous,
         \A x \in allocated \ {e, b} : memory[x].next = heap[x].next
  PROVE  \E q, t : LineIn(q, t, head_node, b, memory, allocated \ {e})
<1>1. n \in Nat /\ s \in [1 .. n -> allocated] /\ \A i, j \in 1 .. n : s[i] = s[j] => i = j
  BY LineIsDistinct DEF Line, LineIn
<1>3. m \in Nat /\ m > 0 /\ m + 1 = n /\ n \in 1 .. n /\ 1 \in 1 .. m /\ m \in 1 .. m /\ m \in 1 .. n
  BY <1>1
<1> DEFINE t == [k \in 1 .. m |-> s[k]]
<1>4. \A k \in 1 .. m : /\ k \in 1 .. n /\ t[k] = s[k] /\ t[k] \in allocated \ {e}
                        /\ k # m => t[k] # b
  <2> SUFFICES ASSUME NEW k \in 1 .. m
               PROVE  /\ k \in 1 .. n /\ t[k] = s[k] /\ t[k] \in allocated \ {e}
                      /\ k # m => t[k] # b
    OBVIOUS
  <2>1. k \in 1 .. n /\ k # n
    BY <1>1
  <2> QED
    BY <1>1, <1>3, <2>1
<1>5. t \in [1 .. m -> allocated \ {e}]
  BY <1>4
<1> HIDE DEF t
<1>6. b = t[m] /\ memory[t[m]].next = NULL
  BY <1>3, <1>4
<1>7. head_node = t[1] /\ memory[t[1]].previous = NULL
  <2>1. t[1] = s[1] /\ t[1] \in allocated \ {e} /\ 1 \in 1 .. n
    BY <1>3, <1>4
  <2> QED
    BY <2>1, LineLinks
<1>8. ASSUME NEW k \in 1 .. m - 1
      PROVE  memory[t[k]].next = t[k + 1] /\ memory[t[k + 1]].previous = t[k]
  <2>1. k \in 1 .. m /\ k + 1 \in 1 .. m /\ k \in 1 .. n - 1 /\ k # m
    BY <1>1
  <2>2. heap[s[k]].next = s[k + 1] /\ heap[s[k + 1]].previous = s[k]
    BY <2>1 DEF Line, LineIn
  <2>3. /\ t[k] = s[k] /\ t[k] \in allocated \ {e, b}
        /\ t[k + 1] = s[k + 1] /\ t[k + 1] \in allocated \ {e}
    BY <1>4, <2>1
  <2> QED
    BY <2>2, <2>3
<1>9. LineIn(m, t, head_node, b, memory, allocated \ {e})
  BY <1>3, <1>5, <1>6, <1>7, <1>8 DEF LineIn
<1> QED
  BY <1>9

\* In a memory, a is linked between p and q.
Between(a, p, q, memory) ==
  /\ memory[a].previous = p /\ memory[a].next = q
  /\ memory[p].next = a /\ memory[q].previous = a
  /\ \A x \in allocated \ {p} : memory[x].next = heap[x].next
  /\ \A x \in allocated \ {q} : memory[x].previous = heap[x].previous

LEMMA LineWithOneMore ==
  ASSUME TypeOK, NEW n, NEW s, Line(n, s), NEW k \in 1 .. n - 1, NEW memory,
         NEW a \in Addrs \ allocated, NEW p, p = s[k], NEW q, q = s[k + 1],
         Between(a, p, q, memory)
  PROVE  \E m, t : LineIn(m, t, head_node, last_node, memory, allocated \cup {a})
<1>0. /\ memory[a].previous = p /\ memory[a].next = q
      /\ memory[p].next = a /\ memory[q].previous = a
      /\ \A x \in allocated \ {p} : memory[x].next = heap[x].next
      /\ \A x \in allocated \ {q} : memory[x].previous = heap[x].previous
  BY DEF Between
<1>1. n \in Nat /\ s \in [1 .. n -> allocated] /\ \A i, j \in 1 .. n : s[i] = s[j] => i = j
  BY LineIsDistinct DEF Line, LineIn
<1>2. PICK m : m = n + 1
  OBVIOUS
<1> DEFINE t == [j \in 1 .. m |-> IF j = k + 1 THEN a ELSE IF j <= k THEN s[j] ELSE s[j - 1]]
<1>3. /\ m \in Nat /\ m > 0 /\ m - 1 = n /\ k + 1 \in 1 .. m /\ k \in 1 .. n /\ k + 1 \in 1 .. n
      /\ 1 \in 1 .. m /\ m \in 1 .. m /\ 1 \in 1 .. n /\ n \in 1 .. n
      /\ 1 # k + 1 /\ m # k + 1 /\ 1 <= k /\ ~(m <= k)
  BY <1>1, <1>2
<1>4. /\ t[k + 1] = a
      /\ \A j \in 1 .. m : j <= k => j \in 1 .. n /\ t[j] = s[j]
      /\ \A j \in 1 .. m : j > k + 1 => j - 1 \in 1 .. n /\ t[j] = s[j - 1]
  <2>1. \A j \in 1 .. m : j <= k => j \in 1 .. n /\ j # k + 1
    BY <1>1
  <2>2. \A j \in 1 .. m : j > k + 1 => j - 1 \in 1 .. n /\ j # k + 1 /\ ~(j <= k)
    BY <1>1, <1>2
  <2> QED
    BY <1>3, <2>1, <2>2
<1>5. t \in [1 .. m -> allocated \cup {a}]
  <2>1. \A j \in 1 .. m : j = k + 1 \/ j <= k \/ j > k + 1
    BY <1>1
  <2>2. \A j \in 1 .. m : t[j] \in allocated \cup {a}
    <3> HIDE DEF t
    <3> QED
      BY <1>1, <1>4, <2>1
  <2> QED
    BY <2>2
<1> HIDE DEF t
<1>6. head_node = t[1] /\ memory[t[1]].previous = NULL
  <2>1. t[1] = s[1] /\ s[1] = head_node /\ heap[s[1]].previous = NULL /\ s[1] \in allocated
    BY <1>3, <1>4, LineLinks
  <2>2. s[1] # q
    BY <1>1, <1>3
  <2> QED
    BY <1>0, <2>1, <2>2
<1>7. last_node = t[m] /\ memory[t[m]].next = NULL
  <2>1. m > k + 1
    BY <1>1, <1>2
  <2>2. t[m] = s[n] /\ s[n] = last_node /\ heap[s[n]].next = NULL /\ s[n] \in allocated
    BY <1>3, <1>4, <2>1, LineLinks
  <2>3. n # k /\ s[n] # p
    BY <1>1, <1>3
  <2> QED
    BY <1>0, <2>2, <2>3
<1>8. ASSUME NEW j \in 1 .. m - 1
      PROVE  memory[t[j]].next = t[j + 1] /\ memory[t[j + 1]].previous = t[j]
  <2>1. CASE j = k
    <3>1. t[j] = p /\ t[j + 1] = a
      BY <1>3, <1>4, <2>1
    <3> QED
      BY <1>0, <3>1
  <2>2. CASE j = k + 1
    <3>1. k + 2 \in 1 .. m /\ k + 2 > k + 1 /\ (k + 2) - 1 = k + 1 /\ j + 1 = k + 2
      BY <1>1, <1>2, <2>2
    <3>2. t[j] = a /\ t[j + 1] = q
      BY <1>4, <2>2, <3>1
    <3> QED
      BY <1>0, <3>2
  <2>3. CASE j < k
    <3>1. j \in 1 .. m /\ j <= k /\ j + 1 \in 1 .. m /\ j + 1 <= k /\ j \in 1 .. n - 1
          /\ j \in 1 .. n /\ j + 1 \in 1 .. n /\ j + 1 # k + 1 /\ j # k
      BY <1>1, <1>2, <2>3
    <3>2. t[j] = s[j] /\ t[j + 1] = s[j + 1]
      BY <1>4, <3>1
    <3>3. heap[s[j]].next = s[j + 1] /\ heap[s[j + 1]].previous = s[j]
      BY <3>1 DEF Line, LineIn
    <3>4. s[j] \in allocated \ {p} /\ s[j + 1] \in allocated \ {q}
      BY <1>1, <1>3, <3>1
    <3> QED
      BY <1>0, <3>2, <3>3, <3>4
  <2>4. CASE j > k + 1
    <3>1. PICK i : i = j - 1
      OBVIOUS
    <3>2. /\ j \in 1 .. m /\ j + 1 \in 1 .. m /\ j + 1 > k + 1 /\ (j + 1) - 1 = i + 1
          /\ i \in 1 .. n - 1 /\ i \in 1 .. n /\ i + 1 \in 1 .. n /\ i # k /\ i + 1 # k + 1
      BY <1>1, <1>2, <2>4, <3>1
    <3>3. t[j] = s[i] /\ t[j + 1] = s[i + 1]
      BY <1>4, <2>4, <3>1, <3>2
    <3>4. heap[s[i]].next = s[i + 1] /\ heap[s[i + 1]].previous = s[i]
      BY <3>2 DEF Line, LineIn
    <3>5. s[i] \in allocated \ {p} /\ s[i + 1] \in allocated \ {q}
      BY <1>1, <1>3, <3>2
    <3> QED
      BY <1>0, <3>3, <3>4, <3>5
  <2>5. j < k \/ j = k \/ j = k + 1 \/ j > k + 1
    BY <1>1, <1>3
  <2> QED
    BY <2>1, <2>2, <2>3, <2>4, <2>5
<1>9. LineIn(m, t, head_node, last_node, memory, allocated \cup {a})
  BY <1>3, <1>5, <1>6, <1>7, <1>8 DEF LineIn
<1> QED
  BY <1>9

\* A walk through a line ends at one of its nodes.
LEMMA WalkOnLine ==
  ASSUME TypeOK, NEW n, NEW s, Line(n, s), head_node # NULL, NEW i
  PROVE  \E k \in 1 .. n : Walk(i) = s[k] /\ s[k] \in allocated
<1>1. n \in Nat /\ (n = 0 => head_node = NULL)
  BY LineEnds
<1>2. Path(s, head_node, "next") /\ Len(s) = n
  BY LineIsPaths
<1>3. s # <<>>
  BY <1>1, <1>2
<1>4. PICK k \in 1 .. n : Walk(i) = s[k]
  BY <1>2, <1>3, WalkOnPath
<1>5. s[k] \in allocated
  BY LineLinks
<1> QED
  BY <1>4, <1>5

\* The first and the last node of a list that has nodes.
LEMMA LineHasEnds ==
  ASSUME TypeOK, NEW n, NEW s, Line(n, s), head_node # NULL \/ last_node # NULL
  PROVE  /\ n \in Nat /\ 1 \in 1 .. n /\ n \in 1 .. n
         /\ head_node = s[1] /\ head_node \in allocated /\ heap[head_node].previous = NULL
         /\ last_node = s[n] /\ last_node \in allocated /\ heap[last_node].next = NULL
         /\ n = 1 => heap[head_node].next = NULL /\ heap[last_node].previous = NULL
         /\ n # 1 => /\ 2 \in 1 .. n /\ n - 1 \in 1 .. n /\ n > 1
                     /\ heap[head_node].next = s[2] /\ s[2] \in allocated /\ s[2] # NULL
                     /\ heap[last_node].previous = s[n - 1]
                     /\ s[n - 1] \in allocated /\ s[n - 1] # NULL
<1>1. n \in Nat /\ n > 0 /\ 1 \in 1 .. n /\ n \in 1 .. n
  BY LineEnds
<1>2. /\ head_node = s[1] /\ head_node \in allocated /\ heap[head_node].previous = NULL
      /\ last_node = s[n] /\ last_node \in allocated /\ heap[last_node].next = NULL
  BY <1>1, LineLinks
<1>3. CASE n = 1
  BY <1>1, <1>2, <1>3
<1>4. CASE n # 1
  <2>1. 2 \in 1 .. n /\ n - 1 \in 1 .. n /\ n > 1 /\ 1 < n /\ 1 + 1 = 2
    BY <1>1, <1>4
  <2>2. heap[s[1]].next = s[1 + 1] /\ heap[s[n]].previous = s[n - 1]
    BY <1>1, <2>1, LineLinks
  <2>3. s[2] \in allocated /\ s[2] # NULL /\ s[n - 1] \in allocated /\ s[n - 1] # NULL
    BY <2>1, LineLinks
  <2> QED
    BY <1>1, <1>2, <1>4, <2>1, <2>2, <2>3
<1> QED
  BY <1>3, <1>4

Fails == {"null", "freed", "hang"}

\* What fails on a list that reads the same both ways.
LEMMA SoundHardlyFails ==
  ASSUME TypeOK, Sound, fault = "none", fault' \in Fails
  PROVE  /\ ~remove_first /\ ~remove_last
         /\ \A i \in Indexes :
              /\ ~remove_node(i) /\ ~find_node(i)
              /\ \A a \in Addrs, u \in Indexes :
                   /\ insert_after(a, u, i) => Walk(i) = last_node
                   /\ insert_before(a, u, i) => Walk(i) = head_node
<1>1. PICK n, s : Line(n, s)
  BY SoundIsLine DEF IsLine
<1>2. fault' # fault
  BY DEF Fails
<1>3. ~remove_first
  <2> SUFFICES ASSUME remove_first PROVE FALSE
    OBVIOUS
  <2>1. head_node # NULL
    BY DEF remove_first
  <2> QED
    BY <1>1, <1>2, <2>1, LineHasEnds DEF remove_first, RemoveOnly, Crash
<1>4. ~remove_last
  <2> SUFFICES ASSUME remove_last PROVE FALSE
    OBVIOUS
  <2>1. last_node # NULL
    BY DEF remove_last
  <2> QED
    BY <1>1, <1>2, <2>1, LineHasEnds DEF remove_last, RemoveOnly, Crash
<1>5. ASSUME NEW i \in Indexes
      PROVE  ~remove_node(i) /\ ~find_node(i)
  <2>1. ~find_node(i)
    BY <1>1, WalkOnLine DEF find_node, Crash
  <2>2. ASSUME remove_node(i) PROVE FALSE
    <3>1. head_node # NULL
      BY <2>2 DEF remove_node
    <3>2. PICK k \in 1 .. n : Walk(i) = s[k] /\ s[k] \in allocated
      BY <1>1, <3>1, WalkOnLine
    <3>3. s[k] # head_node /\ Crash(heap[s[k]].previous)
      BY <1>2, <2>2, <3>2 DEF remove_node, Crash
    <3>4. k > 1
      <4>1. n \in Nat
        BY <1>1, LineEnds
      <4>2. k # 1
        BY <1>1, <3>3, LineLinks
      <4> QED
        BY <4>1, <4>2
    <3>5. heap[s[k]].previous \in allocated
      <4>1. k - 1 \in 1 .. n /\ heap[s[k]].previous = s[k - 1]
        BY <1>1, <3>4, LineLinks
      <4> QED
        BY <1>1, <4>1, LineLinks
    <3> QED
      BY <3>3, <3>5 DEF Crash
  <2> QED
    BY <2>1, <2>2
<1>6. ASSUME NEW i \in Indexes, NEW a \in Addrs, NEW u \in Indexes, insert_after(a, u, i)
      PROVE  Walk(i) = last_node
  <2>1. InsertBeside(a, u, i, "next", "previous")
    BY <1>2, <1>6 DEF insert_after, InsertFirst, InsertNowhere
  <2>2. head_node # NULL
    BY <2>1 DEF InsertBeside
  <2>3. PICK k \in 1 .. n : Walk(i) = s[k] /\ s[k] \in allocated
    BY <1>1, <2>2, WalkOnLine
  <2>4. heap[s[k]]["next"] \notin allocated
    BY <1>2, <2>1, <2>3 DEF InsertBeside, Crash
  <2>5. k = n
    <3>1. ~(k < n)
      BY <1>1, <2>4, LineLinks
    <3>2. n \in Nat
      BY <1>1, LineEnds
    <3> QED
      BY <3>1, <3>2
  <2> QED
    BY <1>1, <2>3, <2>5, LineLinks
<1>7. ASSUME NEW i \in Indexes, NEW a \in Addrs, NEW u \in Indexes, insert_before(a, u, i)
      PROVE  Walk(i) = head_node
  <2>1. InsertBeside(a, u, i, "previous", "next")
    BY <1>2, <1>7 DEF insert_before, InsertFirst, InsertNowhere
  <2>2. head_node # NULL
    BY <2>1 DEF InsertBeside
  <2>3. PICK k \in 1 .. n : Walk(i) = s[k] /\ s[k] \in allocated
    BY <1>1, <2>2, WalkOnLine
  <2>4. heap[s[k]]["previous"] \notin allocated
    BY <1>2, <2>1, <2>3 DEF InsertBeside, Crash
  <2>5. k = 1
    <3>1. ~(k > 1)
      BY <1>1, <2>4, LineLinks
    <3>2. n \in Nat
      BY <1>1, LineEnds
    <3> QED
      BY <3>1, <3>2
  <2> QED
    BY <1>1, <2>3, <2>5, LineLinks
<1> QED
  BY <1>3, <1>4, <1>5, <1>6, <1>7

\* What a step spoils that adds no node at an end of a list with nodes and is
\* no remove_node.
LEMMA SoundKept ==
  TypeOK /\ TypeOK' /\ Sound /\ [Next]_vars
    => \/ Sound'
       \/ \E a \in Addrs, i \in Indexes :
            head_node # NULL /\ (add_first(a, i) \/ add_last(a, i))
       \/ \E i \in Indexes : remove_node(i)
<1>1. TypeOK => (Sound <=> IsLine)
  BY SoundIsLine
<1>2. (TypeOK => (Sound <=> IsLine))'
  BY SoundIsLine, PTL
<1> SUFFICES ASSUME TypeOK, TypeOK', Sound, [Next]_vars,
                    \A a \in Addrs, i \in Indexes :
                      add_first(a, i) \/ add_last(a, i) => head_node = NULL,
                    \A i \in Indexes : ~remove_node(i)
             PROVE  Sound'
  OBVIOUS
<1>3. PICK n, s : Line(n, s)
  BY <1>1 DEF IsLine
<1>l. n \in Nat /\ s \in [1 .. n -> allocated] /\ (n = 0 => head_node = NULL /\ last_node = NULL)
  BY <1>3 DEF Line, LineIn
<1>4. ASSUME NEW h, NEW l, h = head_node', l = last_node',
             \E m, t : LineIn(m, t, h, l, heap', allocated')
      PROVE  Sound'
  <2>1. IsLine'
    BY <1>4 DEF IsLine, Line
  <2> QED
    BY <1>2, <2>1
<1>5. PICK h, l : h = head_node /\ l = last_node /\ LineIn(n, s, h, l, heap, allocated)
  BY <1>3 DEF Line
<1>6. CASE UNCHANGED <<heap, allocated, head_node, last_node>>
  BY <1>4, <1>5, <1>6
<1>7. ASSUME NEW a \in Addrs, Malloc(a), head_node' = a, last_node' = a,
             heap'[a].previous = NULL, heap'[a].next = NULL
      PROVE  Sound'
  <2>1. a \in allocated'
    BY <1>7 DEF Malloc
  <2>2. \E m, t : LineIn(m, t, a, a, heap', allocated')
    BY <1>7, <2>1, LineOfOne
  <2> QED
    BY <1>4, <1>7, <2>2
<1>8. head_node = NULL <=> last_node = NULL
  BY <1>3, <1>l, LineEnds
<1>t. heap \in [Addrs -> Nodes] /\ NULL \in Pointer
  BY DEF TypeOK, Pointer
<1>9. ASSUME NEW a \in Addrs, NEW i \in Indexes, add_first(a, i) PROVE Sound'
  <2>1. head_node = NULL
    BY <1>9
  <2> QED
    BY <1>7, <1>9, <1>t, <2>1 DEF add_first, Node
<1>10. ASSUME NEW a \in Addrs, NEW i \in Indexes, add_last(a, i) PROVE Sound'
  <2>1. head_node = NULL
    BY <1>10
  <2> QED
    BY <1>7, <1>8, <1>10, <1>t, <2>1 DEF add_last, Node
<1>11. ASSUME NEW a \in Addrs, NEW u \in Indexes, InsertFirst(a, u) PROVE Sound'
  BY <1>7, <1>11, <1>t DEF InsertFirst, Node
<1>12. ASSUME NEW a \in Addrs, NEW i \in Indexes, InsertNowhere(a, i) PROVE Sound'
  <2>1. LineIn(n, s, h, l, heap', allocated')
    BY <1>5, <1>12 DEF InsertNowhere, Malloc, LineIn
  <2> QED
    BY <1>4, <1>5, <1>12, <2>1 DEF InsertNowhere
<1>13. ASSUME NEW a \in Addrs, NEW k \in 1 .. n - 1, Malloc(a), UNCHANGED <<head_node, last_node>>,
              NEW p, p = s[k], NEW q, q = s[k + 1], Between(a, p, q, heap')
       PROVE  Sound'
  <2>1. a \in Addrs \ allocated /\ allocated' = allocated \cup {a}
    BY <1>13 DEF Malloc
  <2>2. \E m, t : LineIn(m, t, head_node, last_node, heap', allocated \cup {a})
    BY <1>3, <1>13, <2>1, LineWithOneMore
  <2> QED
    BY <1>4, <1>5, <1>13, <2>1, <2>2
<1>14. ASSUME NEW a \in Addrs, NEW u \in Indexes, NEW i \in Indexes,
              InsertBeside(a, u, i, "next", "previous")
       PROVE  Sound'
  <2>1. PICK k \in 1 .. n : Walk(i) = s[k] /\ s[k] \in allocated
    BY <1>3, <1>14, WalkOnLine DEF InsertBeside
  <2>2. PICK p, q : p = s[k] /\ q = heap[p].next
    OBVIOUS
  <2>3. CASE Crash(q)
    BY <1>6, <2>3 DEF Crash
  <2>4. CASE q \in allocated
    <3>1. k \in 1 .. n - 1 /\ q = s[k + 1] /\ p # q /\ p \in Addrs /\ q \in Addrs
      <4>1. NULL \notin allocated
        BY LinkListAssumption DEF TypeOK
      <4>2. k < n
        <5>1. k # n
          BY <1>3, <2>2, <2>4, <4>1, LineLinks
        <5> QED
          BY <1>l, <5>1
      <4>3. k \in 1 .. n - 1 /\ k + 1 \in 1 .. n /\ k # k + 1
        BY <1>l, <4>2
      <4>4. q = s[k + 1]
        BY <1>3, <2>2, <4>2, LineLinks
      <4>5. p # q
        BY <1>3, <2>2, <4>3, <4>4, LineIsDistinct
      <4> QED
        BY <2>1, <2>2, <2>4, <4>3, <4>4, <4>5 DEF TypeOK
    <3>2. /\ Malloc(a)
          /\ heap' = [heap EXCEPT
               ![a] = [Node(u, NULL, NULL) EXCEPT !["next"] = q, !["previous"] = p],
               ![p]["next"] = a, ![q]["previous"] = a]
          /\ UNCHANGED <<head_node, last_node, fault>>
      BY <1>14, <2>1, <2>2, <2>4 DEF InsertBeside, Crash
    <3>3. [Node(u, NULL, NULL) EXCEPT !["next"] = q, !["previous"] = p] = Node(u, p, q)
      BY BesideIs
    <3>4. heap' = [heap EXCEPT ![a] = Node(u, p, q), ![p]["next"] = a, ![q]["previous"] = a]
      BY <3>2, <3>3
    <3>5. a # p /\ a # q /\ a \notin allocated
      BY <2>1, <2>2, <2>4, <3>2 DEF Malloc
    <3>6. /\ heap'[a].previous = p /\ heap'[a].next = q
          /\ heap'[p].next = a /\ heap'[q].previous = a
      BY <1>t, <3>1, <3>4, <3>5 DEF Nodes, Node
    <3>7. \A x \in allocated \ {p, q} : heap'[x] = heap[x]
      BY <1>t, <3>4, <3>5 DEF TypeOK
    <3>8. heap'[p].previous = heap[p].previous /\ heap'[q].next = heap[q].next
      BY <1>t, <3>1, <3>4, <3>5 DEF Nodes
    <3>9. Between(a, p, q, heap')
      BY <3>6, <3>7, <3>8 DEF Between
    <3> QED
      BY <1>13, <2>2, <3>1, <3>2, <3>9
  <2> QED
    BY <1>14, <2>1, <2>2, <2>3, <2>4 DEF InsertBeside, Crash
<1>15. ASSUME NEW a \in Addrs, NEW u \in Indexes, NEW i \in Indexes,
              InsertBeside(a, u, i, "previous", "next")
       PROVE  Sound'
  <2>1. PICK j \in 1 .. n : Walk(i) = s[j] /\ s[j] \in allocated
    BY <1>3, <1>15, WalkOnLine DEF InsertBeside
  <2>2. PICK p, q, k : q = s[j] /\ p = heap[q].previous /\ k = j - 1
    OBVIOUS
  <2>3. CASE Crash(p)
    BY <1>6, <2>3 DEF Crash
  <2>4. CASE p \in allocated
    <3>1. k \in 1 .. n - 1 /\ p = s[k] /\ q = s[k + 1] /\ p # q /\ p \in Addrs /\ q \in Addrs
      <4>1. NULL \notin allocated
        BY LinkListAssumption DEF TypeOK
      <4>2. j > 1
        <5>1. j # 1
          BY <1>3, <2>2, <2>4, <4>1, LineLinks
        <5> QED
          BY <1>l, <5>1
      <4>3. k \in 1 .. n - 1 /\ k \in 1 .. n /\ k + 1 = j /\ k # j
        BY <1>l, <2>2, <4>2
      <4>4. p = s[k]
        BY <1>3, <2>2, <4>2, LineLinks
      <4>5. p # q
        BY <1>3, <2>2, <4>3, <4>4, LineIsDistinct
      <4> QED
        BY <2>1, <2>2, <2>4, <4>3, <4>4, <4>5 DEF TypeOK
    <3>2. /\ Malloc(a)
          /\ heap' = [heap EXCEPT
               ![a] = [Node(u, NULL, NULL) EXCEPT !["previous"] = p, !["next"] = q],
               ![q]["previous"] = a, ![p]["next"] = a]
          /\ UNCHANGED <<head_node, last_node, fault>>
      BY <1>15, <2>1, <2>2, <2>4 DEF InsertBeside, Crash
    <3>3. [Node(u, NULL, NULL) EXCEPT !["previous"] = p, !["next"] = q] = Node(u, p, q)
      BY BesideIs
    <3>4. heap' = [heap EXCEPT ![a] = Node(u, p, q), ![q]["previous"] = a, ![p]["next"] = a]
      BY <3>2, <3>3
    <3>5. a # p /\ a # q /\ a \notin allocated
      BY <2>1, <2>2, <2>4, <3>2 DEF Malloc
    <3>6. /\ heap'[a].previous = p /\ heap'[a].next = q
          /\ heap'[p].next = a /\ heap'[q].previous = a
      BY <1>t, <3>1, <3>4, <3>5 DEF Nodes, Node
    <3>7. \A x \in allocated \ {p, q} : heap'[x] = heap[x]
      BY <1>t, <3>4, <3>5 DEF TypeOK
    <3>8. heap'[p].previous = heap[p].previous /\ heap'[q].next = heap[q].next
      BY <1>t, <3>1, <3>4, <3>5 DEF Nodes
    <3>9. Between(a, p, q, heap')
      BY <3>6, <3>7, <3>8 DEF Between
    <3> QED
      BY <1>13, <2>2, <3>1, <3>2, <3>9
  <2> QED
    BY <1>15, <2>1, <2>2, <2>3, <2>4 DEF InsertBeside, Crash
<1>16. CASE remove_first
  <2>0. PICK e, b : e = head_node /\ b = heap[e].next
    OBVIOUS
  <2>1. /\ 1 \in 1 .. n /\ e = s[1] /\ e \in allocated /\ heap[e].previous = NULL
        /\ n = 1 => b = NULL
        /\ n # 1 => n > 1 /\ 2 \in 1 .. n /\ b = s[2] /\ b \in allocated /\ b # NULL
    BY <1>3, <1>16, <2>0, LineHasEnds DEF remove_first
  <2>2. CASE RemoveOnly(e)
    <3>1. \E m, t : LineIn(m, t, NULL, NULL, heap', allocated')
      BY LineOfNone
    <3> QED
      BY <1>4, <2>2, <3>1 DEF RemoveOnly
  <2>3. CASE /\ heap[e].previous # b /\ b \in allocated
             /\ head_node' = b
             /\ Free(e, [heap EXCEPT ![b].previous = NULL])
             /\ UNCHANGED <<last_node, fault>>
    <3>1. n > 1 /\ b = s[2] /\ b # e
      <4>1. n # 1
        BY <2>1, <2>3
      <4>2. 2 \in 1 .. n /\ s[2] # s[1]
        <5>1. s[2] = s[1] => 2 = 1
          BY <1>3, <2>1, <4>1, LineIsDistinct
        <5> QED
          BY <2>1, <4>1, <5>1
      <4> QED
        BY <2>1, <4>1, <4>2
    <3>2. /\ heap'[b].previous = NULL
          /\ \A x \in allocated \ {e} : heap'[x].next = heap[x].next
          /\ \A x \in allocated \ {e, b} : heap'[x].previous = heap[x].previous
      BY <1>t, <2>3, <3>1 DEF Free, Nodes, TypeOK
    <3>3. \E m, t : LineIn(m, t, b, last_node, heap', allocated \ {e})
      BY <1>3, <2>1, <3>1, <3>2, LineWithoutFirst
    <3> QED
      BY <1>4, <1>5, <2>3, <3>3 DEF Free
  <2> QED
    BY <1>6, <1>16, <2>0, <2>2, <2>3 DEF remove_first, Crash
<1>17. CASE remove_last
  <2>0. PICK e, b, m : e = last_node /\ b = heap[e].previous /\ m = n - 1
    OBVIOUS
  <2>1. /\ n \in 1 .. n /\ e = s[n] /\ e \in allocated /\ heap[e].next = NULL
        /\ n = 1 => b = NULL
        /\ n # 1 => m > 0 /\ m \in 1 .. n /\ m # n /\ b = s[m] /\ b \in allocated /\ b # NULL
    <3>1. n # 1 => n > 1 /\ n - 1 > 0 /\ n - 1 # n
      BY <1>3, <1>17, LineHasEnds DEF remove_last
    <3> QED
      BY <1>3, <1>17, <2>0, <3>1, LineHasEnds DEF remove_last
  <2>2. CASE RemoveOnly(e)
    <3>1. \E q, t : LineIn(q, t, NULL, NULL, heap', allocated')
      BY LineOfNone
    <3> QED
      BY <1>4, <2>2, <3>1 DEF RemoveOnly
  <2>3. CASE /\ heap[e].next # b /\ b \in allocated
             /\ last_node' = b
             /\ Free(e, [heap EXCEPT ![b].next = NULL])
             /\ UNCHANGED <<head_node, fault>>
    <3>1. m > 0 /\ b = s[m] /\ b # e
      <4>1. n # 1
        BY <2>1, <2>3
      <4>2. s[m] # s[n]
        BY <1>3, <2>1, <4>1, LineIsDistinct
      <4> QED
        BY <2>1, <4>1, <4>2
    <3>2. /\ heap'[b].next = NULL
          /\ \A x \in allocated \ {e} : heap'[x].previous = heap[x].previous
          /\ \A x \in allocated \ {e, b} : heap'[x].next = heap[x].next
      BY <1>t, <2>3, <3>1 DEF Free, Nodes, TypeOK
    <3>3. \E q, t : LineIn(q, t, head_node, b, heap', allocated \ {e})
      BY <1>3, <2>0, <2>1, <3>1, <3>2, LineWithoutLast
    <3> QED
      BY <1>4, <1>5, <2>3, <3>3 DEF Free
  <2> QED
    BY <1>6, <1>17, <2>0, <2>2, <2>3 DEF remove_last, Crash
<1>18. ASSUME NEW i \in Indexes, find_node(i) PROVE Sound'
  BY <1>6, <1>18 DEF find_node, Crash
<1>19. CASE OutOfMemory \/ UNCHANGED vars
  BY <1>6, <1>19 DEF OutOfMemory, vars
<1> QED
  BY <1>9, <1>10, <1>11, <1>12, <1>14, <1>15, <1>16, <1>17, <1>18, <1>19
  DEF Next, insert_after, insert_before

-----------------------------------------------------------------------------
(* The theorems.                                                           *)

\* Every link of a node, the head and the tail are NULL or addresses malloc
\* may return, whatever callers do to the list (linklist.c:7-168).
THEOREM TypeCorrect == Spec => []TypeOK
<1>1. Init => TypeOK
  BY TypesInit
<1>2. TypeOK /\ [Next]_vars => TypeOK'
  BY TypesKept
<1> QED
  BY <1>1, <1>2, PTL DEF Spec

\* Each end of the list, used alone, is a stack that fails only for want of
\* memory, for any memory and any indexes (linklist.c:15-48, 108-142 and
\* 170-181).
THEOREM EachEndIsAStack == Spec => ImplementsStacks
<1>1. Init => FirstInv /\ LastInv /\ FirstStack!Init /\ LastStack!Init
  BY EndsInit
<1>2. TypeOK /\ TypeOK' /\ FirstInv /\ [Next]_vars
        => FirstInv' /\ [FirstStack!Next]_FirstIndices
  BY FirstStep
<1>3. TypeOK /\ TypeOK' /\ LastInv /\ [Next]_vars
        => LastInv' /\ [LastStack!Next]_LastIndices
  BY LastStep
<1>4. FirstInv => (AtFirst => fault \in {"none", "memory"})
  BY DEF FirstInv
<1>5. LastInv => (AtLast => fault \in {"none", "memory"})
  BY DEF LastInv
<1>6. Spec => []TypeOK
  BY TypeCorrect
<1>7. Spec => FirstStack!Spec /\ [](AtFirst => fault \in {"none", "memory"})
  BY <1>1, <1>2, <1>4, <1>6, PTL DEF Spec, FirstStack!Spec
<1>8. Spec => LastStack!Spec /\ [](AtLast => fault \in {"none", "memory"})
  BY <1>1, <1>3, <1>5, <1>6, PTL DEF Spec, LastStack!Spec
<1> QED
  BY <1>7, <1>8 DEF ImplementsStacks, ImplementsFirstStack, ImplementsLastStack

\* On a list that reads the same both ways no removal and no search fails, and
\* only an addition at an end of a list with nodes, and remove_node, can spoil
\* such a list (linklist.c:15-181).
THEOREM FewSpoilASoundList == Spec => SoundListsAreSpoiltByFew
<1>1. TypeOK /\ TypeOK' /\ [Next]_vars => [SpoiltByFew]_vars
  <2> SUFFICES ASSUME TypeOK, TypeOK', Next, Sound PROVE SpoiltByFew
    BY DEF SpoiltByFew
  <2>1. fault = "none"
    BY DEF Next
  <2>2. fault' \in Fails =>
          /\ ~remove_first /\ ~remove_last
          /\ \A i \in Indexes :
               /\ ~remove_node(i) /\ ~find_node(i)
               /\ \A a \in Addrs, u \in Indexes :
                    /\ insert_after(a, u, i) => Walk(i) = last_node
                    /\ insert_before(a, u, i) => Walk(i) = head_node
    BY <2>1, SoundHardlyFails
  <2>3. \/ Sound'
        \/ \E a \in Addrs, i \in Indexes :
             head_node # NULL /\ (add_first(a, i) \/ add_last(a, i))
        \/ \E i \in Indexes : remove_node(i)
    BY SoundKept
  <2> QED
    BY <2>2, <2>3 DEF SpoiltByFew, Fails
<1>2. Spec => []TypeOK
  BY TypeCorrect
<1> QED
  BY <1>1, <1>2, PTL DEF Spec, SoundListsAreSpoiltByFew

=============================================================================
