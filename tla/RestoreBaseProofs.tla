------------------------- MODULE RestoreBaseProofs --------------------------
(***************************************************************************)
(* Theorems of what a restore rebuilds in the new Base, for any relations, *)
(* records, links, refusals and computed fields, in any order: first of    *)
(* the relations and their links, then of the computed fields, then of     *)
(* both.                                                                   *)
(***************************************************************************)
EXTENDS MCRestoreBase, FiniteSetTheorems, SequenceTheorems, TLAPS

-----------------------------------------------------------------------------
(* Sequences and numbers *)

Distinct(s) == \A i, j \in DOMAIN s : s[i] = s[j] => i = j

\* What is left of a sequence when the first is taken off it.
LEMMA TakenOff ==
  ASSUME NEW S, NEW s \in Seq(S), s # <<>>
  PROVE  Head(s) \in S /\ Tail(s) \in Seq(S) /\ ToSet(s) = {Head(s)} \cup ToSet(Tail(s))
<1> DEFINE t == Tail(s)
           n == Len(s)
<1>1. n \in Nat \ {0} /\ DOMAIN s = 1..n /\ Head(s) = s[1]
  BY EmptySeq
<1>2. /\ Head(s) \in S /\ t \in Seq(S) /\ DOMAIN t = 1..(n - 1)
      /\ \A i \in 1..(n - 1) : t[i] = s[i + 1]
  BY <1>1, HeadTailProperties
<1> HIDE DEF t, n
<1>3. {Head(s)} \cup ToSet(t) \subseteq ToSet(s)
  BY <1>1, <1>2 DEF ToSet
<1>4. ASSUME NEW x \in ToSet(s) PROVE x \in {Head(s)} \cup ToSet(t)
  <2>1. PICK i \in 1..n : x = s[i]
    BY <1>1 DEF ToSet
  <2>2. CASE i = 1
    BY <1>1, <2>1, <2>2
  <2>3. CASE i # 1
    <3>1. i - 1 \in 1..(n - 1) /\ (i - 1) + 1 = i
      BY <1>1, <2>3
    <3>2. t[i - 1] = x
      BY <1>2, <2>1, <3>1
    <3> QED BY <1>2, <3>1, <3>2 DEF ToSet
  <2> QED BY <2>2, <2>3
<1> QED BY <1>2, <1>3, <1>4 DEF t

\* And where it holds nothing twice.
LEMMA TailIs ==
  ASSUME NEW S, NEW s \in Seq(S), s # <<>>, Distinct(s)
  PROVE  /\ Head(s) \in S /\ Head(s) \in ToSet(s)
         /\ Tail(s) \in Seq(S) /\ Distinct(Tail(s)) /\ Len(Tail(s)) = Len(s) - 1
         /\ ToSet(Tail(s)) = ToSet(s) \ {Head(s)}
<1> DEFINE h == Head(s)
           t == Tail(s)
           n == Len(s)
<1>1. n \in Nat \ {0} /\ DOMAIN s = 1..n /\ h = s[1]
  BY EmptySeq
<1>2. /\ h \in S /\ t \in Seq(S) /\ Len(t) = n - 1 /\ DOMAIN t = 1..(n - 1)
      /\ \A i \in 1..(n - 1) : t[i] = s[i + 1]
  BY <1>1, HeadTailProperties
<1> HIDE DEF h, t, n
<1>3. Distinct(t)
  <2> SUFFICES ASSUME NEW i \in 1..(n - 1), NEW j \in 1..(n - 1), t[i] = t[j] PROVE i = j
    BY <1>2 DEF Distinct
  <2>1. i + 1 \in 1..n /\ j + 1 \in 1..n /\ s[i + 1] = s[j + 1]
    BY <1>1, <1>2
  <2>2. i + 1 = j + 1
    BY <1>1, <2>1 DEF Distinct
  <2> QED BY <2>2
<1>4. ToSet(t) \subseteq ToSet(s) \ {h}
  BY <1>1, <1>2 DEF Distinct, ToSet
<1>5. ASSUME NEW x \in ToSet(s) \ {h} PROVE x \in ToSet(t)
  <2>1. PICK i \in 1..n : x = s[i]
    BY <1>1, <1>5 DEF ToSet
  <2>2. i - 1 \in 1..(n - 1) /\ (i - 1) + 1 = i
    BY <1>1, <1>5, <2>1
  <2>3. t[i - 1] = x
    BY <1>2, <2>1, <2>2
  <2> QED BY <1>2, <2>2, <2>3 DEF ToSet
<1>6. h \in ToSet(s)
  BY <1>1 DEF ToSet
<1> QED BY <1>1, <1>2, <1>3, <1>4, <1>5, <1>6 DEF h, t, n

\* One more is appended to a sequence.
LEMMA AppendIs ==
  ASSUME NEW S, NEW s \in Seq(S), NEW x \in S, Distinct(s), x \notin ToSet(s)
  PROVE  /\ Append(s, x) \in Seq(S) /\ Distinct(Append(s, x))
         /\ Len(Append(s, x)) = Len(s) + 1
         /\ ToSet(Append(s, x)) = ToSet(s) \cup {x}
<1> DEFINE t == Append(s, x)
           n == Len(s)
<1>1. n \in Nat /\ DOMAIN s = 1..n
  OBVIOUS
<1>2. /\ t \in Seq(S) /\ Len(t) = n + 1 /\ DOMAIN t = 1..(n + 1) /\ t[n + 1] = x
      /\ \A i \in 1..n : t[i] = s[i]
  OBVIOUS
<1> HIDE DEF t, n
<1>3. Distinct(t)
  BY <1>1, <1>2 DEF Distinct, ToSet
<1>4. ToSet(t) \subseteq ToSet(s) \cup {x}
  BY <1>1, <1>2 DEF ToSet
<1>5. ToSet(s) \cup {x} \subseteq ToSet(t)
  BY <1>1, <1>2 DEF ToSet
<1> QED BY <1>2, <1>3, <1>4, <1>5 DEF t, n

LEMMA NoElements == ToSet(<<>>) = {} /\ Distinct(<<>>) /\ Len(<<>>) = 0
BY DEF ToSet, Distinct

\* A set in some order holds each element once.
LEMMA OrderedSet ==
  ASSUME NEW S, IsFiniteSet(S), NEW s \in SetToSeqs(S)
  PROVE  s \in Seq(S) /\ Distinct(s) /\ ToSet(s) = S
<1> DEFINE n == Cardinality(S)
<1>1. n \in Nat /\ IsFiniteSet(1..n) /\ Cardinality(1..n) = n
  BY FS_CardinalityType, FS_Interval
<1>2. s \in [1..n -> S] /\ Distinct(s)
  BY DEF SetToSeqs, Distinct
<1> HIDE DEF n
<1>3. s \in Seq(S)
  BY <1>1, <1>2
<1>4. s \in Surjection(1..n, S)
  <2>1. s \in Injection(1..n, S)
    BY <1>2 DEF Injection, IsInjective, Distinct
  <2>2. Cardinality(1..n) = Cardinality(S)
    BY <1>1 DEF n
  <2> QED BY <1>1, <2>1, <2>2, FS_Injection
<1>5. ToSet(s) = S
  BY <1>2, <1>4 DEF Surjection, ToSet
<1> QED BY <1>2, <1>3, <1>5

\* Two sets, each in some order, one after the other.
LEMMA OrderedSets ==
  ASSUME NEW S, NEW T, IsFiniteSet(S), IsFiniteSet(T), S \cap T = {},
         NEW s \in SetToSeqs(S), NEW t \in SetToSeqs(T)
  PROVE  s \o t \in Seq(S \cup T) /\ Distinct(s \o t) /\ ToSet(s \o t) = S \cup T
<1> DEFINE u == s \o t
           m == Len(s)
           n == Len(t)
<1>1. /\ s \in Seq(S) /\ Distinct(s) /\ ToSet(s) = S
      /\ t \in Seq(T) /\ Distinct(t) /\ ToSet(t) = T
  BY OrderedSet
<1>2. s \in Seq(S \cup T) /\ t \in Seq(S \cup T)
  BY <1>1
<1>3. /\ u \in Seq(S \cup T) /\ Len(u) = m + n
      /\ \A i \in 1..(m + n) : u[i] = IF i <= m THEN s[i] ELSE t[i - m]
  BY <1>2, ConcatProperties
<1>4. m \in Nat /\ n \in Nat /\ DOMAIN s = 1..m /\ DOMAIN t = 1..n /\ DOMAIN u = 1..(m + n)
  BY <1>2, <1>3
<1> HIDE DEF u, m, n
<1>5. \A i \in 1..m : s[i] \in S
  BY <1>1, <1>4 DEF ToSet
<1>6. \A i \in 1..n : t[i] \in T
  BY <1>1, <1>4 DEF ToSet
<1>7. Distinct(u)
  <2> SUFFICES ASSUME NEW i \in 1..(m + n), NEW j \in 1..(m + n), u[i] = u[j]
               PROVE  i = j
    BY <1>4 DEF Distinct
  <2>1. CASE i <= m /\ j <= m
    <3>1. i \in 1..m /\ j \in 1..m /\ s[i] = s[j]
      BY <1>3, <1>4, <2>1
    <3> QED BY <1>1, <1>4, <3>1 DEF Distinct
  <2>2. CASE ~(i <= m) /\ ~(j <= m)
    <3>1. i - m \in 1..n /\ j - m \in 1..n /\ t[i - m] = t[j - m]
      BY <1>3, <1>4, <2>2
    <3>2. i - m = j - m
      BY <1>1, <1>4, <3>1 DEF Distinct
    <3> QED BY <1>4, <3>2
  <2>3. CASE i <= m /\ ~(j <= m)
    <3>1. i \in 1..m /\ j - m \in 1..n /\ s[i] = t[j - m]
      BY <1>3, <1>4, <2>3
    <3> QED BY <1>5, <1>6, <3>1
  <2>4. CASE ~(i <= m) /\ j <= m
    <3>1. j \in 1..m /\ i - m \in 1..n /\ s[j] = t[i - m]
      BY <1>3, <1>4, <2>4
    <3> QED BY <1>5, <1>6, <3>1
  <2> QED BY <2>1, <2>2, <2>3, <2>4
<1>8. ToSet(u) \subseteq S \cup T
  BY <1>3, ElementOfSeq DEF ToSet
<1>9. ASSUME NEW x \in S PROVE x \in ToSet(u)
  <2>1. PICK i \in 1..m : x = s[i]
    BY <1>1, <1>4 DEF ToSet
  <2>2. i \in 1..(m + n) /\ u[i] = x
    BY <1>3, <1>4, <2>1
  <2> QED BY <1>4, <2>2 DEF ToSet
<1>10. ASSUME NEW x \in T PROVE x \in ToSet(u)
  <2>1. PICK i \in 1..n : x = t[i]
    BY <1>1, <1>4 DEF ToSet
  <2>2. m + i \in 1..(m + n) /\ ~(m + i <= m) /\ (m + i) - m = i
    BY <1>4
  <2>3. u[m + i] = x
    BY <1>3, <2>1, <2>2
  <2> QED BY <1>4, <2>2, <2>3 DEF ToSet
<1> QED BY <1>3, <1>7, <1>8, <1>9, <1>10 DEF u

\* A set of numbers has a smallest one.
LEMMA Smallest == ASSUME NEW T, T \subseteq Nat, T # {}
  PROVE \E x \in T : \A y \in T : x <= y
<1> DEFINE Below(x) == 0..(x - 1)
           F == {Below(x) : x \in T}
<1>1. F \subseteq FiniteSubsetsOf(Nat) /\ F # {}
  <2>1. ASSUME NEW x \in T PROVE Below(x) \in FiniteSubsetsOf(Nat)
    <3>1. 0 \in Int /\ x - 1 \in Int
      OBVIOUS
    <3>2. IsFiniteSet(0..(x - 1))
      BY <3>1, FS_Interval
    <3>3. 0..(x - 1) \subseteq Nat
      OBVIOUS
    <3> QED BY <3>2, <3>3 DEF FiniteSubsetsOf
  <2> QED BY <2>1
<1>2. PICK m \in F : \A l \in F : ~ (<<l, m>> \in StrictSubsetOrdering(Nat))
  <2> HIDE DEF F
  <2> QED BY <1>1, FS_StrictSubsetOrderingWellFounded, WFMin
<1>3. PICK x \in T : m = Below(x)
  OBVIOUS
<1>4. ASSUME NEW y \in T, y < x PROVE FALSE
  <2>1. Below(y) \subseteq Below(x) /\ Below(y) # Below(x)
    <3>1. y \in Nat /\ x \in Nat /\ y \in Below(x) /\ y \notin Below(y)
      BY <1>4
    <3>2. Below(y) \subseteq Below(x)
      BY <1>4, <3>1
    <3> QED BY <3>1, <3>2
  <2>2. Below(y) \in F /\ Below(y) \in SUBSET Nat /\ m \in SUBSET Nat
    BY <1>1, <1>3 DEF FiniteSubsetsOf
  <2> HIDE DEF F, Below
  <2> QED BY <1>2, <1>3, <2>1, <2>2 DEF StrictSubsetOrdering
<1> QED BY <1>4

-----------------------------------------------------------------------------
(* The snapshot *)

Other(f) == Links!Field(f.rel, IF f.end = "from" THEN "to" ELSE "from")

\* The snapshot lists each field of its tables once.
BaseInv ==
  /\ base.rels \in [Relations -> Links!Possible]
  /\ base.order \in Seq(Links!Ends) /\ Distinct(base.order)
  /\ ToSet(base.order) = Links!Held(base.rels)

\* RestoreLinks takes the operators on sets and sequences from its own instances
\* of the library's modules, which are the same.
LEMMA SameOperators ==
  ASSUME NEW S
  PROVE  /\ Links!Cardinality(S) = Cardinality(S)
         /\ Links!IsFiniteSet(S) <=> IsFiniteSet(S)
         /\ Links!ToSet(S) = ToSet(S)
         /\ Links!SetToSeqs(S) = SetToSeqs(S)
<1>1. Links!Cardinality(S) = Cardinality(S)
  BY Zenon DEF Links!Cardinality, Cardinality
<1>2. Links!IsFiniteSet(S) <=> IsFiniteSet(S)
  BY Zenon DEF Links!IsFiniteSet, IsFiniteSet
<1>3. Links!ToSet(S) = ToSet(S)
  BY DEF Links!ToSet, ToSet
<1>4. Links!SetToSeqs(S) = SetToSeqs(S)
  BY <1>1 DEF Links!SetToSeqs, SetToSeqs
<1> QED BY <1>1, <1>2, <1>3, <1>4

LEMMA BaseInit ==
  ASSUME Links!RestoreConstants, NEW rels \in [Relations -> Links!Possible],
           NEW order \in Links!Orders(rels),
         base = [rels |-> rels, order |-> order]
  PROVE  BaseInv
<1> DEFINE In(t) == {f \in Links!Held(rels) :
                       t = IF f.end = "from" THEN rels[f.rel].from ELSE rels[f.rel].to}
<1>1. IsFiniteSet(Links!Ends)
  <2> DEFINE S == Relations \X {"from", "to"}
             F == [p \in S |-> Links!Field(p[1], p[2])]
  <2>1. IsFiniteSet({"from"})
    BY FS_Singleton
  <2>2. IsFiniteSet({"from"} \cup {"to"}) /\ {"from"} \cup {"to"} = {"from", "to"}
    BY <2>1, FS_AddElement
  <2>3. IsFiniteSet(S)
    BY <2>1, <2>2, FS_Product, SameOperators DEF Links!RestoreConstants
  <2>4. ASSUME NEW e \in Links!Ends PROVE \E p \in S : F[p] = e
    <3>1. PICK rel \in Relations : \E end \in {"from", "to"} : e = Links!Field(rel, end)
      BY DEF Links!Ends
    <3>2. PICK end \in {"from", "to"} : e = Links!Field(rel, end)
      BY <3>1
    <3>3. <<rel, end>> \in S /\ F[<<rel, end>>] = e
      BY <3>2
    <3> QED BY <3>3
  <2>5. F \in [S -> Links!Ends]
    BY DEF Links!Ends
  <2>6. F \in Surjection(S, Links!Ends)
    <3> HIDE DEF F, S
    <3> QED BY <2>4, <2>5 DEF Surjection
  <2> QED BY <2>3, <2>6, FS_Surjection
<1>2. IsFiniteSet(In("t1")) /\ IsFiniteSet(In("t2")) /\ In("t1") \cap In("t2") = {}
  <2>1. In("t1") \subseteq Links!Ends /\ In("t2") \subseteq Links!Ends
    BY DEF Links!Held
  <2>2. In("t1") \cap In("t2") = {}
    OBVIOUS
  <2> QED BY <1>1, <2>1, <2>2, FS_Subset
<1>3. In("t1") \cup In("t2") = Links!Held(rels)
  <2>1. ASSUME NEW f \in Links!Held(rels)
        PROVE  (IF f.end = "from" THEN rels[f.rel].from ELSE rels[f.rel].to)
                 \in {"t1", "t2"}
    <3>1. f.rel \in Relations /\ f.end \in {"from", "to"}
      BY DEF Links!Held, Links!Ends, Links!Field
    <3>2. /\ rels[f.rel].from \in {"t1", "t2"}
          /\ rels[f.rel].to \in {"t1", "t2", "elsewhere"}
      BY <3>1 DEF Links!Possible, Links!Tables, Links!Elsewhere
    <3>3. f.end = "from" \/ rels[f.rel].to # "elsewhere"
      BY DEF Links!Held, Links!Elsewhere
    <3> QED BY <3>2, <3>3
  <2> QED BY <2>1
<1>4. PICK s \in Links!SetToSeqs(In("t1")), t \in Links!SetToSeqs(In("t2")) : order = s \o t
  <2>1. Links!Orders(rels) =
          {s \o t : s \in Links!SetToSeqs(In("t1")), t \in Links!SetToSeqs(In("t2"))}
    BY DEF Links!Orders
  <2> HIDE DEF In
  <2> QED BY <2>1
<1> HIDE DEF In
<1>5. order \in Seq(Links!Held(rels)) /\ Distinct(order) /\ ToSet(order) = Links!Held(rels)
  <2>1. s \in SetToSeqs(In("t1")) /\ t \in SetToSeqs(In("t2"))
    BY SameOperators
  <2> QED BY <1>2, <1>3, <1>4, <2>1, OrderedSets
<1>6. order \in Seq(Links!Ends)
  BY <1>5 DEF Links!Held
<1> QED BY <1>5, <1>6 DEF BaseInv

LEMMA MirrorTwice ==
  ASSUME NEW links \in SUBSET (Records \X Records)
           PROVE Links!Mirror(Links!Mirror(links)) = links
<1>1. ASSUME NEW l \in links PROVE l \in Links!Mirror(Links!Mirror(links))
  <2>1. l = <<l[1], l[2]>>
    OBVIOUS
  <2>2. <<l[2], l[1]>> \in Links!Mirror(links)
    BY DEF Links!Mirror
  <2>3. <<<<l[2], l[1]>>[2], <<l[2], l[1]>>[1]>> \in Links!Mirror(Links!Mirror(links))
    BY <2>2 DEF Links!Mirror
  <2> QED BY <2>1, <2>3
<1>2. ASSUME NEW l \in Links!Mirror(Links!Mirror(links)) PROVE l \in links
  <2>1. PICK m \in Links!Mirror(links) : l = <<m[2], m[1]>>
    BY <1>2 DEF Links!Mirror
  <2>2. PICK k \in links : m = <<k[2], k[1]>>
    BY DEF Links!Mirror
  <2>3. k = <<k[1], k[2]>>
    OBVIOUS
  <2> QED BY <2>1, <2>2, <2>3
<1> QED BY <1>1, <1>2

\* What a field says, and what the other field of its relation says.
LEMMA FieldIs ==
  ASSUME Links!RestoreConstants, BaseInv, NEW f \in Links!Ends
  PROVE  /\ f.rel \in Relations /\ f.end \in {"from", "to"} /\ f = Links!Field(f.rel, f.end)
         /\ Links!Own(f) \in Links!Possible
         /\ Links!LinksOf(f) \subseteq Records \X Records /\ IsFiniteSet(Links!LinksOf(f))
         /\ f # Links!NoField
<1>1. f.rel \in Relations /\ f.end \in {"from", "to"} /\ f = Links!Field(f.rel, f.end)
  BY DEF Links!Ends, Links!Field
<1>2. Links!Own(f) \in Links!Possible
  BY <1>1 DEF BaseInv, Links!Own
<1>3. Links!Own(f).links \subseteq Records \X Records
  <2>1. Links!Own(f).links \in Links!kSubset(0, Records \X Records)
          \cup UNION {Links!kSubset(n, Records \X Records) : n \in 1..MaxLinks}
    BY <1>2 DEF Links!Possible
  <2> QED BY <2>1 DEF Links!kSubset
<1>4. Links!LinksOf(f) \subseteq Records \X Records
  BY <1>3 DEF Links!LinksOf, Links!Mirror
<1>5. IsFiniteSet(Links!LinksOf(f))
  BY <1>4, FS_Product, FS_Subset, SameOperators DEF Links!RestoreConstants
<1>6. f # Links!NoField
  BY <1>1 DEF Links!NoField, Links!Field
<1> QED BY <1>1, <1>2, <1>4, <1>5, <1>6

LEMMA OtherIs ==
  ASSUME Links!RestoreConstants, BaseInv, NEW f \in Links!Ends
  PROVE  /\ Other(f) \in Links!Ends /\ Other(Other(f)) = f /\ Other(f) # f
         /\ Links!TypeOf(Other(f)) = Links!Mirrored(Links!TypeOf(f))
         /\ Links!TableOf(Other(f)) = Links!Related(f)
              /\ Links!Related(Other(f)) = Links!TableOf(f)
         /\ Links!LinksOf(Other(f)) = Links!Mirror(Links!LinksOf(f))
<1> DEFINE o == Other(f)
<1>1. f.rel \in Relations /\ f.end \in {"from", "to"} /\ f = Links!Field(f.rel, f.end)
  BY FieldIs
<1>2. o.rel = f.rel /\ o.end = (IF f.end = "from" THEN "to" ELSE "from")
  BY DEF Other, Links!Field
<1>3. o \in Links!Ends /\ Other(o) = f /\ o # f
  BY <1>1, <1>2 DEF Other, Links!Field, Links!Ends
<1>4. Links!Own(o) = Links!Own(f)
  BY <1>2 DEF Links!Own
<1>5. Links!Own(f).type \in {"mm", "hm"} /\ Links!Own(f).links \subseteq Records \X Records
  <2>1. Links!Own(f).links \in Links!kSubset(0, Records \X Records)
          \cup UNION {Links!kSubset(n, Records \X Records) : n \in 1..MaxLinks}
    BY FieldIs DEF Links!Possible
  <2> QED BY <2>1, FieldIs DEF Links!Possible, Links!kSubset
<1> HIDE DEF o
<1>6. Links!TableOf(o) = Links!Related(f) /\ Links!Related(o) = Links!TableOf(f)
  BY <1>1, <1>2, <1>4 DEF Links!TableOf, Links!Related
<1>7. Links!TypeOf(o) = Links!Mirrored(Links!TypeOf(f))
  BY <1>1, <1>2, <1>4, <1>5 DEF Links!TypeOf, Links!Mirrored
<1>8. Links!LinksOf(o) = Links!Mirror(Links!LinksOf(f))
  <2>1. CASE f.end = "from"
    BY <1>2, <1>4, <2>1 DEF Links!LinksOf
  <2>2. CASE f.end # "from"
    <3>1. Links!LinksOf(o) = Links!Own(f).links
            /\ Links!LinksOf(f) = Links!Mirror(Links!Own(f).links)
      BY <1>1, <1>2, <1>4, <2>2 DEF Links!LinksOf
    <3>2. Links!Mirror(Links!Mirror(Links!Own(f).links)) = Links!Own(f).links
      BY <1>5, MirrorTwice
    <3> QED BY <3>1, <3>2
  <2> QED BY <2>1, <2>2
<1> QED BY <1>3, <1>6, <1>7, <1>8 DEF o

\* The snapshot holds both fields of a relation between two of its tables.
LEMMA BothHeld ==
  ASSUME Links!RestoreConstants, BaseInv, NEW f \in ToSet(base.order)
  PROVE  /\ f \in Links!Ends
         /\ Other(f) \in ToSet(base.order) <=>
              Links!Related(f) \in Links!Tables /\ Links!TableOf(f) # Links!Related(f)
<1>1. f \in Links!Ends /\ Other(f) \in Links!Ends /\ f \in Links!Held(base.rels)
  BY OtherIs DEF BaseInv, Links!Held
<1>2. f.end \in {"from", "to"} /\ Links!Own(f) \in Links!Possible
  BY <1>1, FieldIs
<1>3. Links!Own(f).from \in {"t1", "t2"} /\ Links!Own(f).to \in {"t1", "t2", "elsewhere"}
  BY <1>2 DEF Links!Possible, Links!Tables, Links!Elsewhere
<1>4. Other(f).rel = f.rel /\ Other(f).end = (IF f.end = "from" THEN "to" ELSE "from")
  BY DEF Other, Links!Field
<1>5. Other(f) \in Links!Held(base.rels) <=>
        Other(f).end = "from" \/ Links!Own(f).to \notin {Links!Own(f).from, "elsewhere"}
  BY <1>1, <1>4 DEF Links!Held, Links!Own, Links!Elsewhere
<1>6. f.end = "from" \/ Links!Own(f).to \notin {Links!Own(f).from, "elsewhere"}
  BY <1>1 DEF Links!Held, Links!Own, Links!Elsewhere
<1>7. CASE f.end = "from"
  BY <1>1, <1>3, <1>4, <1>5, <1>7 DEF BaseInv, Links!TableOf, Links!Related, Links!Tables
<1>8. CASE f.end = "to"
  BY <1>1, <1>3, <1>4, <1>5, <1>6, <1>8
     DEF BaseInv, Links!TableOf, Links!Related, Links!Tables
<1> QED BY <1>1, <1>2, <1>7, <1>8

-----------------------------------------------------------------------------
(* Pairing *)

\* A field that has candidates is paired with one that none beats.
LEMMA OtherSideIs ==
  ASSUME Links!RestoreConstants, BaseInv, NEW f \in Links!Ends, Links!Candidates(f) # {}
  PROVE  /\ Links!OtherSide(f) \in Links!Best(f)
              /\ Links!Best(f) \subseteq Links!Candidates(f)
         /\ Links!Candidates(f) \subseteq ToSet(base.order) \ (handled \cup unpaired)
         /\ IsFiniteSet(Links!Candidates(f)) /\ IsFiniteSet(Links!Best(f))
         /\ \A g \in Links!Candidates(f) : Links!Score(f, g) \in Nat
              /\ Links!Score(f, g) <= Cardinality(Links!LinksOf(f))
<1>1. Links!Candidates(f) \subseteq ToSet(base.order) \ (handled \cup unpaired)
  BY SameOperators DEF Links!Candidates
<1>2. Links!Best(f) \subseteq Links!Candidates(f)
  BY DEF Links!Best
<1>3. IsFiniteSet(ToSet(base.order))
  <2> DEFINE s == base.order
             n == Len(s)
  <2>1. n \in Nat /\ s \in [1..n -> ToSet(s)] /\ IsFiniteSet(1..n)
    BY FS_Interval DEF BaseInv, ToSet
  <2>2. s \in Surjection(1..n, ToSet(s))
    <3>1. \A x \in ToSet(s) : \E i \in 1..n : s[i] = x
      BY DEF BaseInv, ToSet
    <3> HIDE DEF s, n
    <3> QED BY <2>1, <3>1 DEF Surjection
  <2> HIDE DEF s, n
  <2>3. IsFiniteSet(ToSet(s))
    BY <2>1, <2>2, FS_Surjection
  <2> QED BY <2>3 DEF s
<1>4. IsFiniteSet(Links!Candidates(f)) /\ IsFiniteSet(Links!Best(f))
  BY <1>1, <1>2, <1>3, FS_Subset
<1>5. ASSUME NEW g PROVE Links!Score(f, g) \in Nat
               /\ Links!Score(f, g) <= Cardinality(Links!LinksOf(f))
  <2> DEFINE S == Links!LinksOf(f) \cap Links!Mirror(Links!LinksOf(g))
  <2>1. IsFiniteSet(Links!LinksOf(f)) /\ S \subseteq Links!LinksOf(f)
    BY FieldIs
  <2>2. Cardinality(S) \in Nat /\ Cardinality(S) <= Cardinality(Links!LinksOf(f))
    BY <2>1, FS_Subset, FS_CardinalityType
  <2> QED BY <2>2, SameOperators DEF Links!Score
<1>6. Cardinality(Links!LinksOf(f)) \in Nat
  BY FieldIs, FS_CardinalityType
<1>7. Links!Best(f) # {}
  <2> DEFINE m == Cardinality(Links!LinksOf(f))
             T == {m - Links!Score(f, g) : g \in Links!Candidates(f)}
  <2>1. T \subseteq Nat /\ T # {}
    BY <1>5, <1>6
  <2>2. PICK x \in T : \A y \in T : x <= y
    <3> HIDE DEF T
    <3> QED BY <2>1, Smallest
  <2>3. PICK g \in Links!Candidates(f) : x = m - Links!Score(f, g)
    OBVIOUS
  <2>4. ASSUME NEW h \in Links!Candidates(f) PROVE Links!Score(f, g) >= Links!Score(f, h)
    <3>1. m - Links!Score(f, g) <= m - Links!Score(f, h)
      BY <2>2, <2>3
    <3>2. m \in Nat /\ Links!Score(f, g) \in Nat /\ Links!Score(f, h) \in Nat
      BY <1>5, <1>6
    <3> HIDE DEF m
    <3> QED BY <3>1, <3>2
  <2> QED BY <2>4 DEF Links!Best
<1>8. Links!First(Links!Best(f)) \in Links!Best(f)
  <2> DEFINE T == {Links!Place(g) : g \in Links!Best(f)}
  <2>1. ASSUME NEW g \in Links!Best(f) PROVE Links!Place(g) \in Nat
    <3>1. \E i \in DOMAIN base.order : base.order[i] = g
      BY <1>1, <1>2 DEF ToSet
    <3>2. Links!Place(g) \in DOMAIN base.order
      BY <3>1 DEF Links!Place
    <3> QED BY <3>2 DEF BaseInv
  <2>2. T \subseteq Nat /\ T # {}
    BY <1>7, <2>1
  <2>3. PICK x \in T : \A y \in T : x <= y
    <3> HIDE DEF T
    <3> QED BY <2>2, Smallest
  <2>4. PICK g \in Links!Best(f) : x = Links!Place(g)
    OBVIOUS
  <2>5. \A h \in Links!Best(f) : Links!Place(g) <= Links!Place(h)
    BY <2>3, <2>4
  <2> QED BY <2>5 DEF Links!First
<1>9. Links!OtherSide(f) = Links!First(Links!Best(f))
  BY DEF Links!OtherSide
<1> QED BY <1>1, <1>2, <1>4, <1>5, <1>8, <1>9

\* The field whose relation it is has the best score; another is taken only
\* where it does as well, or where there is nothing to go by.
LEMMA OtherOrDoubt ==
  ASSUME Links!RestoreConstants, BaseInv, NEW f \in ToSet(base.order),
           unpaired \subseteq handled,
         Other(f) \in ToSet(base.order) \ handled
  PROVE  Links!OtherSide(f) = Other(f) \/ Links!Guess(f) \/ Links!Tie(f)
<1> DEFINE o == Other(f)
           g == Links!OtherSide(f)
<1>1. f \in Links!Ends /\ Links!Related(f) \in Links!Tables
        /\ Links!TableOf(f) # Links!Related(f)
  BY BothHeld
<1>2. /\ Links!TypeOf(o) = Links!Mirrored(Links!TypeOf(f))
           /\ Links!LinksOf(o) = Links!Mirror(Links!LinksOf(f))
      /\ Links!TableOf(o) = Links!Related(f) /\ Links!Related(o) = Links!TableOf(f)
  BY <1>1, OtherIs
<1>3. o \in Links!Candidates(f)
  BY <1>1, <1>2, SameOperators DEF Links!Candidates
<1>4. /\ g \in Links!Best(f) /\ g \in Links!Candidates(f) /\ Links!Score(f, g) \in Nat
      /\ Links!Score(f, g) <= Cardinality(Links!LinksOf(f))
           /\ Cardinality(Links!LinksOf(f)) \in Nat
      /\ IsFiniteSet(Links!Candidates(f)) /\ IsFiniteSet(Links!Best(f))
           /\ Links!Best(f) \subseteq Links!Candidates(f)
      /\ \A h \in Links!Candidates(f) : Links!Score(f, h) \in Nat
           /\ Links!Score(f, h) <= Cardinality(Links!LinksOf(f))
  BY <1>1, <1>3, OtherSideIs, FieldIs, FS_CardinalityType
<1>5. Links!Score(f, o) = Cardinality(Links!LinksOf(f))
  <2>1. Links!LinksOf(f) \in SUBSET (Records \X Records)
    BY <1>1, FieldIs
  <2>2. Links!Mirror(Links!LinksOf(o)) = Links!LinksOf(f)
    BY <1>2, <2>1, MirrorTwice
  <2>3. Links!LinksOf(f) \cap Links!Mirror(Links!LinksOf(o)) = Links!LinksOf(f)
    BY <2>2
  <2> QED BY <2>3, SameOperators DEF Links!Score
<1>6. \A h \in Links!Candidates(f) : Links!Score(f, o) >= Links!Score(f, h)
  BY <1>4, <1>5
<1>7. o \in Links!Best(f)
  BY <1>3, <1>6 DEF Links!Best
<1> HIDE DEF o, g
<1>8. SUFFICES ASSUME g # o PROVE Links!Guess(f) \/ Links!Tie(f)
  BY DEF o, g
<1>9. Cardinality(Links!Best(f)) > 1 /\ Cardinality(Links!Candidates(f)) > 1
  <2>1. ASSUME NEW S, IsFiniteSet(S), g \in S, o \in S PROVE Cardinality(S) > 1
    <3>1. Cardinality({g, o}) = 2 /\ {g, o} \subseteq S
      <4>1. IsFiniteSet({g}) /\ Cardinality({g}) = 1
        BY FS_Singleton
      <4>2. Cardinality({g} \cup {o}) = IF o \in {g} THEN 1 ELSE 1 + 1
        BY <4>1, FS_AddElement
      <4>3. {g} \cup {o} = {g, o}
        OBVIOUS
      <4> QED BY <1>8, <2>1, <4>2, <4>3
    <3>2. Cardinality({g, o}) <= Cardinality(S) /\ Cardinality(S) \in Nat
      BY <2>1, <3>1, FS_Subset, FS_CardinalityType
    <3> QED BY <3>1, <3>2
  <2> QED BY <1>3, <1>4, <1>7, <2>1
<1>10. Links!Score(f, Links!OtherSide(f)) = 0 \/ Links!Score(f, Links!OtherSide(f)) > 0
  BY <1>4 DEF g
<1> QED BY <1>9, <1>10, SameOperators DEF Links!Guess, Links!Ambiguous, Links!Tie

-----------------------------------------------------------------------------
(* The invariant *)

\* Every field is dealt with or is still to come.
TodoInv ==
  /\ todo \in Seq(Links!Ends) /\ ToSet(todo) \subseteq ToSet(base.order)
  /\ handled \subseteq ToSet(base.order)
  /\ ToSet(base.order) \subseteq handled \cup ToSet(todo)
  /\ guessed \cup tied \subseteq ToSet(base.order)
  /\ step \in {"records", "links", "done"} => todo = <<>>

\* What is dealt with is a side, the inverse of one side, or skipped.
SplitInv ==
  /\ pair \in [Links!Ends -> Links!Ends \cup {Links!NoField}]
  /\ \A s \in Links!Ends \ sides : pair[s] = Links!NoField
  /\ sides \cup Links!Inverses \cup unpaired = handled
  /\ sides \cap Links!Inverses = {}
  /\ sides \cap unpaired = {}
  /\ Links!Inverses \cap unpaired = {}
  /\ \A s, u \in sides : pair[s] = pair[u] /\ pair[s] # Links!NoField => s = u

\* A field whose relation has another field left, and a pair of fields of
\* different relations, are in doubt.
DoubtInv ==
  /\ \A h \in handled :
       Other(h) \in ToSet(base.order) \ handled => Links!Doubt(h, guessed \cup tied)
  /\ \A s \in sides :
       pair[s] # Links!NoField =>
         Links!LinksOf(pair[s]) = Links!Mirror(Links!LinksOf(s))
           \/ Links!Doubt(pair[s], guessed \cup tied)

\* At the end every link is there or was reported.
DataInv ==
  /\ kept \subseteq Links!Tables \X Records
  /\ linked \in [Links!Ends -> SUBSET (Records \X Records)]
  /\ failed \in [Links!Ends -> SUBSET (Records \X Records)]
  /\ refused \in 0..MaxRefused
  /\ step \in {"relations", "records", "links", "done", "aborted"}
  /\ step = "done" => \A s \in sides : linked[s] \cup failed[s] = Links!LinksOf(s)

LinksInv == BaseInv /\ TodoInv /\ SplitInv /\ DoubtInv /\ DataInv

LEMMA LinksInit == ASSUME Links!RestoreConstants PROVE Links!Init => LinksInv
<1> SUFFICES ASSUME Links!Init PROVE LinksInv
  OBVIOUS
<1>1. BaseInv
  <2>1. PICK rels \in [Relations -> Links!Possible] :
          \E order \in Links!Orders(rels) : base = [rels |-> rels, order |-> order]
    BY DEF Links!Init
  <2> QED BY <2>1, BaseInit
<1>2. /\ todo = base.order /\ handled = {} /\ sides = {} /\ unpaired = {}
      /\ guessed = {} /\ tied = {} /\ pair = [f \in Links!Ends |-> Links!NoField]
      /\ kept = {} /\ linked = [f \in Links!Ends |-> {}]
           /\ failed = [f \in Links!Ends |-> {}]
      /\ refused = 0 /\ step = "relations"
  BY DEF Links!Init
<1>3. TodoInv
  BY <1>1, <1>2 DEF BaseInv, TodoInv
<1>4. SplitInv
  BY <1>2 DEF SplitInv, Links!Inverses
<1>5. DoubtInv
  BY <1>2 DEF DoubtInv
<1>6. DataInv
  BY <1>2 DEF DataInv, Links!RestoreConstants
<1> QED BY <1>1, <1>3, <1>4, <1>5, <1>6 DEF LinksInv

LEMMA BaseStays == ASSUME BaseInv, base' = base PROVE BaseInv'
BY DEF BaseInv, Links!Held, Links!Ends, Links!Field, Distinct

LEMMA DoubtStays ==
  ASSUME base' = base, guessed \subseteq guessed', tied \subseteq tied',
         NEW h, Links!Doubt(h, guessed \cup tied)
  PROVE  Links!Doubt(h, guessed \cup tied)'
BY DEF Links!Doubt, Links!TableOf, Links!Related, Links!Own

LEMMA DoubtNext ==
  ASSUME base' = base, NEW h
  PROVE  Links!Doubt(h, guessed \cup tied)' <=> Links!Doubt(h, guessed' \cup tied')
BY DEF Links!Doubt, Links!TableOf, Links!Related, Links!Own

\* Two fields of the same two tables are in doubt together.
LEMMA DoubtShared ==
  ASSUME NEW f, NEW g, Links!TableOf(g) = Links!Related(f),
           Links!Related(g) = Links!TableOf(f), NEW S
  PROVE  Links!Doubt(f, S) <=> Links!Doubt(g, S)
<1>1. {Links!TableOf(f), Links!Related(f)} = {Links!TableOf(g), Links!Related(g)}
  OBVIOUS
<1> QED BY <1>1 DEF Links!Doubt

\* The field that is taken and its other side are two that were left.
LEMMA TakenIs ==
  ASSUME Links!RestoreConstants, LinksInv, NEW f, Links!Takes(f)
  PROVE  /\ f \in ToSet(base.order) \ handled /\ f \in Links!Ends
         /\ {Links!SideOf(f), Links!OtherOf(f)} = {f, Links!OtherSide(f)}
         /\ Links!SideOf(f) \in ToSet(base.order) \ handled
              /\ Links!SideOf(f) \in Links!Ends
         /\ Links!OtherOf(f) # Links!NoField =>
              /\ Links!OtherOf(f) \in ToSet(base.order) \ handled
                                    /\ Links!OtherOf(f) \in Links!Ends
         /\ Links!SideOf(f) # Links!OtherOf(f)
         /\ Links!OtherSide(f) # Links!NoField =>
              Links!TableOf(Links!OtherSide(f)) = Links!Related(f)
                                      /\ Links!Related(Links!OtherSide(f)) =
                                           Links!TableOf(f)
         /\ todo' \in Seq(Links!Ends) /\ ToSet(todo) = {f} \cup ToSet(todo')
<1>1. f = Head(todo) /\ todo # <<>> /\ f \notin handled /\ todo' = Tail(todo)
  BY DEF Links!Takes, Links!Pass
<1>2. /\ todo \in Seq(Links!Ends) /\ ToSet(todo) \subseteq ToSet(base.order)
      /\ unpaired \subseteq handled
  BY DEF LinksInv, TodoInv, SplitInv
<1>3. f \in Links!Ends /\ todo' \in Seq(Links!Ends) /\ ToSet(todo) = {f} \cup ToSet(todo')
  BY <1>1, <1>2, TakenOff
<1>4. f # Links!NoField
  BY <1>3, FieldIs DEF LinksInv
<1>5. CASE Links!Candidates(f) = {}
  <2>1. Links!OtherSide(f) = Links!NoField
    BY <1>5 DEF Links!OtherSide
  <2>2. Links!SideOf(f) = f /\ Links!OtherOf(f) = Links!NoField
    BY <2>1 DEF Links!SideOf, Links!OtherOf
  <2> QED BY <1>1, <1>2, <1>3, <1>4, <2>1, <2>2
<1>6. CASE Links!Candidates(f) # {}
  <2> DEFINE g == Links!OtherSide(f)
  <2>1. g \in Links!Candidates(f) /\ g \in ToSet(base.order) \ handled
    BY <1>3, <1>6, OtherSideIs DEF LinksInv
  <2>2. Links!TableOf(f) # Links!Related(f) /\ Links!TableOf(g) = Links!Related(f)
          /\ Links!Related(g) = Links!TableOf(f)
    BY <2>1 DEF Links!Candidates
  <2>3. g # f
    BY <2>2
  <2>4. g \in Links!Ends
    BY <2>1, BothHeld DEF LinksInv
  <2>5. (Links!SideOf(f) = f /\ Links!OtherOf(f) = g)
          \/ (Links!SideOf(f) = g /\ Links!OtherOf(f) = f)
    BY <2>3 DEF Links!SideOf, Links!OtherOf
  <2> HIDE DEF g
  <2>6. {Links!SideOf(f), Links!OtherOf(f)} = {f, g}
    BY <2>5
  <2>7. f \in ToSet(base.order) \ handled
    BY <1>1, <1>2, <1>3
  <2> QED BY <1>3, <2>1, <2>2, <2>3, <2>4, <2>5, <2>6, <2>7 DEF g
<1> QED BY <1>5, <1>6

\* Taking it, with its other side, leaves no relation half done but those in
\* doubt.
LEMMA TakenDoubt ==
  ASSUME Links!RestoreConstants, LinksInv, NEW f, Links!Takes(f)
  PROVE  /\ \A h \in handled' :
              Other(h) \in ToSet(base.order) \ handled' =>
                Links!Doubt(h, guessed \cup tied)'
         /\ Links!OtherSide(f) # Links!NoField =>
              Links!OtherSide(f) = Other(f) \/ Links!Doubt(f, guessed \cup tied)'
<1> DEFINE O == ToSet(base.order)
           g == Links!OtherSide(f)
<1>1. /\ f \in O \ handled /\ f \in Links!Ends
      /\ handled' = handled \cup ({f, g} \ {Links!NoField})
      /\ g # Links!NoField => g \in O \ handled /\ g \in Links!Ends
                        /\ Links!TableOf(g) = Links!Related(f)
                             /\ Links!Related(g) = Links!TableOf(f)
  <2>1. handled' = handled \cup ({Links!SideOf(f), Links!OtherOf(f)} \ {Links!NoField})
    BY DEF Links!Takes, Links!Both
  <2>2. /\ f \in O \ handled /\ f \in Links!Ends /\ f # Links!NoField
        /\ {Links!SideOf(f), Links!OtherOf(f)} = {f, g}
             /\ Links!SideOf(f) # Links!OtherOf(f)
        /\ Links!SideOf(f) \in O \ handled /\ Links!SideOf(f) \in Links!Ends
        /\ Links!OtherOf(f) # Links!NoField =>
             Links!OtherOf(f) \in O \ handled /\ Links!OtherOf(f) \in Links!Ends
        /\ g # Links!NoField =>
             Links!TableOf(g) = Links!Related(f) /\ Links!Related(g) = Links!TableOf(f)
    BY TakenIs, FieldIs DEF LinksInv
  <2> HIDE DEF O, g
  <2> QED BY <2>1, <2>2
<1>2. /\ base' = base /\ guessed \subseteq guessed' /\ tied \subseteq tied'
      /\ Links!Guess(f) => f \in guessed'
      /\ Links!Tie(f) => f \in tied'
  BY DEF Links!Takes
<1>3. /\ BaseInv /\ unpaired \subseteq handled
      /\ \A h \in handled : Other(h) \in O \ handled => Links!Doubt(h, guessed \cup tied)
  BY DEF LinksInv, SplitInv, DoubtInv
<1> HIDE DEF O, g
<1>4. Links!Guess(f) \/ Links!Tie(f) => Links!Doubt(f, guessed \cup tied)'
  <2>1. Links!Guess(f) \/ Links!Tie(f) => Links!Doubt(f, guessed' \cup tied')
    BY <1>2 DEF Links!Doubt
  <2> QED BY <1>2, <2>1, DoubtNext
<1>5. Other(f) \in O \ handled => g = Other(f) \/ Links!Doubt(f, guessed \cup tied)'
  BY <1>1, <1>3, <1>4, OtherOrDoubt DEF O, g
<1>6. Other(f) \in handled => Links!Doubt(f, guessed \cup tied)'
  <2> HAVE Other(f) \in handled
  <2>1. Other(Other(f)) = f
    BY <1>1, <1>3, OtherIs
  <2>2. Links!Doubt(Other(f), guessed \cup tied)
    BY <1>1, <1>3, <2>1
  <2>3. Links!TableOf(Other(f)) = Links!Related(f)
          /\ Links!Related(Other(f)) = Links!TableOf(f)
    BY <1>1, <1>3, OtherIs
  <2>4. Links!Doubt(f, guessed \cup tied)
    BY <2>2, <2>3, DoubtShared
  <2> QED BY <1>2, <2>4, DoubtStays
<1>7. g # Links!NoField => Other(f) \in O
  <2> HAVE g # Links!NoField
  <2>1. Links!Related(f) \in Links!Tables
    BY DEF Links!Takes
  <2>2. Links!TableOf(f) # Links!Related(f)
    <3>1. Links!Candidates(f) # {}
      BY DEF Links!OtherSide, g
    <3> QED BY <3>1 DEF Links!Candidates
  <2> QED BY <1>1, <1>3, <2>1, <2>2, BothHeld DEF O
<1>8. g # Links!NoField => g = Other(f) \/ Links!Doubt(f, guessed \cup tied)'
  BY <1>5, <1>6, <1>7
<1>9. ASSUME NEW h \in handled', Other(h) \in O \ handled'
               PROVE Links!Doubt(h, guessed \cup tied)'
  <2>1. CASE h \in handled
    <3>1. Links!Doubt(h, guessed \cup tied)
      BY <1>1, <1>3, <1>9, <2>1
    <3> QED BY <1>2, <3>1, DoubtStays
  <2>2. CASE h = f
    <3>1. Other(f) \in O \ handled /\ (g # Other(f) \/ g = Links!NoField)
      BY <1>1, <1>9, <2>2
    <3>2. Other(f) # Links!NoField
      BY <1>1, <1>3, OtherIs, FieldIs
    <3> QED BY <1>1, <1>5, <1>9, <2>2, <3>1, <3>2
  <2>3. CASE h = g /\ g # Links!NoField
    <3>1. Other(g) # f
      BY <1>1, <1>9, <2>3, FieldIs, <1>3
    <3>2. g # Other(f)
      BY <1>1, <1>3, <3>1, OtherIs
    <3>3. Links!Doubt(f, guessed \cup tied)'
      BY <1>8, <2>3, <3>2
    <3>4. Links!Doubt(f, guessed' \cup tied')
      BY <1>2, <3>3, DoubtNext
    <3>5. Links!TableOf(h) = Links!Related(f) /\ Links!Related(h) = Links!TableOf(f)
      BY <1>1, <2>3
    <3>6. Links!Doubt(h, guessed' \cup tied')
      BY <3>4, <3>5, DoubtShared
    <3> QED BY <1>2, <3>6, DoubtNext
  <2> QED BY <1>1, <2>1, <2>2, <2>3
<1> QED BY <1>8, <1>9 DEF O, g

-----------------------------------------------------------------------------
(* The steps *)

\* What every step that takes a field has to show: where it and its other side
\* go, and that a new pair is of one relation or in doubt.
LEMMA TakenKeeps ==
  ASSUME Links!RestoreConstants, LinksInv, NEW f, Links!Takes(f),
           refused' \in 0..MaxRefused,
         \/ /\ sides' = sides \cup {Links!SideOf(f)}
            /\ pair' = [pair EXCEPT ![Links!SideOf(f)] = Links!OtherOf(f)]
            /\ unpaired' = unpaired
         \/ /\ sides' = sides /\ pair' = pair
            /\ unpaired' = unpaired \cup Links!Both(f)
         \/ /\ Links!OtherOf(f) # Links!NoField
            /\ sides' = sides \cup {Links!SideOf(f)} /\ pair' = pair
            /\ unpaired' = unpaired \cup {Links!OtherOf(f)}
  PROVE  LinksInv'
<1> DEFINE O == ToSet(base.order)
           s == Links!SideOf(f)
           o == Links!OtherOf(f)
           g == Links!OtherSide(f)
<1>1. /\ f \in O \ handled /\ f \in Links!Ends
      /\ {s, o} = {f, g}
      /\ s \in O \ handled /\ s \in Links!Ends
      /\ o # Links!NoField => o \in O \ handled /\ o \in Links!Ends
      /\ s # o
      /\ g # Links!NoField =>
           Links!TableOf(g) = Links!Related(f) /\ Links!Related(g) = Links!TableOf(f)
      /\ todo' \in Seq(Links!Ends) /\ ToSet(todo) = {f} \cup ToSet(todo')
  BY TakenIs
<1>2. /\ step = "relations" /\ base' = base
      /\ handled' = handled \cup ({s, o} \ {Links!NoField})
      /\ guessed' \subseteq guessed \cup {f} /\ tied' \subseteq tied \cup {f}
      /\ guessed \subseteq guessed' /\ tied \subseteq tied'
      /\ UNCHANGED <<kept, linked, failed, step>>
  BY DEF Links!Takes, Links!Both, Links!data
<1>3. s # Links!NoField /\ f # Links!NoField /\ Links!NoField \notin O
  <2>1. ASSUME NEW x \in O PROVE x \in Links!Ends
    BY BothHeld DEF LinksInv
  <2> QED BY <2>1, <1>1, FieldIs DEF LinksInv
<1>4. \/ /\ sides' = sides \cup {s}
         /\ pair' = [pair EXCEPT ![s] = o]
         /\ unpaired' = unpaired
      \/ /\ sides' = sides /\ pair' = pair
         /\ unpaired' = unpaired \cup ({s, o} \ {Links!NoField})
      \/ /\ o # Links!NoField
         /\ sides' = sides \cup {s} /\ pair' = pair
         /\ unpaired' = unpaired \cup {o}
  BY DEF Links!Both
<1>5. /\ \A h \in handled' :
           Other(h) \in O \ handled' => Links!Doubt(h, guessed \cup tied)'
      /\ g # Links!NoField => g = Other(f) \/ Links!Doubt(f, guessed \cup tied)'
  BY TakenDoubt
<1>6. BaseInv'
  BY <1>2, BaseStays DEF LinksInv
<1>7. O' = O
  BY <1>2
<1> HIDE DEF O, s, o, g
<1>8. TodoInv'
  BY <1>1, <1>2, <1>3, <1>7 DEF LinksInv, TodoInv, O
<1>9. SplitInv'
  <2>1. /\ pair \in [Links!Ends -> Links!Ends \cup {Links!NoField}]
        /\ \A x \in Links!Ends \ sides : pair[x] = Links!NoField
        /\ sides \cup Links!Inverses \cup unpaired = handled
        /\ sides \cap Links!Inverses = {} /\ sides \cap unpaired = {}
             /\ Links!Inverses \cap unpaired = {}
        /\ \A x, u \in sides : pair[x] = pair[u] /\ pair[x] # Links!NoField => x = u
    BY DEF LinksInv, SplitInv
  <2>2. s \notin sides /\ pair[s] = Links!NoField /\ s \notin Links!Inverses
    BY <1>1, <2>1
  <2>3. o # Links!NoField => o \notin sides /\ o \notin Links!Inverses /\ o \notin unpaired
    BY <1>1, <2>1
  <2>4. sides \subseteq Links!Ends
    <3>1. sides \subseteq O
      BY <2>1 DEF LinksInv, TodoInv, O
    <3> QED BY <3>1, BothHeld DEF LinksInv, O
  <2>5. CASE sides' = sides \cup {s} /\ pair' = [pair EXCEPT ![s] = o]
               /\ unpaired' = unpaired
    <3>1. /\ pair' \in [Links!Ends -> Links!Ends \cup {Links!NoField}]
          /\ pair'[s] = o /\ \A x \in Links!Ends \ {s} : pair'[x] = pair[x]
      BY <1>1, <2>1, <2>5
    <3>2. Links!Inverses' = Links!Inverses \cup ({o} \ {Links!NoField})
      BY <2>2, <2>4, <2>5, <3>1 DEF Links!Inverses
    <3>3. \A x, u \in sides' : pair'[x] = pair'[u] /\ pair'[x] # Links!NoField => x = u
      <4>1. \A x \in sides : pair[x] # Links!NoField => pair[x] # o
        BY <2>3 DEF Links!Inverses
      <4> QED BY <2>1, <2>2, <2>4, <2>5, <3>1, <4>1
    <3>4. sides' \cup Links!Inverses' \cup unpaired' = handled'
      BY <1>2, <1>3, <2>1, <2>5, <3>2
    <3>5. sides' \cap Links!Inverses' = {} /\ sides' \cap unpaired' = {}
            /\ Links!Inverses' \cap unpaired' = {}
      BY <1>1, <2>1, <2>2, <2>3, <2>5, <3>2
    <3> QED BY <2>1, <2>5, <3>1, <3>3, <3>4, <3>5 DEF SplitInv
  <2>6. CASE sides' = sides /\ pair' = pair
               /\ unpaired' = unpaired \cup ({s, o} \ {Links!NoField})
    <3>1. Links!Inverses' = Links!Inverses
      BY <2>6 DEF Links!Inverses
    <3>2. sides' \cup Links!Inverses' \cup unpaired' = handled'
      BY <1>2, <2>1, <2>6, <3>1
    <3>3. sides' \cap unpaired' = {} /\ Links!Inverses' \cap unpaired' = {}
      BY <2>1, <2>2, <2>3, <2>6, <3>1
    <3> QED BY <2>1, <2>6, <3>1, <3>2, <3>3 DEF SplitInv
  <2>7. CASE /\ o # Links!NoField
             /\ sides' = sides \cup {s} /\ pair' = pair /\ unpaired' = unpaired \cup {o}
    <3>1. Links!Inverses' = Links!Inverses
      BY <2>2, <2>7 DEF Links!Inverses
    <3>2. sides' \cup Links!Inverses' \cup unpaired' = handled'
      BY <1>2, <1>3, <2>1, <2>7, <3>1
    <3>3. sides' \cap Links!Inverses' = {} /\ sides' \cap unpaired' = {}
            /\ Links!Inverses' \cap unpaired' = {}
      BY <1>1, <2>1, <2>2, <2>3, <2>7, <3>1
    <3>4. \A x, u \in sides' : pair'[x] = pair'[u] /\ pair'[x] # Links!NoField => x = u
      BY <2>1, <2>2, <2>7
    <3> QED BY <2>1, <2>7, <3>1, <3>2, <3>3, <3>4 DEF SplitInv
  <2> QED BY <1>4, <2>5, <2>6, <2>7
<1>10. DoubtInv'
  <2>1. /\ sides \subseteq Links!Ends
             /\ pair \in [Links!Ends -> Links!Ends \cup {Links!NoField}]
        /\ \A x \in Links!Ends \ sides : pair[x] = Links!NoField
        /\ s \notin sides
    <3>1. sides \subseteq O /\ s \notin sides
      BY <1>1 DEF LinksInv, SplitInv, TodoInv, O
    <3> QED BY <3>1, BothHeld DEF LinksInv, SplitInv, O
  <2>2. ASSUME NEW x \in sides', pair'[x] # Links!NoField
        PROVE  Links!LinksOf(pair'[x]) = Links!Mirror(Links!LinksOf(x))
                 \/ Links!Doubt(pair'[x], guessed' \cup tied')
    <3>1. CASE x \in sides
      <4>1. pair'[x] = pair[x]
        BY <1>1, <1>4, <2>1, <3>1
      <4>2. Links!LinksOf(pair[x]) = Links!Mirror(Links!LinksOf(x))
              \/ Links!Doubt(pair[x], guessed \cup tied)
        BY <2>2, <3>1, <4>1 DEF LinksInv, DoubtInv
      <4>3. Links!Doubt(pair[x], guessed \cup tied) =>
              Links!Doubt(pair[x], guessed' \cup tied')
        BY <1>2 DEF Links!Doubt
      <4> QED BY <4>1, <4>2, <4>3
    <3>2. CASE x \notin sides
      <4>1. x = s /\ pair'[s] = o
        BY <1>1, <1>4, <2>1, <2>2, <3>2
      <4>2. o # Links!NoField /\ g # Links!NoField
        BY <1>1, <1>3, <2>2, <4>1
      <4>3. (s = f /\ o = g) \/ (s = g /\ o = f)
        BY <1>1
      <4>4. CASE g = Other(f)
        <5>1. o = Other(s) /\ s \in Links!Ends
          BY <1>1, <4>3, <4>4, OtherIs DEF LinksInv
        <5> QED BY <4>1, <5>1, OtherIs DEF LinksInv
      <4>5. CASE g # Other(f)
        <5>1. Links!Doubt(f, guessed' \cup tied')
          BY <1>2, <1>5, <4>2, <4>5, DoubtNext
        <5>2. Links!TableOf(g) = Links!Related(f) /\ Links!Related(g) = Links!TableOf(f)
          BY <1>1, <4>2
        <5>3. Links!Doubt(g, guessed' \cup tied')
          BY <5>1, <5>2, DoubtShared
        <5> QED BY <4>1, <4>3, <5>1, <5>3
      <4> QED BY <4>4, <4>5
    <3> QED BY <3>1, <3>2
  <2>3. ASSUME NEW x \in sides', pair'[x] # Links!NoField
        PROVE  (Links!LinksOf(pair[x]) = Links!Mirror(Links!LinksOf(x))
                 \/ Links!Doubt(pair[x], guessed \cup tied))'
    BY <1>2, <2>2, <2>3
       DEF Links!LinksOf, Links!Mirror, Links!Doubt, Links!TableOf, Links!Related, Links!Own
  <2> QED BY <1>5, <1>7, <2>3 DEF DoubtInv, O
<1>11. DataInv'
  BY <1>2 DEF LinksInv, DataInv
<1> QED BY <1>6, <1>8, <1>9, <1>10, <1>11 DEF LinksInv

LEMMA PairsStay ==
  ASSUME DoubtInv, UNCHANGED <<base, sides, pair, guessed, tied>>
  PROVE  (\A s \in sides :
            pair[s] # Links!NoField =>
              Links!LinksOf(pair[s]) = Links!Mirror(Links!LinksOf(s))
                \/ Links!Doubt(pair[s], guessed \cup tied))'
<1>1. ASSUME NEW s \in sides', (pair[s] # Links!NoField)'
      PROVE  (Links!LinksOf(pair[s]) = Links!Mirror(Links!LinksOf(s))
               \/ Links!Doubt(pair[s], guessed \cup tied))'
  <2>1. Links!LinksOf(pair[s]) = Links!Mirror(Links!LinksOf(s))
          \/ Links!Doubt(pair[s], guessed \cup tied)
    BY <1>1 DEF DoubtInv
  <2>2. Links!LinksOf(pair[s])' = Links!LinksOf(pair[s])
          /\ Links!LinksOf(s)' = Links!LinksOf(s)
    BY DEF Links!LinksOf, Links!Mirror, Links!Own
  <2>3. Links!Mirror(Links!LinksOf(s))' = Links!Mirror(Links!LinksOf(s))
    BY <2>2 DEF Links!Mirror
  <2>4. Links!Doubt(pair[s], guessed \cup tied) => Links!Doubt(pair[s], guessed \cup tied)'
    BY DEF Links!Doubt, Links!TableOf, Links!Related, Links!Own
  <2> QED BY <2>1, <2>2, <2>3, <2>4
<1> QED BY <1>1

LEMMA PassOverKeeps == ASSUME LinksInv, Links!PassOver PROVE LinksInv'
<1>1. /\ step = "relations" /\ todo # <<>> /\ todo' = Tail(todo)
      /\ Head(todo) \in handled
      /\ UNCHANGED <<base, handled, sides, pair, unpaired, guessed, tied, kept, linked,
                     failed, refused, step>>
  BY DEF Links!PassOver, Links!Pass, Links!data, LinksInv, SplitInv
<1>2. todo' \in Seq(Links!Ends) /\ ToSet(todo) = {Head(todo)} \cup ToSet(todo')
  BY <1>1, TakenOff DEF LinksInv, TodoInv
<1>3. TodoInv'
  BY <1>1, <1>2 DEF LinksInv, TodoInv
<1>4. SplitInv' /\ DataInv' /\ BaseInv'
  BY <1>1, BaseStays DEF LinksInv, SplitInv, Links!Inverses, DataInv
<1>5. DoubtInv'
  <2>1. ASSUME NEW h \in handled', (Other(h) \in ToSet(base.order) \ handled)'
        PROVE  Links!Doubt(h, guessed \cup tied)'
    BY <1>1, <2>1, DoubtStays DEF LinksInv, DoubtInv
  <2> QED BY <1>1, <2>1, PairsStay DEF LinksInv, DoubtInv
<1> QED BY <1>3, <1>4, <1>5 DEF LinksInv

LEMMA SkipKeeps == ASSUME Links!RestoreConstants, LinksInv, Links!SkipUnrelated
  PROVE LinksInv'
<1> DEFINE O == ToSet(base.order)
           f == Head(todo)
<1>1. /\ step = "relations" /\ todo # <<>> /\ todo' = Tail(todo)
      /\ f \notin handled /\ Links!Related(f) \notin Links!Tables
      /\ unpaired' = unpaired \cup {f} /\ handled' = handled \cup {f}
      /\ UNCHANGED <<base, sides, pair, guessed, tied, kept, linked, failed, refused, step>>
  BY DEF Links!SkipUnrelated, Links!Pass, Links!data
<1>2. todo' \in Seq(Links!Ends) /\ ToSet(todo) = {f} \cup ToSet(todo')
  BY <1>1, TakenOff DEF LinksInv, TodoInv
<1>3. f \in O
  BY <1>2 DEF LinksInv, TodoInv
<1>4. Other(f) \notin O
  BY <1>1, <1>3, BothHeld DEF LinksInv
<1> HIDE DEF f
<1>5. TodoInv'
  BY <1>1, <1>2, <1>3 DEF LinksInv, TodoInv
<1>6. Links!Inverses' = Links!Inverses
  BY <1>1 DEF Links!Inverses
<1>7. SplitInv'
  <2>1. f \notin sides /\ f \notin Links!Inverses
    BY <1>1 DEF LinksInv, SplitInv
  <2> QED BY <1>1, <1>6, <2>1 DEF LinksInv, SplitInv
<1>8. DataInv' /\ BaseInv'
  BY <1>1, BaseStays DEF LinksInv, DataInv
<1>9. ASSUME NEW h \in handled', (Other(h) \in O \ handled)'
      PROVE  Links!Doubt(h, guessed \cup tied)'
  <2>1. h \in handled
    BY <1>1, <1>4, <1>9
  <2>2. Links!Doubt(h, guessed \cup tied)
    BY <1>1, <1>9, <2>1 DEF LinksInv, DoubtInv
  <2> QED BY <1>1, <2>2, DoubtStays
<1>10. DoubtInv'
  BY <1>1, <1>9, PairsStay DEF LinksInv, DoubtInv
<1> QED BY <1>5, <1>7, <1>8, <1>10 DEF LinksInv

\* What is said of the fields, after a step that leaves them alone.
LEMMA FieldsStay ==
  ASSUME LinksInv, UNCHANGED <<base, todo, handled, sides, pair, unpaired, guessed, tied>>,
         step' \in {"records", "links", "done"} => todo = <<>>
  PROVE  BaseInv' /\ TodoInv' /\ SplitInv' /\ DoubtInv'
<1>1. BaseInv'
  BY BaseStays DEF LinksInv
<1>2. TodoInv' /\ SplitInv'
  BY DEF LinksInv, TodoInv, SplitInv, Links!Inverses
<1>3. DoubtInv'
  <2>1. ASSUME NEW h \in handled', (Other(h) \in ToSet(base.order) \ handled)'
        PROVE  Links!Doubt(h, guessed \cup tied)'
    BY <2>1, DoubtStays DEF LinksInv, DoubtInv
  <2> QED BY <2>1, PairsStay DEF LinksInv, DoubtInv
<1> QED BY <1>1, <1>2, <1>3

LEMMA WritesKeep ==
  ASSUME Links!RestoreConstants, LinksInv, Links!InsertRecords
           \/ \E s \in Links!Ends : Links!LinkRecords(s)
  PROVE  LinksInv'
<1> USE DEF Links!Refuse, LinksInv, DataInv, Links!RestoreConstants
<1>1. CASE Links!InsertRecords
  <2>1. /\ step = "records" /\ step' = "links"
        /\ UNCHANGED <<base, todo, handled, sides, pair, unpaired, guessed, tied, linked, failed>>
    BY <1>1 DEF Links!InsertRecords, Links!fields
  <2>2. kept' \subseteq Links!Tables \X Records /\ refused' \in 0..MaxRefused
    BY <1>1 DEF Links!InsertRecords
  <2>3. DataInv'
    BY <2>1, <2>2
  <2>4. todo = <<>>
    BY <2>1 DEF TodoInv
  <2> QED BY <2>1, <2>3, <2>4, FieldsStay
<1>2. ASSUME NEW s \in Links!Ends, Links!LinkRecords(s) PROVE LinksInv'
  <2>1. /\ step = "links"
        /\ UNCHANGED <<base, todo, handled, sides, pair, unpaired, guessed, tied, kept, step>>
    BY <1>2 DEF Links!LinkRecords, Links!fields
  <2>2. PICK n \in 0..(MaxRefused - refused) :
               \E bad \in Links!kSubset(n, Links!Writable(s)) :
          /\ linked' = [linked EXCEPT ![s] = Links!Writable(s) \ bad]
          /\ failed' = [failed EXCEPT ![s] = Links!LinksOf(s) \ (Links!Writable(s) \ bad)]
          /\ refused + n <= MaxRefused /\ refused' = refused + n
    BY <1>2 DEF Links!LinkRecords
  <2>3. Links!Writable(s) \subseteq Records \X Records
          /\ Links!LinksOf(s) \subseteq Records \X Records
    BY FieldIs DEF Links!Writable
  <2>4. refused' \in 0..MaxRefused
    BY <2>2
  <2>5. /\ linked' \in [Links!Ends -> SUBSET (Records \X Records)]
        /\ failed' \in [Links!Ends -> SUBSET (Records \X Records)]
    BY <2>2, <2>3
  <2>6. DataInv'
    BY <2>1, <2>4, <2>5
  <2>7. todo = <<>>
    BY <2>1 DEF TodoInv
  <2> QED BY <2>1, <2>6, <2>7, FieldsStay
<1> QED BY <1>1, <1>2

LEMMA LinksStep == ASSUME Links!RestoreConstants, LinksInv, [Links!Next]_(Links!vars)
  PROVE LinksInv'
<1>2. CASE Links!CreateRelation
  <2>1. PICK f \in ToSet(todo) :
          /\ Links!Takes(f)
          /\ sides' = sides \cup {Links!SideOf(f)}
          /\ pair' = [pair EXCEPT ![Links!SideOf(f)] = Links!OtherOf(f)]
          /\ unpaired' = unpaired /\ refused' = refused
    BY <1>2, SameOperators DEF Links!CreateRelation
  <2>2. refused' \in 0..MaxRefused
    BY <2>1 DEF LinksInv, DataInv
  <2> QED BY <2>1, <2>2, TakenKeeps
<1>3. CASE Links!RefuseRelation
  <2>1. PICK f \in ToSet(todo) :
          /\ Links!Takes(f) /\ Links!Refuse(1)
          /\ unpaired' = unpaired \cup Links!Both(f)
          /\ sides' = sides /\ pair' = pair
    BY <1>3, SameOperators DEF Links!RefuseRelation
  <2>2. refused' \in 0..MaxRefused
    BY <2>1 DEF LinksInv, DataInv, Links!Refuse, Links!RestoreConstants
  <2> QED BY <2>1, <2>2, TakenKeeps
<1>4. CASE Links!MissInverse
  <2>1. PICK f \in ToSet(todo) :
          /\ Links!Takes(f) /\ Links!Refuse(1)
          /\ Links!OtherOf(f) # Links!NoField
          /\ sides' = sides \cup {Links!SideOf(f)}
          /\ unpaired' = unpaired \cup {Links!OtherOf(f)}
          /\ pair' = pair
    BY <1>4, SameOperators DEF Links!MissInverse
  <2>2. refused' \in 0..MaxRefused
    BY <2>1 DEF LinksInv, DataInv, Links!Refuse, Links!RestoreConstants
  <2> QED BY <2>1, <2>2, TakenKeeps
<1>5. CASE Links!RelationsDone
  <2>1. /\ todo = <<>> /\ step' = "records"
        /\ UNCHANGED <<base, todo, handled, sides, pair, unpaired, guessed, tied, kept, linked,
                       failed, refused>>
    BY <1>5 DEF Links!RelationsDone, Links!fields, Links!data
  <2>2. DataInv'
    BY <2>1 DEF LinksInv, DataInv
  <2> QED BY <2>1, <2>2, FieldsStay DEF LinksInv
<1>6. CASE Links!LinksDone
  <2>1. /\ step = "links" /\ step' = "done"
        /\ \A s \in sides : linked[s] \cup failed[s] = Links!LinksOf(s)
        /\ UNCHANGED <<base, todo, handled, sides, pair, unpaired, guessed, tied, kept, linked,
                       failed, refused>>
    BY <1>6 DEF Links!LinksDone, Links!fields, Links!data
  <2>2. DataInv'
    BY <2>1 DEF LinksInv, DataInv, Links!LinksOf, Links!Mirror, Links!Own
  <2>3. todo = <<>>
    BY <2>1 DEF LinksInv, TodoInv
  <2> QED BY <2>1, <2>2, <2>3, FieldsStay DEF LinksInv
<1>7. CASE Links!Abort
  <2>1. /\ step' = "aborted"
        /\ UNCHANGED <<base, todo, handled, sides, pair, unpaired, guessed, tied, kept, linked,
                       failed, refused>>
    BY <1>7 DEF Links!Abort, Links!fields, Links!data
  <2>2. DataInv'
    BY <2>1 DEF LinksInv, DataInv
  <2> QED BY <2>1, <2>2, FieldsStay DEF LinksInv
<1>8. CASE UNCHANGED Links!vars
  <2>1. UNCHANGED <<base, todo, handled, sides, pair, unpaired, guessed, tied, kept, linked,
                    failed, refused, step>>
    BY <1>8 DEF Links!vars
  <2>2. DataInv'
    BY <2>1 DEF LinksInv, DataInv, Links!LinksOf, Links!Mirror, Links!Own
  <2>3. step' \in {"records", "links", "done"} => todo = <<>>
    BY <2>1 DEF LinksInv, TodoInv
  <2> QED BY <2>1, <2>2, <2>3, FieldsStay DEF LinksInv
<1> QED
  BY <1>2, <1>3, <1>4, <1>5, <1>6, <1>7, <1>8, PassOverKeeps, SkipKeeps, WritesKeep
     DEF Links!Next

\* The invariant of the relations and their links.
THEOREM LinksInductive == Links!Spec => []LinksInv
<1>1. LinksInv /\ [Links!Next]_(Links!vars) => LinksInv'
  BY LinksStep, RestoreBaseConstants
<1>2. Links!Init => LinksInv
  BY LinksInit, RestoreBaseConstants
<1> QED BY <1>1, <1>2, PTL DEF Links!Spec

\* What a field shows in the end, by the two sides of its relation.
LEMMA ShownIs ==
  ASSUME Links!RestoreConstants, LinksInv, step = "done",
           NEW f \in sides \cup Links!Inverses
  PROVE  \/ Links!Seen(f, linked) \cup Links!Seen(f, failed) = Links!LinksOf(f)
         \/ Links!Doubt(f, guessed \cup tied)
<1>1. CASE f \in sides
  BY <1>1 DEF LinksInv, DataInv, Links!Seen
<1>2. CASE f \notin sides
  <2> DEFINE s == Links!SideFor(f)
  <2>1. s \in sides /\ pair[s] = f /\ f # Links!NoField
    <3>1. f # Links!NoField /\ \E x \in sides : pair[x] = f
      BY <1>2 DEF Links!Inverses
    <3> QED BY <1>2, <3>1 DEF Links!SideFor
  <2> HIDE DEF s
  <2>2. linked[s] \cup failed[s] = Links!LinksOf(s)
    BY <2>1 DEF LinksInv, DataInv
  <2>3. Links!Mirror(linked[s]) \cup Links!Mirror(failed[s]) =
          Links!Mirror(Links!LinksOf(s))
    BY <2>2 DEF Links!Mirror
  <2>4. Links!LinksOf(f) = Links!Mirror(Links!LinksOf(s))
          \/ Links!Doubt(f, guessed \cup tied)
    BY <2>1 DEF LinksInv, DoubtInv
  <2> QED BY <1>2, <2>3, <2>4 DEF Links!Seen, s
<1> QED BY <1>1, <1>2

LEMMA LinksKept ==
  ASSUME Links!RestoreConstants, LinksInv
           PROVE Links!TypeOK /\ Links!FieldsAccounted /\ Links!LinksRestored
<1>1. Links!TypeOK
  <2>1. handled \cup sides \cup unpaired \cup guessed \cup tied \subseteq ToSet(base.order)
    BY DEF LinksInv, TodoInv, SplitInv
  <2> QED BY <2>1, SameOperators DEF LinksInv, TodoInv, SplitInv, DataInv, Links!TypeOK
<1>2. Links!FieldsAccounted
  <2>1. \A s \in sides : pair[s] \notin sides
    <3>1. Links!NoField \notin sides
      <4>1. sides \subseteq ToSet(base.order)
        BY DEF LinksInv, TodoInv, SplitInv
      <4>2. sides \subseteq Links!Ends
        BY <4>1, BothHeld DEF LinksInv
      <4> QED BY <4>2, FieldIs DEF LinksInv
    <3> QED BY <3>1 DEF LinksInv, SplitInv, Links!Inverses
  <2>2. step \notin {"relations", "aborted"} => handled = ToSet(base.order)
    BY NoElements DEF LinksInv, TodoInv, DataInv
  <2> QED BY <2>1, <2>2, SameOperators DEF LinksInv, SplitInv, Links!FieldsAccounted
<1>3. Links!LinksRestored
  BY ShownIs DEF Links!LinksRestored
<1> QED BY <1>1, <1>2, <1>3

\* However NocoDB refuses fields, records and links, a field of the snapshot is
\* restored once or reported, and a restored one shows the links it was captured
\* with, but for those reported or where the pairing is in doubt.
THEOREM LinksAreRestored == Links!Spec => [](Links!FieldsAccounted /\ Links!LinksRestored)
<1>1. LinksInv => Links!FieldsAccounted /\ Links!LinksRestored
  BY LinksKept, RestoreBaseConstants
<1> QED BY <1>1, LinksInductive, PTL

-----------------------------------------------------------------------------
(* Computed fields *)

\* Every field is created, waits in this pass or waits for the next, once.
PlaceInv ==
  /\ Distinct(queue) /\ Distinct(next)
  /\ ToSet(queue) \cap ToSet(next) = {}
  /\ created \cap (ToSet(queue) \cup ToSet(next)) = {}
  /\ created \cup ToSet(queue) \cup ToSet(next) = Fields

\* As long as a pass has created nothing, what it leaves could not be created.
PassInv ==
  /\ Len(queue) + Len(next) <= size
  /\ Len(queue) + Len(next) = size =>
       \A f \in ToSet(next) : ~(options[f].on \subseteq created)

ComputedInv ==
  /\ TypeOK /\ PlaceInv
  /\ phase = "creating" => PassInv
  /\ phase = "done" => skipped = Fields \ created

\* All fields wait at first.
LEMMA ComputedInit == Init => ComputedInv
<1> SUFFICES ASSUME Init PROVE ComputedInv
  OBVIOUS
<1>1. IsFiniteSet(Fields) /\ queue \in SetToSeqs(Fields)
  BY FieldConstants DEF Init
<1>3. queue \in Seq(Fields) /\ Distinct(queue) /\ ToSet(queue) = Fields
  BY <1>1, OrderedSet
<1>6. next = <<>> /\ size = Len(queue) /\ created = {} /\ skipped = {} /\ phase = "creating"
      /\ options \in [Fields -> Options]
  BY DEF Init
<1>7. TypeOK
  BY <1>3, <1>6, EmptySeq DEF TypeOK
<1>8. PlaceInv
  BY <1>3, <1>6, NoElements DEF PlaceInv
<1>9. PassInv
  BY <1>3, <1>6, NoElements DEF PassInv
<1> QED BY <1>6, <1>7, <1>8, <1>9 DEF ComputedInv

\* A field that was tried: it is created, or left for the next pass.
LEMMA TriedKeeps ==
  ASSUME ComputedInv, NEW f \in Fields, Wait(f) \/ CreateField(f)
  PROVE  ComputedInv' /\ [Promise!Next]_(Promise!vars)
<1>1. /\ TypeOK /\ PlaceInv /\ PassInv /\ phase = "creating" /\ queue # <<>>
           /\ f = Head(queue)
      /\ queue' = Tail(queue)
      /\ UNCHANGED <<options, size, skipped, phase>>
  BY DEF ComputedInv, Wait, CreateField, Tries
<1>2. \/ /\ ~(options[f].on \subseteq created)
         /\ next' = Append(next, f) /\ created' = created
      \/ /\ options[f].on \subseteq created
         /\ next' = next /\ created' = created \cup {f}
  BY <1>1 DEF Wait, CreateField, UnresolvedRefs, Accepts
<1>3. /\ queue \in Seq(Fields) /\ next \in Seq(Fields) /\ size \in Nat
      /\ Len(queue) \in Nat /\ Len(next) \in Nat /\ Distinct(queue) /\ Distinct(next)
  BY <1>1 DEF TypeOK, PlaceInv
<1>4. /\ f \in ToSet(queue) /\ f \notin ToSet(next) /\ f \notin created
      /\ queue' \in Seq(Fields) /\ Distinct(queue')
      /\ Len(queue') = Len(queue) - 1 /\ ToSet(queue') = ToSet(queue) \ {f}
  <2>1. /\ f \in ToSet(queue) /\ queue' \in Seq(Fields) /\ Distinct(queue')
        /\ Len(queue') = Len(queue) - 1 /\ ToSet(queue') = ToSet(queue) \ {f}
    BY <1>1, <1>3, TailIs
  <2> QED BY <1>1, <2>1 DEF PlaceInv
<1>5. CASE /\ ~(options[f].on \subseteq created)
           /\ next' = Append(next, f) /\ created' = created
  <2>1. /\ next' \in Seq(Fields) /\ Distinct(next')
        /\ Len(next') = Len(next) + 1 /\ ToSet(next') = ToSet(next) \cup {f}
    BY <1>3, <1>4, <1>5, AppendIs
  <2>2. TypeOK'
    BY <1>1, <1>4, <1>5, <2>1 DEF TypeOK
  <2>3. PlaceInv'
    BY <1>1, <1>4, <1>5, <2>1 DEF PlaceInv
  <2>4. Len(queue') + Len(next') = Len(queue) + Len(next)
    BY <1>3, <1>4, <2>1
  <2>5. PassInv'
    BY <1>1, <1>5, <2>1, <2>4 DEF PassInv
  <2> QED BY <1>1, <1>5, <2>2, <2>3, <2>5 DEF ComputedInv, Promise!vars
<1>6. CASE /\ options[f].on \subseteq created
           /\ next' = next /\ created' = created \cup {f}
  <2>1. TypeOK'
    BY <1>1, <1>3, <1>4, <1>6 DEF TypeOK
  <2>2. PlaceInv'
    BY <1>1, <1>4, <1>6 DEF PlaceInv
  <2>3. Len(queue') + Len(next') < size'
    BY <1>1, <1>3, <1>4, <1>6 DEF PassInv
  <2>4. Len(queue') \in Nat /\ Len(next') \in Nat /\ size' \in Nat
    BY <1>1, <1>3, <1>4, <1>6
  <2>5. PassInv'
    BY <2>3, <2>4 DEF PassInv
  <2>6. Promise!Create
    BY <1>1, <1>4, <1>6 DEF Promise!Create, Promise!Creatable
  <2> QED BY <1>1, <2>1, <2>2, <2>5, <2>6 DEF ComputedInv, Promise!Next
<1> QED BY <1>2, <1>5, <1>6

LEMMA NextPassKeeps ==
  ASSUME ComputedInv, NextPass
  PROVE  ComputedInv' /\ UNCHANGED Promise!vars
<1>1. /\ TypeOK /\ PlaceInv /\ phase = "creating" /\ queue = <<>>
      /\ queue' = next /\ next' = <<>> /\ size' = Len(next)
      /\ UNCHANGED <<options, created, skipped, phase>>
  BY DEF ComputedInv, NextPass
<1>2. next \in Seq(Fields) /\ Len(next) \in Nat
  BY <1>1 DEF TypeOK
<1>3. TypeOK'
  BY <1>1, <1>2, EmptySeq DEF TypeOK
<1>4. PlaceInv'
  BY <1>1, NoElements DEF PlaceInv
<1>5. PassInv'
  BY <1>1, <1>2, NoElements DEF PassInv
<1> QED BY <1>1, <1>3, <1>4, <1>5 DEF ComputedInv, Promise!vars

\* What is left when a pass has created nothing can never be created.
LEMMA FinishKeeps ==
  ASSUME ComputedInv, Finish
  PROVE  ComputedInv' /\ Promise!Stop
<1>1. /\ TypeOK /\ PlaceInv /\ PassInv /\ phase = "creating" /\ phase' = "done"
           /\ queue = <<>>
      /\ Len(next) = size /\ skipped' = {f \in Fields : \E i \in DOMAIN next : next[i] = f}
      /\ UNCHANGED <<options, queue, next, size, created>>
  BY DEF ComputedInv, Finish, Stalled
<1>2. ToSet(next) = Fields \ created
  BY <1>1, NoElements DEF PlaceInv
<1>3. skipped' = Fields \ created
  BY <1>1, <1>2 DEF ToSet
<1>4. Len(queue) + Len(next) = size
  BY <1>1, NoElements DEF TypeOK
<1>5. \A f \in Fields \ created : ~(options[f].on \subseteq created)
  BY <1>1, <1>2, <1>4 DEF PassInv
<1>6. TypeOK' /\ PlaceInv'
  BY <1>1, <1>3 DEF TypeOK, PlaceInv
<1> QED
  BY <1>1, <1>3, <1>5, <1>6
     DEF ComputedInv, Promise!Stop, Promise!Stuck, Promise!Creatable

LEMMA ComputedStep ==
  ComputedInv /\ [Next]_vars => ComputedInv' /\ [Promise!Next]_(Promise!vars)
<1> SUFFICES ASSUME ComputedInv, [Next]_vars
             PROVE  ComputedInv' /\ [Promise!Next]_(Promise!vars)
  OBVIOUS
<1>1. CASE Abort
  <2>1. /\ phase = "creating" /\ phase' = "aborted"
        /\ UNCHANGED <<options, queue, next, size, created, skipped>>
    BY <1>1 DEF Abort
  <2>2. TypeOK' /\ PlaceInv'
    BY <2>1 DEF ComputedInv, TypeOK, PlaceInv
  <2> QED BY <2>1, <2>2 DEF ComputedInv, Promise!Next, Promise!Abort
<1>2. CASE UNCHANGED vars
  BY <1>2 DEF vars, ComputedInv, TypeOK, PlaceInv, PassInv, Promise!vars
<1>3. CASE NextPass
  BY <1>3, NextPassKeeps
<1>4. CASE Finish
  BY <1>4, FinishKeeps DEF Promise!Next
<1> QED BY <1>1, <1>2, <1>3, <1>4, TriedKeeps DEF Next

\* The invariant of the computed fields.
THEOREM ComputedInductive == Spec => []ComputedInv
BY ComputedInit, ComputedStep, PTL DEF Spec

\* Whatever order the snapshot lists them in, a field is created after all that
\* it names, and the passes end only when no field that is left could be
\* created: the restore of computed fields implements FieldClosure.
THEOREM AllThatCanIsCreated == Spec => CreatesAllItCan
<1>1. Init => Promise!Init
  BY DEF Init, Promise!Init, Options
<1> QED BY <1>1, ComputedStep, ComputedInductive, PTL
      DEF Spec, CreatesAllItCan, Promise!Spec

\* Every field is created or given up, once.
THEOREM FieldsTriedOnce == Spec => []EachFieldOnce
<1>1. ComputedInv => EachFieldOnce
  BY DEF ComputedInv, EachFieldOnce, PlaceInv, Distinct
<1> QED BY <1>1, ComputedInductive, PTL

-----------------------------------------------------------------------------
(* The new Base *)

\* The parts share no state: what a restore of a Base does, each part does.
THEOREM RestoreApart == RestoreBaseSpec => Spec /\ Links!Spec
<1>1. RestoreBaseInit => Init /\ Links!Init
  BY DEF RestoreBaseInit
<1>2. [RestoreBaseNext]_allVars => [Next]_vars
  BY DEF RestoreBaseNext, allVars
<1>3. [RestoreBaseNext]_allVars => [Links!Next]_(Links!vars)
  BY DEF RestoreBaseNext, allVars, linkVars, Links!vars
<1> QED BY <1>1, <1>2, <1>3, PTL DEF RestoreBaseSpec, Spec, Links!Spec

\* Every variable of both parts has its type, for any snapshot.
THEOREM RestoreTypes == RestoreBaseSpec => []TypesOK
<1>1. ComputedInv /\ LinksInv => TypesOK
  BY LinksKept, RestoreBaseConstants DEF ComputedInv, TypesOK
<1> QED BY <1>1, ComputedInductive, LinksInductive, RestoreApart, PTL

\* A restore brings back what was captured, or says what it did not, and it
\* creates every computed field that can be created.
THEOREM BaseIsRestored == RestoreBaseSpec => []RestoredAsCaptured /\ CreatesAllItCan
<1>1. EachFieldOnce /\ Links!FieldsAccounted /\ Links!LinksRestored => RestoredAsCaptured
  BY DEF RestoredAsCaptured
<1> QED
  BY <1>1, FieldsTriedOnce, LinksAreRestored, AllThatCanIsCreated, RestoreApart, PTL
=============================================================================
