---------------------------- MODULE Lists_proofs ----------------------------
(* What the operators on lists return.  A recursive definition is a choice of *)
(* a function that satisfies its equation, so that one exists has to be shown *)
(* (PrimitiveRecursion); what it computes is then shown by induction over     *)
(* numbers, stated with sets, which the provers can instantiate.              *)
EXTENDS Lists, SequencesExt, FiniteSetTheorems, SequenceTheorems, WellFoundedInduction, TLAPS

\* A nonempty set of numbers has a least member.
LEMMA LeastNumber ==
  ASSUME NEW T, T \subseteq Nat, T # {}
  PROVE  \E x \in T : \A y \in T : ~(y < x)
<1>1. \E x \in T : \A y \in T : <<y, x>> \notin OpToRel(<, Nat)
  BY NatLessThanWellFounded, WFMin, Zenon
<1>2. QED
  BY <1>1 DEF OpToRel

\* Hence a set that holds 0, and n + 1 with n, holds every number.
LEMMA SetInduction ==
  ASSUME NEW T, 0 \in T, \A n \in Nat : n \in T => n + 1 \in T
  PROVE  \A n \in Nat : n \in T
<1>1. SUFFICES ASSUME Nat \ T # {} PROVE FALSE
  OBVIOUS
<1>2. PICK x \in Nat \ T : \A y \in Nat \ T : ~(y < x)
  BY <1>1, LeastNumber
<1>3. x - 1 \in Nat /\ x - 1 < x
  BY <1>2
<1>4. QED
  BY <1>2, <1>3

\* Appending adds the element, and keeps a sequence injective when it is new.
LEMMA AppendNew ==
  ASSUME NEW V, NEW l \in Seq(V), NEW x \in V
  PROVE  /\ Append(l, x) \in Seq(V) /\ ToSet(Append(l, x)) = ToSet(l) \cup {x}
         /\ IsInjective(l) /\ x \notin ToSet(l) => IsInjective(Append(l, x))
<1>1. /\ DOMAIN Append(l, x) = 1..(Len(l) + 1) /\ DOMAIN l = 1..Len(l)
      /\ Append(l, x) \in Seq(V)
      /\ \A i \in 1..(Len(l) + 1) : Append(l, x)[i] = IF i = Len(l) + 1 THEN x ELSE l[i]
  <2>1. Append(l, x) \in Seq(V) /\ Len(Append(l, x)) = Len(l) + 1
    OBVIOUS
  <2>2. \A s \in Seq(V) : DOMAIN s = 1..Len(s)
    OBVIOUS
  <2>3. \A i \in 1..(Len(l) + 1) : Append(l, x)[i] = IF i = Len(l) + 1 THEN x ELSE l[i]
    OBVIOUS
  <2>4. QED
    BY <2>1, <2>2, <2>3
<1>2. ToSet(Append(l, x)) = ToSet(l) \cup {x}
  BY <1>1 DEF ToSet
<1>3. IsInjective(l) /\ x \notin ToSet(l) => IsInjective(Append(l, x))
  BY <1>1 DEF IsInjective, ToSet
<1>4. QED
  BY <1>1, <1>2, <1>3

\* g is the recursive function that starts at v0 and steps with F, up to N.
Iterates(g, N, V, v0, F) ==
  /\ g \in [0..N -> V]
  /\ \A n \in 0..N : g[n] = IF n = 0 THEN v0 ELSE F[<<g[n - 1], n>>]

\* Such a function exists: what a recursive definition needs to mean anything.
LEMMA PrimitiveRecursion ==
  ASSUME NEW V, NEW v0 \in V, NEW F \in [V \X Nat -> V], NEW N \in Nat
  PROVE  \E g : Iterates(g, N, V, v0, F)
<1> DEFINE Upto(g, m) == \A n \in 0..m : g[n] = IF n = 0 THEN v0 ELSE F[<<g[n - 1], n>>]
           T == {m \in Nat : \E g \in [0..m -> V] : Upto(g, m)}
<1>1. 0 \in T
  <2>1. [n \in 0..0 |-> v0] \in [0..0 -> V] /\ Upto([n \in 0..0 |-> v0], 0)
    OBVIOUS
  <2>2. QED
    BY <2>1
<1>2. ASSUME NEW m \in Nat, m \in T PROVE m + 1 \in T
  <2>1. PICK g \in [0..m -> V] : Upto(g, m)
    BY <1>2
  <2> DEFINE h == [n \in 0..(m + 1) |-> IF n = m + 1 THEN F[<<g[m], m + 1>>] ELSE g[n]]
  <2>2. h \in [0..(m + 1) -> V]
    OBVIOUS
  <2>3. ASSUME NEW n \in 0..(m + 1) PROVE h[n] = IF n = 0 THEN v0 ELSE F[<<h[n - 1], n>>]
    <3>1. CASE n = m + 1
      <4>1. h[n] = F[<<g[m], m + 1>>] /\ h[n - 1] = g[m] /\ n # 0
        BY <3>1
      <4>2. QED
        BY <3>1, <4>1
    <3>2. CASE n \in 0..m
      <4>1. h[n] = g[n] /\ (n # 0 => n - 1 \in 0..m /\ h[n - 1] = g[n - 1])
        BY <3>2
      <4>2. QED
        BY <3>2, <4>1, <2>1
    <3>3. QED
      BY <3>1, <3>2
  <2> HIDE DEF h
  <2>4. QED
    BY <2>2, <2>3
<1> HIDE DEF T
<1>3. \A m \in Nat : m \in T
  BY <1>1, <1>2, SetInduction
<1>4. QED
  BY <1>3 DEF T, Iterates

\* g is the loop of Excluding, element by element.
Retains(g, list, S) ==
  /\ g[0] = <<>>
  /\ \A n \in 1..Len(list) : g[n] = IF list[n] \in S THEN g[n - 1] ELSE Append(g[n - 1], list[n])

\* The loop has a result, which Excluding is.
LEMMA ExcludingIs ==
  ASSUME NEW V, NEW list \in Seq(V), NEW S
  PROVE  \E g : Retains(g, list, S) /\ Excluding(list, S) = g[Len(list)]
<1> DEFINE N == Len(list)
           Upto(g) == [n \in 0..N |->
                          IF n = 0 THEN <<>>
                          ELSE IF list[n] \in S THEN g[n - 1]
                          ELSE Append(g[n - 1], list[n])]
           kept == CHOOSE g : g = Upto(g)
<1>1. Excluding(list, S) = kept[N]
  BY DEF Excluding
<1>2. \E g : g = Upto(g)
  <2> DEFINE F == [p \in Seq(V) \X Nat |->
                     IF p[2] \in 1..N /\ list[p[2]] \notin S
                     THEN Append(p[1], list[p[2]]) ELSE p[1]]
  <2>1. F \in [Seq(V) \X Nat -> Seq(V)] /\ <<>> \in Seq(V) /\ N \in Nat
    OBVIOUS
  <2>2. \A l \in Seq(V), n \in 1..N :
            F[<<l, n>>] = IF list[n] \in S THEN l ELSE Append(l, list[n])
    OBVIOUS
  <2> HIDE DEF F
  <2>3. PICK g : Iterates(g, N, Seq(V), <<>>, F)
    BY <2>1, PrimitiveRecursion
  <2>4. ASSUME NEW n \in 0..N PROVE g[n] = Upto(g)[n]
    <3>1. CASE n = 0
      BY <2>3, <3>1 DEF Iterates
    <3>2. CASE n # 0
      <4>1. n \in 1..N /\ n - 1 \in 0..N /\ g[n - 1] \in Seq(V)
        BY <2>3, <3>2 DEF Iterates
      <4>2. QED
        BY <2>2, <2>3, <3>2, <4>1 DEF Iterates
    <3>3. QED
      BY <3>1, <3>2
  <2>5. g = Upto(g)
    BY <2>3, <2>4 DEF Iterates
  <2>6. QED
    BY <2>5
<1>3. kept = Upto(kept)
  BY <1>2
<1> HIDE DEF kept
<1>4. Retains(kept, list, S)
  <2>1. \A n \in 0..N : kept[n] = Upto(kept)[n]
    BY <1>3
  <2>2. QED
    BY <2>1 DEF Retains
<1>5. QED
  BY <1>1, <1>4

\* A set of lists that holds the empty one, and with a list every longer one by
\* an element, holds all.
LEMMA ListInduction ==
  ASSUME NEW V, NEW T, <<>> \in T, \A l \in Seq(V) : l \in T => \A x \in V : Append(l, x) \in T
  PROVE  \A l \in Seq(V) : l \in T
<1> DEFINE U == {n \in Nat : \A l \in Seq(V) : Len(l) = n => l \in T}
<1>1. 0 \in U
  <2>1. \A l \in Seq(V) : Len(l) = 0 => l = <<>>
    OBVIOUS
  <2>2. QED
    BY <2>1
<1>2. ASSUME NEW n \in Nat, n \in U PROVE n + 1 \in U
  <2>1. SUFFICES ASSUME NEW l \in Seq(V), Len(l) = n + 1 PROVE l \in T
    OBVIOUS
  <2>2. PICK k \in Seq(V), x \in V : l = Append(k, x) /\ Len(k) = n
    <3> DEFINE k == [i \in 1..n |-> l[i]]
    <3>1. k \in Seq(V) /\ Len(k) = n /\ l[n + 1] \in V
      BY <2>1
    <3>2. l = Append(k, l[n + 1])
      BY <2>1, <3>1
    <3>3. QED
      BY <3>1, <3>2
  <2>3. QED
    BY <1>2, <2>2
<1> HIDE DEF U
<1>3. \A n \in Nat : n \in U
  BY <1>1, <1>2, SetInduction
<1>4. \A l \in Seq(V) : Len(l) \in U
  BY <1>3
<1>5. QED
  BY <1>4 DEF U

\* Of nothing nothing is left.
LEMMA ExcludingNothing == ASSUME NEW S PROVE Excluding(<<>>, S) = <<>>
<1>1. <<>> \in Seq({}) /\ Len(<<>>) = 0
  OBVIOUS
<1>2. PICK g : Retains(g, <<>>, S) /\ Excluding(<<>>, S) = g[Len(<<>>)]
  BY <1>1, ExcludingIs, Zenon
<1>3. QED
  BY <1>1, <1>2 DEF Retains

\* What the loop does with the last element.
LEMMA ExcludingLast ==
  ASSUME NEW V, NEW l \in Seq(V), NEW x \in V, NEW S
  PROVE  Excluding(Append(l, x), S) = IF x \in S THEN Excluding(l, S) ELSE Append(Excluding(l, S), x)
<1> DEFINE n == Len(l)
<1>0. n \in Nat /\ Append(l, x) \in Seq(V) /\ Len(Append(l, x)) = n + 1 
  OBVIOUS
<1>2. PICK g : Retains(g, Append(l, x), S) /\ Excluding(Append(l, x), S) = g[n + 1]
  BY <1>0, ExcludingIs
<1>3. PICK h : Retains(h, l, S) /\ Excluding(l, S) = h[n]
  BY ExcludingIs
<1>4. /\ Append(l, x)[n + 1] = x
      /\ \A i \in 1..n : Append(l, x)[i] = l[i]
  OBVIOUS
<1> DEFINE T == {i \in Nat : i <= n => g[i] = h[i]}
<1> HIDE DEF n
<1>5. 0 \in T
  BY <1>2, <1>3 DEF Retains
<1>6. ASSUME NEW i \in Nat, i \in T PROVE i + 1 \in T
  <2>1. SUFFICES ASSUME i + 1 <= n PROVE g[i + 1] = h[i + 1]
    OBVIOUS
  <2>2. i + 1 \in 1..n /\ i + 1 \in 1..(n + 1) /\ (i + 1) - 1 = i /\ g[i] = h[i]
    BY <1>0, <1>6, <2>1
  <2>3. /\ g[i + 1] = IF Append(l, x)[i + 1] \in S THEN g[i] ELSE Append(g[i], Append(l, x)[i + 1])
        /\ h[i + 1] = IF l[i + 1] \in S THEN h[i] ELSE Append(h[i], l[i + 1])
    BY <1>0, <1>2, <1>3, <2>2 DEF Retains, n
  <2>4. QED
    BY <1>4, <2>2, <2>3
<1> HIDE DEF T
<1>7. \A i \in Nat : i \in T
  BY <1>5, <1>6, SetInduction
<1>8. g[n] = h[n]
  BY <1>0, <1>7 DEF T
<1>9. n + 1 \in 1..(n + 1) /\ (n + 1) - 1 = n
  BY <1>0
<1>10. g[n + 1] = IF Append(l, x)[n + 1] \in S THEN g[n] ELSE Append(g[n], Append(l, x)[n + 1])
  BY <1>0, <1>2, <1>9 DEF Retains
<1>11. QED
  BY <1>2, <1>3, <1>4, <1>8, <1>10

\* The loop of _cancel_speech_scope and _enlist_scoped_speech: what it retains
\* is the list without the set, each utterance once and in the list's order.
LEMMA ExcludingKeeps ==
  ASSUME NEW V, NEW list \in Seq(V), NEW S
  PROVE  /\ Excluding(list, S) \in Seq(V)
         /\ ToSet(Excluding(list, S)) = ToSet(list) \ S
         /\ IsInjective(list) => IsInjective(Excluding(list, S))
<1> DEFINE Good(l) == /\ Excluding(l, S) \in Seq(V) /\ ToSet(Excluding(l, S)) = ToSet(l) \ S
                      /\ IsInjective(l) => IsInjective(Excluding(l, S))
           T == {l \in Seq(V) : Good(l)}
<1>1. <<>> \in T
  <2>1. Excluding(<<>>, S) = <<>>
    BY ExcludingNothing
  <2>2. <<>> \in Seq(V) /\ DOMAIN <<>> = {}
    OBVIOUS
  <2>3. ToSet(<<>>) = {} /\ IsInjective(<<>>)
    BY <2>2 DEF IsInjective, ToSet
  <2>4. QED
    BY <2>1, <2>2, <2>3
<1>2. ASSUME NEW l \in Seq(V), l \in T, NEW x \in V PROVE Append(l, x) \in T
  <2> DEFINE e == Excluding(l, S)
             m == Append(l, x)
  <2>1. Excluding(m, S) = IF x \in S THEN e ELSE Append(e, x)
    BY ExcludingLast
  <2>2. e \in Seq(V) /\ ToSet(e) = ToSet(l) \ S /\ (IsInjective(l) => IsInjective(e))
    BY <1>2
  <2>3. m \in Seq(V) /\ ToSet(m) = ToSet(l) \cup {x}
    BY AppendNew
  <2>4. IsInjective(m) => IsInjective(l) /\ x \notin ToSet(l)
    <3>1. /\ Len(l) \in Nat /\ DOMAIN l = 1..Len(l) /\ DOMAIN m = 1..(Len(l) + 1)
          /\ m[Len(l) + 1] = x /\ \A i \in 1..Len(l) : m[i] = l[i]
      OBVIOUS
    <3> HIDE DEF m
    <3>2. QED
      BY <3>1 DEF IsInjective, ToSet
  <2>5. Append(e, x) \in Seq(V) /\ ToSet(Append(e, x)) = ToSet(e) \cup {x}
        /\ (IsInjective(e) /\ x \notin ToSet(e) => IsInjective(Append(e, x)))
    BY <2>2, AppendNew
  <2> HIDE DEF m, e
  <2>6. Good(m)
    <3>1. CASE x \in S
      BY <2>1, <2>2, <2>3, <2>4, <3>1
    <3>2. CASE x \notin S
      BY <2>1, <2>2, <2>3, <2>4, <2>5, <3>2
    <3>3. QED
      BY <3>1, <3>2
  <2>7. QED
    BY <2>3, <2>6 DEF m
<1> HIDE DEF T, Good
<1>3. list \in T
  BY <1>1, <1>2, ListInduction
<1>4. QED
  BY <1>3 DEF T, Good

\* An element at the end of the second list is at the end of both.
LEMMA ConcatLast ==
  ASSUME NEW V, NEW l \in Seq(V), NEW m \in Seq(V), NEW x \in V
  PROVE  l \o m \in Seq(V) /\ l \o <<>> = l /\ l \o Append(m, x) = Append(l \o m, x)
  OBVIOUS

\* The loop takes a list apart where one likes.
LEMMA ExcludingConcat ==
  ASSUME NEW V, NEW l \in Seq(V), NEW m \in Seq(V), NEW S
  PROVE  Excluding(l \o m, S) = Excluding(l, S) \o Excluding(m, S)
<1> DEFINE T == {k \in Seq(V) : Excluding(l \o k, S) = Excluding(l, S) \o Excluding(k, S)}
<1>0. Excluding(l, S) \in Seq(V)
  BY ExcludingKeeps
<1>1. <<>> \in T
  <2>1. Excluding(<<>>, S) = <<>> /\ l \o <<>> = l
    BY ExcludingNothing
  <2>2. QED
    BY <1>0, <2>1
<1>2. ASSUME NEW k \in Seq(V), k \in T, NEW x \in V PROVE Append(k, x) \in T
  <2> DEFINE a == Excluding(l, S)
             b == Excluding(k, S)
             c == l \o k
  <2>1. c \in Seq(V) /\ l \o Append(k, x) = Append(c, x) /\ Excluding(c, S) = a \o b
    BY <1>2, ConcatLast
  <2>2. b \in Seq(V) /\ a \in Seq(V)
    BY ExcludingKeeps
  <2>3. a \o Append(b, x) = Append(a \o b, x)
    BY <2>2, ConcatLast
  <2>4. Excluding(Append(k, x), S) = IF x \in S THEN b ELSE Append(b, x)
    BY ExcludingLast
  <2>5. Excluding(Append(c, x), S) = IF x \in S THEN a \o b ELSE Append(a \o b, x)
    <3>1. Excluding(Append(c, x), S) = IF x \in S THEN Excluding(c, S) ELSE Append(Excluding(c, S), x)
      BY <2>1, ExcludingLast, ZenonT(60)
    <3>2. QED
      BY <2>1, <3>1
  <2> HIDE DEF a, b, c
  <2>6. Excluding(l \o Append(k, x), S) = a \o Excluding(Append(k, x), S)
    BY <2>1, <2>3, <2>4, <2>5
  <2>7. QED
    BY <2>6 DEF a
<1> HIDE DEF T
<1>3. m \in T
  BY <1>1, <1>2, ListInduction
<1>4. QED
  BY <1>3 DEF T

\* Two loops do what one does.
LEMMA ExcludingTwice ==
  ASSUME NEW V, NEW l \in Seq(V), NEW S, NEW D
  PROVE  Excluding(Excluding(l, D), S) = Excluding(l, D \cup S)
<1> DEFINE T == {k \in Seq(V) : Excluding(Excluding(k, D), S) = Excluding(k, D \cup S)}
<1>1. <<>> \in T
  <2>1. Excluding(<<>>, D) = <<>> /\ Excluding(<<>>, S) = <<>> /\ Excluding(<<>>, D \cup S) = <<>>
    BY ExcludingNothing
  <2>2. QED
    BY <2>1
<1>2. ASSUME NEW k \in Seq(V), k \in T, NEW x \in V PROVE Append(k, x) \in T
  <2> DEFINE b == Excluding(k, D)
  <2>1. b \in Seq(V) /\ Append(k, x) \in Seq(V)
    BY ExcludingKeeps
  <2>2. Excluding(Append(k, x), D) = IF x \in D THEN b ELSE Append(b, x)
    BY ExcludingLast
  <2>3. Excluding(Append(b, x), S) = IF x \in S THEN Excluding(b, S) ELSE Append(Excluding(b, S), x)
    BY <2>1, ExcludingLast
  <2>4. Excluding(Append(k, x), D \cup S)
            = IF x \in D \cup S THEN Excluding(k, D \cup S) ELSE Append(Excluding(k, D \cup S), x)
    BY ExcludingLast
  <2>5. Excluding(b, S) = Excluding(k, D \cup S)
    BY <1>2
  <2> HIDE DEF b
  <2>6. QED
    BY <2>1, <2>2, <2>3, <2>4, <2>5
<1> HIDE DEF T
<1>3. l \in T
  BY <1>1, <1>2, ListInduction
<1>4. QED
  BY <1>3 DEF T

\* Only what is in the list can be taken out of it.
LEMMA ExcludingSame ==
  ASSUME NEW V, NEW l \in Seq(V), NEW S, NEW R, \A x \in ToSet(l) : x \in S <=> x \in R
  PROVE  Excluding(l, S) = Excluding(l, R)
<1> DEFINE T == {k \in Seq(V) : (\A x \in ToSet(k) : x \in S <=> x \in R) => Excluding(k, S) = Excluding(k, R)}
<1>1. <<>> \in T
  BY ExcludingNothing
<1>2. ASSUME NEW k \in Seq(V), k \in T, NEW x \in V PROVE Append(k, x) \in T
  <2>1. ToSet(Append(k, x)) = ToSet(k) \cup {x} /\ Append(k, x) \in Seq(V)
    BY AppendNew
  <2>2. SUFFICES ASSUME \A y \in ToSet(Append(k, x)) : y \in S <=> y \in R
                 PROVE  Excluding(Append(k, x), S) = Excluding(Append(k, x), R)
    BY <2>1
  <2>3. Excluding(k, S) = Excluding(k, R) /\ (x \in S <=> x \in R)
    BY <1>2, <2>1, <2>2
  <2>4. /\ Excluding(Append(k, x), S) = IF x \in S THEN Excluding(k, S) ELSE Append(Excluding(k, S), x)
        /\ Excluding(Append(k, x), R) = IF x \in R THEN Excluding(k, R) ELSE Append(Excluding(k, R), x)
    BY ExcludingLast
  <2>5. QED
    BY <2>3, <2>4
<1> HIDE DEF T
<1>3. l \in T
  BY <1>1, <1>2, ListInduction
<1>4. QED
  BY <1>3 DEF T

\* What taking the head leaves.
LEMMA TailInjective ==
  ASSUME NEW V, NEW l \in Seq(V), IsInjective(l), l # <<>>
  PROVE  /\ Head(l) \in ToSet(l) /\ Tail(l) \in Seq(V) /\ IsInjective(Tail(l))
         /\ ToSet(Tail(l)) = ToSet(l) \ {Head(l)}
<1>1. /\ Len(l) \in Nat \ {0} /\ DOMAIN l = 1..Len(l) /\ Head(l) = l[1]
      /\ Tail(l) \in Seq(V) /\ DOMAIN Tail(l) = 1..(Len(l) - 1)
      /\ \A i \in 1..(Len(l) - 1) : Tail(l)[i] = l[i + 1]
  <2>1. Tail(l) \in Seq(V) /\ Len(Tail(l)) = Len(l) - 1 /\ Len(l) \in Nat \ {0}
    OBVIOUS
  <2>2. \A s \in Seq(V) : DOMAIN s = 1..Len(s)
    OBVIOUS
  <2>3. Head(l) = l[1] /\ \A i \in 1..(Len(l) - 1) : Tail(l)[i] = l[i + 1]
    OBVIOUS
  <2>4. QED
    BY <2>1, <2>2, <2>3
<1>2. IsInjective(Tail(l))
  BY <1>1 DEF IsInjective
<1>3. Head(l) \in ToSet(l)
  BY <1>1 DEF ToSet
<1>4. \A y : y \in ToSet(Tail(l)) <=> y \in ToSet(l) /\ y # l[1]
  <2> TAKE y
  <2>1. ASSUME y \in ToSet(Tail(l)) PROVE y \in ToSet(l) /\ y # l[1]
    BY <1>1, <2>1 DEF ToSet, IsInjective
  <2>2. ASSUME y \in ToSet(l), y # l[1] PROVE y \in ToSet(Tail(l))
    <3>1. PICK k \in 1..Len(l) : y = l[k]
      BY <1>1, <2>2 DEF ToSet
    <3>2. k - 1 \in 1..(Len(l) - 1) /\ Tail(l)[k - 1] = y
      BY <1>1, <2>2, <3>1
    <3>3. QED
      BY <1>1, <3>2 DEF ToSet
  <2>3. QED
    BY <2>1, <2>2
<1>5. QED
  BY <1>1, <1>2, <1>3, <1>4

\* Two lists with nothing in common, one after the other.
LEMMA ConcatNew ==
  ASSUME NEW V, NEW l \in Seq(V), NEW m \in Seq(V)
  PROVE  /\ l \o m \in Seq(V) /\ ToSet(l \o m) = ToSet(l) \cup ToSet(m)
         /\ IsInjective(l) /\ IsInjective(m) /\ ToSet(l) \cap ToSet(m) = {} => IsInjective(l \o m)
<1> DEFINE both == l \o m
<1>1. /\ both \in Seq(V) /\ Len(both) = Len(l) + Len(m)
      /\ \A i \in 1..(Len(l) + Len(m)) : both[i] = IF i <= Len(l) THEN l[i] ELSE m[i - Len(l)]
  BY ConcatProperties
<1> HIDE DEF both
<1>2. /\ DOMAIN l = 1..Len(l) /\ DOMAIN m = 1..Len(m) /\ DOMAIN both = 1..(Len(l) + Len(m))
      /\ Len(l) \in Nat /\ Len(m) \in Nat
  BY <1>1
<1>3. ASSUME NEW i \in 1..Len(l) PROVE i \in DOMAIN both /\ both[i] = l[i]
  BY <1>1, <1>2
<1>4. ASSUME NEW i \in 1..Len(m) PROVE Len(l) + i \in DOMAIN both /\ both[Len(l) + i] = m[i]
  <2>1. Len(l) + i \in 1..(Len(l) + Len(m)) /\ ~(Len(l) + i <= Len(l)) /\ (Len(l) + i) - Len(l) = i
    BY <1>2
  <2>2. QED
    BY <1>1, <1>2, <2>1
<1>5. ASSUME NEW i \in DOMAIN both
      PROVE  \/ i \in 1..Len(l)
             \/ \E k \in 1..Len(m) : i = Len(l) + k
  <2>1. CASE i <= Len(l)
    BY <1>2, <2>1
  <2>2. CASE ~(i <= Len(l))
    <3>1. i - Len(l) \in 1..Len(m) /\ i = Len(l) + (i - Len(l))
      BY <1>2, <2>2
    <3>2. QED
      BY <3>1
  <2>3. QED
    BY <2>1, <2>2
<1>6. ToSet(both) = ToSet(l) \cup ToSet(m)
  <2>1. ASSUME NEW x \in ToSet(both) PROVE x \in ToSet(l) \cup ToSet(m)
    <3>1. PICK i \in DOMAIN both : x = both[i]
      BY DEF ToSet
    <3>2. QED
      BY <1>2, <1>3, <1>4, <1>5, <3>1 DEF ToSet
  <2>2. ASSUME NEW x \in ToSet(l) \cup ToSet(m) PROVE x \in ToSet(both)
    BY <1>2, <1>3, <1>4 DEF ToSet
  <2>3. QED
    BY <2>1, <2>2
<1>7. ASSUME IsInjective(l), IsInjective(m), ToSet(l) \cap ToSet(m) = {} PROVE IsInjective(both)
  <2> SUFFICES ASSUME NEW i \in DOMAIN both, NEW j \in DOMAIN both, both[i] = both[j] PROVE i = j
    BY DEF IsInjective
  <2>1. \A a \in 1..Len(l), b \in 1..Len(m) : l[a] # m[b]
    BY <1>2, <1>7 DEF ToSet
  <2>2. CASE i \in 1..Len(l) /\ j \in 1..Len(l)
    BY <1>2, <1>3, <1>7, <2>2 DEF IsInjective
  <2>3. CASE i \in 1..Len(l) /\ \E k \in 1..Len(m) : j = Len(l) + k
    BY <1>3, <1>4, <2>1, <2>3
  <2>4. CASE j \in 1..Len(l) /\ \E k \in 1..Len(m) : i = Len(l) + k
    BY <1>3, <1>4, <2>1, <2>4
  <2>5. CASE (\E k \in 1..Len(m) : i = Len(l) + k) /\ (\E k \in 1..Len(m) : j = Len(l) + k)
    <3>1. PICK a \in 1..Len(m) : i = Len(l) + a
      BY <2>5
    <3>2. PICK b \in 1..Len(m) : j = Len(l) + b
      BY <2>5
    <3>3. m[a] = m[b]
      BY <1>4, <3>1, <3>2
    <3>4. QED
      BY <1>2, <1>7, <3>1, <3>2, <3>3 DEF IsInjective
  <2>6. QED
    BY <1>5, <2>2, <2>3, <2>4, <2>5
<1>8. QED
  BY <1>1, <1>6, <1>7 DEF both

\* Two entries change places.
LEMMA SwapKeeps ==
  ASSUME NEW V, NEW l \in Seq(V), IsInjective(l), NEW i \in DOMAIN l, NEW j \in DOMAIN l
  PROVE  LET s == [l EXCEPT ![i] = l[j], ![j] = l[i]]
         IN  s \in Seq(V) /\ IsInjective(s) /\ ToSet(s) = ToSet(l)
<1> DEFINE s == [l EXCEPT ![i] = l[j], ![j] = l[i]]
<1>1. DOMAIN s = DOMAIN l /\ \A k \in DOMAIN l : s[k] = IF k = j THEN l[i] ELSE IF k = i THEN l[j] ELSE l[k]
  OBVIOUS
<1>2. \A k \in DOMAIN l : l[k] \in V
  OBVIOUS
<1>3. s \in Seq(V)
  <2>1. DOMAIN s = 1..Len(l) /\ Len(l) \in Nat /\ \A k \in 1..Len(l) : s[k] \in V
    BY <1>1, <1>2
  <2>2. s = [k \in 1..Len(l) |-> s[k]]
    BY <2>1
  <2> HIDE DEF s
  <2>3. QED
    BY <2>1, <2>2
<1> HIDE DEF s
<1>4. IsInjective(s)
  BY <1>1 DEF IsInjective
<1>5. ToSet(s) = ToSet(l)
  <2>1. \A x : (\E k \in DOMAIN s : s[k] = x) <=> (\E k \in DOMAIN l : l[k] = x)
    BY <1>1
  <2>2. QED
    BY <2>1 DEF ToSet
<1>6. QED
  BY <1>3, <1>4, <1>5 DEF s

\* The members of a finite set, one after the other.
LEMMA SetAsList ==
  ASSUME NEW V, IsFiniteSet(V)
  PROVE  SetToSeq(V) \in Seq(V) /\ IsInjective(SetToSeq(V)) /\ ToSet(SetToSeq(V)) = V
<1> DEFINE n == Cardinality(V)
<1>1. n \in Nat /\ ExistsBijection(1..n, V)
  BY FS_CardinalityType
<1>2. \E f \in [1..n -> V] : IsInjective(f)
  BY <1>1 DEF ExistsBijection, Bijection, Injection
<1>3. SetToSeq(V) \in [1..n -> V] /\ IsInjective(SetToSeq(V))
  BY <1>2 DEF SetToSeq
<1>4. SetToSeq(V) \in Injection(1..n, V)
  BY <1>3 DEF Injection
<1>5. IsFiniteSet(1..n) /\ Cardinality(1..n) = n
  BY <1>1, FS_Interval
<1> HIDE DEF n
<1>6. SetToSeq(V) \in Surjection(1..n, V)
  BY <1>4, <1>5, FS_Injection DEF n
<1>7. QED
  BY <1>1, <1>3, <1>6 DEF ToSet, Surjection

=============================================================================
