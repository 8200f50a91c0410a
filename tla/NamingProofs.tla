---------------------------- MODULE NamingProofs ----------------------------
(***************************************************************************)
(* Proofs about Naming, for any tree, root and directories, anything the     *)
(* receiver may hold, anything asked for and any bounds: each file lands     *)
(* where it should, nothing else is touched, and no send is refused without  *)
(* a reason.  First what the operators of Paths compute, by the least place  *)
(* where it would be something else.                                        *)
(***************************************************************************)
EXTENDS Naming, SequenceTheorems, FiniteSetTheorems, WellFoundedInduction, TLAPS

-----------------------------------------------------------------------------
(* Sequences.                                                              *)

\* A sequence that is not empty, without its last element.
LEMMA FrontIs ==
    ASSUME NEW S, NEW s \in Seq(S), s # <<>>
    PROVE  /\ Len(s) \in Nat \ {0} /\ Front(s) \in Seq(S) /\ Last(s) \in S
           /\ Len(Front(s)) = Len(s) - 1
           /\ \A i \in 1..(Len(s) - 1) : Front(s)[i] = s[i]
<1>1. Len(s) \in Nat \ {0} /\ \A i \in 1..Len(s) : s[i] \in S
  <2>1. Len(s) \in Nat /\ Len(s) # 0
    BY EmptySeq
  <2> QED
    BY <2>1, ElementOfSeq
<1>2. /\ SubSeq(s, 1, Len(s) - 1) \in Seq(S)
      /\ Len(SubSeq(s, 1, Len(s) - 1)) = Len(s) - 1
      /\ \A i \in 1..(Len(s) - 1) : SubSeq(s, 1, Len(s) - 1)[i] = s[i]
  <2>1. 1 \in Int /\ Len(s) - 1 \in Int /\ \A i \in 1..(Len(s) - 1) : s[i] \in S
    BY <1>1
  <2>2. /\ SubSeq(s, 1, Len(s) - 1) \in Seq(S)
        /\ Len(SubSeq(s, 1, Len(s) - 1)) = IF 1 <= Len(s) - 1 THEN (Len(s) - 1) - 1 + 1 ELSE 0
        /\ \A i \in 1..((Len(s) - 1) - 1 + 1) : SubSeq(s, 1, Len(s) - 1)[i] = s[1 + i - 1]
    BY <2>1, SubSeqProperties
  <2>3. (Len(s) - 1) - 1 + 1 = Len(s) - 1 /\ \A i \in 1..(Len(s) - 1) : 1 + i - 1 = i
    BY <1>1
  <2>4. Len(SubSeq(s, 1, Len(s) - 1)) = Len(s) - 1
    <3>1. CASE 1 <= Len(s) - 1
      BY <2>2, <2>3, <3>1
    <3>2. CASE ~(1 <= Len(s) - 1)
      <4>1. Len(s) = 1
        BY <1>1, <3>2
      <4> QED
        BY <2>2, <3>2, <4>1
    <3> QED
      BY <3>1, <3>2
  <2>5. \A i \in 1..(Len(s) - 1) : SubSeq(s, 1, Len(s) - 1)[i] = s[i]
    <3> DEFINE f == SubSeq(s, 1, Len(s) - 1)
    <3>1. \A i \in 1..(Len(s) - 1) : f[i] = s[1 + i - 1]
      BY <2>2, <2>3
    <3> HIDE DEF f
    <3>2. \A i \in 1..(Len(s) - 1) : f[i] = s[i]
      BY <2>3, <3>1
    <3> QED
      BY <3>2 DEF f
  <2> QED
    BY <2>2, <2>4, <2>5
<1> QED
  BY <1>1, <1>2 DEF Front, Last

\* Prefixes, element by element.
LEMMA PrefixIs ==
    ASSUME NEW S, NEW s \in Seq(S), NEW t \in Seq(S)
    PROVE  IsPrefix(s, t) <=> Len(s) <= Len(t) /\ \A i \in 1..Len(s) : s[i] = t[i]
<1>1. Len(s) \in Nat /\ Len(t) \in Nat /\ SubSeq(s, 1, Len(s)) = s
  BY SubSeqFull
<1>2. ASSUME Len(s) <= Len(t)
      PROVE  SubSeq(t, 1, Len(s)) = s <=> \A i \in 1..Len(s) : s[i] = t[i]
  <2>1. \A i \in 1..Len(s) : t[i] \in S
    BY <1>1, <1>2, ElementOfSeq
  <2>2. /\ SubSeq(t, 1, Len(s)) \in Seq(S) /\ Len(SubSeq(t, 1, Len(s))) = Len(s)
        /\ \A i \in 1..Len(s) : SubSeq(t, 1, Len(s))[i] = t[i]
    <3>1. /\ SubSeq(t, 1, Len(s)) \in Seq(S)
          /\ Len(SubSeq(t, 1, Len(s))) = IF 1 <= Len(s) THEN Len(s) - 1 + 1 ELSE 0
          /\ \A i \in 1..(Len(s) - 1 + 1) : SubSeq(t, 1, Len(s))[i] = t[1 + i - 1]
      BY <1>1, <2>1, SubSeqProperties
    <3> QED
      BY <1>1, <3>1
  <2>3. (\A i \in 1..Len(s) : s[i] = t[i]) => SubSeq(t, 1, Len(s)) = s
    BY <2>2, SeqEqual
  <2> QED
    BY <2>2, <2>3
<1> QED
  BY <1>1, <1>2 DEF IsPrefix

\* What a path has below a prefix of it.
LEMMA FromIs ==
    ASSUME NEW S, NEW s \in Seq(S), NEW t \in Seq(S), Len(s) <= Len(t)
    PROVE  /\ From(s, t) \in Seq(S) /\ Len(From(s, t)) = Len(t) - Len(s)
           /\ \A i \in 1..(Len(t) - Len(s)) : From(s, t)[i] = t[Len(s) + i]
           /\ IsPrefix(s, t) => s \o From(s, t) = t
<1> DEFINE r == SubSeq(t, Len(s) + 1, Len(t))
<1>1. Len(s) \in Nat /\ Len(t) \in Nat
  OBVIOUS
<1>2. \A i \in (Len(s) + 1)..Len(t) : t[i] \in S
  BY <1>1, ElementOfSeq
<1>3. /\ r \in Seq(S) /\ Len(r) = IF Len(s) + 1 <= Len(t) THEN Len(t) - (Len(s) + 1) + 1 ELSE 0
      /\ \A i \in 1..(Len(t) - (Len(s) + 1) + 1) : r[i] = t[(Len(s) + 1) + i - 1]
  <2>1. Len(s) + 1 \in Int /\ Len(t) \in Int
    BY <1>1
  <2> QED
    BY <1>2, <2>1, SubSeqProperties
<1> HIDE DEF r
<1>4. Len(r) = Len(t) - Len(s) /\ \A i \in 1..(Len(t) - Len(s)) : r[i] = t[Len(s) + i]
  BY <1>1, <1>3
<1>5. ASSUME IsPrefix(s, t) PROVE s \o r = t
  <2>1. \A i \in 1..Len(s) : s[i] = t[i]
    BY <1>5, PrefixIs
  <2>2. /\ s \o r \in Seq(S) /\ Len(s \o r) = Len(s) + Len(r)
        /\ \A i \in 1..(Len(s) + Len(r)) :
             (s \o r)[i] = IF i <= Len(s) THEN s[i] ELSE r[i - Len(s)]
    BY <1>3, ConcatProperties
  <2>3. \A i \in 1..Len(t) : (s \o r)[i] = t[i]
    <3> TAKE i \in 1..Len(t)
    <3>1. CASE i <= Len(s)
      BY <1>1, <1>4, <2>1, <2>2, <3>1
    <3>2. CASE ~(i <= Len(s))
      <4>1. i - Len(s) \in 1..(Len(t) - Len(s)) /\ Len(s) + (i - Len(s)) = i
        BY <1>1, <3>2
      <4> QED
        BY <1>1, <1>4, <2>2, <3>2, <4>1
    <3> QED
      BY <3>1, <3>2
  <2>4. Len(s \o r) = Len(t)
    BY <1>1, <1>4, <2>2
  <2> DEFINE w == s \o r
  <2>5. w \in Seq(S) /\ Len(w) = Len(t) /\ \A i \in 1..Len(w) : w[i] = t[i]
    BY <2>2, <2>3, <2>4
  <2> HIDE DEF w
  <2>6. w = t
    BY <2>5, SeqEqual
  <2> QED
    BY <2>6 DEF w
<1> QED
  BY <1>3, <1>4, <1>5 DEF r, From

\* A path and what is appended to it.
LEMMA AppendedIs ==
    ASSUME NEW S, NEW s \in Seq(S), NEW t \in Seq(S)
    PROVE  /\ IsPrefix(s, s \o t) /\ From(s, s \o t) = t
           /\ \A u \in Seq(S) : s \o t = s \o u => t = u
<1>1. /\ s \o t \in Seq(S) /\ Len(s \o t) = Len(s) + Len(t)
      /\ \A i \in 1..(Len(s) + Len(t)) : (s \o t)[i] = IF i <= Len(s) THEN s[i] ELSE t[i - Len(s)]
  BY ConcatProperties
<1>2. Len(s) \in Nat /\ Len(t) \in Nat
  OBVIOUS
<1>3. IsPrefix(s, s \o t)
  <2>1. Len(s) <= Len(s \o t) /\ \A i \in 1..Len(s) : s[i] = (s \o t)[i]
    BY <1>1, <1>2
  <2> QED
    BY <1>1, <2>1, PrefixIs
<1>4. \A u \in Seq(S) : s \o t = s \o u => t = u
  <2> SUFFICES ASSUME NEW u \in Seq(S), s \o t = s \o u
               PROVE  t = u
    OBVIOUS
  <2> DEFINE w == s \o u
  <2>1. /\ Len(w) = Len(s) + Len(u)
        /\ \A i \in 1..(Len(s) + Len(u)) : w[i] = IF i <= Len(s) THEN s[i] ELSE u[i - Len(s)]
    BY ConcatProperties
  <2>2. /\ Len(w) = Len(s) + Len(t)
        /\ \A i \in 1..(Len(s) + Len(t)) : w[i] = IF i <= Len(s) THEN s[i] ELSE t[i - Len(s)]
    BY <1>1
  <2> HIDE DEF w
  <2>3. Len(u) \in Nat /\ Len(t) = Len(u)
    BY <1>2, <2>1, <2>2
  <2>4. \A i \in 1..Len(t) : t[i] = u[i]
    <3> TAKE i \in 1..Len(t)
    <3>1. /\ Len(s) + i \in 1..(Len(s) + Len(t)) /\ ~(Len(s) + i <= Len(s))
          /\ (Len(s) + i) - Len(s) = i
      BY <1>2
    <3> QED
      BY <2>1, <2>2, <2>3, <3>1
  <2> QED
    BY <2>3, <2>4, SeqEqual
<1> DEFINE w == s \o t
<1>5. w \in Seq(S) /\ Len(s) <= Len(w) /\ IsPrefix(s, w)
  BY <1>1, <1>2, <1>3
<1> HIDE DEF w
<1>6. From(s, w) \in Seq(S) /\ s \o From(s, w) = w
  BY <1>5, FromIs
<1>7. s \o t = s \o From(s, w)
  BY <1>6 DEF w
<1>8. t = From(s, w)
  BY <1>4, <1>6, <1>7
<1> QED
  BY <1>3, <1>4, <1>8 DEF w

LEMMA PrefixTrans ==
    ASSUME NEW S, NEW s \in Seq(S), NEW t \in Seq(S), NEW u \in Seq(S),
           IsPrefix(s, t), IsPrefix(t, u)
    PROVE  IsPrefix(s, u)
<1>1. Len(s) \in Nat /\ Len(t) \in Nat /\ Len(u) \in Nat
  OBVIOUS
<1>2. Len(s) <= Len(t) /\ (\A i \in 1..Len(s) : s[i] = t[i])
  BY PrefixIs
<1>3. Len(t) <= Len(u) /\ (\A i \in 1..Len(t) : t[i] = u[i])
  BY PrefixIs
<1>4. Len(s) <= Len(u) /\ (\A i \in 1..Len(s) : s[i] = u[i])
  BY <1>1, <1>2, <1>3
<1> QED
  BY <1>4, PrefixIs

\* From the parent: the name, and what is below.
LEMMA FromParent ==
    ASSUME NEW S, NEW s \in Seq(S), NEW t \in Seq(S), s # <<>>, IsPrefix(s, t)
    PROVE  From(Front(s), t) = <<Last(s)>> \o From(s, t)
<1>1. /\ Len(s) \in Nat \ {0} /\ Front(s) \in Seq(S) /\ Last(s) \in S
      /\ Len(Front(s)) = Len(s) - 1 /\ Last(s) = s[Len(s)]
  BY FrontIs DEF Last
<1>2. Len(t) \in Nat /\ Len(s) <= Len(t) /\ \A i \in 1..Len(s) : s[i] = t[i]
  BY PrefixIs
<1> DEFINE r == From(s, t)
           q == From(Front(s), t)
           e == Last(s)
<1>3. /\ r \in Seq(S) /\ Len(r) = Len(t) - Len(s)
      /\ \A i \in 1..(Len(t) - Len(s)) : r[i] = t[Len(s) + i]
  BY <1>2, FromIs
<1>4. Len(Front(s)) <= Len(t)
  BY <1>1, <1>2
<1>5. /\ q \in Seq(S) /\ Len(q) = Len(t) - (Len(s) - 1)
      /\ \A i \in 1..(Len(t) - (Len(s) - 1)) : q[i] = t[(Len(s) - 1) + i]
  <2> DEFINE f == Front(s)
  <2>1. f \in Seq(S) /\ Len(f) <= Len(t) /\ Len(f) = Len(s) - 1
    BY <1>1, <1>4
  <2> HIDE DEF f
  <2>2. /\ From(f, t) \in Seq(S) /\ Len(From(f, t)) = Len(t) - Len(f)
        /\ \A i \in 1..(Len(t) - Len(f)) : From(f, t)[i] = t[Len(f) + i]
    BY <2>1, FromIs
  <2>3. /\ From(f, t) \in Seq(S) /\ Len(From(f, t)) = Len(t) - (Len(s) - 1)
        /\ \A i \in 1..(Len(t) - (Len(s) - 1)) : From(f, t)[i] = t[(Len(s) - 1) + i]
    BY <2>1, <2>2
  <2> QED
    BY <2>3 DEF f
<1> HIDE DEF r, q, e
<1>6. <<e>> \in Seq(S) /\ Len(<<e>>) = 1 /\ <<e>>[1] = t[Len(s)]
  BY <1>1, <1>2 DEF e
<1>7. /\ <<e>> \o r \in Seq(S) /\ Len(<<e>> \o r) = 1 + Len(r)
      /\ \A i \in 1..(1 + Len(r)) : (<<e>> \o r)[i] = IF i <= 1 THEN <<e>>[i] ELSE r[i - 1]
  <2> DEFINE o == <<e>>
  <2>1. o \in Seq(S) /\ Len(o) = 1
    BY <1>6
  <2> HIDE DEF o
  <2>2. /\ o \o r \in Seq(S) /\ Len(o \o r) = Len(o) + Len(r)
        /\ \A i \in 1..(Len(o) + Len(r)) : (o \o r)[i] = IF i <= Len(o) THEN o[i] ELSE r[i - Len(o)]
    BY <1>3, <2>1, ConcatProperties
  <2>3. /\ o \o r \in Seq(S) /\ Len(o \o r) = 1 + Len(r)
        /\ \A i \in 1..(1 + Len(r)) : (o \o r)[i] = IF i <= 1 THEN o[i] ELSE r[i - 1]
    BY <2>1, <2>2
  <2> QED
    BY <2>3 DEF o
<1>8. Len(q) = Len(<<e>> \o r)
  BY <1>1, <1>2, <1>3, <1>5, <1>7
<1>9. \A i \in 1..Len(q) : q[i] = (<<e>> \o r)[i]
  <2> TAKE i \in 1..Len(q)
  <2>1. CASE i = 1
    BY <1>1, <1>2, <1>3, <1>5, <1>6, <1>7, <2>1
  <2>2. CASE i # 1
    <3>1. i - 1 \in 1..(Len(t) - Len(s)) /\ (Len(s) - 1) + i = Len(s) + (i - 1) /\ ~(i <= 1)
      BY <1>1, <1>2, <1>5, <2>2
    <3>2. (<<e>> \o r)[i] = r[i - 1]
      BY <1>3, <1>7, <1>8, <3>1
    <3> QED
      BY <1>3, <1>5, <3>1, <3>2
  <2> QED
    BY <2>1, <2>2
<1>10. q = <<e>> \o r
  BY <1>5, <1>7, <1>8, <1>9, SeqEqual
<1> QED
  BY <1>10 DEF q, r, e

\* Every element of a finite set is once in its sequence.
LEMMA SetToSeqIs ==
    ASSUME NEW S, IsFiniteSet(S)
    PROVE  LET s == SetToSeq(S)
           IN  /\ s \in Seq(S)
               /\ \A i, j \in DOMAIN s : s[i] = s[j] => i = j
               /\ \A x \in S : \E i \in DOMAIN s : s[i] = x
<1> DEFINE n == Cardinality(S)
           s == SetToSeq(S)
<1>1. n \in Nat /\ \E f : f \in Bijection(1..n, S)
  BY FS_CardinalityType DEF ExistsBijection
<1>2. \E f \in [1..n -> S] : IsInjective(f)
  BY <1>1 DEF Bijection, Injection
<1>3. s = CHOOSE f \in [1..n -> S] : IsInjective(f)
  BY DEF SetToSeq
<1> HIDE DEF s
<1>4. s \in [1..n -> S] /\ IsInjective(s)
  <2> HIDE DEF n
  <2> QED
    BY <1>2, <1>3
<1>5. s \in Injection(1..n, S)
  BY <1>4 DEF Injection
<1>6. IsFiniteSet(1..n) /\ Cardinality(1..n) = n
  <2>1. 1 \in Int /\ n \in Int
    BY <1>1
  <2> HIDE DEF n
  <2>2. IsFiniteSet(1..n) /\ Cardinality(1..n) = IF 1 > n THEN 0 ELSE n - 1 + 1
    BY <2>1, FS_Interval
  <2> QED
    BY <1>1, <2>2
<1>7. s \in Surjection(1..n, S)
  BY <1>5, <1>6, FS_Injection
<1>8. \A x \in S : \E i \in 1..n : s[i] = x
  BY <1>7 DEF Surjection
<1>9. s \in Seq(S) /\ DOMAIN s = 1..n
  <2> HIDE DEF n
  <2> QED
    BY <1>1, <1>4
<1>10. \A i, j \in DOMAIN s : s[i] = s[j] => i = j
  BY <1>4 DEF IsInjective
<1> QED
  BY <1>8, <1>9, <1>10 DEF s

\* A sequence cut in two.
LEMMA CutInTwo ==
    ASSUME NEW S, NEW s \in Seq(S), NEW n \in 0..Len(s)
    PROVE  /\ SubSeq(s, 1, n) \in Seq(S) /\ SubSeq(s, n + 1, Len(s)) \in Seq(S)
           /\ SubSeq(s, 1, n) \o SubSeq(s, n + 1, Len(s)) = s
<1>1. Len(s) \in Nat /\ 1 \in 1..(Len(s) + 1) /\ n \in (1 - 1)..Len(s) /\ Len(s) \in n..Len(s)
  OBVIOUS
<1>2. SubSeq(s, 1, n) \o SubSeq(s, n + 1, Len(s)) = SubSeq(s, 1, Len(s))
  BY <1>1, ConcatAdjacentSubSeq
<1>3. SubSeq(s, 1, Len(s)) = s
  BY SubSeqFull
<1>4. SubSeq(s, 1, n) \in Seq(S)
  <2>1. 1 \in Int /\ n \in Int /\ \A i \in 1..n : s[i] \in S
    BY <1>1
  <2> QED
    BY <2>1, SubSeqProperties
<1>5. SubSeq(s, n + 1, Len(s)) \in Seq(S)
  <2>1. n + 1 \in Int /\ Len(s) \in Int /\ \A i \in (n + 1)..Len(s) : s[i] \in S
    BY <1>1
  <2> QED
    BY <2>1, SubSeqProperties
<1> QED
  BY <1>2, <1>3, <1>4, <1>5

-----------------------------------------------------------------------------
(* Join, Rel and withinDir.                                                *)

\* Every set of natural numbers that is not empty has a least element.
LEMMA LeastOf ==
    ASSUME NEW T \in SUBSET Nat, T # {}
    PROVE  \E x \in T : \A y \in T : x <= y
<1>1. PICK x \in T : \A y \in T : <<y, x>> \notin OpToRel(<, Nat)
  BY NatLessThanWellFounded, WFMin
<1>2. \A y \in T : ~(y < x)
  BY <1>1 DEF OpToRel
<1> QED
  BY <1>2

\* What a file may be called: a path, after a slash if it was found from the root.
Named == Seq(Elements \cup {Top})

LEMMA PathIsNamed == Path \subseteq Named
<1>1. Elements \subseteq Elements \cup {Top}
  OBVIOUS
<1> QED
  BY <1>1, SeqMonotonic DEF Path, Named

\* What lies along a name is what the loop of Enter says, element by element.
LEMMA StepsIs ==
    ASSUME NEW dir, NEW path \in Named
    PROVE  LET upTo == Steps(dir, path)
           IN  /\ upTo[0] = dir
               /\ \A i \in 1..Len(path) : upTo[i] = Enter(upTo[i - 1], path[i])
<1> DEFINE Goes(n, g) ==
             g = [i \in 0..n |-> IF i = 0 THEN dir ELSE Enter(g[i - 1], path[i])]
           T == {n \in Nat : ~\E g : Goes(n, g)}
<1>1. ASSUME T # {} PROVE FALSE
  <2>1. PICK n \in T : \A m \in T : n <= m
    <3>1. T \in SUBSET Nat
      OBVIOUS
    <3> HIDE DEF T
    <3> QED
      BY <1>1, <3>1, LeastOf
  <2>2. n \in Nat /\ ~\E g : Goes(n, g)
    OBVIOUS
  <2>3. n # 0
    <3>1. Goes(0, [i \in 0..0 |-> dir])
      OBVIOUS
    <3> HIDE DEF Goes
    <3> QED
      BY <2>2, <3>1
  <2>4. PICK g : Goes(n - 1, g)
    <3>1. n - 1 \in Nat /\ ~(n <= n - 1)
      BY <2>2, <2>3
    <3> HIDE DEF Goes
    <3> QED
      BY <2>1, <3>1
  <2> DEFINE h == [i \in 0..n |-> IF i = n THEN Enter(g[n - 1], path[n]) ELSE g[i]]
  <2>5. \A i \in 0..(n - 1) : g[i] = IF i = 0 THEN dir ELSE Enter(g[i - 1], path[i])
    BY <2>4
  <2>6. \A i \in 0..n : h[i] = IF i = 0 THEN dir ELSE Enter(h[i - 1], path[i])
    BY <2>2, <2>3, <2>5
  <2>7. Goes(n, h)
    <3> DEFINE k == [i \in 0..n |-> IF i = 0 THEN dir ELSE Enter(h[i - 1], path[i])]
    <3>1. \A i \in 0..n : h[i] = k[i]
      BY <2>6
    <3>2. h = k
      BY <3>1
    <3> HIDE DEF h
    <3> QED
      BY <3>2
  <2> HIDE DEF Goes, h
  <2> QED
    BY <2>2, <2>7
<1>2. Len(path) \in Nat
  BY DEF Named
<1>3. \E g : Goes(Len(path), g)
  <2> HIDE DEF Goes
  <2> QED
    BY <1>1, <1>2
<1> DEFINE upTo == Steps(dir, path)
<1>4. upTo = CHOOSE g : Goes(Len(path), g)
  BY DEF Steps
<1>5. Goes(Len(path), upTo)
  <2> HIDE DEF Goes, upTo
  <2> QED
    BY <1>3, <1>4
<1>6. \A i \in 0..Len(path) : upTo[i] = IF i = 0 THEN dir ELSE Enter(upTo[i - 1], path[i])
  <2> HIDE DEF upTo
  <2> QED
    BY <1>5
<1> HIDE DEF upTo
<1>7. upTo[0] = dir /\ \A i \in 1..Len(path) : upTo[i] = Enter(upTo[i - 1], path[i])
  BY <1>2, <1>6
<1> QED
  BY <1>7 DEF upTo

\* Two paths that begin with the same n elements lead to the same place with them.
LEMMA StepsAgree ==
    ASSUME NEW dir, NEW p \in Named, NEW q \in Named,
           NEW n \in Nat, n <= Len(p), n <= Len(q), \A i \in 1..n : p[i] = q[i]
    PROVE  Steps(dir, p)[n] = Steps(dir, q)[n]
<1> DEFINE up == Steps(dir, p)
           uq == Steps(dir, q)
           T == {m \in 0..n : up[m] # uq[m]}
<1>1. Len(p) \in Nat /\ Len(q) \in Nat
  BY DEF Named
<1>2. /\ up[0] = dir /\ \A i \in 1..n : up[i] = Enter(up[i - 1], p[i])
      /\ uq[0] = dir /\ \A i \in 1..n : uq[i] = Enter(uq[i - 1], q[i])
  BY <1>1, StepsIs
<1> HIDE DEF up, uq
<1>3. ASSUME T # {} PROVE FALSE
  <2>1. PICK m \in T : \A k \in T : m <= k
    <3>1. T \in SUBSET Nat
      OBVIOUS
    <3> HIDE DEF T
    <3> QED
      BY <1>3, <3>1, LeastOf
  <2>2. m \in 1..n /\ m - 1 \in 0..n /\ ~(m <= m - 1)
    BY <1>2, <2>1
  <2>3. up[m - 1] = uq[m - 1]
    BY <2>1, <2>2
  <2> QED
    BY <1>2, <2>1, <2>2, <2>3
<1>4. n \in 0..n
  OBVIOUS
<1>5. up[n] = uq[n]
  BY <1>3, <1>4
<1> QED
  BY <1>5 DEF up, uq

\* Join, from its last element.
LEMMA JoinLast ==
    ASSUME NEW dir, NEW path \in Named
    PROVE  /\ path = <<>> => Join(dir, path) = dir
           /\ path # <<>> => Join(dir, path) = Enter(Join(dir, Front(path)), Last(path))
<1>1. CASE path = <<>>
  <2>1. Len(path) = 0
    BY <1>1
  <2> QED
    BY <1>1, <2>1, StepsIs DEF Join
<1>2. CASE path # <<>>
  <2>1. /\ Len(path) \in Nat \ {0} /\ Front(path) \in Named
        /\ Len(Front(path)) = Len(path) - 1
        /\ \A i \in 1..(Len(path) - 1) : Front(path)[i] = path[i]
    BY <1>2, FrontIs DEF Named
  <2> DEFINE f == Front(path)
  <2>2. Steps(dir, path)[Len(path) - 1] = Steps(dir, f)[Len(path) - 1]
    <3>1. /\ f \in Named /\ Len(path) - 1 \in Nat /\ Len(path) - 1 <= Len(path)
          /\ Len(path) - 1 <= Len(f)
          /\ \A i \in 1..(Len(path) - 1) : path[i] = f[i]
      BY <2>1
    <3> HIDE DEF f
    <3> QED
      BY <3>1, StepsAgree
  <2>3. Steps(dir, path)[Len(path)] = Enter(Steps(dir, path)[Len(path) - 1], path[Len(path)])
    <3>1. Len(path) \in 1..Len(path)
      BY <2>1
    <3> QED
      BY <3>1, StepsIs
  <2> QED
    BY <1>2, <2>1, <2>2, <2>3 DEF Join, Last
<1> QED
  BY <1>1, <1>2

\* Elements other than "." and ".." are appended as they are.
LEMMA JoinAppends ==
    ASSUME NEW dir \in Path, NEW p \in Named, NEW q, Clean(q), Join(dir, p) \in Path
    PROVE  /\ p \o q \in Named /\ Join(dir, p \o q) = Join(dir, p) \o q
           /\ Join(dir, p \o q) \in Path
<1> DEFINE path == p \o q
           upTo == Steps(dir, path)
           at == Join(dir, p)
           T == {k \in 0..Len(q) : upTo[Len(p) + k] # at \o SubSeq(q, 1, k)}
<1>1. /\ q \in Path /\ path \in Named /\ Len(p) \in Nat /\ Len(q) \in Nat
      /\ Len(path) = Len(p) + Len(q)
      /\ \A i \in 1..Len(p) : path[i] = p[i]
      /\ \A k \in 1..Len(q) : path[Len(p) + k] = q[k] /\ q[k] \notin {Here, Up, Top} /\ q[k] \in Elements
  <2>1. q \in Path /\ q \in Named /\ Len(p) \in Nat /\ Len(q) \in Nat
    BY PathIsNamed DEF Path, Named, Clean
  <2>2. \A k \in 1..Len(q) : q[k] \notin {Here, Up, Top} /\ q[k] \in Elements
    BY <2>1, ElementOfSeq, ElementsAssumption DEF Path, Clean
  <2>3. /\ path \in Named /\ Len(path) = Len(p) + Len(q)
        /\ \A i \in 1..(Len(p) + Len(q)) : path[i] = IF i <= Len(p) THEN p[i] ELSE q[i - Len(p)]
    BY <2>1, ConcatProperties DEF Named
  <2> HIDE DEF path
  <2>4. \A i \in 1..Len(p) : path[i] = p[i]
    BY <2>1, <2>3
  <2>5. \A k \in 1..Len(q) : path[Len(p) + k] = q[k]
    <3> TAKE k \in 1..Len(q)
    <3>1. /\ Len(p) + k \in 1..(Len(p) + Len(q)) /\ ~(Len(p) + k <= Len(p))
          /\ (Len(p) + k) - Len(p) = k
      BY <2>1
    <3> QED
      BY <2>3, <3>1
  <2> QED
    BY <2>1, <2>2, <2>3, <2>4, <2>5
<1>2. upTo[Len(p)] = at
  <2>1. Len(p) \in Nat /\ Len(p) <= Len(path) /\ Len(p) <= Len(p) /\ path \in Named
    BY <1>1
  <2> HIDE DEF path
  <2> QED
    BY <1>1, <2>1, StepsAgree DEF Join
<1>3. \A k \in 1..Len(q) : upTo[Len(p) + k] = Enter(upTo[Len(p) + k - 1], q[k])
  <2> TAKE k \in 1..Len(q)
  <2>1. Len(p) + k \in 1..Len(path)
    BY <1>1
  <2>2. upTo[Len(p) + k] = Enter(upTo[Len(p) + k - 1], path[Len(p) + k])
    <3> DEFINE w == path
    <3>1. w \in Named /\ Len(p) + k \in 1..Len(w)
      BY <1>1, <2>1
    <3> HIDE DEF w
    <3>2. Steps(dir, w)[Len(p) + k] = Enter(Steps(dir, w)[Len(p) + k - 1], w[Len(p) + k])
      <4>1. \A i \in 1..Len(w) : Steps(dir, w)[i] = Enter(Steps(dir, w)[i - 1], w[i])
        BY <3>1, StepsIs
      <4>2. (Len(p) + k) - 1 = Len(p) + k - 1
        BY <1>1
      <4> QED
        BY <3>1, <4>1, <4>2
    <3> QED
      BY <3>2 DEF w
  <2> HIDE DEF path, upTo
  <2> QED
    BY <1>1, <2>2
<1>4. Join(dir, path) = upTo[Len(p) + Len(q)]
  BY <1>1 DEF Join
<1> HIDE DEF upTo, path, at
<1>5. ASSUME T # {} PROVE FALSE
  <2>1. PICK k \in T : \A j \in T : k <= j
    <3>1. T \in SUBSET Nat
      OBVIOUS
    <3> HIDE DEF T
    <3> QED
      BY <1>5, <3>1, LeastOf
  <2>2. k \in 0..Len(q) /\ upTo[Len(p) + k] # at \o SubSeq(q, 1, k)
    OBVIOUS
  <2>3. k # 0
    <3>1. at \o SubSeq(q, 1, 0) = at
      BY <1>1 DEF Path, at
    <3> QED
      BY <1>1, <1>2, <2>2, <3>1
  <2>4. k \in 1..Len(q) /\ k - 1 \in 0..Len(q) /\ ~(k <= k - 1) /\ Len(p) + (k - 1) = Len(p) + k - 1
    BY <1>1, <2>2, <2>3
  <2>5. upTo[Len(p) + k - 1] = at \o SubSeq(q, 1, k - 1)
    BY <2>1, <2>4
  <2>6. upTo[Len(p) + k] = Append(at \o SubSeq(q, 1, k - 1), q[k])
    BY <1>1, <1>3, <2>4, <2>5 DEF Enter
  <2>7. Append(at \o SubSeq(q, 1, k - 1), q[k]) = at \o SubSeq(q, 1, k)
    <3> DEFINE r == SubSeq(q, 1, k - 1)
               o == <<q[k]>>
    <3>1. SubSeq(q, 1, k) = r \o o
      <4>1. 1 \in 1..Len(q) /\ k \in 1..Len(q)
        BY <1>1, <2>4
      <4> QED
        BY <1>1, <4>1, SubSeqRecursiveSecond DEF Path
    <3>2. at \in Seq(Elements)
      BY DEF at, Path
    <3>3. r \in Seq(Elements)
      <4>1. \A i \in 1..(k - 1) : q[i] \in Elements
        BY <1>1, <2>4
      <4>2. 1 \in Int /\ k - 1 \in Int
        BY <1>1, <2>4
      <4> QED
        BY <4>1, <4>2, SubSeqProperties
    <3>4. q[k] \in Elements /\ o \in Seq(Elements)
      BY <1>1, <2>4
    <3> HIDE DEF r
    <3>5. at \o r \in Seq(Elements)
      BY <3>2, <3>3, ConcatProperties
    <3>6. Append(at \o r, q[k]) = (at \o r) \o o
      <4> DEFINE w == at \o r
      <4> HIDE DEF w
      <4>1. w \in Seq(Elements)
        BY <3>5 DEF w
      <4>2. Append(w, q[k]) = w \o <<q[k]>>
        BY <3>4, <4>1, AppendIsConcat
      <4> QED
        BY <4>2 DEF w
    <3> HIDE DEF o
    <3>7. (at \o r) \o o = at \o (r \o o)
      <4> DEFINE S == Elements
      <4>1. at \in Seq(S) /\ r \in Seq(S) /\ o \in Seq(S)
        BY <3>2, <3>3, <3>4
      <4> HIDE DEF S
      <4> QED
        BY <4>1, ConcatAssociative
    <3>8. Append(at \o r, q[k]) = at \o SubSeq(q, 1, k)
      BY <3>1, <3>6, <3>7
    <3> QED
      BY <3>8 DEF r
  <2> QED
    BY <2>2, <2>6, <2>7
<1>6. Len(q) \in 0..Len(q) /\ SubSeq(q, 1, Len(q)) = q
  BY <1>1 DEF Path
<1>7. upTo[Len(p) + Len(q)] = at \o q
  BY <1>5, <1>6
<1>8. at \o q \in Path
  BY <1>1, ConcatProperties DEF at, Path
<1> QED
  BY <1>1, <1>4, <1>7, <1>8 DEF path, at

\* One element leads from a path to a path, and from a clean one to a clean one.
LEMMA EnterType ==
    ASSUME NEW dir \in Path, NEW name \in Elements
    PROVE  /\ Enter(dir, name) \in Path
           /\ Clean(dir) => Clean(Enter(dir, name))
<1>1. dir # <<>> => Front(dir) \in Path /\ (Clean(dir) => Clean(Front(dir)))
  <2> SUFFICES ASSUME dir # <<>>
               PROVE  Front(dir) \in Path /\ (Clean(dir) => Clean(Front(dir)))
    OBVIOUS
  <2>1. /\ Len(dir) \in Nat \ {0} /\ Front(dir) \in Seq(Elements)
        /\ Len(Front(dir)) = Len(dir) - 1
        /\ \A i \in 1..(Len(dir) - 1) : Front(dir)[i] = dir[i]
    BY FrontIs DEF Path
  <2> DEFINE f == Front(dir)
  <2> HIDE DEF f
  <2>2. DOMAIN f = 1..(Len(dir) - 1) /\ DOMAIN dir = 1..Len(dir)
    BY <2>1 DEF f, Path
  <2>3. Clean(dir) => \A i \in DOMAIN f : f[i] \notin {Here, Up}
    BY <2>1, <2>2 DEF f, Clean
  <2> QED
    BY <2>1, <2>3 DEF f, Path, Clean
<1>2. dir # <<>> /\ Clean(dir) => Last(dir) \notin {Here, Up}
  <2> SUFFICES ASSUME dir # <<>>, Clean(dir)
               PROVE  Last(dir) \notin {Here, Up}
    OBVIOUS
  <2>1. Len(dir) \in Nat \ {0}
    BY FrontIs DEF Path
  <2>2. Len(dir) \in DOMAIN dir
    BY <2>1 DEF Path
  <2> QED
    BY <2>2 DEF Clean, Last
<1>3. /\ Append(dir, name) \in Path
      /\ Clean(dir) /\ name \notin {Here, Up} => Clean(Append(dir, name))
  <2> DEFINE a == Append(dir, name)
  <2>1. /\ a \in Seq(Elements) /\ Len(a) = Len(dir) + 1
        /\ \A i \in 1..Len(dir) : a[i] = dir[i]
        /\ a[Len(dir) + 1] = name
    <3>1. dir \in Seq(Elements) /\ name \in Elements
      BY DEF Path
    <3> DEFINE S == Elements
    <3> HIDE DEF S
    <3>2. dir \in Seq(S) /\ name \in S
      BY <3>1 DEF S
    <3>3. /\ Append(dir, name) \in Seq(S) /\ Len(Append(dir, name)) = Len(dir) + 1
          /\ \A i \in 1..Len(dir) : Append(dir, name)[i] = dir[i]
          /\ Append(dir, name)[Len(dir) + 1] = name
      BY <3>2, AppendProperties
    <3> QED
      BY <3>3 DEF S
  <2> HIDE DEF a
  <2>2. Len(dir) \in Nat /\ DOMAIN dir = 1..Len(dir) /\ DOMAIN a = 1..(Len(dir) + 1)
    BY <2>1 DEF Path
  <2>3. \A i \in DOMAIN a : i \in DOMAIN dir \/ i = Len(dir) + 1
    BY <2>2
  <2>4. Clean(dir) /\ name \notin {Here, Up} => \A i \in DOMAIN a : a[i] \notin {Here, Up}
    BY <2>1, <2>2, <2>3 DEF Clean
  <2>5. a \in Path /\ (Clean(dir) /\ name \notin {Here, Up} => Clean(a))
    BY <2>1, <2>4 DEF Path, Clean
  <2> QED
    BY <2>5 DEF a
<1>0. name # Top /\ Here # Top /\ Up # Top
  BY ElementsAssumption DEF Here, Up, Top
<1>4. CASE name = Here \/ (name = Up /\ dir = <<>>)
  BY <1>4 DEF Enter
<1>5. CASE name = Up /\ dir # <<>>
  BY <1>0, <1>1, <1>2, <1>3, <1>5 DEF Enter, Here, Up
<1>6. CASE name \notin {Here, Up}
  BY <1>0, <1>3, <1>6 DEF Enter
<1> QED
  BY <1>4, <1>5, <1>6

\* Along a path from a path there are only paths, and from a clean one only clean ones.
LEMMA JoinType ==
    ASSUME NEW dir \in Path, NEW path \in Path
    PROVE  /\ Join(dir, path) \in Path
           /\ Clean(dir) => Clean(Join(dir, path))
<1> DEFINE upTo == Steps(dir, path)
           Good(x) == x \in Path /\ (Clean(dir) => Clean(x))
           T == {n \in 0..Len(path) : ~Good(upTo[n])}
<1>1. /\ Len(path) \in Nat /\ upTo[0] = dir
      /\ \A i \in 1..Len(path) : upTo[i] = Enter(upTo[i - 1], path[i]) /\ path[i] \in Elements
  BY StepsIs, PathIsNamed DEF Path
<1> HIDE DEF upTo
<1>2. ASSUME T # {} PROVE FALSE
  <2>1. PICK n \in T : \A m \in T : n <= m
    <3>1. T \in SUBSET Nat
      OBVIOUS
    <3> HIDE DEF T
    <3> QED
      BY <1>2, <3>1, LeastOf
  <2>2. n \in 1..Len(path) /\ n - 1 \in 0..Len(path) /\ ~(n <= n - 1)
    BY <1>1, <2>1
  <2>3. Good(upTo[n - 1])
    <3> HIDE DEF Good
    <3> QED
      BY <2>1, <2>2
  <2>4. Good(upTo[n])
    BY <1>1, <2>2, <2>3, EnterType
  <2> QED
    BY <2>1, <2>4
<1>3. Len(path) \in 0..Len(path)
  BY <1>1
<1>4. Good(upTo[Len(path)])
  <2> HIDE DEF Good
  <2> QED
    BY <1>2, <1>3
<1> QED
  BY <1>4 DEF Join, upTo

\* The first n elements of a path, as a prefix of another one.
LEMMA CutIs ==
    ASSUME NEW S, NEW s \in Seq(S), NEW t \in Seq(S), NEW n \in 0..Len(s)
    PROVE  IsPrefix(SubSeq(s, 1, n), t) <=> n <= Len(t) /\ \A i \in 1..n : s[i] = t[i]
<1> DEFINE c == SubSeq(s, 1, n)
<1>1. Len(s) \in Nat /\ \A i \in 1..n : s[i] \in S
  BY ElementOfSeq
<1>2. /\ c \in Seq(S) /\ Len(c) = IF 1 <= n THEN n - 1 + 1 ELSE 0
      /\ \A i \in 1..(n - 1 + 1) : c[i] = s[1 + i - 1]
  <2>1. 1 \in Int /\ n \in Int
    BY <1>1
  <2> QED
    BY <1>1, <2>1, SubSeqProperties
<1> HIDE DEF c
<1>3. Len(c) = n
  BY <1>1, <1>2
<1>4. \A i \in 1..n : c[i] = s[i]
  BY <1>1, <1>2
<1>5. IsPrefix(c, t) <=> n <= Len(t) /\ \A i \in 1..n : c[i] = t[i]
  BY <1>2, <1>3, PrefixIs
<1> QED
  BY <1>4, <1>5 DEF c

\* Two paths share a number of elements, and not one more.
LEMMA SharedIs ==
    ASSUME NEW base \in Path, NEW path \in Path
    PROVE  /\ Shared(base, path) \in 0..Len(base)
           /\ Shared(base, path) <= Len(path)
           /\ IsPrefix(base, path) <=> Shared(base, path) = Len(base)
<1> DEFINE Alike(n) == n <= Len(path) /\ \A i \in 1..n : base[i] = path[i]
           T == {n \in 0..Len(base) : ~Alike(n)}
           Fits(n) == /\ n \in 0..Len(base) /\ IsPrefix(SubSeq(base, 1, n), path)
                      /\ n < Len(base) => ~IsPrefix(SubSeq(base, 1, n + 1), path)
<1>1. Len(base) \in Nat /\ Len(path) \in Nat
  BY DEF Path
<1>2. \A n \in 0..Len(base) : IsPrefix(SubSeq(base, 1, n), path) <=> Alike(n)
  <2> TAKE n \in 0..Len(base)
  <2> QED
    BY CutIs DEF Path
<1>3. IsPrefix(base, path) <=> Alike(Len(base))
  BY PrefixIs DEF Path
<1>4. Alike(0)
  BY <1>1
<1> HIDE DEF Alike
<1>5. \E n : Fits(n)
  <2>1. CASE T = {}
    <3>1. Len(base) \in 0..Len(base)
      BY <1>1
    <3>2. Fits(Len(base))
      BY <1>2, <2>1, <3>1
    <3> QED
      BY <3>2
  <2>2. CASE T # {}
    <3>1. PICK m \in T : \A k \in T : m <= k
      <4>1. T \in SUBSET Nat
        OBVIOUS
      <4> HIDE DEF T
      <4> QED
        BY <2>2, <4>1, LeastOf
    <3>2. m # 0 /\ m \in 0..Len(base)
      BY <1>4, <3>1
    <3>3. m - 1 \in 0..Len(base) /\ (m - 1) + 1 = m /\ ~(m <= m - 1)
      BY <1>1, <3>2
    <3>4. Alike(m - 1) /\ ~Alike(m)
      BY <3>1, <3>3
    <3>5. Fits(m - 1)
      BY <1>2, <3>2, <3>3, <3>4
    <3> QED
      BY <3>5
  <2> QED
    BY <2>1, <2>2
<1> DEFINE n == Shared(base, path)
<1>6. n = CHOOSE k \in 0..Len(base) :
              /\ IsPrefix(SubSeq(base, 1, k), path)
              /\ k < Len(base) => ~IsPrefix(SubSeq(base, 1, k + 1), path)
  BY DEF Shared
<1> HIDE DEF n
<1>7. Fits(n)
  BY <1>5, <1>6
<1>8. Alike(n) /\ n \in 0..Len(base)
  BY <1>2, <1>7
<1>9. n < Len(base) => ~Alike(n + 1)
  <2> SUFFICES ASSUME n < Len(base) PROVE ~Alike(n + 1)
    OBVIOUS
  <2>1. n + 1 \in 0..Len(base)
    BY <1>1, <1>8
  <2> QED
    BY <1>2, <1>7, <2>1
<1>10. n <= Len(path)
  BY <1>8 DEF Alike
<1>11. Alike(Len(base)) => n = Len(base)
  <2> SUFFICES ASSUME Alike(Len(base)), n < Len(base) PROVE FALSE
    BY <1>1, <1>8
  <2>1. Alike(n + 1)
    BY <1>1, <1>8 DEF Alike
  <2> QED
    BY <1>9, <2>1
<1>12. n = Len(base) => Alike(Len(base))
  BY <1>8
<1> QED
  BY <1>3, <1>8, <1>10, <1>11, <1>12 DEF n

\* withinDir accepts what is below the directory, and what is beside it but for
\* a path that goes on with "..".
LEMMA WithinMeans ==
    ASSUME NEW base \in Path, NEW path \in Path
    PROVE  withinDir(base, path) <=>
             IsPrefix(base, path) /\ (Len(base) < Len(path) => path[Len(base) + 1] # Up)
<1> DEFINE n == Shared(base, path)
           ups == [i \in 1..Len(base) - n |-> Up]
           rest == SubSeq(path, n + 1, Len(path))
           rel == ups \o rest
<1>1. /\ Len(base) \in Nat /\ Len(path) \in Nat /\ n \in 0..Len(base) /\ n <= Len(path)
      /\ IsPrefix(base, path) <=> n = Len(base)
  BY SharedIs DEF Path
<1>2. withinDir(base, path) <=> rel = <<>> \/ rel[1] # Up
  BY DEF withinDir, Rel
<1> HIDE DEF n
<1>3. ups \in Seq(Elements) /\ Len(ups) = Len(base) - n /\ \A i \in 1..(Len(base) - n) : ups[i] = Up
  <2>1. Up \in Elements
    BY ElementsAssumption
  <2> DEFINE m == Len(base) - n
             S == Elements
  <2>2. m \in Nat /\ Up \in S
    BY <1>1, <2>1
  <2> HIDE DEF m, S
  <2> DEFINE u == [i \in 1..m |-> Up]
  <2>3. u \in [1..m -> S]
    BY <2>2
  <2>4. u \in Seq(S) /\ Len(u) = m /\ \A i \in 1..m : u[i] = Up
    BY <2>2, <2>3
  <2> QED
    BY <2>4 DEF m, S
<1>4. rest \in Seq(Elements) /\ Len(rest) = Len(path) - n /\ (n < Len(path) => rest[1] = path[n + 1])
  <2> DEFINE S == Elements
  <2>1. \A i \in (n + 1)..Len(path) : path[i] \in S
    BY <1>1 DEF Path
  <2> HIDE DEF S
  <2>2. n + 1 \in Int /\ Len(path) \in Int
    BY <1>1
  <2>3. /\ rest \in Seq(S) /\ Len(rest) = IF n + 1 <= Len(path) THEN Len(path) - (n + 1) + 1 ELSE 0
        /\ \A i \in 1..(Len(path) - (n + 1) + 1) : rest[i] = path[n + 1 + i - 1]
    BY <2>1, <2>2, SubSeqProperties
  <2> HIDE DEF rest
  <2>4. Len(rest) = Len(path) - n
    BY <1>1, <2>3
  <2>5. n < Len(path) => rest[1] = path[n + 1]
    <3> SUFFICES ASSUME n < Len(path) PROVE rest[1] = path[n + 1]
      OBVIOUS
    <3>1. 1 \in 1..(Len(path) - (n + 1) + 1) /\ n + 1 + 1 - 1 = n + 1
      BY <1>1
    <3> QED
      BY <2>3, <3>1
  <2> QED
    BY <2>3, <2>4, <2>5 DEF S
<1> HIDE DEF ups, rest
<1>5. /\ rel \in Seq(Elements) /\ Len(rel) = Len(ups) + Len(rest)
      /\ \A i \in 1..(Len(ups) + Len(rest)) : rel[i] = IF i <= Len(ups) THEN ups[i] ELSE rest[i - Len(ups)]
  BY <1>3, <1>4, ConcatProperties
<1> HIDE DEF rel
<1>6. CASE n = Len(base)
  <2>1. Len(ups) = 0 /\ Len(rel) = Len(path) - Len(base)
    BY <1>1, <1>3, <1>4, <1>5, <1>6
  <2>2. rel = <<>> <=> ~(Len(base) < Len(path))
    <3>1. rel = <<>> <=> Len(rel) = 0
      BY <1>5, EmptySeq
    <3>2. Len(base) <= Len(path)
      BY <1>1, <1>6
    <3> QED
      BY <1>1, <2>1, <3>1, <3>2
  <2>3. Len(base) < Len(path) => rel[1] = path[Len(base) + 1]
    <3> SUFFICES ASSUME Len(base) < Len(path) PROVE rel[1] = path[Len(base) + 1]
      OBVIOUS
    <3>1. 1 \in 1..(Len(ups) + Len(rest)) /\ ~(1 <= Len(ups)) /\ 1 - Len(ups) = 1
      BY <1>1, <1>4, <1>6, <2>1
    <3>2. rel[1] = rest[1]
      BY <1>5, <3>1
    <3> QED
      BY <1>4, <1>6, <3>2
  <2> QED
    BY <1>1, <1>2, <1>6, <2>2, <2>3
<1>7. CASE n # Len(base)
  <2>1. Len(ups) \in Nat /\ 1 <= Len(ups) /\ ups[1] = Up /\ Len(rest) \in Nat
    BY <1>1, <1>3, <1>4, <1>7
  <2>2. 1 \in 1..(Len(ups) + Len(rest))
    BY <2>1
  <2>3. rel[1] = Up
    BY <1>5, <2>1, <2>2
  <2>4. rel # <<>>
    <3>1. Len(rel) # 0
      BY <1>5, <2>1
    <3> QED
      BY <3>1
  <2> QED
    BY <1>1, <1>2, <1>7, <2>3, <2>4
<1> QED
  BY <1>6, <1>7

-----------------------------------------------------------------------------
(* Names and where they lead.                                              *)

\* What is below a directory has a clean path from there.
LEMMA CleanFrom ==
    ASSUME NEW s \in Path, NEW t, Clean(t), IsPrefix(s, t)
    PROVE  Clean(From(s, t)) /\ From(s, t) \in Path /\ t \in Path
<1>1. t \in Seq(Elements) /\ s \in Seq(Elements)
  BY DEF Clean, Path
<1>2. Len(s) <= Len(t) /\ Len(s) \in Nat /\ Len(t) \in Nat
  BY <1>1, PrefixIs
<1>3. /\ From(s, t) \in Seq(Elements) /\ Len(From(s, t)) = Len(t) - Len(s)
      /\ \A i \in 1..(Len(t) - Len(s)) : From(s, t)[i] = t[Len(s) + i]
  BY <1>1, <1>2, FromIs
<1> DEFINE r == From(s, t)
<1> HIDE DEF r
<1>4. DOMAIN r = 1..(Len(t) - Len(s)) /\ DOMAIN t = 1..Len(t)
  BY <1>1, <1>3 DEF r
<1>5. \A i \in DOMAIN r : Len(s) + i \in DOMAIN t /\ r[i] = t[Len(s) + i]
  BY <1>2, <1>3, <1>4 DEF r
<1>6. \A i \in DOMAIN r : r[i] \notin {Here, Up}
  BY <1>5 DEF Clean
<1>7. Clean(r)
  BY <1>3, <1>6 DEF Clean, Path, r
<1> QED
  BY <1>1, <1>3, <1>7 DEF r, Path

\* A clean name goes below the receiver's directory as it is.
LEMMA CleanLands ==
    ASSUME NEW name, Clean(name)
    PROVE  /\ name \in Path /\ name \in Named
           /\ Dest(name) = OutDir \o name /\ Dest(name) \in Path
<1>1. <<>> \in Path /\ <<>> \in Named /\ OutDir \in Path /\ name \in Path
  BY DirectoriesAssumption DEF Path, Named, Clean
<1>2. Join(OutDir, <<>>) = OutDir
  BY <1>1, JoinLast
<1>3. Join(OutDir, <<>> \o name) = OutDir \o name
  <2> DEFINE e == <<>>
  <2>1. e \in Named /\ Join(OutDir, e) = OutDir
    BY <1>1, <1>2
  <2> HIDE DEF e
  <2>2. Join(OutDir, e \o name) = Join(OutDir, e) \o name
    <3>1. e \in Named /\ OutDir \in Path /\ Join(OutDir, e) \in Path /\ Clean(name)
      BY <1>1, <2>1
    <3> QED
      BY <3>1, JoinAppends, Zenon
  <2> QED
    BY <2>1, <2>2 DEF e
<1>4. <<>> \o name = name /\ OutDir \o name \in Path
  BY <1>1, ConcatEmptySeq, ConcatProperties DEF Path
<1> QED
  BY <1>1, <1>3, <1>4, PathIsNamed DEF Dest

\* A name from the root leads to where it leads without its slash.
LEMMA TopLands ==
    ASSUME NEW below, Clean(below)
    PROVE  /\ <<Top>> \o below \in Named
           /\ Dest(<<Top>> \o below) = OutDir \o below
           /\ Dest(<<Top>> \o below) \in Path
<1> DEFINE t == <<Top>>
<1>1. t \in Named /\ t # <<>> /\ Last(t) = Top /\ OutDir \in Path
  BY DirectoriesAssumption DEF Named, Last
<1>2. Front(t) = <<>>
  BY DEF Front
<1>3. <<>> \in Named
  BY DEF Named
<1>4. Join(OutDir, <<>>) = OutDir
  BY <1>3, JoinLast
<1> HIDE DEF t
<1>5. Join(OutDir, t) = Enter(OutDir, Top)
  BY <1>1, <1>2, <1>4, JoinLast
<1>6. Join(OutDir, t) = OutDir
  BY <1>5 DEF Enter
<1>7. /\ t \o below \in Named /\ Join(OutDir, t \o below) = OutDir \o below
      /\ Join(OutDir, t \o below) \in Path
  <2>1. /\ t \o below \in Named /\ Join(OutDir, t \o below) = Join(OutDir, t) \o below
        /\ Join(OutDir, t \o below) \in Path
    BY <1>1, <1>6, JoinAppends
  <2> QED
    BY <1>6, <2>1
<1> QED
  BY <1>7 DEF t, Dest

\* The argument of collectFiles that an asked path becomes.
Arg(p) ==
    IF via = "bridge"
    THEN [at |-> Location(p), base |-> Base(Location(p)), reached |-> TRUE]
    ELSE Argument(p)

\* A path that may be asked for.
Askable(p) == Clean(root) /\ via \in {"bridge", "cli"} /\ p \in Path /\ (via = "cli" => p # <<>>)

LEMMA LocationIs ==
    ASSUME NEW p, Askable(p)
    PROVE  /\ Clean(Location(p)) /\ Location(p) \in Path
           /\ Arg(p).at = Location(p)
           /\ Arg(p).base = IF via = "bridge" THEN Base(Location(p)) ELSE Last(p)
           /\ Arg(p).reached = (via = "bridge" \/ Reached(p))
<1>1. Clean(root) /\ Clean(Cwd) /\ root \in Path /\ Cwd \in Path
  BY DirectoriesAssumption DEF Askable, Clean
<1>2. Clean(Join(root, p)) /\ Clean(Join(Cwd, p))
  BY <1>1, JoinType DEF Askable
<1>3. Clean(Location(p)) /\ Location(p) \in Path
  BY <1>2 DEF Location, Clean
<1>4. Arg(p).at = Location(p)
  BY DEF Arg, Argument, Location
<1>5. Arg(p).base = IF via = "bridge" THEN Base(Location(p)) ELSE Last(p)
  BY DEF Arg, Argument, Askable, Base
<1>6. Arg(p).reached = (via = "bridge" \/ Reached(p))
  <2>1. Reached(p) \in BOOLEAN
    BY DEF Reached
  <2> QED
    BY <2>1 DEF Arg, Argument
<1> QED
  BY <1>3, <1>4, <1>5, <1>6

\* An argument whose last element is a name keeps it as the last of its place.
LEMMA NamedIs ==
    ASSUME NEW p, Askable(p), via = "cli", Last(p) \notin {Here, Up}
    PROVE  Location(p) # <<>> /\ Last(Location(p)) = Last(p)
<1>1. p \in Path /\ p # <<>> /\ p \in Seq(Elements)
  BY DEF Askable, Path
<1>2. Front(p) \in Path /\ Last(p) \in Elements /\ Last(p) # Top
  BY <1>1, FrontIs, ElementsAssumption DEF Path
<1>3. Cwd \in Path /\ p \in Named
  BY <1>1, PathIsNamed, DirectoriesAssumption DEF Clean
<1> DEFINE d == Join(Cwd, Front(p))
<1>4. d \in Seq(Elements)
  BY <1>2, <1>3, JoinType DEF Path
<1>5. Location(p) = Enter(d, Last(p))
  BY <1>1, <1>3, JoinLast DEF Location
<1> HIDE DEF d
<1>6. Location(p) = Append(d, Last(p))
  BY <1>2, <1>5 DEF Enter
<1>7. /\ Append(d, Last(p)) # <<>> /\ Len(Append(d, Last(p))) = Len(d) + 1
      /\ Append(d, Last(p))[Len(d) + 1] = Last(p)
  BY <1>2, <1>4, AppendProperties
<1>8. Last(Append(d, Last(p))) = Append(d, Last(p))[Len(Append(d, Last(p)))]
  BY DEF Last
<1> QED
  BY <1>6, <1>7, <1>8

\* A path of a message that leads to the root "/".
AtTop(p) == via = "bridge" /\ Location(p) = <<>>

\* Where a file lands by its name is where it should go (see Goal); its name is
\* clean but for an argument that ends in "..", and after a slash from the root.
LEMMA NameLands ==
    ASSUME NEW p, Askable(p), NEW f \in Source, IsPrefix(Location(p), f)
    PROVE  LET name == Name(Arg(p), f)
           IN  /\ name \in Named
               /\ Dest(name) = Goal(p, f) /\ Dest(name) \in Path
               /\ ~EndsIn(p, Up) /\ ~AtTop(p) => Clean(name)
               /\ AtTop(p) => \E below : Clean(below) /\ name = <<Top>> \o below
<1> DEFINE at == Location(p)
           base == Arg(p).base
           below == From(at, f)
           name == Name(Arg(p), f)
<1>1. Clean(at) /\ at \in Path /\ Clean(f) /\ f \in Path
  BY LocationIs, SourceAssumption DEF Clean
<1>2. Clean(below) /\ below \in Path
  BY <1>1, CleanFrom
<1>3. name = (IF base = Here THEN <<>> ELSE <<base>>) \o below
  BY LocationIs DEF Name
<1>4. base = IF via = "bridge" THEN (IF at = <<>> THEN Top ELSE Last(at)) ELSE Last(p)
  BY LocationIs DEF Base
<1>5. Here # Up /\ Top # Here /\ "cli" # "bridge"
  BY DEF Here, Up, Top
<1>6. ASSUME at # <<>>, base = Last(at), base \notin {Here, Up}
      PROVE  /\ Clean(name) /\ name \in Named
             /\ Dest(name) = OutDir \o From(Front(at), f) /\ Dest(name) \in Path
  <2>1. name = From(Front(at), f)
    <3>1. From(Front(at), f) = <<Last(at)>> \o From(at, f)
      BY <1>1, <1>6, FromParent DEF Path
    <3> QED
      BY <1>3, <1>6, <3>1
  <2>2. Front(at) \in Path /\ Len(Front(at)) = Len(at) - 1 /\ Len(at) \in Nat \ {0}
        /\ \A i \in 1..(Len(at) - 1) : Front(at)[i] = at[i]
    BY <1>1, <1>6, FrontIs DEF Path
  <2>3. IsPrefix(Front(at), f)
    <3> DEFINE w == Front(at)
    <3>1. Len(at) <= Len(f) /\ (\A i \in 1..Len(at) : at[i] = f[i]) /\ Len(f) \in Nat
      BY <1>1, PrefixIs DEF Path
    <3>2. w \in Path /\ Len(w) = Len(at) - 1 /\ \A i \in 1..(Len(at) - 1) : w[i] = at[i]
      BY <2>2
    <3> HIDE DEF w, at
    <3>3. Len(w) <= Len(f) /\ \A i \in 1..Len(w) : w[i] = f[i]
      BY <2>2, <3>1, <3>2
    <3>4. IsPrefix(w, f)
      BY <1>1, <3>2, <3>3, PrefixIs DEF Path
    <3> QED
      BY <3>4 DEF w
  <2>4. Clean(From(Front(at), f))
    BY <1>1, <2>2, <2>3, CleanFrom
  <2> HIDE DEF name, at
  <2>5. Clean(name)
    BY <2>1, <2>4
  <2> QED
    BY <2>1, <2>5, CleanLands
<1>7. ASSUME base = Here
      PROVE  /\ name = below /\ Clean(name) /\ name \in Named
             /\ Dest(name) = OutDir \o below /\ Dest(name) \in Path
  <2>1. <<>> \o below = below
    BY <1>2, ConcatEmptySeq DEF Path
  <2>2. name = below
    BY <1>3, <1>7, <2>1
  <2> HIDE DEF name, below
  <2> QED
    BY <1>2, <2>2, CleanLands
<1>8. CASE via = "bridge" /\ at = <<>>
  <2>1. base = Top /\ ~EndsIn(p, Here) /\ ~EndsIn(p, Up) /\ AtTop(p)
    BY <1>4, <1>5, <1>8 DEF EndsIn, AtTop
  <2>2. Front(at) = <<>>
    <3>1. Len(<<>>) = 0
      OBVIOUS
    <3>2. Front(<<>>) = SubSeq(<<>>, 1, -1)
      BY <3>1 DEF Front
    <3>3. SubSeq(<<>>, 1, -1) = <<>>
      BY SubSeqEmpty
    <3> QED
      BY <1>8, <3>2, <3>3
  <2>3. Goal(p, f) = OutDir \o below
    BY <1>8, <2>1, <2>2 DEF Goal
  <2>4. name = <<Top>> \o below
    BY <1>3, <1>5, <2>1
  <2>5. name \in Named /\ Dest(name) = OutDir \o below /\ Dest(name) \in Path
    <3> HIDE DEF name, below
    <3> QED
      BY <1>2, <2>4, TopLands
  <2>6. \E c : Clean(c) /\ name = <<Top>> \o c
    <3> HIDE DEF name, below
    <3> QED
      BY <1>2, <2>4
  <2> QED
    BY <2>1, <2>3, <2>5, <2>6
<1>9. CASE via = "bridge" /\ at # <<>>
  <2>1. base = Last(at) /\ ~EndsIn(p, Here) /\ ~EndsIn(p, Up) /\ ~AtTop(p)
    BY <1>4, <1>5, <1>9 DEF EndsIn, AtTop
  <2>2. Last(at) \notin {Here, Up}
    <3>1. Len(at) \in DOMAIN at
      <4>1. Len(at) \in Nat \ {0} /\ DOMAIN at = 1..Len(at)
        BY <1>1, <1>9, FrontIs DEF Path
      <4> QED
        BY <4>1
    <3> QED
      BY <1>1, <3>1 DEF Clean, Last
  <2>3. Goal(p, f) = OutDir \o From(Front(at), f)
    BY <2>1 DEF Goal
  <2> QED
    BY <1>6, <1>9, <2>1, <2>2, <2>3
<1>10. CASE via = "cli" /\ Last(p) = Here
  <2>1. base = Here /\ EndsIn(p, Here) /\ ~EndsIn(p, Up) /\ ~AtTop(p)
    BY <1>4, <1>5, <1>10 DEF EndsIn, Askable, AtTop
  <2>2. Goal(p, f) = OutDir \o below
    BY <2>1 DEF Goal
  <2> QED
    BY <1>7, <2>1, <2>2
<1>11. CASE via = "cli" /\ Last(p) = Up
  <2>1. base = Up /\ EndsIn(p, Up) /\ ~AtTop(p)
    BY <1>4, <1>5, <1>11 DEF EndsIn, Askable, AtTop
  <2>2. Goal(p, f) = Join(OutDir, <<Up>>) \o below
    BY <2>1 DEF Goal
  <2>3. name = <<Up>> \o below
    BY <1>3, <1>5, <2>1
  <2>4. OutDir \in Path /\ <<Up>> \in Path /\ <<Up>> \in Named
    BY DirectoriesAssumption, ElementsAssumption DEF Path, Named
  <2>5. Join(OutDir, <<Up>>) \in Path
    BY <2>4, JoinType
  <2>6. /\ <<Up>> \o below \in Named
        /\ Join(OutDir, <<Up>> \o below) = Join(OutDir, <<Up>>) \o below
        /\ Join(OutDir, <<Up>> \o below) \in Path
    <3> DEFINE o == <<Up>>
    <3> HIDE DEF below, o
    <3>1. o \in Named /\ Join(OutDir, o) \in Path
      BY <2>4, <2>5 DEF o
    <3>2. /\ o \o below \in Named /\ Join(OutDir, o \o below) = Join(OutDir, o) \o below
          /\ Join(OutDir, o \o below) \in Path
      BY <1>2, <2>4, <3>1, JoinAppends
    <3> QED
      BY <3>2 DEF o
  <2>7. name \in Named /\ Dest(name) = Goal(p, f) /\ Dest(name) \in Path
    <3> HIDE DEF name, below
    <3> QED
      BY <2>2, <2>3, <2>6 DEF Dest
  <2> QED
    BY <2>1, <2>7
<1>12. CASE via = "cli" /\ Last(p) \notin {Here, Up}
  <2>1. base = Last(p) /\ ~EndsIn(p, Here) /\ ~EndsIn(p, Up) /\ ~AtTop(p)
    BY <1>4, <1>5, <1>12 DEF EndsIn, AtTop
  <2>2. at # <<>> /\ Last(at) = Last(p)
    BY <1>12, NamedIs
  <2>3. Goal(p, f) = OutDir \o From(Front(at), f)
    BY <2>1 DEF Goal
  <2> QED
    BY <1>6, <1>12, <2>1, <2>2, <2>3
<1> QED
  BY <1>8, <1>9, <1>10, <1>11, <1>12 DEF Askable

\* On clean paths withinDir is the prefix relation.
LEMMA CleanWithin ==
    ASSUME NEW base \in Path, NEW path, Clean(path)
    PROVE  withinDir(base, path) <=> IsPrefix(base, path)
<1>1. path \in Path
  BY DEF Clean
<1>2. Len(base) < Len(path) => path[Len(base) + 1] # Up
  <2>1. Len(base) \in Nat /\ Len(path) \in Nat /\ DOMAIN path = 1..Len(path)
    BY <1>1 DEF Path
  <2>2. Len(base) < Len(path) => Len(base) + 1 \in DOMAIN path
    BY <2>1
  <2> QED
    BY <2>2 DEF Clean
<1> QED
  BY <1>1, <1>2, WithinMeans

Item == [name : Named, src : Source]

\* The walk below an asked path finds each file once, under names that differ.
LEMMA WalkIs ==
    ASSUME NEW p, Askable(p)
    PROVE  LET found == Walk(Arg(p))
           IN  /\ found \in Seq(Item)
               /\ \A i \in DOMAIN found :
                     found[i].src \in Found(p) /\ found[i].name = Name(Arg(p), found[i].src)
               /\ \A f \in Found(p) : \E i \in DOMAIN found :
                     found[i].src = f /\ found[i].name = Name(Arg(p), f)
               /\ \A i, j \in DOMAIN found : found[i].name = found[j].name => i = j
<1> DEFINE item(f) == [name |-> Name(Arg(p), f), src |-> f]
           F == Found(p)
           W == {item(f) : f \in F}
           found == Walk(Arg(p))
<1>1. F = {g \in Below(Arg(p).at, Source) : Arg(p).reached}
  BY LocationIs DEF Found
<1>2. found = SetToSeq(W)
  BY <1>1 DEF Walk
<1>3. \A f \in F : f \in Source /\ IsPrefix(Location(p), f) /\ Name(Arg(p), f) \in Named
  <2> SUFFICES ASSUME NEW f \in F
               PROVE  f \in Source /\ IsPrefix(Location(p), f) /\ Name(Arg(p), f) \in Named
    OBVIOUS
  <2>1. f \in Source /\ IsPrefix(Location(p), f)
    BY DEF Found, Below
  <2> QED
    BY <2>1, NameLands
<1>4. IsFiniteSet(W)
  <2>1. F \subseteq Source /\ IsFiniteSet(Source)
    BY SourceAssumption DEF Found, Below
  <2>2. IsFiniteSet(F)
    BY <2>1, FS_Subset
  <2> DEFINE map == [f \in F |-> item(f)]
  <2>3. map \in [F -> W]
    OBVIOUS
  <2>4. \A w \in W : \E f \in F : map[f] = w
    OBVIOUS
  <2>5. map \in Surjection(F, W)
    BY <2>3, <2>4 DEF Surjection
  <2> HIDE DEF F, W, map
  <2> QED
    BY <2>2, <2>5, FS_Surjection
<1>5. W \subseteq Item
  BY <1>3 DEF Item
<1>6. \A f, g \in F : Name(Arg(p), f) = Name(Arg(p), g) => f = g
  <2> SUFFICES ASSUME NEW f \in F, NEW g \in F, Name(Arg(p), f) = Name(Arg(p), g)
               PROVE  f = g
    OBVIOUS
  <2> DEFINE at == Location(p)
             head == IF Arg(p).base = Here THEN <<>> ELSE <<Arg(p).base>>
  <2>1. at \in Path /\ f \in Source /\ g \in Source /\ IsPrefix(at, f) /\ IsPrefix(at, g)
    BY <1>3, LocationIs
  <2>2. /\ From(at, f) \in Named /\ From(at, g) \in Named
        /\ f \in Seq(Elements) /\ g \in Seq(Elements) /\ at \in Seq(Elements)
    BY <2>1, CleanFrom, PathIsNamed, SourceAssumption DEF Path
  <2>3. head \o From(at, f) = head \o From(at, g)
    BY LocationIs DEF Name
  <2>4. head \in Named
    <3>1. Arg(p).base \in Elements \cup {Top}
      <4>1. CASE via = "bridge"
        <5>1. at # <<>> => Last(at) \in Elements
          BY <2>2, FrontIs
        <5> QED
          BY <4>1, <5>1, LocationIs DEF Base
      <4>2. CASE via # "bridge"
        <5>1. p # <<>> /\ p \in Seq(Elements)
          BY <4>2 DEF Askable, Path
        <5>2. Last(p) \in Elements
          BY <5>1, FrontIs
        <5> QED
          BY <4>2, <5>2, LocationIs
      <4> QED
        BY <4>1, <4>2
    <3> DEFINE base == Arg(p).base
    <3> HIDE DEF base
    <3>2. <<>> \in Named /\ <<base>> \in Named
      BY <3>1 DEF base, Named
    <3> QED
      BY <3>2 DEF base
  <2> HIDE DEF head, at
  <2>5. From(at, f) = From(at, g)
    BY <2>2, <2>3, <2>4, AppendedIs DEF Named
  <2>6. at \o From(at, f) = f /\ at \o From(at, g) = g
    <3>1. Len(at) <= Len(f) /\ Len(at) <= Len(g)
      BY <2>1, <2>2, PrefixIs
    <3> QED
      BY <2>1, <2>2, <3>1, FromIs
  <2> QED
    BY <2>5, <2>6
<1> HIDE DEF W, F, found
<1>7. /\ found \in Seq(W)
      /\ \A i, j \in DOMAIN found : found[i] = found[j] => i = j
      /\ \A w \in W : \E i \in DOMAIN found : found[i] = w
  BY <1>2, <1>4, SetToSeqIs
<1>8. found \in Seq(Item)
  BY <1>5, <1>7, SeqMonotonic
<1>9. \A i \in DOMAIN found : found[i] \in W
  BY <1>7
<1>10. \A i \in DOMAIN found : found[i].src \in F /\ found[i].name = Name(Arg(p), found[i].src)
                               /\ found[i] = item(found[i].src)
  BY <1>9 DEF W
<1>11. \A f \in F : \E i \in DOMAIN found : found[i].src = f /\ found[i].name = Name(Arg(p), f)
  <2> TAKE f \in F
  <2>1. item(f) \in W /\ item(f).src = f /\ item(f).name = Name(Arg(p), f)
    BY DEF W
  <2> QED
    BY <1>7, <2>1
<1>12. \A i, j \in DOMAIN found : found[i].name = found[j].name => i = j
  <2> TAKE i, j \in DOMAIN found
  <2>1. found[i].name = found[j].name => found[i].src = found[j].src
    BY <1>6, <1>10
  <2> QED
    BY <1>7, <1>10, <2>1
<1> QED
  BY <1>8, <1>10, <1>11, <1>12 DEF F, found

-----------------------------------------------------------------------------
(* The size of a message.                                                  *)

\* The sizes that are added up.
LEMMA SizesIs ==
    ASSUME NEW paths \in Seq(Path)
    PROVE  LET upTo == Sizes(paths)
           IN  /\ upTo[0] = 0
               /\ \A i \in 1..Len(paths) : upTo[i] = upTo[i - 1] + Len(paths[i])
<1> DEFINE Goes(n, g) ==
             g = [i \in 0..n |-> IF i = 0 THEN 0 ELSE g[i - 1] + Len(paths[i])]
           T == {n \in Nat : ~\E g : Goes(n, g)}
<1>1. ASSUME T # {} PROVE FALSE
  <2>1. PICK n \in T : \A m \in T : n <= m
    <3>1. T \in SUBSET Nat
      OBVIOUS
    <3> HIDE DEF T
    <3> QED
      BY <1>1, <3>1, LeastOf
  <2>2. n \in Nat /\ ~\E g : Goes(n, g)
    OBVIOUS
  <2>3. n # 0
    <3>1. Goes(0, [i \in 0..0 |-> 0])
      OBVIOUS
    <3> HIDE DEF Goes
    <3> QED
      BY <2>2, <3>1
  <2>4. PICK g : Goes(n - 1, g)
    <3>1. n - 1 \in Nat /\ ~(n <= n - 1)
      BY <2>2, <2>3
    <3> HIDE DEF Goes
    <3> QED
      BY <2>1, <3>1
  <2> DEFINE h == [i \in 0..n |-> IF i = n THEN g[n - 1] + Len(paths[n]) ELSE g[i]]
  <2>5. \A i \in 0..(n - 1) : g[i] = IF i = 0 THEN 0 ELSE g[i - 1] + Len(paths[i])
    BY <2>4
  <2>6. \A i \in 0..n : h[i] = IF i = 0 THEN 0 ELSE h[i - 1] + Len(paths[i])
    BY <2>2, <2>3, <2>5
  <2>7. Goes(n, h)
    <3> DEFINE k == [i \in 0..n |-> IF i = 0 THEN 0 ELSE h[i - 1] + Len(paths[i])]
    <3>1. \A i \in 0..n : h[i] = k[i]
      BY <2>6
    <3>2. h = k
      BY <3>1
    <3> HIDE DEF h
    <3> QED
      BY <3>2
  <2> HIDE DEF Goes, h
  <2> QED
    BY <2>2, <2>7
<1>2. Len(paths) \in Nat
  OBVIOUS
<1>3. \E g : Goes(Len(paths), g)
  <2> HIDE DEF Goes
  <2> QED
    BY <1>1, <1>2
<1> DEFINE upTo == Sizes(paths)
<1>4. upTo = CHOOSE g : Goes(Len(paths), g)
  BY DEF Sizes
<1>5. Goes(Len(paths), upTo)
  <2> HIDE DEF Goes, upTo
  <2> QED
    BY <1>3, <1>4
<1>6. \A i \in 0..Len(paths) : upTo[i] = IF i = 0 THEN 0 ELSE upTo[i - 1] + Len(paths[i])
  <2> HIDE DEF upTo
  <2> QED
    BY <1>5
<1> HIDE DEF upTo
<1>7. upTo[0] = 0 /\ \A i \in 1..Len(paths) : upTo[i] = upTo[i - 1] + Len(paths[i])
  BY <1>2, <1>6
<1> QED
  BY <1>7 DEF upTo

LEMMA SizesType ==
    ASSUME NEW paths \in Seq(Path)
    PROVE  \A i \in 0..Len(paths) : Sizes(paths)[i] \in Nat
<1> DEFINE up == Sizes(paths)
           T == {i \in 0..Len(paths) : up[i] \notin Nat}
<1>1. /\ Len(paths) \in Nat /\ up[0] = 0
      /\ \A i \in 1..Len(paths) : up[i] = up[i - 1] + Len(paths[i]) /\ Len(paths[i]) \in Nat
  <2>1. \A i \in 1..Len(paths) : Len(paths[i]) \in Nat
    BY DEF Path
  <2> QED
    BY <2>1, SizesIs
<1> HIDE DEF up
<1>2. ASSUME T # {} PROVE FALSE
  <2>1. PICK m \in T : \A k \in T : m <= k
    <3>1. T \in SUBSET Nat
      OBVIOUS
    <3> HIDE DEF T
    <3> QED
      BY <1>2, <3>1, LeastOf
  <2>2. m \in 1..Len(paths) /\ m - 1 \in 0..Len(paths) /\ ~(m <= m - 1)
    BY <1>1, <2>1
  <2>3. up[m - 1] \in Nat
    BY <2>1, <2>2
  <2> QED
    BY <1>1, <2>1, <2>2, <2>3
<1> QED
  BY <1>2 DEF up

\* The size of a message cut in two is that of both parts.
LEMMA SizeAdds ==
    ASSUME NEW p \in Seq(Path), NEW q \in Seq(Path)
    PROVE  /\ p \o q \in Seq(Path)
           /\ Size(p) \in Nat /\ Size(q) \in Nat
           /\ Size(p \o q) = Size(p) + Size(q)
<1> DEFINE w == p \o q
           up == Sizes(p)
           uq == Sizes(q)
           uw == Sizes(w)
<1>1. /\ Len(p) \in Nat /\ Len(q) \in Nat
      /\ w \in Seq(Path) /\ Len(w) = Len(p) + Len(q)
      /\ \A i \in 1..(Len(p) + Len(q)) : w[i] = IF i <= Len(p) THEN p[i] ELSE q[i - Len(p)]
  BY ConcatProperties
<1> HIDE DEF w
<1>2. /\ up[0] = 0 /\ \A i \in 1..Len(p) : up[i] = up[i - 1] + Len(p[i])
      /\ uq[0] = 0 /\ \A i \in 1..Len(q) : uq[i] = uq[i - 1] + Len(q[i])
      /\ uw[0] = 0 /\ \A i \in 1..Len(w) : uw[i] = uw[i - 1] + Len(w[i])
  BY <1>1, SizesIs
<1>3. /\ \A i \in 0..Len(p) : up[i] \in Nat
      /\ \A i \in 0..Len(q) : uq[i] \in Nat
      /\ \A i \in 0..Len(w) : uw[i] \in Nat
  BY <1>1, SizesType
<1>4. \A i \in 1..Len(q) : Len(q[i]) \in Nat
  BY DEF Path
<1> HIDE DEF up, uq, uw
<1>5. uw[Len(p)] = up[Len(p)]
  <2> DEFINE T == {i \in 0..Len(p) : uw[i] # up[i]}
  <2>1. ASSUME T # {} PROVE FALSE
    <3>1. PICK m \in T : \A k \in T : m <= k
      <4>1. T \in SUBSET Nat
        OBVIOUS
      <4> HIDE DEF T
      <4> QED
        BY <2>1, <4>1, LeastOf
    <3>2. m \in 1..Len(p) /\ m - 1 \in 0..Len(p) /\ ~(m <= m - 1) /\ m \in 1..Len(w)
      BY <1>1, <1>2, <3>1
    <3>3. uw[m - 1] = up[m - 1] /\ w[m] = p[m]
      BY <1>1, <3>1, <3>2
    <3>4. uw[m] = up[m]
      BY <1>2, <3>2, <3>3
    <3> QED
      BY <3>1, <3>4
  <2>2. Len(p) \in 0..Len(p)
    BY <1>1
  <2> QED
    BY <2>1, <2>2
<1>6. uw[Len(p) + Len(q)] = up[Len(p)] + uq[Len(q)]
  <2> DEFINE T == {i \in 0..Len(q) : uw[Len(p) + i] # up[Len(p)] + uq[i]}
  <2>1. ASSUME T # {} PROVE FALSE
    <3>1. PICK m \in T : \A k \in T : m <= k
      <4>1. T \in SUBSET Nat
        OBVIOUS
      <4> HIDE DEF T
      <4> QED
        BY <2>1, <4>1, LeastOf
    <3>2. m \in 0..Len(q) /\ m # 0
      <4>1. up[Len(p)] \in Nat /\ Len(p) + 0 = Len(p)
        BY <1>1, <1>3
      <4>2. uw[Len(p) + 0] = up[Len(p)] + uq[0]
        BY <1>2, <1>5, <4>1
      <4> QED
        BY <3>1, <4>2
    <3>3. /\ m \in 1..Len(q) /\ m - 1 \in 0..Len(q) /\ ~(m <= m - 1)
          /\ Len(p) + m \in 1..Len(w) /\ (Len(p) + m) - 1 = Len(p) + (m - 1)
          /\ ~(Len(p) + m <= Len(p)) /\ (Len(p) + m) - Len(p) = m
      BY <1>1, <3>2
    <3>4. uw[Len(p) + (m - 1)] = up[Len(p)] + uq[m - 1] /\ w[Len(p) + m] = q[m]
      BY <1>1, <3>1, <3>3
    <3>5. uw[Len(p) + m] = uw[Len(p) + (m - 1)] + Len(q[m]) /\ uq[m] = uq[m - 1] + Len(q[m])
      BY <1>2, <3>3, <3>4
    <3>6. up[Len(p)] \in Nat /\ uq[m - 1] \in Nat /\ Len(q[m]) \in Nat
      <4>1. Len(p) \in 0..Len(p)
        BY <1>1
      <4> QED
        BY <1>3, <1>4, <3>3, <4>1
    <3>7. uw[Len(p) + m] = up[Len(p)] + uq[m]
      BY <3>4, <3>5, <3>6
    <3> QED
      BY <3>1, <3>7
  <2>2. Len(q) \in 0..Len(q)
    BY <1>1
  <2> QED
    BY <2>1, <2>2
<1>7. Size(w) = uw[Len(p) + Len(q)] /\ Size(p) = up[Len(p)] /\ Size(q) = uq[Len(q)]
  BY <1>1 DEF Size, up, uq, uw
<1>8. Size(p) \in Nat /\ Size(q) \in Nat
  <2>1. Len(p) \in 0..Len(p) /\ Len(q) \in 0..Len(q)
    BY <1>1
  <2> QED
    BY <1>3, <1>7, <2>1
<1>9. w \in Seq(Path) /\ Size(w) = Size(p) + Size(q)
  BY <1>1, <1>6, <1>7
<1> QED
  BY <1>8, <1>9 DEF w

-----------------------------------------------------------------------------
(* The invariant.                                                          *)

\* What is asked for, on which side, and what the two sides have at hand.
Asked ==
    /\ Clean(root) /\ via \in {"bridge", "cli"} /\ asked \in Seq(Path)
    /\ \A i \in DOMAIN asked : Askable(asked[i])

Holding ==
    /\ items \in Seq(Item) /\ landed \in Nat
    /\ text \in [assembling : BOOLEAN, paths : Seq(Path)] /\ unsent \in Seq(Path)
    /\ stage \in {"idle", "reading", "resolving", "collecting", "announcing", "landing"}
    /\ stage # "idle" => result = "none"

\* What ReadText has and what is to come is the message.
Told ==
    /\ stage = "reading" => via = "bridge" /\ text.paths \o unsent = asked
    /\ stage = "resolving" => via = "bridge" /\ text.paths = asked
    /\ stage \in {"reading", "resolving"} => items = <<>> /\ landed = 0

\* The bridge sends nothing from outside of its root.
Admitted == via = "bridge" => \A i \in DOMAIN asked : IsPrefix(root, Location(asked[i]))

\* The items are what is found at the first n paths asked for, with other names.
Gathered(n) ==
    /\ \A j \in DOMAIN items : \E i \in 1..n :
          items[j].src \in Found(asked[i]) /\ items[j].name = Name(Arg(asked[i]), items[j].src)
    /\ \A i \in 1..n : \A f \in Found(asked[i]) : \E j \in DOMAIN items :
          items[j].src = f /\ items[j].name = Name(Arg(asked[i]), f)
    /\ \A j, k \in DOMAIN items : items[j].name = items[k].name => j = k

Pending(n) == pending = [i \in 1..Len(asked) - n |-> Arg(asked[n + i])]

Walking ==
    stage = "collecting" =>
        /\ Admitted /\ landed = 0
        /\ \E n \in 0..Len(asked) : Pending(n) /\ Gathered(n)

Walked ==
    /\ stage \in {"announcing", "landing"} => Admitted /\ Gathered(Len(asked))
    /\ stage = "announcing" => landed = 0

OnDisk(item) == Dest(item.name) \in DOMAIN disk /\ disk[Dest(item.name)] = item.src

\* What has landed, or was complete, is there and stays there.
Landing ==
    stage = "landing" =>
        /\ landed <= Len(items)
        /\ \A i \in DOMAIN items : withinDir(OutDir, Dest(items[i].name))
        /\ ~TwoNames => \A i \in DOMAIN items : i <= landed \/ i \in complete => OnDisk(items[i])

Inv ==
    /\ Asked /\ Holding /\ Told /\ Walking /\ Walked /\ Landing
    /\ LandsWhereAsked /\ RefusedForAReason

-----------------------------------------------------------------------------
(* What an action leaves alone, and what an item is.                       *)

\* As long as nobody asks for something else, it is wanted where it was.
LEMMA AskedStays ==
    ASSUME UNCHANGED <<root, via, asked>>
    PROVE  /\ \A p : Arg(p)' = Arg(p)
           /\ \A p : Location(p)' = Location(p)
           /\ \A p : Found(p)' = Found(p)
           /\ \A p, f : Goal(p, f)' = Goal(p, f)
           /\ Wanted' = Wanted /\ TwoNames' = TwoNames
           /\ Asked => Asked'
           /\ Admitted => Admitted'
<1>1. \A p : Arg(p)' = Arg(p)
  BY DEF Arg, Location, Argument, Reached
<1>2. \A p : Found(p)' = Found(p)
  BY DEF Found, Location, Reached
<1>3. \A p, f : Goal(p, f)' = Goal(p, f)
  BY DEF Goal, EndsIn, Location
<1>4. Wanted' = Wanted
  BY <1>2 DEF Wanted
<1>5. TwoNames' = TwoNames
  BY DEF TwoNames, EndsIn, Location
<1>6. \A p : Location(p)' = Location(p)
  BY DEF Location
<1>7. Asked => Asked'
  BY DEF Asked, Askable, Clean
<1>8. Admitted => Admitted'
  BY DEF Admitted, Location
<1> QED
  BY <1>1, <1>2, <1>3, <1>4, <1>5, <1>6, <1>7, <1>8

LEMMA ReasonsStay ==
    ASSUME UNCHANGED <<root, via, asked, disk>>
    PROVE  Reasons' = Reasons
<1>1. (\A p, f : Goal(p, f)' = Goal(p, f)) /\ Wanted' = Wanted
  BY AskedStays
<1>2. Goals' = Goals
  BY <1>1 DEF Goals
<1> QED
  BY <1>2 DEF Reasons, Found, Location, Reached

LEMMA GatheredStays ==
    ASSUME UNCHANGED <<root, via, asked, items>>, NEW n, Gathered(n)
    PROVE  Gathered(n)'
<1>1. (\A p : Arg(p)' = Arg(p)) /\ (\A p : Found(p)' = Found(p))
  BY AskedStays
<1> QED
  BY <1>1 DEF Gathered, Name

\* An item is a wanted file, and lands where it should.
LEMMA ItemLands ==
    ASSUME Asked, Holding, NEW n \in 0..Len(asked), Gathered(n), NEW j \in DOMAIN items
    PROVE  \E i \in 1..n :
             /\ items[j].src \in Found(asked[i])
             /\ <<i, items[j].src>> \in Wanted
             /\ <<<<i, items[j].src>>, Dest(items[j].name)>> \in Goals
             /\ Dest(items[j].name) = Goal(asked[i], items[j].src)
             /\ items[j].name \in Named /\ Dest(items[j].name) \in Path
             /\ ~EndsIn(asked[i], Up) /\ ~AtTop(asked[i]) => Clean(items[j].name)
             /\ AtTop(asked[i]) => \E below : Clean(below) /\ items[j].name = <<Top>> \o below
             /\ Admitted /\ via = "bridge" => IsPrefix(root, items[j].src)
<1>1. PICK i \in 1..n : items[j].src \in Found(asked[i])
                        /\ items[j].name = Name(Arg(asked[i]), items[j].src)
  BY DEF Gathered
<1> DEFINE p == asked[i]
           f == items[j].src
<1>2. Len(asked) \in Nat /\ DOMAIN asked = 1..Len(asked) /\ i \in DOMAIN asked
  BY DEF Asked
<1>3. Askable(p)
  BY <1>2 DEF Asked
<1>4. f \in Source /\ IsPrefix(Location(p), f)
  BY <1>1 DEF Found, Below
<1>5. /\ items[j].name \in Named /\ Dest(items[j].name) = Goal(p, f) /\ Dest(items[j].name) \in Path
      /\ ~EndsIn(p, Up) /\ ~AtTop(p) => Clean(items[j].name)
      /\ AtTop(p) => \E below : Clean(below) /\ items[j].name = <<Top>> \o below
  BY <1>1, <1>3, <1>4, NameLands
<1>6. <<i, f>> \in Wanted
  BY <1>1, <1>2 DEF Wanted
<1>7. <<<<i, f>>, Goal(p, f)>> \in Goals
  <2> DEFINE w == <<i, f>>
  <2>1. w \in Wanted /\ w[1] = i /\ w[2] = f
    BY <1>6
  <2>2. <<w, Goal(asked[w[1]], w[2])>> \in Goals
    BY <2>1 DEF Goals
  <2> QED
    BY <2>1, <2>2
<1>9. Admitted /\ via = "bridge" => IsPrefix(root, f)
  <2> SUFFICES ASSUME Admitted, via = "bridge"
               PROVE  IsPrefix(root, f)
    OBVIOUS
  <2>1. IsPrefix(root, Location(p))
    BY <1>2 DEF Admitted
  <2>2. root \in Path /\ Location(p) \in Path /\ f \in Path
    BY <1>3, <1>4, LocationIs, SourceAssumption DEF Askable, Clean
  <2> QED
    BY <1>4, <2>1, <2>2, PrefixTrans DEF Path
<1> QED
  BY <1>1, <1>5, <1>6, <1>7, <1>9

\* The reasons, one by one.
LEMMA Reasonable ==
    /\ via = "bridge" /\ Size(asked) > MaxPayload => "too large" \in Reasons
    /\ asked = <<>> => "nothing asked" \in Reasons
    /\ via = "bridge" /\ (\E i \in DOMAIN asked : ~IsPrefix(root, Location(asked[i])))
         => "outside" \in Reasons
    /\ (\E i \in DOMAIN asked : Found(asked[i]) = {}) => "missing" \in Reasons
    /\ (\E g, h \in Goals : g[1] # h[1] /\ g[2] = h[2]) => "same name" \in Reasons
    /\ (\E g \in Goals : ~IsPrefix(OutDir, g[2]) \/ \E i \in Len(OutDir) + 1 .. Len(g[2]) : g[2][i] = Up)
         => "unsafe" \in Reasons
    /\ (\E g \in Goals :
          \/ \E d \in DOMAIN disk : IsStrictPrefix(d, g[2])
          \/ IsDirectory(g[2], DOMAIN disk)) => "in the way" \in Reasons
<1>1. via = "bridge" /\ Size(asked) > MaxPayload => "too large" \in Reasons
  BY DEF Reasons
<1>2. asked = <<>> => "nothing asked" \in Reasons
  BY DEF Reasons
<1>3. via = "bridge" /\ (\E i \in DOMAIN asked : ~IsPrefix(root, Location(asked[i])))
         => "outside" \in Reasons
  BY DEF Reasons
<1>4. (\E i \in DOMAIN asked : Found(asked[i]) = {}) => "missing" \in Reasons
  BY DEF Reasons
<1>5. (\E g, h \in Goals : g[1] # h[1] /\ g[2] = h[2]) => "same name" \in Reasons
  BY DEF Reasons
<1>6. (\E g \in Goals : ~IsPrefix(OutDir, g[2]) \/ \E i \in Len(OutDir) + 1 .. Len(g[2]) : g[2][i] = Up)
         => "unsafe" \in Reasons
  BY DEF Reasons
<1>7. (\E g \in Goals :
          \/ \E d \in DOMAIN disk : IsStrictPrefix(d, g[2])
          \/ IsDirectory(g[2], DOMAIN disk)) => "in the way" \in Reasons
  BY DEF Reasons
<1> QED
  BY <1>1, <1>2, <1>3, <1>4, <1>5, <1>6, <1>7

\* A refusal that has its reason ends the send with nothing else changed.
LEMMA Refused ==
    ASSUME Inv, UNCHANGED <<root, via, asked, disk>>, stage' = "idle",
           result' \in Reasons \cup {"none"}, Holding'
    PROVE  Inv'
<1>1. Asked'
  BY AskedStays DEF Inv
<1>2. Told' /\ Walking' /\ Walked' /\ Landing'
  BY DEF Told, Walking, Walked, Landing
<1>3. result' # "ok"
  BY DEF Reasons
<1>4. LandsWhereAsked'
  BY <1>3 DEF LandsWhereAsked
<1>5. RefusedForAReason'
  BY ReasonsStay DEF RefusedForAReason
<1> QED
  BY <1>1, <1>2, <1>4, <1>5 DEF Inv

\* As long as the send goes on it has no result.
LEMMA GoesOn ==
    ASSUME stage' # "idle", Asked', Holding', Told', Walking', Walked', Landing'
    PROVE  Inv'
<1>1. result' = "none"
  BY DEF Holding
<1>2. LandsWhereAsked' /\ RefusedForAReason'
  BY <1>1 DEF LandsWhereAsked, RefusedForAReason
<1> QED
  BY <1>2 DEF Inv

-----------------------------------------------------------------------------
(* The actions.                                                            *)

LEMMA InvInit == Init => Inv
<1> SUFFICES ASSUME Init PROVE Inv
  OBVIOUS
<1>1. Asked
  BY DirectoriesAssumption DEF Init, Asked
<1>2. Holding
  BY DEF Init, Holding, None
<1>3. Told /\ Walking /\ Walked /\ Landing
  BY DEF Init, Told, Walking, Walked, Landing
<1>4. LandsWhereAsked /\ RefusedForAReason
  BY DEF Init, LandsWhereAsked, RefusedForAReason
<1> QED
  BY <1>1, <1>2, <1>3, <1>4 DEF Inv

\* What can be asked for are sequences of paths.
LEMMA SeqOfIs ==
    ASSUME NEW S, S \subseteq Path, NEW n \in Nat, NEW s \in SeqOf(S, n)
    PROVE  s \in Seq(Path) /\ \A i \in DOMAIN s : s[i] \in S
<1>1. PICK m \in 0..n : s \in [1..m -> S]
  BY DEF SeqOf
<1>2. m \in Nat
  OBVIOUS
<1> DEFINE P == Path
<1>3. s \in [1..m -> P]
  BY <1>1
<1> HIDE DEF P
<1>4. s \in Seq(P)
  BY <1>2, <1>3
<1> QED
  BY <1>1, <1>4 DEF P

LEMMA ListedIs ==
    ASSUME Clean(root)
    PROVE  listRoot \cup Untapped \subseteq Path
<1>1. ASSUME NEW f \in Below(root, Source) PROVE From(root, f) \in Path
  BY CleanFrom, SourceAssumption DEF Below, Clean
<1>2. listRoot \subseteq Path
  BY <1>1 DEF listRoot
<1> QED
  BY <1>2, PathsAssumption

LEMMA InvAskBridge ==
    ASSUME Inv, AskBridge
    PROVE  Inv'
<1>1. PICK paths \in SeqOf(listRoot \cup Untapped, MaxPaths) :
           /\ Begin("bridge", paths, "reading") /\ unsent' = paths /\ pending' = <<>>
  BY DEF AskBridge
<1>2. paths \in Seq(Path) /\ Clean(root)
  BY ListedIs, SeqOfIs, BoundsAssumption DEF Inv, Asked
<1>3. /\ via' = "bridge" /\ asked' = paths /\ stage' = "reading" /\ text' = None
      /\ items' = <<>> /\ landed' = 0 /\ result' = "none" /\ unsent' = paths /\ root' = root
  BY <1>1 DEF Begin
<1>4. Asked'
  <2>1. \A i \in DOMAIN paths : paths[i] \in Path
    BY <1>2
  <2>2. Clean(root)'
    BY <1>2, <1>3 DEF Clean
  <2> QED
    BY <1>2, <1>3, <2>1, <2>2 DEF Asked, Askable
<1>5. Holding'
  BY <1>2, <1>3 DEF Holding, None
<1>6. Told'
  <2>1. <<>> \o paths = paths
    BY <1>2, ConcatEmptySeq
  <2> QED
    BY <1>3, <2>1 DEF Told, None
<1>7. Walking' /\ Walked' /\ Landing'
  BY <1>3 DEF Walking, Walked, Landing
<1> QED
  BY <1>3, <1>4, <1>5, <1>6, <1>7, GoesOn

LEMMA InvAskCommandLine ==
    ASSUME Inv, AskCommandLine
    PROVE  Inv'
<1>1. PICK paths \in SeqOf(Arguments, MaxPaths) \ {<<>>} :
           /\ Begin("cli", paths, "collecting") /\ unsent' = <<>>
           /\ pending' = [i \in DOMAIN paths |-> Argument(paths[i])]
  BY DEF AskCommandLine
<1>2. paths \in Seq(Path) /\ Clean(root) /\ \A i \in DOMAIN paths : paths[i] \in Arguments
  BY PathsAssumption, SeqOfIs, BoundsAssumption DEF Inv, Asked
<1>3. /\ via' = "cli" /\ asked' = paths /\ stage' = "collecting" /\ text' = None
      /\ items' = <<>> /\ landed' = 0 /\ result' = "none" /\ unsent' = <<>> /\ root' = root
  BY <1>1 DEF Begin
<1>4. Asked'
  <2>1. \A i \in DOMAIN paths : paths[i] \in Path /\ paths[i] # <<>>
    BY <1>2, PathsAssumption
  <2>2. Clean(root)'
    BY <1>2, <1>3 DEF Clean
  <2> QED
    BY <1>2, <1>3, <2>1, <2>2 DEF Asked, Askable
<1>5. Holding'
  BY <1>2, <1>3 DEF Holding, None
<1>6. Walking'
  <2>1. Admitted'
    BY <1>3 DEF Admitted
  <2>2. Gathered(0)'
    BY <1>3 DEF Gathered
  <2>3. Pending(0)'
    <3>1. Len(paths) \in Nat /\ DOMAIN paths = 1..Len(paths)
      BY <1>2
    <3>2. \A p : Arg(p)' = Argument(p)
      BY <1>3 DEF Arg, Argument, Reached
    <3>3. pending' = [i \in 1..Len(paths) - 0 |-> Argument(paths[0 + i])]
      BY <1>1, <3>1
    <3>4. Pending(0)' <=> pending' = [i \in 1..Len(paths) - 0 |-> Arg(paths[0 + i])']
      BY <1>3 DEF Pending
    <3> QED
      BY <3>2, <3>3, <3>4
  <2>4. 0 \in 0..Len(asked')
    BY <1>2, <1>3
  <2> QED
    BY <1>3, <2>1, <2>2, <2>3, <2>4 DEF Walking
<1>7. Told' /\ Walked' /\ Landing'
  BY <1>3 DEF Told, Walked, Landing
<1> QED
  BY <1>3, <1>4, <1>5, <1>6, <1>7, GoesOn

LEMMA InvReadFrame ==
    ASSUME Inv, ReadFrame
    PROVE  Inv'
<1>1. stage = "reading" /\ UNCHANGED <<root, via, asked, pending, items, landed, disk, sends>>
  BY DEF ReadFrame
<1>2. PICK n \in 0..Len(unsent), final \in BOOLEAN :
        /\ final => n = Len(unsent)
        /\ unsent' = SubSeq(unsent, n + 1, Len(unsent))
        /\ IF TooLarge(Frame(SubSeq(unsent, 1, n), final))
           THEN Ends("too large") /\ UNCHANGED text
           ELSE /\ text' = [assembling |-> TRUE,
                            paths |-> Assembled(Frame(SubSeq(unsent, 1, n), final))]
                /\ stage' = IF final THEN "resolving" ELSE stage
                /\ UNCHANGED result
  BY DEF ReadFrame
<1> DEFINE part == SubSeq(unsent, 1, n)
           rest == SubSeq(unsent, n + 1, Len(unsent))
           frame == Frame(part, final)
<1>3. /\ text \in [assembling : BOOLEAN, paths : Seq(Path)] /\ unsent \in Seq(Path)
      /\ items \in Seq(Item) /\ landed \in Nat /\ result = "none"
      /\ via = "bridge" /\ text.paths \o unsent = asked /\ items = <<>> /\ landed = 0
      /\ text.paths \in Seq(Path)
  BY <1>1 DEF Inv, Holding, Told
<1>4. part \in Seq(Path) /\ rest \in Seq(Path) /\ part \o rest = unsent
  BY <1>3, CutInTwo
<1>5. frame.part = part
  BY DEF Frame
<1> HIDE DEF part, rest, frame
<1>6. CASE TooLarge(frame)
  <2>1. stage' = "idle" /\ result' = "too large" /\ UNCHANGED text /\ unsent' = rest
    BY <1>2, <1>6 DEF Ends, part, rest, frame
  <2>2. Size(asked) > MaxPayload
    <3>1. /\ Size(asked) = Size(text.paths) + Size(unsent)
          /\ Size(text.paths) \in Nat /\ Size(unsent) \in Nat
      BY <1>3, SizeAdds
    <3>2. /\ Size(unsent) = Size(part) + Size(rest) /\ Size(part) \in Nat /\ Size(rest) \in Nat
      BY <1>4, SizeAdds
    <3>3. Size(part) > MaxPayload \/ Size(text.paths) + Size(part) > MaxPayload
      BY <1>5, <1>6 DEF TooLarge
    <3>4. MaxPayload \in Nat
      BY BoundsAssumption
    <3> QED
      BY <3>1, <3>2, <3>3, <3>4
  <2>3. result' \in Reasons
    BY <1>3, <2>1, <2>2, Reasonable
  <2>4. Holding'
    BY <1>1, <1>3, <1>4, <2>1 DEF Holding
  <2> QED
    BY <1>1, <2>1, <2>3, <2>4, Refused
<1>7. CASE ~TooLarge(frame)
  <2>1. /\ text' = [assembling |-> TRUE, paths |-> text.paths \o part] /\ unsent' = rest
        /\ stage' = (IF final THEN "resolving" ELSE "reading") /\ result' = "none"
        /\ final => n = Len(unsent)
    BY <1>1, <1>2, <1>3, <1>5, <1>7 DEF Assembled, part, rest, frame
  <2>2. text.paths \o part \in Seq(Path)
    BY <1>3, <1>4, ConcatProperties
  <2>3. Holding'
    BY <1>1, <1>3, <1>4, <2>1, <2>2 DEF Holding
  <2>4. Told'
    <3>1. final => part = unsent
      BY <1>3, <2>1, SubSeqFull DEF part
    <3>2. (text.paths \o part) \o rest = text.paths \o (part \o rest)
      <4> DEFINE t == text.paths
      <4>1. t \in Seq(Path) /\ part \in Seq(Path) /\ rest \in Seq(Path)
        BY <1>3, <1>4
      <4> HIDE DEF t
      <4>2. (t \o part) \o rest = t \o (part \o rest)
        BY <4>1, ConcatAssociative
      <4> QED
        BY <4>2 DEF t
    <3>3. (text.paths \o part) \o rest = asked
      BY <1>3, <1>4, <3>2
    <3> QED
      BY <1>1, <1>3, <2>1, <3>1, <3>3 DEF Told
  <2>5. Asked'
    BY <1>1, AskedStays DEF Inv
  <2>6. Walking' /\ Walked' /\ Landing'
    BY <2>1 DEF Walking, Walked, Landing
  <2>7. stage' # "idle"
    BY <2>1
  <2> QED
    BY <2>3, <2>4, <2>5, <2>6, <2>7, GoesOn
<1> QED
  BY <1>6, <1>7

LEMMA InvResolve ==
    ASSUME Inv, Resolve
    PROVE  Inv'
<1> DEFINE full == [i \in DOMAIN text.paths |-> Join(root, text.paths[i])]
<1>1. /\ stage = "resolving" /\ UNCHANGED <<root, via, asked, unsent, text, items, landed, disk, sends>>
      /\ IF full = <<>> THEN Ends("nothing asked") /\ UNCHANGED pending
         ELSE IF \E i \in DOMAIN full : ~withinDir(root, full[i])
         THEN Ends("outside") /\ UNCHANGED pending
         ELSE /\ stage' = "collecting"
              /\ pending' = [i \in DOMAIN full |->
                    [at |-> full[i], base |-> Base(full[i]), reached |-> TRUE]]
              /\ UNCHANGED result
  BY DEF Resolve
<1>2. /\ text \in [assembling : BOOLEAN, paths : Seq(Path)] /\ unsent \in Seq(Path)
      /\ items \in Seq(Item) /\ landed \in Nat /\ result = "none"
      /\ via = "bridge" /\ text.paths = asked /\ items = <<>> /\ landed = 0
      /\ asked \in Seq(Path)
  BY <1>1 DEF Inv, Holding, Told
<1>3. DOMAIN full = DOMAIN asked /\ \A i \in DOMAIN asked : full[i] = Location(asked[i])
  BY <1>2 DEF Location
<1>4. \A i \in DOMAIN asked : /\ Askable(asked[i])
                              /\ withinDir(root, Location(asked[i])) <=> IsPrefix(root, Location(asked[i]))
  <2> TAKE i \in DOMAIN asked
  <2>1. Askable(asked[i])
    BY DEF Inv, Asked
  <2>2. Clean(Location(asked[i])) /\ root \in Path
    BY <2>1, LocationIs DEF Askable, Clean
  <2> QED
    BY <2>1, <2>2, CleanWithin
<1>5. Asked'
  BY <1>1, AskedStays DEF Inv
<1> HIDE DEF full
<1>6. CASE full = <<>>
  <2>1. stage' = "idle" /\ result' = "nothing asked"
    BY <1>1, <1>6 DEF Ends
  <2>2. asked = <<>>
    <3>1. DOMAIN asked = {}
      BY <1>3, <1>6
    <3> QED
      BY <1>2, <3>1
  <2>3. Holding'
    BY <1>1, <1>2, <2>1 DEF Holding
  <2> QED
    BY <1>1, <2>1, <2>2, <2>3, Refused, Reasonable
<1>7. CASE full # <<>> /\ \E i \in DOMAIN full : ~withinDir(root, full[i])
  <2>1. stage' = "idle" /\ result' = "outside"
    BY <1>1, <1>7 DEF Ends
  <2>2. \E i \in DOMAIN asked : ~IsPrefix(root, Location(asked[i]))
    BY <1>3, <1>4, <1>7
  <2>3. Holding'
    BY <1>1, <1>2, <2>1 DEF Holding
  <2> QED
    BY <1>1, <1>2, <2>1, <2>2, <2>3, Refused, Reasonable
<1>8. CASE full # <<>> /\ ~\E i \in DOMAIN full : ~withinDir(root, full[i])
  <2>1. /\ stage' = "collecting" /\ result' = "none"
        /\ pending' = [i \in DOMAIN full |->
              [at |-> full[i], base |-> Base(full[i]), reached |-> TRUE]]
    BY <1>1, <1>2, <1>8
  <2>2. Holding'
    BY <1>1, <1>2, <2>1 DEF Holding
  <2>3. Admitted
    BY <1>3, <1>4, <1>8 DEF Admitted
  <2>4. Admitted'
    BY <1>1, <2>3, AskedStays
  <2>5. Gathered(0)'
    <3>1. items' = <<>>
      BY <1>1, <1>2
    <3> QED
      BY <3>1 DEF Gathered
  <2>6. Pending(0)'
    <3>1. Len(asked) \in Nat /\ DOMAIN asked = 1..Len(asked)
      BY <1>2
    <3>2. \A i \in DOMAIN asked :
             Arg(asked[i]) = [at |-> full[i], base |-> Base(full[i]), reached |-> TRUE]
      BY <1>2, <1>3 DEF Arg
    <3>3. pending' = [i \in 1..Len(asked) - 0 |-> Arg(asked[0 + i])]
      BY <1>3, <2>1, <3>1, <3>2
    <3>4. \A p : Arg(p)' = Arg(p)
      BY <1>1, AskedStays
    <3>5. Pending(0)' <=> pending' = [i \in 1..Len(asked) - 0 |-> Arg(asked[0 + i])]
      BY <1>1, <3>4 DEF Pending
    <3> QED
      BY <3>3, <3>5
  <2>7. 0 \in 0..Len(asked')
    <3>1. Len(asked) \in Nat
      BY <1>2
    <3>2. asked' = asked
      BY <1>1
    <3> QED
      BY <3>1, <3>2
  <2>8. Walking'
    BY <1>1, <1>2, <2>4, <2>5, <2>6, <2>7 DEF Walking
  <2>9. Told' /\ Walked' /\ Landing'
    BY <2>1 DEF Told, Walked, Landing
  <2>10. stage' # "idle"
    BY <2>1
  <2> QED
    BY <1>5, <2>2, <2>8, <2>9, <2>10, GoesOn
<1> QED
  BY <1>6, <1>7, <1>8

\* What Collect finds at the next path asked for.
LEMMA NextPending ==
    ASSUME Asked, NEW n \in 0..Len(asked), Pending(n)
    PROVE  /\ Len(asked) \in Nat
           /\ pending = <<>> <=> n = Len(asked)
           /\ n # Len(asked) =>
                /\ n + 1 \in 1..Len(asked) /\ n + 1 \in DOMAIN asked
                /\ Head(pending) = Arg(asked[n + 1])
                /\ Tail(pending) = [i \in 1..Len(asked) - (n + 1) |-> Arg(asked[(n + 1) + i])]
<1> DEFINE m == Len(asked) - n
           q == [i \in 1..m |-> Arg(asked[n + i])]
           V == {Arg(asked[n + i]) : i \in 1..m}
<1>1. Len(asked) \in Nat /\ DOMAIN asked = 1..Len(asked) /\ m \in Nat /\ pending = q
  BY DEF Asked, Pending
<1>2. q \in Seq(V) /\ Len(q) = m
  <2> HIDE DEF m
  <2>1. q \in [1..m -> V]
    OBVIOUS
  <2> HIDE DEF V, q
  <2>2. q \in Seq(V) /\ DOMAIN q = 1..m
    BY <1>1, <2>1
  <2> QED
    BY <1>1, <2>2
<1>3. q = <<>> <=> n = Len(asked)
  <2>1. q = <<>> <=> Len(q) = 0
    <3> HIDE DEF q, V
    <3> QED
      BY <1>2, EmptySeq
  <2>2. Len(q) = 0 <=> n = Len(asked)
    <3> HIDE DEF q, V
    <3> QED
      BY <1>1, <1>2
  <2> QED
    BY <2>1, <2>2
<1>4. ASSUME n # Len(asked)
      PROVE  /\ n + 1 \in 1..Len(asked)
             /\ Head(q) = Arg(asked[n + 1])
             /\ Tail(q) = [i \in 1..Len(asked) - (n + 1) |-> Arg(asked[(n + 1) + i])]
  <2>1. n + 1 \in 1..Len(asked) /\ 1 \in 1..m /\ m - 1 = Len(asked) - (n + 1) /\ m - 1 \in Nat
    <3>1. Len(asked) \in Nat
      BY <1>1
    <3> HIDE DEF q, V
    <3> QED
      BY <1>4, <3>1
  <2>2. Head(q) = q[1]
    OBVIOUS
  <2>3. q[1] = Arg(asked[n + 1])
    BY <2>1
  <2>4. \A i \in 1..(m - 1) : q[i + 1] = Arg(asked[n + (i + 1)])
    BY <1>1, <2>1
  <2>5. \A i \in 1..(m - 1) : n + (i + 1) = (n + 1) + i
    BY <1>1, <2>1
  <2> DEFINE r == [i \in 1..Len(asked) - (n + 1) |-> Arg(asked[(n + 1) + i])]
  <2>6. r = [i \in 1..(m - 1) |-> q[i + 1]]
    BY <2>1, <2>4, <2>5
  <2> HIDE DEF q, m, r
  <2>7. Tail(q) = [i \in 1..(m - 1) |-> q[i + 1]]
    <3>1. q # <<>>
      BY <1>1, <1>3, <1>4
    <3>2. /\ Tail(q) \in Seq(V) /\ Len(Tail(q)) = m - 1
          /\ \A i \in 1..(m - 1) : Tail(q)[i] = q[i + 1]
      BY <1>2, <3>1, HeadTailProperties
    <3> DEFINE u == Tail(q)
    <3> HIDE DEF u
    <3>3. u \in Seq(V) /\ DOMAIN u = 1..(m - 1) /\ \A i \in 1..(m - 1) : u[i] = q[i + 1]
      BY <3>2 DEF u
    <3>4. u = [i \in DOMAIN u |-> u[i]]
      BY <3>3
    <3>5. u = [i \in 1..(m - 1) |-> q[i + 1]]
      BY <3>3, <3>4
    <3> QED
      BY <3>5 DEF u
  <2>8. Tail(q) = r
    BY <2>6, <2>7
  <2> QED
    BY <2>1, <2>2, <2>3, <2>8 DEF r
<1> HIDE DEF q, m, V
<1>5. n # Len(asked) => n + 1 \in DOMAIN asked
  BY <1>1, <1>4
<1> QED
  BY <1>1, <1>3, <1>4, <1>5

\* Gathered, of the items after a step.
LEMMA GatheredNext ==
    ASSUME UNCHANGED <<root, via, asked>>, NEW n,
           \A j \in DOMAIN items' : \E i \in 1..n :
              items'[j].src \in Found(asked[i]) /\ items'[j].name = Name(Arg(asked[i]), items'[j].src),
           \A i \in 1..n : \A f \in Found(asked[i]) : \E j \in DOMAIN items' :
              items'[j].src = f /\ items'[j].name = Name(Arg(asked[i]), f),
           \A j, k \in DOMAIN items' : items'[j].name = items'[k].name => j = k
    PROVE  Gathered(n)'
<1>1. (\A p : Arg(p)' = Arg(p)) /\ (\A p : Found(p)' = Found(p))
  BY AskedStays
<1>2. \A j \in DOMAIN items' : \E i \in 1..n :
        items'[j].src \in Found(asked[i])' /\ items'[j].name = Name(Arg(asked[i]), items[j].src)'
  BY <1>1 DEF Name
<1>3. \A i \in 1..n : \A f \in Found(asked[i])' : \E j \in DOMAIN items' :
        items'[j].src = f /\ items'[j].name = Name(Arg(asked[i]), f)'
  <2> TAKE i \in 1..n
  <2>1. Found(asked[i])' = Found(asked[i]) /\ Arg(asked[i])' = Arg(asked[i])
    BY <1>1
  <2> TAKE f \in Found(asked[i])'
  <2>2. f \in Found(asked[i])
    BY <2>1
  <2>3. PICK j \in DOMAIN items' :
          items'[j].src = f /\ items'[j].name = Name(Arg(asked[i]), f)
    BY <2>2
  <2>4. Name(Arg(asked[i]), f)' = Name(Arg(asked[i]), f)
    BY <2>1 DEF Name
  <2> QED
    BY <2>3, <2>4
<1> QED
  BY <1>2, <1>3 DEF Gathered

\* The items of one more path are added.
LEMMA GathersOn ==
    ASSUME Asked, Holding, UNCHANGED <<root, via, asked>>,
           NEW n \in 0..Len(asked), Gathered(n), n # Len(asked),
           ~\E i \in DOMAIN Walk(Arg(asked[n + 1])) : Seen(Walk(Arg(asked[n + 1]))[i]),
           items' = items \o Walk(Arg(asked[n + 1]))
    PROVE  items' \in Seq(Item) /\ Gathered(n + 1)'
<1> DEFINE p == asked[n + 1]
           found == Walk(Arg(p))
<1>0. (~\E i \in DOMAIN found : Seen(found[i])) /\ items' = items \o found
  OBVIOUS
<1>1. Len(asked) \in Nat /\ n + 1 \in 1..Len(asked) /\ n + 1 \in DOMAIN asked
  BY DEF Asked
<1>2. Askable(p)
  BY <1>1 DEF Asked
<1>3. /\ found \in Seq(Item)
      /\ \A i \in DOMAIN found :
            found[i].src \in Found(p) /\ found[i].name = Name(Arg(p), found[i].src)
      /\ \A f \in Found(p) : \E i \in DOMAIN found :
            found[i].src = f /\ found[i].name = Name(Arg(p), f)
      /\ \A i, j \in DOMAIN found : found[i].name = found[j].name => i = j
  BY <1>2, WalkIs
<1> HIDE DEF p, found
<1> DEFINE all == items \o found
<1>4. /\ items \in Seq(Item) /\ Len(items) \in Nat /\ DOMAIN items = 1..Len(items)
      /\ Len(found) \in Nat /\ DOMAIN found = 1..Len(found)
  BY <1>3 DEF Holding
<1>5. /\ all \in Seq(Item) /\ Len(all) = Len(items) + Len(found)
      /\ \A i \in 1..(Len(items) + Len(found)) :
            all[i] = IF i <= Len(items) THEN items[i] ELSE found[i - Len(items)]
  BY <1>3, <1>4, ConcatProperties
<1> HIDE DEF all
<1>6. DOMAIN all = 1..(Len(items) + Len(found))
  BY <1>4, <1>5
<1>7. \A j \in DOMAIN all :
        \/ j \in DOMAIN items /\ all[j] = items[j]
        \/ ~(j <= Len(items)) /\ j - Len(items) \in DOMAIN found /\ all[j] = found[j - Len(items)]
  <2> TAKE j \in DOMAIN all
  <2>1. CASE j <= Len(items)
    <3>1. j \in 1..Len(items)
      BY <1>4, <1>6, <2>1
    <3> QED
      BY <1>4, <1>5, <1>6, <2>1, <3>1
  <2>2. CASE ~(j <= Len(items))
    <3>1. j - Len(items) \in 1..Len(found)
      BY <1>4, <1>6, <2>2
    <3> QED
      BY <1>4, <1>5, <1>6, <2>2, <3>1
  <2> QED
    BY <2>1, <2>2
<1>8. \A j \in DOMAIN items : j \in DOMAIN all /\ all[j] = items[j]
  BY <1>4, <1>5, <1>6
<1>9. \A j \in DOMAIN found : Len(items) + j \in DOMAIN all /\ all[Len(items) + j] = found[j]
  <2> TAKE j \in DOMAIN found
  <2>1. /\ Len(items) + j \in 1..(Len(items) + Len(found)) /\ ~(Len(items) + j <= Len(items))
        /\ (Len(items) + j) - Len(items) = j
    BY <1>4
  <2> QED
    BY <1>5, <1>6, <2>1
<1>10. \A j \in DOMAIN all : \E i \in 1..(n + 1) :
          all[j].src \in Found(asked[i]) /\ all[j].name = Name(Arg(asked[i]), all[j].src)
  <2> TAKE j \in DOMAIN all
  <2>1. CASE j \in DOMAIN items /\ all[j] = items[j]
    <3>1. PICK i \in 1..n : items[j].src \in Found(asked[i])
                            /\ items[j].name = Name(Arg(asked[i]), items[j].src)
      BY <2>1 DEF Gathered
    <3>2. i \in 1..(n + 1)
      BY <1>1
    <3> QED
      BY <2>1, <3>1, <3>2
  <2>2. CASE j - Len(items) \in DOMAIN found /\ all[j] = found[j - Len(items)]
    <3>1. n + 1 \in 1..(n + 1)
      BY <1>1
    <3> QED
      BY <1>3, <2>2, <3>1 DEF p
  <2> QED
    BY <1>7, <2>1, <2>2
<1>11. \A i \in 1..(n + 1) : \A f \in Found(asked[i]) : \E j \in DOMAIN all :
          all[j].src = f /\ all[j].name = Name(Arg(asked[i]), f)
  <2> TAKE i \in 1..(n + 1)
  <2> TAKE f \in Found(asked[i])
  <2>1. CASE i = n + 1
    <3>1. PICK j \in DOMAIN found : found[j].src = f /\ found[j].name = Name(Arg(p), f)
      BY <1>3, <2>1 DEF p
    <3> QED
      BY <1>9, <2>1, <3>1 DEF p
  <2>2. CASE i # n + 1
    <3>1. i \in 1..n
      BY <1>1, <2>2
    <3>2. PICK j \in DOMAIN items : items[j].src = f /\ items[j].name = Name(Arg(asked[i]), f)
      BY <3>1 DEF Gathered
    <3> QED
      BY <1>8, <3>2
  <2> QED
    BY <2>1, <2>2
<1>12. \A j, k \in DOMAIN all : all[j].name = all[k].name => j = k
  <2> SUFFICES ASSUME NEW j \in DOMAIN all, NEW k \in DOMAIN all, all[j].name = all[k].name
               PROVE  j = k
    OBVIOUS
  <2>1. \A a \in DOMAIN items, b \in DOMAIN found : items[a].name # found[b].name
    BY <1>0 DEF Seen
  <2>2. \A a, b \in DOMAIN items : items[a].name = items[b].name => a = b
    BY DEF Gathered
  <2>3. CASE j \in DOMAIN items /\ all[j] = items[j]
    <3>1. k \in DOMAIN items /\ all[k] = items[k]
      BY <1>7, <2>1, <2>3
    <3> QED
      BY <2>2, <2>3, <3>1
  <2>4. CASE j - Len(items) \in DOMAIN found /\ all[j] = found[j - Len(items)]
    <3>1. k - Len(items) \in DOMAIN found /\ all[k] = found[k - Len(items)]
      BY <1>7, <2>1, <2>4
    <3>2. j - Len(items) = k - Len(items)
      BY <1>3, <2>4, <3>1
    <3>3. j \in Int /\ k \in Int
      BY <1>4, <1>6
    <3> QED
      BY <1>4, <3>2, <3>3
  <2> QED
    BY <1>7, <2>3, <2>4
<1>13. items' = all
  BY <1>0 DEF all
<1>14. Gathered(n + 1)'
  <2>1. \A j \in DOMAIN items' : \E i \in 1..(n + 1) :
          items'[j].src \in Found(asked[i]) /\ items'[j].name = Name(Arg(asked[i]), items'[j].src)
    BY <1>10, <1>13
  <2>2. \A i \in 1..(n + 1) : \A f \in Found(asked[i]) : \E j \in DOMAIN items' :
          items'[j].src = f /\ items'[j].name = Name(Arg(asked[i]), f)
    <3> DEFINE Holds(s) == \A i \in 1..(n + 1) : \A f \in Found(asked[i]) : \E j \in DOMAIN s :
                             s[j].src = f /\ s[j].name = Name(Arg(asked[i]), f)
    <3>1. Holds(all)
      BY <1>11
    <3> HIDE DEF Holds
    <3>2. Holds(items')
      BY <1>13, <3>1
    <3> QED
      BY <3>2 DEF Holds
  <2>3. \A j, k \in DOMAIN items' : items'[j].name = items'[k].name => j = k
    BY <1>12, <1>13
  <2> QED
    BY <2>1, <2>2, <2>3, GatheredNext
<1> QED
  BY <1>5, <1>13, <1>14

LEMMA InvCollect ==
    ASSUME Inv, Collect
    PROVE  Inv'
<1>1. stage = "collecting" /\ UNCHANGED <<root, via, asked, unsent, text, landed, disk, sends>>
  BY DEF Collect
<1>2. Asked /\ Holding /\ Admitted /\ landed = 0 /\ result = "none"
  BY <1>1 DEF Inv, Walking, Holding
<1>3. PICK n \in 0..Len(asked) : Pending(n) /\ Gathered(n)
  BY <1>1 DEF Inv, Walking
<1>4. /\ items \in Seq(Item) /\ landed \in Nat
      /\ text \in [assembling : BOOLEAN, paths : Seq(Path)] /\ unsent \in Seq(Path)
  BY <1>2 DEF Holding
<1>5. Asked' /\ Admitted'
  BY <1>1, <1>2, AskedStays
<1>6. CASE pending = <<>>
  <2>1. stage' = "announcing" /\ UNCHANGED <<pending, items, result>>
    BY <1>6 DEF Collect
  <2>2. n = Len(asked) /\ asked' = asked
    BY <1>1, <1>2, <1>3, <1>6, NextPending
  <2>3. Gathered(Len(asked))'
    <3>1. Gathered(n)'
      BY <1>1, <1>3, <2>1, GatheredStays
    <3> QED
      BY <2>2, <3>1
  <2>4. Holding'
    BY <1>1, <1>2, <1>4, <2>1 DEF Holding
  <2>5. Told' /\ Walking' /\ Landing'
    BY <2>1 DEF Told, Walking, Landing
  <2>6. Walked'
    BY <1>1, <1>2, <1>5, <2>1, <2>3 DEF Walked
  <2>7. stage' # "idle"
    BY <2>1
  <2> QED
    BY <1>5, <2>4, <2>5, <2>6, <2>7, GoesOn
<1>7. CASE pending # <<>>
  <2> DEFINE p == asked[n + 1]
             found == Walk(Arg(p))
  <2>1. /\ n # Len(asked) /\ n + 1 \in 1..Len(asked) /\ n + 1 \in DOMAIN asked
        /\ Head(pending) = Arg(p) /\ Len(asked) \in Nat
        /\ Tail(pending) = [i \in 1..Len(asked) - (n + 1) |-> Arg(asked[(n + 1) + i])]
    BY <1>2, <1>3, <1>7, NextPending
  <2>2. Askable(p)
    BY <1>2, <2>1 DEF Asked
  <2>3. /\ found \in Seq(Item)
        /\ \A i \in DOMAIN found :
              found[i].src \in Found(p) /\ found[i].name = Name(Arg(p), found[i].src)
        /\ \A f \in Found(p) : \E i \in DOMAIN found :
              found[i].src = f /\ found[i].name = Name(Arg(p), f)
    <3> HIDE DEF p
    <3> QED
      BY <2>2, WalkIs
  <2>4. IF found = <<>>
        THEN Ends("missing") /\ UNCHANGED <<pending, items>>
        ELSE IF \E i \in DOMAIN found : Seen(found[i])
        THEN Ends("same name") /\ UNCHANGED <<pending, items>>
        ELSE /\ pending' = Tail(pending)
             /\ items' = items \o found
             /\ UNCHANGED <<stage, result>>
    BY <1>7, <2>1 DEF Collect
  <2>5. CASE found = <<>>
    <3>1. stage' = "idle" /\ result' = "missing" /\ UNCHANGED items
      BY <2>4, <2>5 DEF Ends
    <3>2. Found(p) = {}
      <4> HIDE DEF found, p
      <4> QED
        BY <2>3, <2>5
    <3>3. "missing" \in Reasons
      BY <2>1, <3>2, Reasonable
    <3>4. Holding'
      BY <1>1, <1>4, <3>1 DEF Holding
    <3> QED
      BY <1>1, <3>1, <3>3, <3>4, Refused
  <2>6. CASE found # <<>> /\ \E i \in DOMAIN found : Seen(found[i])
    <3>1. stage' = "idle" /\ result' = "same name" /\ UNCHANGED items
      BY <2>4, <2>6 DEF Ends
    <3>2. PICK i \in DOMAIN found : Seen(found[i])
      BY <2>6
    <3>3. PICK k \in DOMAIN items : items[k].name = found[i].name
      BY <3>2 DEF Seen
    <3>4. PICK m \in 1..n : <<<<m, items[k].src>>, Dest(items[k].name)>> \in Goals
      BY <1>2, <1>3, ItemLands
    <3>5. <<<<n + 1, found[i].src>>, Dest(found[i].name)>> \in Goals
      <4> DEFINE f == found[i].src
                 w == <<n + 1, f>>
      <4>1. f \in Found(p) /\ found[i].name = Name(Arg(p), f)
        BY <2>3
      <4> HIDE DEF f, found
      <4>2. f \in Source /\ IsPrefix(Location(p), f)
        BY <4>1 DEF Found, Below
      <4>3. Dest(Name(Arg(p), f)) = Goal(p, f)
        BY <2>2, <4>2, NameLands
      <4>4. w \in Wanted /\ w[1] = n + 1 /\ w[2] = f
        BY <2>1, <4>1 DEF Wanted
      <4>5. <<w, Goal(asked[w[1]], w[2])>> \in Goals
        BY <4>4 DEF Goals
      <4> QED
        BY <4>1, <4>3, <4>4, <4>5 DEF f
    <3> DEFINE g == <<<<m, items[k].src>>, Dest(items[k].name)>>
               h == <<<<n + 1, found[i].src>>, Dest(found[i].name)>>
    <3>6. g[1] # h[1] /\ g[2] = h[2]
      <4>1. m # n + 1
        BY <2>1
      <4> QED
        BY <3>3, <4>1
    <3>7. "same name" \in Reasons
      <4>1. \E a, b \in Goals : a[1] # b[1] /\ a[2] = b[2]
        BY <3>4, <3>5, <3>6
      <4> QED
        BY <4>1, Reasonable
    <3>8. Holding'
      BY <1>1, <1>4, <3>1 DEF Holding
    <3> QED
      BY <1>1, <3>1, <3>7, <3>8, Refused
  <2>7. CASE found # <<>> /\ ~\E i \in DOMAIN found : Seen(found[i])
    <3>1. /\ pending' = Tail(pending) /\ items' = items \o found
          /\ stage' = "collecting" /\ result' = "none"
      BY <1>1, <1>2, <2>4, <2>7
    <3>2. items' \in Seq(Item) /\ Gathered(n + 1)'
      BY <1>1, <1>2, <1>3, <2>1, <2>7, <3>1, GathersOn
    <3>3. Holding'
      BY <1>1, <1>4, <3>1, <3>2 DEF Holding
    <3>4. Pending(n + 1)'
      <4>1. \A q : Arg(q)' = Arg(q)
        BY <1>1, AskedStays
      <4>2. pending' = [i \in 1..Len(asked) - (n + 1) |-> Arg(asked[(n + 1) + i])]
        BY <2>1, <3>1
      <4>3. Pending(n + 1)' <=> pending' = [i \in 1..Len(asked) - (n + 1) |-> Arg(asked[(n + 1) + i])]
        BY <1>1, <4>1 DEF Pending
      <4> QED
        BY <4>2, <4>3
    <3>5. n + 1 \in 0..Len(asked')
      <4>1. asked' = asked
        BY <1>1
      <4> QED
        BY <2>1, <4>1
    <3>6. Walking'
      BY <1>1, <1>2, <1>5, <3>2, <3>4, <3>5 DEF Walking
    <3>7. Told' /\ Walked' /\ Landing'
      BY <3>1 DEF Told, Walked, Landing
    <3>8. stage' # "idle"
      BY <3>1
    <3> QED
      BY <1>5, <3>3, <3>6, <3>7, <3>8, GoesOn
  <2> QED
    BY <2>5, <2>6, <2>7
<1> QED
  BY <1>6, <1>7

LEMMA InvAnnounce ==
    ASSUME Inv, Announce
    PROVE  Inv'
<1>1. /\ stage = "announcing"
      /\ UNCHANGED <<root, via, asked, unsent, text, pending, items, landed, disk, sends>>
      /\ IF \E i \in DOMAIN items : ~withinDir(OutDir, Dest(items[i].name))
         THEN Ends("unsafe") /\ UNCHANGED complete
         ELSE /\ stage' = "landing"
              /\ complete' = {i \in DOMAIN items : Complete(items[i])}
              /\ UNCHANGED result
  BY DEF Announce
<1>2. /\ Asked /\ Holding /\ Admitted /\ Gathered(Len(asked)) /\ landed = 0 /\ result = "none"
  BY <1>1 DEF Inv, Walked, Holding
<1>3. /\ items \in Seq(Item) /\ landed \in Nat
      /\ text \in [assembling : BOOLEAN, paths : Seq(Path)] /\ unsent \in Seq(Path)
  BY <1>2 DEF Holding
<1>4. Asked' /\ Admitted'
  BY <1>1, <1>2, AskedStays
<1>5. Len(asked) \in 0..Len(asked)
  BY <1>2 DEF Asked
<1>6. CASE \E i \in DOMAIN items : ~withinDir(OutDir, Dest(items[i].name))
  <2>1. stage' = "idle" /\ result' = "unsafe"
    BY <1>1, <1>6 DEF Ends
  <2>2. PICK j \in DOMAIN items : ~withinDir(OutDir, Dest(items[j].name))
    BY <1>6
  <2> DEFINE d == Dest(items[j].name)
  <2>3. PICK i \in 1..Len(asked) : <<<<i, items[j].src>>, d>> \in Goals /\ d \in Path
    BY <1>2, <1>5, ItemLands
  <2> DEFINE g == <<<<i, items[j].src>>, d>>
  <2> HIDE DEF d
  <2>4. ~IsPrefix(OutDir, d) \/ (Len(OutDir) < Len(d) /\ d[Len(OutDir) + 1] = Up)
    BY <2>2, <2>3, WithinMeans, DirectoriesAssumption DEF d
  <2>5. Len(OutDir) \in Nat /\ Len(d) \in Nat
    BY <2>3, DirectoriesAssumption DEF Path
  <2>6. ~IsPrefix(OutDir, d) \/ \E k \in Len(OutDir) + 1 .. Len(d) : d[k] = Up
    <3>1. Len(OutDir) < Len(d) => Len(OutDir) + 1 \in Len(OutDir) + 1 .. Len(d)
      BY <2>5
    <3> QED
      BY <2>4, <3>1
  <2>7. g \in Goals /\ g[2] = d
    BY <2>3
  <2>8. \E h \in Goals : ~IsPrefix(OutDir, h[2]) \/ \E k \in Len(OutDir) + 1 .. Len(h[2]) : h[2][k] = Up
    BY <2>6, <2>7
  <2>9. "unsafe" \in Reasons
    BY <2>8, Reasonable
  <2>10. Holding'
    BY <1>1, <1>3, <2>1 DEF Holding
  <2> QED
    BY <1>1, <2>1, <2>9, <2>10, Refused
<1>7. CASE ~\E i \in DOMAIN items : ~withinDir(OutDir, Dest(items[i].name))
  <2>1. stage' = "landing" /\ result' = "none"
    BY <1>1, <1>2, <1>7
  <2>2. Holding'
    BY <1>1, <1>3, <2>1 DEF Holding
  <2>3. Gathered(Len(asked))'
    <3>1. PICK n \in 0..Len(asked) : n = Len(asked)
      BY <1>5
    <3>2. Gathered(n)'
      BY <1>1, <1>2, <3>1, GatheredStays
    <3>3. Len(asked)' = n
      BY <1>1, <3>1
    <3> QED
      BY <3>2, <3>3
  <2>4. Walked'
    BY <1>4, <2>1, <2>3 DEF Walked
  <2>5. Landing'
    <3>1. items' = items /\ landed' = 0 /\ Len(items) \in Nat
      BY <1>1, <1>2, <1>3
    <3>2. \A i \in DOMAIN items' : withinDir(OutDir, Dest(items'[i].name))
      BY <1>7, <3>1
    <3>3. landed' <= Len(items')
      BY <3>1
    <3>4. complete' = {i \in DOMAIN items : Complete(items[i])} /\ disk' = disk
      BY <1>1, <1>7
    <3>5. ASSUME NEW i \in DOMAIN items', i <= landed' \/ i \in complete'
          PROVE  OnDisk(items[i])'
      <4>1. ~(i <= 0)
        BY <1>3, <3>1
      <4>2. Complete(items[i])
        BY <3>1, <3>4, <3>5, <4>1
      <4> QED
        BY <3>1, <3>4, <4>2 DEF Complete, OnDisk
    <3> QED
      BY <3>2, <3>3, <3>5 DEF Landing
  <2>6. Told' /\ Walking'
    BY <2>1 DEF Told, Walking
  <2>7. stage' # "idle"
    BY <2>1
  <2> QED
    BY <1>4, <2>2, <2>4, <2>5, <2>6, <2>7, GoesOn
<1> QED
  BY <1>6, <1>7

\* Where no place has two names, names that differ lead to different places: all
\* of them are clean, or all are from the root.
LEMMA PlacesDiffer ==
    ASSUME Asked, Holding, Gathered(Len(asked)), ~TwoNames,
           NEW j \in DOMAIN items, NEW k \in DOMAIN items,
           Dest(items[j].name) = Dest(items[k].name)
    PROVE  j = k
<1>1. Len(asked) \in 0..Len(asked) /\ DOMAIN asked = 1..Len(asked)
  BY DEF Asked
<1>2. ASSUME NEW i \in DOMAIN items
      PROVE  \E m \in DOMAIN asked :
               /\ ~AtTop(asked[m]) => Clean(items[i].name)
               /\ AtTop(asked[m]) => \E below : Clean(below) /\ items[i].name = <<Top>> \o below
  <2>1. PICK m \in 1..Len(asked) :
          /\ ~EndsIn(asked[m], Up) /\ ~AtTop(asked[m]) => Clean(items[i].name)
          /\ AtTop(asked[m]) => \E below : Clean(below) /\ items[i].name = <<Top>> \o below
    BY <1>1, ItemLands
  <2> QED
    BY <1>1, <2>1 DEF TwoNames
<1>3. PICK m \in DOMAIN asked :
        /\ ~AtTop(asked[m]) => Clean(items[j].name)
        /\ AtTop(asked[m]) => \E below : Clean(below) /\ items[j].name = <<Top>> \o below
  BY <1>2
<1>4. PICK n \in DOMAIN asked :
        /\ ~AtTop(asked[n]) => Clean(items[k].name)
        /\ AtTop(asked[n]) => \E below : Clean(below) /\ items[k].name = <<Top>> \o below
  BY <1>2
<1>5. AtTop(asked[m]) <=> AtTop(asked[n])
  BY DEF AtTop, TwoNames
<1> DEFINE a == items[j].name
           b == items[k].name
<1>6. (a = b => j = k) /\ Dest(a) = Dest(b)
  BY DEF Gathered
<1> HIDE DEF a, b
<1>7. OutDir \in Seq(Elements)
  BY DirectoriesAssumption DEF Path
<1>8. CASE ~AtTop(asked[m])
  <2>1. Clean(a) /\ Clean(b)
    BY <1>3, <1>4, <1>5, <1>8 DEF a, b
  <2>2. /\ a \in Seq(Elements) /\ b \in Seq(Elements)
        /\ OutDir \o a = OutDir \o b
    BY <1>6, <2>1, CleanLands DEF Path
  <2>3. a = b
    BY <1>7, <2>2, AppendedIs
  <2> QED
    BY <1>6, <2>3
<1>9. CASE AtTop(asked[m])
  <2>1. PICK c : Clean(c) /\ a = <<Top>> \o c
    BY <1>3, <1>9 DEF a
  <2>2. PICK d : Clean(d) /\ b = <<Top>> \o d
    BY <1>4, <1>5, <1>9 DEF b
  <2>3. /\ c \in Seq(Elements) /\ d \in Seq(Elements)
        /\ OutDir \o c = OutDir \o d
    BY <1>6, <2>1, <2>2, TopLands DEF Path, Clean
  <2>4. c = d
    BY <1>7, <2>3, AppendedIs
  <2> QED
    BY <1>6, <2>1, <2>2, <2>4
<1> QED
  BY <1>8, <1>9

\* A step of the receiver: what it does to its files, and for which item.
LandsOn(j, dest) ==
    /\ stage = "landing" /\ UNCHANGED <<root, via, asked, unsent, text, pending, items, sends>>
    /\ j = landed + 1 /\ j \in DOMAIN items /\ dest = Dest(items[j].name)
    /\ complete' = complete
    /\ \/ /\ j \in complete
          /\ landed' = j /\ UNCHANGED <<stage, result, disk>>
       \/ /\ InTheWay(dest)
          /\ Ends("in the way") /\ UNCHANGED <<landed, disk>>
       \/ /\ landed' = j /\ UNCHANGED <<stage, result>>
          /\ DOMAIN disk' = {dest} \cup DOMAIN disk
          /\ disk'[dest] = items[j].src
          /\ \A d \in DOMAIN disk : d # dest => disk'[d] = disk[d]

LEMMA LandIs ==
    ASSUME Inv, Land
    PROVE  \E j, dest : LandsOn(j, dest)
<1> DEFINE j == landed + 1
           item == items[j]
           dest == Dest(item.name)
<1>1. /\ stage = "landing" /\ landed < Len(items)
      /\ UNCHANGED <<root, via, asked, unsent, text, pending, items, sends>>
      /\ complete' = complete
      /\ IF j \in complete
         THEN landed' = j /\ UNCHANGED <<stage, result, disk>>
         ELSE IF InTheWay(dest)
         THEN Ends("in the way") /\ UNCHANGED <<landed, disk>>
         ELSE /\ disk' = [f \in {dest} \cup DOMAIN disk |-> IF f = dest THEN item.src ELSE disk[f]]
              /\ landed' = j
              /\ UNCHANGED <<stage, result>>
  BY DEF Land
<1>2. j \in DOMAIN items
  <2>1. Len(items) \in Nat /\ DOMAIN items = 1..Len(items) /\ landed \in Nat
    BY DEF Inv, Holding
  <2>2. landed < Len(items)
    BY <1>1
  <2>3. landed + 1 \in 1..Len(items)
    BY <2>1, <2>2
  <2> QED
    BY <2>1, <2>3
<1>4. ASSUME disk' = [f \in {dest} \cup DOMAIN disk |-> IF f = dest THEN item.src ELSE disk[f]]
      PROVE  /\ DOMAIN disk' = {dest} \cup DOMAIN disk
             /\ disk'[dest] = items[j].src
             /\ \A d \in DOMAIN disk : d # dest => disk'[d] = disk[d]
  <2> HIDE DEF dest, item, j
  <2>1. /\ DOMAIN disk' = {dest} \cup DOMAIN disk
        /\ disk'[dest] = item.src
        /\ \A d \in DOMAIN disk : d # dest => disk'[d] = disk[d]
    BY <1>4
  <2> QED
    BY <2>1 DEF item
<1>5. LandsOn(j, dest)
  <2> HIDE DEF dest
  <2>1. \/ /\ j \in complete
           /\ landed' = j /\ UNCHANGED <<stage, result, disk>>
        \/ /\ InTheWay(dest)
           /\ Ends("in the way") /\ UNCHANGED <<landed, disk>>
        \/ /\ landed' = j /\ UNCHANGED <<stage, result>>
           /\ DOMAIN disk' = {dest} \cup DOMAIN disk
           /\ disk'[dest] = items[j].src
           /\ \A d \in DOMAIN disk : d # dest => disk'[d] = disk[d]
    BY <1>1, <1>4
  <2> QED
    BY <1>1, <1>2, <2>1 DEF LandsOn, dest
<1> QED
  BY <1>5

LEMMA InvLand ==
    ASSUME Inv, Land
    PROVE  Inv'
<1>1. PICK j, dest : LandsOn(j, dest)
  BY LandIs
<1>2. /\ stage = "landing" /\ UNCHANGED <<root, via, asked, unsent, text, pending, items, sends>>
      /\ j = landed + 1 /\ j \in DOMAIN items /\ dest = Dest(items[j].name) /\ complete' = complete
  BY <1>1 DEF LandsOn
<1>3. /\ Asked /\ Holding /\ Admitted /\ Gathered(Len(asked)) /\ result = "none"
      /\ landed <= Len(items)
      /\ \A i \in DOMAIN items : withinDir(OutDir, Dest(items[i].name))
      /\ ~TwoNames => \A i \in DOMAIN items : i <= landed \/ i \in complete => OnDisk(items[i])
  BY <1>2 DEF Inv, Walked, Holding, Landing
<1>4. /\ items \in Seq(Item) /\ landed \in Nat /\ DOMAIN items = 1..Len(items) /\ Len(items) \in Nat
      /\ text \in [assembling : BOOLEAN, paths : Seq(Path)] /\ unsent \in Seq(Path)
  BY <1>3 DEF Holding
<1>5. Asked' /\ Admitted'
  BY <1>2, <1>3, AskedStays
<1>6. Len(asked) \in 0..Len(asked)
  BY <1>3 DEF Asked
<1>7. CASE InTheWay(dest) /\ Ends("in the way") /\ UNCHANGED <<landed, disk>>
  <2>1. stage' = "idle" /\ result' = "in the way"
    BY <1>7 DEF Ends
  <2>2. PICK i \in 1..Len(asked) : <<<<i, items[j].src>>, dest>> \in Goals
    BY <1>2, <1>3, <1>6, ItemLands
  <2>3. \E g \in Goals : \/ \E d \in DOMAIN disk : IsStrictPrefix(d, g[2])
                         \/ IsDirectory(g[2], DOMAIN disk)
    <3> DEFINE g == <<<<i, items[j].src>>, dest>>
    <3>1. g \in Goals /\ g[2] = dest
      BY <2>2
    <3>2. (\E d \in DOMAIN disk : IsStrictPrefix(d, dest)) \/ IsDirectory(dest, DOMAIN disk)
      BY <1>7 DEF InTheWay
    <3> HIDE DEF g
    <3> QED
      BY <3>1, <3>2
  <2>4. "in the way" \in Reasons
    BY <2>3, Reasonable
  <2>5. Holding'
    BY <1>2, <1>4, <1>7, <2>1 DEF Holding
  <2> QED
    BY <1>2, <1>7, <2>1, <2>4, <2>5, Refused
<1>8. ASSUME landed' = j, UNCHANGED <<stage, result>>,
             ~TwoNames => \A i \in DOMAIN items : i <= j \/ i \in complete => OnDisk(items[i])'
      PROVE  Inv'
  <2>1. stage' = "landing" /\ result' = "none" /\ items' = items
    BY <1>2, <1>3, <1>8
  <2>2. Holding'
    BY <1>2, <1>4, <1>8, <2>1 DEF Holding
  <2>3. Gathered(Len(asked))'
    <3>1. PICK n \in 0..Len(asked) : n = Len(asked)
      BY <1>6
    <3>2. Gathered(n)'
      BY <1>2, <1>3, <3>1, GatheredStays
    <3>3. Len(asked)' = n
      BY <1>2, <3>1
    <3> QED
      BY <3>2, <3>3
  <2>4. Walked'
    BY <1>5, <2>1, <2>3 DEF Walked
  <2>5. Landing'
    <3>1. landed' <= Len(items')
      BY <1>2, <1>4, <1>8, <2>1
    <3>2. \A i \in DOMAIN items' : withinDir(OutDir, Dest(items'[i].name))
      BY <1>3, <2>1
    <3>3. TwoNames' = TwoNames
      BY <1>2, AskedStays
    <3>4. ~TwoNames' => \A i \in DOMAIN items' : i <= landed' \/ i \in complete' => OnDisk(items[i])'
      BY <1>2, <1>8, <2>1, <3>3
    <3> QED
      BY <3>1, <3>2, <3>4 DEF Landing
  <2>6. Told' /\ Walking'
    BY <2>1 DEF Told, Walking
  <2>7. stage' # "idle"
    BY <2>1
  <2> QED
    BY <1>5, <2>2, <2>4, <2>5, <2>6, <2>7, GoesOn
<1>9. CASE j \in complete /\ landed' = j /\ UNCHANGED <<stage, result, disk>>
  <2>1. ~TwoNames => \A i \in DOMAIN items : i <= j \/ i \in complete => OnDisk(items[i])
    <3>1. \A i \in DOMAIN items : i <= j => i <= landed \/ i = j
      BY <1>2, <1>4
    <3> QED
      BY <1>3, <1>9, <3>1
  <2>2. \A i : OnDisk(items[i])' <=> OnDisk(items[i])
    BY <1>2, <1>9 DEF OnDisk
  <2> QED
    BY <1>8, <1>9, <2>1, <2>2
<1>10. CASE /\ landed' = j /\ UNCHANGED <<stage, result>>
            /\ DOMAIN disk' = {dest} \cup DOMAIN disk
            /\ disk'[dest] = items[j].src
            /\ \A d \in DOMAIN disk : d # dest => disk'[d] = disk[d]
  <2>1. ASSUME ~TwoNames, NEW i \in DOMAIN items, i <= j \/ i \in complete
        PROVE  OnDisk(items[i])'
    <3>1. CASE i = j
      <4>1. dest \in DOMAIN disk' /\ disk'[dest] = items'[i].src /\ dest = Dest(items'[i].name)
        BY <1>2, <1>10, <3>1
      <4> QED
        BY <4>1 DEF OnDisk
    <3>2. CASE i # j
      <4>1. i <= landed \/ i \in complete
        BY <1>2, <1>3, <1>4, <2>1, <3>2
      <4>2. Dest(items[i].name) # dest
        BY <1>2, <1>3, <2>1, <3>2, PlacesDiffer
      <4>3. Dest(items[i].name) \in DOMAIN disk /\ disk[Dest(items[i].name)] = items[i].src
        BY <1>3, <2>1, <4>1 DEF OnDisk
      <4>4. Dest(items[i].name) \in DOMAIN disk' /\ disk'[Dest(items[i].name)] = items[i].src
        BY <1>10, <4>2, <4>3
      <4>5. items' = items
        BY <1>2
      <4> QED
        BY <4>4, <4>5 DEF OnDisk
    <3> QED
      BY <3>1, <3>2
  <2> QED
    BY <1>8, <1>10, <2>1
<1> QED
  BY <1>1, <1>7, <1>9, <1>10 DEF LandsOn

LEMMA InvAllLanded ==
    ASSUME Inv, AllLanded
    PROVE  Inv'
<1>1. /\ stage = "landing" /\ landed = Len(items) /\ stage' = "idle" /\ result' = "ok"
      /\ UNCHANGED <<root, via, asked, unsent, text, pending, items, landed, disk, sends>>
  BY DEF AllLanded, Ends
<1>2. /\ Asked /\ Holding /\ Gathered(Len(asked))
      /\ ~TwoNames => \A i \in DOMAIN items : i <= landed \/ i \in complete => OnDisk(items[i])
  BY <1>1 DEF Inv, Walked, Landing
<1>3. /\ items \in Seq(Item) /\ landed \in Nat /\ DOMAIN items = 1..Len(items)
      /\ text \in [assembling : BOOLEAN, paths : Seq(Path)] /\ unsent \in Seq(Path)
  BY <1>2 DEF Holding
<1>4. Holding'
  BY <1>1, <1>3 DEF Holding
<1>5. Asked'
  BY <1>1, <1>2, AskedStays
<1>6. Told' /\ Walking' /\ Walked' /\ Landing'
  BY <1>1 DEF Told, Walking, Walked, Landing
<1>7. RefusedForAReason'
  BY <1>1 DEF RefusedForAReason
<1>8. ASSUME ~TwoNames, NEW w \in Wanted
      PROVE  LET goal == Goal(asked[w[1]], w[2])
             IN  goal \in DOMAIN disk /\ disk[goal] = w[2]
  <2>1. PICK i \in DOMAIN asked : \E f \in Found(asked[i]) : w = <<i, f>>
    BY DEF Wanted
  <2>2. PICK f \in Found(asked[i]) : w = <<i, f>>
    BY <2>1
  <2>3. w[1] = i /\ w[2] = f /\ Askable(asked[i]) /\ i \in 1..Len(asked)
    BY <1>2, <2>2 DEF Asked
  <2>4. f \in Source /\ IsPrefix(Location(asked[i]), f)
    BY DEF Found, Below
  <2>5. PICK k \in DOMAIN items : items[k].src = f /\ items[k].name = Name(Arg(asked[i]), f)
    BY <1>2, <2>3 DEF Gathered
  <2>6. Dest(items[k].name) = Goal(asked[i], f)
    BY <2>3, <2>4, <2>5, NameLands
  <2>7. OnDisk(items[k])
    BY <1>1, <1>2, <1>3, <1>8
  <2> QED
    BY <2>3, <2>5, <2>6, <2>7 DEF OnDisk
<1>9. LandsWhereAsked'
  <2>1. /\ \A p, f : Goal(p, f)' = Goal(p, f)
        /\ Wanted' = Wanted /\ TwoNames' = TwoNames /\ asked' = asked /\ disk' = disk
    BY <1>1, AskedStays
  <2> QED
    BY <1>8, <2>1 DEF LandsWhereAsked
<1> QED
  BY <1>4, <1>5, <1>6, <1>7, <1>9 DEF Inv

LEMMA InvStutter ==
    ASSUME Inv, UNCHANGED vars
    PROVE  Inv'
<1>1. UNCHANGED <<root, via, asked, stage, unsent, text, pending, items, complete, landed, disk, result, sends>>
  BY DEF vars
<1>2. /\ Asked' /\ (Admitted => Admitted') /\ (\A p : Arg(p)' = Arg(p)) /\ Wanted' = Wanted
      /\ (\A p, f : Goal(p, f)' = Goal(p, f)) /\ TwoNames' = TwoNames
  BY <1>1, AskedStays DEF Inv
<1>3. Holding' /\ Told'
  BY <1>1 DEF Inv, Holding, Told
<1>4. \A n : Gathered(n) => Gathered(n)'
  BY <1>1, GatheredStays
<1>5. \A n : Pending(n) => Pending(n)'
  BY <1>1, <1>2 DEF Pending
<1>6. Walking'
  <2> SUFFICES ASSUME stage = "collecting" PROVE Walking'
    BY <1>1 DEF Walking
  <2>1. PICK n \in 0..Len(asked) : Pending(n) /\ Gathered(n)
    BY DEF Inv, Walking
  <2>2. n \in 0..Len(asked)' /\ Pending(n)' /\ Gathered(n)'
    BY <1>1, <1>4, <1>5, <2>1
  <2>3. Admitted' /\ landed' = 0
    BY <1>1, <1>2 DEF Inv, Walking
  <2> QED
    BY <2>2, <2>3 DEF Walking
<1>7. Walked'
  <2>1. Gathered(Len(asked)) => Gathered(Len(asked))'
    <3> SUFFICES ASSUME Gathered(Len(asked)) PROVE Gathered(Len(asked))'
      OBVIOUS
    <3>1. PICK n : n = Len(asked)
      OBVIOUS
    <3>2. Gathered(n)' /\ Len(asked)' = n
      BY <1>1, <1>4, <3>1
    <3> QED
      BY <3>2
  <2> QED
    BY <1>1, <1>2, <2>1 DEF Inv, Walked
<1>8. Landing'
  BY <1>1, <1>2 DEF Inv, Landing, OnDisk
<1>9. RefusedForAReason'
  BY <1>1, ReasonsStay DEF Inv, RefusedForAReason
<1>10. LandsWhereAsked'
  BY <1>1, <1>2 DEF Inv, LandsWhereAsked
<1> QED
  BY <1>2, <1>3, <1>6, <1>7, <1>8, <1>9, <1>10 DEF Inv

-----------------------------------------------------------------------------
(* The theorems.                                                           *)

LEMMA InvNext == Inv /\ [Next]_vars => Inv'
<1> SUFFICES ASSUME Inv, [Next]_vars PROVE Inv'
  OBVIOUS
<1>1. CASE AskBridge
  BY <1>1, InvAskBridge
<1>2. CASE AskCommandLine
  BY <1>2, InvAskCommandLine
<1>3. CASE ReadFrame
  BY <1>3, InvReadFrame
<1>4. CASE Resolve
  BY <1>4, InvResolve
<1>5. CASE Collect
  BY <1>5, InvCollect
<1>6. CASE Announce
  BY <1>6, InvAnnounce
<1>7. CASE Land
  BY <1>7, InvLand
<1>8. CASE AllLanded
  BY <1>8, InvAllLanded
<1>9. CASE UNCHANGED vars
  BY <1>9, InvStutter
<1> QED
  BY <1>1, <1>2, <1>3, <1>4, <1>5, <1>6, <1>7, <1>8, <1>9 DEF Next

LEMMA InvAlways == Spec => []Inv
<1> QED
  BY InvInit, InvNext, PTL DEF Spec

\* Every file asked for lands where it should, from whatever tree, in whatever
\* frames, over whatever the receiver holds: ReadText loses nothing of a message
\* and collectFiles lets no file of a batch go over another, unless one place has
\* two names (see TwoNames).
THEOREM LandsWhereAskedAlways == Spec => []LandsWhereAsked
<1>1. Inv => LandsWhereAsked
  BY DEF Inv
<1> QED
  BY <1>1, InvAlways, PTL

\* No send is refused without a reason in what was asked for and what there is.
THEOREM RefusedForAReasonAlways == Spec => []RefusedForAReason
<1>1. Inv => RefusedForAReason
  BY DEF Inv
<1> QED
  BY <1>1, InvAlways, PTL

LEMMA LandTouches ==
    ASSUME Inv, Land, NEW d \in DOMAIN disk',
           d \notin DOMAIN disk \/ disk[d] # disk'[d]
    PROVE  /\ IsPrefix(OutDir, d)
           /\ \E w \in Wanted :
                /\ w[2] = disk'[d] /\ d = Goal(asked[w[1]], w[2])
                /\ via = "bridge" => IsPrefix(root, w[2])
           /\ ~TwoNames => \A i \in 1..landed : Dest(items[i].name) # d
<1>1. PICK j, dest : LandsOn(j, dest)
  BY LandIs
<1>2. /\ stage = "landing" /\ j = landed + 1 /\ j \in DOMAIN items /\ dest = Dest(items[j].name)
      /\ d = dest /\ disk'[d] = items[j].src
  BY <1>1 DEF LandsOn
<1>3. /\ Asked /\ Holding /\ Admitted /\ Gathered(Len(asked))
      /\ landed <= Len(items)
      /\ withinDir(OutDir, dest)
  BY <1>2 DEF Inv, Walked, Landing
<1>4. Len(asked) \in 0..Len(asked) /\ landed \in Nat /\ DOMAIN items = 1..Len(items)
      /\ Len(items) \in Nat
  BY <1>3 DEF Asked, Holding
<1>5. PICK i \in 1..Len(asked) :
        /\ <<i, items[j].src>> \in Wanted
        /\ dest = Goal(asked[i], items[j].src) /\ dest \in Path
        /\ Admitted /\ via = "bridge" => IsPrefix(root, items[j].src)
  BY <1>2, <1>3, <1>4, ItemLands
<1>6. IsPrefix(OutDir, d)
  BY <1>2, <1>3, <1>5, WithinMeans, DirectoriesAssumption
<1>7. \E w \in Wanted :
        /\ w[2] = disk'[d] /\ d = Goal(asked[w[1]], w[2])
        /\ via = "bridge" => IsPrefix(root, w[2])
  <2> DEFINE w == <<i, items[j].src>>
  <2>1. w \in Wanted /\ w[1] = i /\ w[2] = items[j].src
    BY <1>5
  <2> HIDE DEF w
  <2> QED
    BY <1>2, <1>3, <1>5, <2>1
<1>8. ASSUME ~TwoNames, NEW k \in 1..landed
      PROVE  Dest(items[k].name) # d
  <2>1. k \in DOMAIN items /\ k # j
    BY <1>2, <1>3, <1>4
  <2> QED
    BY <1>2, <1>3, <1>8, <2>1, PlacesDiffer
<1> QED
  BY <1>6, <1>7, <1>8

\* No step changes a file outside of the receiver's directory, or one that nobody
\* asked for, or one from outside of the bridge's root, whatever is asked for
\* (withinDir of both sides, collectFiles).
THEOREM TouchesOnlyItsOwnAlways == Spec => TouchesOnlyItsOwn
<1> DEFINE Own ==
      \A d \in DOMAIN disk' :
        (d \notin DOMAIN disk \/ disk[d] # disk'[d]) =>
            /\ IsPrefix(OutDir, d)
            /\ \E w \in Wanted :
                /\ w[2] = disk'[d] /\ d = Goal(asked[w[1]], w[2])
                /\ via = "bridge" => IsPrefix(root, w[2])
            /\ ~TwoNames => \A i \in 1..landed : Dest(items[i].name) # d
<1>1. Inv /\ [Next]_vars => [Own]_vars
  <2> SUFFICES ASSUME Inv, Next PROVE Own
    OBVIOUS
  <2>1. CASE Land
    BY <2>1, LandTouches
  <2>2. CASE UNCHANGED disk
    BY <2>2
  <2>3. Land \/ UNCHANGED disk
    BY DEF Next, AskBridge, AskCommandLine, Begin, ReadFrame, Resolve, Collect, Announce, AllLanded
  <2> QED
    BY <2>1, <2>2, <2>3
<1> HIDE DEF Own
<1>2. Spec => [][Own]_vars
  BY <1>1, InvAlways, PTL DEF Spec
<1> QED
  BY <1>2 DEF TouchesOnlyItsOwn, Own

=============================================================================
