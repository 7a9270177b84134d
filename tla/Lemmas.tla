------------------------------- MODULE Lemmas -------------------------------
(***************************************************************************)
(* Facts about natural numbers and sequences that the proofs about the     *)
(* components rest on: induction without operator parameters, functions    *)
(* defined by recursion, the flattening of a sequence of sequences, and    *)
(* the signal of a sequence of segments.                                   *)
(* Facts with several hypotheses are stated about named predicates, so     *)
(* that the provers need not look inside them where they are cited.        *)
(***************************************************************************)
EXTENDS Integers, SequencesExt, Ook, WellFoundedInduction, SequenceTheorems, TLAPS

\* A non-empty set of naturals has a least element.
LEMMA LeastElement ==
  ASSUME NEW T, T \subseteq Nat, T # {}
  PROVE  \E m \in T : \A k \in T : m <= k
<1>1. IsWellFoundedOn({ss \in Nat \X Nat : ss[1] < ss[2]}, Nat)
  BY NatLessThanWellFounded DEF OpToRel
<1>2. PICK m \in T : \A k \in T : ~ (<<k, m>> \in {ss \in Nat \X Nat : ss[1] < ss[2]})
  BY <1>1, WFMin
<1>3. ASSUME NEW k \in T PROVE m <= k
  <2>1. <<k, m>> \in Nat \X Nat /\ <<k, m>>[1] = k /\ <<k, m>>[2] = m
    OBVIOUS
  <2>2. ~ (k < m)
    BY <2>1, <1>2
  <2> QED
    BY <2>2
<1> QED
  BY <1>3

\* Induction, the property given as a set.
LEMMA Induction ==
  ASSUME NEW T, 0 \in T, \A n \in Nat : n \in T => n + 1 \in T
  PROVE  Nat \subseteq T
<1> DEFINE Out == Nat \ T
<1> SUFFICES ASSUME Out # {} PROVE FALSE
  OBVIOUS
<1>1. PICK m \in Out : \A k \in Out : m <= k
  BY LeastElement
<1>2. m # 0
  OBVIOUS
<1>3. m - 1 \in Nat /\ m - 1 \notin Out
  BY <1>1, <1>2
<1> QED
  BY <1>3

\* Induction up to m.
LEMMA InductionTo ==
  ASSUME NEW T, NEW m \in Nat, 0 \in T, \A n \in 0 .. m - 1 : n \in T => n + 1 \in T
  PROVE  0 .. m \subseteq T
<1> DEFINE U == {n \in Nat : n <= m => n \in T}
<1>1. Nat \subseteq U
  <2>1. 0 \in U
    OBVIOUS
  <2>2. \A n \in Nat : n \in U => n + 1 \in U
    OBVIOUS
  <2> HIDE DEF U
  <2> QED
    BY <2>1, <2>2, Induction
<1> QED
  BY <1>1

(***************************************************************************)
(* r is defined by recursion on the naturals; there is such a function for *)
(* every first value and every step.                                       *)
(***************************************************************************)
IsRecursion(r, s0, step) == r[0] = s0 /\ \A n \in Nat : r[n + 1] = step[<<n, r[n]>>]

LEMMA Recursion ==
  ASSUME NEW S, NEW s0 \in S, NEW step \in [Nat \X S -> S]
  PROVE  \E r \in [Nat -> S] : IsRecursion(r, s0, step)
<1> DEFINE Prefix(r, n) == /\ r \in [0 .. n -> S]
                           /\ r[0] = s0
                           /\ \A k \in 0 .. n - 1 : r[k + 1] = step[<<k, r[k]>>]
           T == {n \in Nat : \E r : Prefix(r, n)}
           p == [n \in Nat |-> CHOOSE r : Prefix(r, n)]
           Same(n) == {k \in 0 .. n : \A r, q : Prefix(r, n) /\ Prefix(q, n + 1) => r[k] = q[k]}
<1>1. 0 \in T
  <2>1. Prefix([k \in 0 .. 0 |-> s0], 0)
    OBVIOUS
  <2> HIDE DEF Prefix
  <2> QED
    BY <2>1
<1>2. ASSUME NEW n \in Nat, n \in T PROVE n + 1 \in T
  <2> HIDE DEF Prefix
  <2>1. PICK r : Prefix(r, n)
    BY <1>2
  <2>2. r[n] \in S /\ <<n, r[n]>> \in Nat \X S
    BY <2>1 DEF Prefix
  <2>3. step[<<n, r[n]>>] \in S
    BY <2>2
  <2> HIDE DEF T
  <2> DEFINE q == [k \in 0 .. n + 1 |-> IF k = n + 1 THEN step[<<n, r[n]>>] ELSE r[k]]
  <2>4. q \in [0 .. n + 1 -> S] /\ q[0] = s0
    BY <2>1, <2>3 DEF Prefix
  <2>5. ASSUME NEW k \in 0 .. n PROVE q[k + 1] = step[<<k, q[k]>>]
    <3>1. CASE k = n
      <4>1. q[n + 1] = step[<<n, r[n]>>]
        OBVIOUS
      <4>2. q[n] = r[n]
        OBVIOUS
      <4> HIDE DEF q
      <4> QED
        BY <3>1, <4>1, <4>2
    <3>2. CASE k # n
      <4>1. r[k + 1] = step[<<k, r[k]>>]
        BY <3>2, <2>1 DEF Prefix
      <4>2. q[k + 1] = r[k + 1] /\ q[k] = r[k]
        BY <3>2
      <4> QED
        BY <4>1, <4>2
    <3> QED
      BY <3>1, <3>2
  <2>6. Prefix(q, n + 1)
    <3> HIDE DEF q
    <3> QED
      BY <2>4, <2>5 DEF Prefix
  <2> QED
    BY <2>6 DEF T
<1>3. Nat \subseteq T
  <2> HIDE DEF T
  <2> QED
    BY <1>1, <1>2, Induction
<1>4. ASSUME NEW n \in Nat PROVE Prefix(p[n], n)
  <2> HIDE DEF Prefix
  <2>1. \E r : Prefix(r, n)
    BY <1>3
  <2> QED
    BY <2>1
<1>5. ASSUME NEW n \in Nat PROVE 0 .. n \subseteq Same(n)
  <2>1. 0 \in Same(n)
    OBVIOUS
  <2>2. ASSUME NEW k \in 0 .. n - 1, k \in Same(n) PROVE k + 1 \in Same(n)
    <3> SUFFICES ASSUME NEW r, NEW q, Prefix(r, n), Prefix(q, n + 1) PROVE r[k + 1] = q[k + 1]
      OBVIOUS
    <3>1. r[k] = q[k]
      BY <2>2
    <3>2. r[k + 1] = step[<<k, r[k]>>]
      OBVIOUS
    <3>3. q[k + 1] = step[<<k, q[k]>>]
      OBVIOUS
    <3> QED
      BY <3>1, <3>2, <3>3
  <2> HIDE DEF Same
  <2> QED
    BY <2>1, <2>2, InductionTo
<1> DEFINE r == [n \in Nat |-> p[n][n]]
<1>6. r \in [Nat -> S] /\ r[0] = s0
  <2> HIDE DEF p
  <2>1. \A n \in Nat : p[n][n] \in S
    BY <1>4
  <2>2. p[0][0] = s0
    BY <1>4
  <2> QED
    BY <2>1, <2>2
<1>7. ASSUME NEW n \in Nat PROVE r[n + 1] = step[<<n, r[n]>>]
  <2> HIDE DEF p
  <2>1. Prefix(p[n], n) /\ Prefix(p[n + 1], n + 1)
    BY <1>4
  <2>2. n \in Same(n)
    BY <1>5
  <2>3. p[n][n] = p[n + 1][n]
    <3> HIDE DEF Prefix
    <3> QED
    BY <2>1, <2>2
  <2>4. p[n + 1][n + 1] = step[<<n, p[n + 1][n]>>]
    BY <2>1
  <2>5. r[n + 1] = p[n + 1][n + 1] /\ r[n] = p[n][n]
    OBVIOUS
  <2> QED
    BY <2>3, <2>4, <2>5
<1> HIDE DEF r
<1> QED
  BY <1>6, <1>7 DEF IsRecursion


-----------------------------------------------------------------------------
(***************************************************************************)
(* A set of sequences that is closed under concatenation.                  *)
(***************************************************************************)
Monoid(X) ==
    /\ << >> \in X
    /\ \A a, b \in X : a \o b \in X
    /\ \A a \in X : << >> \o a = a /\ a \o << >> = a

\* r[n] is the concatenation of the first n of seqs.
Concatenates(r, seqs, len) ==
    r[0] = << >> /\ \A n \in 0 .. len - 1 : r[n + 1] = r[n] \o seqs[n + 1]

LEMMA ConcatAll ==
  ASSUME NEW X, << >> \in X, \A a, b \in X : a \o b \in X,
         NEW len \in Nat, NEW seqs \in [1 .. len -> X]
  PROVE  \E r \in [0 .. len -> X] : Concatenates(r, seqs, len)
<1> DEFINE step == [p \in Nat \X X |->
                       IF p[1] < len THEN p[2] \o seqs[p[1] + 1] ELSE p[2]]
<1>2. step \in [Nat \X X -> X]
  <2> SUFFICES ASSUME NEW p \in Nat \X X, p[1] < len
               PROVE  p[2] \o seqs[p[1] + 1] \in X
    OBVIOUS
  <2>1. p[2] \in X /\ seqs[p[1] + 1] \in X
    OBVIOUS
  <2> QED
    BY <2>1
<1>3. ASSUME NEW n \in 0 .. len - 1, NEW s \in X
      PROVE  step[<<n, s>>] = s \o seqs[n + 1]
  <2>1. <<n, s>> \in Nat \X X /\ <<n, s>>[1] = n /\ <<n, s>>[2] = s /\ n < len
    OBVIOUS
  <2> DEFINE p == <<n, s>>
  <2>2. step[p] = IF p[1] < len THEN p[2] \o seqs[p[1] + 1] ELSE p[2]
    <3> HIDE DEF p
    <3> QED
      BY <2>1 DEF p
  <2>3. p[1] < len /\ p[2] \o seqs[p[1] + 1] = s \o seqs[n + 1]
    BY <2>1
  <2> HIDE DEF p, step
  <2> QED
    BY <2>2, <2>3 DEF p
<1> HIDE DEF step
<1>4. PICK r \in [Nat -> X] : IsRecursion(r, << >>, step)
  BY <1>2, Recursion
<1> DEFINE f == [n \in 0 .. len |-> r[n]]
<1>5. f \in [0 .. len -> X] /\ f[0] = << >>
  BY <1>4 DEF IsRecursion
<1>6. ASSUME NEW n \in 0 .. len - 1 PROVE f[n + 1] = f[n] \o seqs[n + 1]
  <2>1. n + 1 \in 0 .. len /\ f[n + 1] = r[n + 1] /\ f[n] = r[n] /\ r[n] \in X
    OBVIOUS
  <2>2. r[n + 1] = step[<<n, r[n]>>]
    BY <1>4 DEF IsRecursion
  <2> HIDE DEF f
  <2> QED
    BY <1>3, <2>1, <2>2
<1> HIDE DEF f
<1> QED
  BY <1>5, <1>6 DEF Concatenates

\* The recursive function in the definition of FlattenSeq.
IsFlattening(g, seqs, len) ==
    g = [i \in 1 .. len |-> IF i = 1 THEN seqs[i] ELSE g[i - 1] \o seqs[i]]

FlatteningAt(g, seqs, i) ==
    /\ i = 1 => g[i] = seqs[i]
    /\ i # 1 => g[i] = g[i - 1] \o seqs[i]

LEMMA FlatteningStep ==
  ASSUME NEW len \in Nat, NEW seqs, NEW g, IsFlattening(g, seqs, len), NEW i \in 1 .. len
  PROVE  FlatteningAt(g, seqs, i)
<1>1. g[i] = IF i = 1 THEN seqs[i] ELSE g[i - 1] \o seqs[i]
  BY DEF IsFlattening
<1> QED
  BY <1>1 DEF FlatteningAt

LEMMA ConcatAllFlattens ==
  ASSUME NEW X, \A a \in X : << >> \o a = a, NEW len \in Nat, NEW seqs \in [1 .. len -> X],
         NEW r \in [0 .. len -> X],
         Concatenates(r, seqs, len)
  PROVE  \E q : IsFlattening(q, seqs, len) /\ \A i \in 1 .. len : q[i] = r[i]
<1> DEFINE q == [i \in 1 .. len |-> r[i]]
<1>1. ASSUME NEW i \in 1 .. len PROVE q[i] = IF i = 1 THEN seqs[i] ELSE q[i - 1] \o seqs[i]
  <2>1. i - 1 \in 0 .. len - 1 /\ (i - 1) + 1 = i /\ q[i] = r[i] /\ seqs[i] \in X
    OBVIOUS
  <2>2. r[i] = r[i - 1] \o seqs[i] /\ r[0] = << >>
    BY <2>1 DEF Concatenates
  <2>3. CASE i = 1
    <3>1. r[0] \o seqs[i] = seqs[i]
      BY <2>1, <2>2
    <3>2. i - 1 = 0
      BY <2>3
    <3> HIDE DEF q
    <3> QED
      BY <2>1, <2>2, <2>3, <3>1, <3>2
  <2>4. CASE i # 1
    <3>1. q[i - 1] = r[i - 1]
      BY <2>4
    <3> HIDE DEF q
    <3> QED
      BY <2>1, <2>2, <2>4, <3>1
  <2> QED
    BY <2>3, <2>4
<1>2. q = [i \in 1 .. len |-> q[i]]
  OBVIOUS
<1> HIDE DEF q
<1>3. IsFlattening(q, seqs, len)
  BY <1>1, <1>2 DEF IsFlattening
<1>4. \A i \in 1 .. len : q[i] = r[i]
  BY DEF q
<1> QED
  BY <1>3, <1>4

LEMMA FlatteningIsUnique ==
  ASSUME NEW len \in Nat, NEW seqs,
         NEW g, NEW h, IsFlattening(g, seqs, len), IsFlattening(h, seqs, len)
  PROVE  \A n \in 1 .. len : g[n] = h[n]
<1> DEFINE T == {n \in 0 .. len : n > 0 => g[n] = h[n]}
<1>1. 0 \in T
  OBVIOUS
<1>2. ASSUME NEW n \in 0 .. len - 1, n \in T PROVE n + 1 \in T
  <2>1. n + 1 \in 1 .. len /\ (n + 1) - 1 = n /\ (n + 1 = 1 <=> n = 0)
    OBVIOUS
  <2>2. FlatteningAt(g, seqs, n + 1) /\ FlatteningAt(h, seqs, n + 1)
    BY <2>1, FlatteningStep
  <2>3. CASE n = 0
    BY <2>1, <2>2, <2>3 DEF FlatteningAt
  <2>4. CASE n # 0
    <3>1. g[n] = h[n]
      BY <1>2, <2>4
    <3>2. g[n + 1] = g[n] \o seqs[n + 1] /\ h[n + 1] = h[n] \o seqs[n + 1]
      BY <2>1, <2>2, <2>4 DEF FlatteningAt
    <3>3. g[n + 1] = h[n + 1]
      BY <3>1, <3>2
    <3> QED
      BY <2>1, <3>3
  <2> QED
    BY <2>3, <2>4
<1> HIDE DEF T
<1>3. 0 .. len \subseteq T
  BY <1>1, <1>2, InductionTo
<1> QED
  BY <1>3 DEF T

LEMMA FlattenDef ==
  ASSUME NEW seqs, NEW len, len = Len(seqs)
  PROVE  /\ len = 0 => FlattenSeq(seqs) = seqs
         /\ len # 0 => FlattenSeq(seqs) = (CHOOSE g : IsFlattening(g, seqs, len))[len]
  BY DEF FlattenSeq, IsFlattening

(***************************************************************************)
(* FlattenSeq(seqs) concatenates seqs one after the other.                 *)
(***************************************************************************)
SequenceOf(seqs, len, X) ==
    len \in Nat /\ len = Len(seqs) /\ seqs \in [1 .. len -> X] /\ (len = 0 => seqs = << >>)

Flattens(f, seqs, len) == Concatenates(f, seqs, len) /\ FlattenSeq(seqs) = f[len]

LEMMA FlattenStepsOf ==
  ASSUME NEW X, Monoid(X), NEW seqs, NEW len, SequenceOf(seqs, len, X)
  PROVE  \E f \in [0 .. len -> X] : Flattens(f, seqs, len)
<1> USE DEF Monoid, SequenceOf
<1>2. PICK r \in [0 .. len -> X] : Concatenates(r, seqs, len)
  BY ConcatAll
<1>3. CASE len = 0
  BY <1>2, <1>3, FlattenDef DEF Flattens, Concatenates
<1>4. CASE len # 0
  <2>2. PICK q : IsFlattening(q, seqs, len) /\ \A i \in 1 .. len : q[i] = r[i]
    BY <1>2, ConcatAllFlattens
  <2>3. q[len] = r[len] /\ len \in 1 .. len
    BY <1>4, <2>2
  <2>4. PICK g : g = CHOOSE x : IsFlattening(x, seqs, len)
    OBVIOUS
  <2>5. IsFlattening(g, seqs, len)
    BY <2>2, <2>4
  <2>6. g[len] = q[len]
    BY <2>2, <2>3, <2>5, FlatteningIsUnique
  <2>7. FlattenSeq(seqs) = r[len]
    BY <1>4, <2>3, <2>4, <2>6, FlattenDef
  <2> QED
    BY <1>2, <2>7 DEF Flattens
<1> QED
  BY <1>3, <1>4

LEMMA SeqMonoid == ASSUME NEW S PROVE Monoid(Seq(S))
  BY ConcatEmptySeq DEF Monoid

LEMMA SeqFacts ==
  ASSUME NEW X, NEW seqs \in Seq(X)
  PROVE  SequenceOf(seqs, Len(seqs), X)
  BY DEF SequenceOf

LEMMA FlattenSteps ==
  ASSUME NEW X, Monoid(X), NEW seqs \in Seq(X)
  PROVE  \E f \in [0 .. Len(seqs) -> X] : Flattens(f, seqs, Len(seqs))
  BY SeqFacts, FlattenStepsOf

LEMMA FlattenType ==
  ASSUME NEW X, Monoid(X), NEW seqs \in Seq(X)
  PROVE  FlattenSeq(seqs) \in X
<1>1. PICK f \in [0 .. Len(seqs) -> X] : Flattens(f, seqs, Len(seqs))
  BY FlattenSteps
<1>2. Len(seqs) \in 0 .. Len(seqs)
  BY SeqFacts DEF SequenceOf
<1> QED
  BY <1>1, <1>2 DEF Flattens

LEMMA ConcatSame ==
  ASSUME NEW seqs, NEW len \in Nat, NEW f, NEW g, Concatenates(f, seqs, len), Concatenates(g, seqs, len)
  PROVE  f[len] = g[len]
<1> DEFINE T == {n \in 0 .. len : f[n] = g[n]}
<1>1. 0 \in T
  BY DEF Concatenates
<1>2. ASSUME NEW n \in 0 .. len - 1, n \in T PROVE n + 1 \in T
  <2>1. f[n + 1] = f[n] \o seqs[n + 1] /\ g[n + 1] = g[n] \o seqs[n + 1] /\ f[n] = g[n]
    BY <1>2 DEF Concatenates
  <2>2. f[n + 1] = g[n + 1]
    BY <2>1
  <2>3. n + 1 \in 0 .. len
    OBVIOUS
  <2> QED
    BY <2>2, <2>3
<1> HIDE DEF T
<1>3. 0 .. len \subseteq T
  BY <1>1, <1>2, InductionTo
<1> QED
  BY <1>3 DEF T

LEMMA FlattenIs ==
  ASSUME NEW X, Monoid(X), NEW seqs \in Seq(X), NEW f, Concatenates(f, seqs, Len(seqs))
  PROVE  FlattenSeq(seqs) = f[Len(seqs)]
<1>1. PICK g \in [0 .. Len(seqs) -> X] : Flattens(g, seqs, Len(seqs))
  BY FlattenSteps
<1>2. Len(seqs) \in Nat
  BY SeqFacts DEF SequenceOf
<1> QED
  BY <1>1, <1>2, ConcatSame DEF Flattens

(***************************************************************************)
(* Flattening the images of sequences under a homomorphism of              *)
(* concatenation gives the image of what they flatten to.                  *)
(***************************************************************************)
Associative(X) == \A a, b, c \in X : (a \o b) \o c = a \o (b \o c)

LEMMA SeqAssociative == ASSUME NEW S PROVE Associative(Seq(S))
  BY ConcatAssociative DEF Associative

Homomorphism(h, X, Y) ==
    /\ h \in [X -> Y]
    /\ h[<< >>] = << >>
    /\ \A a, b \in X : h[a \o b] = h[a] \o h[b]

LEMMA FlattenHomomorphism ==
  ASSUME NEW X, NEW Y, Monoid(X), Monoid(Y), NEW h, Homomorphism(h, X, Y),
         NEW seqs \in Seq(X), NEW images \in Seq(Y), Len(images) = Len(seqs),
         \A n \in 1 .. Len(seqs) : images[n] = h[seqs[n]]
  PROVE  FlattenSeq(images) = h[FlattenSeq(seqs)]
<1> DEFINE len == Len(seqs)
<1>1. PICK f \in [0 .. len -> X] : Flattens(f, seqs, len)
  BY FlattenSteps
<1>2. len \in Nat /\ seqs \in [1 .. len -> X]
  BY SeqFacts DEF SequenceOf
<1>3. len = Len(images) /\ \A n \in 1 .. len : images[n] = h[seqs[n]]
  OBVIOUS
<1> HIDE DEF len
<1> DEFINE g == [n \in 0 .. len |-> h[f[n]]]
<1>4. g[0] = << >>
  BY <1>1, <1>2 DEF Flattens, Concatenates, Homomorphism
<1>5. ASSUME NEW n \in 0 .. len - 1 PROVE g[n + 1] = g[n] \o images[n + 1]
  <2>1. n \in 0 .. len /\ n + 1 \in 1 .. len /\ n + 1 \in 0 .. len
    BY <1>2
  <2>2. f[n + 1] = f[n] \o seqs[n + 1] /\ f[n] \in X /\ seqs[n + 1] \in X
    BY <1>1, <1>2, <2>1 DEF Flattens, Concatenates
  <2>3. g[n + 1] = h[f[n + 1]] /\ g[n] = h[f[n]] /\ images[n + 1] = h[seqs[n + 1]]
    BY <1>3, <2>1
  <2>4. h[f[n] \o seqs[n + 1]] = h[f[n]] \o h[seqs[n + 1]]
    BY <2>2 DEF Homomorphism
  <2> HIDE DEF g
  <2> QED
    BY <2>2, <2>3, <2>4
<1>6. g[len] = h[f[len]]
  BY <1>2
<1> HIDE DEF g
<1>7. Concatenates(g, images, Len(images))
  BY <1>3, <1>4, <1>5 DEF Concatenates
<1>8. FlattenSeq(images) = g[Len(images)]
  BY <1>7, FlattenIs
<1> QED
  BY <1>1, <1>3, <1>6, <1>8 DEF Flattens, len

(***************************************************************************)
(* FlattenSeq of a concatenation: after the a sequences of s, the b of t.  *)
(***************************************************************************)
ConcatAt(f, seqs, n) == f[n + 1] = f[n] \o seqs[n + 1]

LEMMA ConcatStep ==
  ASSUME NEW f, NEW seqs, NEW len \in Nat, Concatenates(f, seqs, len), NEW n \in 0 .. len - 1
  PROVE  ConcatAt(f, seqs, n)
  BY DEF Concatenates, ConcatAt

LEMMA ConcatAfter ==
  ASSUME NEW f, NEW seqs, NEW a \in Nat, NEW b \in Nat, NEW m, m = a + b, Concatenates(f, seqs, m),
         NEW n \in 0 .. b - 1
  PROVE  ConcatAt(f, seqs, a + n)
<1> DEFINE k == a + n
<1>1. k \in 0 .. m - 1 /\ k + 1 = a + (n + 1) /\ m \in Nat
  OBVIOUS
<1> HIDE DEF k
<1>2. ConcatAt(f, seqs, k)
  BY <1>1, ConcatStep
<1> QED
  BY <1>2 DEF k

Joins(st, s, t, a, b) ==
    (\A i \in 1 .. a : st[i] = s[i]) /\ (\A i \in 1 .. b : st[a + i] = t[i])

LEMMA ConcatFirst ==
  ASSUME NEW a \in Nat, NEW b \in Nat, NEW m, m = a + b, NEW s, NEW t, NEW st, NEW f, NEW h,
         Concatenates(f, s, a), Concatenates(h, st, m),
         Joins(st, s, t, a, b)
  PROVE  h[a] = f[a]
<1> DEFINE S == {n \in 0 .. a : h[n] = f[n]}
<1>1. 0 \in S
  BY DEF Concatenates
<1>2. ASSUME NEW n \in 0 .. a - 1, n \in S PROVE n + 1 \in S
  <2>1. n \in 0 .. (m) - 1 /\ n + 1 \in 1 .. a /\ m \in Nat
    OBVIOUS
  <2>2. h[n + 1] = h[n] \o st[n + 1] /\ f[n + 1] = f[n] \o s[n + 1]
    <3> HIDE DEF S
    <3>1. ConcatAt(h, st, n) /\ ConcatAt(f, s, n)
      BY <2>1, ConcatStep
    <3> QED
      BY <3>1 DEF ConcatAt
  <2>3. h[n] = f[n] /\ st[n + 1] = s[n + 1]
    BY <1>2, <2>1 DEF Joins
  <2>4. h[n + 1] = f[n + 1]
    BY <2>2, <2>3
  <2>5. n + 1 \in 0 .. a
    BY <2>1
  <2> QED
    BY <2>4, <2>5
<1> HIDE DEF S
<1>3. 0 .. a \subseteq S
  BY <1>1, <1>2, InductionTo
<1>4. a \in S
  BY <1>3
<1> QED
  BY <1>4 DEF S

Second(X, a, b, m, s, t, st, g, h) ==
    /\ Monoid(X) /\ Associative(X) /\ a \in Nat /\ b \in Nat /\ m = a + b
    /\ t \in [1 .. b -> X] /\ g \in [0 .. b -> X] /\ h[a] \in X
    /\ Concatenates(g, t, b) /\ Concatenates(h, st, m) /\ Joins(st, s, t, a, b)

EndsWith(h, a, m, g, b) == h[m] = h[a] \o g[b]

LEMMA ConcatSecond ==
  ASSUME NEW X, NEW a, NEW b, NEW m, NEW s, NEW t, NEW st, NEW g, NEW h, Second(X, a, b, m, s, t, st, g, h)
  PROVE  EndsWith(h, a, m, g, b)
<1>0. /\ Monoid(X) /\ Associative(X) /\ a \in Nat /\ b \in Nat /\ m = a + b
      /\ t \in [1 .. b -> X] /\ g \in [0 .. b -> X] /\ h[a] \in X
      /\ Concatenates(g, t, b) /\ Concatenates(h, st, m) /\ Joins(st, s, t, a, b)
  BY DEF Second
<1> USE <1>0
<1> DEFINE T == {n \in 0 .. b : h[a + n] = h[a] \o g[n]}
<1>1. 0 \in T
  <2>1. g[0] = << >> /\ a + 0 = a
    BY DEF Concatenates
  <2>2. h[a] \o << >> = h[a]
    BY DEF Monoid
  <2>3. h[a + 0] = h[a] \o g[0]
    BY <2>1, <2>2
  <2> QED
    BY <2>3
<1>2. ASSUME NEW n \in 0 .. b - 1, n \in T PROVE n + 1 \in T
  <2>1. n + 1 \in 1 .. b /\ n \in 0 .. b /\ n + 1 \in 0 .. b
    OBVIOUS
  <2>2. h[a + n] = h[a] \o g[n] /\ st[a + (n + 1)] = t[n + 1]
    BY <1>2, <2>1 DEF Joins
  <2> HIDE DEF T
  <2>3. h[a + (n + 1)] = h[a + n] \o st[a + (n + 1)]
    <3>1. ConcatAt(h, st, a + n)
      BY <1>0, ConcatAfter
    <3>2. (a + n) + 1 = a + (n + 1)
      OBVIOUS
    <3> QED
      BY <3>1, <3>2 DEF ConcatAt
  <2>4. g[n + 1] = g[n] \o t[n + 1]
    BY ConcatStep DEF ConcatAt
  <2>5. g[n] \in X /\ t[n + 1] \in X
    BY <2>1
  <2>6. (h[a] \o g[n]) \o t[n + 1] = h[a] \o (g[n] \o t[n + 1])
    BY <2>5 DEF Associative
  <2>7. h[a + (n + 1)] = h[a] \o g[n + 1]
    BY <2>2, <2>3, <2>4, <2>6
  <2> QED
    BY <2>1, <2>7 DEF T
<1> HIDE DEF T
<1>3. 0 .. b \subseteq T
  BY <1>1, <1>2, InductionTo
<1>4. b \in T
  BY <1>3
<1> QED
  BY <1>4 DEF T, EndsWith

LEMMA FlattenConcat ==
  ASSUME NEW X, Monoid(X), Associative(X), NEW s \in Seq(X), NEW t \in Seq(X)
  PROVE  FlattenSeq(s \o t) = FlattenSeq(s) \o FlattenSeq(t)
<1> DEFINE st == s \o t
           a == Len(s)
           b == Len(t)
<1>1. /\ st \in Seq(X) /\ a \in Nat /\ b \in Nat /\ t \in [1 .. b -> X]
      /\ Len(st) = a + b
      /\ \A i \in 1 .. a : st[i] = s[i]
      /\ \A i \in 1 .. b : st[a + i] = t[i]
  OBVIOUS
<1>2. PICK f \in [0 .. a -> X] : Flattens(f, s, a)
  BY FlattenSteps
<1>3. PICK g \in [0 .. b -> X] : Flattens(g, t, b)
  BY FlattenSteps
<1> HIDE DEF st, a, b
<1>4. PICK h \in [0 .. Len(st) -> X] : Flattens(h, st, Len(st))
  BY <1>1, FlattenSteps
<1> DEFINE m == Len(st)
<1>5. Concatenates(f, s, a) /\ Concatenates(g, t, b) /\ Concatenates(h, st, m)
  BY <1>2, <1>3, <1>4 DEF Flattens
<1>0. Joins(st, s, t, a, b) /\ m = a + b
  BY <1>1 DEF Joins
<1> HIDE DEF m
<1>6. h[a] = f[a] /\ f[a] \in X
  <2>1. h[a] = f[a]
    BY <1>0, <1>1, <1>5, ConcatFirst
  <2> QED
    BY <1>1, <2>1
<1>7. h[m] = f[a] \o g[b]
  <2>1. Second(X, a, b, m, s, t, st, g, h)
    BY <1>0, <1>1, <1>5, <1>6 DEF Second
  <2>2. EndsWith(h, a, m, g, b)
    BY <2>1, ConcatSecond
  <2> QED
    BY <2>2, <1>6 DEF EndsWith
<1> QED
  BY <1>1, <1>2, <1>3, <1>4, <1>7 DEF Flattens, st, m

LEMMA FlattenSingle ==
  ASSUME NEW X, Monoid(X), NEW x \in X
  PROVE  FlattenSeq(<<x>>) = x
<1> DEFINE f == [n \in 0 .. 1 |-> IF n = 0 THEN << >> ELSE x]
           s == <<x>>
<1>1. s \in Seq(X) /\ Len(s) = 1 /\ s[1] = x
  OBVIOUS
<1>2. f[0] = << >> /\ f[1] = x
  OBVIOUS
<1> HIDE DEF f, s
<1>3. ASSUME NEW n \in 0 .. 1 - 1 PROVE f[n + 1] = f[n] \o s[n + 1]
  <2>1. n = 0 /\ n + 1 = 1
    OBVIOUS
  <2>2. << >> \o x = x
    BY DEF Monoid
  <2> QED
    BY <1>1, <1>2, <2>1, <2>2
<1>4. Concatenates(f, s, Len(s))
  BY <1>1, <1>2, <1>3 DEF Concatenates
<1>5. FlattenSeq(s) = f[Len(s)]
  BY <1>1, <1>4, FlattenIs
<1> QED
  BY <1>1, <1>2, <1>5 DEF s

LEMMA TwoConcat ==
  ASSUME NEW X, NEW x \in X, NEW y \in X
  PROVE  /\ <<x>> \in Seq(X) /\ <<y>> \in Seq(X) /\ <<x, y>> \in Seq(X)
         /\ <<x, y>> = <<x>> \o <<y>>
<1> DEFINE a == <<x>>
           b == <<y>>
           c == <<x, y>>
           d == a \o b
<1>1. /\ a \in Seq(X) /\ Len(a) = 1 /\ a[1] = x
      /\ b \in Seq(X) /\ Len(b) = 1 /\ b[1] = y
      /\ c \in Seq(X) /\ Len(c) = 2 /\ c[1] = x /\ c[2] = y
  OBVIOUS
<1> HIDE DEF a, b, c
<1>2. d \in Seq(X) /\ Len(d) = 2 /\ d[1] = x /\ d[2] = y
  <2>1. d \in Seq(X) /\ Len(d) = Len(a) + Len(b)
        /\ \A i \in 1 .. Len(a) + Len(b) : d[i] = IF i <= Len(a) THEN a[i] ELSE b[i - Len(a)]
    <3>1. a \in Seq(X) /\ b \in Seq(X)
      BY <1>1
    <3> QED
      BY <3>1, ConcatProperties
  <2> HIDE DEF d
  <2>2. d[1] = a[1] /\ d[2] = b[2 - 1]
    BY <1>1, <2>1
  <2> QED
    BY <1>1, <2>1, <2>2
<1> HIDE DEF d
<1>3. \A i \in 1 .. Len(c) : c[i] = d[i]
  BY <1>1, <1>2
<1>4. c = d
  BY <1>1, <1>2, <1>3, SeqEqual
<1> QED
  BY <1>1, <1>4 DEF a, b, c, d

LEMMA FlattenEmpty == FlattenSeq(<< >>) = << >>
  BY DEF FlattenSeq

-----------------------------------------------------------------------------
(***************************************************************************)
(* A function applied to every element of a sequence.                      *)
(***************************************************************************)
MapsTo(h, S, T) == h \in [S -> T]
Mapped(h, s) == [n \in 1 .. Len(s) |-> h[s[n]]]

LEMMA MapType ==
  ASSUME NEW S, NEW T, NEW h, MapsTo(h, S, T), NEW s \in Seq(S)
  PROVE  Mapped(h, s) \in Seq(T) /\ Len(Mapped(h, s)) = Len(s)
<1>1. Len(s) \in Nat /\ \A n \in 1 .. Len(s) : s[n] \in S
  OBVIOUS
<1>2. \A n \in 1 .. Len(s) : h[s[n]] \in T
  BY <1>1 DEF MapsTo
<1> QED
  BY <1>1, <1>2 DEF Mapped

LEMMA MapEmpty == ASSUME NEW h PROVE Mapped(h, << >>) = << >>
  BY DEF Mapped

LEMMA MapConcat ==
  ASSUME NEW S, NEW T, NEW h, MapsTo(h, S, T), NEW a \in Seq(S), NEW b \in Seq(S)
  PROVE  Mapped(h, a \o b) = Mapped(h, a) \o Mapped(h, b)
<1> DEFINE s == a \o b
           x == Mapped(h, a)
           y == Mapped(h, b)
<1>1. /\ s \in Seq(S) /\ Len(s) = Len(a) + Len(b)
      /\ Len(a) \in Nat /\ Len(b) \in Nat
      /\ \A i \in 1 .. Len(s) : s[i] = IF i <= Len(a) THEN a[i] ELSE b[i - Len(a)]
  OBVIOUS
<1>2. /\ x \in Seq(T) /\ Len(x) = Len(a) /\ y \in Seq(T) /\ Len(y) = Len(b)
      /\ Mapped(h, s) \in Seq(T) /\ Len(Mapped(h, s)) = Len(s)
  <2>1. x \in Seq(T) /\ Len(x) = Len(a)
    BY MapType
  <2>2. y \in Seq(T) /\ Len(y) = Len(b)
    BY MapType
  <2>3. s \in Seq(S)
    BY <1>1
  <2> HIDE DEF s
  <2>4. Mapped(h, s) \in Seq(T) /\ Len(Mapped(h, s)) = Len(s)
    BY <2>3, MapType
  <2> QED
    BY <2>1, <2>2, <2>4
<1>3. /\ x \o y \in Seq(T) /\ Len(x \o y) = Len(a) + Len(b)
      /\ \A i \in 1 .. Len(a) + Len(b) : (x \o y)[i] = IF i <= Len(a) THEN x[i] ELSE y[i - Len(a)]
  <2> HIDE DEF x, y
  <2>1. x \in Seq(T) /\ y \in Seq(T)
    BY <1>2
  <2>2. x \o y \in Seq(T) /\ Len(x \o y) = Len(x) + Len(y)
        /\ \A i \in 1 .. Len(x) + Len(y) : (x \o y)[i] = IF i <= Len(x) THEN x[i] ELSE y[i - Len(x)]
    BY <2>1
  <2> QED
    BY <1>2, <2>2
<1>4. ASSUME NEW i \in 1 .. Len(a) + Len(b) PROVE Mapped(h, s)[i] = (x \o y)[i]
  <2> HIDE DEF s
  <2>1. Mapped(h, s)[i] = h[s[i]]
    BY <1>1 DEF Mapped
  <2>2. CASE i <= Len(a)
    <3>1. i \in 1 .. Len(a) /\ x[i] = h[a[i]]
      BY <2>2, <1>1 DEF Mapped
    <3>2. s[i] = a[i]
      BY <2>2, <1>1
    <3>3. (x \o y)[i] = x[i]
      BY <1>3, <2>2
    <3> QED
      BY <2>1, <3>1, <3>2, <3>3
  <2>3. CASE ~ (i <= Len(a))
    <3> DEFINE k == i - Len(a)
    <3>1. k \in 1 .. Len(b) /\ ~ (i <= Len(a))
      BY <2>3, <1>1
    <3> HIDE DEF k
    <3>2. y[k] = h[b[k]]
      BY <3>1 DEF Mapped
    <3>3. s[i] = b[k]
      BY <3>1, <1>1 DEF k
    <3>4. (x \o y)[i] = y[k]
      BY <1>3, <3>1 DEF k
    <3> QED
      BY <2>1, <3>2, <3>3, <3>4
  <2> QED
    BY <2>2, <2>3
<1> DEFINE p == Mapped(h, s)
           q == x \o y
<1>5. p = q
  <2>1. p \in Seq(T) /\ q \in Seq(T) /\ Len(p) = Len(q) /\ \A i \in 1 .. Len(p) : p[i] = q[i]
    BY <1>1, <1>2, <1>3, <1>4
  <2> HIDE DEF p, q
  <2> QED
    BY <2>1, SeqEqual
<1> QED
  BY <1>5

LEMMA FlattenMapped ==
  ASSUME NEW X, NEW Y, Monoid(X), Monoid(Y), NEW h, Homomorphism(h, X, Y), NEW seqs \in Seq(X)
  PROVE  FlattenSeq(Mapped(h, seqs)) = h[FlattenSeq(seqs)]
<1>1. MapsTo(h, X, Y)
  BY DEF Homomorphism, MapsTo
<1>2. Mapped(h, seqs) \in Seq(Y) /\ Len(Mapped(h, seqs)) = Len(seqs)
  BY <1>1, MapType
<1>3. \A n \in 1 .. Len(seqs) : Mapped(h, seqs)[n] = h[seqs[n]]
  BY DEF Mapped
<1> QED
  BY <1>2, <1>3, FlattenHomomorphism

LEMMA Constantly ==
  ASSUME NEW X, NEW x \in X, NEW k \in Nat
  PROVE  [j \in 1 .. k |-> x] \in Seq(X) /\ Len([j \in 1 .. k |-> x]) = k
  OBVIOUS

SameImages(h, s, k, t) == Len(s) = Len(t) /\ \A n \in 1 .. Len(s) : h[s[n]] = k[t[n]]

LEMMA FlattenSameImages ==
  ASSUME NEW X, NEW Z, NEW Y, Monoid(X), Monoid(Z), Monoid(Y),
         NEW h, NEW k, Homomorphism(h, X, Y), Homomorphism(k, Z, Y),
         NEW s \in Seq(X), NEW t \in Seq(Z), SameImages(h, s, k, t)
  PROVE  h[FlattenSeq(s)] = k[FlattenSeq(t)]
<1>1. Mapped(h, s) = Mapped(k, t)
  BY DEF Mapped, SameImages
<1>2. FlattenSeq(Mapped(h, s)) = h[FlattenSeq(s)]
  BY FlattenMapped
<1>3. FlattenSeq(Mapped(k, t)) = k[FlattenSeq(t)]
  BY FlattenMapped
<1> QED
  BY <1>1, <1>2, <1>3

-----------------------------------------------------------------------------
(***************************************************************************)
(* The signal of a sequence of segments is the concatenation of the        *)
(* signals of its parts.                                                   *)
(***************************************************************************)
SegmentSet == [level : {0, 1}, time : Nat]
Levels == [s \in SegmentSet |-> [t \in 1 .. s.time |-> s.level]]

LEMMA LevelsType == MapsTo(Levels, SegmentSet, Seq({0, 1}))
<1>1. ASSUME NEW s \in SegmentSet PROVE [t \in 1 .. s.time |-> s.level] \in Seq({0, 1})
  <2>1. s.time \in Nat /\ s.level \in {0, 1}
    BY DEF SegmentSet
  <2> QED
    BY <2>1
<1> QED
  BY <1>1 DEF MapsTo, Levels

LEMMA SignalIs ==
  ASSUME NEW w \in Seq(SegmentSet)
  PROVE  Signal(w) = FlattenSeq(Mapped(Levels, w))
<1>1. ASSUME NEW n \in 1 .. Len(w)
      PROVE  Levels[w[n]] = [t \in 1 .. w[n].time |-> w[n].level]
  <2>1. w[n] \in SegmentSet
    OBVIOUS
  <2> QED
    BY <2>1 DEF Levels
<1>2. [n \in 1 .. Len(w) |-> Levels[w[n]]]
        = [n \in 1 .. Len(w) |-> [t \in 1 .. w[n].time |-> w[n].level]]
  BY <1>1
<1> QED
  BY <1>2 DEF Signal, Mapped

LEMMA SignalEmpty == Signal(<< >>) = << >>
<1>1. << >> \in Seq(SegmentSet)
  OBVIOUS
<1> QED
  BY <1>1, SignalIs, FlattenEmpty, MapEmpty

LEMMA SignalType == ASSUME NEW w \in Seq(SegmentSet) PROVE Signal(w) \in Seq({0, 1})
<1> DEFINE X == Seq({0, 1})
<1>1. Monoid(X)
  BY SeqMonoid
<1>2. Mapped(Levels, w) \in Seq(X)
  BY LevelsType, MapType
<1> HIDE DEF X
<1>3. FlattenSeq(Mapped(Levels, w)) \in X
  BY <1>1, <1>2, FlattenType
<1> QED
  BY <1>3, SignalIs DEF X

LEMMA SignalConcat ==
  ASSUME NEW a \in Seq(SegmentSet), NEW b \in Seq(SegmentSet)
  PROVE  Signal(a \o b) = Signal(a) \o Signal(b)
<1> DEFINE X == Seq({0, 1})
           x == Mapped(Levels, a)
           y == Mapped(Levels, b)
<1>1. x \in Seq(X) /\ y \in Seq(X) /\ Monoid(X) /\ Associative(X)
  BY LevelsType, MapType, SeqMonoid, SeqAssociative
<1>2. Mapped(Levels, a \o b) = x \o y
  BY LevelsType, MapConcat
<1>3. a \o b \in Seq(SegmentSet)
  OBVIOUS
<1> HIDE DEF X, x, y
<1>4. FlattenSeq(x \o y) = FlattenSeq(x) \o FlattenSeq(y)
  BY <1>1, FlattenConcat
<1> QED
  BY <1>2, <1>3, <1>4, SignalIs DEF x, y
=============================================================================
