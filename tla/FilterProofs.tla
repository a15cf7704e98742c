---------------------------- MODULE FilterProofs ----------------------------
(***************************************************************************)
(* Facts about filtered sequences.  They are proved by induction, for      *)
(* which the elements of a set stand for what is true of them: a set of    *)
(* numbers that has 0, and with every number the next, has all of them.    *)
(***************************************************************************)
EXTENDS Filters, SequenceTheorems, WellFoundedInduction, TLAPS

(* Induction over the naturals: a counterexample would have a least one.    *)
LEMMA SetInduction ==
  ASSUME NEW P \in SUBSET Nat, 0 \in P, \A n \in P : n + 1 \in P
  PROVE  P = Nat
  <1> DEFINE T == Nat \ P
  <1>1. SUFFICES ASSUME T # {} PROVE FALSE
    OBVIOUS
  <1> DEFINE R == OpToRel(<, Nat)
  <1>2. IsWellFoundedOn(R, Nat)
    BY NatLessThanWellFounded
  <1>3. PICK x \in T : \A y \in T : <<y, x>> \notin R
    <2>1. T \subseteq Nat
      OBVIOUS
    <2> HIDE DEF T, R
    <2> QED
      BY <1>1, <1>2, <2>1, WFMin
  <1>4. x - 1 \in T
    OBVIOUS
  <1>5. <<x - 1, x>> \in R
    BY <1>4 DEF OpToRel
  <1> QED
    BY <1>3, <1>4, <1>5

(* A set of sequences over T that has the empty one and is closed under     *)
(* Append has all of them.                                                  *)
LEMMA SeqInduction ==
  ASSUME NEW T, NEW P, << >> \in P,
         \A s \in Seq(T), e \in T : s \in P => Append(s, e) \in P
  PROVE  Seq(T) \subseteq P
  <1> DEFINE N == {n \in Nat : \A s \in Seq(T) : Len(s) = n => s \in P}
  <1>1. 0 \in N
    OBVIOUS
  <1>2. ASSUME NEW n \in N
        PROVE  n + 1 \in N
    <2> SUFFICES ASSUME NEW s \in Seq(T), Len(s) = n + 1
                 PROVE  s \in P
      OBVIOUS
    <2>1. PICK r \in Seq(T), e \in T : s = Append(r, e)
      BY SequenceEmptyOrAppend
    <2>2. Len(r) = n
      BY <2>1, AppendProperties
    <2> QED
      BY <2>1, <2>2
  <1>3. N = Nat
    <2> HIDE DEF N
    <2> QED
      BY <1>1, <1>2, SetInduction DEF N
  <1> QED
    BY <1>3

-----------------------------------------------------------------------------
(* The recursive definition of Retain *)

(* f is what has been retained after each of the first n elements of s.      *)
Retaining(s, S, n, f) ==
  /\ f[0] = << >>
  /\ \A k \in 0..(n - 1) :
       f[k + 1] = IF s[k + 1] \in S THEN Append(f[k], s[k + 1]) ELSE f[k]

(* There is such an f: it is extended by one element at a time.             *)
LEMMA RetainingExists ==
  ASSUME NEW s, NEW S, NEW n \in Nat
  PROVE  \E f : Retaining(s, S, n, f)
  <1> DEFINE N == {m \in Nat : \E f : Retaining(s, S, m, f)}
  <1>1. 0 \in N
    <2>1. Retaining(s, S, 0, [k \in 0..0 |-> << >>])
      BY DEF Retaining
    <2> QED
      BY <2>1
  <1>2. ASSUME NEW m \in N
        PROVE  m + 1 \in N
    <2>1. m \in Nat /\ m + 1 \in Nat
      OBVIOUS
    <2>2. PICK f : Retaining(s, S, m, f)
      OBVIOUS
    <2> DEFINE next == IF s[m + 1] \in S THEN Append(f[m], s[m + 1]) ELSE f[m]
               g == [k \in 0..(m + 1) |-> IF k = m + 1 THEN next ELSE f[k]]
    <2>3. g[0] = << >>
      <3>1. g[0] = f[0]
        BY <2>1
      <3> QED
        BY <2>2, <3>1 DEF Retaining
    <2>4. ASSUME NEW k \in 0..((m + 1) - 1)
          PROVE  g[k + 1] = IF s[k + 1] \in S THEN Append(g[k], s[k + 1]) ELSE g[k]
      <3>1. g[k] = f[k]
        BY <2>1
      <3>2. CASE k = m
        <4>1. g[k + 1] = next
          BY <2>1, <3>2
        <4> HIDE DEF g
        <4> QED
          BY <3>1, <3>2, <4>1
      <3>3. CASE k # m
        <4>1. k \in 0..(m - 1) /\ g[k + 1] = f[k + 1]
          BY <2>1, <3>3
        <4> HIDE DEF g
        <4> QED
          BY <2>2, <3>1, <4>1 DEF Retaining
      <3> QED
        BY <3>2, <3>3
    <2>5. Retaining(s, S, m + 1, g)
      <3> HIDE DEF g
      <3> QED
        BY <2>3, <2>4 DEF Retaining
    <2> QED
      BY <2>1, <2>5
  <1>3. N = Nat
    <2> HIDE DEF N
    <2> QED
      BY <1>1, <1>2, SetInduction DEF N
  <1> QED
    BY <1>3

(* Sequences that agree so far have retained the same so far.               *)
LEMMA RetainingUnique ==
  ASSUME NEW s, NEW t, NEW S, NEW n \in Nat, NEW m \in n..n + 1,
         \A k \in 1..n : s[k] = t[k],
         NEW f, Retaining(s, S, n, f), NEW g, Retaining(t, S, m, g)
  PROVE  f[n] = g[n]
  <1> DEFINE N == {k \in Nat : k <= n => f[k] = g[k]}
  <1>1. 0 \in N
    BY DEF Retaining
  <1>2. ASSUME NEW k \in N
        PROVE  k + 1 \in N
    <2> SUFFICES ASSUME k + 1 <= n
                 PROVE  f[k + 1] = g[k + 1]
      OBVIOUS
    <2>1. /\ f[k] = g[k] /\ s[k + 1] = t[k + 1]
          /\ k \in 0..(n - 1) /\ k \in 0..(m - 1)
      OBVIOUS
    <2> QED
      BY <2>1, Zenon DEF Retaining
  <1>3. N = Nat
    <2> HIDE DEF N
    <2> QED
      BY <1>1, <1>2, SetInduction DEF N
  <1> QED
    BY <1>3

(* The recursive function of Retain exists, and computes it.                *)
LEMMA RetainDef ==
  ASSUME NEW s, NEW S, Len(s) \in Nat
  PROVE  \E f : Retaining(s, S, Len(s), f) /\ Retain(s, S) = f[Len(s)]
  <1> DEFINE n == Len(s)
             Body(f) == [k \in 0..n |->
                           IF k = 0 THEN << >>
                           ELSE IF s[k] \in S THEN Append(f[k - 1], s[k])
                                ELSE f[k - 1]]
             f == CHOOSE h : h = Body(h)
  <1>1. f = Body(f)
    <2>1. PICK h : Retaining(s, S, n, h)
      BY RetainingExists
    <2> DEFINE g == [k \in 0..n |-> h[k]]
    <2>2. ASSUME NEW k \in 0..n
          PROVE  g[k] = Body(g)[k]
      <3>1. CASE k = 0
        BY <2>1, <3>1 DEF Retaining
      <3>2. CASE k # 0
        <4>1. /\ k - 1 \in 0..(n - 1) /\ k - 1 \in 0..n /\ (k - 1) + 1 = k
              /\ g[k] = h[k] /\ g[k - 1] = h[k - 1]
          BY <3>2
        <4>2. h[(k - 1) + 1] = IF s[(k - 1) + 1] \in S
                               THEN Append(h[k - 1], s[(k - 1) + 1]) ELSE h[k - 1]
          BY <2>1, <4>1, Zenon DEF Retaining
        <4>3. g[k] = IF s[k] \in S THEN Append(g[k - 1], s[k]) ELSE g[k - 1]
          BY <4>1, <4>2, Zenon
        <4> HIDE DEF g
        <4> QED
          BY <3>2, <4>3
      <3> QED
        BY <3>1, <3>2
    <2>3. g = [k \in 0..n |-> g[k]] /\ Body(g) = [k \in 0..n |-> Body(g)[k]]
      OBVIOUS
    <2>4. g = Body(g)
      <3> HIDE DEF g, Body
      <3> QED
        BY <2>2, <2>3
    <2> HIDE DEF g, Body
    <2> QED
      BY <2>4
  <1>2. Retaining(s, S, n, f)
    <2>1. n \in Nat
      OBVIOUS
    <2> HIDE DEF f, n
    <2>2. \A k \in 0..n :
            f[k] = IF k = 0 THEN << >>
                   ELSE IF s[k] \in S THEN Append(f[k - 1], s[k]) ELSE f[k - 1]
      BY <1>1
    <2>3. ASSUME NEW k \in 0..(n - 1)
          PROVE  f[k + 1] = IF s[k + 1] \in S THEN Append(f[k], s[k + 1]) ELSE f[k]
      <3>1. k + 1 \in 0..n /\ k + 1 # 0 /\ (k + 1) - 1 = k
        BY <2>1
      <3>2. f[k + 1] = IF s[k + 1] \in S THEN Append(f[(k + 1) - 1], s[k + 1])
                       ELSE f[(k + 1) - 1]
        BY <2>2, <3>1, Zenon
      <3> QED
        BY <3>1, <3>2, Zenon
    <2>4. f[0] = << >>
      BY <2>1, <2>2
    <2> QED
      BY <2>3, <2>4, Zenon DEF Retaining
  <1>3. Retain(s, S) = f[n]
    BY DEF Retain
  <1> HIDE DEF f
  <1> QED
    BY <1>2, <1>3

-----------------------------------------------------------------------------
(* What Retain does to sequences *)

(* Nothing is retained of nothing.                                          *)
LEMMA RetainEmpty ==
  ASSUME NEW S
  PROVE  Retain(<< >>, S) = << >>
  BY RetainDef DEF Retaining

(* A new last element is retained if the test lets it through.              *)
LEMMA RetainAppend ==
  ASSUME NEW T, NEW s \in Seq(T), NEW e \in T, NEW S
  PROVE  Retain(Append(s, e), S)
           = IF e \in S THEN Append(Retain(s, S), e) ELSE Retain(s, S)
  <1> DEFINE t == Append(s, e)
             n == Len(s)
  <1>1. PICK f : Retaining(s, S, n, f) /\ Retain(s, S) = f[n]
    BY RetainDef
  <1>2. PICK g : Retaining(t, S, n + 1, g) /\ Retain(t, S) = g[n + 1]
    BY RetainDef, Len(t) = n + 1, n + 1 \in Nat
  <1>3. /\ n \in Nat /\ n + 1 \in n..n + 1
        /\ \A k \in 1..n : s[k] = t[k]
        /\ t[n + 1] = e
    OBVIOUS
  <1> HIDE DEF n, t
  <1>4. f[n] = g[n]
    BY <1>1, <1>2, <1>3, RetainingUnique
  <1>5. g[n + 1] = IF t[n + 1] \in S THEN Append(g[n], t[n + 1]) ELSE g[n]
    <2>1. n \in 0..((n + 1) - 1)
      BY <1>3
    <2> QED
      BY <1>2, <2>1, Zenon DEF Retaining
  <1> QED
    BY <1>1, <1>2, <1>3, <1>4, <1>5, Zenon DEF t

(* What is retained is in the set, and of the kind that it was of.          *)
LEMMA RetainType ==
  ASSUME NEW T, NEW S, NEW s \in Seq(T)
  PROVE  Retain(s, S) \in Seq(T \cap S)
  <1> DEFINE P == {r \in Seq(T) : Retain(r, S) \in Seq(T \cap S)}
  <1>1. << >> \in P
    <2>1. << >> \in Seq(T) /\ << >> \in Seq(T \cap S)
      OBVIOUS
    <2> QED
      BY <2>1, RetainEmpty, Zenon
  <1>2. ASSUME NEW r \in Seq(T), NEW e \in T, r \in P
        PROVE  Append(r, e) \in P
    <2>1. Append(r, e) \in Seq(T)
      OBVIOUS
    <2>2. e \in S => Append(Retain(r, S), e) \in Seq(T \cap S)
      BY <1>2
    <2> QED
      BY <1>2, <2>1, <2>2, RetainAppend, Zenon
  <1> QED
    <2> HIDE DEF P
    <2>1. Seq(T) \subseteq P
      BY <1>1, <1>2, SeqInduction
    <2> QED
      BY <2>1 DEF P

(* The same, for each of the two sets.                                      *)
LEMMA RetainSub ==
  ASSUME NEW T, NEW S, NEW s \in Seq(T)
  PROVE  Retain(s, S) \in Seq(T) /\ Retain(s, S) \in Seq(S)
  <1>1. Retain(s, S) \in Seq(T \cap S)
    BY RetainType
  <1> DEFINE r == Retain(s, S)
  <1> HIDE DEF r
  <1>2. r \in Seq(T \cap S) => r \in Seq(T) /\ r \in Seq(S)
    <2>1. T \cap S \subseteq T /\ T \cap S \subseteq S
      OBVIOUS
    <2> QED
      BY <2>1, SeqMonotonic
  <1> QED
    BY <1>1, <1>2 DEF r

(* The parts of a sequence are filtered each by itself.                     *)
LEMMA RetainConcat ==
  ASSUME NEW T, NEW S, NEW s \in Seq(T), NEW t \in Seq(T)
  PROVE  Retain(s \o t, S) = Retain(s, S) \o Retain(t, S)
  <1> DEFINE P == {r \in Seq(T) : Retain(s \o r, S) = Retain(s, S) \o Retain(r, S)}
  <1>0. \A r \in Seq(T) : Retain(r, S) \in Seq(T)
    BY RetainSub
  <1>1. << >> \in P
    <2>1. s \o << >> = s /\ Retain(s, S) \o << >> = Retain(s, S)
      BY <1>0, ConcatEmptySeq
    <2>2. << >> \in Seq(T)
      OBVIOUS
    <2> QED
      BY <2>1, <2>2, RetainEmpty, Zenon
  <1>2. ASSUME NEW r \in Seq(T), NEW e \in T, r \in P
        PROVE  Append(r, e) \in P
    <2>1. s \o Append(r, e) = Append(s \o r, e)
      OBVIOUS
    <2>2. Retain(s, S) \o Append(Retain(r, S), e) = Append(Retain(s, S) \o Retain(r, S), e)
      BY <1>0
    <2>3. /\ Retain(Append(s \o r, e), S)
              = IF e \in S THEN Append(Retain(s \o r, S), e) ELSE Retain(s \o r, S)
          /\ Retain(Append(r, e), S)
              = IF e \in S THEN Append(Retain(r, S), e) ELSE Retain(r, S)
      BY RetainAppend, ConcatProperties
    <2>4. Append(r, e) \in Seq(T)
      OBVIOUS
    <2> QED
      BY <1>2, <2>1, <2>2, <2>3, <2>4, Zenon
  <1> QED
    <2> HIDE DEF P
    <2>1. Seq(T) \subseteq P
      BY <1>1, <1>2, SeqInduction
    <2> QED
      BY <2>1 DEF P

(* Nothing is lost of what the test lets through.                           *)
LEMMA RetainAll ==
  ASSUME NEW S, NEW s \in Seq(S)
  PROVE  Retain(s, S) = s
  <1> DEFINE P == {r \in Seq(S) : Retain(r, S) = r}
  <1>1. << >> \in P
    BY RetainEmpty
  <1>2. ASSUME NEW r \in Seq(S), NEW e \in S, r \in P
        PROVE  Append(r, e) \in P
    BY <1>2, RetainAppend
  <1> QED
    <2> HIDE DEF P
    <2>1. Seq(S) \subseteq P
      BY <1>1, <1>2, SeqInduction
    <2> QED
      BY <2>1 DEF P

(* Nothing is retained where the test lets nothing through.                 *)
LEMMA RetainNone ==
  ASSUME NEW T, NEW S, T \cap S = {}, NEW s \in Seq(T)
  PROVE  Retain(s, S) = << >>
  <1>1. Retain(s, S) \in Seq(T \cap S)
    BY RetainType
  <1> DEFINE r == Retain(s, S)
  <1> HIDE DEF r
  <1>2. r \in Seq({}) => r = << >>
    OBVIOUS
  <1> QED
    BY <1>1, <1>2, Zenon DEF r

(* Two tests, one after the other, are the test for both.                   *)
LEMMA RetainTwice ==
  ASSUME NEW T, NEW S, NEW R, NEW s \in Seq(T)
  PROVE  Retain(Retain(s, S), R) = Retain(s, S \cap R)
  <1> DEFINE P == {r \in Seq(T) : Retain(Retain(r, S), R) = Retain(r, S \cap R)}
  <1>1. << >> \in P
    BY RetainEmpty
  <1>2. ASSUME NEW r \in Seq(T), NEW e \in T, r \in P
        PROVE  Append(r, e) \in P
    <2>1. Retain(r, S) \in Seq(T)
      BY RetainSub
    <2>2. /\ Retain(Append(r, e), S)
              = IF e \in S THEN Append(Retain(r, S), e) ELSE Retain(r, S)
          /\ Retain(Append(r, e), S \cap R)
              = IF e \in S \cap R THEN Append(Retain(r, S \cap R), e)
                ELSE Retain(r, S \cap R)
          /\ Retain(Append(Retain(r, S), e), R)
              = IF e \in R THEN Append(Retain(Retain(r, S), R), e)
                ELSE Retain(Retain(r, S), R)
      BY <2>1, RetainAppend
    <2>3. Append(r, e) \in Seq(T)
      OBVIOUS
    <2>4. Retain(Retain(Append(r, e), S), R) = Retain(Append(r, e), S \cap R)
      <3>1. Retain(Retain(r, S), R) = Retain(r, S \cap R)
        BY <1>2
      <3>2. CASE e \in S
        <4>1. Retain(Append(r, e), S) = Append(Retain(r, S), e)
          BY <2>2, <3>2, Zenon
        <4>2. e \in S \cap R <=> e \in R
          BY <3>2
        <4> QED
          BY <2>2, <3>1, <4>1, <4>2, Zenon
      <3>3. CASE e \notin S
        BY <2>2, <3>1, <3>3, Zenon
      <3> QED
        BY <3>2, <3>3
    <2> QED
      BY <2>3, <2>4, Zenon
  <1> QED
    <2> HIDE DEF P
    <2>1. Seq(T) \subseteq P
      BY <1>1, <1>2, SeqInduction
    <2> QED
      BY <2>1 DEF P

(* The first element goes with what is retained, or was not in it.          *)
LEMMA RetainTail ==
  ASSUME NEW T, NEW S, NEW s \in Seq(T), s # << >>
  PROVE  IF Head(s) \in S
         THEN /\ Retain(s, S) # << >>
              /\ Head(Retain(s, S)) = Head(s)
              /\ Tail(Retain(s, S)) = Retain(Tail(s), S)
         ELSE Retain(s, S) = Retain(Tail(s), S)
  <1> DEFINE h == Head(s)
             rest == Retain(Tail(s), S)
  <1>1. /\ h \in T /\ Tail(s) \in Seq(T) /\ << h >> \in Seq(T)
        /\ s = << h >> \o Tail(s) /\ << h >> = Append(<< >>, h)
    OBVIOUS
  <1>2. rest \in Seq(T)
    BY <1>1, RetainSub
  <1> HIDE DEF h
  <1>3. Retain(s, S) = Retain(<< h >>, S) \o rest
    BY <1>1, RetainConcat
  <1>4. Retain(<< h >>, S) = IF h \in S THEN << h >> ELSE << >>
    <2>1. << >> \in Seq(T)
      OBVIOUS
    <2>2. Retain(Append(<< >>, h), S)
            = IF h \in S THEN Append(Retain(<< >>, S), h) ELSE Retain(<< >>, S)
      BY <1>1, <2>1, RetainAppend, Zenon
    <2> QED
      BY <1>1, <2>2, RetainEmpty, Zenon
  <1> HIDE DEF rest
  <1>5. /\ << h >> \o rest # << >> /\ Head(<< h >> \o rest) = h
        /\ Tail(<< h >> \o rest) = rest /\ << >> \o rest = rest
    BY <1>1, <1>2
  <1> QED
    BY <1>3, <1>4, <1>5 DEF h, rest

=============================================================================
