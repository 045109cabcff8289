------------------------------ MODULE Counting ------------------------------
(***************************************************************************)
(* Functions on 0 .. n that are defined by counting up, and FlattenSeq as  *)
(* one of them.                                                            *)
(***************************************************************************)
EXTENDS Integers, Sequences, SequencesExt, SequenceTheorems, WellFoundedInduction, TLAPS

----------------------------------------------------------------------------
(* Functions that are defined by counting up.                              *)

(* A set of numbers that has 0, and with each number the next.             *)
LEMMA CountUp ==
    ASSUME NEW n \in Nat, NEW P \in SUBSET (0 .. n), 0 \in P,
           \A k \in 1 .. n : k - 1 \in P => k \in P
    PROVE  \A k \in 0 .. n : k \in P
<1>. DEFINE R == OpToRel(<, Nat)
           Bad == (0 .. n) \ P
<1>1. \A i, j \in Nat : i < j => <<i, j>> \in R
    BY DEF OpToRel
<1>2. IsWellFoundedOn(R, Nat)
    BY NatLessThanWellFounded
<1>. HIDE DEF R
<1>3. SUFFICES ASSUME Bad # {} PROVE FALSE
    OBVIOUS
<1>4. Bad \subseteq Nat
    OBVIOUS
<1>5. PICK m \in Bad : \A i \in Bad : ~ (<<i, m>> \in R)
    <2>. HIDE DEF Bad
    <2>. QED
        BY <1>2, <1>3, <1>4, WFMin
<1>6. m \in 1 .. n /\ m - 1 \in Nat /\ m \in Nat /\ m - 1 < m /\ m - 1 \in 0 .. n
    BY <1>5
<1>7. m - 1 \in P
    <2>1. <<m - 1, m>> \in R
        BY <1>1, <1>6
    <2>2. m - 1 \notin Bad
        BY <1>5, <2>1
    <2>. QED
        BY <1>6, <2>2
<1>. QED
    BY <1>5, <1>6, <1>7

(* A function by recursion along 0 .. n exists.                            *)
Counts(g, s, F, k) == g[0] = s /\ \A j \in 1 .. k : g[j] = F[<<g[j - 1], j>>]

LEMMA Recursion ==
    ASSUME NEW n \in Nat, NEW X, NEW s \in X, NEW F \in [X \X (1 .. n) -> X]
    PROVE  \E g \in [0 .. n -> X] : Counts(g, s, F, n)
<1>. DEFINE P == {k \in 0 .. n : \E g \in [0 .. k -> X] : Counts(g, s, F, k)}
<1>1. 0 \in P
    <2>. DEFINE h == [j \in 0 .. 0 |-> s]
    <2>1. h \in [0 .. 0 -> X] /\ h[0] = s
        OBVIOUS
    <2>2. Counts(h, s, F, 0)
        BY <2>1 DEF Counts
    <2>. HIDE DEF h
    <2>3. \E g \in [0 .. 0 -> X] : Counts(g, s, F, 0)
        BY <2>1, <2>2
    <2>. QED
        BY <2>3
<1>2. ASSUME NEW k \in 1 .. n, k - 1 \in P
      PROVE  k \in P
    <2>1. PICK g \in [0 .. k - 1 -> X] : Counts(g, s, F, k - 1)
        BY <1>2
    <2>2. g[k - 1] \in X
        OBVIOUS
    <2>. DEFINE h == [j \in 0 .. k |-> IF j = k THEN F[<<g[k - 1], k>>] ELSE g[j]]
    <2>3. h \in [0 .. k -> X]
        BY <2>2
    <2>4. h[0] = s
        BY <2>1 DEF Counts
    <2>5. ASSUME NEW j \in 1 .. k
          PROVE  h[j] = F[<<h[j - 1], j>>]
        <3>1. j - 1 \in 0 .. k /\ j - 1 # k /\ h[j - 1] = g[j - 1]
            OBVIOUS
        <3>2. CASE j = k
            BY <3>1, <3>2
        <3>3. CASE j # k
            <4>1. j \in 1 .. k - 1
                BY <3>3
            <4>2. h[j] = g[j]
                BY <3>3
            <4>3. g[j] = F[<<g[j - 1], j>>]
                BY <2>1, <4>1 DEF Counts
            <4>. QED
                BY <3>1, <4>2, <4>3
        <3>. QED
            BY <3>2, <3>3
    <2>. HIDE DEF h
    <2>6. Counts(h, s, F, k)
        BY <2>4, <2>5 DEF Counts
    <2>7. \E f \in [0 .. k -> X] : Counts(f, s, F, k)
        BY <2>3, <2>6
    <2>. QED
        BY <2>7
<1>3. P \subseteq 0 .. n
    OBVIOUS
<1>4. n \in P
    <2>. HIDE DEF P
    <2>. QED
        BY <1>1, <1>2, <1>3, CountUp
<1>. QED
    BY <1>4

(* Functions that go on alike are the same if they begin alike.            *)
Alike(n, g, h) == \A k \in 1 .. n : g[k - 1] = h[k - 1] => g[k] = h[k]

LEMMA Unique ==
    ASSUME NEW n \in Nat, NEW g, NEW h, g[0] = h[0], Alike(n, g, h)
    PROVE  \A k \in 0 .. n : g[k] = h[k]
<1>. DEFINE P == {k \in 0 .. n : g[k] = h[k]}
<1>1. 0 \in P /\ P \subseteq 0 .. n
    OBVIOUS
<1>2. \A k \in 1 .. n : k - 1 \in P => k \in P
    BY DEF Alike
<1>. QED
    <2>. HIDE DEF P
    <2>1. \A k \in 0 .. n : k \in P
        BY <1>1, <1>2, CountUp
    <2>. QED
        BY <2>1 DEF P

----------------------------------------------------------------------------
(* Sequences of sequences, laid end to end.                                *)

LEMMA FlattenProperties ==
    ASSUME NEW A, NEW q \in Seq(Seq(A))
    PROVE  \E g \in [0 .. Len(q) -> Seq(A)] :
              /\ g[0] = <<>>
              /\ \A k \in 1 .. Len(q) : g[k] = g[k - 1] \o q[k]
              /\ \A k \in 0 .. Len(q) : FlattenSeq(SubSeq(q, 1, k)) = g[k]
<1>. DEFINE X == Seq(A)
            n == Len(q)
            F == [p \in X \X (1 .. n) |-> p[1] \o q[p[2]]]
<1>1. n \in Nat /\ \A k \in 1 .. n : q[k] \in X
    OBVIOUS
<1>2. \A x \in X, k \in 1 .. n : x \o q[k] \in X
    BY <1>1
<1>3. <<>> \in X
    OBVIOUS
<1>. HIDE DEF X, n
<1>4. F \in [X \X (1 .. n) -> X] /\ \A x \in X, k \in 1 .. n : F[<<x, k>>] = x \o q[k]
    BY <1>2
<1>. HIDE DEF F
<1>5. PICK g \in [0 .. n -> X] : Counts(g, <<>>, F, n)
    BY <1>1, <1>3, <1>4, Recursion
<1>6. g[0] = <<>> /\ \A k \in 1 .. n : g[k] = g[k - 1] \o q[k]
    <2>1. \A k \in 1 .. n : g[k - 1] \in X
        BY <1>1
    <2>. QED
        BY <1>4, <1>5, <2>1 DEF Counts
<1>7. ASSUME NEW k \in 0 .. n
      PROVE  FlattenSeq(SubSeq(q, 1, k)) = g[k]
    <2>. DEFINE first == SubSeq(q, 1, k)
    <2>1. /\ Len(first) = k /\ k \in Nat /\ first \in Seq(Seq(A))
          /\ \A i \in 1 .. k : first[i] = q[i] /\ i \in 1 .. n
        BY <1>1, SubSeqProperties DEF n
    <2>2. CASE k = 0
        <3>1. first = <<>>
            BY <2>1, <2>2, EmptySeq
        <3>. QED
            BY <1>6, <2>1, <2>2, <3>1 DEF FlattenSeq
    <2>3. CASE k # 0
        <3>. DEFINE Flat(h) == h = [i \in 1 .. Len(first) |-> IF i = 1 THEN first[i] ELSE h[i - 1] \o first[i]]
                    flatten == CHOOSE h : Flat(h)
                    f == [i \in 1 .. k |-> g[i]]
        <3>1. FlattenSeq(first) = flatten[Len(first)]
            BY <2>1, <2>3 DEF FlattenSeq
        <3>. HIDE DEF first
        <3>2. Flat(f)
            <4>1. ASSUME NEW i \in 1 .. k
                  PROVE  g[i] = IF i = 1 THEN first[i] ELSE f[i - 1] \o first[i]
                <5>1. g[i] = g[i - 1] \o q[i] /\ first[i] = q[i] /\ q[i] \in Seq(A)
                    BY <1>1, <1>6, <2>1 DEF X
                <5>2. CASE i = 1
                    <6>1. g[i - 1] = <<>>
                        BY <1>6, <5>2
                    <6>2. <<>> \o q[i] = q[i]
                        BY <5>1, ConcatEmptySeq
                    <6>. QED
                        BY <5>1, <5>2, <6>1, <6>2
                <5>3. CASE i # 1
                    <6>1. i - 1 \in 1 .. k
                        BY <2>1, <5>3
                    <6>. QED
                        BY <5>1, <5>3, <6>1
                <5>. QED
                    BY <5>2, <5>3
            <4>. QED
                BY <2>1, <4>1
        <3>. HIDE DEF f
        <3>3. Flat(flatten)
            <4>. HIDE DEF Flat
            <4>. QED
                BY <3>2
        <3>. HIDE DEF flatten
        <3>. DEFINE P == {i \in 0 .. k - 1 : flatten[i + 1] = f[i + 1]}
        <3>4. \A j \in 1 .. k :
                  /\ flatten[j] = IF j = 1 THEN first[j] ELSE flatten[j - 1] \o first[j]
                  /\ f[j] = IF j = 1 THEN first[j] ELSE f[j - 1] \o first[j]
            BY <2>1, <3>2, <3>3
        <3>. HIDE DEF Flat
        <3>5. 0 \in P /\ P \subseteq 0 .. k - 1 /\ k - 1 \in Nat
            <4>1. 1 \in 1 .. k /\ 0 \in 0 .. k - 1 /\ 0 + 1 = 1
                BY <2>1, <2>3
            <4>2. flatten[1] = f[1]
                BY <3>4, <4>1
            <4>. QED
                BY <2>1, <4>1, <4>2
        <3>6. ASSUME NEW i \in 1 .. k - 1, i - 1 \in P
              PROVE  i \in P
            <4>. DEFINE j == i + 1
            <4>1. j \in 1 .. k /\ j # 1 /\ j - 1 = i /\ i - 1 + 1 = i /\ i \in 0 .. k - 1
                BY <2>1
            <4>2. flatten[i] = f[i]
                BY <3>6, <4>1
            <4>. HIDE DEF j
            <4>3. flatten[j] = f[j]
                <5>1. flatten[j] = flatten[j - 1] \o first[j] /\ f[j] = f[j - 1] \o first[j]
                    BY <3>4, <4>1
                <5>. QED
                    BY <4>1, <4>2, <5>1
            <4>. QED
                BY <4>1, <4>3 DEF j
        <3>7. k - 1 \in P
            <4>. HIDE DEF P
            <4>. DEFINE last == k - 1
            <4>1. last \in Nat /\ P \in SUBSET (0 .. last) /\ 0 \in P
                  /\ \A i \in 1 .. last : i - 1 \in P => i \in P
                BY <3>5, <3>6
            <4>. HIDE DEF last
            <4>2. \A i \in 0 .. last : i \in P
                BY <4>1, CountUp
            <4>3. last \in P
                BY <4>1, <4>2
            <4>. QED
                BY <4>3 DEF last
        <3>8. flatten[k] = f[k]
            BY <2>1, <3>7
        <3>9. f[k] = g[k]
            BY <2>1, <2>3 DEF f
        <3>. QED
            BY <2>1, <3>1, <3>8, <3>9 DEF first
    <2>. QED
        BY <2>2, <2>3
<1>. QED
    BY <1>5, <1>6, <1>7 DEF X, n
=============================================================================
