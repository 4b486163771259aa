------------------------- MODULE SearchRequestProofs ------------------------
(***************************************************************************)
(* A search, for every index, request and name: the order of its hits, and *)
(* their way through the codec.  The lemmas about numbers, sequences and   *)
(* finite sets come first, then the ranking, the codec and the theorems.   *)
(***************************************************************************)
EXTENDS SearchRequest, FiniteSetTheorems, WellFoundedInduction, SequenceTheorems, TLAPS

-----------------------------------------------------------------------------
(* Numbers *)

\* A set of numbers that is not empty has a smallest one.
LEMMA SmallestNumber ==
    ASSUME NEW T \in SUBSET Nat, T # {}
    PROVE  \E x \in T : \A y \in T : x <= y
<1>1. PICK x \in T : \A y \in T : ~(<<y, x>> \in OpToRel(<, Nat))
  BY NatLessThanWellFounded, WFMin
<1>2. \A y \in T : ~(y < x)
  BY <1>1 DEF OpToRel
<1>. QED
  BY <1>2

\* What holds for 0, and for n + 1 if for n, holds up to N.
LEMMA UpTo ==
    ASSUME NEW N \in Nat, NEW S, 0 \in S, \A n \in 0..(N - 1) : n \in S => n + 1 \in S
    PROVE  0..N \subseteq S
<1> DEFINE T == 0..N \ S
<1>1. CASE T # {}
  <2>1. PICK x \in T : \A y \in T : x <= y
    <3>1. T \in SUBSET Nat
      OBVIOUS
    <3> HIDE DEF T
    <3>. QED
      BY <1>1, <3>1, SmallestNumber
  <2>2. x \in 0..N /\ x \notin S /\ x # 0
    OBVIOUS
  <2>3. x - 1 \in 0..(N - 1) /\ x - 1 \notin T /\ (x - 1) + 1 = x
    <3> HIDE DEF T
    <3>. QED
      BY <2>1, <2>2
  <2>4. x - 1 \in S
    BY <2>2, <2>3
  <2>. QED
    BY <2>2, <2>3, <2>4
<1>. QED
  BY <1>1

\* g starts with c and takes one step after the other.
Recurses(g, S, N, c, step) ==
    /\ g \in [0..N -> S]
    /\ g[0] = c
    /\ \A n \in 1..N : g[n] = step[<<g[n - 1], n>>]

\* A function defined by recursion over 0..N exists.
LEMMA Recursion ==
    ASSUME NEW S, NEW N \in Nat, NEW c \in S, NEW step \in [S \X (1..N) -> S]
    PROVE  \E g : Recurses(g, S, N, c, step)
<1> DEFINE Obeys(g, m) == g[0] = c /\ \A n \in 1..m : g[n] = step[<<g[n - 1], n>>]
           K == {m \in 0..N : \E g \in [0..N -> S] : Obeys(g, m)}
<1>1. 0 \in K
  <2> DEFINE h == [n \in 0..N |-> c]
  <2>1. h \in [0..N -> S] /\ h[0] = c
    OBVIOUS
  <2>2. Obeys(h, 0) /\ 0 \in 0..N
    BY <2>1
  <2> HIDE DEF h
  <2>. QED
    BY <2>1, <2>2
<1>2. ASSUME NEW m \in 0..(N - 1), m \in K
      PROVE  m + 1 \in K
  <2>1. PICK g \in [0..N -> S] : Obeys(g, m)
    BY <1>2
  <2> DEFINE h == [g EXCEPT ![m + 1] = step[<<g[m], m + 1>>]]
  <2>2. h \in [0..N -> S]
    OBVIOUS
  <2>3. \A n \in 1..(m + 1) : h[n] = step[<<h[n - 1], n>>]
    BY SMTT(30), <2>1
  <2>4. Obeys(h, m + 1) /\ m + 1 \in 0..N
    BY <2>1, <2>3
  <2> HIDE DEF h, Obeys
  <2>. QED
    BY <2>2, <2>4
<1>3. N \in K
  <2> HIDE DEF K
  <2>. QED
    BY <1>1, <1>2, UpTo
<1>4. PICK g \in [0..N -> S] : Obeys(g, N)
  BY <1>3
<1>. QED
  BY <1>4 DEF Recurses
-----------------------------------------------------------------------------
(* Sequences *)

\* h holds what the first pieces amount to.
Joins(h, pieces, N, A) ==
    /\ h \in [1..N -> Seq(A)]
    /\ h[1] = pieces[1]
    /\ \A i \in 2..N : h[i] = h[i - 1] \o pieces[i]

\* FlattenSeq goes through the pieces, each appended to those before it.
LEMMA FlattenSteps ==
    ASSUME NEW A, NEW N \in Nat \ {0}, NEW pieces \in [1..N -> Seq(A)]
    PROVE  \E h : Joins(h, pieces, N, A) /\ FlattenSeq(pieces) = h[N]
<1>. PICK M \in Nat : N = M + 1
  OBVIOUS
<1> DEFINE T == Seq(A)
           Cat(s, t) == s \o t
           Next1(f, i) == IF i = 1 THEN pieces[i] ELSE Cat(f[i - 1], pieces[i])
           Steps(f) == f = [i \in 1..N |-> Next1(f, i)]
           step == [p \in T \X (1..M) |-> Cat(p[1], pieces[p[2] + 1])]
<1>1. \A s, t \in T : Cat(s, t) \in T
  BY ConcatProperties
<1>2. pieces \in [1..N -> T]
  OBVIOUS
<1>3. Len(pieces) = N
  OBVIOUS
<1>4. FlattenSeq(pieces) = (CHOOSE f : Steps(f))[N]
  BY <1>3 DEF FlattenSeq
<1> HIDE DEF T, Cat
<1>5. \E f : Steps(f)
  <2>1. step \in [T \X (1..M) -> T] /\ pieces[1] \in T
    BY <1>1, <1>2
  <2>2. \A s \in T : \A n \in 1..M : step[<<s, n>>] = Cat(s, pieces[n + 1])
    OBVIOUS
  <2> HIDE DEF step
  <2>3. PICK g : Recurses(g, T, M, pieces[1], step)
    BY <2>1, Recursion
  <2> DEFINE f == [i \in 1..N |-> g[i - 1]]
  <2>4. \A n \in 1..M : g[n] = Cat(g[n - 1], pieces[n + 1])
    <3>1. \A n \in 1..M : g[n - 1] \in T
      BY <2>3 DEF Recurses
    <3>. QED
      BY <2>2, <2>3, <3>1 DEF Recurses
  <2>5. \A i \in 1..N : f[i] = Next1(f, i)
    <3>1. \A i \in 1..N : i = 1 \/ (i - 1 \in 1..M /\ (i - 1) + 1 = i /\ i - 1 \in 1..N)
      OBVIOUS
    <3>. QED
      BY <2>3, <2>4, <3>1 DEF Recurses
  <2>6. f = [i \in 1..N |-> Next1(f, i)]
    <3>1. f = [i \in 1..N |-> f[i]]
      OBVIOUS
    <3> HIDE DEF f, Next1
    <3>. QED
      BY <2>5, <3>1
  <2>. QED
    BY <2>6
<1>6. PICK f : Steps(f) /\ FlattenSeq(pieces) = f[N]
  <2> HIDE DEF Steps
  <2>. QED
    BY <1>4, <1>5
<1>7. \A i \in 1..N : f[i] = Next1(f, i)
  <2> DEFINE F == [i \in 1..N |-> Next1(f, i)]
  <2>1. f = F /\ \A i \in 1..N : F[i] = Next1(f, i)
    <3> HIDE DEF Next1
    <3>. QED
      BY <1>6
  <2> HIDE DEF F, Next1
  <2>. QED
    BY <2>1
<1>8. f[1] = pieces[1] /\ \A i \in 2..N : f[i] = Cat(f[i - 1], pieces[i])
  <2>1. 1 \in 1..N /\ \A i \in 2..N : i \in 1..N /\ i # 1
    OBVIOUS
  <2>. QED
    BY <1>7, <2>1
<1>9. \A i \in 1..N : f[i] \in T
  <2> DEFINE K == {i \in 0..M : f[i + 1] \in T}
  <2>1. 0 \in K
    BY <1>2, <1>8
  <2>2. ASSUME NEW n \in 0..(M - 1), n \in K
        PROVE  n + 1 \in K
    <3>1. n + 2 \in 2..N /\ (n + 2) - 1 = n + 1 /\ (n + 1) + 1 = n + 2 /\ n + 1 \in 0..M
      OBVIOUS
    <3>2. f[n + 2] = Cat(f[n + 1], pieces[n + 2]) /\ pieces[n + 2] \in T
      BY <1>2, <1>8, <3>1
    <3>3. f[n + 2] \in T
      BY <1>1, <2>2, <3>2
    <3>. QED
      BY <3>1, <3>3
  <2>3. 0..M \subseteq K
    <3> HIDE DEF K
    <3>. QED
      BY <2>1, <2>2, UpTo
  <2>4. \A i \in 1..N : i - 1 \in 0..M /\ (i - 1) + 1 = i
    OBVIOUS
  <2>. QED
    BY <2>3, <2>4
<1>10. f \in [1..N -> T]
  <2>1. f = [i \in 1..N |-> Next1(f, i)]
    BY <1>6
  <2> HIDE DEF Next1
  <2>. QED
    BY <2>1, <1>9
<1>11. \A i \in 2..N : f[i] = f[i - 1] \o pieces[i]
  BY <1>8, Zenon DEF Cat
<1>. QED
  BY <1>6, <1>8, <1>10, <1>11, Zenon DEF T, Joins
\* A text that consists of two.
Consists(text, s, t) ==
    /\ Len(text) = Len(s) + Len(t)
    /\ \A j \in 1..Len(s) : text[j] = s[j]
    /\ \A j \in 1..Len(t) : text[Len(s) + j] = t[j]

\* One sequence after the other.
LEMMA ConcatConsists ==
    ASSUME NEW A, NEW s \in Seq(A), NEW t \in Seq(A)
    PROVE  Consists(s \o t, s, t)
BY DEF Consists

\* The offsets of pieces of these lengths, one behind the other.
Offsets(off, len, N) ==
    /\ off \in [1..(N + 1) -> Nat]
    /\ len \in [1..N -> Nat]
    /\ off[1] = 0
    /\ \A k \in 1..N : off[k + 1] = off[k] + len[k]

\* A piece ends before a later one begins.
LEMMA OffsetsGrow ==
    ASSUME NEW N \in Nat, NEW off, NEW len, Offsets(off, len, N)
    PROVE  \A i \in 1..(N + 1) : \A k \in 1..(i - 1) : off[k] + len[k] <= off[i]
<1> DEFINE Grown(i) == \A k \in 1..(i - 1) : off[k] + len[k] <= off[i]
           K == {n \in 0..N : Grown(n + 1)}
<1>1. 0 \in K
  OBVIOUS
<1>2. ASSUME NEW n \in 0..(N - 1), n \in K
      PROVE  n + 1 \in K
  <2>. PICK i \in 1..N : i = n + 1
    OBVIOUS
  <2>. PICK e \in 1..(N + 1) : e = i + 1
    OBVIOUS
  <2>1. Grown(i)
    BY <1>2
  <2>2. off[e] = off[i] + len[i] /\ off[i] \in Nat /\ len[i] \in Nat
    BY DEF Offsets
  <2>3. ASSUME NEW k \in 1..(e - 1)
        PROVE  off[k] + len[k] <= off[e]
    <3>1. CASE k = i
      BY <2>2, <3>1
    <3>2. CASE k # i
      <4>1. k \in 1..(i - 1) /\ k \in 1..N
        BY <3>2
      <4>2. off[k] \in Nat /\ len[k] \in Nat
        BY <4>1 DEF Offsets
      <4>. QED
        BY <2>1, <2>2, <4>1, <4>2
    <3>. QED
      BY <3>1, <3>2
  <2>4. Grown(e)
    BY <2>3
  <2>. QED
    BY <2>4
<1>3. 0..N \subseteq K
  <2> HIDE DEF K
  <2>. QED
    BY <1>1, <1>2, UpTo
<1>4. ASSUME NEW i \in 1..(N + 1)
      PROVE  Grown(i)
  <2>1. i - 1 \in 0..N /\ (i - 1) + 1 = i
    OBVIOUS
  <2>2. Grown((i - 1) + 1)
    <3> HIDE DEF Grown
    <3>. QED
      BY <1>3, <2>1
  <2> HIDE DEF Grown
  <2>. QED
    BY <2>1, <2>2
<1>. QED
  BY <1>4

\* Each text holds what the one before it does, and a piece behind it.
Keeps(H, P, off, len, N) ==
    /\ \A i \in 2..N : \A j \in 1..off[i] : H[i][j] = H[i - 1][j]
    /\ \A i \in 1..N : \A j \in 1..len[i] : H[i][off[i] + j] = P[i][j]

\* When each text keeps what the one before it holds and adds a piece, the last
\* holds every piece.
LEMMA PiecesStay ==
    ASSUME NEW N \in Nat \ {0}, NEW off, NEW len, Offsets(off, len, N),
           NEW H, NEW P, Keeps(H, P, off, len, N)
    PROVE  \A k \in 1..N : \A j \in 1..len[k] : H[N][off[k] + j] = P[k][j]
<1> USE DEF Keeps
<1> DEFINE Held(i) == \A k \in 1..i : \A j \in 1..len[k] : H[i][off[k] + j] = P[k][j]
           K == {n \in 0..(N - 1) : Held(n + 1)}
<1>1. 0 \in K
  OBVIOUS
<1>2. ASSUME NEW n \in 0..((N - 1) - 1), n \in K
      PROVE  n + 1 \in K
  <2>. PICK m \in 1..N : m = n + 1
    OBVIOUS
  <2>. PICK i \in 2..N : i = m + 1 /\ i - 1 = m
    OBVIOUS
  <2>1. Held(m)
    BY <1>2
  <2>2. \A j \in 1..off[i] : H[i][j] = H[m][j]
    <3>1. i - 1 = m
      OBVIOUS
    <3>2. \A j \in 1..off[i] : H[i][j] = H[i - 1][j]
      OBVIOUS
    <3>. QED
      BY <3>1, <3>2
  <2>3. ASSUME NEW k \in 1..i, NEW j \in 1..len[k]
        PROVE  H[i][off[k] + j] = P[k][j]
    <3>1. CASE k = i
      BY <3>1
    <3>2. CASE k # i
      <4>1. k \in 1..m /\ k \in 1..(i - 1) /\ i \in 1..(N + 1) /\ k \in 1..N
        BY <3>2
      <4>0. k \in 1..(N + 1)
        OBVIOUS
      <4>2. off[k] \in Nat /\ len[k] \in Nat /\ off[i] \in Nat
        BY <4>0, <4>1 DEF Offsets
      <4>3. off[k] + len[k] <= off[i]
        BY <4>1, OffsetsGrow
      <4>4. off[k] + j \in 1..off[i]
        BY <4>2, <4>3
      <4>5. H[m][off[k] + j] = P[k][j]
        BY <2>1, <4>1
      <4>. QED
        BY <2>2, <4>4, <4>5
    <3>. QED
      BY <3>1, <3>2
  <2>4. Held(i)
    BY <2>3
  <2>. QED
    BY <2>4
<1>3. 0..(N - 1) \subseteq K
  <2> HIDE DEF K
  <2>. QED
    BY <1>1, <1>2, UpTo
<1>4. N - 1 \in 0..(N - 1) /\ (N - 1) + 1 = N
  OBVIOUS
<1>5. Held((N - 1) + 1)
  <2> HIDE DEF Held
  <2>. QED
    BY <1>3, <1>4
<1>. QED
  BY <1>4, <1>5

\* Each piece is in the text, off[k] away from its beginning.
Places(off, text, pieces, N) ==
    /\ Offsets(off, [k \in 1..N |-> Len(pieces[k])], N)
    /\ Len(text) = off[N + 1]
    /\ \A k \in 1..N : \A j \in 1..Len(pieces[k]) : text[off[k] + j] = pieces[k][j]

\* FlattenSeq puts every piece to its place, behind those before it.
LEMMA FlattenPlaces ==
    ASSUME NEW A, NEW N \in Nat, NEW pieces \in [1..N -> Seq(A)]
    PROVE  /\ FlattenSeq(pieces) \in Seq(A)
           /\ \E off : Places(off, FlattenSeq(pieces), pieces, N)
<1> DEFINE len == [k \in 1..N |-> Len(pieces[k])]
<1>0. len \in [1..N -> Nat] /\ \A k \in 1..N : len[k] = Len(pieces[k])
  OBVIOUS
<1>1. CASE N = 0
  <2>1. pieces = <<>>
    BY <1>1
  <2>2. FlattenSeq(pieces) = <<>>
    BY <2>1 DEF FlattenSeq
  <2>3. Places([k \in 1..(N + 1) |-> 0], <<>>, pieces, N)
    BY <1>1 DEF Places, Offsets
  <2>. QED
    BY <2>2, <2>3
<1>2. CASE N # 0
  <2>1. PICK h : Joins(h, pieces, N, A) /\ FlattenSeq(pieces) = h[N]
    BY <1>2, FlattenSteps
  <2>0. h \in [1..N -> Seq(A)] /\ h[1] = pieces[1]
    BY <2>1 DEF Joins
  <2> DEFINE off == [k \in 1..(N + 1) |-> IF k = 1 THEN 0 ELSE Len(h[k - 1])]
  <2>2. \A i \in 1..N : Len(h[i]) \in Nat /\ Len(pieces[i]) \in Nat
    BY <2>0
  <2>3. \A i \in 2..N : i - 1 \in 1..N /\ i \in 1..N
    OBVIOUS
  <2>4. \A i \in 2..N :
          /\ Len(h[i]) = Len(h[i - 1]) + Len(pieces[i])
          /\ \A j \in 1..Len(h[i - 1]) : h[i][j] = h[i - 1][j]
          /\ \A j \in 1..Len(pieces[i]) : h[i][Len(h[i - 1]) + j] = pieces[i][j]
    <3> TAKE i \in 2..N
    <3>1. h[i - 1] \in Seq(A) /\ pieces[i] \in Seq(A)
      BY <2>0, <2>3
    <3>2. h[i] = h[i - 1] \o pieces[i]
      BY <2>1, Zenon DEF Joins
    <3>3. Consists(h[i], h[i - 1], pieces[i])
      BY <3>1, <3>2, ConcatConsists, Zenon
    <3>. QED
      BY <3>3 DEF Consists
  <2>5. /\ off \in [1..(N + 1) -> Nat]
        /\ off[1] = 0
        /\ \A k \in 1..N : off[k + 1] = Len(h[k])
        /\ \A i \in 2..N : off[i] = Len(h[i - 1])
    <3>1. \A k \in 1..(N + 1) : k = 1 \/ k - 1 \in 1..N
      OBVIOUS
    <3>2. off \in [1..(N + 1) -> Nat]
      BY <2>2, <3>1
    <3>3. \A k \in 1..N : k + 1 \in 1..(N + 1) /\ k + 1 # 1 /\ (k + 1) - 1 = k
      OBVIOUS
    <3>4. off[1] = 0 /\ \A k \in 1..N : off[k + 1] = Len(h[k])
      BY <3>3
    <3>5. \A i \in 2..N : off[i] = Len(h[i - 1])
      OBVIOUS
    <3>. QED
      BY <3>2, <3>4, <3>5
  <2> HIDE DEF off, len
  <2>6. \A k \in 1..N : off[k + 1] = off[k] + len[k]
    <3> TAKE k \in 1..N
    <3>1. CASE k = 1
      <4>1. Len(h[1]) = Len(pieces[1]) /\ Len(pieces[1]) \in Nat
        BY <1>2, <2>0, <2>2
      <4>2. off[1 + 1] = Len(h[1])
        BY <2>5, <3>1
      <4>. QED
        BY <1>0, <2>5, <3>1, <4>1, <4>2
    <3>2. CASE k # 1
      <4>1. k \in 2..N
        BY <3>2
      <4>2. Len(h[k]) = Len(h[k - 1]) + Len(pieces[k])
        BY <2>4, <4>1
      <4>3. off[k] = Len(h[k - 1]) /\ off[k + 1] = Len(h[k]) /\ len[k] = Len(pieces[k])
        BY <1>0, <2>5, <4>1
      <4>. QED
        BY <4>2, <4>3
    <3>. QED
      BY <3>1, <3>2
  <2>7. Offsets(off, len, N)
    BY <1>0, <2>5, <2>6 DEF Offsets
  <2>8. \A i \in 2..N : \A j \in 1..off[i] : h[i][j] = h[i - 1][j]
    BY <2>4, <2>5
  <2>9. \A i \in 1..N : \A j \in 1..len[i] : h[i][off[i] + j] = pieces[i][j]
    <3> TAKE i \in 1..N
    <3>1. CASE i = 1
      BY <1>0, <2>0, <2>5, <3>1
    <3>2. CASE i # 1
      <4>1. i \in 2..N
        BY <3>2
      <4>2. off[i] = Len(h[i - 1]) /\ len[i] = Len(pieces[i])
        BY <1>0, <2>5, <4>1
      <4>3. \A j \in 1..Len(pieces[i]) : h[i][Len(h[i - 1]) + j] = pieces[i][j]
        BY <2>4, <4>1
      <4>. QED
        BY <4>2, <4>3
    <3>. QED
      BY <3>1, <3>2
  <2>10. \A k \in 1..N : \A j \in 1..len[k] : h[N][off[k] + j] = pieces[k][j]
    <3>1. N \in Nat \ {0}
      BY <1>2
    <3>2. Keeps(h, pieces, off, len, N)
      BY <2>8, <2>9, Zenon DEF Keeps
    <3>. QED
      BY <2>7, <3>1, <3>2, PiecesStay
  <2>11. h[N] \in Seq(A) /\ Len(h[N]) = off[N + 1]
    BY <1>2, <2>0, <2>5
  <2>12. Places(off, h[N], pieces, N)
    <3>1. Offsets(off, [k \in 1..N |-> Len(pieces[k])], N)
      BY <2>7 DEF len
    <3>2. \A k \in 1..N : \A j \in 1..Len(pieces[k]) : h[N][off[k] + j] = pieces[k][j]
      BY <1>0, <2>10
    <3>. QED
      BY <2>11, <3>1, <3>2, Zenon DEF Places
  <2>. QED
    BY <2>1, <2>11, <2>12, Zenon
<1>. QED
  BY <1>1, <1>2

\* Pieces of at most W bytes end after at most W bytes each.
LEMMA OffsetsBound ==
    ASSUME NEW N \in Nat, NEW off, NEW len, Offsets(off, len, N),
           NEW W \in Nat, \A k \in 1..N : len[k] <= W
    PROVE  off[N + 1] <= N * W
<1> DEFINE K == {n \in 0..N : off[n + 1] <= n * W}
<1>1. 0 \in K
  BY DEF Offsets
<1>2. ASSUME NEW n \in 0..(N - 1), n \in K
      PROVE  n + 1 \in K
  <2>. PICK i \in 1..N : i = n + 1
    OBVIOUS
  <2>1. off[i + 1] = off[i] + len[i] /\ off[i] \in Nat /\ len[i] \in Nat /\ len[i] <= W
    BY DEF Offsets
  <2>2. off[i] <= n * W
    BY <1>2
  <2>3. i * W = n * W + W
    OBVIOUS
  <2>4. off[i + 1] <= i * W
    BY <2>1, <2>2, <2>3
  <2>. QED
    BY <2>4
<1>3. 0..N \subseteq K
  <2> HIDE DEF K
  <2>. QED
    BY <1>1, <1>2, UpTo
<1>. QED
  BY <1>3

-----------------------------------------------------------------------------
(* The names *)

\* What EncodeBytes makes of one byte.
Escape(byte) ==
    IF byte \in Plain THEN <<byte>> ELSE <<Percent, byte \div Radix, byte % Radix>>

Escapes(bytes) == [i \in 1..Len(bytes) |-> Escape(bytes[i])]

Encoded == 0..3

\* An escape has one byte or three, all of them digits or the escape character, and
\* stands for its byte.
LEMMA EscapeBytes ==
    ASSUME NEW byte \in Byte
    PROVE  /\ Escape(byte) \in Seq(Encoded)
           /\ \/ /\ byte \in Digit
                 /\ Escape(byte) = <<byte>>
              \/ /\ byte \notin Digit
                 /\ Escape(byte) = <<Percent, byte \div Radix, byte % Radix>>
                 /\ byte \div Radix \in Digit /\ byte % Radix \in Digit
                 /\ (byte \div Radix) * Radix + (byte % Radix) = byte
<1>1. PICK b \in 0..8 : b = byte
  BY DEF Byte, Radix
<1>2. PICK q \in Int : q = b \div 3
  OBVIOUS
<1>3. PICK r \in 0..2 : r = b % 3
  OBVIOUS
<1>4. b = 3 * q + r
  BY <1>2, <1>3
<1>5. q \in 0..2
  BY <1>4
<1>6. CASE byte \in Digit
  <2>1. Escape(byte) = <<byte>>
    BY <1>6 DEF Escape, Plain
  <2>2. byte \in Encoded
    BY <1>6 DEF Encoded, Digit, Radix
  <2>. QED
    BY <1>6, <2>1, <2>2
<1>7. CASE byte \notin Digit
  <2>1. Escape(byte) = <<3, q, r>>
    BY <1>1, <1>2, <1>3, <1>7 DEF Escape, Plain, Percent, Radix
  <2>2. {3, q, r} \subseteq Encoded
    BY <1>5 DEF Encoded
  <2>3. Escape(byte) \in Seq(Encoded)
    BY <2>1, <2>2
  <2>4. byte \div Radix = q /\ byte % Radix = r
    BY <1>1, <1>2, <1>3 DEF Radix
  <2>. QED
    <3>1. q \in Digit /\ r \in Digit
      BY <1>5 DEF Digit, Radix
    <3>2. q * Radix + r = byte
      BY <1>1, <1>4 DEF Radix
    <3>3. Escape(byte) = <<Percent, byte \div Radix, byte % Radix>>
      BY <2>1, <2>4, Zenon DEF Percent
    <3>4. (byte \div Radix) * Radix + (byte % Radix) = byte
      BY <2>4, <3>2, Zenon
    <3>. QED
      BY <1>7, <2>3, <2>4, <3>1, <3>3, <3>4, Zenon
<1>. QED
  BY <1>6, <1>7

\* An encoded name is made of the escapes of its bytes, and is at most three times
\* as long.
LEMMA EncodedName ==
    ASSUME NEW bytes \in Seq(Byte)
    PROVE  /\ EncodeBytes(bytes) \in Seq(Encoded)
           /\ Len(EncodeBytes(bytes)) <= 3 * Len(bytes)
           /\ \E off : Places(off, EncodeBytes(bytes), Escapes(bytes), Len(bytes))
<1>. PICK N \in Nat : N = Len(bytes)
  OBVIOUS
<1> DEFINE pieces == Escapes(bytes)
<1>1. EncodeBytes(bytes) = FlattenSeq(pieces)
  <2>1. DOMAIN bytes = 1..Len(bytes)
    OBVIOUS
  <2>. QED
    BY <2>1, Zenon DEF EncodeBytes, Escapes, Escape
<1>2. \A i \in 1..N : bytes[i] \in Byte
  OBVIOUS
<1>3. pieces \in [1..N -> Seq(Encoded)]
  BY <1>2, EscapeBytes DEF Escapes
<1>4. \A i \in 1..N : Len(pieces[i]) <= 3
  <2>1. \A byte \in Byte : Len(Escape(byte)) <= 3
    <3> TAKE byte \in Byte
    <3>1. Escape(byte) = <<byte>>
          \/ Escape(byte) = <<Percent, byte \div Radix, byte % Radix>>
      BY EscapeBytes
    <3>2. \A a, b, c : Len(<<a>>) <= 3 /\ Len(<<a, b, c>>) <= 3
      OBVIOUS
    <3>. QED
      BY <3>1, <3>2, Zenon
  <2>. QED
    BY <1>2, <2>1 DEF Escapes
<1> HIDE DEF pieces
<1>5. FlattenSeq(pieces) \in Seq(Encoded) /\ \E off : Places(off, FlattenSeq(pieces), pieces, N)
  BY <1>3, FlattenPlaces
<1>6. PICK off : Places(off, FlattenSeq(pieces), pieces, N)
  BY <1>5
<1>7. Len(FlattenSeq(pieces)) <= 3 * N
  <2> DEFINE len == [k \in 1..N |-> Len(pieces[k])]
  <2>1. Offsets(off, len, N) /\ Len(FlattenSeq(pieces)) = off[N + 1]
    BY <1>6, Zenon DEF Places
  <2>2. \A k \in 1..N : len[k] <= 3
    BY <1>4
  <2> HIDE DEF len
  <2>3. off[N + 1] <= N * 3
    BY <2>1, <2>2, OffsetsBound
  <2>. QED
    BY <2>1, <2>3
<1>. QED
  BY <1>1, <1>5, <1>6, <1>7 DEF pieces

\* The first n elements.
Begin(s, n) == SubSeq(s, 1, n)

\* They are those of the sequence.
LEMMA BeginElements ==
    ASSUME NEW A, NEW s \in Seq(A), NEW n \in 0..Len(s)
    PROVE  /\ Begin(s, n) \in Seq(A)
           /\ Len(Begin(s, n)) = n
           /\ \A i \in 1..n : Begin(s, n)[i] = s[i]
<1>1. \A i \in 1..n : s[i] \in A
  OBVIOUS
<1>2. n - 1 + 1 = n /\ (IF 1 <= n THEN n - 1 + 1 ELSE 0) = n /\ 1 \in Int /\ n \in Int
  OBVIOUS
<1>3. /\ SubSeq(s, 1, n) \in Seq(A)
      /\ Len(SubSeq(s, 1, n)) = (IF 1 <= n THEN n - 1 + 1 ELSE 0)
      /\ \A i \in 1..(n - 1 + 1) : SubSeq(s, 1, n)[i] = s[1 + i - 1]
  BY <1>1, <1>2, SubSeqProperties
<1>4. \A i \in 1..n : 1 + i - 1 = i
  OBVIOUS
<1>. QED
  BY <1>2, <1>3, <1>4, Zenon DEF Begin

\* From the first n elements to the first n + 1.
LEMMA Beginnings ==
    ASSUME NEW A, NEW s \in Seq(A)
    PROVE  /\ Begin(s, 0) = <<>>
           /\ Begin(s, Len(s)) = s
           /\ \A n \in 0..Len(s) : Begin(s, n) \in Seq(A)
           /\ \A n \in 0..(Len(s) - 1) : Append(Begin(s, n), s[n + 1]) = Begin(s, n + 1)
<1>1. Begin(s, 0) = <<>>
  BY SubSeqEmpty DEF Begin
<1>2. Begin(s, Len(s)) = s
  BY SubSeqFull DEF Begin
<1>3. \A n \in 0..Len(s) : /\ Begin(s, n) \in Seq(A) /\ Len(Begin(s, n)) = n
                            /\ \A i \in 1..n : Begin(s, n)[i] = s[i]
  BY BeginElements
<1>4. ASSUME NEW n \in 0..(Len(s) - 1)
      PROVE  Append(Begin(s, n), s[n + 1]) = Begin(s, n + 1)
  <2>. PICK m \in 1..Len(s) : m = n + 1
    OBVIOUS
  <2>1. /\ Begin(s, n) \in Seq(A) /\ Len(Begin(s, n)) = n
        /\ \A i \in 1..n : Begin(s, n)[i] = s[i]
    BY BeginElements
  <2>2. /\ Begin(s, m) \in Seq(A) /\ Len(Begin(s, m)) = m
        /\ \A i \in 1..m : Begin(s, m)[i] = s[i]
    BY BeginElements
  <2>3. s[m] \in A
    OBVIOUS
  <2> DEFINE t == Append(Begin(s, n), s[m])
  <2>4. /\ t \in Seq(A) /\ Len(t) = n + 1 /\ t[n + 1] = s[m]
        /\ \A i \in 1..n : t[i] = Begin(s, n)[i]
    BY <2>1, <2>3, AppendProperties
  <2> HIDE DEF t
  <2>5. Len(t) = Len(Begin(s, m)) /\ \A i \in 1..Len(t) : t[i] = Begin(s, m)[i]
    <3>1. Len(t) = m /\ t[m] = s[m]
      BY <2>4
    <3>2. ASSUME NEW i \in 1..m
          PROVE  t[i] = Begin(s, m)[i]
      <4>1. CASE i = m
        BY <2>2, <3>1, <4>1
      <4>2. CASE i # m
        <5>1. i \in 1..n
          BY <4>2
        <5>. QED
          BY <2>1, <2>2, <2>4, <5>1
      <4>. QED
        BY <4>1, <4>2
    <3>. QED
      BY <2>2, <3>1, <3>2
  <2>6. t = Begin(s, m)
    BY <2>2, <2>4, <2>5, SeqEqual
  <2>. QED
    BY <2>6 DEF t
<1>. QED
  BY <1>1, <1>2, <1>3, <1>4

-----------------------------------------------------------------------------
(* Names come back *)

Reader(i, output, error) == [index |-> i, output |-> output, error |-> error]

\* One round of the loop of DecodeBytes.
Round(l, text) ==
    LET i == l.index
    IN  IF l.error \/ i > Len(text) THEN l
        ELSE IF text[i] # Percent
        THEN [l EXCEPT !.index = i + 1, !.output = Append(@, text[i])]
        ELSE IF i + 2 > Len(text) \/ ~({text[i + 1], text[i + 2]} \subseteq Digit)
        THEN [l EXCEPT !.error = TRUE]
        ELSE [l EXCEPT !.index = i + 3,
                       !.output = Append(@, text[i + 1] * Radix + text[i + 2])]

Rounds(f, text) ==
    f = [n \in 0..Len(text) |->
            IF n = 0 THEN Reader(1, <<>>, FALSE) ELSE Round(f[n - 1], text)]

\* DecodeBytes returns what the loop ends with, however one knows the loop.
LEMMA DecodeLoop ==
    ASSUME NEW text, Len(text) \in Nat, NEW g, Rounds(g, text)
    PROVE  DecodeBytes(text) = IF g[Len(text)].error THEN {} ELSE {g[Len(text)].output}
<1> DEFINE L == Len(text)
           f == CHOOSE r : Rounds(r, text)
<1>1. DecodeBytes(text) = IF f[L].error THEN {} ELSE {f[L].output}
  BY Zenon DEF DecodeBytes, Rounds, Round, Reader
<1>2. Rounds(f, text)
  OBVIOUS
<1>3. ASSUME NEW r, Rounds(r, text)
      PROVE  r[0] = Reader(1, <<>>, FALSE) /\ \A n \in 1..L : r[n] = Round(r[n - 1], text)
  <2> DEFINE Body(n) == IF n = 0 THEN Reader(1, <<>>, FALSE) ELSE Round(r[n - 1], text)
             F == [n \in 0..L |-> Body(n)]
  <2>1. r = F
    BY <1>3, Zenon DEF Rounds
  <2>2. \A n \in 0..L : F[n] = Body(n)
    <3> HIDE DEF Body
    <3>. QED
      OBVIOUS
  <2>3. \A n \in 0..L : r[n] = Body(n)
    <3> HIDE DEF F, Body
    <3>. QED
      BY <2>1, <2>2
  <2> HIDE DEF F
  <2>4. 0 \in 0..L /\ \A n \in 1..L : n \in 0..L /\ n # 0
    OBVIOUS
  <2>. QED
    BY <2>3, <2>4, Zenon
<1> HIDE DEF f
<1> DEFINE K == {n \in 0..L : f[n] = g[n]}
<1>4. 0 \in K
  <2>1. f[0] = g[0]
    BY <1>2, <1>3, Zenon
  <2>. QED
    BY <2>1
<1>5. ASSUME NEW n \in 0..(L - 1), n \in K
      PROVE  n + 1 \in K
  <2>1. n + 1 \in 1..L /\ n + 1 \in 0..L /\ (n + 1) - 1 = n
    OBVIOUS
  <2>2. f[n] = g[n]
    BY <1>5
  <2>3. f[n + 1] = Round(f[n], text) /\ g[n + 1] = Round(g[n], text)
    BY <1>2, <1>3, <2>1
  <2>4. f[n + 1] = g[n + 1]
    BY <2>2, <2>3, Zenon
  <2>. QED
    BY <2>1, <2>4
<1>6. 0..L \subseteq K
  <2> HIDE DEF K
  <2>. QED
    BY <1>4, <1>5, UpTo
<1>7. f[L] = g[L]
  BY <1>6
<1>. QED
  BY <1>1, <1>7, Zenon

\* What a round does when there has been no error.
LEMMA RoundCases ==
    ASSUME NEW text, NEW i, NEW output
    PROVE  /\ i > Len(text) => Round(Reader(i, output, FALSE), text) = Reader(i, output, FALSE)
           /\ ~(i > Len(text)) /\ text[i] # Percent =>
                Round(Reader(i, output, FALSE), text)
                  = Reader(i + 1, Append(output, text[i]), FALSE)
           /\ /\ ~(i > Len(text)) /\ text[i] = Percent /\ ~(i + 2 > Len(text))
              /\ text[i + 1] \in Digit /\ text[i + 2] \in Digit
              => Round(Reader(i, output, FALSE), text)
                   = Reader(i + 3, Append(output, text[i + 1] * Radix + text[i + 2]), FALSE)
<1> DEFINE l == Reader(i, output, FALSE)
<1>1. /\ l.index = i /\ l.output = output /\ l.error = FALSE
      /\ \A j, o : [l EXCEPT !.index = j, !.output = o] = Reader(j, o, FALSE)
  <2>1. l.index = i /\ l.output = output /\ l.error = FALSE
    BY DEF Reader
  <2>2. \A j, o : [l EXCEPT !.index = j, !.output = o] = Reader(j, o, FALSE)
    <3> TAKE j, o
    <3>1. [l EXCEPT !.index = j, !.output = o]
            = [x \in {"index", "output", "error"} |->
                  IF x = "output" THEN o ELSE IF x = "index" THEN j ELSE l[x]]
      BY DEF Reader
    <3>2. /\ l["error"] = FALSE
          /\ "output" # "index" /\ "error" # "index" /\ "error" # "output"
      BY DEF Reader
    <3>3. [x \in {"index", "output", "error"} |->
              IF x = "output" THEN o ELSE IF x = "index" THEN j ELSE l[x]]
            = [x \in {"index", "output", "error"} |->
                  IF x = "index" THEN j ELSE IF x = "output" THEN o ELSE FALSE]
      <4> HIDE DEF l
      <4>. QED
        BY <3>2
    <3>4. Reader(j, o, FALSE)
            = [x \in {"index", "output", "error"} |->
                  IF x = "index" THEN j ELSE IF x = "output" THEN o ELSE FALSE]
      <4>1. PICK e : e = FALSE
        OBVIOUS
      <4>2. Reader(j, o, e)
              = [x \in {"index", "output", "error"} |->
                    IF x = "index" THEN j ELSE IF x = "output" THEN o ELSE e]
        BY DEF Reader
      <4>. QED
        BY <4>1, <4>2, Zenon
    <3>. QED
      BY <3>1, <3>3, <3>4, Zenon
  <2>. QED
    BY <2>1, <2>2
<1> HIDE DEF l
<1>2. CASE i > Len(text)
  BY <1>1, <1>2, Zenon DEF Round, l
<1>3. CASE ~(i > Len(text)) /\ text[i] # Percent
  <2>1. Round(l, text) = [l EXCEPT !.index = i + 1, !.output = Append(l.output, text[i])]
    BY <1>1, <1>3, Zenon DEF Round
  <2>. QED
    BY <1>1, <1>3, <2>1, Zenon DEF l
<1>4. CASE /\ ~(i > Len(text)) /\ text[i] = Percent /\ ~(i + 2 > Len(text))
           /\ text[i + 1] \in Digit /\ text[i + 2] \in Digit
  <2>1. {text[i + 1], text[i + 2]} \subseteq Digit
    BY <1>4
  <2>2. Round(l, text) = [l EXCEPT !.index = i + 3,
                                   !.output = Append(l.output, text[i + 1] * Radix + text[i + 2])]
    BY <1>1, <1>4, <2>1, Zenon DEF Round
  <2>. QED
    BY <1>1, <1>4, <2>2, Zenon DEF l
<1>. QED
  BY <1>2, <1>3, <1>4, Zenon DEF l

\* Pieces that are not empty: each moves the end by one at least.
LEMMA OffsetsAtLeast ==
    ASSUME NEW N \in Nat, NEW off, NEW len, Offsets(off, len, N), \A k \in 1..N : len[k] >= 1
    PROVE  off[N + 1] >= N
<1> DEFINE K == {n \in 0..N : off[n + 1] >= n}
<1>1. 0 \in K
  BY DEF Offsets
<1>2. ASSUME NEW n \in 0..(N - 1), n \in K
      PROVE  n + 1 \in K
  <2>. PICK i \in 1..N : i = n + 1
    OBVIOUS
  <2>1. off[i + 1] = off[i] + len[i] /\ off[i] \in Nat /\ len[i] \in Nat /\ len[i] >= 1
    BY DEF Offsets
  <2>2. off[i] >= n
    BY <1>2
  <2>3. off[i + 1] >= i
    BY <2>1, <2>2
  <2>. QED
    BY <2>3
<1>3. 0..N \subseteq K
  <2> HIDE DEF K
  <2>. QED
    BY <1>1, <1>2, UpTo
<1>. QED
  BY <1>3

\* decode_bytes is the inverse of encode_bytes, whatever bytes a name or a path has: those of
\* the digits, of the separators and of the escape character included.
THEOREM BytesComeBack ==
    ASSUME NEW bytes \in Seq(Byte)
    PROVE  DecodeBytes(EncodeBytes(bytes)) = {bytes}
<1>. PICK N \in Nat : N = Len(bytes)
  OBVIOUS
<1>1. PICK text \in Seq(Encoded) : text = EncodeBytes(bytes)
  BY EncodedName
<1>2. PICK off : Places(off, text, Escapes(bytes), N)
  BY <1>1, EncodedName
<1> DEFINE L == Len(text)
           len == [k \in 1..N |-> Len(Escapes(bytes)[k])]
<1>3. /\ Offsets(off, len, N) /\ L = off[N + 1]
      /\ \A k \in 1..N : \A j \in 1..Len(Escapes(bytes)[k]) :
           text[off[k] + j] = Escapes(bytes)[k][j]
  BY <1>2, Zenon DEF Places
<1>4. \A k \in 1..N : len[k] = Len(Escape(bytes[k])) /\ Escapes(bytes)[k] = Escape(bytes[k])
  BY DEF Escapes
<1> HIDE DEF len
<1>5. \A k \in 1..N : off[k] \in Nat /\ off[k + 1] = off[k] + len[k] /\ off[k + 1] \in Nat
  BY SMTT(30), <1>3 DEF Offsets
<1>6. \A k \in 1..N : bytes[k] \in Byte
  OBVIOUS
<1>7. \A k \in 1..N :
        \/ /\ bytes[k] # Percent /\ len[k] = 1
           /\ text[off[k] + 1] = bytes[k]
        \/ /\ len[k] = 3
           /\ text[off[k] + 1] = Percent
           /\ text[off[k] + 2] \in Digit /\ text[off[k] + 3] \in Digit
           /\ text[off[k] + 2] * Radix + text[off[k] + 3] = bytes[k]
  <2> TAKE k \in 1..N
  <2> DEFINE byte == bytes[k]
  <2>1. \A j \in 1..len[k] : text[off[k] + j] = Escape(byte)[j]
    BY <1>3, <1>4
  <2>2. \A a, b, c : /\ Len(<<a>>) = 1 /\ <<a>>[1] = a
                     /\ Len(<<a, b, c>>) = 3
                     /\ <<a, b, c>>[1] = a /\ <<a, b, c>>[2] = b /\ <<a, b, c>>[3] = c
    OBVIOUS
  <2>3. byte \in Byte /\ len[k] = Len(Escape(byte))
    BY <1>4, <1>6
  <2> HIDE DEF byte
  <2>4. CASE byte \in Digit /\ Escape(byte) = <<byte>>
    <3>1. len[k] = 1 /\ Escape(byte)[1] = byte
      BY <2>2, <2>3, <2>4, Zenon
    <3>2. byte # Percent
      BY <2>4 DEF Digit, Radix, Percent
    <3>3. text[off[k] + 1] = byte
      BY <2>1, <3>1
    <3>. QED
      BY <3>1, <3>2, <3>3 DEF byte
  <2>5. CASE /\ Escape(byte) = <<Percent, byte \div Radix, byte % Radix>>
             /\ byte \div Radix \in Digit /\ byte % Radix \in Digit
             /\ (byte \div Radix) * Radix + (byte % Radix) = byte
    <3>0. PICK q, r : q = byte \div Radix /\ r = byte % Radix
      OBVIOUS
    <3>4. Escape(byte) = <<Percent, q, r>>
      BY <2>5, <3>0, Zenon
    <3>1. /\ len[k] = 3 /\ Escape(byte)[1] = Percent
          /\ Escape(byte)[2] = byte \div Radix /\ Escape(byte)[3] = byte % Radix
      <4>1. /\ Len(<<Percent, q, r>>) = 3 /\ <<Percent, q, r>>[1] = Percent
            /\ <<Percent, q, r>>[2] = q /\ <<Percent, q, r>>[3] = r
        BY <2>2, Zenon
      <4>. QED
        BY <2>3, <3>0, <3>4, <4>1, Zenon
    <3>2. /\ text[off[k] + 1] = Escape(byte)[1]
          /\ text[off[k] + 2] = Escape(byte)[2]
          /\ text[off[k] + 3] = Escape(byte)[3]
      BY <2>1, <3>1
    <3>. QED
      BY <2>5, <3>1, <3>2, Zenon DEF byte
  <2>. QED
    BY <2>3, <2>4, <2>5, EscapeBytes, Zenon
<1> DEFINE State(n) == Reader(1 + off[n + 1], Begin(bytes, n), FALSE)
<1>8. ASSUME NEW n \in 0..(N - 1)
      PROVE  Round(State(n), text) = State(n + 1)
  <2>. PICK k \in 1..N : k = n + 1
    OBVIOUS
  <2> DEFINE i == 1 + off[k]
  <2>1. off[k] + len[k] <= L /\ L \in Nat /\ off[k] \in Nat /\ off[k + 1] = off[k] + len[k]
    <3>1. k \in 1..((N + 1) - 1) /\ N + 1 \in 1..(N + 1)
      OBVIOUS
    <3>. QED
      BY <1>3, <1>5, <3>1, OffsetsGrow
  <2>2. Append(Begin(bytes, n), bytes[k]) = Begin(bytes, k)
    <3>1. n \in 0..(Len(bytes) - 1) /\ k = n + 1
      OBVIOUS
    <3>2. \A x \in 0..(Len(bytes) - 1) :
            Append(Begin(bytes, x), bytes[x + 1]) = Begin(bytes, x + 1)
      BY Beginnings
    <3>. QED
      BY <3>1, <3>2, Zenon
  <2>3. State(n) = Reader(i, Begin(bytes, n), FALSE)
        /\ State(n + 1) = Reader(1 + off[k + 1], Begin(bytes, k), FALSE)
    OBVIOUS
  <2>4. i = off[k] + 1 /\ i + 1 = off[k] + 2 /\ i + 2 = off[k] + 3 /\ i + 3 = 1 + (off[k] + 3)
    BY <2>1
  <2> HIDE DEF State
  <2>5. CASE bytes[k] # Percent /\ len[k] = 1 /\ text[off[k] + 1] = bytes[k]
    <3>1. ~(i > L) /\ i + 1 = 1 + off[k + 1]
      BY <2>1, <2>5
    <3> HIDE DEF i
    <3>2. text[i] = bytes[k] /\ text[i] # Percent
      BY <2>4, <2>5
    <3>3. Round(State(n), text) = Reader(i + 1, Append(Begin(bytes, n), text[i]), FALSE)
      <4>1. \A x, o : ~(x > L) /\ text[x] # Percent =>
              Round(Reader(x, o, FALSE), text) = Reader(x + 1, Append(o, text[x]), FALSE)
        BY RoundCases
      <4>. QED
        BY <2>3, <3>1, <3>2, <4>1, Zenon
    <3>. QED
      BY <2>2, <2>3, <3>1, <3>2, <3>3, Zenon
  <2>6. CASE /\ len[k] = 3 /\ text[off[k] + 1] = Percent
             /\ text[off[k] + 2] \in Digit /\ text[off[k] + 3] \in Digit
             /\ text[off[k] + 2] * Radix + text[off[k] + 3] = bytes[k]
    <3>1. ~(i > L) /\ ~(i + 2 > L) /\ i + 3 = 1 + off[k + 1]
      BY SMTT(30), <2>1, <2>6
    <3> HIDE DEF i
    <3>2. /\ text[i] = Percent /\ text[i + 1] \in Digit /\ text[i + 2] \in Digit
          /\ text[i + 1] * Radix + text[i + 2] = bytes[k]
      BY <2>4, <2>6, Zenon
    <3>3. Round(State(n), text)
            = Reader(i + 3, Append(Begin(bytes, n), text[i + 1] * Radix + text[i + 2]), FALSE)
      <4>1. \A x, o :
              /\ ~(x > L) /\ text[x] = Percent /\ ~(x + 2 > L)
              /\ text[x + 1] \in Digit /\ text[x + 2] \in Digit
              => Round(Reader(x, o, FALSE), text)
                   = Reader(x + 3, Append(o, text[x + 1] * Radix + text[x + 2]), FALSE)
        BY ZenonT(60), RoundCases
      <4>. QED
        BY <2>3, <3>1, <3>2, <4>1, Zenon
    <3>. QED
      BY <2>2, <2>3, <3>1, <3>2, <3>3, Zenon
  <2>. QED
    BY <1>7, <2>5, <2>6
<1>9. Round(State(N), text) = State(N)
  <2>1. 1 + off[N + 1] > L
    BY <1>3
  <2>. QED
    <3>1. \A i, o : i > L => Round(Reader(i, o, FALSE), text) = Reader(i, o, FALSE)
      BY ZenonT(60), RoundCases
    <3>. QED
      BY <2>1, <3>1
<1>10. N <= L /\ L \in Nat
  <2>1. \A k \in 1..N : len[k] >= 1
    BY <1>7
  <2>. QED
    BY <1>3, <2>1, OffsetsAtLeast
<1>11. State(0) = Reader(1, <<>>, FALSE)
  <2>1. Begin(bytes, 0) = <<>>
    BY Beginnings
  <2>2. 1 + off[0 + 1] = 1
    BY <1>3 DEF Offsets
  <2>. QED
    BY <2>1, <2>2, Zenon
<1> HIDE DEF State
<1> DEFINE g == [n \in 0..L |-> IF n <= N THEN State(n) ELSE State(N)]
<1>12. Rounds(g, text)
  <2> DEFINE Body(n) == IF n = 0 THEN Reader(1, <<>>, FALSE) ELSE Round(g[n - 1], text)
  <2>1. ASSUME NEW n \in 0..L
        PROVE  g[n] = Body(n)
    <3>1. CASE n = 0
      BY <1>10, <1>11, <3>1, 0 <= N
    <3>2. CASE n # 0 /\ n <= N
      <4>1. n - 1 \in 0..(N - 1) /\ (n - 1) + 1 = n /\ n - 1 \in 0..L /\ n - 1 <= N
        BY <3>2
      <4>2. g[n] = State(n) /\ g[n - 1] = State(n - 1)
        BY <3>2, <4>1
      <4>. QED
        BY <1>8, <3>2, <4>1, <4>2
    <3>3. CASE n # 0 /\ ~(n <= N)
      <4>1. n - 1 \in 0..L /\ (n - 1 <= N => n - 1 = N)
        BY <3>3
      <4>2. g[n] = State(N) /\ g[n - 1] = State(N)
        BY <3>3, <4>1
      <4>. QED
        BY <1>9, <3>3, <4>2
    <3>. QED
      BY <3>1, <3>2, <3>3
  <2>2. g = [n \in 0..L |-> g[n]]
    OBVIOUS
  <2> HIDE DEF g, Body
  <2>3. g = [n \in 0..L |-> Body(n)]
    BY <2>1, <2>2
  <2>. QED
    BY <2>3, Zenon DEF Rounds, Body
<1>13. g[L] = State(N)
  BY <1>10
<1> HIDE DEF g
<1>14. State(N).error = FALSE /\ State(N).output = Begin(bytes, N)
  BY DEF State, Reader
<1>15. Begin(bytes, N) = bytes
  BY Beginnings
<1>16. DecodeBytes(text) = IF g[L].error THEN {} ELSE {g[L].output}
  BY <1>10, <1>12, DecodeLoop, Zenon
<1>. QED
  BY <1>1, <1>13, <1>14, <1>15, <1>16, Zenon

-----------------------------------------------------------------------------
(* Fields and lines come back *)

\* What Split does with one more byte.
Bit(p, byte, separator) ==
    IF byte = separator THEN Append(p, <<>>) ELSE [p EXCEPT ![Len(p)] = Append(@, byte)]

Cuts(f, text, separator) ==
    f = [n \in 0..Len(text) |->
            IF n = 0 THEN <<<<>>>> ELSE Bit(f[n - 1], text[n], separator)]

\* The loop of Split, and that it returns what the loop ends with.
Splits(f, text, separator) ==
    /\ Split(text, separator) = f[Len(text)]
    /\ f[0] = <<<<>>>>
    /\ \A n \in 1..Len(text) : f[n] = Bit(f[n - 1], text[n], separator)

\* Split goes through the text, byte after byte.
LEMMA SplitSteps ==
    ASSUME NEW A, NEW text \in Seq(A), NEW separator
    PROVE  \E f : Splits(f, text, separator)
<1>. PICK L \in Nat : L = Len(text)
  OBVIOUS
<1> DEFINE T == Seq(A)
           S == Seq(T) \ {<<>>}
           step == [p \in S \X (1..L) |-> Bit(p[1], text[p[2]], separator)]
           Body(f, n) == IF n = 0 THEN <<<<>>>> ELSE Bit(f[n - 1], text[n], separator)
<1>1. ASSUME NEW p \in S, NEW byte \in A
      PROVE  Bit(p, byte, separator) \in S
  <2>1. CASE byte = separator
    <3>0. <<>> \in T
      OBVIOUS
    <3> HIDE DEF T
    <3>1. Bit(p, byte, separator) = Append(p, <<>>)
      BY <2>1, Zenon DEF Bit
    <3>2. Append(p, <<>>) \in Seq(T) /\ Len(Append(p, <<>>)) = Len(p) + 1
      BY <3>0, AppendProperties DEF S
    <3>3. Append(p, <<>>) # <<>>
      BY <3>2
    <3>. QED
      BY <3>1, <3>2, <3>3
  <2>2. CASE byte # separator
    <3>. PICK m \in Nat : m = Len(p)
      OBVIOUS
    <3>1. Bit(p, byte, separator) = [p EXCEPT ![m] = Append(p[m], byte)]
      BY <2>2, Zenon DEF Bit
    <3>2. m # 0 /\ m \in 1..m /\ p[m] \in T
      OBVIOUS
    <3>3. Append(p[m], byte) \in T
      BY <3>2, AppendProperties
    <3> HIDE DEF T
    <3>4. [p EXCEPT ![m] = Append(p[m], byte)] \in Seq(T)
      BY <3>2, <3>3, ExceptSeq
    <3>5. [p EXCEPT ![m] = Append(p[m], byte)] # <<>>
      BY <3>2, <3>3, ExceptSeq
    <3>. QED
      BY <3>1, <3>4, <3>5
  <2>. QED
    BY <2>1, <2>2
<1>2. \A i \in 1..L : text[i] \in A
  OBVIOUS
<1>3. <<<<>>>> \in S
  OBVIOUS
<1> HIDE DEF S
<1>4. step \in [S \X (1..L) -> S]
  BY <1>1, <1>2
<1>5. \A p \in S : \A n \in 1..L : step[<<p, n>>] = Bit(p, text[n], separator)
  OBVIOUS
<1> HIDE DEF step
<1>6. PICK g : Recurses(g, S, L, <<<<>>>>, step)
  BY <1>3, <1>4, Recursion
<1>7. \A n \in 0..L : g[n] = Body(g, n)
  <2>1. \A n \in 0..L : g[n] \in S
    BY <1>6 DEF Recurses
  <2>2. \A n \in 0..L : n = 0 \/ (n \in 1..L /\ n - 1 \in 0..L)
    OBVIOUS
  <2>3. g[0] = <<<<>>>> /\ \A n \in 1..L : g[n] = step[<<g[n - 1], n>>]
    BY <1>6, Zenon DEF Recurses
  <2>4. \A n \in 1..L : g[n] = Bit(g[n - 1], text[n], separator)
    <3> TAKE n \in 1..L
    <3>1. n - 1 \in 0..L
      OBVIOUS
    <3>2. g[n - 1] \in S
      BY <2>1, <3>1, Zenon
    <3>. QED
      BY <1>5, <2>3, <3>2, Zenon
  <2>5. \A n \in 1..L : n # 0
    OBVIOUS
  <2>. QED
    BY <2>2, <2>3, <2>4, <2>5, Zenon
<1>8. Cuts(g, text, separator)
  <2>1. g = [n \in 0..L |-> g[n]]
    BY <1>6 DEF Recurses
  <2> HIDE DEF Body
  <2>2. g = [n \in 0..L |-> Body(g, n)]
    BY <1>7, <2>1
  <2>. QED
    BY <2>2, Zenon DEF Body, Cuts
<1> DEFINE f == CHOOSE r : Cuts(r, text, separator)
<1>9. Split(text, separator) = f[L]
  BY Zenon DEF Split, Cuts, Bit
<1>10. Cuts(f, text, separator)
  BY <1>8, Zenon
<1> HIDE DEF f
<1>11. \A n \in 0..L : f[n] = Body(f, n)
  <2> DEFINE F == [n \in 0..L |-> Body(f, n)]
  <2>1. f = F
    BY <1>10, Zenon DEF Cuts
  <2>2. \A n \in 0..L : F[n] = Body(f, n)
    <3> HIDE DEF Body
    <3>. QED
      OBVIOUS
  <2> HIDE DEF F, Body
  <2>. QED
    BY <2>1, <2>2
<1>12. f[0] = <<<<>>>> /\ \A n \in 1..L : f[n] = Bit(f[n - 1], text[n], separator)
  <2>1. 0 \in 0..L /\ \A n \in 1..L : n \in 0..L /\ n # 0
    OBVIOUS
  <2>. QED
    BY <1>11, <2>1, Zenon
<1>. QED
  BY <1>9, <1>12, Zenon DEF Splits

\* The text is made of the pieces w, none of which holds the separator, with one
\* separator between each and the next; begin[k] bytes are before the k-th.
Delimits(text, w, M, begin, separator) ==
    /\ Offsets(begin, [k \in 1..M |-> Len(w[k]) + 1], M)
    /\ Len(text) + 1 = begin[M + 1]
    /\ \A k \in 1..M : \A j \in 1..Len(w[k]) :
          text[begin[k] + j] = w[k][j] /\ w[k][j] # separator
    /\ \A k \in 2..M : text[begin[k]] = separator

\* What is cut off before the j-th byte of the k-th piece is passed.
Cut(w, k, j) == [i \in 1..k |-> IF i < k THEN w[i] ELSE Begin(w[k], j)]

\* M texts.
Pieces(M, A) == [1..M -> Seq(A)]

\* A byte of a piece goes to the last of what is cut off, and a separator begins the
\* next.
CutMoves(w, M, separator) ==
    /\ Cut(w, 1, 0) = <<<<>>>>
    /\ Cut(w, M, Len(w[M])) = w
    /\ \A k \in 1..M :
          /\ k < M => Bit(Cut(w, k, Len(w[k])), separator, separator) = Cut(w, k + 1, 0)
          /\ \A j \in 0..(Len(w[k]) - 1) :
                w[k][j + 1] # separator =>
                    Bit(Cut(w, k, j), w[k][j + 1], separator) = Cut(w, k, j + 1)

\* It does so in every piece.
LEMMA CutSteps ==
    ASSUME NEW A, NEW M \in Nat \ {0}, NEW w \in Pieces(M, A),
           NEW separator
    PROVE  CutMoves(w, M, separator)
<1> USE DEF Pieces
<1> DEFINE T == Seq(A)
<1>1. \A i \in 1..M : /\ w[i] \in T /\ Len(w[i]) \in Nat
                      /\ Begin(w[i], 0) = <<>>
                      /\ Begin(w[i], Len(w[i])) = w[i]
                      /\ \A n \in 0..Len(w[i]) : Begin(w[i], n) \in T
                      /\ \A n \in 0..(Len(w[i]) - 1) :
                            Append(Begin(w[i], n), w[i][n + 1]) = Begin(w[i], n + 1)
  <2> TAKE i \in 1..M
  <2>1. w[i] \in Seq(A)
    OBVIOUS
  <2>2. w[i] \in T /\ Len(w[i]) \in Nat
    BY <2>1
  <2>3. Begin(w[i], 0) = <<>> /\ Begin(w[i], Len(w[i])) = w[i]
    BY <2>1, Beginnings
  <2>4. \A n \in 0..Len(w[i]) : Begin(w[i], n) \in T
    BY <2>1, Beginnings
  <2>5. \A n \in 0..(Len(w[i]) - 1) : Append(Begin(w[i], n), w[i][n + 1]) = Begin(w[i], n + 1)
    BY <2>1, Beginnings
  <2>. QED
    BY <2>2, <2>3, <2>4, <2>5, Zenon
<1>0. <<>> \in T
  OBVIOUS
<1> HIDE DEF T
<1>2. ASSUME NEW i \in 1..M, NEW j \in 0..Len(w[i])
      PROVE  /\ Cut(w, i, j) \in Seq(T)
             /\ Len(Cut(w, i, j)) = i
             /\ \A x \in 1..i : Cut(w, i, j)[x] = IF x < i THEN w[x] ELSE Begin(w[i], j)
  <2> DEFINE Value1(x) == IF x < i THEN w[x] ELSE Begin(w[i], j)
  <2>1. \A x \in 1..i : Value1(x) \in T
    BY <1>1
  <2>2. Cut(w, i, j) = [x \in 1..i |-> Value1(x)]
    BY Zenon DEF Cut
  <2>4. \A x \in 1..i : Value1(x) = IF x < i THEN w[x] ELSE Begin(w[i], j)
    OBVIOUS
  <2> HIDE DEF Value1
  <2>3. Cut(w, i, j) \in Seq(T) /\ Len(Cut(w, i, j)) = i
        /\ \A x \in 1..i : Cut(w, i, j)[x] = Value1(x)
    BY <2>1, <2>2
  <2>. QED
    BY <2>3, <2>4, Zenon
<1>3. Cut(w, 1, 0) = <<<<>>>>
  <2>1. 1 \in 1..M
    OBVIOUS
  <2>2. Cut(w, 1, 0) = [x \in 1..1 |-> IF x < 1 THEN w[x] ELSE Begin(w[1], 0)]
    BY Zenon DEF Cut
  <2>3. Begin(w[1], 0) = <<>>
    BY <1>1, <2>1
  <2>. QED
    BY <2>2, <2>3
<1>4. Cut(w, M, Len(w[M])) = w
  <2>1. M \in 1..M /\ Len(w[M]) \in 0..Len(w[M]) /\ Begin(w[M], Len(w[M])) = w[M]
    BY <1>1
  <2>2. w \in Seq(T) /\ Len(w) = M
    BY <1>1
  <2>3. /\ Cut(w, M, Len(w[M])) \in Seq(T)
        /\ Len(Cut(w, M, Len(w[M]))) = M
        /\ \A x \in 1..M :
              Cut(w, M, Len(w[M]))[x] = IF x < M THEN w[x] ELSE Begin(w[M], Len(w[M]))
    BY <1>2, <2>1
  <2>4. \A x \in 1..M : Cut(w, M, Len(w[M]))[x] = w[x]
    BY <2>1, <2>3
  <2>. QED
    BY <2>2, <2>3, <2>4, SeqEqual
<1>5. ASSUME NEW k \in 1..M, k < M
      PROVE  Bit(Cut(w, k, Len(w[k])), separator, separator) = Cut(w, k + 1, 0)
  <2>. PICK m \in 1..M : m = k + 1
    BY <1>5
  <2>1. Len(w[k]) \in 0..Len(w[k]) /\ 0 \in 0..Len(w[m])
    BY <1>1
  <2>. PICK s \in Seq(T) : s = Cut(w, k, Len(w[k]))
    BY <1>2, <2>1
  <2>2. Len(s) = k /\ \A x \in 1..k : s[x] = w[x]
    BY <1>1, <1>2, <2>1
  <2>. PICK u \in Seq(T) : u = Cut(w, m, 0)
    BY <1>2, <2>1
  <2>3. Len(u) = m /\ \A x \in 1..m : u[x] = IF x < m THEN w[x] ELSE <<>>
    BY <1>1, <1>2, <2>1
  <2> DEFINE t == Append(s, <<>>)
  <2>4. /\ t \in Seq(T) /\ Len(t) = m
        /\ \A x \in 1..k : t[x] = s[x]
        /\ t[m] = <<>>
    BY <1>0, <2>2, AppendProperties
  <2>5. t = Bit(s, separator, separator)
    BY Zenon DEF Bit
  <2> HIDE DEF t
  <2>6. \A x \in 1..m : t[x] = u[x]
    <3> TAKE x \in 1..m
    <3>1. CASE x = m
      BY <2>3, <2>4, <3>1
    <3>2. CASE x # m
      <4>1. x \in 1..k /\ x < m
        BY <3>2
      <4>. QED
        BY <2>2, <2>3, <2>4, <4>1
    <3>. QED
      BY <3>1, <3>2
  <2>7. t = u
    BY <2>3, <2>4, <2>6, SeqEqual
  <2>. QED
    BY <2>5, <2>7
<1>6. ASSUME NEW k \in 1..M, NEW j \in 0..(Len(w[k]) - 1), w[k][j + 1] # separator
      PROVE  Bit(Cut(w, k, j), w[k][j + 1], separator) = Cut(w, k, j + 1)
  <2>1. j \in 0..Len(w[k]) /\ j + 1 \in 0..Len(w[k])
    BY <1>1
  <2>. PICK s \in Seq(T) : s = Cut(w, k, j)
    BY <1>2, <2>1
  <2>2. Len(s) = k /\ \A x \in 1..k : s[x] = IF x < k THEN w[x] ELSE Begin(w[k], j)
    BY <1>2, <2>1
  <2>. PICK u \in Seq(T) : u = Cut(w, k, j + 1)
    BY <1>2, <2>1
  <2>3. Len(u) = k /\ \A x \in 1..k : u[x] = IF x < k THEN w[x] ELSE Begin(w[k], j + 1)
    BY <1>2, <2>1
  <2>. PICK e \in T : e = Begin(w[k], j + 1)
    BY <1>1, <2>1
  <2>4. Append(Begin(w[k], j), w[k][j + 1]) = e
    BY <1>1
  <2> DEFINE t == [s EXCEPT ![k] = e]
  <2>5. /\ t \in Seq(T) /\ Len(t) = k
        /\ \A x \in 1..k : t[x] = IF x = k THEN e ELSE s[x]
    BY <2>2, ExceptSeq
  <2>6. Bit(s, w[k][j + 1], separator) = t
    <3>1. s[k] = Begin(w[k], j)
      BY <2>2
    <3>2. Bit(s, w[k][j + 1], separator) = [s EXCEPT ![Len(s)] = Append(s[Len(s)], w[k][j + 1])]
      BY <1>6, Zenon DEF Bit
    <3>. QED
      BY <2>2, <2>4, <3>1, <3>2, Zenon
  <2> HIDE DEF t
  <2>7. \A x \in 1..k : t[x] = u[x]
    BY <2>2, <2>3, <2>5
  <2>8. t = u
    BY <2>3, <2>5, <2>7, SeqEqual
  <2>. QED
    BY <2>6, <2>8
<1>. QED
  BY <1>3, <1>4, <1>5, <1>6, Zenon DEF CutMoves

\* f goes through the states of each piece and on to those of the next: with len[k] - 1
\* bytes it has as many states as len[k].
Walks(f, states, begin, len, M, L) ==
    /\ Offsets(begin, len, M) /\ L + 1 = begin[M + 1]
    /\ \A k \in 1..M : len[k] >= 1
    /\ f[0] = states[<<1, 0>>]
    /\ \A k \in 1..M : \A j \in 0..(len[k] - 2) :
          f[begin[k] + j] = states[<<k, j>>] => f[begin[k] + j + 1] = states[<<k, j + 1>>]
    /\ \A k \in 1..(M - 1) :
          f[begin[k + 1] - 1] = states[<<k, len[k] - 1>>] => f[begin[k + 1]] = states[<<k + 1, 0>>]

\* It ends in the last state of the last piece.
Ends(f, states, len, M, L) == f[L] = states[<<M, len[M] - 1>>]

\* Whoever walks so, ends so.
LEMMA WalkEnds ==
    ASSUME NEW M \in Nat \ {0}, NEW L \in Nat, NEW f, NEW states, NEW begin, NEW len,
           Walks(f, states, begin, len, M, L)
    PROVE  Ends(f, states, len, M, L)
<1> DEFINE At(n, k) == begin[k] <= n /\ n < begin[k] + len[k] /\ f[n] = states[<<k, n - begin[k]>>]
           K == {n \in 0..L : \E k \in 1..M : At(n, k)}
<1>1. /\ Offsets(begin, len, M) /\ L + 1 = begin[M + 1]
      /\ f[0] = states[<<1, 0>>]
      /\ \A k \in 1..M : \A j \in 0..(len[k] - 2) :
            f[begin[k] + j] = states[<<k, j>>] => f[begin[k] + j + 1] = states[<<k, j + 1>>]
      /\ \A k \in 1..(M - 1) :
            f[begin[k + 1] - 1] = states[<<k, len[k] - 1>>]
              => f[begin[k + 1]] = states[<<k + 1, 0>>]
  BY DEF Walks
<1>9. begin[1] = 0
  BY DEF Walks, Offsets
<1>2. \A k \in 1..M : /\ begin[k] \in Nat /\ len[k] \in Nat /\ len[k] >= 1
                      /\ begin[k + 1] = begin[k] + len[k]
  <2>1. begin[1] = 0 /\ begin \in [1..(M + 1) -> Nat] /\ len \in [1..M -> Nat]
    BY DEF Walks, Offsets
  <2> TAKE k \in 1..M
  <2>2. begin[k] \in Nat /\ len[k] \in Nat
    BY <2>1
  <2>3. len[k] >= 1 /\ begin[k + 1] = begin[k] + len[k]
    BY DEF Walks, Offsets
  <2>. QED
    BY <2>2, <2>3
<1>3. 0 \in K
  <2>1. At(0, 1) /\ 1 \in 1..M
    BY <1>1, <1>2, <1>9
  <2>. QED
    BY <2>1
<1>4. ASSUME NEW n \in 0..(L - 1), n \in K
      PROVE  n + 1 \in K
  <2>1. PICK k \in 1..M : At(n, k)
    BY <1>4
  <2>2. begin[k] <= n /\ n < begin[k] + len[k] /\ f[n] = states[<<k, n - begin[k]>>]
    BY <2>1
  <2> HIDE DEF At, K
  <2>. PICK b \in Nat : b = begin[k]
    BY <1>2
  <2>. PICK l \in Nat : l = len[k]
    BY <1>2
  <2>. PICK m \in 1..L : m = n + 1
    OBVIOUS
  <2>3. begin[k + 1] = b + l /\ l >= 1
    BY <1>2
  <2>4. CASE n + 1 < b + l
    <3>. PICK j \in Nat : j = n - b
      BY <2>2
    <3>1. j \in 0..(l - 2) /\ b + j = n /\ b + j + 1 = m /\ m - b = j + 1
      BY <2>2, <2>4
    <3>2. f[b + j] = states[<<k, j>>]
      BY <2>2, <3>1
    <3>3. f[b + j + 1] = states[<<k, j + 1>>]
      BY <1>1, <3>1, <3>2
    <3>4. f[m] = states[<<k, m - b>>]
      BY <3>1, <3>3
    <3>5. At(m, k)
      BY <2>2, <2>4, <3>4 DEF At
    <3>. QED
      BY <3>5 DEF K
  <2>5. CASE n + 1 = b + l
    <3>1. m = begin[k + 1] /\ begin[k + 1] - 1 = n /\ n - b = l - 1
      BY <2>3, <2>5
    <3>2. k < M
      BY <1>1, <3>1
    <3>. PICK q \in 2..M : q = k + 1
      BY <3>2
    <3>3. k \in 1..(M - 1) /\ f[n] = states[<<k, l - 1>>]
      BY <2>2, <3>1, <3>2
    <3>4. f[m] = states[<<q, 0>>]
      BY <1>1, <3>1, <3>3
    <3>5. q \in 1..M /\ m = begin[q] /\ m - begin[q] = 0 /\ len[q] \in Nat /\ len[q] >= 1
      BY <1>2, <3>1
    <3>6. At(m, q)
      BY <3>4, <3>5 DEF At
    <3>. QED
      BY <3>5, <3>6 DEF K
  <2>. QED
    BY <2>2, <2>4, <2>5
<1>5. L \in K
  <2> HIDE DEF K
  <2>. QED
    BY <1>3, <1>4, UpTo
<1>6. PICK k \in 1..M : At(L, k)
  BY <1>5
<1>7. k = M
  <2>1. SUFFICES ASSUME k # M PROVE FALSE
    OBVIOUS
  <2>. PICK q \in 1..M : q = k + 1
    BY <2>1
  <2>2. q \in 1..((M + 1) - 1) /\ M + 1 \in 1..(M + 1)
    OBVIOUS
  <2>3. begin[q] + len[q] <= begin[M + 1]
    BY <1>1, <2>2, OffsetsGrow
  <2>4. /\ begin[q] = begin[k] + len[k] /\ len[q] >= 1
        /\ {len[q], begin[k], len[k]} \subseteq Nat
    BY <1>2
  <2>5. L < begin[k] + len[k]
    BY <1>6
  <2>. QED
    BY <1>1, <2>3, <2>4, <2>5
<1>8. L - begin[M] = len[M] - 1
  BY <1>1, <1>2
<1>. QED
  BY <1>6, <1>7, <1>8 DEF Ends

\* A byte of a piece that is not its last.
Inside(b, j, L) ==
    b + j + 1 \in 1..L /\ b + j + 1 = b + (j + 1) /\ (b + j + 1) - 1 = b + j

\* The byte is in the text.
LEMMA InsidePiece ==
    ASSUME NEW b \in Nat, NEW l \in Nat, NEW j \in 0..(l - 2), NEW L \in Nat, b + l <= L + 1
    PROVE  Inside(b, j, L)
BY DEF Inside

\* Split finds the pieces of a text again.
LEMMA SplitPieces ==
    ASSUME NEW A, NEW M \in Nat \ {0}, NEW w \in Pieces(M, A), NEW text \in Seq(A),
           NEW begin, NEW separator, Delimits(text, w, M, begin, separator)
    PROVE  Split(text, separator) = w
<1> DEFINE L == Len(text)
<1>0. PICK f : Splits(f, text, separator)
  BY SplitSteps
<1>1. /\ Split(text, separator) = f[L]
      /\ f[0] = <<<<>>>>
      /\ \A n \in 1..L : f[n] = Bit(f[n - 1], text[n], separator)
  BY <1>0 DEF Splits
<1> DEFINE len == [k \in 1..M |-> Len(w[k]) + 1]
           wide == UNION {0..Len(w[k]) : k \in 1..M}
           states == [p \in (1..M) \X wide |-> Cut(w, p[1], p[2])]
<1>2. \A k \in 1..M : Len(w[k]) \in Nat /\ len[k] = Len(w[k]) + 1
  BY DEF Pieces
<1>3. /\ Offsets(begin, len, M) /\ L + 1 = begin[M + 1]
      /\ \A k \in 1..M : \A j \in 1..Len(w[k]) :
            text[begin[k] + j] = w[k][j] /\ w[k][j] # separator
      /\ \A k \in 2..M : text[begin[k]] = separator
  BY Zenon DEF Delimits
<1>15. CutMoves(w, M, separator)
  BY CutSteps, Zenon
<1>4. L \in Nat
  OBVIOUS
<1>5. \A k \in 1..M : \A j \in 0..Len(w[k]) : states[<<k, j>>] = Cut(w, k, j)
  <2>1. \A k \in 1..M : \A j \in 0..Len(w[k]) : j \in wide
    OBVIOUS
  <2> HIDE DEF wide
  <2>. QED
    BY <2>1
<1>14. \A k \in 1..M : \E v \in Nat : v = Len(w[k]) /\ len[k] = v + 1
  BY <1>2
<1> HIDE DEF len, states, L
<1>6. f[0] = states[<<1, 0>>]
  <2>1. 1 \in 1..M /\ 0 \in 0..Len(w[1])
    BY <1>2
  <2>2. states[<<1, 0>>] = Cut(w, 1, 0)
    BY <1>5, <2>1, Zenon
  <2>. QED
    BY <1>1, <1>15, <2>2, Zenon DEF CutMoves
<1>7. ASSUME NEW k \in 1..M
      PROVE  /\ begin[k] \in Nat /\ len[k] \in Nat /\ len[k] >= 1
             /\ begin[k + 1] = begin[k] + len[k] /\ begin[k] + len[k] <= L + 1
  <2>1. begin[k] \in Nat /\ len[k] \in Nat /\ begin[k + 1] = begin[k] + len[k]
    BY <1>3 DEF Offsets
  <2>2. k \in 1..((M + 1) - 1) /\ M + 1 \in 1..(M + 1)
    OBVIOUS
  <2>3. begin[k] + len[k] <= L + 1
    BY <1>3, <2>2, OffsetsGrow
  <2>. PICK l \in Nat : l = Len(w[k])
    BY <1>2
  <2>4. len[k] >= 1
    BY <1>2
  <2>. QED
    BY <2>1, <2>3, <2>4
<1>8. ASSUME NEW k \in 1..M, NEW j \in 0..(len[k] - 2),
             f[begin[k] + j] = states[<<k, j>>]
      PROVE  f[begin[k] + j + 1] = states[<<k, j + 1>>]
  <2>. PICK b \in Nat : b = begin[k]
    BY <1>7
  <2>. PICK l \in Nat : l = len[k]
    BY <1>7
  <2>1. b + l <= L + 1
    BY <1>7
  <2>. PICK n \in Int : n = b + j + 1
    OBVIOUS
  <2>7. n \in 1..L /\ n = b + (j + 1) /\ n - 1 = b + j
    <3>1. b + l <= L + 1 /\ L \in Nat /\ j \in 0..(l - 2)
      BY <1>4, <2>1
    <3>2. Inside(b, j, L)
      BY <3>1, InsidePiece, Zenon
    <3>. QED
      BY <3>2 DEF Inside
  <2>. PICK v \in Nat : v = Len(w[k]) /\ l = v + 1
    BY <1>14
  <2>2. /\ j \in 0..(Len(w[k]) - 1) /\ j \in 0..Len(w[k]) /\ j + 1 \in 0..Len(w[k])
        /\ j + 1 \in 1..Len(w[k])
    BY SMTT(30)
  <2>3. text[n] = w[k][j + 1] /\ w[k][j + 1] # separator
    BY SMTT(30), <1>3, <2>2, <2>7
  <2>4. f[n] = Bit(states[<<k, j>>], w[k][j + 1], separator)
    BY <1>1, <1>8, <2>3, <2>7
  <2>5. states[<<k, j>>] = Cut(w, k, j) /\ states[<<k, j + 1>>] = Cut(w, k, j + 1)
    BY <1>5, <2>2, Zenon
  <2>6. Bit(Cut(w, k, j), w[k][j + 1], separator) = Cut(w, k, j + 1)
    BY <1>15, <2>2, <2>3, Zenon DEF CutMoves
  <2>. QED
    BY <2>4, <2>5, <2>6, Zenon
<1>9. ASSUME NEW k \in 1..(M - 1), f[begin[k + 1] - 1] = states[<<k, len[k] - 1>>]
      PROVE  f[begin[k + 1]] = states[<<k + 1, 0>>]
  <2>. PICK q \in 2..M : q = k + 1
    OBVIOUS
  <2>0. k \in 1..M /\ q \in 1..M /\ k < M
    OBVIOUS
  <2>1. begin[q] \in Nat /\ begin[q] = begin[k] + len[k] /\ len[k] >= 1 /\ begin[k] \in Nat
        /\ len[k] \in Nat /\ begin[q] + len[q] <= L + 1 /\ len[q] \in Nat /\ len[q] >= 1
    BY <1>7, <2>0
  <2>. PICK n \in 1..L : n = begin[q]
    BY <1>4, <2>1
  <2>2. text[n] = separator
    BY <1>3
  <2>3. f[n] = Bit(states[<<k, len[k] - 1>>], separator, separator)
    BY <1>1, <1>9, <2>2
  <2>. PICK v, u \in Nat : v = Len(w[k]) /\ len[k] = v + 1 /\ u = Len(w[q])
    BY <1>14, <2>0
  <2>4. len[k] - 1 = Len(w[k]) /\ Len(w[k]) \in 0..Len(w[k]) /\ 0 \in 0..Len(w[q])
    OBVIOUS
  <2>5. states[<<k, len[k] - 1>>] = Cut(w, k, Len(w[k])) /\ states[<<q, 0>>] = Cut(w, q, 0)
    BY <1>5, <2>0, <2>4, Zenon
  <2>6. Bit(Cut(w, k, Len(w[k])), separator, separator) = Cut(w, q, 0)
    BY <1>15, <2>0, Zenon DEF CutMoves
  <2>. QED
    BY <2>3, <2>5, <2>6, Zenon
<1>10. Walks(f, states, begin, len, M, L)
  BY <1>3, <1>6, <1>7, <1>8, <1>9 DEF Walks
<1>11. f[L] = states[<<M, len[M] - 1>>]
  <2>1. Ends(f, states, len, M, L)
    BY <1>4, <1>10, WalkEnds, Zenon
  <2>. QED
    BY <2>1 DEF Ends
<1>12. M \in 1..M /\ len[M] - 1 = Len(w[M]) /\ Len(w[M]) \in 0..Len(w[M])
  <2>1. PICK v \in Nat : v = Len(w[M]) /\ len[M] = v + 1
    BY <1>14
  <2>. QED
    BY <2>1
<1>13. states[<<M, len[M] - 1>>] = Cut(w, M, Len(w[M]))
  BY <1>5, <1>12
<1>. QED
  BY <1>1, <1>11, <1>13, <1>15, Zenon DEF CutMoves

\* The line of a hit: its flag, its name and its path, with a separator between them.
Flag(item) == IF item.directory THEN 1 ELSE 0

LineOf(d, name, path) == <<d, Tab>> \o name \o <<Tab>> \o path

LineShape(line, d, name, path) ==
    /\ line \in Seq(Nat) /\ Len(line) = 3 + Len(name) + Len(path)
    /\ line[1] = d /\ line[2] = Tab
    /\ \A j \in 1..Len(name) : line[2 + j] = name[j]
    /\ line[3 + Len(name)] = Tab
    /\ \A j \in 1..Len(path) : line[3 + Len(name) + j] = path[j]

\* What an item of the index is like, as far as the codec sees it.
Listed == [path : Seq(Byte), rank : Nat, name : Seq(Byte), directory : BOOLEAN,
           hidden : BOOLEAN, match : Seq(Match),
           joined : {"none", "subsequence", "contains"}, initials : 0..2]

\* Where the parts of a line are.
LEMMA LinePlaces ==
    ASSUME NEW d \in Nat, NEW name \in Seq(Nat), NEW path \in Seq(Nat)
    PROVE  LineShape(LineOf(d, name, path), d, name, path)
<1>. PICK m \in Nat : m = Len(name)
  OBVIOUS
<1>. PICK n \in Nat : n = Len(path)
  OBVIOUS
<1> DEFINE head == <<d, Tab>>
           stop == <<Tab>>
<1>1. head \in Seq(Nat) /\ Len(head) = 2 /\ head[1] = d /\ head[2] = Tab
      /\ stop \in Seq(Nat) /\ Len(stop) = 1 /\ stop[1] = Tab
  BY DEF Tab
<1> HIDE DEF head, stop
<1>. PICK a : a = head \o name
  OBVIOUS
<1>2. a \in Seq(Nat) /\ Consists(a, head, name)
  BY <1>1, ConcatProperties, ConcatConsists, Zenon
<1>. PICK b : b = a \o stop
  OBVIOUS
<1>3. b \in Seq(Nat) /\ Consists(b, a, stop)
  BY <1>1, <1>2, ConcatProperties, ConcatConsists, Zenon
<1>. PICK line : line = b \o path
  OBVIOUS
<1>4. line \in Seq(Nat) /\ Consists(line, b, path)
  BY <1>3, ConcatProperties, ConcatConsists, Zenon
<1>5. Len(a) = 2 + m /\ a[1] = d /\ a[2] = Tab /\ \A j \in 1..m : a[2 + j] = name[j]
  BY SMTT(30), <1>1, <1>2 DEF Consists
<1>6. /\ Len(b) = 3 + m /\ b[3 + m] = Tab
      /\ \A j \in 1..(2 + m) : b[j] = a[j]
  <2>1. Len(b) = Len(a) + 1 /\ \A j \in 1..1 : b[Len(a) + j] = stop[j]
    BY <1>1, <1>3 DEF Consists
  <2>2. (2 + m) + 1 = 3 + m
    OBVIOUS
  <2>3. \A j \in 1..(2 + m) : b[j] = a[j]
    BY <1>3, <1>5 DEF Consists
  <2>. QED
    BY <1>1, <1>5, <2>1, <2>2, <2>3
<1>7. /\ Len(line) = 3 + m + n
      /\ \A j \in 1..(3 + m) : line[j] = b[j]
      /\ \A j \in 1..n : line[3 + m + j] = path[j]
  BY <1>4, <1>6 DEF Consists
<1>8. line[1] = d /\ line[2] = Tab /\ line[3 + m] = Tab
  <2>1. 1 \in 1..(2 + m) /\ 2 \in 1..(2 + m)
        /\ 1 \in 1..(3 + m) /\ 2 \in 1..(3 + m) /\ 3 + m \in 1..(3 + m)
    OBVIOUS
  <2>. QED
    BY <1>5, <1>6, <1>7, <2>1
<1>9. \A j \in 1..m : line[2 + j] = name[j]
  <2> TAKE j \in 1..m
  <2>1. 2 + j \in 1..(2 + m) /\ 2 + j \in 1..(3 + m)
    OBVIOUS
  <2>. QED
    BY <1>5, <1>6, <1>7, <2>1, Zenon
<1>10. line = LineOf(d, name, path)
  BY Zenon DEF LineOf, head, stop
<1>11. LineShape(line, d, name, path)
  BY <1>4, <1>7, <1>8, <1>9 DEF LineShape
<1>. QED
  BY <1>10, <1>11, Zenon

\* Encoded bytes separate nothing.
LEMMA EncodedSeparatesNothing ==
    ASSUME NEW bytes \in Seq(Byte)
    PROVE  /\ EncodeBytes(bytes) \in Seq(Nat)
           /\ Len(EncodeBytes(bytes)) <= 3 * Len(bytes)
           /\ \A j \in 1..Len(EncodeBytes(bytes)) :
                 EncodeBytes(bytes)[j] # NewLine /\ EncodeBytes(bytes)[j] # Tab
<1>. PICK enc \in Seq(Encoded) : enc = EncodeBytes(bytes)
  BY EncodedName
<1>1. \A x \in Encoded : x \in Nat /\ x # NewLine /\ x # Tab
  BY DEF Encoded, NewLine, Tab
<1>2. \A j \in 1..Len(enc) : enc[j] \in Encoded
  OBVIOUS
<1>3. enc \in Seq(Nat) /\ \A j \in 1..Len(enc) : enc[j] # NewLine /\ enc[j] # Tab
  BY <1>1, <1>2
<1>. QED
  BY <1>3, EncodedName

\* Larger parts make a larger sum.
LEMMA Sums == \A m, n, u, v \in Nat : m <= u /\ n <= v => 3 + m + n <= 3 + u + v
OBVIOUS

\* No line has a byte that separates lines, and each has a bounded length.
LEMMA HitLine ==
    ASSUME NEW item \in Listed
    PROVE  /\ LineShape(EncodeHit(item), Flag(item), EncodeBytes(item.name),
                        EncodeBytes(item.path))
           /\ EncodeHit(item) \in Seq(Nat)
           /\ Len(EncodeHit(item)) <= 3 + 3 * Len(item.name) + 3 * Len(item.path)
           /\ \A j \in 1..Len(EncodeHit(item)) : EncodeHit(item)[j] # NewLine
<1>. PICK name \in Seq(Byte) : name = item.name
  BY DEF Listed
<1>. PICK path \in Seq(Byte) : path = item.path
  BY DEF Listed
<1>. PICK d \in 0..1 : d = Flag(item)
  BY DEF Flag
<1>. PICK x \in Seq(Nat) : x = EncodeBytes(name)
  BY EncodedSeparatesNothing
<1>. PICK y \in Seq(Nat) : y = EncodeBytes(path)
  BY EncodedSeparatesNothing
<1>. PICK line : line = EncodeHit(item)
  OBVIOUS
<1>1. line = LineOf(d, x, y)
  BY Zenon DEF EncodeHit, LineOf, Flag
<1>2. LineShape(line, d, x, y)
  BY <1>1, LinePlaces
<1>. PICK m \in Nat : m = Len(x)
  OBVIOUS
<1>. PICK n \in Nat : n = Len(y)
  OBVIOUS
<1>3. Len(line) = 3 + m + n /\ m <= 3 * Len(name) /\ n <= 3 * Len(path)
  BY <1>2, EncodedSeparatesNothing DEF LineShape
<1>4. \A j \in 1..Len(line) : line[j] # NewLine
  <2> TAKE j \in 1..Len(line)
  <2>1. \A i \in 1..m : x[i] # NewLine
    BY EncodedSeparatesNothing
  <2>2. \A i \in 1..n : y[i] # NewLine
    BY EncodedSeparatesNothing
  <2>3. CASE j \in {1, 2, 3 + m}
    BY SMTT(30), <1>2, <2>3 DEF LineShape, Tab, NewLine
  <2>4. CASE j > 2 /\ j <= 2 + m
    <3>. PICK i \in 1..m : j = 2 + i
      <4>1. j - 2 \in 1..m /\ j = 2 + (j - 2)
        BY <1>3, <2>4
      <4>. QED
        BY <4>1
    <3>. QED
      BY <1>2, <2>1 DEF LineShape
  <2>5. CASE j > 3 + m
    <3>. PICK i \in 1..n : j = 3 + m + i
      <4>1. j - (3 + m) \in 1..n /\ j = 3 + m + (j - (3 + m))
        BY <1>3, <2>5
      <4>. QED
        BY <4>1
    <3>. QED
      BY <1>2, <2>2, Zenon DEF LineShape
  <2>. QED
    BY <1>3, <2>3, <2>4, <2>5
<1>5. Len(line) <= 3 + 3 * Len(name) + 3 * Len(path)
  <2>. PICK u \in Nat : u = 3 * Len(name)
    OBVIOUS
  <2>. PICK v \in Nat : v = 3 * Len(path)
    OBVIOUS
  <2>1. m <= u /\ n <= v /\ Len(line) = 3 + m + n
    BY <1>3, Zenon
  <2>2. 3 + m + n <= 3 + u + v
    BY <2>1, Sums, Zenon
  <2>. QED
    BY <2>1, <2>2, Zenon
<1>. QED
  BY <1>2, <1>4, <1>5, Zenon DEF LineShape

\* So a hit takes at most so many bytes, with the separator before its line.
LEMMA HitBound ==
    ASSUME NEW item \in Listed, NEW W \in Nat, NEW X \in Nat,
           Len(item.name) <= W, Len(item.path) <= X
    PROVE  Len(EncodeHit(item)) + 1 <= 4 + 3 * W + 3 * X
<1>1. \A l, a, b \in Nat : l <= 3 + 3 * a + 3 * b /\ a <= W /\ b <= X
                          => l + 1 <= 4 + 3 * W + 3 * X
  OBVIOUS
<1>2. Len(item.name) \in Nat /\ Len(item.path) \in Nat
  BY DEF Listed
<1>3. EncodeHit(item) \in Seq(Nat)
      /\ Len(EncodeHit(item)) <= 3 + 3 * Len(item.name) + 3 * Len(item.path)
  BY HitLine, Zenon
<1>4. Len(EncodeHit(item)) \in Nat
  BY <1>3
<1>. QED
  BY <1>1, <1>2, <1>3, <1>4, Zenon

\* decode_hit makes of a line what encode_response put into it.
LEMMA HitComesBack ==
    ASSUME NEW item \in Listed
    PROVE  DecodeHit(EncodeHit(item)) = {Shown(item)}
<1>. PICK name \in Seq(Byte) : name = item.name
  BY DEF Listed
<1>. PICK path \in Seq(Byte) : path = item.path
  BY DEF Listed
<1>. PICK d \in 0..1 : d = Flag(item)
  BY DEF Flag
<1>. PICK x \in Seq(Nat) : x = EncodeBytes(name)
  BY EncodedSeparatesNothing
<1>. PICK y \in Seq(Nat) : y = EncodeBytes(path)
  BY EncodedSeparatesNothing
<1>1. /\ \A j \in 1..Len(x) : x[j] # Tab
      /\ \A j \in 1..Len(y) : y[j] # Tab
  BY EncodedSeparatesNothing
<1>. PICK line \in Seq(Nat) : line = EncodeHit(item)
  BY HitLine
<1>2. LineShape(line, d, x, y)
  BY HitLine
<1>. PICK m \in Nat : m = Len(x)
  OBVIOUS
<1>. PICK l \in Nat : l = Len(y)
  OBVIOUS
<1>5. /\ Len(line) = 3 + m + l
      /\ line[1] = d /\ line[2] = Tab /\ line[3 + m] = Tab
      /\ \A j \in 1..m : line[2 + j] = x[j]
      /\ \A j \in 1..l : line[3 + m + j] = y[j]
  BY <1>2 DEF LineShape
<1>18. \A a : Len(<<a>>) = 1 /\ <<a>>[1] = a
  OBVIOUS
<1> DEFINE w == [k \in 1..3 |-> IF k = 1 THEN <<d>> ELSE IF k = 2 THEN x ELSE y]
           begin == [k \in 1..4 |-> IF k = 1 THEN 0 ELSE IF k = 2 THEN 2
                                    ELSE IF k = 3 THEN 3 + m ELSE 4 + m + l]
           len == [k \in 1..3 |-> Len(w[k]) + 1]
<1>6. w \in Pieces(3, Nat) /\ w[1] = <<d>> /\ w[2] = x /\ w[3] = y
  BY DEF Pieces
<1>7. /\ begin[1] = 0 /\ begin[2] = 2 /\ begin[3] = 3 + m /\ begin[4] = 4 + m + l
      /\ begin \in [1..4 -> Nat]
  OBVIOUS
<1>8. len[1] = 2 /\ len[2] = m + 1 /\ len[3] = l + 1 /\ len \in [1..3 -> Nat]
  <2>1. \A k \in 1..3 : k = 1 \/ k = 2 \/ k = 3
    OBVIOUS
  <2> HIDE DEF w
  <2>2. Len(w[1]) = 1 /\ Len(w[2]) = m /\ Len(w[3]) = l
    BY <1>6, <1>18, Zenon
  <2>3. \A k \in 1..3 : Len(w[k]) + 1 \in Nat
    BY <2>1, <2>2
  <2>4. len[1] = Len(w[1]) + 1 /\ len[2] = Len(w[2]) + 1 /\ len[3] = Len(w[3]) + 1
    OBVIOUS
  <2>5. len \in [1..3 -> Nat]
    BY <2>3
  <2> HIDE DEF len
  <2>. QED
    BY <2>2, <2>4, <2>5
<1> HIDE DEF w, begin, len
<1>9. Offsets(begin, len, 3)
  <2>1. \A k \in 1..3 : k = 1 \/ k = 2 \/ k = 3
    OBVIOUS
  <2>2. begin[2] = begin[1] + len[1] /\ begin[3] = begin[2] + len[2]
        /\ begin[4] = begin[3] + len[3]
    BY <1>7, <1>8
  <2>3. 1 + 1 = 2 /\ 2 + 1 = 3 /\ 3 + 1 = 4
    OBVIOUS
  <2>4. \A k \in 1..3 : begin[k + 1] = begin[k] + len[k]
    BY <2>1, <2>2, <2>3, Zenon
  <2>. QED
    BY <1>7, <1>8, <2>4 DEF Offsets
<1>10. \A k \in 1..3 : \A j \in 1..Len(w[k]) : line[begin[k] + j] = w[k][j] /\ w[k][j] # Tab
  <2> TAKE k \in 1..3
  <2> TAKE j \in 1..Len(w[k])
  <2>1. CASE k = 1
    <3>1. w[k] = <<d>> /\ begin[k] = 0
      BY <1>6, <1>7, <2>1
    <3>2. j \in 1..Len(<<d>>) /\ Len(<<d>>) = 1 /\ <<d>>[1] = d
      BY <1>18, <3>1
    <3>3. j = 1
      BY <3>2
    <3>4. w[k][j] = d
      BY <3>1, <3>2, <3>3, Zenon
    <3>. QED
      BY <1>5, <3>1, <3>3, <3>4 DEF Tab
  <2>2. CASE k = 2
    <3>1. j \in 1..m /\ w[k][j] = x[j] /\ begin[k] = 2
      BY <1>6, <1>7, <2>2
    <3>2. j \in 1..Len(x)
      BY <3>1
    <3>3. x[j] # Tab
      BY <1>1, <3>2, Zenon
    <3>4. line[2 + j] = x[j]
      BY <1>5, <3>1, Zenon
    <3>5. line[begin[k] + j] = line[2 + j]
      BY <3>1, Zenon
    <3>. QED
      BY <3>1, <3>3, <3>4, <3>5, Zenon
  <2>3. CASE k = 3
    <3>1. j \in 1..l /\ w[k][j] = y[j] /\ begin[k] = 3 + m
      BY <1>6, <1>7, <2>3
    <3>2. j \in 1..Len(y)
      BY <3>1
    <3>3. y[j] # Tab
      BY <1>1, <3>2, Zenon
    <3>4. line[3 + m + j] = y[j]
      BY <1>5, <3>1, Zenon
    <3>5. line[begin[k] + j] = line[3 + m + j]
      BY <3>1, Zenon
    <3>. QED
      BY <3>1, <3>3, <3>4, <3>5, Zenon
  <2>. QED
    BY <2>1, <2>2, <2>3
<1>11. Delimits(line, w, 3, begin, Tab)
  <2>1. Len(line) + 1 = begin[3 + 1]
    BY <1>5, <1>7
  <2>2. \A k \in 2..3 : line[begin[k]] = Tab
    BY SMTT(30), <1>5, <1>7
  <2>3. len = [k \in 1..3 |-> Len(w[k]) + 1]
    BY DEF len
  <2>. QED
    BY <1>9, <1>10, <2>1, <2>2, <2>3, Zenon DEF Delimits
<1>12. Split(line, Tab) = w
  <2>1. 3 \in Nat \ {0}
    OBVIOUS
  <2>. QED
    BY <1>6, <1>11, <2>1, SplitPieces
<1>13. Len(w) = 3 /\ w[1] \in {<<0>>, <<1>>}
  BY <1>6 DEF Pieces
<1>14. DecodeBytes(w[2]) = {name} /\ DecodeBytes(w[3]) = {path}
  BY <1>6, BytesComeBack
<1>15. (w[1] = <<1>>) = item.directory
  BY <1>6, <1>13 DEF Flag, Listed
<1> DEFINE Row(n, p) == [path |-> p, directory |-> w[1] = <<1>>, name |-> n]
<1>16. DecodeHit(line) = {Row(n, p) : n \in DecodeBytes(w[2]), p \in DecodeBytes(w[3])}
  BY <1>12, <1>13 DEF DecodeHit
<1>17. Row(name, path) = Shown(item)
  BY <1>15, Zenon DEF Shown
<1> HIDE DEF Row
<1>. QED
  BY <1>14, <1>16, <1>17

\* The frame of an answer: the count of the hits, and behind it their lines, each with
\* a byte before it.  off[k] bytes are between the count and the k-th line's.
Framed(found, off) ==
    /\ Offsets(off, [k \in 1..Len(found) |-> Len(EncodeHit(found[k])) + 1], Len(found))
    /\ Len(EncodeHits(found)) = 1 + off[Len(found) + 1]
    /\ EncodeHits(found) \in Seq(Nat)
    /\ EncodeHits(found)[1] = Symbol(Len(found))
    /\ \A k \in 1..Len(found) :
          /\ EncodeHits(found)[off[k] + 2] = NewLine
          /\ \A j \in 1..Len(EncodeHit(found[k])) :
                EncodeHits(found)[off[k] + 2 + j] = EncodeHit(found[k])[j]

\* encode_response makes such a frame.
LEMMA FrameOfHits ==
    ASSUME NEW found \in Seq(Listed)
    PROVE  \E off : Framed(found, off)
<1>. PICK n \in Nat : n = Len(found)
  OBVIOUS
<1>. PICK s \in Nat : s = Symbol(n)
  BY DEF Symbol, Radix
<1> DEFINE Line(k) == EncodeHit(found[k])
           pieces == [i \in 1..n |-> <<NewLine>> \o Line(i)]
           flat == FlattenSeq(pieces)
           head == <<s>>
           text == head \o flat
<1>1. text = EncodeHits(found)
  <2>1. DOMAIN found = 1..n
    OBVIOUS
  <2>. QED
    BY <2>1, Zenon DEF EncodeHits
<1>2. \A k \in 1..n : Line(k) \in Seq(Nat)
  <2>1. \A k \in 1..n : found[k] \in Listed
    OBVIOUS
  <2>. QED
    BY <2>1, HitLine
<1> DEFINE nl == <<NewLine>>
<1>3. nl \in Seq(Nat) /\ Len(nl) = 1 /\ nl[1] = NewLine /\ head \in Seq(Nat) /\ Len(head) = 1
      /\ head[1] = s
  BY DEF NewLine
<1>14. pieces = [i \in 1..n |-> nl \o Line(i)]
  BY Zenon
<1> HIDE DEF Line, nl, head, pieces
<1>4. ASSUME NEW k \in 1..n
      PROVE  pieces[k] \in Seq(Nat) /\ Consists(pieces[k], nl, Line(k))
  <2>1. Line(k) \in Seq(Nat)
    BY <1>2
  <2>2. nl \o Line(k) \in Seq(Nat)
    BY <1>3, <2>1, ConcatProperties
  <2>3. Consists(nl \o Line(k), nl, Line(k))
    BY <1>3, <2>1, ConcatConsists, Zenon
  <2> DEFINE Piece(i) == nl \o Line(i)
  <2>4. pieces = [i \in 1..n |-> Piece(i)]
    BY <1>14, Zenon
  <2> HIDE DEF Piece
  <2>5. pieces[k] = Piece(k)
    BY <2>4
  <2>. QED
    BY <2>2, <2>3, <2>5, Zenon DEF Piece
<1>5. pieces \in [1..n -> Seq(Nat)]
  <2>1. pieces = [i \in 1..n |-> pieces[i]]
    <3> DEFINE Piece(i) == nl \o Line(i)
    <3>1. pieces = [i \in 1..n |-> Piece(i)]
      BY <1>14, Zenon
    <3> HIDE DEF Piece
    <3>. QED
      BY <3>1
  <2>. QED
    BY <1>4, <2>1
<1>6. flat \in Seq(Nat) /\ \E off : Places(off, flat, pieces, n)
  BY <1>5, FlattenPlaces
<1>7. PICK off : Places(off, flat, pieces, n)
  BY <1>6
<1> HIDE DEF flat
<1>8. text \in Seq(Nat) /\ Consists(text, head, flat)
  <2>1. Consists(text, head, flat)
    BY <1>3, <1>6, ConcatConsists, Zenon
  <2>2. text \in Seq(Nat)
    BY <1>3, <1>6, ConcatProperties
  <2>. QED
    BY <2>1, <2>2
<1> HIDE DEF text
<1> DEFINE plen == [k \in 1..n |-> Len(pieces[k])]
           len == [k \in 1..n |-> Len(Line(k)) + 1]
<1>9. /\ Offsets(off, plen, n) /\ Len(flat) = off[n + 1]
      /\ \A k \in 1..n : \A j \in 1..Len(pieces[k]) : flat[off[k] + j] = pieces[k][j]
  BY <1>7, Zenon DEF Places
<1>10. \A k \in 1..n : Len(Line(k)) \in Nat /\ Len(pieces[k]) = Len(Line(k)) + 1
  <2> TAKE k \in 1..n
  <2>1. Len(pieces[k]) = 1 + Len(Line(k))
    BY <1>3, <1>4, Zenon DEF Consists
  <2>2. Len(Line(k)) \in Nat
    BY <1>2
  <2>. QED
    BY <2>1, <2>2
<1>11. plen = len
  BY <1>10
<1>16. \A b, l \in Nat : \A j \in 1..l :
         1 + j \in 1..(l + 1) /\ b + (1 + j) + 1 = b + 2 + j
  OBVIOUS
<1>12. ASSUME NEW k \in 1..n
       PROVE  /\ text[off[k] + 2] = NewLine
              /\ \A j \in 1..Len(Line(k)) : text[off[k] + 2 + j] = Line(k)[j]
  <2>. PICK b \in Nat : b = off[k]
    BY SMTT(30), <1>9 DEF Offsets
  <2>. PICK l \in Nat : l = Len(Line(k)) /\ Len(pieces[k]) = l + 1
    BY <1>10
  <2>1. \A j \in 1..(l + 1) : flat[b + j] = pieces[k][j]
    BY <1>9
  <2>2. b + l + 1 <= Len(flat)
    <3>1. plen[k] = l + 1
      OBVIOUS
    <3>2. k \in 1..((n + 1) - 1) /\ n + 1 \in 1..(n + 1)
      OBVIOUS
    <3> HIDE DEF plen
    <3>3. off[k] + plen[k] <= off[n + 1]
      BY <1>9, <3>2, OffsetsGrow
    <3>. QED
      BY SMTT(30), <1>9, <3>1, <3>3
  <2>3. \A j \in 1..(l + 1) : text[b + j + 1] = pieces[k][j]
    <3> TAKE j \in 1..(l + 1)
    <3>1. b + j \in 1..Len(flat)
      <4>. PICK e \in Nat : e = Len(flat)
        BY <1>6
      <4>1. b + l + 1 <= e
        BY <2>2
      <4>. QED
        BY SMTT(30), <4>1
    <3>2. text[1 + (b + j)] = flat[b + j]
      BY <1>3, <1>8, <3>1, Zenon DEF Consists
    <3>3. 1 + (b + j) = b + j + 1
      OBVIOUS
    <3>. QED
      BY <2>1, <3>2, <3>3
  <2>4. pieces[k][1] = NewLine
    <3>1. 1 \in 1..1
      OBVIOUS
    <3>. QED
      BY <1>3, <1>4, <3>1, Zenon DEF Consists
  <2>5. \A j \in 1..l : pieces[k][1 + j] = Line(k)[j]
    BY <1>3, <1>4, ZenonT(40) DEF Consists
  <2>6. text[b + 2] = NewLine
    <3>1. 1 \in 1..(l + 1) /\ b + 1 + 1 = b + 2
      OBVIOUS
    <3>2. text[b + 1 + 1] = pieces[k][1]
      BY <2>3, <3>1, Zenon
    <3>. QED
      BY <2>4, <3>1, <3>2
  <2>7. \A j \in 1..l : text[b + 2 + j] = Line(k)[j]
    <3> TAKE j \in 1..l
    <3>1. 1 + j \in 1..(l + 1) /\ b + (1 + j) + 1 = b + 2 + j
      BY <1>16, Zenon
    <3>2. text[b + (1 + j) + 1] = pieces[k][1 + j]
      BY <2>3, <3>1, Zenon
    <3>. QED
      BY <2>5, <3>1, <3>2
  <2>. QED
    BY <2>6, <2>7
<1>13. Len(text) = 1 + off[n + 1] /\ text[1] = s
  <2>1. 1 \in 1..1
    OBVIOUS
  <2>. QED
    BY <1>3, <1>8, <1>9, <2>1, Zenon DEF Consists
<1>15. Offsets(off, len, n)
  BY <1>9, <1>11, Zenon
<1>. QED
  <2>. PICK t : t = text
    OBVIOUS
  <2>1. t = EncodeHits(found)
    BY <1>1, Zenon DEF text
  <2>2. Offsets(off, [k \in 1..n |-> Len(EncodeHit(found[k])) + 1], n)
    BY <1>15, Zenon DEF Line
  <2>3. /\ Len(t) = 1 + off[n + 1] /\ t \in Seq(Nat) /\ t[1] = Symbol(n)
        /\ \A k \in 1..n : /\ t[off[k] + 2] = NewLine
                           /\ \A j \in 1..Len(EncodeHit(found[k])) :
                                 t[off[k] + 2 + j] = EncodeHit(found[k])[j]
    BY <1>8, <1>12, <1>13, Zenon DEF Line
  <2>. QED
    <3>1. Len(found) = n
      OBVIOUS
    <3>2. Offsets(off, [k \in 1..Len(found) |-> Len(EncodeHit(found[k])) + 1], Len(found))
      BY <2>2, <3>1, Zenon
    <3>3. /\ Len(t) = 1 + off[Len(found) + 1] /\ t \in Seq(Nat) /\ t[1] = Symbol(Len(found))
          /\ \A k \in 1..Len(found) : /\ t[off[k] + 2] = NewLine
                                      /\ \A j \in 1..Len(EncodeHit(found[k])) :
                                            t[off[k] + 2 + j] = EncodeHit(found[k])[j]
      BY <2>3, <3>1, Zenon
    <3>4. Framed(found, off)
      BY <2>1, <3>2, <3>3, Zenon DEF Framed
    <3>. QED
      BY <3>4

\* So many hits with such names and paths never make a longer frame.
LEMMA FrameLength ==
    ASSUME NEW found \in Seq(Listed), NEW W \in Nat, NEW X \in Nat,
           \A k \in 1..Len(found) : Len(found[k].name) <= W /\ Len(found[k].path) <= X
    PROVE  Len(EncodeHits(found)) \in Nat
           /\ Len(EncodeHits(found)) <= 1 + Len(found) * (4 + 3 * W + 3 * X)
<1>. PICK n \in Nat : n = Len(found)
  OBVIOUS
<1>1. PICK off : Framed(found, off)
  BY FrameOfHits
<1> DEFINE len == [k \in 1..n |-> Len(EncodeHit(found[k])) + 1]
<1>2. Offsets(off, len, n) /\ Len(EncodeHits(found)) = 1 + off[n + 1]
  BY <1>1, Zenon DEF Framed
<1>. PICK U \in Nat : U = 4 + 3 * W + 3 * X
  OBVIOUS
<1>3. \A k \in 1..n : len[k] <= U
  <2> TAKE k \in 1..n
  <2>1. found[k] \in Listed /\ Len(found[k].name) <= W /\ Len(found[k].path) <= X
    OBVIOUS
  <2>2. Len(EncodeHit(found[k])) + 1 <= 4 + 3 * W + 3 * X
    BY <2>1, HitBound
  <2>3. len[k] = Len(EncodeHit(found[k])) + 1
    OBVIOUS
  <2> HIDE DEF len
  <2>. QED
    BY <2>2, <2>3, Zenon
<1> HIDE DEF len
<1>4. off[n + 1] <= n * U
  BY <1>2, <1>3, OffsetsBound
<1>5. off[n + 1] \in Nat
  BY <1>2 DEF Offsets
<1>. PICK e \in Nat : e = off[n + 1]
  BY <1>5
<1>6. Len(EncodeHits(found)) = 1 + e /\ e <= n * U
  BY <1>2, <1>4
<1>. QED
  BY <1>6

\* The pieces of a frame: the count, and the lines behind it.
Parts(found) ==
    [k \in 1..(Len(found) + 1) |->
        IF k = 1 THEN <<Symbol(Len(found))>> ELSE EncodeHit(found[k - 1])]

\* Split finds the count and the lines of a frame again.
LEMMA PartsComeBack ==
    ASSUME NEW found \in Seq(Listed)
    PROVE  /\ Split(EncodeHits(found), NewLine) = Parts(found)
           /\ Parts(found) \in Pieces(Len(found) + 1, Nat)
<1>. PICK n \in Nat : n = Len(found)
  OBVIOUS
<1>. PICK M \in Nat \ {0} : M = n + 1
  OBVIOUS
<1>. PICK s \in Nat : s = Symbol(n) /\ s # NewLine
  BY DEF Symbol, Radix, NewLine
<1>1. PICK off : Framed(found, off)
  BY FrameOfHits
<1>. PICK text : text = EncodeHits(found)
  OBVIOUS
<1> DEFINE Line(k) == EncodeHit(found[k])
           llen == [k \in 1..n |-> Len(Line(k)) + 1]
           w == [k \in 1..M |-> IF k = 1 THEN <<s>> ELSE Line(k - 1)]
           begin == [k \in 1..(M + 1) |-> IF k = 1 THEN 0 ELSE off[k - 1] + 2]
           len == [k \in 1..M |-> Len(w[k]) + 1]
<1>2. /\ Offsets(off, llen, n)
      /\ Len(text) = 1 + off[n + 1] /\ text \in Seq(Nat) /\ text[1] = s
      /\ \A k \in 1..n : /\ text[off[k] + 2] = NewLine
                         /\ \A j \in 1..Len(Line(k)) : text[off[k] + 2 + j] = Line(k)[j]
  <2>1. /\ Offsets(off, [k \in 1..Len(found) |-> Len(EncodeHit(found[k])) + 1], Len(found))
        /\ Len(EncodeHits(found)) = 1 + off[Len(found) + 1]
        /\ EncodeHits(found) \in Seq(Nat)
        /\ EncodeHits(found)[1] = Symbol(Len(found))
        /\ \A k \in 1..Len(found) :
              /\ EncodeHits(found)[off[k] + 2] = NewLine
              /\ \A j \in 1..Len(EncodeHit(found[k])) :
                    EncodeHits(found)[off[k] + 2 + j] = EncodeHit(found[k])[j]
    BY <1>1, Zenon DEF Framed
  <2>2. Len(found) = n
    OBVIOUS
  <2>3. EncodeHits(found) = text /\ Symbol(n) = s
    OBVIOUS
  <2>4. /\ Offsets(off, llen, n)
        /\ Len(text) = 1 + off[n + 1] /\ text \in Seq(Nat) /\ text[1] = s
    BY <2>1, <2>2, <2>3, Zenon
  <2>5. \A k \in 1..n : /\ text[off[k] + 2] = NewLine
                        /\ \A j \in 1..Len(Line(k)) : text[off[k] + 2 + j] = Line(k)[j]
    BY <2>1, <2>2, <2>3, Zenon
  <2>. QED
    BY <2>4, <2>5
<1>3. \A k \in 1..n : /\ Line(k) \in Seq(Nat) /\ Len(Line(k)) \in Nat
                      /\ \A j \in 1..Len(Line(k)) : Line(k)[j] # NewLine
  <2> TAKE k \in 1..n
  <2>. PICK item \in Listed : item = found[k]
    OBVIOUS
  <2>1. EncodeHit(item) \in Seq(Nat)
        /\ \A j \in 1..Len(EncodeHit(item)) : EncodeHit(item)[j] # NewLine
    BY HitLine
  <2>2. Len(EncodeHit(item)) \in Nat
    BY <2>1
  <2>. QED
    BY <2>1, <2>2, Zenon
<1> HIDE DEF Line
<1>4. \A k \in 1..M : k = 1 \/ (k - 1 \in 1..n /\ (k - 1) + 1 = k)
  OBVIOUS
<1>5. <<s>> \in Seq(Nat) /\ Len(<<s>>) = 1 /\ <<s>>[1] = s
  OBVIOUS
<1>6. w \in [1..M -> Seq(Nat)]
  <2> HIDE DEF w
  <2>1. \A k \in 1..M : (IF k = 1 THEN <<s>> ELSE Line(k - 1)) \in Seq(Nat)
    BY <1>3, <1>4, <1>5, Zenon
  <2>. QED
    BY <2>1 DEF w
<1>7. w[1] = <<s>> /\ \A i \in 1..n : w[i + 1] = Line(i)
  <2>1. 1 \in 1..M /\ \A i \in 1..n : i + 1 \in 1..M /\ i + 1 # 1 /\ (i + 1) - 1 = i
    OBVIOUS
  <2>. QED
    BY <2>1
<1>8. begin[1] = 0 /\ begin[2] = off[1] + 2 /\ \A i \in 1..n : begin[i + 2] = off[i + 1] + 2
  <2>1. 1 \in 1..(M + 1) /\ 2 \in 1..(M + 1) /\ 2 - 1 = 1
        /\ \A i \in 1..n : i + 2 \in 1..(M + 1) /\ i + 2 # 1 /\ (i + 2) - 1 = i + 1
    OBVIOUS
  <2>. QED
    BY <2>1
<1>9. off \in [1..M -> Nat] /\ off[1] = 0 /\ \A i \in 1..n : off[i + 1] = off[i] + llen[i]
  BY <1>2 DEF Offsets
<1>10. begin \in [1..(M + 1) -> Nat]
  <2>1. \A k \in 1..(M + 1) : k = 1 \/ k - 1 \in 1..M
    OBVIOUS
  <2>. QED
    BY <1>9, <2>1
<1>11. \A i \in 1..n : llen[i] = Len(Line(i)) + 1 /\ llen[i] \in Nat
  BY <1>3
<1>17. \A k \in 1..M : len[k] = Len(w[k]) + 1
  OBVIOUS
<1>18. len = [k \in 1..M |-> Len(w[k]) + 1]
  OBVIOUS
<1> HIDE DEF w, begin, llen, len
<1>12. \A k \in 1..M : k = 1 \/ \E i \in 1..n : k = i + 1
  BY <1>4
<1>13. ASSUME NEW i \in 1..n
       PROVE  begin[i + 1] = off[i] + 2 /\ off[i] \in Nat
  <2>1. CASE i = 1
    BY <1>8, <1>9, <2>1
  <2>2. CASE i # 1
    <3>. PICK m \in 1..n : i = m + 1 /\ m + 2 = i + 1
      <4>1. i - 1 \in 1..n /\ i = (i - 1) + 1 /\ (i - 1) + 2 = i + 1
        BY <2>2
      <4>. QED
        BY <4>1
    <3>1. begin[m + 2] = off[m + 1] + 2
      BY <1>8
    <3>. QED
      BY <1>9, <3>1
  <2>. QED
    BY <2>1, <2>2
<1>14. Offsets(begin, len, M)
  <2>1. ASSUME NEW k \in 1..M
        PROVE  len[k] \in Nat /\ begin[k + 1] = begin[k] + len[k]
    <3>1. CASE k = 1
      <4>1. len[1] = 2
        <5>1. len[1] = Len(<<s>>) + 1
          BY <1>7, <1>17, <3>1, Zenon
        <5>. QED
          BY <1>5, <5>1
      <4>2. begin[1 + 1] = 2
        BY <1>8, <1>9
      <4>. QED
        BY <1>8, <3>1, <4>1, <4>2
    <3>2. CASE k # 1
      <4>. PICK i \in 1..n : k = i + 1
        BY <1>12, <3>2
      <4>1. len[k] = llen[i]
        BY <1>7, <1>11, <1>17, Zenon
      <4>2. begin[i + 2] = off[i + 1] + 2 /\ off[i + 1] = off[i] + llen[i] /\ llen[i] \in Nat
        BY <1>8, <1>9, <1>11
      <4>3. begin[k] = off[i] + 2 /\ off[i] \in Nat
        BY <1>13
      <4>4. k + 1 = i + 2
        OBVIOUS
      <4>5. begin[k + 1] = begin[i + 2]
        BY <4>4, Zenon
      <4>. QED
        <5>1. \A a, b \in Nat : (a + b) + 2 = (a + 2) + b
          OBVIOUS
        <5>2. begin[k + 1] = (off[i] + llen[i]) + 2 /\ begin[k] + len[k] = (off[i] + 2) + llen[i]
          BY <4>1, <4>2, <4>3, <4>5, Zenon
        <5>. QED
          BY <4>1, <4>2, <4>3, <5>1, <5>2, Zenon
    <3>. QED
      BY <3>1, <3>2
  <2>2. len \in [1..M -> Nat]
    <3>1. len = [k \in 1..M |-> len[k]]
      BY <1>18 DEF len
    <3>. QED
      BY <2>1, <3>1
  <2>. QED
    BY <1>8, <1>10, <2>1, <2>2 DEF Offsets
<1>15. Delimits(text, w, M, begin, NewLine)
  <2>1. Len(text) + 1 = begin[M + 1]
    <3>1. CASE n = 0
      <4>1. Len(text) = 1 /\ begin[M + 1] = 2
        BY <1>2, <1>8, <1>9, <3>1
      <4>. QED
        BY <4>1
    <3>2. CASE n # 0
      <4>1. n \in 1..n /\ M + 1 = n + 2 /\ n + 1 \in 1..M
        BY <3>2
      <4>2. begin[n + 2] = off[n + 1] + 2 /\ off[n + 1] \in Nat
        BY <1>8, <1>9, <4>1
      <4>3. Len(text) = 1 + off[n + 1]
        BY <1>2
      <4>4. begin[M + 1] = begin[n + 2]
        BY <4>1, Zenon
      <4>. QED
        BY <4>2, <4>3, <4>4
    <3>. QED
      BY <3>1, <3>2
  <2>2. ASSUME NEW k \in 1..M, NEW j \in 1..Len(w[k])
        PROVE  text[begin[k] + j] = w[k][j] /\ w[k][j] # NewLine
    <3>1. CASE k = 1
      <4>1. w[k] = <<s>> /\ begin[k] = 0
        BY <1>7, <1>8, <3>1
      <4>2. j \in 1..Len(<<s>>)
        BY <4>1
      <4>3. j = 1 /\ 0 + 1 = 1
        BY <1>5, <4>2
      <4>. QED
        BY <1>2, <1>5, <4>1, <4>3
    <3>2. CASE k # 1
      <4>. PICK i \in 1..n : k = i + 1
        BY <1>12, <3>2
      <4>1. w[k] = Line(i)
        BY <1>7
      <4>2. j \in 1..Len(Line(i))
        BY <4>1, Zenon
      <4>3. text[off[i] + 2 + j] = Line(i)[j] /\ Line(i)[j] # NewLine
        BY <1>2, <1>3, <4>2
      <4>4. begin[k] = off[i] + 2
        BY <1>13
      <4>. QED
        BY <4>1, <4>3, <4>4, Zenon
    <3>. QED
      BY <3>1, <3>2
  <2>3. ASSUME NEW k \in 2..M
        PROVE  text[begin[k]] = NewLine
    <3>. PICK i \in 1..n : k = i + 1
      BY <1>12
    <3>1. begin[k] = off[i] + 2
      BY <1>13
    <3>. QED
      BY <1>2, <3>1, Zenon
  <2>4. Offsets(begin, [k \in 1..M |-> Len(w[k]) + 1], M)
    BY <1>14, <1>18, Zenon
  <2>. QED
    BY <2>1, <2>2, <2>3, <2>4, Zenon DEF Delimits
<1>16. Split(text, NewLine) = w
  <2>1. w \in Pieces(M, Nat)
    BY <1>6 DEF Pieces
  <2>2. text \in Seq(Nat)
    BY <1>2
  <2>. QED
    BY <1>15, <2>1, <2>2, SplitPieces
<1>19. w = Parts(found)
  <2>1. M = Len(found) + 1 /\ s = Symbol(Len(found))
    OBVIOUS
  <2>. QED
    BY <2>1, Zenon DEF w, Line, Parts
<1>20. w \in Pieces(Len(found) + 1, Nat)
  <2>1. M = Len(found) + 1
    OBVIOUS
  <2>. QED
    BY <1>6, <2>1, Zenon DEF Pieces
<1>. QED
  BY <1>16, <1>19, <1>20, Zenon

\* decode_response makes of the frame what the client is told of the hits.
THEOREM AnswerComesBack ==
    ASSUME NEW found \in Seq(Listed)
    PROVE  DecodeHits(EncodeHits(found)) = {[i \in DOMAIN found |-> Shown(found[i])]}
<1>. PICK n \in Nat : n = Len(found)
  OBVIOUS
<1>1. DOMAIN found = 1..n
  OBVIOUS
<1> DEFINE lines == Split(EncodeHits(found), NewLine)
           rows == [i \in 1..(Len(lines) - 1) |-> DecodeHit(lines[i + 1])]
           answers == [i \in 1..n |-> {Shown(found[i])}]
<1>2. lines = Parts(found) /\ Parts(found) \in Pieces(n + 1, Nat)
  BY PartsComeBack
<1>3. Len(lines) - 1 = n
  <2>1. lines \in Pieces(n + 1, Nat)
    BY <1>2
  <2>2. lines \in [1..(n + 1) -> Seq(Nat)]
    BY <2>1 DEF Pieces
  <2> HIDE DEF lines
  <2>. QED
    BY <2>2
<1>4. /\ lines[1] = <<Symbol(n)>>
      /\ \A i \in 1..n : lines[i + 1] = EncodeHit(found[i])
  <2>1. 1 \in 1..(n + 1)
        /\ \A i \in 1..n : i + 1 \in 1..(n + 1) /\ i + 1 # 1 /\ (i + 1) - 1 = i
    OBVIOUS
  <2> DEFINE Part(k) == IF k = 1 THEN <<Symbol(n)>> ELSE EncodeHit(found[k - 1])
  <2>2. lines = [k \in 1..(n + 1) |-> Part(k)]
    <3>1. Len(found) = n
      OBVIOUS
    <3>. QED
      BY <1>2, <3>1, Zenon DEF Parts
  <2>3. Part(1) = <<Symbol(n)>>
    OBVIOUS
  <2>4. \A i \in 1..n : Part(i + 1) = EncodeHit(found[i])
    BY <2>1, Zenon
  <2> HIDE DEF Part, lines
  <2>. QED
    BY <2>1, <2>2, <2>3, <2>4
<1>5. \A i \in 1..n : DecodeHit(lines[i + 1]) = {Shown(found[i])}
  <2> TAKE i \in 1..n
  <2>1. found[i] \in Listed
    OBVIOUS
  <2>2. DecodeHit(EncodeHit(found[i])) = {Shown(found[i])}
    BY <2>1, HitComesBack
  <2>. QED
    BY <1>4, <2>2
<1> HIDE DEF lines
<1>6. rows = answers
  BY <1>3, <1>5
<1>7. Len(rows) = n /\ DOMAIN rows = 1..n
  BY <1>3
<1>8. \A i \in 1..n : rows[i] = {Shown(found[i])}
  BY <1>6
<1> HIDE DEF rows, answers
<1> DEFINE result == [i \in DOMAIN rows |-> CHOOSE row \in rows[i] : TRUE]
<1>9. DecodeHits(EncodeHits(found)) =
        IF lines[1] = <<Symbol(Len(rows))>> /\ \A i \in DOMAIN rows : rows[i] # {}
        THEN {result} ELSE {}
  BY Zenon DEF DecodeHits, rows, lines
<1>10. lines[1] = <<Symbol(Len(rows))>> /\ \A i \in DOMAIN rows : rows[i] # {}
  BY <1>4, <1>7, <1>8
<1>11. result = [i \in 1..n |-> Shown(found[i])]
  <2>1. \A i \in 1..n : (CHOOSE row \in rows[i] : TRUE) = Shown(found[i])
    BY <1>8
  <2>. QED
    BY <1>7, <2>1
<1> HIDE DEF result
<1>. QED
  BY <1>1, <1>9, <1>10, <1>11, Zenon

-----------------------------------------------------------------------------
(* Places in an order *)

\* R orders S strictly, and any two of its elements.
Orders(R, S) ==
    /\ \A i \in S : <<i, i>> \notin R
    /\ \A i, j, k \in S : <<i, j>> \in R /\ <<j, k>> \in R => <<i, k>> \in R
    /\ \A i, j \in S : i = j \/ <<i, j>> \in R \/ <<j, i>> \in R

Below(R, S, i) == {j \in S : <<j, i>> \in R}

Rank(R, S, i) == 1 + Cardinality(Below(R, S, i))

\* Each element has a place of its own, in that order, and every place is taken.
Ranked(R, S) ==
    /\ \A i \in S : Rank(R, S, i) \in 1..Cardinality(S)
    /\ \A i, j \in S : <<i, j>> \in R => Rank(R, S, i) < Rank(R, S, j)
    /\ \A k \in 1..Cardinality(S) : \E i \in S : Rank(R, S, i) = k

\* To count what is below each gives it its place.
LEMMA Ranks ==
    ASSUME NEW S, IsFiniteSet(S), NEW R, Orders(R, S)
    PROVE  Ranked(R, S)
<1>. PICK n \in Nat : n = Cardinality(S)
  BY FS_CardinalityType
<1>1. ASSUME NEW i \in S
      PROVE  /\ IsFiniteSet(Below(R, S, i)) /\ Cardinality(Below(R, S, i)) \in Nat
             /\ Cardinality(Below(R, S, i)) <= n - 1
  <2>1. Below(R, S, i) \in SUBSET (S \ {i})
    BY DEF Below, Orders
  <2>2. IsFiniteSet(S \ {i}) /\ Cardinality(S \ {i}) = n - 1
    BY FS_RemoveElement
  <2>3. /\ IsFiniteSet(Below(R, S, i))
        /\ Cardinality(Below(R, S, i)) <= Cardinality(S \ {i})
    BY <2>1, <2>2, FS_Subset
  <2>4. Cardinality(Below(R, S, i)) \in Nat
    BY <2>3, FS_CardinalityType
  <2>. QED
    BY <2>2, <2>3, <2>4
<1>2. ASSUME NEW i \in S
      PROVE  Rank(R, S, i) \in 1..n
  BY <1>1 DEF Rank
<1>3. ASSUME NEW i \in S, NEW j \in S, <<i, j>> \in R
      PROVE  Rank(R, S, i) < Rank(R, S, j)
  <2>1. Below(R, S, i) \in SUBSET Below(R, S, j)
    BY <1>3 DEF Below, Orders
  <2>2. Below(R, S, i) # Below(R, S, j)
    <3>1. i \in Below(R, S, j) /\ i \notin Below(R, S, i)
      BY <1>3 DEF Below, Orders
    <3>. QED
      BY <3>1
  <2>3. IsFiniteSet(Below(R, S, j))
    BY <1>1
  <2>4. /\ Cardinality(Below(R, S, i)) <= Cardinality(Below(R, S, j))
        /\ Cardinality(Below(R, S, j)) # Cardinality(Below(R, S, i))
    BY <2>1, <2>2, <2>3, FS_Subset
  <2>. PICK a \in Nat : a = Cardinality(Below(R, S, i))
    BY <1>1
  <2>. PICK b \in Nat : b = Cardinality(Below(R, S, j))
    BY <1>1
  <2>. QED
    BY <2>4 DEF Rank
<1> DEFINE f == [i \in S |-> Rank(R, S, i)]
<1>4. f \in Injection(S, 1..n)
  <2>1. f \in [S -> 1..n]
    BY <1>2
  <2>2. \A i, j \in S : f[i] = f[j] => i = j
    <3>1. SUFFICES ASSUME NEW i \in S, NEW j \in S, f[i] = f[j], i # j PROVE FALSE
      OBVIOUS
    <3>2. Rank(R, S, i) = Rank(R, S, j) /\ Rank(R, S, i) \in Int
      BY <1>2, <3>1
    <3>3. Rank(R, S, i) < Rank(R, S, j) \/ Rank(R, S, j) < Rank(R, S, i)
      BY <1>3, <3>1 DEF Orders
    <3>. QED
      BY <3>2, <3>3
  <2> HIDE DEF f
  <2>. QED
    BY <2>1, <2>2 DEF Injection, IsInjective
<1>5. f \in Surjection(S, 1..n)
  <2>1. IsFiniteSet(1..n) /\ Cardinality(1..n) = n
    BY FS_Interval
  <2> HIDE DEF f
  <2>. QED
    BY <1>4, <2>1, FS_Injection
<1>6. ASSUME NEW k \in 1..n
      PROVE  \E i \in S : Rank(R, S, i) = k
  <2>1. \E i \in S : f[i] = k
    <3> HIDE DEF f
    <3>. QED
      BY <1>5 DEF Surjection
  <2>. QED
    BY <2>1
<1>. QED
  BY <1>2, <1>3, <1>6 DEF Ranked

-----------------------------------------------------------------------------
(* Scores *)

\* The smaller and the larger of two numbers.
LEMMA MinMax ==
    ASSUME NEW x \in Int, NEW y \in Int
    PROVE  /\ Min({x, y}) = IF x <= y THEN x ELSE y
           /\ Max({x, y}) = IF x >= y THEN x ELSE y
<1>1. \E m \in {x, y} : \A z \in {x, y} : m <= z
  OBVIOUS
<1>2. Min({x, y}) \in {x, y} /\ Min({x, y}) <= x /\ Min({x, y}) <= y
  BY <1>1 DEF Min
<1>3. \E m \in {x, y} : \A z \in {x, y} : m >= z
  OBVIOUS
<1>4. Max({x, y}) \in {x, y} /\ Max({x, y}) >= x /\ Max({x, y}) >= y
  BY <1>3 DEF Max
<1>. QED
  BY <1>2, <1>4

\* Clamp brings a number into 0 to 100.
LEMMA Clamped ==
    ASSUME NEW x \in Int
    PROVE  /\ Clamp(x) \in Int
           /\ Clamp(x) = IF x < 0 THEN 0 ELSE IF x > 100 THEN 100 ELSE x
<1>1. PICK m \in Int : m = Min({x, 100}) /\ m = IF x <= 100 THEN x ELSE 100
  <2>1. Min({x, 100}) = IF x <= 100 THEN x ELSE 100
    BY MinMax
  <2>. QED
    BY <2>1
<1>2. Max({0, m}) = IF 0 >= m THEN 0 ELSE m
  BY MinMax
<1>3. Clamp(x) = Max({0, m})
  BY <1>1, Zenon DEF Clamp
<1>. QED
  BY <1>1, <1>2, <1>3

\* The requests the daemon decodes.
Query == [tokens : Nat \ {0}, capitals : BOOLEAN, limit : Nat]

\* An item as the query meets it.
Meets(query, item) ==
    /\ query \in Query /\ item \in Listed
    /\ Len(item.match) = query.tokens

\* A token that matches has one of the seven scores.
LEMMA TokenScores ==
    ASSUME NEW match \in Match, match # "none"
    PROVE  TokenScore(match) \in {100, 88, 74, 62, 50, 42, 30}
BY DEF TokenScore, Match, Quality

\* The score of an item is a number from 0 to 100, or says that it is no hit.
LEMMA Scores ==
    ASSUME NEW query, NEW item, Meets(query, item)
    PROVE  Score(query, item) \in Int
<1> DEFINE T == {TokenScore(m) : m \in Matched(query, item)} \cup {Unmatched}
<1>1. T \in SUBSET Nat /\ T # {}
  <2>1. \A m \in Matched(query, item) : m \in Match /\ m # "none"
    BY DEF Meets, Matched, Listed
  <2>2. \A m \in Matched(query, item) : TokenScore(m) \in Nat
    BY <2>1, TokenScores
  <2>. QED
    BY <2>2 DEF Unmatched
<1>2. Base(query, item) \in Nat
  <2>1. Base(query, item) = Min(T)
    BY Zenon DEF Base
  <2> HIDE DEF T
  <2>2. \E x \in T : \A y \in T : x <= y
    BY <1>1, SmallestNumber
  <2>3. Min(T) \in T
    BY <2>2 DEF Min
  <2>. QED
    BY <1>1, <2>1, <2>3
<1>. PICK b \in Nat : b = Base(query, item)
  BY <1>2
<1>. PICK e \in 0..2 : e = item.initials
  BY DEF Meets, Listed
<1>3. Lifted(query, item) \in Int
  <2>1. b + (IF query.capitals THEN 10 * e ELSE 0)
        + (IF query.tokens > 1 /\ item.joined # "none" THEN 5 ELSE 0) \in Int
    OBVIOUS
  <2>. QED
    BY <2>1, Zenon DEF Lifted
<1>4. Value(query, item) \in Int
  <2>1. Max({Lifted(query, item), 82}) \in Int
    <3>1. \A x \in Int : Max({x, 82}) = IF x >= 82 THEN x ELSE 82
      BY MinMax
    <3>. QED
      BY <1>3, <3>1
  <2>. QED
    BY <1>3, <2>1 DEF Value
<1>5. \A x \in Int : Clamp(x) \in Int
  BY Clamped
<1>. QED
  BY <1>4, <1>5 DEF Score, NoHit

\* An index as the query meets it.
MeetsAll(query, items) ==
    /\ items \in Seq(Listed)
    /\ \A i \in DOMAIN items : Meets(query, items[i])
    /\ \A i, j \in DOMAIN items : items[i].rank = items[j].rank => i = j

\* The order of sort_by decides between any two items of an index, since no two have
\* the same path: that the sort is stable is never seen.
LEMMA BeforeDecides ==
    ASSUME NEW query, NEW items, MeetsAll(query, items)
    PROVE  /\ \A i, j \in DOMAIN items :
                 Precedes(query, items, i, j) <=> Before(query, items[i], items[j])
           /\ \A i \in DOMAIN items : ~Before(query, items[i], items[i])
           /\ \A i, j \in DOMAIN items :
                 i = j \/ Before(query, items[i], items[j]) \/ Before(query, items[j], items[i])
           /\ \A i, j, k \in DOMAIN items :
                 Before(query, items[i], items[j]) /\ Before(query, items[j], items[k])
                   => Before(query, items[i], items[k])
<1> DEFINE S(i) == Score(query, items[i])
           N(i) == Len(items[i].name)
           P(i) == items[i].rank
<1>1. ASSUME NEW i \in DOMAIN items
      PROVE  S(i) \in Int /\ N(i) \in Int /\ P(i) \in Int /\ i \in Int
  <2>1. Meets(query, items[i])
    BY DEF MeetsAll
  <2>2. items[i].name \in Seq(Byte) /\ items[i].rank \in Nat
    BY <2>1 DEF Meets, Listed
  <2>3. i \in Int
    BY DEF MeetsAll
  <2>. QED
    BY <2>1, <2>2, <2>3, Scores
<1>2. \A i, j \in DOMAIN items : P(i) = P(j) => i = j
  BY DEF MeetsAll
<1>3. \A i, j \in DOMAIN items :
        Before(query, items[i], items[j]) <=>
          \/ S(i) > S(j)
          \/ S(i) = S(j) /\ N(i) < N(j)
          \/ S(i) = S(j) /\ N(i) = N(j) /\ P(i) < P(j)
  BY Zenon DEF Before
<1> HIDE DEF S, N, P
<1>4. \A i \in DOMAIN items : ~Before(query, items[i], items[i])
  BY <1>1, <1>3
<1>5. \A i, j \in DOMAIN items :
        i = j \/ Before(query, items[i], items[j]) \/ Before(query, items[j], items[i])
  BY <1>1, <1>2, <1>3
<1>6. \A i, j \in DOMAIN items :
        ~(Before(query, items[i], items[j]) /\ Before(query, items[j], items[i]))
  BY <1>1, <1>3
<1>7. \A i, j \in DOMAIN items :
        Precedes(query, items, i, j) <=> Before(query, items[i], items[j])
  <2>1. \A i \in DOMAIN items : ~(i < i)
    BY <1>1
  <2>. QED
    BY <1>4, <1>5, <1>6, <2>1, Zenon DEF Precedes
<1>8. \A i, j, k \in DOMAIN items :
        Before(query, items[i], items[j]) /\ Before(query, items[j], items[k])
          => Before(query, items[i], items[k])
  BY <1>1, <1>3
<1>. QED
  BY <1>4, <1>5, <1>7, <1>8, Zenon

\* Every hit has a place of its own, in the order of sort_by, and Sorted has it there.
Sorts(query, items) ==
    /\ Cardinality(Found(query, items)) \in Nat
    /\ \A i \in Found(query, items) :
          Place(query, items, i) \in 1..Cardinality(Found(query, items))
    /\ \A i, j \in Found(query, items) :
          Before(query, items[i], items[j]) => Place(query, items, i) < Place(query, items, j)
    /\ \A k \in 1..Cardinality(Found(query, items)) :
          \E i \in Found(query, items) :
             Place(query, items, i) = k /\ Sorted(query, items)[k] = items[i]
    /\ Sorted(query, items) \in
          [1..Cardinality(Found(query, items)) -> {items[i] : i \in Found(query, items)}]

\* The model's sort is one.
LEMMA SortingSorts ==
    ASSUME NEW query, NEW items, MeetsAll(query, items)
    PROVE  Sorts(query, items)
<1> DEFINE F == Found(query, items)
           R == {p \in F \X F : Before(query, items[p[1]], items[p[2]])}
<1>1. F \subseteq DOMAIN items
  BY DEF Found
<1>2. IsFiniteSet(F)
  <2>1. PICK m \in Nat : DOMAIN items = 1..m
    BY DEF MeetsAll
  <2>2. IsFiniteSet(1..m)
    BY FS_Interval
  <2> HIDE DEF F
  <2>. QED
    BY <1>1, <2>1, <2>2, FS_Subset
<1> HIDE DEF F
<1>. PICK n \in Nat : n = Cardinality(F)
  BY <1>2, FS_CardinalityType
<1>3. \A i, j \in F : <<i, j>> \in R <=> Before(query, items[i], items[j])
  OBVIOUS
<1> HIDE DEF R
<1>4. /\ \A i \in F : ~Before(query, items[i], items[i])
      /\ \A i, j \in F :
            i = j \/ Before(query, items[i], items[j]) \/ Before(query, items[j], items[i])
      /\ \A i, j, k \in F :
            Before(query, items[i], items[j]) /\ Before(query, items[j], items[k])
              => Before(query, items[i], items[k])
      /\ \A i, j \in F : Precedes(query, items, i, j) <=> Before(query, items[i], items[j])
  BY <1>1, BeforeDecides
<1>5. Orders(R, F)
  BY <1>3, <1>4 DEF Orders
<1>6. Ranked(R, F)
  BY <1>2, <1>5, Ranks
<1>7. \A i \in F : Rank(R, F, i) = Place(query, items, i)
  <2> TAKE i \in F
  <2>1. Below(R, F, i) = {j \in F : Precedes(query, items, j, i)}
    BY <1>3, <1>4 DEF Below
  <2>. QED
    BY <2>1, Zenon DEF Rank, Place, F
<1>8. /\ \A i \in F : Place(query, items, i) \in 1..n
      /\ \A i, j \in F :
            Before(query, items[i], items[j]) => Place(query, items, i) < Place(query, items, j)
      /\ \A k \in 1..n : \E i \in F : Place(query, items, i) = k
  <2>1. /\ \A i \in F : Rank(R, F, i) \in 1..n
        /\ \A i, j \in F : <<i, j>> \in R => Rank(R, F, i) < Rank(R, F, j)
        /\ \A k \in 1..n : \E i \in F : Rank(R, F, i) = k
    BY <1>6, Zenon DEF Ranked
  <2>. QED
    BY <1>3, <1>7, <2>1, Zenon
<1> DEFINE At(k) == CHOOSE i \in F : Place(query, items, i) = k
<1>9. \A k \in 1..n : At(k) \in F /\ Place(query, items, At(k)) = k
  <2> TAKE k \in 1..n
  <2>1. \E i \in F : Place(query, items, i) = k
    BY <1>8
  <2>. QED
    BY <2>1, Zenon
<1>10. Sorted(query, items) = [k \in 1..n |-> items[At(k)]]
  BY Zenon DEF Sorted, F
<1> HIDE DEF At
<1>11. \A k \in 1..n : Sorted(query, items)[k] = items[At(k)]
  BY <1>10
<1>12. Sorted(query, items) \in [1..n -> {items[i] : i \in F}]
  <2> DEFINE I == {items[i] : i \in F}
  <2>1. \A k \in 1..n : items[At(k)] \in I
    BY <1>9
  <2> HIDE DEF I
  <2>2. Sorted(query, items) \in [1..n -> I]
    BY <1>10, <2>1
  <2>. QED
    BY <2>2 DEF I
<1>13. \A k \in 1..n :
         \E i \in F : Place(query, items, i) = k /\ Sorted(query, items)[k] = items[i]
  BY <1>9, <1>11, Zenon
<1>. QED
  BY <1>8, <1>12, <1>13, Zenon DEF Sorts, F

\* A search returns the first of what is sorted, as many as the query takes.
Takes(query, items) ==
    /\ Search(query, items) \in Seq({items[i] : i \in Found(query, items)})
    /\ Len(Search(query, items)) <= query.limit
    /\ Len(Search(query, items)) <= Cardinality(Found(query, items))
    /\ \A k \in 1..Len(Search(query, items)) :
          Search(query, items)[k] = Sorted(query, items)[k]

\* The model's search does.
LEMMA SearchTakes ==
    ASSUME NEW query, NEW items, query \in Query, MeetsAll(query, items)
    PROVE  Takes(query, items)
<1> DEFINE I == {items[i] : i \in Found(query, items)}
<1>. PICK n \in Nat : n = Cardinality(Found(query, items))
  BY SortingSorts DEF Sorts
<1>1. Sorted(query, items) \in [1..n -> I]
  BY SortingSorts, Zenon DEF Sorts
<1> HIDE DEF I
<1>. PICK s : s = Sorted(query, items)
  OBVIOUS
<1>2. s \in Seq(I) /\ Len(s) = n
  BY <1>1
<1>. PICK limit \in Nat : limit = query.limit
  BY DEF Query
<1>. PICK m \in Nat : m = Min({limit, n}) /\ m <= limit /\ m <= n
  <2>1. Min({limit, n}) = IF limit <= n THEN limit ELSE n
    BY MinMax
  <2>. QED
    BY <2>1
<1>3. Search(query, items) = Begin(s, m)
  <2>1. Search(query, items) = SubSeq(s, 1, Min({limit, Len(s)}))
    BY Zenon DEF Search, Truncate
  <2>. QED
    BY <1>2, <2>1, Zenon DEF Begin
<1>4. /\ Begin(s, m) \in Seq(I) /\ Len(Begin(s, m)) = m
      /\ \A i \in 1..m : Begin(s, m)[i] = s[i]
  <2>1. m \in 0..Len(s)
    BY <1>2
  <2>. QED
    BY <1>2, <2>1, BeginElements, Zenon
<1>. PICK h : h = Begin(s, m)
  OBVIOUS
<1>5. h \in Seq(I) /\ Len(h) <= query.limit /\ Len(h) <= Cardinality(Found(query, items))
      /\ \A k \in 1..Len(h) : h[k] = Sorted(query, items)[k]
  BY <1>4
<1>6. Search(query, items) = h
  BY <1>3
<1>. QED
  BY <1>5, <1>6, Zenon DEF Takes, I

-----------------------------------------------------------------------------
(* A better match ranks first *)

\* The score of an item that is not hidden, for a single token not in capitals: that of
\* the match, and at most the two of a directory.
LEMMA PlainScore ==
    ASSUME NEW query, NEW item, Meets(query, item), query.tokens = 1, ~query.capitals,
           ~item.hidden, Score(query, item) # NoHit
    PROVE  /\ item.match[1] \in Match /\ item.match[1] # "none"
           /\ TokenScore(item.match[1]) <= Score(query, item)
           /\ Score(query, item) <= TokenScore(item.match[1]) + 2
<1>. PICK m \in Match : m = item.match[1]
  BY DEF Meets, Listed
<1>1. Matched(query, item) = {m} \ {"none"}
  <2>1. 1..query.tokens = {1}
    OBVIOUS
  <2>2. {item.match[i] : i \in {1}} = {m}
    OBVIOUS
  <2>. QED
    BY <2>1, <2>2, Zenon DEF Matched
<1>2. m # "none"
  <2>1. SUFFICES ASSUME m = "none" PROVE FALSE
    OBVIOUS
  <2>. PICK t \in Nat : t = 1000
    OBVIOUS
  <2>2. {TokenScore(x) : x \in Matched(query, item)} \cup {Unmatched} = {t, 1000}
    BY <1>1, <2>1 DEF Unmatched
  <2>3. Base(query, item) = Min({t, 1000})
    BY <2>2 DEF Base
  <2>4. Min({t, 1000}) = 1000
    <3>1. Min({t, 1000}) = IF t <= 1000 THEN t ELSE 1000
      BY MinMax
    <3>. QED
      BY <3>1
  <2>5. ~ByInitials(query, item)
    BY DEF ByInitials
  <2>6. Misses(query, item)
    BY <2>3, <2>4, <2>5 DEF Misses, Unmatched
  <2>. QED
    BY <2>6, ZenonT(40) DEF Score
<1>. PICK t \in {100, 88, 74, 62, 50, 42, 30} : t = TokenScore(m)
  BY <1>2, TokenScores
<1>3. Base(query, item) = t
  <2>1. {TokenScore(x) : x \in Matched(query, item)} \cup {Unmatched} = {t, 1000}
    BY <1>1, <1>2 DEF Unmatched
  <2>2. Base(query, item) = Min({t, 1000})
    BY <2>1, Zenon DEF Base
  <2>3. Min({t, 1000}) = t
    <3>1. Min({t, 1000}) = IF t <= 1000 THEN t ELSE 1000
      BY MinMax
    <3>. QED
      BY <3>1
  <2>. QED
    BY <2>2, <2>3
<1>4. Value(query, item) = t
  <2>1. ~ByInitials(query, item) /\ ~(query.tokens > 1)
    BY DEF ByInitials
  <2>2. Lifted(query, item) = t
    BY <1>3, <2>1 DEF Lifted
  <2>. QED
    BY <2>1, <2>2 DEF Value
<1>5. Score(query, item) = Clamp(t + (IF item.directory THEN 2 ELSE 0) - 0)
  <2>1. (IF item.hidden THEN 12 ELSE 0) = 0
    OBVIOUS
  <2>2. ~Misses(query, item)
    BY Zenon DEF Score
  <2>. QED
    BY <1>4, <2>1, <2>2, Zenon DEF Score
<1>6. PICK x \in t..(t + 2) : x = t + (IF item.directory THEN 2 ELSE 0) - 0
  OBVIOUS
<1>7. Clamp(x) = IF x < 0 THEN 0 ELSE IF x > 100 THEN 100 ELSE x
  BY Clamped
<1>8. t <= Score(query, item) /\ Score(query, item) <= t + 2
  BY <1>5, <1>6, <1>7
<1>. QED
  BY <1>2, <1>8

\* The places of the matches in Quality.
LEMMA RanksOfMatches ==
    /\ RankOf("equal") = 1 /\ RankOf("prefix") = 2 /\ RankOf("contains") = 3
    /\ RankOf("segment_prefix") = 4 /\ RankOf("segment_contains") = 5
    /\ RankOf("segment_subsequence") = 6 /\ RankOf("path") = 7
<1>1. DOMAIN Quality = 1..8
  BY DEF Quality
<1>2. \A i \in 1..8 : /\ Quality[i] = "equal" <=> i = 1
                      /\ Quality[i] = "prefix" <=> i = 2
                      /\ Quality[i] = "contains" <=> i = 3
                      /\ Quality[i] = "segment_prefix" <=> i = 4
                      /\ Quality[i] = "segment_contains" <=> i = 5
                      /\ Quality[i] = "segment_subsequence" <=> i = 6
                      /\ Quality[i] = "path" <=> i = 7
  BY DEF Quality
<1>. QED
  BY <1>1, <1>2 DEF RankOf

\* A worse match scores less, by more than a directory gains.
LEMMA WorseScoresLess ==
    ASSUME NEW a \in Match, NEW b \in Match, a # "none", b # "none", RankOf(a) > RankOf(b)
    PROVE  TokenScore(a) + 2 < TokenScore(b)
<1>1. \A m \in Match : m # "none" =>
        \/ m = "equal" /\ TokenScore(m) = 100 /\ RankOf(m) = 1
        \/ m = "prefix" /\ TokenScore(m) = 88 /\ RankOf(m) = 2
        \/ m = "contains" /\ TokenScore(m) = 74 /\ RankOf(m) = 3
        \/ m = "segment_prefix" /\ TokenScore(m) = 62 /\ RankOf(m) = 4
        \/ m = "segment_contains" /\ TokenScore(m) = 50 /\ RankOf(m) = 5
        \/ m = "segment_subsequence" /\ TokenScore(m) = 42 /\ RankOf(m) = 6
        \/ m = "path" /\ TokenScore(m) = 30 /\ RankOf(m) = 7
  BY RanksOfMatches DEF Match, Quality, TokenScore
<1>. QED
  BY <1>1

\* Of two hits that are not hidden the better match comes first.
LEMMA BetterHitsFirst ==
    ASSUME NEW query, NEW items, query \in Query, MeetsAll(query, items),
           query.tokens = 1, ~query.capitals,
           NEW i \in DOMAIN Search(query, items), NEW j \in DOMAIN Search(query, items), i < j,
           ~Search(query, items)[i].hidden, ~Search(query, items)[j].hidden
    PROVE  RankOf(Search(query, items)[i].match[1]) <= RankOf(Search(query, items)[j].match[1])
<1> DEFINE F == Found(query, items)
           h == Search(query, items)
<1>1. /\ Cardinality(F) \in Nat
      /\ \A a \in F : Place(query, items, a) \in 1..Cardinality(F)
      /\ \A a, b \in F :
            Before(query, items[a], items[b]) => Place(query, items, a) < Place(query, items, b)
      /\ \A k \in 1..Cardinality(F) :
            \E a \in F : Place(query, items, a) = k /\ Sorted(query, items)[k] = items[a]
  <2>1. Sorts(query, items)
    BY SortingSorts
  <2>. QED
    BY <2>1, Zenon DEF Sorts
<1>2. /\ h \in Seq({items[a] : a \in F}) /\ Len(h) <= Cardinality(F)
      /\ \A k \in 1..Len(h) : h[k] = Sorted(query, items)[k]
  BY SearchTakes, Zenon DEF Takes
<1>3. ~h[i].hidden /\ ~h[j].hidden /\ i \in DOMAIN h /\ j \in DOMAIN h
  OBVIOUS
<1>9. F \subseteq DOMAIN items /\ \A a \in F : Score(query, items[a]) # NoHit
  BY DEF Found
<1> HIDE DEF F, h
<1>4. i \in 1..Len(h) /\ j \in 1..Len(h) /\ i \in 1..Cardinality(F) /\ j \in 1..Cardinality(F)
  <2>1. DOMAIN h = 1..Len(h) /\ Len(h) \in Nat
    BY <1>2
  <2>. QED
    BY <1>1, <1>2, <1>3, <2>1
<1>5. PICK a \in F : Place(query, items, a) = i /\ Sorted(query, items)[i] = items[a]
  BY <1>1, <1>4
<1>6. PICK b \in F : Place(query, items, b) = j /\ Sorted(query, items)[j] = items[b]
  BY <1>1, <1>4
<1>7. h[i] = items[a] /\ h[j] = items[b]
  BY <1>2, <1>4, <1>5, <1>6
<1>8. ~Before(query, items[b], items[a])
  <2>1. ~(j < i)
    BY <1>4
  <2>. QED
    BY <1>1, <1>5, <1>6, <2>1, Zenon
<1>. PICK x : x = items[a]
  OBVIOUS
<1>. PICK y : y = items[b]
  OBVIOUS
<1>10. Meets(query, x) /\ Meets(query, y)
  BY <1>9 DEF MeetsAll
<1>11. ~x.hidden /\ ~y.hidden /\ Score(query, x) # NoHit /\ Score(query, y) # NoHit
  BY <1>3, <1>7, <1>9
<1>12. /\ x.match[1] \in Match /\ x.match[1] # "none"
       /\ Score(query, x) <= TokenScore(x.match[1]) + 2
  BY <1>10, <1>11, PlainScore
<1>13. /\ y.match[1] \in Match /\ y.match[1] # "none"
       /\ TokenScore(y.match[1]) <= Score(query, y)
  BY <1>10, <1>11, PlainScore
<1>14. ~(Score(query, y) > Score(query, x))
  BY <1>8, Zenon DEF Before
<1>. PICK m \in Match : m = x.match[1] /\ m # "none"
  BY <1>12
<1>. PICK l \in Match : l = y.match[1] /\ l # "none"
  BY <1>13
<1>15. TokenScore(m) \in Int /\ TokenScore(l) \in Int
  BY TokenScores
<1>16. Score(query, x) \in Int /\ Score(query, y) \in Int
  BY <1>10, Scores
<1>17. ~(RankOf(m) > RankOf(l))
  <2>1. SUFFICES ASSUME RankOf(m) > RankOf(l) PROVE FALSE
    OBVIOUS
  <2>2. TokenScore(m) + 2 < TokenScore(l)
    BY <2>1, WorseScoresLess
  <2>3. Score(query, x) <= TokenScore(m) + 2 /\ TokenScore(l) <= Score(query, y)
    BY <1>12, <1>13, Zenon
  <2>. QED
    BY <1>14, <1>15, <1>16, <2>2, <2>3
<1>18. \A q \in Match : q # "none" => RankOf(q) \in Int
  BY RanksOfMatches DEF Match, Quality
<1>19. RankOf(m) <= RankOf(l)
  BY <1>17, <1>18
<1>. QED
  BY <1>7, <1>19, Zenon DEF h

-----------------------------------------------------------------------------
(* The order of the walk *)

\* A permutation that takes one set to another takes as many.
LEMMA Permuted ==
    ASSUME NEW D, NEW order \in Bijection(D, D), NEW S, NEW T, S \subseteq D, T \subseteq D,
           IsFiniteSet(S), \A i \in D : i \in S <=> order[i] \in T
    PROVE  Cardinality(T) = Cardinality(S)
<1>1. /\ order \in [D -> D]
      /\ \A i, j \in D : order[i] = order[j] => i = j
      /\ \A t \in D : \E i \in D : order[i] = t
  BY DEF Bijection, Injection, Surjection, IsInjective
<1> DEFINE f == [i \in S |-> order[i]]
<1>2. f \in [S -> T]
  BY <1>1
<1>3. \A i, j \in S : f[i] = f[j] => i = j
  BY <1>1
<1>4. \A t \in T : \E i \in S : f[i] = t
  BY <1>1
<1> HIDE DEF f
<1>5. f \in Bijection(S, T)
  BY <1>2, <1>3, <1>4 DEF Bijection, Injection, Surjection, IsInjective
<1>6. ExistsBijection(S, T)
  BY <1>5 DEF ExistsBijection
<1>. QED
  BY <1>6, FS_Bijection

\* A walk that meets the items in another order changes no answer.
LEMMA AnotherWalk ==
    ASSUME NEW query, NEW items, query \in Query, MeetsAll(query, items),
           NEW order \in Bijection(DOMAIN items, DOMAIN items)
    PROVE  Search(query, [i \in DOMAIN items |-> items[order[i]]]) = Search(query, items)
<1>. PICK D : D = DOMAIN items
  OBVIOUS
<1> DEFINE walk == [i \in DOMAIN items |-> items[order[i]]]
           F == Found(query, items)
           G == Found(query, walk)
<1>1. /\ order \in [D -> D]
      /\ \A i, j \in D : order[i] = order[j] => i = j
      /\ order \in Bijection(D, D)
  BY DEF Bijection, Injection, IsInjective
<1>2. PICK m \in Nat : D = 1..m
  BY DEF MeetsAll
<1>3. DOMAIN walk = D /\ \A i \in D : walk[i] = items[order[i]]
  OBVIOUS
<1>4. MeetsAll(query, walk)
  <2>1. walk \in Seq(Listed)
    <3>1. \A i \in D : items[order[i]] \in Listed
      BY <1>1 DEF MeetsAll
    <3>2. walk \in [1..m -> Listed]
      BY <1>2, <3>1
    <3>. QED
      BY <3>2
  <2> HIDE DEF walk
  <2>2. \A i \in D : Meets(query, walk[i])
    BY <1>1, <1>3 DEF MeetsAll
  <2>3. \A i, j \in D : walk[i].rank = walk[j].rank => i = j
    BY <1>1, <1>3 DEF MeetsAll
  <2>. QED
    BY <1>3, <2>1, <2>2, <2>3 DEF MeetsAll
<1> HIDE DEF walk
<1>5. /\ F \subseteq D /\ G \subseteq D
      /\ \A i \in D : i \in G <=> order[i] \in F
  BY <1>1, <1>3 DEF Found
<1>6. IsFiniteSet(G)
  <2>1. IsFiniteSet(1..m)
    BY FS_Interval
  <2> HIDE DEF G
  <2>. QED
    BY <1>2, <1>5, <2>1, FS_Subset
<1> HIDE DEF F, G
<1>7. Cardinality(F) = Cardinality(G)
  BY <1>1, <1>5, <1>6, Permuted
<1>8. ASSUME NEW i \in G
      PROVE  order[i] \in F /\ Place(query, walk, i) = Place(query, items, order[i])
  <2> DEFINE S == {j \in G : Precedes(query, walk, j, i)}
             T == {j \in F : Precedes(query, items, j, order[i])}
  <2>1. order[i] \in F /\ i \in D /\ order[i] \in D
    BY <1>1, <1>5
  <2>2. \A j \in D : Precedes(query, walk, j, i) <=> Precedes(query, items, order[j], order[i])
    <3> TAKE j \in D
    <3>1. Precedes(query, walk, j, i) <=> Before(query, walk[j], walk[i])
      BY <1>3, <1>4, <2>1, BeforeDecides
    <3>2. Precedes(query, items, order[j], order[i])
            <=> Before(query, items[order[j]], items[order[i]])
      BY <1>1, <2>1, BeforeDecides
    <3>3. walk[j] = items[order[j]] /\ walk[i] = items[order[i]]
      BY <1>3, <2>1
    <3>. QED
      BY <3>1, <3>2, <3>3, Zenon
  <2>3. \A j \in D : j \in S <=> order[j] \in T
    BY <1>1, <1>5, <2>2
  <2>4. S \subseteq D /\ T \subseteq D
    BY <1>5
  <2>5. IsFiniteSet(S)
    <3>1. S \in SUBSET G
      OBVIOUS
    <3> HIDE DEF S
    <3>. QED
      BY <1>6, <3>1, FS_Subset
  <2>6. Place(query, walk, i) = 1 + Cardinality(S)
    BY Zenon DEF Place, G
  <2>7. Place(query, items, order[i]) = 1 + Cardinality(T)
    BY Zenon DEF Place, F
  <2> HIDE DEF S, T
  <2>8. Cardinality(T) = Cardinality(S)
    BY <1>1, <2>3, <2>4, <2>5, Permuted
  <2>. QED
    BY <2>1, <2>6, <2>7, <2>8, Zenon
<1>9. /\ Cardinality(F) \in Nat
      /\ \A a \in F : Place(query, items, a) \in 1..Cardinality(F)
      /\ \A a, b \in F :
            Before(query, items[a], items[b]) => Place(query, items, a) < Place(query, items, b)
      /\ \A k \in 1..Cardinality(F) :
            \E a \in F : Place(query, items, a) = k /\ Sorted(query, items)[k] = items[a]
      /\ Sorted(query, items) \in [1..Cardinality(F) -> {items[i] : i \in F}]
  <2>1. Sorts(query, items)
    BY SortingSorts
  <2>. QED
    BY <2>1, Zenon DEF Sorts, F
<1>10. /\ \A k \in 1..Cardinality(G) :
            \E a \in G : Place(query, walk, a) = k /\ Sorted(query, walk)[k] = walk[a]
       /\ Sorted(query, walk) \in [1..Cardinality(G) -> {walk[i] : i \in G}]
  <2>1. Sorts(query, walk)
    BY <1>4, SortingSorts
  <2>. QED
    BY <2>1, Zenon DEF Sorts, G
<1>11. \A a, b \in F : Place(query, items, a) = Place(query, items, b) => a = b
  <2> TAKE a, b \in F
  <2>1. a = b \/ Before(query, items[a], items[b]) \/ Before(query, items[b], items[a])
    BY <1>5, BeforeDecides
  <2>2. Place(query, items, a) \in Int /\ Place(query, items, b) \in Int
    BY <1>9
  <2>3. /\ Before(query, items[a], items[b]) => Place(query, items, a) < Place(query, items, b)
        /\ Before(query, items[b], items[a]) => Place(query, items, b) < Place(query, items, a)
    BY <1>9, Zenon
  <2>. QED
    BY <2>1, <2>2, <2>3
<1>12. \A k \in 1..Cardinality(F) : Sorted(query, walk)[k] = Sorted(query, items)[k]
  <2> TAKE k \in 1..Cardinality(F)
  <2>1. PICK a \in F : Place(query, items, a) = k /\ Sorted(query, items)[k] = items[a]
    BY <1>9
  <2>2. PICK b \in G : Place(query, walk, b) = k /\ Sorted(query, walk)[k] = walk[b]
    BY <1>7, <1>10
  <2>3. order[b] = a
    BY <1>8, <1>11, <2>1, <2>2
  <2>4. walk[b] = items[order[b]]
    BY <1>3, <1>5
  <2>. QED
    BY <2>1, <2>2, <2>3, <2>4, Zenon
<1>13. Sorted(query, walk) = Sorted(query, items)
  BY <1>7, <1>9, <1>10, <1>12
<1>14. Search(query, walk) = Search(query, items)
  BY <1>13, Zenon DEF Search
<1>. QED
  BY <1>14, Zenon DEF walk

-----------------------------------------------------------------------------
(* The search, step by step *)

\* The request and the index it is searched in.
Asked ==
    /\ snapshot \in Index
    /\ request \in Request
    /\ \A i \in DOMAIN snapshot : Len(snapshot[i].match) = request.tokens

\* What is known at each point of a search: its hits are those of the index it read, the
\* frame is theirs, and the answer is what decode_response makes of the frame.
SearchInv ==
    /\ Asked
    /\ point \in {"sent", "refused", "decoded", "found", "closed", "answered", "received"}
    /\ point = "refused" => request.limit > RequestLimit
    /\ point \in {"found", "closed", "answered", "received"} => hits = Search(request, snapshot)
    /\ point = "closed" => Len(EncodeHits(hits)) > MaxFrame
    /\ point \in {"answered", "received"} => frame = EncodeHits(hits)
    /\ point = "received" => answer = DecodeHits(frame)

\* A request meets an index as the lemmas on the ranking want it.
LEMMA AskedMeets ==
    ASSUME Asked
    PROVE  /\ request \in Query /\ MeetsAll(request, snapshot)
           /\ \A i \in DOMAIN snapshot :
                 Len(snapshot[i].name) <= MaxName /\ Len(snapshot[i].path) <= MaxPath
<1>1. request \in Query
  BY SearchAssumption DEF Asked, Query
<1>2. snapshot \in Seq(Item)
  BY SearchAssumption DEF Asked
<1>3. Item \subseteq Listed
  BY SearchAssumption, Zenon DEF Listed
<1>4. snapshot \in Seq(Listed) /\ \A i \in DOMAIN snapshot : snapshot[i] \in Item
  BY <1>2, <1>3
<1>5. \A i \in DOMAIN snapshot : Meets(request, snapshot[i])
  BY <1>1, <1>3, <1>4, Zenon DEF Meets, Asked
<1>6. \A i, j \in DOMAIN snapshot : snapshot[i].rank = snapshot[j].rank => i = j
  BY SearchAssumption, Zenon DEF Asked
<1>7. MeetsAll(request, snapshot)
  BY <1>4, <1>5, <1>6, Zenon DEF MeetsAll
<1>8. \A item \in Item : Len(item.name) <= MaxName /\ Len(item.path) <= MaxPath
  BY SearchAssumption, Zenon
<1>. QED
  BY <1>1, <1>4, <1>7, <1>8, Zenon

\* The hits are items of the index, and no more than the request takes.
LEMMA HitsAreListed ==
    ASSUME Asked, hits = Search(request, snapshot)
    PROVE  /\ hits \in Seq(Listed) /\ Len(hits) <= request.limit
           /\ \A k \in 1..Len(hits) :
                 Len(hits[k].name) <= MaxName /\ Len(hits[k].path) <= MaxPath
<1>1. Takes(request, snapshot)
  BY AskedMeets, SearchTakes, Zenon
<1> DEFINE I == {snapshot[i] : i \in Found(request, snapshot)}
<1>2. hits \in Seq(I) /\ Len(hits) <= request.limit
  BY <1>1, Zenon DEF Takes
<1>3. \A item \in I : /\ item \in Listed
                      /\ Len(item.name) <= MaxName /\ Len(item.path) <= MaxPath
  <2>1. \A i \in Found(request, snapshot) : i \in DOMAIN snapshot
    BY DEF Found
  <2>2. \A i \in DOMAIN snapshot : snapshot[i] \in Listed
    BY AskedMeets, Zenon DEF MeetsAll, Meets
  <2>. QED
    BY <2>1, <2>2, AskedMeets, Zenon
<1> HIDE DEF I
<1>4. \A k \in 1..Len(hits) : hits[k] \in I
  BY <1>2
<1>5. hits \in Seq(Listed)
  BY <1>2, <1>3
<1>. QED
  BY <1>2, <1>3, <1>4, <1>5, Zenon

\* So many hits, with names and paths as long as they may be, fit into a frame.
LEMMA UiHitsFit ==
    ASSUME Asked, hits = Search(request, snapshot), request.limit = UiLimit
    PROVE  ~(Len(EncodeHits(hits)) > MaxFrame)
<1>1. /\ hits \in Seq(Listed)
      /\ \A k \in 1..Len(hits) : Len(hits[k].name) <= MaxName /\ Len(hits[k].path) <= MaxPath
  BY HitsAreListed, Zenon
<1>. PICK n \in Nat : n = Len(hits)
  BY <1>1
<1>. PICK W \in Nat : W = MaxName
  BY SearchAssumption
<1>. PICK X \in Nat : X = MaxPath
  BY SearchAssumption
<1>2. /\ Len(EncodeHits(hits)) \in Nat
      /\ Len(EncodeHits(hits)) <= 1 + Len(hits) * (4 + 3 * MaxName + 3 * MaxPath)
  <2>1. MaxName \in Nat /\ MaxPath \in Nat
    BY SearchAssumption
  <2>. QED
    BY <1>1, <2>1, FrameLength, Zenon
<1>. PICK size \in Nat : size = Len(EncodeHits(hits))
  BY <1>2
<1>3. n <= UiLimit
  BY HitsAreListed
<1>. PICK U \in Nat : U = 4 + 3 * W + 3 * X
  OBVIOUS
<1>4. UiLimit \in Nat /\ MaxFrame \in Nat /\ 1 + UiLimit * U <= MaxFrame
  BY SearchAssumption
<1>5. \A a, b \in Nat : a <= b => a * U <= b * U
  <2> SUFFICES ASSUME NEW a \in Nat, NEW b \in Nat, a <= b
               PROVE  a * U <= b * U
    OBVIOUS
  <2>1. PICK d \in Nat : b = a + d
    <3>1. b - a \in Nat /\ b = a + (b - a)
      OBVIOUS
    <3>. QED
      BY <3>1
  <2>2. (a + d) * U = a * U + d * U /\ d * U \in Nat /\ a * U \in Nat
    OBVIOUS
  <2>. QED
    BY <2>1, <2>2
<1>6. n * U <= UiLimit * U
  BY <1>3, <1>4, <1>5
<1>7. size <= 1 + n * U
  BY <1>2
<1>8. n * U \in Nat /\ UiLimit * U \in Nat
  BY <1>4
<1>9. size <= MaxFrame
  BY <1>4, <1>6, <1>7, <1>8
<1>. QED
  BY <1>4, <1>9

\* A search starts with the invariant.
LEMMA SearchStarts ==
    ASSUME SearchInit
    PROVE  SearchInv
BY Zenon DEF SearchInit, SearchInv, Asked

\* Every step of a search keeps it.
LEMMA SearchSteps ==
    ASSUME SearchInv, [SearchNext]_searchVars
    PROVE  SearchInv'
<1> USE DEF SearchInv
<1>1. CASE DecodeRequest
  BY <1>1 DEF DecodeRequest, Asked
<1>2. CASE SearchIndex
  BY <1>2, Zenon DEF SearchIndex, Asked
<1>3. CASE WriteFrame
  BY <1>3 DEF WriteFrame, Asked
<1>4. CASE ReadAnswer
  BY <1>4, Zenon DEF ReadAnswer, Asked
<1>5. CASE UNCHANGED searchVars
  BY <1>5, Zenon DEF searchVars, Asked
<1>. QED
  BY <1>1, <1>2, <1>3, <1>4, <1>5 DEF SearchNext

\* The invariant of a search, for every index and request.
THEOREM SearchInvariant == SearchSpec => []SearchInv
<1>1. SearchInit => SearchInv
  BY SearchStarts
<1>2. SearchInv /\ [SearchNext]_searchVars => SearchInv'
  BY SearchSteps
<1>. QED
  BY <1>1, <1>2, PTL DEF SearchSpec

\* A better match comes first, among what is not hidden, whatever the bonus for
\* directories adds (ruyiseek-query/src/lib.rs:84-86).
THEOREM BetterMatchesRankFirst == SearchSpec => []BetterMatchRanksFirst
<1>1. SearchInv => BetterMatchRanksFirst
  <2> SUFFICES ASSUME SearchInv, point = "found", request.tokens = 1, ~request.capitals,
                      NEW i \in DOMAIN hits, NEW j \in DOMAIN hits, i < j,
                      ~hits[i].hidden, ~hits[j].hidden
               PROVE  RankOf(hits[i].match[1]) <= RankOf(hits[j].match[1])
    BY Zenon DEF BetterMatchRanksFirst
  <2>1. hits = Search(request, snapshot) /\ Asked
    BY DEF SearchInv
  <2>2. request \in Query /\ MeetsAll(request, snapshot)
    BY <2>1, AskedMeets
  <2>. QED
    BY <2>1, <2>2, BetterHitsFirst, Zenon
<1>. QED
  BY <1>1, SearchInvariant, PTL

\* No other order of the walk gives another answer, whatever the limit cuts off.
THEOREM NoWalkMatters == SearchSpec => []WalkOrderDoesNotMatter
<1>1. SearchInv => WalkOrderDoesNotMatter
  <2> SUFFICES ASSUME SearchInv, point = "found",
                      NEW order \in Bijection(DOMAIN snapshot, DOMAIN snapshot)
               PROVE  hits = Search(request, [i \in DOMAIN snapshot |-> snapshot[order[i]]])
    BY Zenon DEF WalkOrderDoesNotMatter
  <2>1. hits = Search(request, snapshot) /\ Asked
    BY DEF SearchInv
  <2>2. request \in Query /\ MeetsAll(request, snapshot)
    BY <2>1, AskedMeets
  <2>3. Search(request, [i \in DOMAIN snapshot |-> snapshot[order[i]]])
          = Search(request, snapshot)
    BY <2>2, AnotherWalk, Zenon
  <2>. QED
    BY <2>1, <2>3, Zenon
<1>. QED
  BY <1>1, SearchInvariant, PTL

\* The interface gets its hits as the engine found them, whatever bytes are in their
\* names: its limit is taken, the frame is never too long, and it decodes to the hits.
THEOREM UiAlwaysGetsTheHits == SearchSpec => []UiGetsTheHits
<1>1. SearchInv => UiGetsTheHits
  <2> SUFFICES ASSUME SearchInv, point \in {"refused", "closed", "received"},
                      request.limit = UiLimit
               PROVE  answer = {[i \in DOMAIN hits |-> Shown(hits[i])]}
    BY Zenon DEF UiGetsTheHits
  <2>1. Asked
    BY DEF SearchInv
  <2>2. point # "refused"
    BY SearchAssumption DEF SearchInv
  <2>3. hits = Search(request, snapshot)
    BY <2>2 DEF SearchInv
  <2>4. point # "closed"
    BY <2>1, <2>3, UiHitsFit DEF SearchInv
  <2>5. answer = DecodeHits(EncodeHits(hits))
    BY <2>2, <2>4 DEF SearchInv
  <2>6. hits \in Seq(Listed)
    BY <2>1, <2>3, HitsAreListed, Zenon
  <2>7. DecodeHits(EncodeHits(hits)) = {[i \in DOMAIN hits |-> Shown(hits[i])]}
    BY <2>6, AnswerComesBack
  <2>. QED
    BY <2>5, <2>7, Zenon
<1>. QED
  BY <1>1, SearchInvariant, PTL

=============================================================================
