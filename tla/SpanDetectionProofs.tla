-------------------------- MODULE SpanDetectionProofs --------------------------
(***************************************************************************)
(* Lemmas about the operators of SpanDetection, for lines of any length.   *)
(***************************************************************************)
EXTENDS SpanDetection, SequenceTheorems, FiniteSetTheorems, WellFoundedInduction, TLAPS

-----------------------------------------------------------------------------
(* Numbers and recursive functions.                                        *)

\* A set of natural numbers that is not empty has a least element.
LEMMA LeastOf ==
    ASSUME NEW T, T \subseteq Nat, T # {}
    PROVE  Min(T) \in T /\ \A y \in T : Min(T) <= y
<1> DEFINE R == {p \in Nat \X Nat : p[1] < p[2]}
<1>1. IsWellFoundedOn(R, Nat)
  BY NatLessThanWellFounded DEF OpToRel
<1>2. PICK x \in T : \A y \in T : ~ (<<y, x>> \in R)
  <2> HIDE DEF R
  <2> QED BY <1>1, WFMin
<1>3. ASSUME NEW y \in T
      PROVE  x <= y
  <2>1. x \in Nat /\ y \in Nat
    OBVIOUS
  <2>2. ~ (y < x)
    BY <1>2, <2>1
  <2> QED BY <2>1, <2>2
<1>4. \E m \in T : \A y \in T : m <= y
  BY <1>3
<1> QED
  BY <1>4 DEF Min

\* One with an upper bound has a greatest.
LEMMA GreatestOf ==
    ASSUME NEW n \in Nat, NEW T, T \subseteq 0 .. n, T # {}
    PROVE  Max(T) \in T /\ \A y \in T : y <= Max(T)
<1> DEFINE D == {n - i : i \in T}
<1>1. \A i \in T : i \in Nat /\ n - i \in Nat
  OBVIOUS
<1>2. D \subseteq Nat /\ D # {}
  BY <1>1
<1>3. PICK m \in D : \A y \in D : m <= y
  <2> HIDE DEF D
  <2> QED BY <1>2, LeastOf
<1>4. PICK x \in T : m = n - x
  OBVIOUS
<1>5. \A y \in T : n - x <= n - y
  BY <1>3, <1>4
<1>6. \A y \in T : y <= x
  BY <1>1, <1>5
<1>7. \E x0 \in T : \A y \in T : x0 >= y
  BY <1>1, <1>6
<1>8. Max(T) \in T /\ \A y \in T : Max(T) >= y
  BY <1>7 DEF Max
<1> QED
  BY <1>1, <1>8

\* What holds for the first number, and for the next one whenever it holds for
\* one, holds for all.
LEMMA StepByStep ==
    ASSUME NEW lo \in Nat, NEW hi \in Nat, NEW S,
           lo \in S, \A n \in lo .. hi - 1 : n \in S => n + 1 \in S
    PROVE  \A n \in lo .. hi : n \in S
<1> SUFFICES ASSUME {n \in lo .. hi : n \notin S} # {} PROVE FALSE
  OBVIOUS
<1> DEFINE T == {n \in lo .. hi : n \notin S}
<1>1. T \subseteq Nat /\ T # {}
  OBVIOUS
<1>2. PICK k \in T : \A y \in T : k <= y
  <2> HIDE DEF T
  <2> QED BY <1>1, LeastOf
<1>3. k \in lo .. hi /\ k # lo
  OBVIOUS
<1>4. k - 1 \in lo .. hi - 1 /\ ~ (k <= k - 1)
  BY <1>3
<1>5. k - 1 \in S
  BY <1>2, <1>4
<1> QED
  BY <1>3, <1>4, <1>5

\* A function that starts at a and goes on by a step.
Steps(T, N) == [T \X (1 .. N) -> T]
Runs(g, T, N, a, step) ==
    /\ g \in [0 .. N -> T]
    /\ g[0] = a
    /\ \A n \in 1 .. N : g[n] = step[<<g[n - 1], n>>]

\* There is one.
LEMMA Recursion ==
    ASSUME NEW T, NEW N \in Nat, NEW a \in T, NEW step \in Steps(T, N)
    PROVE  \E g : Runs(g, T, N, a, step)
<1>s. step \in [T \X (1 .. N) -> T]
  BY DEF Steps
<1> DEFINE IsUpTo(g, k) == /\ g \in [0 .. k -> T]
                           /\ g[0] = a
                           /\ \A n \in 1 .. k : g[n] = step[<<g[n - 1], n>>]
           S == {k \in 0 .. N : \E g : IsUpTo(g, k)}
<1>1. 0 \in S
  <2> DEFINE g == [n \in 0 .. 0 |-> a]
  <2>1. g \in [0 .. 0 -> T] /\ g[0] = a /\ 1 .. 0 = {}
    OBVIOUS
  <2>2. \E h : IsUpTo(h, 0)
    BY <2>1
  <2> HIDE DEF IsUpTo
  <2> QED BY <2>2
<1>2. ASSUME NEW k \in 0 .. N - 1, k \in S
      PROVE  k + 1 \in S
  <2>1. PICK g : IsUpTo(g, k)
    BY <1>2
  <2> DEFINE x == step[<<g[k], k + 1>>]
  <2>2. g[k] \in T /\ k + 1 \in 1 .. N
    BY <2>1
  <2>3. x \in T
    BY <2>2, <1>s
  <2> HIDE DEF x
  <2> DEFINE f == [n \in 0 .. k + 1 |-> IF n = k + 1 THEN x ELSE g[n]]
  <2>4. \A n \in 0 .. k : f[n] = g[n] /\ g[n] \in T
    BY <2>1
  <2>5. f \in [0 .. k + 1 -> T] /\ f[k + 1] = x /\ f[0] = a
    BY <2>1, <2>3, <2>4
  <2>6. ASSUME NEW n \in 1 .. k + 1
        PROVE  f[n] = step[<<f[n - 1], n>>]
    <3>1. CASE n = k + 1
      <4>1. n - 1 = k /\ f[n - 1] = g[k]
        BY <3>1, <2>4
      <4> QED BY <3>1, <4>1, <2>5 DEF x
    <3>2. CASE n \in 1 .. k
      BY <3>2, <2>1, <2>4
    <3> QED BY <3>1, <3>2
  <2> HIDE DEF f
  <2>7. IsUpTo(f, k + 1)
    BY <2>5, <2>6
  <2> QED BY <2>7
<1>3. \A n \in 0 .. N : n \in S
  <2> HIDE DEF S
  <2> QED BY <1>1, <1>2, StepByStep
<1>4. N \in S
  BY <1>3
<1> QED
  BY <1>4 DEF Runs

\* FlattenSeq joins the members of a sequence one after the other.
LEMMA Flattened ==
    ASSUME NEW E, NEW q \in Seq(Seq(E))
    PROVE  \E flat \in [0 .. Len(q) -> Seq(E)] :
               /\ flat[0] = <<>>
               /\ \A i \in 1 .. Len(q) : flat[i] = flat[i - 1] \o q[i]
               /\ FlattenSeq(q) = flat[Len(q)]
<1> DEFINE N == Len(q)
           join(g) == [i \in 1 .. N |-> IF i = 1 THEN q[i] ELSE g[i - 1] \o q[i]]
           joined == CHOOSE g : g = join(g)
<1>n. N \in Nat /\ (\A i \in 1 .. N : q[i] \in Seq(E)) /\ <<>> \in Seq(E)
  OBVIOUS
<1>1. CASE N = 0
  <2>1. FlattenSeq(q) = <<>>
    BY <1>1 DEF FlattenSeq
  <2> DEFINE flat == [i \in 0 .. 0 |-> <<>>]
  <2>2. flat \in [0 .. N -> Seq(E)] /\ flat[0] = <<>> /\ 1 .. N = {}
    BY <1>1, <1>n
  <2> QED BY <2>1, <2>2, <1>1
<1>2. CASE N > 0
  <2>1. FlattenSeq(q) = joined[N]
    BY <1>2 DEF FlattenSeq
  <2> DEFINE step == [x \in Seq(E) \X (1 .. N) |-> x[1] \o q[x[2]]]
  <2>2. step \in [Seq(E) \X (1 .. N) -> Seq(E)]
    BY <1>n
  <2> HIDE DEF N
  <2>3. PICK g \in [0 .. N -> Seq(E)] :
            g[0] = <<>> /\ \A n \in 1 .. N : g[n] = step[<<g[n - 1], n>>]
    <3>1. N \in Nat /\ <<>> \in Seq(E)
      BY <1>n
    <3> HIDE DEF step
    <3>2. step \in Steps(Seq(E), N)
      BY <2>2 DEF Steps
    <3> HIDE DEF step
    <3>3. \E g : Runs(g, Seq(E), N, <<>>, step)
      BY <3>1, <3>2, Recursion
    <3> QED BY <3>3 DEF Runs
  <2>4. \A n \in 1 .. N : g[n - 1] \in Seq(E) /\ g[n] = g[n - 1] \o q[n]
    <3>1. \A n \in 1 .. N : n - 1 \in 0 .. N
      BY <1>n
    <3> QED BY <2>3, <3>1
  <2>5. g[1] = q[1]
    <3>1. 1 \in 1 .. N /\ 1 - 1 = 0
      BY <1>n, <1>2
    <3>2. g[1 - 1] = <<>>
      BY <3>1, <2>3
    <3>3. g[1] = g[1 - 1] \o q[1] /\ q[1] \in Seq(E)
      BY <3>1, <2>4, <1>n
    <3>4. <<>> \o q[1] = q[1]
      BY <3>3
    <3> QED BY <3>2, <3>3, <3>4
  <2> DEFINE h == [i \in 1 .. N |-> g[i]]
  <2>6. \A i \in 1 .. N : h[i] = IF i = 1 THEN q[i] ELSE h[i - 1] \o q[i]
    <3> SUFFICES ASSUME NEW i \in 1 .. N PROVE h[i] = IF i = 1 THEN q[i] ELSE h[i - 1] \o q[i]
      OBVIOUS
    <3>1. CASE i = 1
      BY <3>1, <2>5
    <3>2. CASE i # 1
      <4>1. i - 1 \in 1 .. N
        BY <3>2, <1>n
      <4> QED BY <3>2, <4>1, <2>4
    <3> QED BY <3>1, <3>2
  <2>7. h = join(h)
    BY <2>6
  <2>8. joined = join(joined)
    <3> HIDE DEF h, join
    <3> QED BY <2>7
  <2> HIDE DEF joined
  <2>9. \A i \in 1 .. N : joined[i] = IF i = 1 THEN q[i] ELSE joined[i - 1] \o q[i]
    BY <2>8
  <2>10. \A i \in 1 .. N : joined[i] = g[i]
    <3> DEFINE S == {i \in 1 .. N : joined[i] = g[i]}
    <3>1. 1 \in S
      BY <2>5, <2>9, <1>2, <1>n
    <3>2. ASSUME NEW i \in 1 .. N - 1, i \in S
          PROVE  i + 1 \in S
      <4>1. i + 1 \in 1 .. N /\ i + 1 # 1 /\ (i + 1) - 1 = i
        BY <1>n
      <4>2. joined[i + 1] = joined[i] \o q[i + 1]
        BY <4>1, <2>9
      <4>3. g[i + 1] = g[i] \o q[i + 1]
        BY <4>1, <2>4
      <4> QED BY <3>2, <4>1, <4>2, <4>3
    <3> HIDE DEF S
    <3>3. \A i \in 1 .. N : i \in S
      BY <3>1, <3>2, <1>n, StepByStep
    <3> QED BY <3>3 DEF S
  <2>11. FlattenSeq(q) = g[N]
    BY <2>1, <2>10, <1>2, <1>n
  <2> QED BY <2>3, <2>4, <2>11 DEF N
<1>3. N = 0 \/ N > 0
  BY <1>n
<1> QED
  BY <1>1, <1>2, <1>3

-----------------------------------------------------------------------------
(* Parts of a line.                                                        *)

\* The positions of S up to N, from left to right.
Picks(p, N, S) ==
    /\ p \in Seq(1 .. N)
    /\ \A i, j \in 1 .. Len(p) : i < j => p[i] < p[j]
    /\ \A i \in 1 .. N : i \in S <=> \E n \in 1 .. Len(p) : p[n] = i

\* One more position.
LEMMA PicksNext ==
    ASSUME NEW k \in Nat, NEW S, NEW p, Picks(p, k, S)
    PROVE  /\ k + 1 \in S => Picks(Append(p, k + 1), k + 1, S)
           /\ k + 1 \notin S => Picks(p, k + 1, S)
<1>1. p \in Seq(1 .. k) /\ Len(p) \in Nat /\ p \in Seq(1 .. k + 1)
  <2>1. p \in Seq(1 .. k)
    BY DEF Picks
  <2>2. 1 .. k \subseteq 1 .. k + 1
    OBVIOUS
  <2> QED BY <2>1, <2>2, SeqMonotonic
<1>2. \A n \in 1 .. Len(p) : p[n] \in 1 .. k
  BY <1>1
<1>3. ASSUME k + 1 \in S
      PROVE  Picks(Append(p, k + 1), k + 1, S)
  <2> DEFINE r == Append(p, k + 1)
  <2>1. /\ r \in Seq(1 .. k + 1)
        /\ Len(r) = Len(p) + 1
        /\ \A n \in 1 .. Len(p) : r[n] = p[n]
        /\ r[Len(p) + 1] = k + 1
    BY <1>1
  <2> HIDE DEF r
  <2>2. ASSUME NEW i \in 1 .. Len(r), NEW j \in 1 .. Len(r), i < j
        PROVE  r[i] < r[j]
    <3>1. i \in 1 .. Len(p) /\ r[i] = p[i] /\ p[i] < k + 1
      BY <2>1, <2>2, <1>1, <1>2
    <3>2. CASE j = Len(p) + 1
      BY <3>1, <3>2, <2>1
    <3>3. CASE j \in 1 .. Len(p)
      BY <3>1, <3>3, <2>1, <2>2 DEF Picks
    <3> QED BY <3>2, <3>3, <2>1, <1>1
  <2>3. ASSUME NEW i \in 1 .. k + 1
        PROVE  i \in S <=> \E n \in 1 .. Len(r) : r[n] = i
    <3>1. CASE i = k + 1
      <4>1. Len(p) + 1 \in 1 .. Len(r)
        BY <2>1, <1>1
      <4> QED BY <4>1, <3>1, <2>1, <1>3
    <3>2. CASE i \in 1 .. k
      <4>1. i \in S <=> \E n \in 1 .. Len(p) : p[n] = i
        BY <3>2 DEF Picks
      <4>2. ASSUME NEW n \in 1 .. Len(r), r[n] = i
            PROVE  n \in 1 .. Len(p) /\ p[n] = i
        <5>1. i # k + 1
          BY <3>2
        <5>2. n # Len(p) + 1
          BY <5>1, <4>2, <2>1
        <5>3. n \in 1 .. Len(p)
          BY <5>2, <2>1, <1>1
        <5> QED BY <5>3, <4>2, <2>1
      <4>3. \A n \in 1 .. Len(p) : n \in 1 .. Len(r) /\ r[n] = p[n]
        BY <2>1, <1>1
      <4> QED BY <4>1, <4>2, <4>3
    <3> QED BY <3>1, <3>2
  <2>4. Picks(r, k + 1, S)
    BY <2>1, <2>2, <2>3 DEF Picks
  <2> QED BY <2>4 DEF r
<1>4. ASSUME k + 1 \notin S
      PROVE  Picks(p, k + 1, S)
  <2>1. ASSUME NEW i \in 1 .. k + 1
        PROVE  i \in S <=> \E n \in 1 .. Len(p) : p[n] = i
    <3>1. CASE i = k + 1
      BY <3>1, <1>2, <1>4
    <3>2. CASE i \in 1 .. k
      BY <3>2 DEF Picks
    <3> QED BY <3>1, <3>2
  <2> QED BY <1>1, <2>1 DEF Picks
<1> QED
  BY <1>3, <1>4

\* What Chosen takes from a sequence.
LEMMA ChosenCells ==
    ASSUME NEW E, NEW t \in Seq(E), NEW S
    PROVE  /\ Chosen(t, S) \in Seq(E)
           /\ \E p : /\ Picks(p, Len(t), S)
                     /\ Len(Chosen(t, S)) = Len(p)
                     /\ \A n \in 1 .. Len(p) : Chosen(t, S)[n] = t[p[n]]
<1> DEFINE N == Len(t)
           q == [i \in DOMAIN t |-> IF i \in S THEN <<t[i]>> ELSE <<>>]
<1>1. N \in Nat /\ DOMAIN t = 1 .. N /\ \A i \in 1 .. N : t[i] \in E
  OBVIOUS
<1>2. q \in Seq(Seq(E)) /\ Len(q) = N
  <2>1. q = [i \in 1 .. N |-> IF i \in S THEN <<t[i]>> ELSE <<>>]
    BY <1>1
  <2>2. \A i \in 1 .. N : (IF i \in S THEN <<t[i]>> ELSE <<>>) \in Seq(E)
    BY <1>1
  <2> HIDE DEF N
  <2> QED BY <2>1, <2>2, <1>1
<1>3. PICK flat \in [0 .. N -> Seq(E)] :
          /\ flat[0] = <<>>
          /\ \A i \in 1 .. N : flat[i] = flat[i - 1] \o q[i]
          /\ FlattenSeq(q) = flat[N]
  <2>1. \E flat \in [0 .. Len(q) -> Seq(E)] :
            /\ flat[0] = <<>>
            /\ \A i \in 1 .. Len(q) : flat[i] = flat[i - 1] \o q[i]
            /\ FlattenSeq(q) = flat[Len(q)]
    <3> HIDE DEF q
    <3> QED BY <1>2, Flattened
  <2> HIDE DEF q
  <2> QED BY <2>1, <1>2
<1>q. \A i \in 1 .. N : q[i] = IF i \in S THEN <<t[i]>> ELSE <<>>
  BY <1>1
<1>c. Chosen(t, S) = flat[N]
  BY <1>3 DEF Chosen
<1> HIDE DEF q
<1> DEFINE Part(k, p) == /\ Picks(p, k, S)
                         /\ Len(flat[k]) = Len(p)
                         /\ \A n \in 1 .. Len(p) : flat[k][n] = t[p[n]]
           G == {k \in 0 .. N : \E p : Part(k, p)}
<1>4. 0 \in G
  <2>1. Picks(<<>>, 0, S)
    BY DEF Picks
  <2>2. Part(0, <<>>)
    BY <2>1, <1>3
  <2> QED BY <2>2, <1>1
<1>5. ASSUME NEW k \in 0 .. N - 1, k \in G
      PROVE  k + 1 \in G
  <2>1. PICK p : Part(k, p)
    BY <1>5
  <2>k. k + 1 \in 1 .. N /\ (k + 1) - 1 = k /\ k \in 0 .. N /\ k \in Nat
    BY <1>1
  <2>2. flat[k + 1] = flat[k] \o q[k + 1] /\ flat[k] \in Seq(E) /\ t[k + 1] \in E
    BY <2>k, <1>3, <1>1
  <2>p. p \in Seq(1 .. k) /\ Len(p) \in Nat
    BY <2>1 DEF Picks
  <2>3. CASE k + 1 \in S
    <3> DEFINE r == Append(p, k + 1)
    <3>1. Picks(r, k + 1, S)
      BY <2>1, <2>3, <2>k, PicksNext
    <3>2. q[k + 1] = <<t[k + 1]>>
      BY <2>3, <2>k, <1>q
    <3>3. /\ Len(r) = Len(p) + 1
          /\ \A n \in 1 .. Len(p) : r[n] = p[n]
          /\ r[Len(p) + 1] = k + 1
      BY <2>p
    <3>4. Len(flat[k]) = Len(p) /\ \A n \in 1 .. Len(p) : flat[k][n] = t[p[n]]
      BY <2>1
    <3>5. /\ Len(flat[k + 1]) = Len(p) + 1
          /\ \A n \in 1 .. Len(p) : flat[k + 1][n] = flat[k][n]
          /\ flat[k + 1][Len(p) + 1] = t[k + 1]
      <4>1. flat[k + 1] = flat[k] \o <<t[k + 1]>>
        BY <3>2, <2>2
      <4>2. flat[k + 1] = Append(flat[k], t[k + 1])
        BY <4>1, <2>2, AppendIsConcat
      <4> DEFINE x == t[k + 1]
                 before == flat[k]
      <4>3. before \in Seq(E) /\ x \in E /\ Len(before) = Len(p)
        BY <2>2, <3>4
      <4> HIDE DEF x, before
      <4>4. LET s == Append(before, x)
            IN  /\ Len(s) = Len(p) + 1
                /\ \A n \in 1 .. Len(p) : s[n] = before[n]
                /\ s[Len(p) + 1] = x
        BY <4>3, AppendProperties
      <4> QED BY <4>2, <4>4 DEF x, before
    <3> HIDE DEF r
    <3>6. \A n \in 1 .. Len(r) : flat[k + 1][n] = t[r[n]]
      <4> SUFFICES ASSUME NEW n \in 1 .. Len(r) PROVE flat[k + 1][n] = t[r[n]]
        OBVIOUS
      <4>1. n \in 1 .. Len(p) \/ n = Len(p) + 1
        BY <3>3, <2>p
      <4> QED BY <4>1, <3>3, <3>4, <3>5
    <3>7. Part(k + 1, r)
      BY <3>1, <3>3, <3>5, <3>6
    <3> QED BY <3>7, <2>k
  <2>4. CASE k + 1 \notin S
    <3>1. Picks(p, k + 1, S)
      BY <2>1, <2>4, <2>k, PicksNext
    <3>2. flat[k + 1] = flat[k]
      <4>1. q[k + 1] = <<>>
        BY <2>4, <2>k, <1>q
      <4> QED BY <4>1, <2>2, ConcatEmptySeq
    <3>3. Part(k + 1, p)
      BY <3>1, <3>2, <2>1
    <3> QED BY <3>3, <2>k
  <2> QED BY <2>3, <2>4
<1>6. N \in G
  <2>1. \A k \in 0 .. N : k \in G
    <3> HIDE DEF G
    <3> QED BY <1>1, <1>4, <1>5, StepByStep
  <2> QED BY <2>1, <1>1
<1>7. PICK p : Part(N, p)
  BY <1>6
<1> QED
  BY <1>1, <1>3, <1>7, <1>c

\* A position that is picked is one of S.
LEMMA PickedIsIn ==
    ASSUME NEW N \in Nat, NEW S, NEW p, Picks(p, N, S)
    PROVE  /\ Len(p) \in Nat
           /\ DOMAIN p = 1 .. Len(p)
           /\ \A n \in 1 .. Len(p) : p[n] \in 1 .. N /\ p[n] \in S
<1>1. p \in Seq(1 .. N)
  BY DEF Picks
<1>2. Len(p) \in Nat /\ DOMAIN p = 1 .. Len(p) /\ \A n \in 1 .. Len(p) : p[n] \in 1 .. N
  BY <1>1
<1> QED
  BY <1>2 DEF Picks

\* Positions of S that follow each other are picked one after the other.
LEMMA PicksOnward ==
    ASSUME NEW N \in Nat, NEW S, NEW p, Picks(p, N, S),
           NEW i \in 1 .. Len(p), NEW b \in Nat, p[i] <= b, b <= N,
           \A k \in p[i] .. b : k \in S
    PROVE  \A m \in 0 .. b - p[i] : i + m \in 1 .. Len(p) /\ p[i + m] = p[i] + m
<1>1. /\ Len(p) \in Nat
      /\ \A n \in 1 .. Len(p) : p[n] \in 1 .. N
  BY PickedIsIn
<1>2. \A k, l \in 1 .. Len(p) : k < l => p[k] < p[l]
  BY DEF Picks
<1> DEFINE d == b - p[i]
           M == {m \in 0 .. d : i + m \in 1 .. Len(p) /\ p[i + m] = p[i] + m}
<1>3. d \in Nat /\ p[i] \in 1 .. N
  BY <1>1
<1>4. 0 \in M
  BY <1>1, <1>3
<1>5. ASSUME NEW m \in 0 .. d - 1, m \in M
      PROVE  m + 1 \in M
  <2> DEFINE x == p[i] + m + 1
  <2>1. x \in 1 .. N /\ x \in p[i] .. b
    BY <1>3
  <2>2. PICK k \in 1 .. Len(p) : p[k] = x
    BY <2>1 DEF Picks
  <2>3. i + m \in 1 .. Len(p) /\ p[i + m] = x - 1
    BY <1>5, <1>3
  <2>4. i + m < k
    <3>1. k # i + m
      BY <2>1, <2>2, <2>3
    <3>2. ~ (k < i + m)
      BY <1>2, <2>1, <2>2, <2>3
    <3> QED BY <3>1, <3>2, <2>3, <1>1
  <2>5. i + m + 1 \in 1 .. Len(p) /\ i + m < i + m + 1 /\ i + m + 1 <= k
    BY <2>3, <2>4, <1>1
  <2>6. p[i + m] < p[i + m + 1]
    BY <2>3, <2>5, <1>2
  <2>9. p[i + m + 1] <= x
    <3>1. CASE i + m + 1 = k
      BY <3>1, <2>1, <2>2
    <3>2. CASE i + m + 1 < k
      <4>1. p[i + m + 1] < p[k]
        BY <3>2, <2>5, <1>2
      <4>2. p[i + m + 1] \in 1 .. N
        BY <2>5, <1>1
      <4> HIDE DEF x
      <4> QED BY <4>1, <4>2, <2>1, <2>2
    <3> QED BY <3>1, <3>2, <2>5, <1>1
  <2>7. p[i + m + 1] = x
    <3>1. p[i + m + 1] \in 1 .. N /\ x \in 1 .. N /\ x - 1 < p[i + m + 1]
      BY <2>1, <2>3, <2>5, <2>6, <1>1
    <3> HIDE DEF x
    <3> QED BY <3>1, <2>9
  <2>8. i + (m + 1) = i + m + 1 /\ p[i] + (m + 1) = x /\ m + 1 \in 0 .. d
    BY <1>3
  <2> QED BY <2>5, <2>7, <2>8
<1>6. \A m \in 0 .. d : m \in M
  <2> HIDE DEF M, d
  <2> QED BY <1>3, <1>4, <1>5, StepByStep
<1> QED
  BY <1>6

\* The same from the other end.
LEMMA PicksBackward ==
    ASSUME NEW N \in Nat, NEW S, NEW p, Picks(p, N, S),
           NEW i \in 1 .. Len(p), NEW a \in Nat, 1 <= a, a <= p[i],
           \A k \in a .. p[i] : k \in S
    PROVE  \A m \in 0 .. p[i] - a : i - m \in 1 .. Len(p) /\ p[i - m] = p[i] - m
<1>1. /\ Len(p) \in Nat
      /\ \A n \in 1 .. Len(p) : p[n] \in 1 .. N
  BY PickedIsIn
<1>2. \A k, l \in 1 .. Len(p) : k < l => p[k] < p[l]
  BY DEF Picks
<1>3. p[i] \in 1 .. N /\ a \in 1 .. N /\ a \in a .. p[i]
  BY <1>1
<1>4. PICK k \in 1 .. Len(p) : p[k] = a
  BY <1>3 DEF Picks
<1> DEFINE d == p[i] - a
<1>5. \A m \in 0 .. d : k + m \in 1 .. Len(p) /\ p[k + m] = a + m
  <2>1. \A l \in p[k] .. p[i] : l \in S
    BY <1>4
  <2>2. \A m \in 0 .. p[i] - p[k] : k + m \in 1 .. Len(p) /\ p[k + m] = p[k] + m
    BY <2>1, <1>3, <1>4, PicksOnward
  <2> QED BY <2>2, <1>4
<1>6. d \in 0 .. d /\ d \in Nat
  BY <1>3
<1>7. k + d = i
  <2>1. k + d \in 1 .. Len(p) /\ p[k + d] = p[i]
    <3>1. k + d \in 1 .. Len(p) /\ p[k + d] = a + d
      BY <1>5, <1>6
    <3>2. a + d = p[i]
      BY <1>3
    <3> QED BY <3>1, <3>2
  <2>2. ~ (k + d < i) /\ ~ (i < k + d)
    BY <2>1, <1>1, <1>2
  <2> HIDE DEF d
  <2> QED BY <2>1, <2>2, <1>1
<1>8. ASSUME NEW m \in 0 .. d
      PROVE  i - m \in 1 .. Len(p) /\ p[i - m] = p[i] - m
  <2>1. d - m \in 0 .. d /\ i - m = k + (d - m) /\ p[i] - m = a + (d - m)
    <3>1. d + a = p[i]
      BY <1>3
    <3>2. a \in Int /\ k \in Int /\ i \in Int /\ d \in Int /\ m \in Int /\ p[i] \in Int
      BY <1>1, <1>3, <1>6
    <3> HIDE DEF d
    <3> QED BY <3>1, <3>2, <1>6, <1>7
  <2>2. k + (d - m) \in 1 .. Len(p) /\ p[k + (d - m)] = a + (d - m)
    BY <2>1, <1>5
  <2> HIDE DEF d
  <2> QED BY <2>1, <2>2
<1> QED
  BY <1>8

\* The positions that are kept of a line, and the line made of them.
LEMMA KeptPicks ==
    ASSUME NEW t \in Seq(Cell), NEW cut
    PROVE  Picks(Kept(t, cut), Len(t), DOMAIN t \ cut)
<1> DEFINE N == Len(t)
           id == [i \in DOMAIN t |-> i]
<1>1. N \in Nat /\ DOMAIN t = 1 .. N
  OBVIOUS
<1>2. id \in Seq(1 .. N) /\ Len(id) = N /\ \A i \in 1 .. N : id[i] = i
  <2>1. id = [i \in 1 .. N |-> i]
    BY <1>1
  <2> HIDE DEF N
  <2> QED BY <2>1, <1>1
<1>3. Kept(t, cut) = Chosen(id, DOMAIN t \ cut)
  BY DEF Kept
<1> HIDE DEF id, N
<1> DEFINE S == DOMAIN t \ cut
           c == Chosen(id, S)
<1>4. /\ c \in Seq(1 .. N)
      /\ \E p : /\ Picks(p, Len(id), S)
                /\ Len(c) = Len(p)
                /\ \A n \in 1 .. Len(p) : c[n] = id[p[n]]
  <2> DEFINE E == 1 .. N
  <2>1. id \in Seq(E)
    BY <1>2
  <2> HIDE DEF E, S
  <2>2. /\ c \in Seq(E)
        /\ \E p : /\ Picks(p, Len(id), S)
                  /\ Len(c) = Len(p)
                  /\ \A n \in 1 .. Len(p) : c[n] = id[p[n]]
    BY <2>1, ChosenCells
  <2> QED BY <2>2 DEF E
<1>5. PICK p : /\ Picks(p, N, DOMAIN t \ cut)
               /\ Len(c) = Len(p)
               /\ \A n \in 1 .. Len(p) : c[n] = id[p[n]]
  BY <1>2, <1>4
<1>6. p \in Seq(1 .. N) /\ \A n \in 1 .. Len(p) : p[n] \in 1 .. N
  BY <1>1, <1>5, PickedIsIn DEF Picks
<1> HIDE DEF c
<1>7. \A n \in 1 .. Len(c) : c[n] = p[n]
  BY <1>2, <1>5, <1>6
<1>8. c = p
  BY <1>4, <1>5, <1>6, <1>7, SeqEqual
<1> QED
  BY <1>3, <1>5, <1>8 DEF c, N

LEMMA SplicedLine ==
    ASSUME NEW t \in Seq(Cell), NEW S, NEW p, Picks(p, Len(t), S)
    PROVE  /\ Spliced(t, p) \in Seq(Cell)
           /\ Len(Spliced(t, p)) = Len(p)
           /\ \A i \in 1 .. Len(p) : Spliced(t, p)[i] = t[p[i]]
<1>1. /\ Len(p) \in Nat
      /\ DOMAIN p = 1 .. Len(p)
      /\ \A n \in 1 .. Len(p) : t[p[n]] \in Cell
  BY PickedIsIn
<1>2. Spliced(t, p) = [i \in 1 .. Len(p) |-> t[p[i]]]
  BY <1>1 DEF Spliced
<1> QED
  BY <1>1, <1>2

-----------------------------------------------------------------------------
(* Sorting.                                                                *)

\* The members of D that an order R puts before x.
Below(D, R, x) == {g \in D : <<g, x>> \in R}

Orders(D, R) ==
    /\ \A x \in D : <<x, x>> \notin R
    /\ \A x, y, z \in D : <<x, y>> \in R /\ <<y, z>> \in R => <<x, z>> \in R
    /\ \A x, y \in D : x # y => <<x, y>> \in R \/ <<y, x>> \in R

\* In a finite set with a strict order, each rank is the rank of one member.
LEMMA Ranks ==
    ASSUME NEW D, IsFiniteSet(D), NEW R, Orders(D, R)
    PROVE  /\ Cardinality(D) \in Nat
           /\ \A x \in D : Cardinality(Below(D, R, x)) \in 0 .. Cardinality(D) - 1
           /\ \A x, y \in D : <<x, y>> \in R =>
                 Cardinality(Below(D, R, x)) < Cardinality(Below(D, R, y))
           /\ \A n \in 0 .. Cardinality(D) - 1 :
                 \E x \in D : Cardinality(Below(D, R, x)) = n
<1> DEFINE B(x) == Below(D, R, x)
           N == Cardinality(D)
<1>1. N \in Nat
  BY FS_CardinalityType
<1>2. ASSUME NEW x \in D
      PROVE  B(x) \subseteq D /\ x \notin B(x) /\ IsFiniteSet(B(x)) /\ Cardinality(B(x)) \in Nat
  <2>1. B(x) \subseteq D /\ x \notin B(x)
    BY DEF Below, Orders
  <2> HIDE DEF B
  <2>2. IsFiniteSet(B(x))
    BY <2>1, FS_Subset
  <2> QED BY <2>1, <2>2, FS_CardinalityType
<1>3. ASSUME NEW x \in D
      PROVE  Cardinality(B(x)) \in 0 .. N - 1
  <2> HIDE DEF B
  <2>1. Cardinality(B(x)) <= N /\ (N = Cardinality(B(x)) => D = B(x))
    BY <1>2, FS_Subset
  <2> QED BY <2>1, <1>1, <1>2
<1>4. ASSUME NEW x \in D, NEW y \in D, <<x, y>> \in R
      PROVE  Cardinality(B(x)) < Cardinality(B(y))
  <2>1. B(x) \subseteq B(y) /\ x \in B(y) /\ x \notin B(x)
    BY <1>4 DEF Below, Orders
  <2> HIDE DEF B
  <2>2. /\ Cardinality(B(x)) <= Cardinality(B(y))
        /\ Cardinality(B(y)) = Cardinality(B(x)) => B(y) = B(x)
    BY <2>1, <1>2, FS_Subset
  <2> QED BY <2>1, <2>2, <1>2
<1>5. ASSUME NEW n \in 0 .. N - 1
      PROVE  \E x \in D : Cardinality(B(x)) = n
  <2> HIDE DEF B
  <2> DEFINE rank == [x \in D |-> Cardinality(B(x))]
             I == 0 .. N - 1
  <2>1. rank \in [D -> I]
    BY <1>3
  <2>2. \A x, y \in D : rank[x] = rank[y] => x = y
    <3> SUFFICES ASSUME NEW x \in D, NEW y \in D, x # y
                 PROVE Cardinality(B(x)) # Cardinality(B(y))
      OBVIOUS
    <3>1. <<x, y>> \in R \/ <<y, x>> \in R
      BY DEF Orders
    <3> QED BY <3>1, <1>2, <1>4
  <2> HIDE DEF rank
  <2>3. rank \in Injection(D, I)
    BY <2>1, <2>2 DEF Injection, IsInjective
  <2>4. IsFiniteSet(I) /\ Cardinality(I) = N
    <3>1. 0 \in Int /\ N - 1 \in Int
      BY <1>1
    <3>2. IsFiniteSet(I) /\ Cardinality(I) = IF 0 > N - 1 THEN 0 ELSE (N - 1) - 0 + 1
      BY <3>1, FS_Interval
    <3> HIDE DEF I
    <3> QED BY <3>2, <1>1
  <2> HIDE DEF I, N
  <2>5. rank \in Surjection(D, I)
    BY <2>3, <2>4, FS_Injection DEF N
  <2>6. \E x \in D : rank[x] = n
    BY <2>5, <1>5 DEF Surjection, I
  <2> QED BY <2>6 DEF rank
<1> QED
  BY <1>1, <1>3, <1>4, <1>5

\* Spans of one type.
SpansOf(type, hits) == \A h \in hits : \E s, e \in Int : h = Span(type, s, e)

\* Sorting spans of one type keeps them all, and adds none.
LEMMA SortedHits ==
    ASSUME NEW type, NEW hits, IsFiniteSet(hits), SpansOf(type, hits)
    PROVE  /\ Sorted(hits) \in Seq(hits)
           /\ ToSet(Sorted(hits)) = hits
<1> DEFINE R == {p \in hits \X hits : p[1].s < p[2].s \/ (p[1].s = p[2].s /\ p[1].e < p[2].e)}
<1>1. \A h \in hits : h.type = type /\ h.s \in Int /\ h.e \in Int /\ h = Span(type, h.s, h.e)
  BY DEF SpansOf, Span
<1>2. \A g, h \in hits : <<g, h>> \in R <=> g.s < h.s \/ (g.s = h.s /\ g.e < h.e)
  OBVIOUS
<1> HIDE DEF R
<1>3. Orders(hits, R)
  <2>1. \A x \in hits : <<x, x>> \notin R
    BY <1>1, <1>2
  <2>2. \A x, y, z \in hits : <<x, y>> \in R /\ <<y, z>> \in R => <<x, z>> \in R
    BY <1>1, <1>2
  <2>3. \A x, y \in hits : x # y => <<x, y>> \in R \/ <<y, x>> \in R
    <3> SUFFICES ASSUME NEW x \in hits, NEW y \in hits, <<x, y>> \notin R, <<y, x>> \notin R
                 PROVE  x = y
      OBVIOUS
    <3>1. x.s = y.s /\ x.e = y.e
      BY <1>1, <1>2
    <3> QED BY <3>1, <1>1
  <2> QED BY <2>1, <2>2, <2>3 DEF Orders
<1> DEFINE N == Cardinality(hits)
<1>4. \A h \in hits :
          {g \in hits : g.s < h.s \/ (g.s = h.s /\ g.e < h.e)} = Below(hits, R, h)
  BY <1>2 DEF Below
<1>5. /\ N \in Nat
      /\ \A x \in hits : Cardinality(Below(hits, R, x)) \in 0 .. N - 1
      /\ \A x, y \in hits : <<x, y>> \in R =>
            Cardinality(Below(hits, R, x)) < Cardinality(Below(hits, R, y))
      /\ \A n \in 0 .. N - 1 : \E x \in hits : Cardinality(Below(hits, R, x)) = n
  BY <1>3, Ranks
<1> DEFINE before(h) == {g \in hits : g.s < h.s \/ (g.s = h.s /\ g.e < h.e)}
           at(n) == CHOOSE h \in hits : Cardinality(before(h)) = n - 1
<1>6. Sorted(hits) = [n \in 1 .. N |-> at(n)]
  BY DEF Sorted
<1>7. ASSUME NEW n \in 1 .. N
      PROVE  at(n) \in hits /\ Cardinality(Below(hits, R, at(n))) = n - 1
  <2>1. n - 1 \in 0 .. N - 1
    BY <1>5
  <2> HIDE DEF N
  <2>2. PICK h \in hits : Cardinality(Below(hits, R, h)) = n - 1
    BY <2>1, <1>5
  <2>3. Cardinality(before(h)) = n - 1
    BY <2>2, <1>4
  <2> HIDE DEF before
  <2>4. at(n) \in hits /\ Cardinality(before(at(n))) = n - 1
    BY <2>3
  <2> QED BY <2>4, <1>4 DEF before
<1>8. ASSUME NEW h \in hits
      PROVE  \E n \in 1 .. N : at(n) = h
  <2> DEFINE n == Cardinality(Below(hits, R, h)) + 1
  <2>1. n \in 1 .. N /\ n - 1 = Cardinality(Below(hits, R, h))
    BY <1>5
  <2>2. at(n) \in hits /\ Cardinality(Below(hits, R, at(n))) = Cardinality(Below(hits, R, h))
    BY <2>1, <1>7
  <2> HIDE DEF n, at
  <2>3. <<at(n), h>> \notin R /\ <<h, at(n)>> \notin R
    BY <2>2, <1>5
  <2>4. at(n) = h
    BY <2>2, <2>3, <1>3 DEF Orders
  <2> QED BY <2>1, <2>4
<1> HIDE DEF at, N
<1>9. Sorted(hits) \in Seq(hits) /\ DOMAIN Sorted(hits) = 1 .. N
  BY <1>5, <1>6, <1>7
<1> QED
  BY <1>6, <1>7, <1>8, <1>9 DEF ToSet

-----------------------------------------------------------------------------
(* The recognisers.                                                        *)

Types == CanonicalTypes \cup {"HIGH_ENTROPY"}

\* The spans a line of n cells can have, and those of one type.
Spans(n) == {h \in [type : Types, s : 1 .. n, e : 2 .. n + 1] : h.s < h.e}
SpansIn(type, n, hits) ==
    \A h \in hits : \E s \in 1 .. n, e \in 2 .. n + 1 : s < e /\ h = Span(type, s, e)

LEMMA OneTypeSpans ==
    ASSUME NEW type \in Types, NEW n \in Nat, NEW hits, SpansIn(type, n, hits)
    PROVE  /\ IsFiniteSet(hits)
           /\ hits \subseteq Spans(n)
           /\ Sorted(hits) \in Seq(Spans(n))
           /\ ToSet(Sorted(hits)) = hits
<1>1. hits \subseteq Spans(n) /\ SpansOf(type, hits)
  BY DEF SpansIn, Spans, SpansOf, Span
<1> DEFINE P == (1 .. n) \X (2 .. n + 1)
           T == {Span(type, x[1], x[2]) : x \in P}
           f == [x \in P |-> Span(type, x[1], x[2])]
<1>2. IsFiniteSet(P)
  <2>1. IsFiniteSet(1 .. n) /\ IsFiniteSet(2 .. n + 1)
    BY FS_Interval
  <2> QED BY <2>1, FS_Product
<1>3. f \in Surjection(P, T)
  BY DEF Surjection
<1>4. ASSUME NEW h \in hits
      PROVE  h \in T
  <2>1. PICK s \in 1 .. n, e \in 2 .. n + 1 : h = Span(type, s, e)
    BY DEF SpansIn
  <2> DEFINE x == <<s, e>>
  <2>2. x \in P /\ h = Span(type, x[1], x[2])
    BY <2>1
  <2> QED BY <2>2
<1>5. IsFiniteSet(T)
  <2> HIDE DEF P, T, f
  <2> QED BY <1>2, <1>3, FS_Surjection
<1>6. IsFiniteSet(hits)
  <2> HIDE DEF T
  <2> QED BY <1>4, <1>5, FS_Subset
<1>7. Sorted(hits) \in Seq(hits) /\ ToSet(Sorted(hits)) = hits
  BY <1>1, <1>6, SortedHits
<1>8. Sorted(hits) \in Seq(Spans(n))
  BY <1>1, <1>7, SeqMonotonic
<1> QED
  BY <1>1, <1>6, <1>7, <1>8

\* What a joined sequence has.
LEMMA ToSetJoined ==
    ASSUME NEW E, NEW a \in Seq(E), NEW b \in Seq(E)
    PROVE  a \o b \in Seq(E) /\ ToSet(a \o b) = ToSet(a) \cup ToSet(b)
<1>1. /\ a \o b \in Seq(E)
      /\ Len(a \o b) = Len(a) + Len(b)
      /\ \A i \in 1 .. Len(a) + Len(b) :
            (a \o b)[i] = IF i <= Len(a) THEN a[i] ELSE b[i - Len(a)]
  BY ConcatProperties
<1>2. Len(a) \in Nat /\ Len(b) \in Nat
  OBVIOUS
<1>3. ToSet(a \o b) = {(a \o b)[i] : i \in 1 .. Len(a) + Len(b)}
  BY <1>1 DEF ToSet
<1>4. ToSet(a) = {a[i] : i \in 1 .. Len(a)} /\ ToSet(b) = {b[i] : i \in 1 .. Len(b)}
  BY DEF ToSet
<1>5. ASSUME NEW x \in ToSet(a \o b)
      PROVE  x \in ToSet(a) \cup ToSet(b)
  <2>1. PICK i \in 1 .. Len(a) + Len(b) : x = (a \o b)[i]
    BY <1>3
  <2>2. CASE i <= Len(a)
    BY <2>1, <2>2, <1>1, <1>2, <1>4
  <2>3. CASE ~ (i <= Len(a))
    <3>1. i - Len(a) \in 1 .. Len(b) /\ x = b[i - Len(a)]
      BY <2>1, <2>3, <1>1, <1>2
    <3> QED BY <3>1, <1>4
  <2> QED BY <2>2, <2>3
<1>6. ASSUME NEW x \in ToSet(a)
      PROVE  x \in ToSet(a \o b)
  <2>1. PICK i \in 1 .. Len(a) : x = a[i]
    BY <1>4
  <2>2. i \in 1 .. Len(a) + Len(b) /\ x = (a \o b)[i]
    BY <2>1, <1>1, <1>2
  <2> QED BY <2>2, <1>3
<1>7. ASSUME NEW x \in ToSet(b)
      PROVE  x \in ToSet(a \o b)
  <2>1. PICK i \in 1 .. Len(b) : x = b[i]
    BY <1>4
  <2>2. /\ i + Len(a) \in 1 .. Len(a) + Len(b)
        /\ ~ (i + Len(a) <= Len(a))
        /\ (i + Len(a)) - Len(a) = i
    BY <1>2
  <2>3. x = (a \o b)[i + Len(a)]
    BY <2>1, <2>2, <1>1
  <2> QED BY <2>2, <2>3, <1>3
<1> QED
  BY <1>1, <1>5, <1>6, <1>7

\* A run of names: what Names looks for, and how far a run can go.
NameRun(t, i, j) ==
    i <= j /\ t[i] = "nm" /\ t[j] = "nm" /\ \A k \in i .. j : t[k] \in {"nm", "sp"}

LEMMA NamesAreRuns ==
    ASSUME NEW t \in Seq(Cell), NEW s \in Int, NEW e \in Int
    PROVE  Span("PERSON", s, e) \in Names(t) <=>
             /\ s \in 1 .. Len(t) /\ e - 1 \in 1 .. Len(t)
             /\ NameRun(t, s, e - 1)
             /\ \A i \in 1 .. s : NameRun(t, i, e - 1) => i = s
             /\ \A j \in e - 1 .. Len(t) : NameRun(t, s, j) => j = e - 1
<1> DEFINE N == Len(t)
           Maximal(i, j) == /\ NameRun(t, i, j)
                            /\ \A k \in 1 .. i : NameRun(t, k, j) => k = i
                            /\ \A k \in j .. N : NameRun(t, i, k) => k = j
<1>1. DOMAIN t = 1 .. N /\ N \in Nat
  OBVIOUS
<1>2. Names(t) = {Span("PERSON", ij[1], ij[2] + 1) :
                    ij \in {x \in (1 .. N) \X (1 .. N) : Maximal(x[1], x[2])}}
  BY <1>1 DEF Names, NameRun
<1> HIDE DEF Maximal, N
<1>3. ASSUME Span("PERSON", s, e) \in Names(t)
      PROVE  s \in 1 .. N /\ e - 1 \in 1 .. N /\ Maximal(s, e - 1)
  <2>1. PICK ij \in (1 .. N) \X (1 .. N) :
            Maximal(ij[1], ij[2]) /\ Span("PERSON", s, e) = Span("PERSON", ij[1], ij[2] + 1)
    BY <1>2, <1>3
  <2>2. s = ij[1] /\ e = ij[2] + 1 /\ ij[2] \in 1 .. N
    BY <2>1 DEF Span
  <2>3. e - 1 = ij[2]
    BY <2>2, <1>1
  <2> QED BY <2>1, <2>2, <2>3
<1>4. ASSUME s \in 1 .. N, e - 1 \in 1 .. N, Maximal(s, e - 1)
      PROVE  Span("PERSON", s, e) \in Names(t)
  <2>1. (e - 1) + 1 = e
    OBVIOUS
  <2> DEFINE ij == <<s, e - 1>>
  <2>2. ij \in (1 .. N) \X (1 .. N) /\ Maximal(ij[1], ij[2])
    BY <1>4
  <2>3. Span("PERSON", s, e) = Span("PERSON", ij[1], ij[2] + 1)
    BY <2>1
  <2> QED BY <2>2, <2>3, <1>2
<1> QED
  BY <1>3, <1>4 DEF Maximal, N

\* The addresses with @ in a line: the short ones, the long ones, the model's.
LEMMA EmailPlaces ==
    ASSUME NEW t \in Seq(Cell)
    PROVE  /\ \A j \in AtSigns(t) :
                 /\ j \in 2 .. Len(t) - 1
                 /\ t[j - 1] \in Word \cup {"ip", "ss"}
                 /\ t[j] = "at"
                 /\ t[j + 1] \in Word
           /\ \A h \in Emails(t) : \E j \in AtSigns(t) : h = Span("EMAIL", j - 1, j + 2)
           /\ \A h \in LongEmails(t) : \E j \in AtSigns(t) :
                 IsCell(t, j + 2, "lab") /\ h = Span("EMAIL", j - 1, j + 3)
           /\ NerEmails(t) \subseteq Emails(t) \cup LongEmails(t)
           /\ \A j \in AtSigns(t) : Span("EMAIL", j - 1, j + 2) \in Emails(t)
           /\ \A j \in AtSigns(t) :
                 IsCell(t, j + 2, "lab") => Span("EMAIL", j - 1, j + 3) \in LongEmails(t)
<1>1. DOMAIN t = 1 .. Len(t) /\ Len(t) \in Nat
  OBVIOUS
<1>2. \A j \in AtSigns(t) : j \in 2 .. Len(t) - 1
  BY <1>1 DEF AtSigns
<1> QED
  BY <1>2 DEF AtSigns, Emails, LongEmails, NerEmails

\* Each recogniser finds spans of one type in the line.
LEMMA Recognised ==
    ASSUME NEW t \in Seq(Cell)
    PROVE  /\ SpansIn("EMAIL", Len(t), Emails(t))
           /\ SpansIn("EMAIL", Len(t), LongEmails(t))
           /\ SpansIn("EMAIL", Len(t), NerEmails(t))
           /\ SpansIn("IP", Len(t), Addresses(t))
           /\ SpansIn("SSN", Len(t), Numbers(t))
           /\ SpansIn("PERSON", Len(t), Names(t))
           /\ SpansIn("PERSON", Len(t), Dangling(t))
           /\ SpansIn("PERSON", Len(t), Names(t) \cup Dangling(t))
<1> DEFINE N == Len(t)
<1>1. DOMAIN t = 1 .. N /\ N \in Nat
  OBVIOUS
<1>2. ASSUME NEW h \in Emails(t)
      PROVE  \E s \in 1 .. N, e \in 2 .. N + 1 : s < e /\ h = Span("EMAIL", s, e)
  <2>1. PICK j \in 2 .. N - 1 : h = Span("EMAIL", j - 1, j + 2)
    BY EmailPlaces
  <2>2. j - 1 \in 1 .. N /\ j + 2 \in 2 .. N + 1 /\ j - 1 < j + 2
    BY <1>1
  <2> QED BY <2>1, <2>2
<1>3. ASSUME NEW h \in LongEmails(t)
      PROVE  \E s \in 1 .. N, e \in 2 .. N + 1 : s < e /\ h = Span("EMAIL", s, e)
  <2>1. PICK j \in 2 .. N - 1 : IsCell(t, j + 2, "lab") /\ h = Span("EMAIL", j - 1, j + 3)
    BY EmailPlaces
  <2>2. j + 2 \in 1 .. N
    BY <2>1, <1>1 DEF IsCell
  <2>3. j - 1 \in 1 .. N /\ j + 3 \in 2 .. N + 1 /\ j - 1 < j + 3
    BY <2>2, <1>1
  <2> QED BY <2>1, <2>3
<1>4. ASSUME NEW c, NEW type, NEW h \in OneCell(t, c, type)
      PROVE  \E s \in 1 .. N, e \in 2 .. N + 1 : s < e /\ h = Span(type, s, e)
  <2>1. PICK i \in 1 .. N : h = Span(type, i, i + 1)
    BY <1>1 DEF OneCell
  <2>2. i + 1 \in 2 .. N + 1 /\ i < i + 1
    BY <1>1
  <2> QED BY <2>1, <2>2
<1>5. ASSUME NEW h \in Names(t)
      PROVE  \E s \in 1 .. N, e \in 2 .. N + 1 : s < e /\ h = Span("PERSON", s, e)
  <2>1. PICK i \in 1 .. N, j \in 1 .. N : i <= j /\ h = Span("PERSON", i, j + 1)
    BY <1>1 DEF Names
  <2>2. j + 1 \in 2 .. N + 1 /\ i < j + 1
    BY <2>1, <1>1
  <2> QED BY <2>1, <2>2
<1>6. ASSUME NEW h \in Dangling(t)
      PROVE  \E s \in 1 .. N, e \in 2 .. N + 1 : s < e /\ h = Span("PERSON", s, e)
  <2>1. PICK i \in 1 .. N : IsCell(t, i + 1, "eq") /\ h = Span("PERSON", i, i + 2)
    BY <1>1 DEF Dangling
  <2>2. i + 1 \in 1 .. N
    BY <2>1, <1>1 DEF IsCell
  <2>3. i + 2 \in 2 .. N + 1 /\ i < i + 2
    BY <2>2, <1>1
  <2> QED BY <2>1, <2>3
<1>7. NerEmails(t) \subseteq Emails(t) \cup LongEmails(t)
  BY EmailPlaces
<1> QED
  BY <1>2, <1>3, <1>4, <1>5, <1>6, <1>7 DEF SpansIn, Addresses, Numbers

LEMMA RecognisedWords ==
    ASSUME NEW t \in Seq(Cell)
    PROVE  /\ ScanEntropy(t) \in Seq(Spans(Len(t)))
           /\ ScanFlattened(t) \in Seq(Spans(Len(t)))
<1> DEFINE N == Len(t)
           Secrets == {Span("HIGH_ENTROPY", x[1], x[2] + 1) :
                         x \in {y \in (DOMAIN t) \X (DOMAIN t) :
                                  /\ Token(t, y[1], y[2])
                                  /\ \E k \in y[1] .. y[2] : t[k] = "he"}}
           People == {Span("PERSON", i, i + 1) :
                        i \in {j \in DOMAIN t : t[j] = "fu" /\ ~IsCell(t, j + 1, "at")}}
<1>1. DOMAIN t = 1 .. N /\ N \in Nat
  OBVIOUS
<1>2. SpansIn("PERSON", N, People)
  <2>1. \A i \in 1 .. N : i + 1 \in 2 .. N + 1 /\ i < i + 1
    BY <1>1
  <2> QED BY <1>1, <2>1 DEF SpansIn
<1>3. SpansIn("HIGH_ENTROPY", N, Secrets)
  <2>1. ASSUME NEW h \in Secrets
        PROVE  \E s \in 1 .. N, e \in 2 .. N + 1 : s < e /\ h = Span("HIGH_ENTROPY", s, e)
    <3>1. PICK i \in 1 .. N, j \in 1 .. N : i <= j /\ h = Span("HIGH_ENTROPY", i, j + 1)
      BY <1>1 DEF Token
    <3>2. j + 1 \in 2 .. N + 1 /\ i < j + 1
      BY <3>1, <1>1
    <3> QED BY <3>1, <3>2
  <2> HIDE DEF Secrets
  <2> QED BY <2>1 DEF SpansIn
<1>4. "HIGH_ENTROPY" \in Types /\ "PERSON" \in Types
  BY DEF Types, CanonicalTypes
<1>5. ScanEntropy(t) = Sorted(Secrets) /\ ScanFlattened(t) = Sorted(People)
  BY DEF ScanEntropy, ScanFlattened
<1> HIDE DEF Secrets, People
<1>6. Sorted(Secrets) \in Seq(Spans(N)) /\ Sorted(People) \in Seq(Spans(N))
  BY <1>1, <1>2, <1>3, <1>4, OneTypeSpans
<1> QED
  BY <1>5, <1>6

\* The regular expressions and the model find all there is of their kind.
LEMMA ScansFind ==
    ASSUME NEW t \in Seq(Cell)
    PROVE  /\ ScanRegex(t) \in Seq(Spans(Len(t)))
           /\ ScanNer(t) \in Seq(Spans(Len(t)))
           /\ ToSet(ScanRegex(t)) = Numbers(t) \cup Emails(t) \cup Addresses(t)
           /\ ToSet(ScanNer(t)) =
                Names(t) \cup Dangling(t) \cup NerEmails(t) \cup Numbers(t) \cup Addresses(t)
<1> DEFINE E == Spans(Len(t))
           P == Names(t) \cup Dangling(t)
           L == NerEmails(t)
           M == Emails(t)
           S == Numbers(t)
           A == Addresses(t)
<1>1. /\ Len(t) \in Nat
      /\ "PERSON" \in Types /\ "EMAIL" \in Types /\ "IP" \in Types /\ "SSN" \in Types
  BY DEF Types, CanonicalTypes
<1>2. /\ SpansIn("PERSON", Len(t), P)
      /\ SpansIn("EMAIL", Len(t), L)
      /\ SpansIn("EMAIL", Len(t), M)
      /\ SpansIn("SSN", Len(t), S)
      /\ SpansIn("IP", Len(t), A)
  BY Recognised
<1>3. /\ ScanRegex(t) = (Sorted(S) \o Sorted(M)) \o Sorted(A)
      /\ ScanNer(t) = ((Sorted(P) \o Sorted(L)) \o Sorted(S)) \o Sorted(A)
  BY DEF ScanRegex, ScanNer
<1> HIDE DEF P, L, M, S, A
<1>4. /\ Sorted(P) \in Seq(E) /\ ToSet(Sorted(P)) = P
      /\ Sorted(L) \in Seq(E) /\ ToSet(Sorted(L)) = L
      /\ Sorted(M) \in Seq(E) /\ ToSet(Sorted(M)) = M
      /\ Sorted(S) \in Seq(E) /\ ToSet(Sorted(S)) = S
      /\ Sorted(A) \in Seq(E) /\ ToSet(Sorted(A)) = A
  BY <1>1, <1>2, OneTypeSpans
<1> HIDE DEF E
<1> DEFINE sm == Sorted(S) \o Sorted(M)
           pl == Sorted(P) \o Sorted(L)
           pls == pl \o Sorted(S)
<1>5. sm \in Seq(E) /\ ToSet(sm) = S \cup M
  BY <1>4, ToSetJoined
<1>6. pl \in Seq(E) /\ ToSet(pl) = P \cup L
  BY <1>4, ToSetJoined
<1> HIDE DEF sm, pl
<1>7. pls \in Seq(E) /\ ToSet(pls) = P \cup L \cup S
  BY <1>4, <1>6, ToSetJoined
<1> HIDE DEF pls
<1>8. /\ sm \o Sorted(A) \in Seq(E) /\ ToSet(sm \o Sorted(A)) = S \cup M \cup A
      /\ pls \o Sorted(A) \in Seq(E) /\ ToSet(pls \o Sorted(A)) = P \cup L \cup S \cup A
  BY <1>4, <1>5, <1>7, ToSetJoined
<1>9. ScanRegex(t) = sm \o Sorted(A) /\ ScanNer(t) = pls \o Sorted(A)
  BY <1>3 DEF sm, pl, pls
<1> QED
  BY <1>8, <1>9 DEF E, P, L, M, S, A

\* Positions that are picked lie no closer than their places.
LEMMA PicksApart ==
    ASSUME NEW N \in Nat, NEW S, NEW p, Picks(p, N, S),
           NEW i \in 1 .. Len(p), NEW j \in i .. Len(p)
    PROVE  p[i] + (j - i) <= p[j]
<1>1. /\ Len(p) \in Nat
      /\ \A n \in 1 .. Len(p) : p[n] \in 1 .. N
  BY PickedIsIn
<1>2. \A k, l \in 1 .. Len(p) : k < l => p[k] < p[l]
  BY DEF Picks
<1> DEFINE G == {k \in i .. Len(p) : p[i] + (k - i) <= p[k]}
<1>3. i \in G
  BY <1>1
<1>4. ASSUME NEW k \in i .. Len(p) - 1, k \in G
      PROVE  k + 1 \in G
  <2>1. k \in 1 .. Len(p) /\ k + 1 \in 1 .. Len(p) /\ k < k + 1
    BY <1>1
  <2>2. p[k] < p[k + 1]
    BY <2>1, <1>2
  <2>3. p[k] \in Nat /\ p[k + 1] \in Nat /\ p[i] \in Nat
    BY <2>1, <1>1
  <2> QED BY <1>4, <2>1, <2>2, <2>3
<1>5. \A k \in i .. Len(p) : k \in G
  <2>1. i \in Nat
    BY <1>1
  <2> HIDE DEF G
  <2> QED BY <1>1, <2>1, <1>3, <1>4, StepByStep
<1> QED
  BY <1>5

\* A hit on a part of a line is a span of the line, where its first cell was.
LEMMA Remapped ==
    ASSUME NEW N \in Nat, NEW S, NEW p, Picks(p, N, S), NEW h \in Spans(Len(p))
    PROVE  /\ RemapHit(h, p) \in Spans(N)
           /\ RemapHit(h, p) = Span(h.type, p[h.s], p[h.s] + (h.e - h.s))
<1>1. /\ Len(p) \in Nat
      /\ \A n \in 1 .. Len(p) : p[n] \in 1 .. N
  BY PickedIsIn
<1>2. /\ h \in [type : Types, s : 1 .. Len(p), e : 2 .. Len(p) + 1]
      /\ h.type \in Types /\ h.s \in 1 .. Len(p) /\ h.e \in 2 .. Len(p) + 1 /\ h.s < h.e
  BY DEF Spans
<1>3. p[h.s] \in 1 .. N /\ h.e - 1 \in h.s .. Len(p) /\ h.e - 1 \in 1 .. Len(p)
  BY <1>1, <1>2
<1>4. p[h.s] + ((h.e - 1) - h.s) <= p[h.e - 1] /\ p[h.e - 1] \in 1 .. N
  BY <1>1, <1>2, <1>3, PicksApart
<1>5. RemapHit(h, p) = Span(h.type, p[h.s], p[h.s] + (h.e - h.s))
  BY DEF RemapHit
<1>6. p[h.s] + (h.e - h.s) \in 2 .. N + 1 /\ p[h.s] < p[h.s] + (h.e - h.s)
  <2>1. \A x, y \in 1 .. N : \A k, l \in Int :
            k < l /\ x + ((l - 1) - k) <= y
            => x + (l - k) \in 2 .. N + 1 /\ x < x + (l - k)
    OBVIOUS
  <2> DEFINE x == p[h.s]
             y == p[h.e - 1]
  <2>2. x \in 1 .. N /\ y \in 1 .. N /\ x + ((h.e - 1) - h.s) <= y
    BY <1>3, <1>4
  <2>3. h.s \in Int /\ h.e \in Int /\ h.s < h.e
    BY <1>1, <1>2
  <2> HIDE DEF x, y
  <2>4. x + (h.e - h.s) \in 2 .. N + 1 /\ x < x + (h.e - h.s)
    BY <2>1, <2>2, <2>3
  <2> QED BY <2>4 DEF x
<1> QED
  BY <1>2, <1>3, <1>5, <1>6 DEF Spans, Span

LEMMA RemappedHits ==
    ASSUME NEW N \in Nat, NEW S, NEW p, Picks(p, N, S), NEW hits \in Seq(Spans(Len(p)))
    PROVE  /\ RemapHits(hits, p) \in Seq(Spans(N))
           /\ ToSet(RemapHits(hits, p)) = {RemapHit(h, p) : h \in ToSet(hits)}
<1>1. Len(hits) \in Nat /\ DOMAIN hits = 1 .. Len(hits)
  OBVIOUS
<1>2. RemapHits(hits, p) = [i \in 1 .. Len(hits) |-> RemapHit(hits[i], p)]
  BY <1>1 DEF RemapHits
<1>3. \A i \in 1 .. Len(hits) : RemapHit(hits[i], p) \in Spans(N)
  BY Remapped
<1> QED
  BY <1>1, <1>2, <1>3 DEF ToSet

\* What the model finds when a part of the line is cut out.
LEMMA NerOnPart ==
    ASSUME NEW t \in Seq(Cell), NEW cut
    PROVE  LET p == Kept(t, cut)
               found == ScanNer(Spliced(t, p))
           IN  /\ found \in Seq(Spans(Len(p)))
               /\ ScanNerOn(t, p) \in Seq(Spans(Len(t)))
               /\ ToSet(ScanNerOn(t, p)) = {RemapHit(h, p) : h \in ToSet(found)}
<1> DEFINE p == Kept(t, cut)
           part == Spliced(t, p)
<1>1. Picks(p, Len(t), DOMAIN t \ cut) /\ Len(t) \in Nat
  BY KeptPicks
<1> HIDE DEF p
<1>2. part \in Seq(Cell) /\ Len(part) = Len(p)
  BY <1>1, SplicedLine
<1> HIDE DEF part
<1>3. ScanNer(part) \in Seq(Spans(Len(p)))
  BY <1>2, ScansFind
<1>4. /\ RemapHits(ScanNer(part), p) \in Seq(Spans(Len(t)))
      /\ ToSet(RemapHits(ScanNer(part), p)) = {RemapHit(h, p) : h \in ToSet(ScanNer(part))}
  BY <1>1, <1>3, RemappedHits
<1> QED
  BY <1>3, <1>4 DEF ScanNerOn, part, p

\* What the two ways through the ensemble find.
LEMMA Detected ==
    ASSUME NEW t \in Seq(Cell), NEW logType
    PROVE  LET regexHits == ScanRegex(t)
               gated == ScanNerGated(t, regexHits, Gate(t, FieldValues(t, logType), regexHits))
               others == ToSet(regexHits) \cup ToSet(ScanEntropy(t)) \cup ToSet(ScanFlattened(t))
           IN  /\ gated \in Seq(Spans(Len(t)))
               /\ DetectGated(t, logType) \in Seq(Spans(Len(t)))
               /\ ToSet(DetectGated(t, logType)) = ToSet(gated) \cup others
               /\ ToSet(DetectAll(t)) = ToSet(ScanNer(t)) \cup others
<1> DEFINE E == Spans(Len(t))
           R == ScanRegex(t)
           H == ScanEntropy(t)
           F == ScanFlattened(t)
           A == ScanNer(t)
           gate == Gate(t, FieldValues(t, logType), R)
           G == ScanNerGated(t, R, gate)
<1>1. R \in Seq(E) /\ H \in Seq(E) /\ F \in Seq(E) /\ A \in Seq(E)
  BY ScansFind, RecognisedWords
<1>2. ScanNerOn(t, Kept(t, gate.cut)) \in Seq(E)
  BY NerOnPart
<1>3. G \in Seq(E)
  BY <1>1, <1>2 DEF ScanNerGated
<1> HIDE DEF E, R, H, F, A, G
<1>4. ASSUME NEW X \in Seq(E)
      PROVE  /\ ((R \o X) \o H) \o F \in Seq(E)
             /\ ToSet(((R \o X) \o H) \o F) = ToSet(X) \cup (ToSet(R) \cup ToSet(H) \cup ToSet(F))
  <2> DEFINE a == R \o X
             b == a \o H
  <2>1. a \in Seq(E) /\ ToSet(a) = ToSet(R) \cup ToSet(X)
    BY <1>1, ToSetJoined
  <2> HIDE DEF a
  <2>2. b \in Seq(E) /\ ToSet(b) = ToSet(a) \cup ToSet(H)
    BY <1>1, <2>1, ToSetJoined
  <2> HIDE DEF b
  <2>3. b \o F \in Seq(E) /\ ToSet(b \o F) = ToSet(b) \cup ToSet(F)
    BY <1>1, <2>2, ToSetJoined
  <2>4. b \o F = ((R \o X) \o H) \o F
    BY DEF a, b
  <2> QED BY <2>1, <2>2, <2>3, <2>4
<1>5. DetectAll(t) = ((R \o A) \o H) \o F
  BY DEF DetectAll, R, A, H, F
<1>6. DetectGated(t, logType) = ((R \o G) \o H) \o F
  BY DEF DetectGated, DetectGatedWith, R, G, H, F
<1> QED
  BY <1>1, <1>3, <1>4, <1>5, <1>6 DEF E, R, G, H, F, A

-----------------------------------------------------------------------------
(* Where the values of fields are found.                                   *)

Occurs(t, v, i) == i \in 1 .. Len(t) - Len(v) + 1 /\ SubSeq(t, i, i + Len(v) - 1) = v

LEMMA FindFromFinds ==
    ASSUME NEW t \in Seq(Cell), NEW v \in Seq(Cell), NEW from \in Nat \ {0}
    PROVE  /\ FindFrom(t, v, from) # 0 =>
                /\ Occurs(t, v, FindFrom(t, v, from))
                /\ from <= FindFrom(t, v, from)
                /\ \A i \in Nat : from <= i /\ Occurs(t, v, i) => FindFrom(t, v, from) <= i
           /\ FindFrom(t, v, from) = 0 => \A i \in Nat : from <= i => ~Occurs(t, v, i)
<1> DEFINE last == Len(t) - Len(v) + 1
           at == {i \in from .. last : SubSeq(t, i, i + Len(v) - 1) = v}
<1>1. last \in Int /\ Len(v) \in Nat
  OBVIOUS
<1>2. at \subseteq Nat /\ \A i \in at : i # 0 /\ from <= i /\ Occurs(t, v, i)
  BY <1>1 DEF Occurs
<1>3. \A i \in Nat : from <= i /\ Occurs(t, v, i) => i \in at
  BY <1>1 DEF Occurs
<1>4. FindFrom(t, v, from) = IF at = {} THEN 0 ELSE Min(at)
  BY DEF FindFrom
<1> HIDE DEF at
<1>5. CASE at = {}
  BY <1>3, <1>4, <1>5
<1>6. CASE at # {}
  <2>1. Min(at) \in at /\ \A i \in at : Min(at) <= i
    BY <1>2, <1>6, LeastOf
  <2> QED BY <2>1, <1>2, <1>3, <1>4, <1>6
<1> QED
  BY <1>5, <1>6

LEMMA PlaceFinds ==
    ASSUME NEW t \in Seq(Cell), NEW v \in Seq(Cell), NEW cursor \in Nat \ {0}
    PROVE  /\ Place(t, v, cursor) # 0 => Occurs(t, v, Place(t, v, cursor))
           /\ Place(t, v, cursor) = 0 => \A i \in Nat : ~Occurs(t, v, i)
<1>1. \A i \in Nat : Occurs(t, v, i) => 1 <= i
  BY DEF Occurs
<1>2. CASE FindFrom(t, v, cursor) # 0
  BY <1>2, FindFromFinds DEF Place
<1>3. CASE FindFrom(t, v, cursor) = 0
  <2>1. Place(t, v, cursor) = FindFrom(t, v, 1)
    BY <1>3 DEF Place
  <2>2. 1 \in Nat \ {0}
    OBVIOUS
  <2> QED BY <2>1, <2>2, <1>1, FindFromFinds
<1> QED
  BY <1>2, <1>3

\* A place where a value stands, for fields of F.
Places(t, F) ==
    {a \in [field : F, s : 1 .. Len(t), e : 2 .. Len(t) + 1] :
        /\ a.field.value # <<>>
        /\ a.e = a.s + Len(a.field.value)
        /\ Occurs(t, a.field.value, a.s)}
Searches(t, F) == [cursor : Nat \ {0}, found : Seq(Places(t, F))]
ValuesAreLines(F) == \A f \in F : f.value \in Seq(Cell)

LEMMA PlacedStep ==
    ASSUME NEW t \in Seq(Cell), NEW F, ValuesAreLines(F),
           NEW acc \in Searches(t, F), NEW f \in F
    PROVE  /\ Placed(t, acc, f) \in Searches(t, F)
           /\ \A a \in ToSet(acc.found) : a \in ToSet(Placed(t, acc, f).found)
           /\ f.value # <<>> /\ (\E i \in Nat : Occurs(t, f.value, i))
              => \E a \in ToSet(Placed(t, acc, f).found) : a.field = f
<1> DEFINE at == Place(t, f.value, acc.cursor)
           new == [field |-> f, s |-> at, e |-> at + Len(f.value)]
<1>1. /\ acc.cursor \in Nat \ {0} /\ acc.found \in Seq(Places(t, F))
      /\ f.value \in Seq(Cell) /\ Len(f.value) \in Nat /\ Len(t) \in Nat
  BY DEF Searches, ValuesAreLines
<1>2. /\ at # 0 => Occurs(t, f.value, at)
      /\ at = 0 => \A i \in Nat : ~Occurs(t, f.value, i)
  BY <1>1, PlaceFinds
<1> HIDE DEF at
<1>3. Placed(t, acc, f) =
          IF f.value = <<>> \/ at = 0
          THEN acc
          ELSE [cursor |-> at + Len(f.value), found |-> Append(acc.found, new)]
  BY DEF Placed, at
<1>4. CASE f.value = <<>> \/ at = 0
  BY <1>2, <1>3, <1>4
<1>5. CASE f.value # <<>> /\ at # 0
  <2>1. Occurs(t, f.value, at) /\ Len(f.value) >= 1
    BY <1>1, <1>2, <1>5
  <2>2. /\ at \in 1 .. Len(t) /\ at + Len(f.value) \in 2 .. Len(t) + 1
        /\ at + Len(f.value) \in Nat \ {0}
    BY <2>1, <1>1 DEF Occurs
  <2>3. new \in Places(t, F)
    BY <2>1, <2>2, <1>5 DEF Places
  <2> DEFINE found == Append(acc.found, new)
  <2>4. /\ found \in Seq(Places(t, F))
        /\ Len(found) = Len(acc.found) + 1
        /\ \A i \in 1 .. Len(acc.found) : found[i] = acc.found[i]
        /\ found[Len(acc.found) + 1] = new
    <3> HIDE DEF new
    <3> QED BY <2>3, <1>1, AppendProperties
  <2>5. new.field = f
    OBVIOUS
  <2> HIDE DEF found, new
  <2>6. DOMAIN acc.found = 1 .. Len(acc.found) /\ DOMAIN found = 1 .. Len(found)
        /\ Len(acc.found) \in Nat
    BY <2>4, <1>1
  <2>7. \A a \in ToSet(acc.found) : a \in ToSet(found)
    <3> SUFFICES ASSUME NEW i \in 1 .. Len(acc.found)
                 PROVE  acc.found[i] \in ToSet(found)
      BY <2>6 DEF ToSet
    <3>1. i \in 1 .. Len(found) /\ found[i] = acc.found[i]
      BY <2>4, <2>6
    <3> QED BY <3>1, <2>6 DEF ToSet
  <2>8. new \in ToSet(found)
    <3>1. Len(acc.found) + 1 \in DOMAIN found
      BY <2>4, <2>6
    <3> QED BY <3>1, <2>4 DEF ToSet
  <2>9. Placed(t, acc, f) = [cursor |-> at + Len(f.value), found |-> found]
    BY <1>3, <1>5 DEF found
  <2> QED BY <2>2, <2>4, <2>5, <2>7, <2>8, <2>9 DEF Searches
<1> QED
  BY <1>4, <1>5

\* Every field with a value that is in the line is located, wherever the
\* values of the fields before it led the search.
LEMMA LocatedFields ==
    ASSUME NEW t \in Seq(Cell), NEW F, ValuesAreLines(F), NEW fields \in Seq(F)
    PROVE  /\ Located(t, fields) \in Seq(Places(t, F))
           /\ \A f \in ToSet(fields) :
                 f.value # <<>> /\ (\E i \in Nat : Occurs(t, f.value, i))
                 => \E a \in ToSet(Located(t, fields)) : a.field = f
<1> DEFINE N == Len(fields)
           T == Searches(t, F)
           start == [cursor |-> 1, found |-> <<>>]
           next(g) == [n \in 0 .. N |->
                         IF n = 0 THEN start ELSE Placed(t, g[n - 1], fields[n])]
           after == CHOOSE g : g = next(g)
           step == [x \in T \X (1 .. N) |-> Placed(t, x[1], fields[x[2]])]
<1>1. /\ N \in Nat /\ DOMAIN fields = 1 .. N
      /\ \A n \in 1 .. N : fields[n] \in F
  OBVIOUS
<1>2. Located(t, fields) = after[N].found
  BY DEF Located
<1>3. start \in T
  BY DEF Searches
<1>4. step \in Steps(T, N)
  <2>1. \A x \in T \X (1 .. N) : Placed(t, x[1], fields[x[2]]) \in T
    BY <1>1, PlacedStep
  <2> HIDE DEF T, N
  <2> QED BY <2>1 DEF Steps
<1> HIDE DEF T, N, start
<1>5. PICK g : Runs(g, T, N, start, step)
  <2> HIDE DEF step
  <2> QED BY <1>1, <1>3, <1>4, Recursion
<1>6. \A n \in 1 .. N : n - 1 \in 0 .. N /\ n \in 0 .. N
  BY <1>1
<1>7. g = next(g)
  <2>1. g = [n \in 0 .. N |-> g[n]] /\ g[0] = start
    BY <1>5 DEF Runs
  <2>2. \A n \in 1 .. N : g[n] = Placed(t, g[n - 1], fields[n])
    BY <1>5, <1>6 DEF Runs
  <2>3. ASSUME NEW n \in 0 .. N
        PROVE  g[n] = IF n = 0 THEN start ELSE Placed(t, g[n - 1], fields[n])
    <3>1. CASE n = 0
      BY <3>1, <2>1
    <3>2. CASE n \in 1 .. N
      <4>1. n # 0
        BY <3>2
      <4> QED BY <3>2, <4>1, <2>2
    <3>3. n = 0 \/ n \in 1 .. N
      BY <1>1
    <3> QED BY <3>1, <3>2, <3>3
  <2> QED BY <2>1, <2>3
<1>8. after = next(after)
  <2> HIDE DEF next
  <2> QED BY <1>7
<1> HIDE DEF after, step
<1>9. after[0] = start /\ \A n \in 1 .. N : after[n] = Placed(t, after[n - 1], fields[n])
  <2>1. \A n \in 0 .. N :
            after[n] = IF n = 0 THEN start ELSE Placed(t, after[n - 1], fields[n])
    BY <1>8
  <2> QED BY <2>1, <1>1, <1>6
<1> DEFINE Done(n) == \A k \in 1 .. n :
                        fields[k].value # <<>> /\ (\E i \in Nat : Occurs(t, fields[k].value, i))
                        => \E a \in ToSet(after[n].found) : a.field = fields[k]
           G == {n \in 0 .. N : after[n] \in T /\ Done(n)}
<1>10. 0 \in G
  BY <1>1, <1>3, <1>9
<1>11. ASSUME NEW n \in 0 .. N - 1, n \in G
       PROVE  n + 1 \in G
  <2>1. n + 1 \in 1 .. N /\ (n + 1) - 1 = n /\ fields[n + 1] \in F
    BY <1>1
  <2>2. after[n + 1] = Placed(t, after[n], fields[n + 1])
    BY <2>1, <1>9
  <2> DEFINE f == fields[n + 1]
  <2>3. /\ after[n + 1] \in T
        /\ \A a \in ToSet(after[n].found) : a \in ToSet(after[n + 1].found)
        /\ f.value # <<>> /\ (\E i \in Nat : Occurs(t, f.value, i))
           => \E a \in ToSet(after[n + 1].found) : a.field = f
    <3>1. after[n] \in Searches(t, F)
      BY <1>11 DEF T
    <3>2. f \in F
      BY <2>1
    <3> HIDE DEF f
    <3> DEFINE x == Placed(t, after[n], f)
    <3>3. /\ x \in Searches(t, F)
          /\ \A a \in ToSet(after[n].found) : a \in ToSet(x.found)
          /\ f.value # <<>> /\ (\E i \in Nat : Occurs(t, f.value, i))
             => \E a \in ToSet(x.found) : a.field = f
      BY <3>1, <3>2, PlacedStep
    <3>4. after[n + 1] = x
      BY <2>2 DEF f
    <3> HIDE DEF x
    <3> QED BY <3>3, <3>4 DEF T
  <2>4. ASSUME NEW k \in 1 .. n + 1, fields[k].value # <<>>,
               \E i \in Nat : Occurs(t, fields[k].value, i)
        PROVE  \E a \in ToSet(after[n + 1].found) : a.field = fields[k]
    <3>1. CASE k = n + 1
      BY <3>1, <2>3, <2>4
    <3>2. CASE k \in 1 .. n
      <4>1. \E a \in ToSet(after[n].found) : a.field = fields[k]
        BY <3>2, <2>4, <1>11
      <4> QED BY <4>1, <2>3
    <3> QED BY <3>1, <3>2
  <2>5. Done(n + 1)
    BY <2>4
  <2> HIDE DEF Done
  <2> QED BY <2>1, <2>3, <2>5, <1>1
<1>12. N \in G
  <2>1. \A n \in 0 .. N : n \in G
    <3> HIDE DEF G
    <3> QED BY <1>1, <1>10, <1>11, StepByStep
  <2> QED BY <2>1, <1>1
<1>13. after[N].found \in Seq(Places(t, F))
  BY <1>12 DEF T, Searches
<1>14. ASSUME NEW f \in ToSet(fields), f.value # <<>>, \E i \in Nat : Occurs(t, f.value, i)
       PROVE  \E a \in ToSet(after[N].found) : a.field = f
  <2>1. PICK k \in 1 .. N : f = fields[k]
    BY <1>1 DEF ToSet
  <2> QED BY <2>1, <1>12, <1>14
<1> QED
  BY <1>2, <1>13, <1>14

-----------------------------------------------------------------------------
(* The fields of a line.                                                   *)

\* A value has no white space in front.
Field ==
    {f \in [name : Word \cup {"user", "src_ip"}, value : Seq(Cell)] :
        f.value # <<>> => f.value[1] # "sp"}

LEMMA PartOfLine ==
    ASSUME NEW t \in Seq(Cell), NEW a \in Nat \ {0}, NEW b \in Int, b <= Len(t)
    PROVE  /\ SubSeq(t, a, b) \in Seq(Cell)
           /\ Len(SubSeq(t, a, b)) = IF a <= b THEN b - a + 1 ELSE 0
           /\ \A i \in 1 .. b - a + 1 : SubSeq(t, a, b)[i] = t[a + i - 1]
<1>1. \A i \in a .. b : t[i] \in Cell
  OBVIOUS
<1> QED
  BY <1>1, SubSeqProperties

LEMMA TrimmedValue ==
    ASSUME NEW v \in Seq(Cell)
    PROVE  Trim(v) \in Seq(Cell) /\ (Trim(v) # <<>> => Trim(v)[1] # "sp")
<1> DEFINE solid == {i \in DOMAIN v : v[i] # "sp"}
<1>1. DOMAIN v = 1 .. Len(v) /\ Len(v) \in Nat
  OBVIOUS
<1>2. CASE solid = {}
  BY <1>2 DEF Trim
<1>3. CASE solid # {}
  <2>1. solid \subseteq Nat /\ solid \subseteq 0 .. Len(v)
    BY <1>1
  <2> DEFINE a == Min(solid)
             b == Max(solid)
  <2>2. a \in solid /\ b \in solid /\ a <= b
    <3> HIDE DEF solid
    <3> QED BY <2>1, <1>1, <1>3, LeastOf, GreatestOf
  <2>3. Trim(v) = SubSeq(v, a, b)
    BY <1>3 DEF Trim
  <2>4. a \in 1 .. Len(v) /\ b \in 1 .. Len(v) /\ v[a] # "sp"
    BY <2>2, <1>1
  <2> HIDE DEF a, b, solid
  <2>5. /\ SubSeq(v, a, b) \in Seq(Cell)
        /\ \A i \in 1 .. b - a + 1 : SubSeq(v, a, b)[i] = v[a + i - 1]
    BY <2>4, <1>1, PartOfLine
  <2>6. 1 \in 1 .. b - a + 1 /\ a + 1 - 1 = a
    BY <2>2, <2>4, <1>1
  <2> QED BY <2>3, <2>4, <2>5, <2>6
<1> QED
  BY <1>2, <1>3

LEMMA KvPairsFields ==
    ASSUME NEW t \in Seq(Cell)
    PROVE  KvPairs(t) \in Seq(Field)
<1> DEFINE keys == {i \in DOMAIN t : t[i] \in Word /\ IsCell(t, i + 1, "eq")}
           first == {i \in keys : \A j \in keys : t[j] = t[i] => i <= j}
           At(name) == Max({j \in keys : t[j] = name})
           Next(i) == Min({j \in keys : j > i} \cup {Len(t) + 1})
           Value(name) == Trim(SubSeq(t, At(name) + 2, Next(At(name)) - 1))
           names == Chosen(t, first)
<1>1. DOMAIN t = 1 .. Len(t) /\ Len(t) \in Nat
  OBVIOUS
<1>2. KvPairs(t) = [n \in DOMAIN names |-> [name |-> names[n], value |-> Value(names[n])]]
  BY DEF KvPairs
<1>3. keys \subseteq 1 .. Len(t) /\ first \subseteq keys /\ \A i \in keys : t[i] \in Word
  BY <1>1
<1> HIDE DEF keys, first
<1>4. ASSUME NEW k \in keys
      PROVE  Value(t[k]) \in Seq(Cell) /\ (Value(t[k]) # <<>> => Value(t[k])[1] # "sp")
  <2> DEFINE K == {j \in keys : t[j] = t[k]}
             i == At(t[k])
             n == Next(i)
             L == {j \in keys : j > i} \cup {Len(t) + 1}
  <2>k. \A j \in keys : j \in 1 .. Len(t)
    BY <1>3
  <2>1. K \subseteq 0 .. Len(t) /\ K # {}
    <3>1. k \in K
      OBVIOUS
    <3>2. \A j \in K : j \in 0 .. Len(t)
      BY <2>k, <1>1
    <3> HIDE DEF K
    <3> QED BY <3>1, <3>2
  <2>2. i \in K
    <3> HIDE DEF K
    <3>1. Max(K) \in K
      BY <2>1, <1>1, GreatestOf
    <3> QED BY <3>1 DEF K
  <2>3. i \in 1 .. Len(t)
    BY <2>2, <1>3
  <2>4. L \subseteq 1 .. Len(t) + 1 /\ L # {} /\ L \subseteq Nat
    <3>1. Len(t) + 1 \in L
      OBVIOUS
    <3>2. \A j \in L : j \in 1 .. Len(t) + 1
      BY <2>k, <1>1
    <3> HIDE DEF L
    <3> QED BY <3>1, <3>2
  <2>5. n \in L
    <3> HIDE DEF L
    <3>1. Min(L) \in L
      BY <2>4, LeastOf
    <3> QED BY <3>1 DEF L
  <2> HIDE DEF i, K
  <2>6. n \in 1 .. Len(t) + 1
    BY <2>4, <2>5
  <2> HIDE DEF n, L
  <2>7. SubSeq(t, i + 2, n - 1) \in Seq(Cell)
    <3>1. i + 2 \in Nat \ {0} /\ n - 1 \in Int /\ n - 1 <= Len(t)
      BY <2>3, <2>6, <1>1
    <3> QED BY <3>1, PartOfLine
  <2>8. Value(t[k]) = Trim(SubSeq(t, i + 2, n - 1))
    BY DEF i, n
  <2> QED BY <2>7, <2>8, TrimmedValue
<1>5. /\ names \in Seq(Cell)
      /\ \A n \in DOMAIN names : \E k \in keys : names[n] = t[k]
  <2>1. /\ names \in Seq(Cell)
        /\ \E p : /\ Picks(p, Len(t), first)
                  /\ Len(names) = Len(p)
                  /\ \A n \in 1 .. Len(p) : names[n] = t[p[n]]
    BY ChosenCells
  <2>2. PICK p : /\ Picks(p, Len(t), first)
                 /\ Len(names) = Len(p)
                 /\ \A n \in 1 .. Len(p) : names[n] = t[p[n]]
    BY <2>1
  <2>3. \A n \in 1 .. Len(p) : p[n] \in first
    BY <2>2, <1>1, PickedIsIn
  <2> HIDE DEF names
  <2>4. DOMAIN names = 1 .. Len(p)
    BY <2>1, <2>2
  <2> QED BY <2>1, <2>2, <2>3, <2>4, <1>3
<1> HIDE DEF names, Value
<1>6. \A n \in DOMAIN names : [name |-> names[n], value |-> Value(names[n])] \in Field
  BY <1>3, <1>4, <1>5 DEF Field
<1> QED
  BY <1>2, <1>5, <1>6

\* A field of one cell.
LEMMA FieldOfCell ==
    ASSUME NEW name \in {"user", "src_ip"}, NEW c \in Cell \ {"sp"}
    PROVE  OneField(name, c) \in Seq(Field)
<1> DEFINE f == [name |-> name, value |-> <<c>>]
<1>1. f \in Field
  <2>1. <<c>> \in Seq(Cell) /\ <<c>>[1] # "sp"
    OBVIOUS
  <2>2. f.value = <<c>> /\ f.name = name
    OBVIOUS
  <2>3. f \in [name : Word \cup {"user", "src_ip"}, value : Seq(Cell)]
    BY <2>1
  <2> HIDE DEF f
  <2> QED BY <2>1, <2>2, <2>3 DEF Field
<1>2. OneField(name, c) = <<f>>
  BY DEF OneField
<1> HIDE DEF f
<1> QED
  BY <1>1, <1>2

LEMMA ExtractedFields ==
    ASSUME NEW t \in Seq(Cell), NEW logType
    PROVE  ExtractFields(logType, t) \in Seq(Field)
<1>1. SyslogFields(t) \in Seq(Field)
  <2>1. CASE ~IsCell(t, 1, "tag")
    BY <2>1 DEF SyslogFields
  <2>2. CASE IsCell(t, 1, "tag")
    <3> DEFINE rest == Trim(Tail(t))
               Said(wording, n) ==
                 /\ Len(rest) >= n + 1 /\ rest[1] = wording
                 /\ \A i \in 2 .. n + 1 : rest[i] = "sp" <=> i % 2 = 0
                 /\ Len(rest) = n + 1 \/ IsCell(rest, n + 2, "sp")
    <3>1. rest \in Seq(Cell)
      <4>1. t # <<>>
        BY <2>2 DEF IsCell
      <4>2. Tail(t) \in Seq(Cell)
        BY <4>1
      <4> QED BY <4>2, TrimmedValue
    <3>2. SyslogFields(t) =
            CASE Said("auth", 4) -> OneField("user", rest[3]) \o OneField("src_ip", rest[5])
              [] Said("sess", 2) -> OneField("user", rest[3])
              [] Said("dhcp", 2) -> OneField("src_ip", rest[3])
              [] OTHER -> KvPairs(rest)
      BY <2>2 DEF SyslogFields
    <3> HIDE DEF rest
    <3>3. ASSUME NEW n \in {2, 4}, NEW c, Said(c, n), NEW i \in {3, 5}, i <= n + 1,
                 NEW name \in {"user", "src_ip"}
          PROVE  OneField(name, rest[i]) \in Seq(Field)
      <4>1. rest[i] \in Cell
        BY <3>1, <3>3
      <4>2. i \in 2 .. n + 1 /\ i % 2 # 0
        BY <3>3
      <4>3. rest[i] # "sp"
        BY <4>2, <3>3
      <4> QED BY <4>1, <4>3, FieldOfCell
    <3> HIDE DEF Said
    <3>4. KvPairs(rest) \in Seq(Field)
      BY <3>1, KvPairsFields
    <3>5. CASE Said("auth", 4)
      <4>1. /\ OneField("user", rest[3]) \in Seq(Field)
            /\ OneField("src_ip", rest[5]) \in Seq(Field)
        BY <3>3, <3>5
      <4>2. OneField("user", rest[3]) \o OneField("src_ip", rest[5]) \in Seq(Field)
        BY <4>1
      <4> QED BY <2>2, <3>2, <3>3, <3>4, <3>5, <4>2
    <3>6. CASE ~Said("auth", 4)
      BY <2>2, <3>2, <3>3, <3>4, <3>6
    <3> QED BY <3>5, <3>6
  <2> QED BY <2>1, <2>2
<1>2. KvPairs(t) \in Seq(Field)
  BY KvPairsFields
<1> QED
  BY <1>1, <1>2 DEF ExtractFields

LEMMA FieldPlaces ==
    ASSUME NEW t \in Seq(Cell), NEW logType
    PROVE  FieldValues(t, logType) \subseteq Places(t, Field)
<1>1. ValuesAreLines(Field)
  BY DEF ValuesAreLines, Field
<1>2. Located(t, ExtractFields(logType, t)) \in Seq(Places(t, Field))
  BY <1>1, ExtractedFields, LocatedFields
<1> QED
  BY <1>2 DEF FieldValues, ToSet

-----------------------------------------------------------------------------
(* Runs of names, and what is cut out of a line.                           *)

\* There is nothing but blanks between the cells a .. b and a cut.
Touches(t, cut, a, b) ==
    \E c \in cut : \A i \in (b + 1 .. c - 1) \cup (c + 1 .. a - 1) : t[i] = "sp"

\* A run that goes on to the right, in a line cut elsewhere, goes on to a cell
\* before the first cut.
LEMMA RunsOnRight ==
    ASSUME NEW t \in Seq(Cell), NEW cut, NEW a \in 1 .. Len(t), NEW b \in a .. Len(t),
           ~Touches(t, cut, a, b), \A k \in a .. b : k \notin cut,
           NEW j \in b + 1 .. Len(t), NameRun(t, a, j)
    PROVE  \E m \in b + 1 .. j : NameRun(t, a, m) /\ \A k \in a .. m : k \notin cut
<1> DEFINE T == {m \in b + 1 .. j : m \in cut \/ t[m] = "nm"}
<1>1. Len(t) \in Nat /\ a \in Nat /\ b \in Nat /\ j \in Nat
  OBVIOUS
<1>2. T \subseteq Nat /\ T # {}
  <2>1. j \in T
    BY <1>1 DEF NameRun
  <2> QED BY <2>1, <1>1
<1>3. PICK m \in T : \A k \in T : m <= k
  <2> HIDE DEF T
  <2> QED BY <1>2, LeastOf
<1>4. m \in b + 1 .. j /\ (m \in cut \/ t[m] = "nm")
  OBVIOUS
<1>5. ASSUME NEW k \in b + 1 .. m - 1
      PROVE  k \notin cut /\ t[k] = "sp"
  <2>1. k \in b + 1 .. j /\ k \in a .. j /\ ~ (m <= k)
    BY <1>1, <1>4
  <2>2. k \notin T
    BY <1>3, <2>1
  <2>3. t[k] \in {"nm", "sp"}
    BY <2>1 DEF NameRun
  <2> QED BY <2>1, <2>2, <2>3
<1>6. m \notin cut
  <2>1. m + 1 .. a - 1 = {}
    BY <1>1, <1>4
  <2> QED BY <2>1, <1>5 DEF Touches
<1>7. NameRun(t, a, m)
  <2>1. a <= m /\ t[m] = "nm" /\ \A k \in a .. m : k \in a .. j
    BY <1>1, <1>4, <1>6
  <2> QED BY <2>1 DEF NameRun
<1>8. \A k \in a .. m : k \notin cut
  <2> SUFFICES ASSUME NEW k \in a .. m PROVE k \notin cut
    OBVIOUS
  <2>1. k \in a .. b \/ k \in b + 1 .. m - 1 \/ k = m
    BY <1>1, <1>4
  <2> QED BY <2>1, <1>5, <1>6
<1> QED
  BY <1>4, <1>7, <1>8

\* The same to the left.
LEMMA RunsOnLeft ==
    ASSUME NEW t \in Seq(Cell), NEW cut, NEW a \in 1 .. Len(t), NEW b \in a .. Len(t),
           ~Touches(t, cut, a, b), \A k \in a .. b : k \notin cut,
           NEW i \in 1 .. a - 1, NameRun(t, i, b)
    PROVE  \E m \in i .. a - 1 : NameRun(t, m, b) /\ \A k \in m .. b : k \notin cut
<1> DEFINE T == {m \in i .. a - 1 : m \in cut \/ t[m] = "nm"}
<1>1. Len(t) \in Nat /\ a \in Nat /\ b \in Nat /\ i \in Nat
  OBVIOUS
<1>2. T \subseteq 0 .. a /\ T # {}
  <2>1. i \in T
    BY <1>1 DEF NameRun
  <2> QED BY <2>1, <1>1
<1>3. Max(T) \in T /\ \A k \in T : k <= Max(T)
  <2> HIDE DEF T
  <2> QED BY <1>1, <1>2, GreatestOf
<1> DEFINE m == Max(T)
<1>4. m \in i .. a - 1 /\ (m \in cut \/ t[m] = "nm")
  BY <1>3
<1>m. \A k \in T : k <= m
  BY <1>3
<1> HIDE DEF m
<1>5. ASSUME NEW k \in m + 1 .. a - 1
      PROVE  k \notin cut /\ t[k] = "sp"
  <2>1. k \in i .. a - 1 /\ k \in i .. b /\ ~ (k <= m)
    BY <1>1, <1>4
  <2>2. k \notin T
    BY <1>m, <2>1
  <2>3. t[k] \in {"nm", "sp"}
    BY <2>1 DEF NameRun
  <2> QED BY <2>1, <2>2, <2>3
<1>6. m \notin cut
  <2>1. b + 1 .. m - 1 = {}
    BY <1>1, <1>4
  <2> QED BY <2>1, <1>5 DEF Touches
<1>7. NameRun(t, m, b)
  <2>1. m <= b /\ t[m] = "nm" /\ \A k \in m .. b : k \in i .. b
    BY <1>1, <1>4, <1>6
  <2> QED BY <2>1 DEF NameRun
<1>8. \A k \in m .. b : k \notin cut
  <2> SUFFICES ASSUME NEW k \in m .. b PROVE k \notin cut
    OBVIOUS
  <2>1. k \in a .. b \/ k \in m + 1 .. a - 1 \/ k = m
    BY <1>1, <1>4
  <2> QED BY <2>1, <1>5, <1>6
<1> QED
  BY <1>4, <1>7, <1>8

\* A part of a line, and a stretch of it that is together in the line.
Parted(t, cut, p, part) ==
    /\ Picks(p, Len(t), DOMAIN t \ cut)
    /\ part = Spliced(t, p)

Together(p, i, d) == \A m \in 0 .. d : i + m \in 1 .. Len(p) /\ p[i + m] = p[i] + m

\* A run of names in such a stretch is one of the line.
LEMMA RunOfPart ==
    ASSUME NEW t \in Seq(Cell), NEW cut, NEW p, NEW part, Parted(t, cut, p, part),
           NEW i \in 1 .. Len(p), NEW d \in Nat, Together(p, i, d),
           NEW x \in 0 .. d, NEW y \in 0 .. d
    PROVE  NameRun(part, i + x, i + y) <=> NameRun(t, p[i] + x, p[i] + y)
<1>1. /\ Len(p) \in Nat
      /\ \A n \in 1 .. Len(p) : p[n] \in 1 .. Len(t) /\ part[n] = t[p[n]]
  BY PickedIsIn, SplicedLine DEF Parted
<1>2. p[i] \in Nat /\ i \in Nat
  BY <1>1
<1>3. \A m \in 0 .. d : part[i + m] = t[p[i] + m]
  BY <1>1 DEF Together
<1>4. i + x <= i + y <=> p[i] + x <= p[i] + y
  BY <1>2
<1>5. (\A k \in i + x .. i + y : part[k] \in {"nm", "sp"})
      <=> \A m \in x .. y : part[i + m] \in {"nm", "sp"}
  <2>1. \A m \in x .. y : i + m \in i + x .. i + y
    BY <1>2
  <2>2. \A k \in i + x .. i + y : k - i \in x .. y /\ i + (k - i) = k
    BY <1>2
  <2> QED BY <2>1, <2>2
<1>6. (\A k \in p[i] + x .. p[i] + y : t[k] \in {"nm", "sp"})
      <=> \A m \in x .. y : t[p[i] + m] \in {"nm", "sp"}
  <2> DEFINE o == p[i]
  <2>1. o \in Nat
    BY <1>2
  <2> HIDE DEF o
  <2>2. \A m \in x .. y : o + m \in o + x .. o + y
    BY <2>1
  <2>3. \A k \in o + x .. o + y : k - o \in x .. y /\ o + (k - o) = k
    BY <2>1
  <2>4. (\A k \in o + x .. o + y : t[k] \in {"nm", "sp"})
        <=> \A m \in x .. y : t[o + m] \in {"nm", "sp"}
    BY <2>2, <2>3
  <2> QED BY <2>4 DEF o
<1>7. \A m \in x .. y : m \in 0 .. d
  OBVIOUS
<1> QED
  BY <1>3, <1>4, <1>5, <1>6, <1>7 DEF NameRun

\* A person found in a part of the line is one of the line, or touches a cut.
LEMMA PersonOfPart ==
    ASSUME NEW t \in Seq(Cell), NEW cut, NEW p, NEW part, Parted(t, cut, p, part),
           NEW h \in Names(part)
    PROVE  \/ RemapHit(h, p) \in Names(t)
           \/ Touches(t, cut, p[h.s], p[h.s] + (h.e - h.s) - 1)
<1> DEFINE N == Len(t)
           s == h.s
           d == h.e - 1 - s
           a == p[s]
           b == a + d
           S == DOMAIN t \ cut
<1>1. /\ N \in Nat /\ Len(p) \in Nat /\ DOMAIN t = 1 .. N
      /\ \A n \in 1 .. Len(p) : p[n] \in 1 .. N
      /\ part \in Seq(Cell) /\ Len(part) = Len(p)
  BY PickedIsIn, SplicedLine DEF Parted
<1>2. h \in Spans(Len(p)) /\ h = Span("PERSON", h.s, h.e)
  <2>1. SpansIn("PERSON", Len(part), Names(part))
    BY <1>1, Recognised
  <2>2. "PERSON" \in Types /\ Len(part) \in Nat
    BY <1>1 DEF Types, CanonicalTypes
  <2>3. h \in Spans(Len(part))
    BY <2>1, <2>2, OneTypeSpans
  <2>4. PICK x, y \in Int : h = Span("PERSON", x, y)
    BY <2>1, <1>1 DEF SpansIn
  <2> QED BY <2>3, <2>4, <1>1 DEF Span
<1>3. s \in 1 .. Len(p) /\ h.e \in Int /\ d \in Nat /\ s + d = h.e - 1
  BY <1>1, <1>2 DEF Spans
<1>4. RemapHit(h, p) = Span("PERSON", a, a + (h.e - s)) /\ RemapHit(h, p) \in Spans(N)
  <2>1. RemapHit(h, p) \in Spans(N) /\ RemapHit(h, p) = Span(h.type, p[h.s], p[h.s] + (h.e - h.s))
    BY <1>1, <1>2, Remapped DEF Parted
  <2>2. h.type = "PERSON"
    BY <1>2 DEF Span
  <2> QED BY <2>1, <2>2
<1>5. a \in 1 .. N /\ b \in a .. N /\ a + (h.e - s) = b + 1 /\ (b + 1) - 1 = b
      /\ a + (h.e - s) - 1 = b
  <2>1. a \in 1 .. N
    BY <1>1, <1>3
  <2>2. a + (h.e - s) \in 2 .. N + 1
    BY <1>4 DEF Spans, Span
  <2>3. h.e \in Int /\ d = h.e - 1 - s /\ s \in Int
    BY <1>1, <1>3
  <2>4. \A x, y, o \in Int :
            x \in 1 .. N /\ x + (o - y) \in 2 .. N + 1 /\ o - 1 - y \in Nat
            => /\ x + (o - 1 - y) \in x .. N
               /\ x + (o - y) = (x + (o - 1 - y)) + 1
               /\ ((x + (o - 1 - y)) + 1) - 1 = x + (o - 1 - y)
               /\ x + (o - y) - 1 = x + (o - 1 - y)
    BY <1>1
  <2>5. a \in Int
    BY <2>1, <1>1
  <2> HIDE DEF a, s
  <2> QED BY <2>1, <2>2, <2>3, <2>4, <2>5, <1>3
<1>6. /\ NameRun(part, s, s + d)
      /\ \A i \in 1 .. s : NameRun(part, i, s + d) => i = s
      /\ \A j \in s + d .. Len(p) : NameRun(part, s, j) => j = s + d
  <2>1. Span("PERSON", h.s, h.e) \in Names(part)
    BY <1>2
  <2>2. h.s \in Int /\ h.e \in Int
    BY <1>1, <1>3
  <2>3. /\ NameRun(part, h.s, h.e - 1)
        /\ \A i \in 1 .. h.s : NameRun(part, i, h.e - 1) => i = h.s
        /\ \A j \in h.e - 1 .. Len(part) : NameRun(part, h.s, j) => j = h.e - 1
    BY <2>1, <2>2, <1>1, NamesAreRuns
  <2> QED BY <2>3, <1>1, <1>3
<1> HIDE DEF s, d, a, b, N
<1>7. SUFFICES ASSUME ~Touches(t, cut, a, b) PROVE Span("PERSON", a, b + 1) \in Names(t)
  BY <1>4, <1>5 DEF a, s
<1>8. \A k \in a .. b : k \notin cut
  <2> SUFFICES ASSUME NEW k \in a .. b, k \in cut PROVE FALSE
    OBVIOUS
  <2>1. b + 1 .. k - 1 = {} /\ k + 1 .. a - 1 = {}
    BY <1>1, <1>5
  <2> QED BY <2>1, <1>7 DEF Touches
<1>9. ASSUME NEW i \in 1 .. Len(p), NEW e \in Nat, p[i] <= e, e <= N,
             \A k \in p[i] .. e : k \notin cut
      PROVE  Together(p, i, e - p[i])
  <2>1. Picks(p, N, S) /\ N \in Nat
    BY <1>1 DEF Parted, N
  <2>2. \A k \in p[i] .. e : k \in S
    <3> SUFFICES ASSUME NEW k \in p[i] .. e PROVE k \in 1 .. N
      BY <1>1, <1>9
    <3>1. p[i] \in 1 .. N
      BY <1>1
    <3> QED BY <3>1, <1>1, <1>9
  <2> HIDE DEF S
  <2>3. \A m \in 0 .. e - p[i] : i + m \in 1 .. Len(p) /\ p[i + m] = p[i] + m
    BY <2>1, <2>2, <1>9, PicksOnward
  <2> QED BY <2>3 DEF Together
<1>p. p[s] = a
  BY DEF a
<1>10. NameRun(t, a, b)
  <2>1. Together(p, s, d)
    <3>1. b \in Nat /\ a <= b /\ b <= N /\ b - a = d
      BY <1>1, <1>3, <1>5 DEF b
    <3> QED BY <3>1, <1>3, <1>8, <1>9, <1>p
  <2>2. s + 0 = s /\ a + 0 = a /\ a + d = b /\ 0 \in 0 .. d /\ d \in 0 .. d
    BY <1>1, <1>3, <1>5 DEF b
  <2> QED BY <2>1, <2>2, <1>3, <1>6, <1>p, RunOfPart
<1>11. ASSUME NEW j \in b .. N, NameRun(t, a, j), j # b
       PROVE  FALSE
  <2>1. j \in b + 1 .. N
    BY <1>1, <1>5, <1>11
  <2>2. PICK m \in b + 1 .. j : NameRun(t, a, m) /\ \A k \in a .. m : k \notin cut
    BY <2>1, <1>5, <1>7, <1>8, <1>11, RunsOnRight DEF N
  <2>3. m \in Nat /\ a <= m /\ m <= N /\ m - a \in Nat /\ m - a > d /\ a + (m - a) = m
        /\ s + 0 = s /\ a + 0 = a /\ 0 \in 0 .. m - a /\ m - a \in 0 .. m - a
    BY <2>1, <1>1, <1>3, <1>5 DEF b
  <2>4. Together(p, s, m - a)
    BY <2>2, <2>3, <1>3, <1>9, <1>p
  <2>5. NameRun(part, s, s + (m - a))
    BY <2>2, <2>3, <2>4, <1>3, <1>p, RunOfPart
  <2>6. s + (m - a) \in s + d .. Len(p) /\ s + (m - a) # s + d
    <3>1. s + (m - a) \in 1 .. Len(p)
      BY <2>3, <2>4 DEF Together
    <3> QED BY <3>1, <2>3, <1>1, <1>3
  <2> QED BY <2>5, <2>6, <1>6
<1>12. ASSUME NEW i \in 1 .. a, NameRun(t, i, b), i # a
       PROVE  FALSE
  <2>1. i \in 1 .. a - 1
    BY <1>1, <1>5, <1>12
  <2>2. PICK m \in i .. a - 1 : NameRun(t, m, b) /\ \A k \in m .. b : k \notin cut
    BY <2>1, <1>5, <1>7, <1>8, <1>12, RunsOnLeft DEF N
  <2>3. m \in Nat /\ 1 <= m /\ m <= a /\ m < a /\ a - m \in Nat /\ b \in Nat /\ m <= b /\ b <= N
    BY <2>1, <1>1, <1>5
  <2> DEFINE i0 == s - (a - m)
  <2>4. i0 \in 1 .. Len(p) /\ p[i0] = m
    <3>1. Picks(p, N, S) /\ \A k \in m .. p[s] : k \in S
      <4>1. \A k \in m .. a : k \in m .. b /\ k \in 1 .. N
        BY <2>3, <1>1, <1>5
      <4> QED BY <4>1, <2>2, <1>1, <1>p DEF Parted, N
    <3>4. N \in Nat /\ m \in Nat /\ 1 <= m /\ m <= p[s] /\ s \in 1 .. Len(p)
      BY <2>3, <1>1, <1>3, <1>p
    <3> HIDE DEF S
    <3>2. \A x \in 0 .. p[s] - m : s - x \in 1 .. Len(p) /\ p[s - x] = p[s] - x
      BY <3>1, <3>4, PicksBackward
    <3>3. a - m \in 0 .. a - m /\ a - (a - m) = m
      BY <2>3, <1>5
    <3> QED BY <3>2, <3>3, <1>p
  <2>5. Together(p, i0, b - m)
    <3> HIDE DEF i0
    <3> QED BY <2>2, <2>3, <2>4, <1>9
  <2>6. /\ i0 + 0 = i0 /\ m + 0 = m /\ m + (b - m) = b /\ b - m \in Nat
        /\ 0 \in 0 .. b - m /\ b - m \in 0 .. b - m
        /\ i0 + (b - m) = s + d /\ i0 < s /\ i0 \in 1 .. s
    <3>1. b = a + d /\ s \in Int
      BY <1>1, <1>3 DEF b
    <3> QED BY <3>1, <2>3, <2>4, <1>1, <1>3, <1>5
  <2>7. NameRun(part, i0, s + d)
    <3> HIDE DEF i0
    <3>1. NameRun(part, i0 + 0, i0 + (b - m)) <=> NameRun(t, p[i0] + 0, p[i0] + (b - m))
      BY <2>4, <2>5, <2>6, RunOfPart
    <3> QED BY <3>1, <2>2, <2>4, <2>6
  <2> QED BY <2>6, <2>7, <1>6
<1> QED
  <2>1. b + 1 \in Int /\ a \in Int /\ a \in 1 .. N /\ b \in 1 .. N
    BY <1>1, <1>5
  <2> QED BY <2>1, <1>5, <1>10, <1>11, <1>12, NamesAreRuns DEF N

\* A hit of another kind on a part of the line is one of the line too, or
\* touches a cut.
LEMMA HitOfPart ==
    ASSUME NEW t \in Seq(Cell), NEW cut, NEW p, NEW part, Parted(t, cut, p, part),
           NEW h \in Dangling(part) \cup Emails(part) \cup LongEmails(part)
                     \cup Numbers(part) \cup Addresses(part)
    PROVE  \/ RemapHit(h, p) \in Dangling(t) \cup Emails(t) \cup LongEmails(t)
                                 \cup Numbers(t) \cup Addresses(t)
           \/ Touches(t, cut, p[h.s], p[h.s] + (h.e - h.s) - 1)
<1> DEFINE N == Len(t)
           S == DOMAIN t \ cut
<1>1. /\ N \in Nat /\ Len(p) \in Nat /\ DOMAIN t = 1 .. N
      /\ \A n \in 1 .. Len(p) : p[n] \in 1 .. N /\ p[n] \notin cut /\ part[n] = t[p[n]]
      /\ part \in Seq(Cell) /\ Len(part) = Len(p) /\ DOMAIN part = 1 .. Len(p)
  BY PickedIsIn, SplicedLine DEF Parted
<1>2. Picks(p, N, S)
  BY DEF Parted
<1> HIDE DEF N, S
<1>3. ASSUME NEW i \in 1 .. Len(p), NEW c, IsCell(part, i + 1, c), p[i] + 1 \notin cut
      PROVE  p[i + 1] = p[i] + 1 /\ IsCell(t, p[i] + 1, c)
  <2>1. i + 1 \in 1 .. Len(p) /\ i < i + 1
    BY <1>1, <1>3 DEF IsCell
  <2>2. p[i] < p[i + 1] /\ p[i] \in 1 .. N /\ p[i + 1] \in 1 .. N
    BY <2>1, <1>1, <1>2 DEF Picks
  <2>3. p[i] + 1 \in Nat /\ p[i] <= p[i] + 1 /\ p[i] + 1 <= N /\ p[i] + 1 \in 1 .. N
    BY <2>2, <1>1
  <2>4. \A k \in p[i] .. p[i] + 1 : k \in S
    <3> SUFFICES ASSUME NEW k \in p[i] .. p[i] + 1 PROVE k \in 1 .. N /\ k \notin cut
      BY <1>1 DEF S
    <3>1. k = p[i] \/ k = p[i] + 1
      BY <2>2
    <3> QED BY <3>1, <2>2, <2>3, <1>1, <1>3
  <2>5. \A m \in 0 .. (p[i] + 1) - p[i] : i + m \in 1 .. Len(p) /\ p[i + m] = p[i] + m
    <3> DEFINE b == p[i] + 1
    <3>1. N \in Nat /\ b \in Nat /\ p[i] <= b /\ b <= N /\ \A k \in p[i] .. b : k \in S
      BY <2>3, <2>4, <1>1
    <3> HIDE DEF b
    <3>2. \A m \in 0 .. b - p[i] : i + m \in 1 .. Len(p) /\ p[i + m] = p[i] + m
      BY <3>1, <1>2, PicksOnward
    <3> QED BY <3>2 DEF b
  <2>6. 1 \in 0 .. (p[i] + 1) - p[i]
    BY <2>2
  <2>7. p[i + 1] = p[i] + 1
    BY <2>5, <2>6
  <2> QED BY <2>1, <2>3, <2>7, <1>1, <1>3 DEF IsCell
<1>4. ASSUME NEW x \in 1 .. N, NEW y \in Nat, NEW c \in cut, c \in x .. y + 1
      PROVE  Touches(t, cut, x, y)
  <2>1. y + 1 .. c - 1 = {} /\ c + 1 .. x - 1 = {}
    BY <1>1, <1>4
  <2> QED BY <2>1 DEF Touches
<1>5. ASSUME NEW c, NEW type, h \in OneCell(part, c, type)
      PROVE  RemapHit(h, p) \in OneCell(t, c, type)
  <2>1. PICK i \in 1 .. Len(p) : part[i] = c /\ h = Span(type, i, i + 1)
    BY <1>1, <1>5 DEF OneCell
  <2>2. h.type = type /\ h.s = i /\ h.e - h.s = 1
    BY <2>1, <1>1 DEF Span
  <2>3. RemapHit(h, p) = Span(type, p[i], p[i] + 1)
    BY <2>2 DEF RemapHit
  <2>4. p[i] \in DOMAIN t /\ t[p[i]] = c
    BY <2>1, <1>1
  <2> QED BY <2>3, <2>4 DEF OneCell
<1>6. CASE h \in Dangling(part)
  <2>1. PICK i \in 1 .. Len(p) :
            /\ part[i] \in Word \ {"nm"}
            /\ IsCell(part, i + 1, "eq")
            /\ i + 1 = Len(part) \/ IsCell(part, i + 2, "sp")
            /\ h = Span("PERSON", i, i + 2)
    BY <1>1, <1>6 DEF Dangling
  <2>2. h.type = "PERSON" /\ h.s = i /\ h.e - h.s = 2
    <3>1. h.type = "PERSON" /\ h.s = i /\ h.e = i + 2
      BY <2>1 DEF Span
    <3>2. (i + 2) - i = 2
      BY <1>1
    <3> QED BY <3>1, <3>2
  <2>3. RemapHit(h, p) = Span("PERSON", p[i], p[i] + 2)
    BY <2>2 DEF RemapHit
  <2>4. p[i] \in 1 .. N /\ t[p[i]] \in Word \ {"nm"} /\ p[i] \notin cut
    BY <2>1, <1>1
  <2> DEFINE a == p[i]
  <2>5. a \in 1 .. N /\ a + 2 - 1 = a + 1 /\ a + 1 \in Nat
    BY <2>4, <1>1
  <2>6. SUFFICES ASSUME a + 1 \notin cut, a + 2 \notin cut
               PROVE  h.type = "PERSON" /\ RemapHit(h, p) \in Dangling(t)
    <3>1. a + 1 \in a .. (a + 1) + 1 /\ a + 2 \in a .. (a + 1) + 1
      BY <2>5
    <3>2. (a + 1 \in cut \/ a + 2 \in cut) => Touches(t, cut, a, a + 1)
      <4> HIDE DEF a
      <4> QED BY <3>1, <2>5, <1>4
    <3> QED BY <3>2, <2>2, <2>5
  <2>7. p[i + 1] = a + 1 /\ IsCell(t, a + 1, "eq") /\ i + 1 \in 1 .. Len(p)
    BY <2>1, <2>6, <1>1, <1>3 DEF IsCell
  <2>8. a + 1 = N \/ IsCell(t, a + 2, "sp")
    <3>1. a + 1 \in 1 .. N /\ (a + 1) + 1 = a + 2 /\ (i + 1) + 1 = i + 2
      BY <2>5, <2>7, <1>1 DEF IsCell
    <3>2. CASE IsCell(part, i + 2, "sp")
      <4>1. IsCell(part, (i + 1) + 1, "sp") /\ p[i + 1] + 1 \notin cut
        BY <3>1, <3>2, <2>6, <2>7
      <4>2. IsCell(t, p[i + 1] + 1, "sp")
        BY <4>1, <2>7, <1>3
      <4> QED BY <4>2, <3>1, <2>7
    <3>3. CASE i + 1 = Len(part) /\ a + 1 # N
      <4>1. a + 2 \in 1 .. N /\ a + 2 \in S
        BY <3>1, <3>3, <2>6, <1>1 DEF S
      <4>2. PICK k \in 1 .. Len(p) : p[k] = a + 2
        BY <4>1, <1>2 DEF Picks
      <4>3. k <= i + 1 /\ k # i + 1
        BY <4>2, <3>3, <2>5, <2>7, <1>1
      <4>4. p[k] < p[i + 1]
        BY <4>3, <2>7, <1>1, <1>2 DEF Picks
      <4> QED BY <4>2, <4>4, <2>5, <2>7
    <3> QED BY <3>2, <3>3, <2>1
  <2>9. RemapHit(h, p) = Span("PERSON", a, a + 2) /\ a \in DOMAIN t /\ t[a] \in Word \ {"nm"}
    BY <2>3, <2>4, <1>1
  <2> HIDE DEF a
  <2> QED BY <2>2, <2>7, <2>8, <2>9 DEF Dangling, N
<1>7. ASSUME NEW j \in AtSigns(part), p[j - 1] + 1 \notin cut, p[j - 1] + 2 \notin cut
      PROVE  p[j - 1] + 1 \in AtSigns(t) /\ p[j + 1] = p[j - 1] + 2
  <2>1. /\ j \in 2 .. Len(p) - 1
        /\ part[j - 1] \in Word \cup {"ip", "ss"} /\ part[j] = "at" /\ part[j + 1] \in Word
    BY <1>1, EmailPlaces
  <2> DEFINE i == j - 1
             a == p[i]
  <2>2. i \in 1 .. Len(p) /\ i + 1 = j /\ j \in 1 .. Len(p) /\ j + 1 \in 1 .. Len(p)
    BY <2>1, <1>1
  <2>3. a \in 1 .. N /\ t[a] = part[i]
    BY <2>2, <1>1
  <2>4. a + 1 \notin cut /\ a + 2 \notin cut
    BY <1>7
  <2>5. p[j] = a + 1 /\ IsCell(t, a + 1, "at")
    <3>1. IsCell(part, i + 1, "at")
      BY <2>1, <2>2, <1>1 DEF IsCell
    <3> HIDE DEF i
    <3> QED BY <3>1, <2>2, <2>4, <1>3
  <2>6. p[j + 1] = (a + 1) + 1 /\ IsCell(t, (a + 1) + 1, part[j + 1])
    <3>1. IsCell(part, j + 1, part[j + 1])
      BY <2>2, <1>1 DEF IsCell
    <3>2. (a + 1) + 1 = a + 2
      BY <2>3, <1>1
    <3> HIDE DEF i, a
    <3> QED BY <3>1, <3>2, <2>2, <2>4, <2>5, <1>3
  <2>7. part[i] \in Word \cup {"ip", "ss"} /\ part[j + 1] \in Word
    BY <2>1
  <2> DEFINE o == a + 1
  <2>8. o \in 1 .. N /\ o + 1 \in 1 .. N /\ t[o] = "at" /\ t[o + 1] \in Word
    BY <2>5, <2>6, <2>7, <1>1 DEF IsCell
  <2> HIDE DEF i, a
  <2>9. o - 1 = a /\ o > 1 /\ o < N /\ o + 1 = a + 2
    BY <2>3, <2>8, <1>1
  <2>10. o \in AtSigns(t)
    <3>1. o \in DOMAIN t /\ Len(t) = N
      BY <2>8, <1>1 DEF N
    <3> HIDE DEF o
    <3> QED BY <3>1, <2>3, <2>7, <2>8, <2>9 DEF AtSigns
  <2> QED BY <2>6, <2>9, <2>10 DEF o, a, i
<1>8. ASSUME NEW j \in AtSigns(part)
      PROVE  /\ j - 1 \in 1 .. Len(p) /\ j + 1 \in 1 .. Len(p)
             /\ p[j - 1] \in 1 .. N
             /\ (j + 2) - (j - 1) = 3 /\ (j + 3) - (j - 1) = 4
             /\ (p[j - 1] + 1) - 1 = p[j - 1]
             /\ (p[j - 1] + 1) + 2 = p[j - 1] + 3 /\ (p[j - 1] + 1) + 3 = p[j - 1] + 4
  <2>1. j \in 2 .. Len(p) - 1
    BY <1>1, EmailPlaces
  <2>2. j - 1 \in 1 .. Len(p) /\ j + 1 \in 1 .. Len(p)
    BY <2>1, <1>1
  <2>3. p[j - 1] \in 1 .. N
    BY <2>2, <1>1
  <2> DEFINE a == p[j - 1]
  <2>4. a \in Nat
    BY <2>3, <1>1
  <2> HIDE DEF a
  <2>5. (a + 1) - 1 = a /\ (a + 1) + 2 = a + 3 /\ (a + 1) + 3 = a + 4
    BY <2>4
  <2>6. (j + 2) - (j - 1) = 3 /\ (j + 3) - (j - 1) = 4
    BY <2>1, <1>1
  <2> QED BY <2>2, <2>3, <2>5, <2>6 DEF a
<1>9. CASE h \in Emails(part)
  <2>1. PICK j \in AtSigns(part) : h = Span("EMAIL", j - 1, j + 2)
    BY <1>1, <1>9, EmailPlaces
  <2> DEFINE a == p[j - 1]
  <2>2. h.type = "EMAIL" /\ h.s = j - 1 /\ h.e - h.s = 3
    BY <2>1, <1>8 DEF Span
  <2>3. RemapHit(h, p) = Span("EMAIL", a, a + 3)
    BY <2>2 DEF RemapHit
  <2>4. CASE a + 1 \notin cut /\ a + 2 \notin cut
    <3>1. a + 1 \in AtSigns(t)
      BY <2>4, <1>7
    <3>2. Span("EMAIL", (a + 1) - 1, (a + 1) + 2) \in Emails(t)
      BY <3>1, EmailPlaces
    <3> QED BY <2>3, <3>2, <1>8
  <2>5. CASE a + 1 \in cut \/ a + 2 \in cut
    <3>1. a \in 1 .. N
      BY <1>8
    <3> HIDE DEF a
    <3>2. /\ a + 1 \in a .. (a + 2) + 1 /\ a + 2 \in a .. (a + 2) + 1
          /\ a + 2 \in Nat /\ a + 3 - 1 = a + 2
      BY <3>1, <1>1
    <3>3. Touches(t, cut, a, a + 3 - 1)
      BY <3>1, <3>2, <2>5, <1>4
    <3> QED BY <3>3, <2>2 DEF a
  <2> QED BY <2>4, <2>5
<1>10. CASE h \in LongEmails(part)
  <2>1. PICK j \in AtSigns(part) : IsCell(part, j + 2, "lab") /\ h = Span("EMAIL", j - 1, j + 3)
    BY <1>1, <1>10, EmailPlaces
  <2> DEFINE a == p[j - 1]
  <2>2. h.type = "EMAIL" /\ h.s = j - 1 /\ h.e - h.s = 4
    BY <2>1, <1>8 DEF Span
  <2>3. RemapHit(h, p) = Span("EMAIL", a, a + 4)
    BY <2>2 DEF RemapHit
  <2>4. CASE a + 1 \notin cut /\ a + 2 \notin cut /\ a + 3 \notin cut
    <3>1. a + 1 \in AtSigns(t) /\ p[j + 1] = a + 2
      BY <2>4, <1>7
    <3>2. (j + 1) + 1 = j + 2 /\ (a + 2) + 1 = a + 3 /\ (a + 1) + 2 = a + 3
      <4>1. j \in 2 .. Len(p) - 1
        BY <1>1, EmailPlaces
      <4>2. a \in Nat
        BY <1>8, <1>1
      <4> HIDE DEF a
      <4> QED BY <4>1, <4>2, <1>1
    <3>3. IsCell(part, (j + 1) + 1, "lab") /\ p[j + 1] + 1 \notin cut
      BY <2>1, <2>4, <3>1, <3>2
    <3>4. j + 1 \in 1 .. Len(p)
      BY <1>8
    <3>5. IsCell(t, p[j + 1] + 1, "lab")
      BY <3>3, <3>4, <1>3
    <3>6. IsCell(t, (a + 1) + 2, "lab")
      BY <3>5, <3>1, <3>2
    <3>7. Span("EMAIL", (a + 1) - 1, (a + 1) + 3) \in LongEmails(t)
      BY <3>1, <3>6, EmailPlaces
    <3> QED BY <2>3, <3>7, <1>8
  <2>5. CASE a + 1 \in cut \/ a + 2 \in cut \/ a + 3 \in cut
    <3>1. a \in 1 .. N
      BY <1>8
    <3> HIDE DEF a
    <3>2. /\ a + 1 \in a .. (a + 3) + 1 /\ a + 2 \in a .. (a + 3) + 1
          /\ a + 3 \in a .. (a + 3) + 1 /\ a + 3 \in Nat /\ a + 4 - 1 = a + 3
      BY <3>1, <1>1
    <3>3. Touches(t, cut, a, a + 4 - 1)
      BY <3>1, <3>2, <2>5, <1>4
    <3> QED BY <3>3, <2>2 DEF a
  <2> QED BY <2>4, <2>5
<1> QED
  BY <1>5, <1>6, <1>9, <1>10 DEF Addresses, Numbers

\* A person of the line that touches no cut is found in what is left.
LEMMA PersonIsKept ==
    ASSUME NEW t \in Seq(Cell), NEW cut, NEW p, NEW part, Parted(t, cut, p, part),
           NEW h \in Names(t), ~Touches(t, cut, h.s, h.e - 1)
    PROVE  \E g \in Names(part) : RemapHit(g, p) = h
<1> DEFINE N == Len(t)
           S == DOMAIN t \ cut
           a == h.s
           b == h.e - 1
           d == b - a
<1>1. /\ N \in Nat /\ Len(p) \in Nat /\ DOMAIN t = 1 .. N
      /\ \A n \in 1 .. Len(p) : p[n] \in 1 .. N /\ part[n] = t[p[n]]
      /\ part \in Seq(Cell) /\ Len(part) = Len(p)
  BY PickedIsIn, SplicedLine DEF Parted
<1>2. /\ Picks(p, N, S)
      /\ \A k, l \in 1 .. Len(p) : k < l => p[k] < p[l]
  BY DEF Parted, Picks
<1>3. h = Span("PERSON", h.s, h.e) /\ h.s \in Int /\ h.e \in Int
  <2>1. SpansIn("PERSON", N, Names(t))
    BY Recognised
  <2>2. PICK x \in 1 .. N, y \in 2 .. N + 1 : h = Span("PERSON", x, y)
    BY <2>1 DEF SpansIn
  <2> QED BY <2>2, <1>1 DEF Span
<1>4. /\ a \in 1 .. N /\ b \in 1 .. N /\ NameRun(t, a, b)
      /\ \A i \in 1 .. a : NameRun(t, i, b) => i = a
      /\ \A j \in b .. N : NameRun(t, a, j) => j = b
  <2>1. Span("PERSON", h.s, h.e) \in Names(t)
    BY <1>3
  <2> QED BY <2>1, <1>3, NamesAreRuns
<1>5. a <= b /\ d \in Nat /\ a + d = b /\ h.e = b + 1
  BY <1>1, <1>3, <1>4 DEF NameRun
<1>6. h = Span("PERSON", a, b + 1)
  BY <1>3, <1>5
<1>7. ~Touches(t, cut, a, b)
  OBVIOUS
<1> HIDE DEF a, b, N, S
<1> HIDE DEF d
<1>8. \A k \in a .. b : k \in S
  <2> SUFFICES ASSUME NEW k \in a .. b, k \in cut PROVE FALSE
    BY <1>1, <1>4 DEF S
  <2>1. b + 1 .. k - 1 = {} /\ k + 1 .. a - 1 = {}
    BY <1>1, <1>4
  <2> QED BY <2>1, <1>7 DEF Touches
<1>9. PICK i \in 1 .. Len(p) : p[i] = a
  <2>1. a \in a .. b /\ a \in 1 .. N
    BY <1>1, <1>4, <1>5
  <2> QED BY <2>1, <1>2, <1>8 DEF Picks
<1>10. Together(p, i, d)
  <2>1. b \in Nat /\ p[i] <= b /\ b <= N /\ b - p[i] = d /\ \A k \in p[i] .. b : k \in S
    BY <1>1, <1>4, <1>5, <1>8, <1>9
  <2>2. \A m \in 0 .. b - p[i] : i + m \in 1 .. Len(p) /\ p[i + m] = p[i] + m
    <3>1. N \in Nat /\ Picks(p, N, S)
      BY <1>1, <1>2
    <3> QED BY <2>1, <3>1, PicksOnward
  <2> QED BY <2>1, <2>2 DEF Together
<1> DEFINE e == i + d
<1>11. e \in 1 .. Len(p) /\ p[e] = b /\ i <= e /\ e \in Int
  <2>1. d \in 0 .. d
    BY <1>5
  <2>2. i + d \in 1 .. Len(p) /\ p[i + d] = p[i] + d
    BY <2>1, <1>10 DEF Together
  <2> QED BY <2>2, <1>1, <1>5, <1>9
<1>12. NameRun(part, i, e)
  <2>1. 0 \in 0 .. d /\ d \in 0 .. d /\ i + 0 = i /\ a + 0 = a
    BY <1>1, <1>4, <1>5
  <2>2. NameRun(part, i + 0, i + d) <=> NameRun(t, p[i] + 0, p[i] + d)
    BY <2>1, <1>5, <1>10, RunOfPart
  <2> QED BY <2>1, <2>2, <1>4, <1>5, <1>9
<1> HIDE DEF e
<1>13. ASSUME NEW y \in e .. Len(p), NameRun(part, i, y), y # e
       PROVE  FALSE
  <2>1. y \in 1 .. Len(p) /\ e < y
    BY <1>1, <1>11, <1>13
  <2> DEFINE z == p[y]
             T == {m \in b + 1 .. z : m \in cut \/ t[m] = "nm"}
  <2>2. z \in b + 1 .. N /\ t[z] = "nm"
    <3>1. p[e] < p[y] /\ p[y] \in 1 .. N /\ part[y] = "nm"
      BY <2>1, <1>1, <1>2, <1>11, <1>13 DEF NameRun
    <3> QED BY <3>1, <2>1, <1>1, <1>4, <1>11
  <2> HIDE DEF z
  <2>3. T \subseteq Nat /\ T # {}
    <3>1. z \in T
      BY <2>2, <1>1, <1>4
    <3>2. \A m \in T : m \in Nat
      BY <1>1, <1>4
    <3> HIDE DEF T
    <3> QED BY <3>1, <3>2
  <2>4. PICK m \in T : \A k \in T : m <= k
    <3> HIDE DEF T
    <3> QED BY <2>3, LeastOf
  <2>5. m \in b + 1 .. z /\ (m \in cut \/ t[m] = "nm")
    OBVIOUS
  <2>6. ASSUME NEW k \in b + 1 .. m - 1
        PROVE  k \notin cut /\ t[k] = "sp"
    <3>1. k \in b + 1 .. z /\ ~ (m <= k) /\ k \in 1 .. N /\ b < k /\ k < z
      BY <2>2, <2>5, <1>1, <1>4
    <3>2. k \notin T
      BY <2>4, <3>1
    <3>3. k \notin cut /\ t[k] # "nm"
      BY <3>1, <3>2
    <3>4. PICK n \in 1 .. Len(p) : p[n] = k
      BY <3>1, <3>3, <1>1, <1>2 DEF Picks, S
    <3>5. e < n /\ n < y
      <4>1. ~ (n < e) /\ n # e /\ ~ (y < n) /\ y # n
        BY <2>1, <3>1, <3>4, <1>1, <1>2, <1>4, <1>11 DEF z
      <4> QED BY <4>1, <2>1, <1>11
    <3>6. n \in i .. y
      BY <3>5, <1>11
    <3>7. part[n] \in {"nm", "sp"}
      BY <3>6, <1>13 DEF NameRun
    <3> QED BY <3>3, <3>4, <3>7, <1>1
  <2>7. m \notin cut
    <3>1. m + 1 .. a - 1 = {}
      BY <2>2, <2>5, <1>1, <1>4, <1>5
    <3> QED BY <3>1, <2>6, <1>7 DEF Touches
  <2>8. NameRun(t, a, m)
    <3>1. a <= m /\ t[m] = "nm"
      BY <2>2, <2>5, <2>7, <1>1, <1>4, <1>5
    <3>2. ASSUME NEW k \in a .. m
          PROVE  t[k] \in {"nm", "sp"}
      <4>1. k \in a .. b \/ k \in b + 1 .. m - 1 \/ k = m
        BY <2>2, <2>5, <1>1, <1>4
      <4> QED BY <4>1, <2>6, <3>1, <1>4 DEF NameRun
    <3> QED BY <3>1, <3>2, <1>4 DEF NameRun
  <2>9. m \in b .. N /\ m # b
    BY <2>2, <2>5, <1>1, <1>4
  <2> QED BY <2>8, <2>9, <1>4
<1>14. ASSUME NEW y \in 1 .. i, NameRun(part, y, e), y # i
       PROVE  FALSE
  <2>1. y \in 1 .. Len(p) /\ y < i
    BY <1>1, <1>14
  <2> DEFINE z == p[y]
             T == {m \in z .. a - 1 : m \in cut \/ t[m] = "nm"}
  <2>2. z \in 1 .. a - 1 /\ t[z] = "nm"
    <3>1. p[y] < p[i] /\ p[y] \in 1 .. N /\ part[y] = "nm"
      BY <2>1, <1>1, <1>2, <1>14 DEF NameRun
    <3> QED BY <3>1, <2>1, <1>1, <1>4, <1>9
  <2> HIDE DEF z
  <2>3. T \subseteq 0 .. N /\ T # {}
    <3>1. z \in T
      BY <2>2, <1>1, <1>4
    <3>2. \A m \in T : m \in 0 .. N
      BY <2>2, <1>1, <1>4
    <3> HIDE DEF T
    <3> QED BY <3>1, <3>2
  <2> DEFINE m == Max(T)
  <2>4. m \in T /\ \A k \in T : k <= m
    <3> HIDE DEF T
    <3> QED BY <2>3, <1>1, GreatestOf
  <2> HIDE DEF m
  <2>5. m \in z .. a - 1 /\ (m \in cut \/ t[m] = "nm")
    BY <2>4
  <2>6. ASSUME NEW k \in m + 1 .. a - 1
        PROVE  k \notin cut /\ t[k] = "sp"
    <3>1. k \in z .. a - 1 /\ ~ (k <= m) /\ k \in 1 .. N /\ z < k /\ k < a
      BY <2>2, <2>5, <1>1, <1>4
    <3>2. k \notin T
      BY <2>4, <3>1
    <3>3. k \notin cut /\ t[k] # "nm"
      BY <3>1, <3>2
    <3>4. PICK n \in 1 .. Len(p) : p[n] = k
      BY <3>1, <3>3, <1>1, <1>2 DEF Picks, S
    <3>5. y < n /\ n < i
      <4>1. ~ (n < y) /\ n # y /\ ~ (i < n) /\ i # n
        BY <2>1, <3>1, <3>4, <1>1, <1>2, <1>4, <1>9 DEF z
      <4> QED BY <4>1, <2>1, <1>1
    <3>6. n \in y .. e
      BY <3>5, <2>1, <1>11
    <3>7. part[n] \in {"nm", "sp"}
      BY <3>6, <1>14 DEF NameRun
    <3> QED BY <3>3, <3>4, <3>7, <1>1
  <2>7. m \notin cut
    <3>1. b + 1 .. m - 1 = {}
      BY <2>2, <2>5, <1>1, <1>4, <1>5
    <3> QED BY <3>1, <2>6, <1>7 DEF Touches
  <2>8. NameRun(t, m, b)
    <3>1. m <= b /\ t[m] = "nm"
      BY <2>2, <2>5, <2>7, <1>1, <1>4, <1>5
    <3>2. ASSUME NEW k \in m .. b
          PROVE  t[k] \in {"nm", "sp"}
      <4>1. k \in a .. b \/ k \in m + 1 .. a - 1 \/ k = m
        BY <2>2, <2>5, <1>1, <1>4
      <4> QED BY <4>1, <2>6, <3>1, <1>4 DEF NameRun
    <3> QED BY <3>1, <3>2, <1>4 DEF NameRun
  <2>9. m \in 1 .. a /\ m # a
    BY <2>2, <2>5, <1>1, <1>4
  <2> QED BY <2>8, <2>9, <1>4
<1> DEFINE g == Span("PERSON", i, e + 1)
<1>15. g \in Names(part)
  <2>1. (e + 1) - 1 = e /\ e + 1 \in Int /\ i \in Int
    BY <1>1, <1>11
  <2> DEFINE o == e + 1
  <2>2. /\ i \in 1 .. Len(part) /\ o - 1 \in 1 .. Len(part) /\ NameRun(part, i, o - 1)
        /\ \A y \in 1 .. i : NameRun(part, y, o - 1) => y = i
        /\ \A y \in o - 1 .. Len(part) : NameRun(part, i, y) => y = o - 1
    BY <2>1, <1>1, <1>11, <1>12, <1>13, <1>14
  <2>3. o \in Int
    BY <2>1
  <2> HIDE DEF o
  <2>4. Span("PERSON", i, o) \in Names(part)
    BY <2>1, <2>2, <2>3, <1>1, NamesAreRuns
  <2> QED BY <2>4 DEF o
<1>16. RemapHit(g, p) = h
  <2>1. g.type = "PERSON" /\ g.s = i /\ g.e = e + 1
    BY DEF Span
  <2>2. (e + 1) - i = d + 1 /\ a + (d + 1) = b + 1
    <3>1. e = i + d /\ i \in Int /\ a \in Int /\ b \in Int
      BY <1>1, <1>4 DEF e
    <3> QED BY <3>1, <1>5
  <2> HIDE DEF g
  <2> QED BY <2>1, <2>2, <1>6, <1>9 DEF RemapHit
<1> QED
  BY <1>15, <1>16

\* The same of the full length of an address with @.
LEMMA EmailIsKept ==
    ASSUME NEW t \in Seq(Cell), NEW cut, NEW p, NEW part, Parted(t, cut, p, part),
           NEW h \in LongEmails(t), ~Touches(t, cut, h.s, h.e - 1)
    PROVE  \E g \in LongEmails(part) : RemapHit(g, p) = h
<1> DEFINE N == Len(t)
           S == DOMAIN t \ cut
<1>1. /\ N \in Nat /\ Len(p) \in Nat /\ DOMAIN t = 1 .. N
      /\ \A n \in 1 .. Len(p) : p[n] \in 1 .. N /\ part[n] = t[p[n]]
      /\ part \in Seq(Cell) /\ Len(part) = Len(p) /\ DOMAIN part = 1 .. Len(p)
      /\ Picks(p, N, S)
  BY PickedIsIn, SplicedLine DEF Parted
<1>2. PICK j \in AtSigns(t) : IsCell(t, j + 2, "lab") /\ h = Span("EMAIL", j - 1, j + 3)
  BY EmailPlaces
<1>3. /\ j \in 2 .. N - 1 /\ t[j - 1] \in Word \cup {"ip", "ss"}
      /\ t[j] = "at" /\ t[j + 1] \in Word
  BY EmailPlaces
<1>4. j + 2 \in 1 .. N /\ t[j + 2] = "lab"
  BY <1>1, <1>2 DEF IsCell
<1>5. h.s = j - 1 /\ h.e - 1 = j + 2
  BY <1>2, <1>3, <1>1 DEF Span
<1> HIDE DEF N, S
<1> DEFINE a == j - 1
           b == j + 2
<1>6. /\ a \in Nat /\ b \in Nat /\ a <= b /\ b <= N /\ b - a = 3 /\ a \in 1 .. N
      /\ a + 1 = j /\ a + 2 = j + 1 /\ a + 3 = j + 2 /\ a + 4 = j + 3
  BY <1>1, <1>3, <1>4
<1>7. h.s = a /\ h.e - 1 = b /\ t[b] = "lab" /\ h = Span("EMAIL", a, a + 4)
  BY <1>2, <1>4, <1>5, <1>6
<1>8. t[a] \in Word \cup {"ip", "ss"} /\ t[a + 1] = "at" /\ t[a + 2] \in Word /\ t[a + 3] = "lab"
  BY <1>3, <1>4, <1>6
<1> HIDE DEF a, b
<1>9. \A k \in a .. b : k \in S
  <2> SUFFICES ASSUME NEW k \in a .. b, k \in cut PROVE FALSE
    BY <1>1, <1>6 DEF S
  <2>1. b + 1 .. k - 1 = {} /\ k + 1 .. a - 1 = {}
    BY <1>6
  <2> QED BY <2>1, <1>7 DEF Touches
<1>10. PICK i \in 1 .. Len(p) : p[i] = a
  <2>1. a \in a .. b
    BY <1>6
  <2> QED BY <2>1, <1>1, <1>6, <1>9 DEF Picks
<1>11. \A m \in 0 .. b - p[i] : i + m \in 1 .. Len(p) /\ p[i + m] = p[i] + m
  <2>1. \A k \in p[i] .. b : k \in S
    BY <1>9, <1>10
  <2>2. p[i] <= b /\ b <= N /\ b \in Nat
    BY <1>6, <1>10
  <2>3. N \in Nat /\ Picks(p, N, S)
    BY <1>1
  <2> QED BY <2>1, <2>2, <2>3, PicksOnward
<1>12. \A m \in 0 .. 3 : i + m \in 1 .. Len(p) /\ part[i + m] = t[a + m]
  BY <1>1, <1>6, <1>10, <1>11
<1>13. /\ i \in Nat /\ i + 1 \in 1 .. Len(p) /\ i + 2 \in 1 .. Len(p) /\ i + 3 \in 1 .. Len(p)
       /\ part[i] = t[a] /\ part[i + 1] = t[a + 1]
       /\ part[i + 2] = t[a + 2] /\ part[i + 3] = t[a + 3]
  <2>1. 0 \in 0 .. 3 /\ 1 \in 0 .. 3 /\ 2 \in 0 .. 3 /\ 3 \in 0 .. 3 /\ i + 0 = i /\ a + 0 = a
    BY <1>1, <1>6
  <2> QED BY <2>1, <1>1, <1>12
<1> DEFINE o == i + 1
           g == Span("EMAIL", o - 1, o + 3)
<1>14. /\ o \in 1 .. Len(p) /\ o > 1 /\ o < Len(part) /\ o - 1 = i /\ o + 1 = i + 2 /\ o + 2 = i + 3
       /\ (o + 3) - (o - 1) = 4
  BY <1>13, <1>1
<1>15. part[o] = "at" /\ part[o - 1] \in Word \cup {"ip", "ss"} /\ part[o + 1] \in Word
  <2>1. part[o] = "at"
    BY <1>8, <1>13
  <2> HIDE DEF o
  <2> QED BY <2>1, <1>8, <1>13, <1>14
<1> HIDE DEF o
<1>16. o \in AtSigns(part) /\ IsCell(part, o + 2, "lab")
  BY <1>1, <1>8, <1>13, <1>14, <1>15 DEF AtSigns, IsCell
<1>17. g \in LongEmails(part)
  BY <1>1, <1>16, EmailPlaces
<1>18. g.type = "EMAIL" /\ g.s = i /\ g.e - g.s = 4
  BY <1>14 DEF Span
<1>19. RemapHit(g, p) = h
  BY <1>7, <1>10, <1>18 DEF RemapHit
<1> QED
  BY <1>17, <1>19

-----------------------------------------------------------------------------
(* The field gate.                                                         *)

CutBy(t, values) == UNION {WithKey(t, v) : v \in values}
CoveredValues(t, logType) == Covered(FieldValues(t, logType), ScanRegex(t))
HasLetters(t, v) == \E i \in Cells(v) : t[i] \in Alphabetic

\* What the gate does, and the part of the line that the model sees behind it.
LEMMA GateCuts ==
    ASSUME NEW t \in Seq(Cell), NEW logType
    PROVE  LET gate == Gate(t, FieldValues(t, logType), ScanRegex(t))
               p == Kept(t, gate.cut)
           IN  /\ gate.cut = CutBy(t, CoveredValues(t, logType))
               /\ gate.skip <=>
                     /\ CoveredValues(t, logType) # {}
                     /\ \A v \in FieldValues(t, logType) \ CoveredValues(t, logType) :
                           ~HasLetters(t, v)
               /\ Parted(t, gate.cut, p, Spliced(t, p))
<1> DEFINE gate == Gate(t, FieldValues(t, logType), ScanRegex(t))
<1>1. /\ gate.cut = CutBy(t, CoveredValues(t, logType))
      /\ gate.skip <=>
            /\ CoveredValues(t, logType) # {}
            /\ \A v \in FieldValues(t, logType) \ CoveredValues(t, logType) : ~HasLetters(t, v)
  BY DEF Gate, CutBy, CoveredValues, HasLetters
<1>2. Parted(t, gate.cut, Kept(t, gate.cut), Spliced(t, Kept(t, gate.cut)))
  BY KeptPicks DEF Parted
<1> QED
  BY <1>1, <1>2

\* A finding that only the gate gives touches what was cut out, and starts
\* outside of it.
LEMMA GateAdds ==
    ASSUME NEW t \in Seq(Cell), NEW logType,
           NEW h \in ToSet(DetectGated(t, logType)) \ ToSet(DetectAll(t))
    PROVE  LET cut == CutBy(t, CoveredValues(t, logType))
           IN  /\ h \in Spans(Len(t))
               /\ Touches(t, cut, h.s, h.e - 1)
               /\ h.s \notin cut
<1> DEFINE R == ScanRegex(t)
           gate == Gate(t, FieldValues(t, logType), R)
           cut == gate.cut
           p == Kept(t, cut)
           part == Spliced(t, p)
           gated == ScanNerGated(t, R, gate)
           others == ToSet(R) \cup ToSet(ScanEntropy(t)) \cup ToSet(ScanFlattened(t))
<1>1. /\ gated \in Seq(Spans(Len(t)))
      /\ ToSet(DetectGated(t, logType)) = ToSet(gated) \cup others
      /\ ToSet(DetectAll(t)) = ToSet(ScanNer(t)) \cup others
  BY Detected
<1>2. cut = CutBy(t, CoveredValues(t, logType)) /\ Parted(t, cut, p, part)
  BY GateCuts
<1>3. /\ ScanNer(part) \in Seq(Spans(Len(p)))
      /\ ToSet(ScanNerOn(t, p)) = {RemapHit(g, p) : g \in ToSet(ScanNer(part))}
  BY NerOnPart
<1>4. /\ h \in ToSet(gated) /\ h \notin ToSet(ScanNer(t)) /\ h \notin ToSet(DetectAll(t))
      /\ ToSet(DetectAll(t)) = ToSet(ScanNer(t)) \cup others /\ ToSet(R) \subseteq others
  BY <1>1
<1>5. h \in ToSet(ScanNerOn(t, p))
  <2>1. gated = <<>> \/ gated = ScanNer(t) \/ gated = ScanNerOn(t, p)
    BY DEF ScanNerGated
  <2>2. ToSet(<<>>) = {}
    BY DEF ToSet
  <2> HIDE DEF gated, p
  <2> QED BY <2>1, <2>2, <1>4
<1> HIDE DEF gate, gated, others
<1>6. /\ Len(t) \in Nat /\ Len(p) \in Nat
      /\ \A n \in 1 .. Len(p) : p[n] \in 1 .. Len(t) /\ p[n] \notin cut
      /\ part \in Seq(Cell) /\ Len(part) = Len(p)
  <2> HIDE DEF cut, p, part
  <2>1. Picks(p, Len(t), DOMAIN t \ cut) /\ part = Spliced(t, p) /\ Len(t) \in Nat
    BY <1>2 DEF Parted
  <2> QED BY <2>1, PickedIsIn, SplicedLine
<1> HIDE DEF cut, p, part
<1>7. PICK g \in ToSet(ScanNer(part)) : h = RemapHit(g, p)
  BY <1>3, <1>5
<1>8. g \in Spans(Len(p))
  BY <1>3, <1>7 DEF ToSet
<1>9. h \in Spans(Len(t)) /\ h = Span(g.type, p[g.s], p[g.s] + (g.e - g.s))
  BY <1>2, <1>6, <1>7, <1>8, Remapped DEF Parted
<1>10. h.s = p[g.s] /\ h.e = p[g.s] + (g.e - g.s) /\ g.s \in 1 .. Len(p)
  BY <1>8, <1>9 DEF Span, Spans
<1>11. h.s \notin cut
  BY <1>6, <1>10
<1>12. \/ RemapHit(g, p) \in ToSet(DetectAll(t))
       \/ Touches(t, cut, p[g.s], p[g.s] + (g.e - g.s) - 1)
  <2>1. /\ ToSet(ScanNer(part)) =
              Names(part) \cup Dangling(part) \cup NerEmails(part)
              \cup Numbers(part) \cup Addresses(part)
        /\ NerEmails(part) \subseteq Emails(part) \cup LongEmails(part)
    BY <1>6, ScansFind, EmailPlaces
  <2>2. /\ ToSet(R) = Numbers(t) \cup Emails(t) \cup Addresses(t)
        /\ ToSet(ScanNer(t)) =
              Names(t) \cup Dangling(t) \cup NerEmails(t) \cup Numbers(t) \cup Addresses(t)
        /\ LongEmails(t) \subseteq NerEmails(t)
    BY ScansFind DEF NerEmails
  <2> HIDE DEF R
  <2>3. Dangling(t) \cup Emails(t) \cup LongEmails(t) \cup Numbers(t) \cup Addresses(t)
            \subseteq ToSet(DetectAll(t))
    BY <2>2, <1>4
  <2>4. CASE g \in Names(part)
    <3>1. Names(t) \subseteq ToSet(DetectAll(t))
      BY <2>2, <1>4
    <3>2. RemapHit(g, p) \in ToSet(ScanNer(t)) \/ Touches(t, cut, p[g.s], p[g.s] + (g.e - g.s) - 1)
      BY <2>2, <2>4, <1>2, PersonOfPart
    <3> QED BY <3>2, <1>4
  <2>5. CASE g \in Dangling(part) \cup Emails(part) \cup LongEmails(part)
                   \cup Numbers(part) \cup Addresses(part)
    BY <2>3, <2>5, <1>2, HitOfPart
  <2> QED BY <2>1, <2>4, <2>5, <1>7
<1>13. Touches(t, cut, h.s, h.e - 1)
  <2>1. Touches(t, cut, p[g.s], p[g.s] + (g.e - g.s) - 1)
    BY <1>4, <1>7, <1>12
  <2>2. h.e - 1 = p[g.s] + (g.e - g.s) - 1
    <3> DEFINE x == p[g.s]
    <3>1. x \in Int /\ g.s \in Int /\ g.e \in Int
      BY <1>6, <1>8 DEF Spans
    <3>2. h.e = x + (g.e - g.s)
      BY <1>10
    <3> HIDE DEF x
    <3>3. h.e - 1 = x + (g.e - g.s) - 1
      BY <3>1, <3>2
    <3> QED BY <3>3 DEF x
  <2> QED BY <2>1, <2>2, <1>10
<1> QED
  BY <1>2, <1>9, <1>11, <1>13

\* A finding that the gate loses is a field name, or a person or a long address
\* that touches what was cut out or is in a line that the model did not see.
LEMMA GateLoses ==
    ASSUME NEW t \in Seq(Cell), NEW logType,
           NEW h \in ToSet(DetectAll(t)) \ ToSet(DetectGated(t, logType))
    PROVE  LET cut == CutBy(t, CoveredValues(t, logType))
           IN  \/ h \in Dangling(t)
               \/ h \in Names(t) \cup LongEmails(t) /\ Touches(t, cut, h.s, h.e - 1)
               \/ /\ h \in Names(t) \cup LongEmails(t)
                  /\ CoveredValues(t, logType) # {}
                  /\ \A v \in FieldValues(t, logType) \ CoveredValues(t, logType) :
                        ~HasLetters(t, v)
<1> DEFINE R == ScanRegex(t)
           gate == Gate(t, FieldValues(t, logType), R)
           cut == gate.cut
           p == Kept(t, cut)
           part == Spliced(t, p)
           gated == ScanNerGated(t, R, gate)
           others == ToSet(R) \cup ToSet(ScanEntropy(t)) \cup ToSet(ScanFlattened(t))
<1>1. /\ ToSet(DetectGated(t, logType)) = ToSet(gated) \cup others
      /\ ToSet(DetectAll(t)) = ToSet(ScanNer(t)) \cup others
  BY Detected
<1>2. /\ cut = CutBy(t, CoveredValues(t, logType))
      /\ Parted(t, cut, p, part)
      /\ gate.skip <=>
            /\ CoveredValues(t, logType) # {}
            /\ \A v \in FieldValues(t, logType) \ CoveredValues(t, logType) : ~HasLetters(t, v)
  BY GateCuts
<1>3. ToSet(ScanNerOn(t, p)) = {RemapHit(g, p) : g \in ToSet(ScanNer(part))}
  BY NerOnPart
<1>4. h \in ToSet(ScanNer(t)) /\ h \notin ToSet(R) /\ h \notin ToSet(gated)
  BY <1>1
<1>5. h \in Names(t) \cup Dangling(t) \cup LongEmails(t)
  <2>1. /\ ToSet(R) = Numbers(t) \cup Emails(t) \cup Addresses(t)
        /\ ToSet(ScanNer(t)) =
              Names(t) \cup Dangling(t) \cup NerEmails(t) \cup Numbers(t) \cup Addresses(t)
        /\ NerEmails(t) \subseteq Emails(t) \cup LongEmails(t)
    BY ScansFind, EmailPlaces
  <2> HIDE DEF R, gated
  <2> QED BY <2>1, <1>4
<1>6. SUFFICES ASSUME h \in Names(t) \cup LongEmails(t), ~gate.skip
               PROVE  Touches(t, cut, h.s, h.e - 1)
  BY <1>2, <1>5
<1>7. gated = ScanNer(t) \/ gated = ScanNerOn(t, p)
  BY <1>6 DEF ScanNerGated
<1>8. part \in Seq(Cell)
  BY <1>2, SplicedLine DEF Parted
<1> HIDE DEF gated, gate, cut, p, part, R
<1>9. h \notin ToSet(ScanNerOn(t, p))
  BY <1>4, <1>7
<1>10. Names(part) \cup LongEmails(part) \subseteq ToSet(ScanNer(part))
  BY <1>8, ScansFind DEF NerEmails
<1>11. ~ \E g \in Names(part) \cup LongEmails(part) : RemapHit(g, p) = h
  BY <1>3, <1>9, <1>10
<1> QED
  BY <1>2, <1>6, <1>11, PersonIsKept, EmailIsKept

\* A run of names does not overlap a value without letters.
LEMMA NoNameInNumbers ==
    ASSUME NEW t \in Seq(Cell), NEW h \in Names(t), NEW v \in Places(t, Field),
           ~HasLetters(t, v)
    PROVE  ~Overlaps(h, v)
<1>1. Len(t) \in Nat /\ "nm" \in Alphabetic
  BY DEF Alphabetic, Word
<1>2. h = Span("PERSON", h.s, h.e) /\ h.s \in Int /\ h.e \in Int
  <2>1. SpansIn("PERSON", Len(t), Names(t))
    BY Recognised
  <2>2. PICK x \in 1 .. Len(t), y \in 2 .. Len(t) + 1 : h = Span("PERSON", x, y)
    BY <2>1 DEF SpansIn
  <2> QED BY <2>2, <1>1 DEF Span
<1>3. h.s \in 1 .. Len(t) /\ h.e - 1 \in 1 .. Len(t) /\ NameRun(t, h.s, h.e - 1)
  <2>1. Span("PERSON", h.s, h.e) \in Names(t)
    BY <1>2
  <2> QED BY <2>1, <1>2, NamesAreRuns
<1>4. /\ v.s \in 1 .. Len(t) /\ v.e \in 2 .. Len(t) + 1 /\ v.e = v.s + Len(v.field.value)
      /\ v.field.value \in Seq(Cell) /\ v.field.value # <<>> /\ v.field.value[1] # "sp"
      /\ Occurs(t, v.field.value, v.s)
  BY DEF Places, Field
<1>5. v.s < v.e /\ t[v.s] # "sp"
  <2>1. Len(v.field.value) \in Nat /\ Len(v.field.value) >= 1
    BY <1>4
  <2> DEFINE b == v.s + Len(v.field.value) - 1
  <2>2. SubSeq(t, v.s, b) = v.field.value /\ b \in Int /\ b <= Len(t) /\ 1 \in 1 .. b - v.s + 1
    <3> DEFINE L == Len(v.field.value)
               x == v.s
    <3>1. L \in Nat /\ L >= 1 /\ x \in 1 .. Len(t) - L + 1
      BY <2>1, <1>4 DEF Occurs
    <3>2. SubSeq(t, v.s, b) = v.field.value
      BY <1>4 DEF Occurs
    <3> HIDE DEF L, x
    <3>3. x + L - 1 \in Int /\ x + L - 1 <= Len(t) /\ 1 \in 1 .. (x + L - 1) - x + 1
      BY <3>1, <1>1
    <3> QED BY <3>2, <3>3 DEF L, x
  <2> HIDE DEF b
  <2>3. SubSeq(t, v.s, b)[1] = t[v.s + 1 - 1]
    <3>1. v.s \in Nat \ {0}
      BY <1>1, <1>4
    <3> QED BY <3>1, <2>2, PartOfLine
  <2>4. v.s + 1 - 1 = v.s /\ v.s < v.e
    BY <2>1, <1>1, <1>4
  <2> QED BY <2>2, <2>3, <2>4, <1>4
<1>6. SUFFICES ASSUME h.s < v.e, v.s < h.e PROVE FALSE
  BY DEF Overlaps
<1>7. \A i \in v.s .. v.e - 1 : t[i] # "nm"
  BY <1>1 DEF HasLetters, Cells
<1>8. CASE h.s <= v.s
  <2>1. v.s \in h.s .. h.e - 1 /\ v.s \in v.s .. v.e - 1
    BY <1>1, <1>2, <1>3, <1>4, <1>5, <1>6, <1>8
  <2>2. t[v.s] \in {"nm", "sp"}
    BY <2>1, <1>3 DEF NameRun
  <2> QED BY <2>1, <2>2, <1>5, <1>7
<1>9. CASE v.s < h.s
  <2>1. h.s \in v.s .. v.e - 1
    BY <1>1, <1>3, <1>4, <1>6, <1>9
  <2> QED BY <2>1, <1>3, <1>7 DEF NameRun
<1> QED
  BY <1>1, <1>3, <1>4, <1>8, <1>9

\* Nor does a long address overlap a value without letters in which no regular
\* expression finds anything: such a value would be the end of its host.
LEMMA NoAddressInNumbers ==
    ASSUME NEW t \in Seq(Cell), NEW h \in LongEmails(t), NEW v \in Places(t, Field),
           ~HasLetters(t, v), \A g \in ToSet(ScanRegex(t)) : ~Overlaps(g, v)
    PROVE  ~Overlaps(h, v)
<1>1. Len(t) \in Nat /\ "lab" \in Alphabetic
  BY DEF Alphabetic
<1>2. PICK j \in AtSigns(t) : IsCell(t, j + 2, "lab") /\ h = Span("EMAIL", j - 1, j + 3)
  BY EmailPlaces
<1>3. j \in 2 .. Len(t) - 1 /\ t[j + 2] = "lab"
  BY <1>2, EmailPlaces DEF IsCell
<1> DEFINE g == Span("EMAIL", j - 1, j + 2)
<1>4. g \in ToSet(ScanRegex(t))
  BY EmailPlaces, ScansFind
<1>5. ~Overlaps(g, v)
  BY <1>4
<1>6. g.s = j - 1 /\ g.e = j + 2 /\ h.s = j - 1 /\ h.e = j + 3
  BY <1>2 DEF Span
<1>7. v.s \in 1 .. Len(t) /\ v.e \in 2 .. Len(t) + 1
  BY DEF Places
<1> HIDE DEF g
<1>8. SUFFICES ASSUME h.s < v.e, v.s < h.e PROVE FALSE
  BY DEF Overlaps
<1>9. v.s = j + 2
  BY <1>1, <1>3, <1>5, <1>6, <1>7, <1>8 DEF Overlaps
<1>10. v.s < v.e
  BY DEF Places, Field
<1>11. j + 2 \in v.s .. v.e - 1
  BY <1>1, <1>3, <1>7, <1>9, <1>10
<1> QED
  BY <1>1, <1>3, <1>11 DEF HasLetters, Cells

-----------------------------------------------------------------------------
(* Declared fields.                                                        *)

LEMMA ChosenMembers ==
    ASSUME NEW E, NEW q \in Seq(E), NEW S
    PROVE  ToSet(Chosen(q, S)) = {q[i] : i \in S \cap DOMAIN q}
<1> DEFINE c == Chosen(q, S)
<1>1. /\ c \in Seq(E)
      /\ \E p : /\ Picks(p, Len(q), S)
                /\ Len(c) = Len(p)
                /\ \A n \in 1 .. Len(p) : c[n] = q[p[n]]
  BY ChosenCells
<1> HIDE DEF c
<1>2. PICK p : /\ Picks(p, Len(q), S)
               /\ Len(c) = Len(p)
               /\ \A n \in 1 .. Len(p) : c[n] = q[p[n]]
  BY <1>1
<1>3. DOMAIN q = 1 .. Len(q) /\ Len(q) \in Nat /\ DOMAIN c = 1 .. Len(p)
  BY <1>1, <1>2
<1>4. \A n \in 1 .. Len(p) : p[n] \in S \cap DOMAIN q
  BY <1>2, <1>3, PickedIsIn
<1>5. \A i \in S \cap DOMAIN q : \E n \in 1 .. Len(p) : p[n] = i
  BY <1>2, <1>3 DEF Picks
<1>6. ASSUME NEW x \in ToSet(c)
      PROVE  x \in {q[i] : i \in S \cap DOMAIN q}
  <2>1. PICK n \in 1 .. Len(p) : x = q[p[n]]
    BY <1>2, <1>3 DEF ToSet
  <2> QED BY <2>1, <1>4
<1>7. ASSUME NEW i \in S \cap DOMAIN q
      PROVE  q[i] \in ToSet(c)
  <2>1. PICK n \in 1 .. Len(p) : p[n] = i
    BY <1>5
  <2>2. q[i] = c[n] /\ n \in DOMAIN c
    BY <2>1, <1>2, <1>3
  <2> QED BY <2>2 DEF ToSet
<1> QED
  BY <1>6, <1>7 DEF c

\* A file that is accepted declares types that the policy knows.
LEMMA TrustTypes ==
    ASSUME NEW file, TrustAccepted(file), NEW logType, NEW n \in DOMAIN TrustFor(file, logType)
    PROVE  TrustFor(file, logType)[n] \in CanonicalTypes
<1>1. CASE logType \in Sections(file)
  <2>1. TrustFor(file, logType) = [f \in DOMAIN file[logType] |-> Upper(file[logType][f])]
    BY <1>1 DEF TrustFor
  <2>2. \A f \in DOMAIN file[logType] : Upper(file[logType][f]) \in CanonicalTypes
    BY <1>1 DEF TrustAccepted
  <2> HIDE DEF TrustFor
  <2> QED BY <2>1, <2>2
<1>2. CASE logType \notin Sections(file)
  <2>1. TrustFor(file, logType) = <<>>
    BY <1>2 DEF TrustFor
  <2> QED BY <2>1
<1> QED
  BY <1>1, <1>2

DeclaresTypes(trust) == \A n \in DOMAIN trust : trust[n] \in CanonicalTypes

\* A declared field that is in the line is located.
LEMMA DeclaredFields ==
    ASSUME NEW t \in Seq(Cell), NEW logType, NEW trust
    PROVE  /\ Declared(t, logType, trust) \in Seq(Places(t, Field))
           /\ \A a \in ToSet(Declared(t, logType, trust)) :
                 a.field.name \in DOMAIN trust /\ a \in Places(t, Field)
           /\ \A f \in ToSet(ExtractFields(logType, t)) :
                 /\ f.name \in DOMAIN trust /\ f.value # <<>>
                 /\ \E i \in Nat : Occurs(t, f.value, i)
                 => \E a \in ToSet(Declared(t, logType, trust)) : a.field = f
<1> DEFINE fields == ExtractFields(logType, t)
           S == {n \in DOMAIN fields : fields[n].name \in DOMAIN trust}
           D == {f \in Field : f.name \in DOMAIN trust}
           c == Chosen(fields, S)
<1>1. fields \in Seq(Field) /\ DOMAIN fields = 1 .. Len(fields)
  <2>1. fields \in Seq(Field)
    BY ExtractedFields
  <2> HIDE DEF fields
  <2> QED BY <2>1
<1>2. c \in Seq(Field) /\ ToSet(c) = {fields[i] : i \in S \cap DOMAIN fields}
  <2> HIDE DEF fields, S
  <2> QED BY <1>1, ChosenCells, ChosenMembers
<1>3. c \in Seq(D)
  <2>1. \A n \in 1 .. Len(c) : c[n] \in ToSet(c)
    <3> HIDE DEF c
    <3> QED BY <1>2 DEF ToSet
  <2>2. \A x \in ToSet(c) : x \in D
    <3> HIDE DEF c, fields
    <3> QED BY <1>1, <1>2
  <2> HIDE DEF c, D, fields
  <2> QED BY <1>2, <2>1, <2>2
<1>4. ValuesAreLines(D)
  BY DEF ValuesAreLines, Field
<1>5. Declared(t, logType, trust) = Located(t, c)
  BY DEF Declared
<1> HIDE DEF D, c, fields
<1>6. /\ Located(t, c) \in Seq(Places(t, D))
      /\ \A f \in ToSet(c) :
            f.value # <<>> /\ (\E i \in Nat : Occurs(t, f.value, i))
            => \E a \in ToSet(Located(t, c)) : a.field = f
  BY <1>3, <1>4, LocatedFields
<1>7. Places(t, D) \subseteq Places(t, Field)
     /\ \A a \in Places(t, D) : a.field.name \in DOMAIN trust
  BY DEF Places, D
<1>8. Located(t, c) \in Seq(Places(t, Field))
  BY <1>6, <1>7, SeqMonotonic
<1>9. \A a \in ToSet(Located(t, c)) : a \in Places(t, D)
  BY <1>6 DEF ToSet
<1>10. ASSUME NEW f \in ToSet(fields), f.name \in DOMAIN trust
       PROVE  f \in ToSet(c)
  <2>1. PICK n \in DOMAIN fields : f = fields[n]
    BY DEF ToSet
  <2>2. n \in S
    BY <2>1, <1>10
  <2> QED BY <2>1, <2>2, <1>2
<1> QED
  BY <1>5, <1>6, <1>7, <1>8, <1>9, <1>10 DEF fields

\* The spans of declared fields are spans of the line.
LEMMA TrustedSpans ==
    ASSUME NEW t \in Seq(Cell), NEW logType, NEW trust, DeclaresTypes(trust)
    PROVE  LET declared == Declared(t, logType, trust)
           IN  /\ TrustSpans(declared, trust) \in Seq(Spans(Len(t)))
               /\ ToSet(TrustSpans(declared, trust))
                    = {TrustSpan(a, trust) : a \in ToSet(declared)}
<1> DEFINE d == Declared(t, logType, trust)
<1>1. /\ d \in Seq(Places(t, Field))
      /\ \A a \in ToSet(d) : a.field.name \in DOMAIN trust /\ a \in Places(t, Field)
  BY DeclaredFields
<1> HIDE DEF d
<1>2. Len(d) \in Nat /\ DOMAIN d = 1 .. Len(d) /\ ToSet(d) = {d[i] : i \in 1 .. Len(d)}
  BY <1>1 DEF ToSet
<1>3. TrustSpans(d, trust) = [i \in 1 .. Len(d) |-> TrustSpan(d[i], trust)]
  BY <1>2 DEF TrustSpans
<1>4. ASSUME NEW a \in ToSet(d)
      PROVE  TrustSpan(a, trust) \in Spans(Len(t))
  <2>1. trust[a.field.name] \in Types
    BY <1>1 DEF DeclaresTypes, Types
  <2>2. /\ a.s \in 1 .. Len(t) /\ a.e \in 2 .. Len(t) + 1 /\ a.e = a.s + Len(a.field.value)
        /\ Len(a.field.value) \in Nat /\ Len(a.field.value) # 0
    BY <1>1 DEF Places, Field
  <2>3. a.s < a.e
    <3> DEFINE x == a.s
               L == Len(a.field.value)
    <3>1. x \in Nat /\ L \in Nat \ {0} /\ a.e = x + L
      BY <2>2
    <3> HIDE DEF L, x
    <3>2. x < a.e
      BY <3>1
    <3> QED BY <3>2 DEF x
  <2> QED BY <2>1, <2>2, <2>3 DEF TrustSpan, Spans, Span
<1>5. \A i \in 1 .. Len(d) : TrustSpan(d[i], trust) \in Spans(Len(t))
  BY <1>2, <1>4
<1>6. TrustSpans(d, trust) \in Seq(Spans(Len(t)))
  BY <1>2, <1>3, <1>5
<1>7. ToSet(TrustSpans(d, trust)) = {TrustSpan(d[i], trust) : i \in 1 .. Len(d)}
  BY <1>3 DEF ToSet
<1> QED
  BY <1>2, <1>6, <1>7 DEF d

\* All that the schema-aware detection finds are spans of the line, those of
\* its declared fields among them.
LEMMA SchemaAwareSpans ==
    ASSUME NEW t \in Seq(Cell), NEW logType, NEW trust, DeclaresTypes(trust)
    PROVE  /\ DetectSchemaAware(t, logType, trust) \in Seq(Spans(Len(t)))
           /\ \A a \in ToSet(Declared(t, logType, trust)) :
                 TrustSpan(a, trust) \in ToSet(DetectSchemaAware(t, logType, trust))
<1> DEFINE declared == Declared(t, logType, trust)
           spans == TrustSpans(declared, trust)
           cut == UNION {Cells(h) : h \in ToSet(spans)}
           p == Kept(t, cut)
           part == Spliced(t, p)
           rest == DetectOn(t, logType, p)
<1>1. spans \in Seq(Spans(Len(t))) /\ ToSet(spans) = {TrustSpan(a, trust) : a \in ToSet(declared)}
  BY TrustedSpans
<1>2. Picks(p, Len(t), DOMAIN t \ cut) /\ Len(t) \in Nat
  BY KeptPicks
<1>3. rest = RemapHits(DetectGated(part, logType), p)
  BY DEF DetectOn
<1>4. DetectSchemaAware(t, logType, trust) = spans \o rest
  BY DEF DetectSchemaAware, DetectAround
<1> HIDE DEF declared, spans, cut, p, rest
<1>5. part \in Seq(Cell) /\ Len(part) = Len(p)
  BY <1>2, SplicedLine
<1> HIDE DEF part
<1>6. DetectGated(part, logType) \in Seq(Spans(Len(p)))
  BY <1>5, Detected
<1>7. rest \in Seq(Spans(Len(t)))
  BY <1>2, <1>3, <1>6, RemappedHits
<1>8. spans \o rest \in Seq(Spans(Len(t))) /\ ToSet(spans) \subseteq ToSet(spans \o rest)
  BY <1>1, <1>7, ToSetJoined
<1> QED
  BY <1>1, <1>4, <1>8 DEF declared

-----------------------------------------------------------------------------
(* Rewriting.                                                              *)

\* What stands for position i of a line when each span of H is replaced, and
\* the line of n positions that comes of it.
Piece(H, i) ==
    IF \E h \in H : h.s = i THEN Placeholder
    ELSE IF \E h \in H : i \in Cells(h) THEN <<>>
    ELSE <<i>>
Joined(n, H) == FlattenSeq([i \in 1 .. n |-> Piece(H, i)])
Joins(flat, n, H) ==
    /\ flat \in [0 .. n -> Seq(Nat)]
    /\ flat[0] = <<>>
    /\ \A i \in 1 .. n : flat[i] = flat[i - 1] \o Piece(H, i)

LEMMA JoinedStepwise ==
    ASSUME NEW n \in Nat, NEW H
    PROVE  /\ \A i \in 1 .. n : Piece(H, i) \in Seq(Nat)
           /\ \E flat : Joins(flat, n, H) /\ Joined(n, H) = flat[n]
<1> DEFINE q == [i \in 1 .. n |-> Piece(H, i)]
<1>1. \A i \in 1 .. n : Piece(H, i) \in Seq(Nat)
  BY DEF Piece, Placeholder
<1>2. q \in Seq(Seq(Nat)) /\ Len(q) = n /\ \A i \in 1 .. n : q[i] = Piece(H, i)
  BY <1>1
<1>3. Joined(n, H) = FlattenSeq(q)
  BY DEF Joined
<1> HIDE DEF q
<1>4. PICK flat \in [0 .. Len(q) -> Seq(Nat)] :
          /\ flat[0] = <<>>
          /\ \A i \in 1 .. Len(q) : flat[i] = flat[i - 1] \o q[i]
          /\ FlattenSeq(q) = flat[Len(q)]
  BY <1>2, Flattened
<1>5. Joins(flat, n, H) /\ Joined(n, H) = flat[n]
  BY <1>2, <1>3, <1>4 DEF Joins
<1> QED
  BY <1>1, <1>5

\* The first positions of a line.
Line(n) == [i \in 1 .. n |-> i]

\* Before the first span, a line stays as it is.
LEMMA JoinedAhead ==
    ASSUME NEW n \in Nat, NEW b \in 1 .. n + 1, NEW H, NEW flat,
           H \subseteq Spans(n), Joins(flat, n, H), \A h \in H : b <= h.s
    PROVE  /\ \A i \in 0 .. b - 1 : flat[i] = Line(i)
           /\ \A i \in b - 1 .. n : Len(flat[i]) >= b - 1 /\ \A j \in 1 .. b - 1 : flat[i][j] = j
<1>1. /\ \A i \in 0 .. n : flat[i] \in Seq(Nat)
      /\ flat[0] = <<>>
      /\ \A i \in 1 .. n : flat[i] = flat[i - 1] \o Piece(H, i)
  BY DEF Joins
<1>2. ASSUME NEW i \in 1 .. b - 1
      PROVE  Piece(H, i) = <<i>>
  <2>1. \A h \in H : h.s \in Nat /\ h.s # i /\ i \notin Cells(h)
    BY DEF Spans, Cells
  <2> QED BY <2>1 DEF Piece
<1> DEFINE S == {i \in 0 .. b - 1 : flat[i] = Line(i)}
<1>3. 0 \in S
  BY <1>1 DEF Line
<1>4. ASSUME NEW i \in 0 .. b - 1 - 1, i \in S
      PROVE  i + 1 \in S
  <2>1. i + 1 \in 1 .. b - 1 /\ i + 1 \in 1 .. n /\ (i + 1) - 1 = i /\ i + 1 \in 0 .. b - 1
    OBVIOUS
  <2>2. flat[i + 1] = Line(i) \o <<i + 1>>
    BY <2>1, <1>1, <1>2, <1>4
  <2>3. Line(i) \o <<i + 1>> = Line(i + 1)
    BY DEF Line
  <2> QED BY <2>1, <2>2, <2>3
<1>5. \A i \in 0 .. b - 1 : flat[i] = Line(i)
  <2>1. b - 1 \in Nat /\ 0 \in Nat
    OBVIOUS
  <2>2. \A i \in 0 .. b - 1 : i \in S
    <3> HIDE DEF S
    <3> QED BY <2>1, <1>3, <1>4, StepByStep
  <2> QED BY <2>2
<1> DEFINE G == {i \in b - 1 .. n : Len(flat[i]) >= b - 1 /\ \A j \in 1 .. b - 1 : flat[i][j] = j}
<1>6. b - 1 \in G
  <2>1. flat[b - 1] = Line(b - 1) /\ b - 1 \in b - 1 .. n
    BY <1>5
  <2>2. Len(Line(b - 1)) = b - 1 /\ \A j \in 1 .. b - 1 : Line(b - 1)[j] = j
    BY DEF Line
  <2> QED BY <2>1, <2>2
<1>7. ASSUME NEW i \in b - 1 .. n - 1, i \in G
      PROVE  i + 1 \in G
  <2>1. i + 1 \in 1 .. n /\ (i + 1) - 1 = i /\ i \in 0 .. n /\ i + 1 \in b - 1 .. n
    OBVIOUS
  <2> DEFINE x == flat[i]
             y == Piece(H, i + 1)
  <2>2. flat[i + 1] = x \o y /\ x \in Seq(Nat) /\ y \in Seq(Nat)
    BY <2>1, <1>1, JoinedStepwise
  <2>3. Len(x) >= b - 1 /\ \A j \in 1 .. b - 1 : x[j] = j
    BY <1>7
  <2> HIDE DEF x, y
  <2>4. Len(x \o y) >= b - 1 /\ \A j \in 1 .. b - 1 : (x \o y)[j] = j
    <3>1. /\ Len(x) \in Nat /\ Len(y) \in Nat /\ Len(x \o y) = Len(x) + Len(y)
          /\ \A j \in 1 .. Len(x) + Len(y) :
                (x \o y)[j] = IF j <= Len(x) THEN x[j] ELSE y[j - Len(x)]
      BY <2>2, ConcatProperties
    <3>2. \A j \in 1 .. b - 1 : j \in 1 .. Len(x) + Len(y) /\ j <= Len(x)
      BY <3>1, <2>3
    <3> QED BY <3>1, <3>2, <2>3
  <2> QED BY <2>1, <2>2, <2>4
<1>8. \A i \in b - 1 .. n : i \in G
  <2>1. b - 1 \in Nat
    OBVIOUS
  <2> HIDE DEF G
  <2> QED BY <2>1, <1>6, <1>7, StepByStep
<1> QED
  BY <1>5, <1>8

\* A line without spans.
LEMMA JoinedNone ==
    ASSUME NEW n \in Nat
    PROVE  Joined(n, {}) = Line(n)
<1>1. PICK flat : Joins(flat, n, {}) /\ Joined(n, {}) = flat[n]
  BY JoinedStepwise
<1> DEFINE b == n + 1
           H == {}
<1>2. b \in 1 .. n + 1 /\ b - 1 = n /\ H \subseteq Spans(n) /\ \A h \in H : b <= h.s
  OBVIOUS
<1>3. Joins(flat, n, H)
  BY <1>1
<1> HIDE DEF b, H
<1>4. \A i \in 0 .. b - 1 : flat[i] = Line(i)
  <2>1. b \in 1 .. n + 1
    BY <1>2
  <2>2. H \subseteq Spans(n)
    BY <1>2
  <2>3. \A h \in H : b <= h.s
    BY <1>2
  <2> QED BY <2>1, <2>2, <2>3, <1>3, JoinedAhead
<1> QED
  BY <1>1, <1>2, <1>4

\* In which order three sequences are joined does not matter.
LEMMA JoinedThrice ==
    ASSUME NEW x \in Seq(Nat), NEW y \in Seq(Nat), NEW z \in Seq(Nat)
    PROVE  (x \o y) \o z = x \o (y \o z)
  OBVIOUS

\* What a joined sequence has from a place in its first part on.
LEMMA TailOfJoined ==
    ASSUME NEW x \in Seq(Nat), NEW y \in Seq(Nat), NEW b \in Nat \ {0}, Len(x) >= b - 1
    PROVE  SubSeq(x \o y, b, Len(x \o y)) = SubSeq(x, b, Len(x)) \o y
<1> DEFINE z == x \o y
           u == SubSeq(x, b, Len(x))
           w == SubSeq(z, b, Len(z))
<1>1. Len(x) \in Nat /\ Len(y) \in Nat
  OBVIOUS
<1>2. /\ z \in Seq(Nat)
      /\ Len(z) = Len(x) + Len(y)
      /\ \A i \in 1 .. Len(x) + Len(y) : z[i] = IF i <= Len(x) THEN x[i] ELSE y[i - Len(x)]
  BY ConcatProperties
<1>3. /\ u \in Seq(Nat)
      /\ Len(u) = IF b <= Len(x) THEN Len(x) - b + 1 ELSE 0
      /\ \A i \in 1 .. Len(x) - b + 1 : u[i] = x[b + i - 1]
  <2>1. \A i \in b .. Len(x) : x[i] \in Nat
    BY <1>1
  <2> QED BY <2>1, <1>1, SubSeqProperties
<1> HIDE DEF z
<1>4. /\ w \in Seq(Nat)
      /\ Len(w) = IF b <= Len(z) THEN Len(z) - b + 1 ELSE 0
      /\ \A i \in 1 .. Len(z) - b + 1 : w[i] = z[b + i - 1]
  <2>1. Len(z) \in Nat /\ \A i \in b .. Len(z) : z[i] \in Nat
    BY <1>2
  <2> QED BY <2>1, SubSeqProperties
<1> HIDE DEF u, w
<1>5. /\ u \o y \in Seq(Nat)
      /\ Len(u \o y) = Len(u) + Len(y)
      /\ \A i \in 1 .. Len(u) + Len(y) :
            (u \o y)[i] = IF i <= Len(u) THEN u[i] ELSE y[i - Len(u)]
  BY <1>3, ConcatProperties
<1>6. Len(u) = Len(x) - (b - 1) /\ Len(w) = Len(u) + Len(y)
  <2> DEFINE X == Len(x)
             Y == Len(y)
             Z == Len(z)
  <2>1. X \in Nat /\ Y \in Nat /\ Z = X + Y /\ X >= b - 1
    BY <1>1, <1>2
  <2>2. /\ Len(u) = IF b <= X THEN (X - b) + 1 ELSE 0
        /\ Len(w) = IF b <= Z THEN (Z - b) + 1 ELSE 0
    BY <1>3, <1>4
  <2> HIDE DEF X, Y, Z
  <2>3. Len(u) = X - (b - 1) /\ Len(w) = Len(u) + Y
    BY <2>1, <2>2
  <2> QED BY <2>3 DEF X, Y
<1>7. ASSUME NEW i \in 1 .. Len(w)
      PROVE  w[i] = (u \o y)[i]
  <2>1. w[i] = z[(b - 1) + i]
    <3>1. i \in 1 .. Len(z) - b + 1 /\ b + i - 1 = (b - 1) + i
      BY <1>1, <1>2, <1>4, <1>6
    <3> QED BY <3>1, <1>4
  <2>2. (b - 1) + i \in 1 .. Len(x) + Len(y) /\ i \in 1 .. Len(u) + Len(y)
    BY <1>1, <1>6
  <2>3. CASE i <= Len(u)
    <3>1. u[i] = x[(b - 1) + i]
      <4>1. i \in 1 .. Len(x) - b + 1 /\ b + i - 1 = (b - 1) + i
        BY <2>3, <1>1, <1>6
      <4> QED BY <4>1, <1>3
    <3>2. (b - 1) + i <= Len(x)
      BY <2>3, <1>1, <1>6
    <3> QED BY <3>1, <3>2, <2>1, <2>2, <2>3, <1>2, <1>5
  <2>4. CASE ~ (i <= Len(u))
    <3>1. ~ ((b - 1) + i <= Len(x)) /\ ((b - 1) + i) - Len(x) = i - Len(u)
      BY <2>4, <1>1, <1>6
    <3> QED BY <3>1, <2>1, <2>2, <2>4, <1>2, <1>5
  <2> QED BY <2>3, <2>4
<1>8. w = u \o y
  BY <1>4, <1>5, <1>6, <1>7, SeqEqual
<1> QED
  BY <1>8 DEF w, u, z

\* One more span, ahead of the others, is one more replacement where it is in
\* the line.
LEMMA JoinedOneMore ==
    ASSUME NEW n \in Nat, NEW H, H \subseteq Spans(n), NEW h \in Spans(n),
           \A g \in H : h.e <= g.s
    PROVE  LET x == Joined(n, H)
           IN  /\ x \in Seq(Nat)
               /\ Len(x) >= h.e - 1
               /\ \A j \in 1 .. h.e - 1 : x[j] = j
               /\ Joined(n, H \cup {h})
                    = (SubSeq(x, 1, h.s - 1) \o Placeholder) \o SubSeq(x, h.e, Len(x))
<1> DEFINE K == H \cup {h}
           a == h.s
           b == h.e
<1>1. /\ a \in 1 .. n /\ b \in 2 .. n + 1 /\ a < b /\ b \in 1 .. n + 1 /\ a \in 1 .. n + 1
      /\ a \in Nat /\ b \in Nat /\ b - 1 \in Nat /\ a - 1 \in Nat
  BY DEF Spans
<1>2. Cells(h) = a .. b - 1
  BY DEF Cells
<1>3. \A g \in H : g.s \in Nat /\ g.e \in Nat /\ b <= g.s /\ a <= g.s /\ Cells(g) = g.s .. g.e - 1
  BY <1>1 DEF Spans, Cells
<1>4. K \subseteq Spans(n) /\ \A g \in K : a <= g.s
  BY <1>1, <1>3
<1>5. PICK old : Joins(old, n, H) /\ Joined(n, H) = old[n]
  BY JoinedStepwise
<1>6. PICK new : Joins(new, n, K) /\ Joined(n, K) = new[n]
  BY JoinedStepwise
<1>7. \A g \in K : g \in H \/ g = h
  OBVIOUS
<1>8. h \in K /\ \A g \in H : g \in K
  OBVIOUS
<1> HIDE DEF K
<1>9. Piece(K, a) = Placeholder
  BY <1>8 DEF Piece
<1>10. ASSUME NEW i \in a + 1 .. b - 1
       PROVE  Piece(K, i) = <<>>
  <2>1. \A g \in K : g.s # i
    BY <1>1, <1>3, <1>7
  <2>2. i \in Cells(h)
    BY <1>1, <1>2
  <2> QED BY <2>1, <2>2, <1>8 DEF Piece
<1>11. ASSUME NEW i \in b .. n
       PROVE  Piece(K, i) = Piece(H, i)
  <2>1. h.s # i /\ i \notin Cells(h)
    BY <1>1, <1>2
  <2>2. (\E g \in K : g.s = i) <=> (\E g \in H : g.s = i)
    BY <2>1, <1>7, <1>8
  <2>3. (\E g \in K : i \in Cells(g)) <=> (\E g \in H : i \in Cells(g))
    BY <2>1, <1>7, <1>8
  <2> QED BY <2>2, <2>3 DEF Piece
<1> HIDE DEF a, b
<1>12. /\ \A i \in 0 .. n : old[i] \in Seq(Nat) /\ new[i] \in Seq(Nat)
       /\ \A i \in 1 .. n : old[i] = old[i - 1] \o Piece(H, i)
       /\ \A i \in 1 .. n : new[i] = new[i - 1] \o Piece(K, i)
       /\ \A i \in 1 .. n : Piece(H, i) \in Seq(Nat) /\ Piece(K, i) \in Seq(Nat)
  BY <1>5, <1>6, JoinedStepwise DEF Joins
<1>13. /\ \A i \in 0 .. b - 1 : old[i] = Line(i)
       /\ \A i \in b - 1 .. n : Len(old[i]) >= b - 1 /\ \A j \in 1 .. b - 1 : old[i][j] = j
  <2>1. \A g \in H : b <= g.s
    BY <1>3
  <2>2. b \in 1 .. n + 1
    BY <1>1
  <2>3. Joins(old, n, H)
    BY <1>5
  <2> QED BY <2>1, <2>2, <2>3, JoinedAhead
<1>14. \A i \in 0 .. a - 1 : new[i] = Line(i)
  <2>1. \A g \in K : a <= g.s
    BY <1>4
  <2>2. a \in 1 .. n + 1
    BY <1>1
  <2>3. Joins(new, n, K)
    BY <1>6
  <2>4. K \subseteq Spans(n)
    BY <1>4
  <2> QED BY <2>1, <2>2, <2>3, <2>4, JoinedAhead
<1> DEFINE head == Line(a - 1) \o Placeholder
<1>15. head \in Seq(Nat)
  <2>1. Line(a - 1) \in Seq(Nat) /\ Placeholder \in Seq(Nat)
    BY <1>1 DEF Line, Placeholder
  <2> QED BY <2>1, ConcatProperties
<1>16. \A i \in a .. b - 1 : new[i] = head
  <2> DEFINE S == {i \in a .. b - 1 : new[i] = head}
  <2>1. a \in S
    <3>1. a - 1 \in 0 .. a - 1 /\ a \in a .. b - 1 /\ a \in 1 .. n
      BY <1>1
    <3>2. new[a] = Line(a - 1) \o Placeholder
      BY <3>1, <1>9, <1>12, <1>14
    <3> QED BY <3>1, <3>2
  <2>2. ASSUME NEW i \in a .. b - 1 - 1, i \in S
        PROVE  i + 1 \in S
    <3>1. i + 1 \in 1 .. n /\ (i + 1) - 1 = i /\ i + 1 \in a .. b - 1 /\ i + 1 \in a + 1 .. b - 1
      BY <1>1
    <3>2. new[i + 1] = head \o <<>>
      BY <3>1, <2>2, <1>10, <1>12
    <3> HIDE DEF head
    <3>3. new[i + 1] = head
      BY <3>2, <1>15, ConcatEmptySeq
    <3> QED BY <3>1, <3>3
  <2> HIDE DEF head
  <2>3. \A i \in a .. b - 1 : i \in S
    <3> HIDE DEF S
    <3> QED BY <1>1, <2>1, <2>2, StepByStep
  <2> QED BY <2>3
<1> HIDE DEF head
<1>17. \A i \in b - 1 .. n : new[i] = head \o SubSeq(old[i], b, Len(old[i]))
  <2> DEFINE tail(i) == SubSeq(old[i], b, Len(old[i]))
             S == {i \in b - 1 .. n : new[i] = head \o tail(i)}
  <2>1. b - 1 \in S
    <3>1. b - 1 \in a .. b - 1 /\ b - 1 \in b - 1 .. n /\ b - 1 \in 0 .. b - 1
      BY <1>1
    <3>2. old[b - 1] = Line(b - 1)
      BY <3>1, <1>13
    <3>3. Len(Line(b - 1)) = b - 1
      BY <1>1 DEF Line
    <3>4. tail(b - 1) = <<>>
      BY <3>2, <3>3, <1>1, SubSeqEmpty
    <3>5. new[b - 1] = head
      BY <3>1, <1>16
    <3>6. head \o <<>> = head
      BY <1>15, ConcatEmptySeq
    <3> HIDE DEF tail
    <3> QED BY <3>1, <3>4, <3>5, <3>6
  <2>2. ASSUME NEW i \in b - 1 .. n - 1, i \in S
        PROVE  i + 1 \in S
    <3>1. i + 1 \in 1 .. n /\ (i + 1) - 1 = i /\ i \in 0 .. n
             /\ i + 1 \in b .. n /\ i + 1 \in b - 1 .. n
      BY <1>1
    <3> DEFINE x == old[i]
               y == Piece(H, i + 1)
    <3>2. x \in Seq(Nat) /\ y \in Seq(Nat) /\ Len(x) >= b - 1
      BY <3>1, <1>12, <1>13
    <3>3. new[i + 1] = (head \o SubSeq(x, b, Len(x))) \o y
      BY <3>1, <2>2, <1>11, <1>12
    <3>4. old[i + 1] = x \o y
      BY <3>1, <1>12
    <3> HIDE DEF x, y
    <3>5. SubSeq(x, b, Len(x)) \in Seq(Nat)
      <4>1. Len(x) \in Nat /\ b \in Int
        BY <3>2, <1>1
      <4>2. \A k \in b .. Len(x) : x[k] \in Nat
        BY <3>2, <1>1
      <4> QED BY <4>1, <4>2, SubSeqProperties
    <3>6. SubSeq(x \o y, b, Len(x \o y)) = SubSeq(x, b, Len(x)) \o y
      <4>1. b \in Nat \ {0} /\ Len(x) >= b - 1
        BY <3>2, <1>1
      <4> QED BY <4>1, <3>2, TailOfJoined
    <3>7. (head \o SubSeq(x, b, Len(x))) \o y = head \o (SubSeq(x, b, Len(x)) \o y)
      <4> DEFINE u == SubSeq(x, b, Len(x))
      <4>1. u \in Seq(Nat)
        BY <3>5
      <4> HIDE DEF u
      <4>2. (head \o u) \o y = head \o (u \o y)
        <5>1. y \in Seq(Nat)
          BY <3>2
        <5> QED BY <5>1, <4>1, <1>15, JoinedThrice
      <4> QED BY <4>2 DEF u
    <3> QED BY <3>1, <3>3, <3>4, <3>6, <3>7
  <2>3. \A i \in b - 1 .. n : i \in S
    <3> HIDE DEF S
    <3> QED BY <1>1, <2>1, <2>2, StepByStep
  <2> QED BY <2>3
<1> DEFINE x == Joined(n, H)
<1>18. n \in b - 1 .. n /\ n \in 0 .. n
  BY <1>1
<1>19. x \in Seq(Nat) /\ Len(x) >= b - 1 /\ \A j \in 1 .. b - 1 : x[j] = j
  BY <1>5, <1>12, <1>13, <1>18
<1>20. Joined(n, K) = head \o SubSeq(x, b, Len(x))
  BY <1>5, <1>6, <1>17, <1>18
<1> HIDE DEF x
<1>21. SubSeq(x, 1, a - 1) = Line(a - 1)
  <2>1. \A j \in 1 .. a - 1 : x[j] = j
    BY <1>1, <1>19
  <2>2. /\ SubSeq(x, 1, a - 1) \in Seq(Nat)
        /\ Len(SubSeq(x, 1, a - 1)) = IF 1 <= a - 1 THEN (a - 1) - 1 + 1 ELSE 0
        /\ \A j \in 1 .. (a - 1) - 1 + 1 : SubSeq(x, 1, a - 1)[j] = x[1 + j - 1]
    <3>1. \A j \in 1 .. a - 1 : x[j] \in Nat
      BY <2>1, <1>1
    <3>2. a - 1 \in Int /\ 1 \in Int
      BY <1>1
    <3> QED BY <3>1, <3>2, SubSeqProperties
  <2>3. Line(a - 1) \in Seq(Nat) /\ Len(Line(a - 1)) = a - 1
           /\ \A j \in 1 .. a - 1 : Line(a - 1)[j] = j
    BY <1>1 DEF Line
  <2>4. Len(SubSeq(x, 1, a - 1)) = a - 1 /\ \A j \in 1 .. a - 1 : SubSeq(x, 1, a - 1)[j] = j
    BY <2>1, <2>2, <1>1
  <2> QED BY <2>2, <2>3, <2>4, SeqEqual
<1> QED
  BY <1>19, <1>20, <1>21 DEF x, K, a, b, head

\* sorted() arranges a sequence: it has the same members, in the order given.
LEMMA ArrangedHits ==
    ASSUME NEW P, NEW hits \in Seq(P), NEW R, Orders(DOMAIN hits, R)
    PROVE  \E to \in [DOMAIN hits -> DOMAIN hits] :
               /\ Arranged(hits, R) = [n \in DOMAIN hits |-> hits[to[n]]]
               /\ \A i \in DOMAIN hits : \E n \in DOMAIN hits : to[n] = i
               /\ \A n, m \in DOMAIN hits : n < m => <<to[n], to[m]>> \in R
<1> DEFINE D == DOMAIN hits
           N == Len(hits)
           B(i) == Below(D, R, i)
           at(n) == CHOOSE i \in D : Cardinality({j \in D : <<j, i>> \in R}) = n - 1
           to == [n \in D |-> at(n)]
<1>1. D = 1 .. N /\ N \in Nat
  OBVIOUS
<1>2. Arranged(hits, R) = [n \in D |-> hits[at(n)]]
  BY DEF Arranged
<1>3. IsFiniteSet(D) /\ Cardinality(D) = N
  BY <1>1, FS_Interval
<1>4. Orders(D, R)
  OBVIOUS
<1>5. \A i \in D : {j \in D : <<j, i>> \in R} = B(i)
  BY DEF Below
<1> HIDE DEF D, B
<1>6. /\ \A i \in D : Cardinality(Below(D, R, i)) \in 0 .. N - 1
      /\ \A i, j \in D : <<i, j>> \in R =>
            Cardinality(Below(D, R, i)) < Cardinality(Below(D, R, j))
      /\ \A n \in 0 .. N - 1 : \E i \in D : Cardinality(Below(D, R, i)) = n
  BY <1>3, <1>4, Ranks
<1>7. ASSUME NEW n \in D
      PROVE  at(n) \in D /\ Cardinality(B(at(n))) = n - 1
  <2>1. n - 1 \in 0 .. N - 1
    BY <1>1
  <2>2. PICK i \in D : Cardinality(Below(D, R, i)) = n - 1
    BY <2>1, <1>6
  <2>3. Cardinality({j \in D : <<j, i>> \in R}) = n - 1
    BY <2>2, <1>5 DEF B
  <2>4. at(n) \in D /\ Cardinality({j \in D : <<j, at(n)>> \in R}) = n - 1
    BY <2>3
  <2> HIDE DEF at
  <2> QED BY <2>4, <1>5
<1> HIDE DEF at
<1>8. ASSUME NEW i \in D
      PROVE  \E n \in D : at(n) = i
  <2> DEFINE n == Cardinality(B(i)) + 1
  <2>1. n \in D /\ n - 1 = Cardinality(B(i))
    BY <1>1, <1>6 DEF B
  <2>2. at(n) \in D /\ Cardinality(B(at(n))) = Cardinality(B(i))
    BY <2>1, <1>7
  <2> HIDE DEF n
  <2>3. <<at(n), i>> \notin R /\ <<i, at(n)>> \notin R
    BY <2>2, <1>1, <1>6 DEF B
  <2>4. at(n) = i
    BY <2>2, <2>3, <1>4 DEF Orders
  <2> QED BY <2>1, <2>4
<1>9. ASSUME NEW n \in D, NEW m \in D, n < m
      PROVE  <<at(n), at(m)>> \in R
  <2>1. /\ at(n) \in D /\ Cardinality(B(at(n))) = n - 1
        /\ at(m) \in D /\ Cardinality(B(at(m))) = m - 1
    BY <1>7
  <2>2. n \in Int /\ m \in Int /\ ~ (m - 1 < n - 1) /\ n - 1 # m - 1
    BY <1>1, <1>9
  <2>3. <<at(m), at(n)>> \notin R
    BY <2>1, <2>2, <1>6 DEF B
  <2>4. at(n) # at(m)
    BY <2>1, <2>2
  <2> QED BY <2>1, <2>3, <2>4, <1>4 DEF Orders
<1>10. to \in [D -> D] /\ \A n \in D : to[n] = at(n)
  BY <1>7
<1>11. Arranged(hits, R) = [n \in D |-> hits[to[n]]]
  BY <1>2, <1>10
<1> HIDE DEF to
<1>12. /\ Arranged(hits, R) = [n \in D |-> hits[to[n]]]
       /\ \A i \in D : \E n \in D : to[n] = i
       /\ \A n, m \in D : n < m => <<to[n], to[m]>> \in R
  BY <1>8, <1>9, <1>10, <1>11
<1> QED
  BY <1>10, <1>12 DEF D

\* Numbers as keys, and the first of equal ones first, are an order.
LEMMA KeyOrders ==
    ASSUME NEW n \in Nat, NEW key \in [1 .. n -> Int], NEW R,
           \A i, j \in 1 .. n : <<i, j>> \in R <=> key[i] < key[j] \/ (key[i] = key[j] /\ i < j)
    PROVE  Orders(1 .. n, R)
<1>1. \A i \in 1 .. n : key[i] \in Int /\ i \in Int
  OBVIOUS
<1>2. \A i \in 1 .. n : <<i, i>> \notin R
  BY <1>1
<1>3. \A i, j, k \in 1 .. n : <<i, j>> \in R /\ <<j, k>> \in R => <<i, k>> \in R
  BY <1>1
<1>4. \A i, j \in 1 .. n : i # j => <<i, j>> \in R \/ <<j, i>> \in R
  BY <1>1
<1> QED
  BY <1>2, <1>3, <1>4 DEF Orders

\* Spans that do not overlap, and spans of which no two of one type do.
Apart(hits) == \A i, j \in DOMAIN hits : i # j => ~Overlaps(hits[i], hits[j])
TypesApart(hits) ==
    \A i, j \in DOMAIN hits : i # j /\ hits[i].type = hits[j].type => ~Overlaps(hits[i], hits[j])

\* The spans of a sequence in another order.
Rearranged(c, hits) ==
    \E to \in [DOMAIN hits -> DOMAIN hits] :
        /\ DOMAIN c = DOMAIN hits
        /\ \A i \in DOMAIN hits : c[i] = hits[to[i]]
        /\ \A i \in DOMAIN hits : \E j \in DOMAIN hits : to[j] = i
        /\ \A i, j \in DOMAIN hits : i < j => to[i] # to[j]

LEMMA RearrangedKeeps ==
    ASSUME NEW n \in Nat, NEW hits \in Seq(Spans(n)), NEW c \in Seq(Spans(n)),
           Rearranged(c, hits)
    PROVE  /\ ToSet(c) = ToSet(hits)
           /\ Len(c) = Len(hits)
           /\ Apart(hits) => Apart(c)
           /\ TypesApart(hits) => TypesApart(c)
<1> DEFINE D == DOMAIN hits
<1>1. PICK to \in [D -> D] :
          /\ DOMAIN c = D
          /\ \A i \in D : c[i] = hits[to[i]]
          /\ \A i \in D : \E j \in D : to[j] = i
          /\ \A i, j \in D : i < j => to[i] # to[j]
  BY DEF Rearranged
<1>2. D = 1 .. Len(hits) /\ Len(hits) \in Nat /\ D = 1 .. Len(c) /\ Len(c) \in Nat
  BY <1>1
<1>3. Len(c) = Len(hits)
  BY <1>2
<1>4. D \subseteq Nat /\ \A i \in D : to[i] \in D /\ c[i] = hits[to[i]] /\ hits[i] \in Spans(n)
  BY <1>1, <1>2
<1>5. DOMAIN c = D /\ DOMAIN hits = D
  BY <1>1
<1> HIDE DEF D
<1>6. \A i, j \in D : i # j => to[i] # to[j]
  <2> SUFFICES ASSUME NEW i \in D, NEW j \in D, i # j PROVE to[i] # to[j]
    OBVIOUS
  <2>1. i < j \/ j < i
    BY <1>4
  <2> QED BY <2>1, <1>1
<1>7. ToSet(c) = ToSet(hits)
  <2>1. \A i \in D : \E j \in D : c[j] = hits[i]
    BY <1>1
  <2> QED BY <2>1, <1>4, <1>5 DEF ToSet
<1>8. Apart(hits) => Apart(c)
  BY <1>4, <1>5, <1>6 DEF Apart
<1>9. TypesApart(hits) => TypesApart(c)
  BY <1>4, <1>5, <1>6 DEF TypesApart
<1> QED
  BY <1>3, <1>5, <1>7, <1>8, <1>9

\* The two orders of spans.
LEMMA ArrangedFromLeft ==
    ASSUME NEW n \in Nat, NEW hits \in Seq(Spans(n))
    PROVE  /\ FromLeft(hits) \in Seq(Spans(n))
           /\ Rearranged(FromLeft(hits), hits)
           /\ \A i, j \in DOMAIN hits : i < j => FromLeft(hits)[i].s <= FromLeft(hits)[j].s
<1> DEFINE D == DOMAIN hits
           R == {p \in D \X D : \/ hits[p[1]].s < hits[p[2]].s
                                \/ hits[p[1]].s = hits[p[2]].s /\ p[1] < p[2]}
<1>1. /\ D = 1 .. Len(hits) /\ Len(hits) \in Nat
      /\ \A i \in D : hits[i] \in Spans(n) /\ hits[i].s \in Nat
  BY DEF Spans
<1>2. \A i, j \in D : <<i, j>> \in R <=> hits[i].s < hits[j].s \/ (hits[i].s = hits[j].s /\ i < j)
  OBVIOUS
<1>3. FromLeft(hits) = Arranged(hits, R)
  BY DEF FromLeft
<1> HIDE DEF R
<1> DEFINE key == [i \in 1 .. Len(hits) |-> hits[i].s]
<1>4. Orders(D, R)
  <2>1. key \in [1 .. Len(hits) -> Int]
    BY <1>1
  <2>2. \A i, j \in 1 .. Len(hits) :
            <<i, j>> \in R <=> key[i] < key[j] \/ (key[i] = key[j] /\ i < j)
    BY <1>1, <1>2
  <2> HIDE DEF key
  <2>3. Orders(1 .. Len(hits), R)
    BY <2>1, <2>2, <1>1, KeyOrders
  <2> QED BY <2>3, <1>1
<1>5. PICK to \in [D -> D] :
          /\ Arranged(hits, R) = [i \in D |-> hits[to[i]]]
          /\ \A i \in D : \E j \in D : to[j] = i
          /\ \A i, j \in D : i < j => <<to[i], to[j]>> \in R
  BY <1>4, ArrangedHits
<1> DEFINE c == Arranged(hits, R)
<1> HIDE DEF c, D
<1>6. c \in Seq(Spans(n)) /\ DOMAIN c = D /\ \A i \in D : to[i] \in D /\ c[i] = hits[to[i]]
  <2>1. c \in Seq(Spans(n)) /\ DOMAIN c = D /\ \A i \in D : c[i] = hits[to[i]]
    BY <1>1, <1>5 DEF c
  <2> QED BY <2>1, <1>5
<1>7. ASSUME NEW i \in D, NEW j \in D, i < j
      PROVE  to[i] # to[j] /\ c[i].s <= c[j].s
  <2>1. to[i] \in D /\ to[j] \in D /\ <<to[i], to[j]>> \in R
    BY <1>5, <1>6, <1>7
  <2>2. to[i] # to[j]
    BY <2>1, <1>4 DEF Orders
  <2>3. c[i] = hits[to[i]] /\ c[j] = hits[to[j]]
    BY <1>6
  <2>4. c[i].s < c[j].s \/ (c[i].s = c[j].s /\ to[i] < to[j])
    BY <2>1, <2>3, <1>2
  <2>5. c[i].s \in Nat /\ c[j].s \in Nat
    BY <2>1, <2>3, <1>1
  <2> QED BY <2>2, <2>4, <2>5
<1>8. Rearranged(c, hits)
  <2>1. /\ to \in [D -> D] /\ DOMAIN c = D
        /\ \A i \in D : c[i] = hits[to[i]]
        /\ \A i \in D : \E j \in D : to[j] = i
        /\ \A i, j \in D : i < j => to[i] # to[j]
    BY <1>5, <1>6, <1>7
  <2> QED BY <2>1 DEF Rearranged, D
<1> QED
  BY <1>3, <1>6, <1>7, <1>8 DEF c, D

LEMMA ArrangedFromRight ==
    ASSUME NEW n \in Nat, NEW hits \in Seq(Spans(n))
    PROVE  /\ FromRight(hits) \in Seq(Spans(n))
           /\ Rearranged(FromRight(hits), hits)
           /\ \A i, j \in DOMAIN hits : i < j => FromRight(hits)[j].s <= FromRight(hits)[i].s
<1> DEFINE D == DOMAIN hits
           R == {p \in D \X D : \/ hits[p[1]].s > hits[p[2]].s
                                \/ hits[p[1]].s = hits[p[2]].s /\ p[1] < p[2]}
<1>1. /\ D = 1 .. Len(hits) /\ Len(hits) \in Nat
      /\ \A i \in D : hits[i] \in Spans(n) /\ hits[i].s \in Nat
  BY DEF Spans
<1>2. \A i, j \in D : <<i, j>> \in R <=> hits[i].s > hits[j].s \/ (hits[i].s = hits[j].s /\ i < j)
  OBVIOUS
<1>3. FromRight(hits) = Arranged(hits, R)
  BY DEF FromRight
<1> HIDE DEF R
<1> DEFINE key == [i \in 1 .. Len(hits) |-> -hits[i].s]
<1>4. Orders(D, R)
  <2>1. key \in [1 .. Len(hits) -> Int]
    BY <1>1
  <2>2. \A i, j \in 1 .. Len(hits) :
            <<i, j>> \in R <=> key[i] < key[j] \/ (key[i] = key[j] /\ i < j)
    <3> SUFFICES ASSUME NEW i \in 1 .. Len(hits), NEW j \in 1 .. Len(hits)
                 PROVE  <<i, j>> \in R <=> key[i] < key[j] \/ (key[i] = key[j] /\ i < j)
      OBVIOUS
    <3> DEFINE x == hits[i].s
               y == hits[j].s
    <3>1. x \in Nat /\ y \in Nat /\ key[i] = -x /\ key[j] = -y
      BY <1>1
    <3>2. <<i, j>> \in R <=> x > y \/ (x = y /\ i < j)
      BY <1>1, <1>2
    <3> HIDE DEF x, y, key
    <3> QED BY <3>1, <3>2
  <2> HIDE DEF key
  <2>3. Orders(1 .. Len(hits), R)
    BY <2>1, <2>2, <1>1, KeyOrders
  <2> QED BY <2>3, <1>1
<1>5. PICK to \in [D -> D] :
          /\ Arranged(hits, R) = [i \in D |-> hits[to[i]]]
          /\ \A i \in D : \E j \in D : to[j] = i
          /\ \A i, j \in D : i < j => <<to[i], to[j]>> \in R
  BY <1>4, ArrangedHits
<1> DEFINE c == Arranged(hits, R)
<1> HIDE DEF c, D
<1>6. c \in Seq(Spans(n)) /\ DOMAIN c = D /\ \A i \in D : to[i] \in D /\ c[i] = hits[to[i]]
  <2>1. c \in Seq(Spans(n)) /\ DOMAIN c = D /\ \A i \in D : c[i] = hits[to[i]]
    BY <1>1, <1>5 DEF c
  <2> QED BY <2>1, <1>5
<1>7. ASSUME NEW i \in D, NEW j \in D, i < j
      PROVE  to[i] # to[j] /\ c[j].s <= c[i].s
  <2>1. to[i] \in D /\ to[j] \in D /\ <<to[i], to[j]>> \in R
    BY <1>5, <1>6, <1>7
  <2>2. to[i] # to[j]
    BY <2>1, <1>4 DEF Orders
  <2>3. c[i] = hits[to[i]] /\ c[j] = hits[to[j]]
    BY <1>6
  <2>4. c[i].s > c[j].s \/ (c[i].s = c[j].s /\ to[i] < to[j])
    BY <2>1, <2>3, <1>2
  <2>5. c[i].s \in Nat /\ c[j].s \in Nat
    BY <2>1, <2>3, <1>1
  <2> QED BY <2>2, <2>4, <2>5
<1>8. Rearranged(c, hits)
  <2>1. /\ to \in [D -> D] /\ DOMAIN c = D
        /\ \A i \in D : c[i] = hits[to[i]]
        /\ \A i \in D : \E j \in D : to[j] = i
        /\ \A i, j \in D : i < j => to[i] # to[j]
    BY <1>5, <1>6, <1>7
  <2> QED BY <2>1 DEF Rearranged, D
<1> QED
  BY <1>3, <1>6, <1>7, <1>8 DEF c, D

\* Spans that do not overlap then stand one behind the other.
LEMMA ApartFromRight ==
    ASSUME NEW n \in Nat, NEW hits \in Seq(Spans(n)), Apart(hits)
    PROVE  /\ FromRight(hits) \in Seq(Spans(n))
           /\ ToSet(FromRight(hits)) = ToSet(hits)
           /\ \A i, j \in 1 .. Len(FromRight(hits)) :
                 i < j => FromRight(hits)[j].e <= FromRight(hits)[i].s
<1> DEFINE c == FromRight(hits)
<1>1. c \in Seq(Spans(n)) /\ Rearranged(c, hits)
  BY ArrangedFromRight
<1>2. \A i, j \in DOMAIN hits : i < j => c[j].s <= c[i].s
  BY ArrangedFromRight
<1> HIDE DEF c
<1>3. ToSet(c) = ToSet(hits) /\ Len(c) = Len(hits) /\ Apart(c)
  BY <1>1, RearrangedKeeps
<1>4. ASSUME NEW i \in 1 .. Len(c), NEW j \in 1 .. Len(c), i < j
      PROVE  c[j].e <= c[i].s
  <2> DEFINE gs == c[i].s
             ge == c[i].e
             hs == c[j].s
             he == c[j].e
  <2>1. DOMAIN c = 1 .. Len(c) /\ DOMAIN hits = 1 .. Len(c) /\ i # j
    BY <1>1, <1>3, <1>4
  <2>2. c[i] \in Spans(n) /\ c[j] \in Spans(n)
    BY <1>1
  <2>3. gs \in Nat /\ ge \in Nat /\ hs \in Nat /\ he \in Nat /\ gs < ge
    BY <2>2 DEF Spans
  <2>4. hs <= gs /\ ~Overlaps(c[i], c[j])
    BY <2>1, <1>2, <1>3, <1>4 DEF Apart
  <2>5. ~ (gs < he /\ hs < ge)
    BY <2>4 DEF Overlaps
  <2>6. hs <= gs
    BY <2>4
  <2> HIDE DEF gs, ge, hs, he
  <2>7. he <= gs
    BY <2>3, <2>5, <2>6
  <2> QED BY <2>7 DEF gs, he
<1> QED
  BY <1>1, <1>3, <1>4 DEF c

\* dedup_spans goes through the spans from left to right, and keeps spans of
\* those it is given.
LEMMA DedupSpansStepwise ==
    ASSUME NEW n \in Nat, NEW hits \in Seq(Spans(n))
    PROVE  \E keeps \in [0 .. Len(hits) -> Seq(ToSet(hits))] :
               /\ keeps[0] = <<>>
               /\ \A k \in 1 .. Len(hits) : keeps[k] = Deduped(keeps[k - 1], FromLeft(hits)[k])
               /\ DedupSpans(hits) = keeps[Len(hits)]
<1> DEFINE c == FromLeft(hits)
           N == Len(c)
           T == Seq(ToSet(hits))
           next(g) == [k \in 0 .. N |-> IF k = 0 THEN <<>> ELSE Deduped(g[k - 1], c[k])]
           keeps == CHOOSE g : g = next(g)
           step == [x \in T \X (1 .. N) |-> Deduped(x[1], c[x[2]])]
<1>1. c \in Seq(Spans(n)) /\ ToSet(c) = ToSet(hits) /\ N \in Nat /\ N = Len(hits)
  <2>1. c \in Seq(Spans(n)) /\ Rearranged(c, hits)
    BY ArrangedFromLeft
  <2> HIDE DEF c
  <2>2. ToSet(c) = ToSet(hits) /\ Len(c) = Len(hits)
    BY <2>1, RearrangedKeeps
  <2> QED BY <2>1, <2>2
<1>2. DedupSpans(hits) = keeps[N]
  BY DEF DedupSpans
<1>3. \A k \in 1 .. N : c[k] \in ToSet(hits)
  <2> HIDE DEF c
  <2>1. DOMAIN c = 1 .. N /\ ToSet(c) = {c[k] : k \in DOMAIN c}
    BY <1>1 DEF ToSet
  <2> QED BY <2>1, <1>1
<1> HIDE DEF c
<1>4. step \in Steps(T, N)
  <2>1. ASSUME NEW x \in T \X (1 .. N)
        PROVE  Deduped(x[1], c[x[2]]) \in T
    <3>1. x[1] \in T /\ c[x[2]] \in ToSet(hits)
      BY <1>3
    <3>2. Append(x[1], c[x[2]]) \in T
      BY <3>1, AppendProperties
    <3> QED BY <3>1, <3>2 DEF Deduped
  <2> HIDE DEF T, N
  <2> QED BY <2>1 DEF Steps
<1>5. <<>> \in T
  OBVIOUS
<1> HIDE DEF T, N
<1>6. PICK g : Runs(g, T, N, <<>>, step)
  <2> HIDE DEF step
  <2> QED BY <1>1, <1>4, <1>5, Recursion
<1>7. \A k \in 1 .. N : k - 1 \in 0 .. N /\ k \in 0 .. N /\ k # 0
  BY <1>1
<1>8. g \in [0 .. N -> T] /\ g[0] = <<>> /\ \A k \in 1 .. N : g[k] = Deduped(g[k - 1], c[k])
  BY <1>6, <1>7 DEF Runs
<1>9. g = next(g)
  <2>1. ASSUME NEW k \in 0 .. N
        PROVE  g[k] = IF k = 0 THEN <<>> ELSE Deduped(g[k - 1], c[k])
    <3>1. k = 0 \/ k \in 1 .. N
      BY <1>1
    <3> QED BY <3>1, <1>7, <1>8
  <2>2. g = [k \in 0 .. N |-> g[k]]
    BY <1>8
  <2> QED BY <2>1, <2>2
<1>10. keeps = next(keeps)
  <2> HIDE DEF next
  <2> QED BY <1>9
<1> HIDE DEF keeps, step
<1>11. keeps[0] = <<>> /\ \A k \in 1 .. N : keeps[k] = Deduped(keeps[k - 1], c[k])
  <2>1. \A k \in 0 .. N : keeps[k] = IF k = 0 THEN <<>> ELSE Deduped(keeps[k - 1], c[k])
    BY <1>10
  <2>2. 0 \in 0 .. N
    BY <1>1
  <2> HIDE DEF next
  <2> QED BY <2>1, <2>2, <1>7
<1> DEFINE S == {k \in 0 .. N : keeps[k] \in T}
<1>12. 0 \in S
  BY <1>1, <1>5, <1>11
<1>13. ASSUME NEW k \in 0 .. N - 1, k \in S
       PROVE  k + 1 \in S
  <2>1. k + 1 \in 1 .. N /\ (k + 1) - 1 = k /\ k + 1 \in 0 .. N
    BY <1>1
  <2>2. keeps[k + 1] = Deduped(keeps[k], c[k + 1])
    BY <2>1, <1>11
  <2>3. keeps[k] \in T /\ c[k + 1] \in ToSet(hits)
    BY <2>1, <1>3, <1>13
  <2>4. Append(keeps[k], c[k + 1]) \in T
    BY <2>3, AppendProperties DEF T
  <2> QED BY <2>1, <2>2, <2>3, <2>4 DEF Deduped
<1>14. \A k \in 0 .. N : k \in S
  <2> HIDE DEF S
  <2> QED BY <1>1, <1>12, <1>13, StepByStep
<1>15. keeps \in [0 .. N -> T]
  <2>1. keeps = [k \in 0 .. N |-> keeps[k]]
    BY <1>10
  <2> HIDE DEF next
  <2> QED BY <2>1, <1>14
<1> QED
  BY <1>1, <1>2, <1>11, <1>15 DEF T, c

LEMMA DedupSpansKeeps ==
    ASSUME NEW n \in Nat, NEW hits \in Seq(Spans(n))
    PROVE  DedupSpans(hits) \in Seq(ToSet(hits))
<1>1. PICK keeps \in [0 .. Len(hits) -> Seq(ToSet(hits))] :
          DedupSpans(hits) = keeps[Len(hits)]
  BY DedupSpansStepwise
<1>2. Len(hits) \in 0 .. Len(hits)
  OBVIOUS
<1> QED
  BY <1>1, <1>2

\* Of spans that do not overlap it keeps all.
LEMMA DedupSpansApart ==
    ASSUME NEW n \in Nat, NEW hits \in Seq(Spans(n)), Apart(hits)
    PROVE  DedupSpans(hits) = FromLeft(hits)
<1> DEFINE c == FromLeft(hits)
           N == Len(hits)
           part(k) == [m \in 1 .. k |-> c[m]]
<1>1. c \in Seq(Spans(n)) /\ Len(c) = N /\ Apart(c) /\ N \in Nat /\ ToSet(c) = ToSet(hits)
  <2>1. c \in Seq(Spans(n)) /\ Rearranged(c, hits)
    BY ArrangedFromLeft
  <2> HIDE DEF c
  <2>2. Len(c) = N /\ Apart(c) /\ ToSet(c) = ToSet(hits)
    BY <2>1, RearrangedKeeps
  <2> QED BY <2>1, <2>2
<1>2. PICK keeps \in [0 .. N -> Seq(ToSet(hits))] :
          /\ keeps[0] = <<>>
          /\ \A k \in 1 .. N : keeps[k] = Deduped(keeps[k - 1], c[k])
          /\ DedupSpans(hits) = keeps[N]
  BY DedupSpansStepwise
<1> HIDE DEF c, N
<1> DEFINE S == {k \in 0 .. N : keeps[k] = part(k)}
<1>3. 0 \in S
  BY <1>1, <1>2
<1>4. ASSUME NEW k \in 0 .. N - 1, k \in S
      PROVE  k + 1 \in S
  <2>1. /\ k + 1 \in 1 .. N /\ (k + 1) - 1 = k /\ k + 1 \in 0 .. N
        /\ k \in Nat /\ N \in Nat /\ k + 1 <= N
    BY <1>1
  <2>2. \A m \in 1 .. k : m \in 1 .. N /\ m # k + 1
    BY <2>1
  <2>3. DOMAIN c = 1 .. N /\ \A m \in 1 .. N : c[m] \in Spans(n)
    BY <1>1
  <2>4. keeps[k + 1] = Deduped(part(k), c[k + 1])
    BY <2>1, <1>2, <1>4
  <2>5. part(k) \in Seq(Spans(n)) /\ Len(part(k)) = k /\ \A m \in 1 .. k : part(k)[m] = c[m]
    BY <2>1, <2>2, <2>3
  <2>6. ToSet(part(k)) = {c[m] : m \in 1 .. k}
    BY <2>5 DEF ToSet
  <2>7. \A m \in 1 .. k : ~Overlaps(c[k + 1], c[m])
    BY <2>1, <2>2, <2>3, <1>1 DEF Apart
  <2>8. keeps[k + 1] = Append(part(k), c[k + 1])
    <3> HIDE DEF part
    <3> QED BY <2>4, <2>6, <2>7 DEF Deduped
  <2>9. Append(part(k), c[k + 1]) = part(k + 1)
    <3> DEFINE x == part(k)
               y == part(k + 1)
               z == Append(x, c[k + 1])
    <3>1. y \in Seq(Spans(n)) /\ Len(y) = k + 1 /\ \A m \in 1 .. k + 1 : y[m] = c[m]
      <4>1. \A m \in 1 .. k + 1 : m \in 1 .. N
        BY <2>1
      <4> QED BY <4>1, <2>1, <2>3
    <3>2. x \in Seq(Spans(n))
      BY <2>5
    <3>3. c[k + 1] \in Spans(n)
      BY <2>1, <2>3
    <3> HIDE DEF x, y
    <3>4. /\ z \in Seq(Spans(n)) /\ Len(z) = Len(x) + 1
          /\ \A m \in 1 .. Len(x) : z[m] = x[m]
          /\ z[Len(x) + 1] = c[k + 1]
      BY <3>2, <3>3, AppendProperties
    <3> HIDE DEF z
    <3>5. Len(x) = k /\ \A m \in 1 .. k : x[m] = c[m]
      BY <2>5 DEF x
    <3>6. \A m \in 1 .. k + 1 : m \in 1 .. k \/ m = k + 1
      BY <2>1
    <3>7. \A m \in 1 .. k + 1 : z[m] = y[m]
      BY <3>1, <3>4, <3>5, <3>6
    <3>8. z = y
      BY <3>1, <3>4, <3>5, <3>7, SeqEqual
    <3> QED BY <3>8 DEF x, y, z
  <2> QED BY <2>1, <2>8, <2>9
<1>5. \A k \in 0 .. N : k \in S
  <2> HIDE DEF S
  <2> QED BY <1>1, <1>3, <1>4, StepByStep
<1>6. DedupSpans(hits) = part(N)
  BY <1>1, <1>2, <1>5
<1>7. c = [m \in 1 .. N |-> c[m]]
  BY <1>1
<1> QED
  BY <1>6, <1>7 DEF c

\* A span shares its cells with itself.
LEMMA OverlapsItself ==
    ASSUME NEW n \in Nat, NEW h \in Spans(n)
    PROVE  Overlaps(h, h)
BY DEF Spans, Overlaps

\* kept has been chosen from the first k spans of c: what it leaves out overlaps
\* a span of its type that it has, and that came before.
KeptOf(kept, c, k) ==
    \E pick \in [1 .. Len(kept) -> 1 .. k] :
        /\ \A i \in 1 .. Len(kept) : kept[i] = c[pick[i]]
        /\ \A i, j \in 1 .. Len(kept) : i < j => pick[i] < pick[j]
        /\ \A x \in 1 .. k : \E i \in 1 .. Len(kept) :
              pick[i] <= x /\ kept[i].type = c[x].type /\ Overlaps(c[x], kept[i])

LEMMA KeptOfMore ==
    ASSUME NEW n \in Nat, NEW c \in Seq(Spans(n)), NEW k \in 0 .. Len(c) - 1,
           NEW kept \in Seq(Spans(n)), KeptOf(kept, c, k), TypesApart(kept)
    PROVE  /\ KeptOf(Deduped(kept, c[k + 1]), c, k + 1)
           /\ TypesApart(Deduped(kept, c[k + 1]))
           /\ Deduped(kept, c[k + 1]) \in Seq(Spans(n))
<1> DEFINE h == c[k + 1]
           L == Len(kept)
           clash == \E g \in ToSet(kept) : g.type = h.type /\ Overlaps(h, g)
           new == Deduped(kept, h)
<1>1. /\ k \in Nat /\ k + 1 \in 1 .. Len(c) /\ h \in Spans(n) /\ L \in Nat
      /\ DOMAIN kept = 1 .. L /\ \A i \in 1 .. L : kept[i] \in Spans(n)
  OBVIOUS
<1>2. PICK pick \in [1 .. L -> 1 .. k] :
          /\ \A i \in 1 .. L : kept[i] = c[pick[i]]
          /\ \A i, j \in 1 .. L : i < j => pick[i] < pick[j]
          /\ \A x \in 1 .. k : \E i \in 1 .. L :
                pick[i] <= x /\ kept[i].type = c[x].type /\ Overlaps(c[x], kept[i])
  BY DEF KeptOf
<1>3. \A i \in 1 .. L :
          /\ pick[i] \in 1 .. k /\ pick[i] \in 1 .. k + 1
          /\ pick[i] <= k + 1 /\ pick[i] < k + 1
  BY <1>1, <1>2
<1>4. \A x \in 1 .. k + 1 : x \in 1 .. k \/ x = k + 1
  BY <1>1
<1>5. ToSet(kept) = {kept[i] : i \in 1 .. L}
  BY <1>1 DEF ToSet
<1> HIDE DEF h, L
<1>6. CASE clash
  <2>1. new = kept
    BY <1>6 DEF Deduped
  <2>2. PICK i \in 1 .. L : kept[i].type = h.type /\ Overlaps(h, kept[i])
    BY <1>5, <1>6
  <2>3. pick \in [1 .. L -> 1 .. k + 1]
    BY <1>2, <1>3
  <2>4. \A x \in 1 .. k + 1 : \E m \in 1 .. L :
            pick[m] <= x /\ kept[m].type = c[x].type /\ Overlaps(c[x], kept[m])
    BY <1>2, <1>3, <1>4, <2>2 DEF h
  <2>5. KeptOf(kept, c, k + 1)
    BY <1>2, <2>3, <2>4 DEF KeptOf, L
  <2> QED BY <2>1, <2>5 DEF h
<1>7. CASE ~clash
  <2>1. new = Append(kept, h)
    BY <1>7 DEF Deduped
  <2>2. /\ new \in Seq(Spans(n)) /\ Len(new) = L + 1
        /\ \A i \in 1 .. L : new[i] = kept[i]
        /\ new[L + 1] = h
    BY <1>1, <2>1, AppendProperties DEF L
  <2> HIDE DEF new
  <2> DEFINE more == [i \in 1 .. L + 1 |-> IF i <= L THEN pick[i] ELSE k + 1]
  <2>3. \A i \in 1 .. L + 1 : i \in 1 .. L \/ i = L + 1
    BY <1>1
  <2>4. /\ \A i \in 1 .. L : i \in 1 .. L + 1 /\ i < L + 1 /\ more[i] = pick[i]
        /\ L + 1 \in 1 .. L + 1 /\ more[L + 1] = k + 1 /\ k + 1 \in 1 .. k + 1 /\ k + 1 <= k + 1
    BY <1>1
  <2>5. more \in [1 .. L + 1 -> 1 .. k + 1]
    <3>1. \A i \in 1 .. L + 1 : more[i] \in 1 .. k + 1
      <4> HIDE DEF more
      <4> QED BY <1>3, <2>3, <2>4
    <3> QED BY <3>1
  <2> HIDE DEF more
  <2>6. \A i \in 1 .. L + 1 : new[i] = c[more[i]]
    BY <1>2, <2>2, <2>3, <2>4 DEF h
  <2>7. ASSUME NEW i \in 1 .. L + 1, NEW j \in 1 .. L + 1, i < j
        PROVE  more[i] < more[j]
    <3>1. i \in 1 .. L
      BY <1>1, <2>7
    <3> QED BY <3>1, <1>2, <1>3, <2>3, <2>4, <2>7
  <2>8. ASSUME NEW x \in 1 .. k + 1
        PROVE  \E i \in 1 .. L + 1 :
                  more[i] <= x /\ new[i].type = c[x].type /\ Overlaps(c[x], new[i])
    <3>1. CASE x \in 1 .. k
      <4>1. PICK i \in 1 .. L : pick[i] <= x /\ kept[i].type = c[x].type /\ Overlaps(c[x], kept[i])
        BY <3>1, <1>2
      <4> QED BY <4>1, <2>2, <2>4
    <3>2. CASE x = k + 1
      <4>1. Overlaps(h, h)
        BY <1>1, OverlapsItself
      <4> QED BY <3>2, <4>1, <2>2, <2>4 DEF h
    <3> QED BY <3>1, <3>2, <1>4
  <2>9. KeptOf(new, c, k + 1)
    <3>1. Len(new) = L + 1
      BY <2>2
    <3> HIDE DEF L
    <3> QED BY <3>1, <2>5, <2>6, <2>7, <2>8 DEF KeptOf
  <2>10. ASSUME NEW i \in DOMAIN new, NEW j \in DOMAIN new, i # j, new[i].type = new[j].type
         PROVE  ~Overlaps(new[i], new[j])
    <3>1. DOMAIN new = 1 .. L + 1
      BY <2>2
    <3>2. \A m \in 1 .. L : new[m].type = h.type => ~Overlaps(h, new[m]) /\ ~Overlaps(new[m], h)
      BY <1>5, <1>7, <2>2 DEF Overlaps
    <3>3. CASE i \in 1 .. L /\ j \in 1 .. L
      BY <3>3, <1>1, <2>2, <2>10 DEF TypesApart
    <3>4. CASE i = L + 1 \/ j = L + 1
      BY <3>1, <3>2, <3>4, <2>2, <2>3, <2>10
    <3> QED BY <3>1, <3>3, <3>4, <2>3
  <2> QED BY <2>2, <2>9, <2>10 DEF TypesApart, new, h
<1> QED
  BY <1>6, <1>7

\* Of overlapping spans of one type, dedup_spans keeps the first from the left.
LEMMA DedupSpansKept ==
    ASSUME NEW n \in Nat, NEW hits \in Seq(Spans(n))
    PROVE  /\ DedupSpans(hits) \in Seq(Spans(n))
           /\ TypesApart(DedupSpans(hits))
           /\ KeptOf(DedupSpans(hits), FromLeft(hits), Len(hits))
<1> DEFINE c == FromLeft(hits)
           N == Len(hits)
<1>1. c \in Seq(Spans(n)) /\ Len(c) = N /\ N \in Nat
  BY ArrangedFromLeft, RearrangedKeeps
<1>2. PICK keeps \in [0 .. N -> Seq(ToSet(hits))] :
          /\ keeps[0] = <<>>
          /\ \A k \in 1 .. N : keeps[k] = Deduped(keeps[k - 1], c[k])
          /\ DedupSpans(hits) = keeps[N]
  BY DedupSpansStepwise
<1> HIDE DEF c, N
<1> DEFINE S == {k \in 0 .. N : /\ keeps[k] \in Seq(Spans(n))
                                /\ TypesApart(keeps[k])
                                /\ KeptOf(keeps[k], c, k)}
<1>3. 0 \in S
  <2>1. <<>> \in Seq(Spans(n)) /\ TypesApart(<<>>)
    BY DEF TypesApart
  <2>2. KeptOf(<<>>, c, 0)
    <3>1. <<>> \in [1 .. Len(<<>>) -> 1 .. 0] /\ 1 .. Len(<<>>) = {} /\ 1 .. 0 = {}
      OBVIOUS
    <3> QED BY <3>1 DEF KeptOf
  <2> QED BY <2>1, <2>2, <1>1, <1>2
<1>4. ASSUME NEW k \in 0 .. N - 1, k \in S
      PROVE  k + 1 \in S
  <2>1. k + 1 \in 1 .. N /\ (k + 1) - 1 = k /\ k + 1 \in 0 .. N /\ k \in 0 .. Len(c) - 1
    BY <1>1
  <2>2. keeps[k + 1] = Deduped(keeps[k], c[k + 1])
    BY <2>1, <1>2
  <2>3. keeps[k] \in Seq(Spans(n)) /\ TypesApart(keeps[k]) /\ KeptOf(keeps[k], c, k)
    BY <1>4
  <2>4. /\ KeptOf(Deduped(keeps[k], c[k + 1]), c, k + 1)
        /\ TypesApart(Deduped(keeps[k], c[k + 1]))
        /\ Deduped(keeps[k], c[k + 1]) \in Seq(Spans(n))
    BY <1>1, <2>1, <2>3, KeptOfMore
  <2> QED BY <2>1, <2>2, <2>4
<1>5. \A k \in 0 .. N : k \in S
  <2> HIDE DEF S
  <2> QED BY <1>1, <1>3, <1>4, StepByStep
<1> QED
  BY <1>1, <1>2, <1>5 DEF c, N

\* A span of its type that it keeps covers the start of every span it was given,
\* and where spans of one type do not overlap it keeps all.
LEMMA DedupSpansCover ==
    ASSUME NEW n \in Nat, NEW hits \in Seq(Spans(n))
    PROVE  /\ ToSet(DedupSpans(hits)) \subseteq ToSet(hits)
           /\ \A h \in ToSet(hits) : \E k \in ToSet(DedupSpans(hits)) :
                 k.type = h.type /\ k.s <= h.s /\ h.s < k.e
           /\ TypesApart(hits) => ToSet(DedupSpans(hits)) = ToSet(hits)
<1> DEFINE c == FromLeft(hits)
           kept == DedupSpans(hits)
           N == Len(hits)
           L == Len(kept)
<1>1. /\ c \in Seq(Spans(n)) /\ Len(c) = N /\ N \in Nat /\ ToSet(c) = ToSet(hits)
      /\ TypesApart(hits) => TypesApart(c)
      /\ \A i, j \in 1 .. N : i < j => c[i].s <= c[j].s
  BY ArrangedFromLeft, RearrangedKeeps
<1>2. kept \in Seq(Spans(n)) /\ KeptOf(kept, c, N)
  BY DedupSpansKept
<1> HIDE DEF c, kept, N
<1>3. PICK pick \in [1 .. L -> 1 .. N] :
          /\ \A i \in 1 .. L : kept[i] = c[pick[i]]
          /\ \A x \in 1 .. N : \E i \in 1 .. L :
                pick[i] <= x /\ kept[i].type = c[x].type /\ Overlaps(c[x], kept[i])
  BY <1>2 DEF KeptOf
<1>4. /\ DOMAIN c = 1 .. N /\ DOMAIN kept = 1 .. L /\ L \in Nat
      /\ ToSet(c) = {c[x] : x \in 1 .. N} /\ ToSet(kept) = {kept[i] : i \in 1 .. L}
      /\ \A i \in 1 .. L : pick[i] \in 1 .. N /\ pick[i] \in Nat
      /\ \A x \in 1 .. N : c[x] \in Spans(n)
  <2>1. DOMAIN c = 1 .. N /\ \A x \in 1 .. N : c[x] \in Spans(n)
    BY <1>1
  <2>2. DOMAIN kept = 1 .. L /\ L \in Nat
    BY <1>2
  <2>3. \A i \in 1 .. L : pick[i] \in 1 .. N /\ pick[i] \in Nat
    BY <1>1, <1>3
  <2> HIDE DEF L
  <2> QED BY <2>1, <2>2, <2>3 DEF ToSet
<1> HIDE DEF L
<1>5. ToSet(kept) \subseteq ToSet(hits)
  BY <1>1, <1>3, <1>4
<1>6. ASSUME NEW h \in ToSet(hits)
      PROVE  \E k \in ToSet(kept) :
                k.type = h.type /\ k.s <= h.s /\ h.s < k.e /\ (TypesApart(c) => k = h)
  <2>1. PICK x \in 1 .. N : c[x] = h
    BY <1>1, <1>4
  <2>2. PICK i \in 1 .. L : pick[i] <= x /\ kept[i].type = c[x].type /\ Overlaps(c[x], kept[i])
    BY <1>3
  <2> DEFINE y == pick[i]
  <2>3. /\ y \in 1 .. N /\ y \in Nat /\ x \in Nat /\ y <= x
        /\ kept[i] = c[y] /\ kept[i] \in ToSet(kept)
    BY <2>2, <1>1, <1>3, <1>4
  <2> HIDE DEF y
  <2>4. c[y].s <= c[x].s
    <3>1. y < x \/ y = x
      BY <2>3
    <3>2. c[x].s \in Nat
      BY <1>4 DEF Spans
    <3> QED BY <3>1, <3>2, <2>3, <1>1
  <2>5. h.s < kept[i].e
    BY <2>1, <2>2 DEF Overlaps
  <2>6. TypesApart(c) => y = x
    BY <2>2, <2>3, <1>4 DEF TypesApart
  <2> QED BY <2>1, <2>2, <2>3, <2>4, <2>5, <2>6
<1>7. TypesApart(hits) => ToSet(hits) \subseteq ToSet(kept)
  BY <1>1, <1>6
<1> QED
  BY <1>5, <1>6, <1>7 DEF kept

\* What a rewriting has done so far.
Rewritings == [out : Seq(Nat), seen : Seq(Seq(Nat))]

\* A line whose positions before m are as they were, and behind them those from
\* m on.
Intact(out, m) ==
    /\ Len(out) >= m - 1
    /\ \A i \in 1 .. m - 1 : out[i] = i
    /\ \A i \in m .. Len(out) : out[i] = 0 \/ out[i] >= m

LEMMA LeastOfTwo ==
    ASSUME NEW a \in Nat, NEW b \in Nat
    PROVE  Min({a, b}) \in Nat /\ Min({a, b}) <= a /\ Min({a, b}) <= b /\ Min({a, b}) \in {a, b}
<1> DEFINE T == {a, b}
<1>1. T \subseteq Nat /\ T # {} /\ a \in T /\ b \in T
  OBVIOUS
<1> HIDE DEF T
<1>2. Min(T) \in T /\ \A y \in T : Min(T) <= y
  BY <1>1, LeastOf
<1> QED
  BY <1>1, <1>2 DEF T

\* A slice of a sequence of numbers, with any bounds.
LEMMA Sliced ==
    ASSUME NEW x \in Seq(Nat), NEW a \in Nat \ {0}, NEW b \in Nat, b <= Len(x)
    PROVE  /\ SubSeq(x, a, b) \in Seq(Nat)
           /\ Len(SubSeq(x, a, b)) = IF a <= b THEN b - a + 1 ELSE 0
           /\ \A i \in 1 .. b - a + 1 : SubSeq(x, a, b)[i] = x[a + i - 1]
<1>1. \A i \in a .. b : x[i] \in Nat
  OBVIOUS
<1> QED
  BY <1>1, SubSeqProperties

LEMMA ReplacedState ==
    ASSUME NEW n \in Nat, NEW h \in Spans(n), NEW acc \in Rewritings
    PROVE  Replaced(acc, h) \in Rewritings
<1> DEFINE x == acc.out
           L == Len(x)
           a == h.s
           b == h.e
           i == Min({a - 1, L})
           j == Min({b - 1, L})
<1>1. x \in Seq(Nat) /\ L \in Nat /\ acc.seen \in Seq(Seq(Nat))
  BY DEF Rewritings
<1>2. a \in Nat \ {0} /\ b \in Nat \ {0} /\ a - 1 \in Nat /\ b - 1 \in Nat
  BY DEF Spans
<1>3. i \in Nat /\ i <= L /\ j \in Nat /\ j <= L
  <2> HIDE DEF x, L, a, b
  <2> QED BY <1>1, <1>2, LeastOfTwo
<1>4. Replaced(acc, h) =
        IF h.type \notin CanonicalTypes THEN acc
        ELSE [out |-> (SubSeq(x, 1, i) \o Placeholder) \o SubSeq(x, b, L),
              seen |-> Append(acc.seen, SubSeq(x, a, j))]
  BY DEF Replaced
<1> HIDE DEF x, a, b, i, j
<1>5. SubSeq(x, 1, i) \in Seq(Nat) /\ SubSeq(x, b, L) \in Seq(Nat) /\ SubSeq(x, a, j) \in Seq(Nat)
  <2>1. L <= Len(x)
    BY <1>1
  <2>2. i <= Len(x) /\ j <= Len(x)
    BY <1>3 DEF L
  <2> HIDE DEF L
  <2>3. SubSeq(x, 1, i) \in Seq(Nat)
    <3>1. 1 \in Nat \ {0}
      OBVIOUS
    <3> QED BY <3>1, <1>1, <1>3, <2>2, Sliced
  <2>4. SubSeq(x, b, L) \in Seq(Nat)
    BY <1>1, <1>2, <2>1, Sliced
  <2>5. SubSeq(x, a, j) \in Seq(Nat)
    BY <1>1, <1>2, <1>3, <2>2, Sliced
  <2> QED BY <2>3, <2>4, <2>5
<1>6. Placeholder \in Seq(Nat)
  BY DEF Placeholder
<1>7. (SubSeq(x, 1, i) \o Placeholder) \o SubSeq(x, b, L) \in Seq(Nat)
  BY <1>5, <1>6, ConcatProperties
<1>8. Append(acc.seen, SubSeq(x, a, j)) \in Seq(Seq(Nat))
  BY <1>1, <1>5, AppendProperties
<1> DEFINE out == (SubSeq(x, 1, i) \o Placeholder) \o SubSeq(x, b, L)
           seen == Append(acc.seen, SubSeq(x, a, j))
<1>9. Replaced(acc, h) = IF h.type \notin CanonicalTypes THEN acc ELSE [out |-> out, seen |-> seen]
  BY <1>4
<1>10. out \in Seq(Nat) /\ seen \in Seq(Seq(Nat))
  BY <1>7, <1>8
<1> HIDE DEF out, seen
<1> QED
  BY <1>9, <1>10 DEF Rewritings

\* The spans are replaced one after the other.
LEMMA AppliedStepwise ==
    ASSUME NEW t \in Seq(Cell), NEW c \in Seq(Spans(Len(t)))
    PROVE  \E after \in [0 .. Len(c) -> Rewritings] :
               /\ after[0] = [out |-> Line(Len(t)), seen |-> <<>>]
               /\ \A k \in 1 .. Len(c) : after[k] = Replaced(after[k - 1], c[k])
               /\ Applied(t, c) = after[Len(c)]
<1> DEFINE N == Len(c)
           T == Rewritings
           start == [out |-> [i \in DOMAIN t |-> i], seen |-> <<>>]
           next(g) == [k \in 0 .. N |-> IF k = 0 THEN start ELSE Replaced(g[k - 1], c[k])]
           after == CHOOSE g : g = next(g)
           step == [x \in T \X (1 .. N) |-> Replaced(x[1], c[x[2]])]
<1>1. /\ N \in Nat /\ Len(t) \in Nat /\ DOMAIN t = 1 .. Len(t)
      /\ \A k \in 1 .. N : c[k] \in Spans(Len(t))
  OBVIOUS
<1>2. Applied(t, c) = after[N]
  BY DEF Applied
<1>3. start = [out |-> Line(Len(t)), seen |-> <<>>]
  BY <1>1 DEF Line
<1>4. start \in T
  BY <1>1 DEF Rewritings
<1>5. step \in Steps(T, N)
  <2>1. \A x \in T \X (1 .. N) : Replaced(x[1], c[x[2]]) \in T
    BY <1>1, ReplacedState
  <2> HIDE DEF T, N
  <2> QED BY <2>1 DEF Steps
<1> HIDE DEF T, N, start
<1>6. PICK g : Runs(g, T, N, start, step)
  <2> HIDE DEF step
  <2> QED BY <1>1, <1>4, <1>5, Recursion
<1>7. \A k \in 1 .. N : k - 1 \in 0 .. N /\ k \in 0 .. N /\ k # 0
  BY <1>1
<1>8. g \in [0 .. N -> T] /\ g[0] = start /\ \A k \in 1 .. N : g[k] = Replaced(g[k - 1], c[k])
  BY <1>6, <1>7 DEF Runs
<1>9. g = next(g)
  <2>1. ASSUME NEW k \in 0 .. N
        PROVE  g[k] = IF k = 0 THEN start ELSE Replaced(g[k - 1], c[k])
    <3>1. k = 0 \/ k \in 1 .. N
      BY <1>1
    <3> QED BY <3>1, <1>7, <1>8
  <2>2. g = [k \in 0 .. N |-> g[k]]
    BY <1>8
  <2> QED BY <2>1, <2>2
<1>10. after = next(after)
  <2> HIDE DEF next
  <2> QED BY <1>9
<1> HIDE DEF after, step
<1>11. after[0] = start /\ \A k \in 1 .. N : after[k] = Replaced(after[k - 1], c[k])
  <2>1. \A k \in 0 .. N : after[k] = IF k = 0 THEN start ELSE Replaced(after[k - 1], c[k])
    BY <1>10
  <2>2. 0 \in 0 .. N
    BY <1>1
  <2> HIDE DEF next
  <2> QED BY <2>1, <2>2, <1>7
<1> DEFINE S == {k \in 0 .. N : after[k] \in T}
<1>12. 0 \in S
  BY <1>1, <1>4, <1>11
<1>13. ASSUME NEW k \in 0 .. N - 1, k \in S
       PROVE  k + 1 \in S
  <2>1. k + 1 \in 1 .. N /\ (k + 1) - 1 = k /\ k + 1 \in 0 .. N
    BY <1>1
  <2>2. after[k + 1] = Replaced(after[k], c[k + 1])
    BY <2>1, <1>11
  <2>3. after[k] \in T /\ c[k + 1] \in Spans(Len(t))
    BY <2>1, <1>1, <1>13
  <2>4. Replaced(after[k], c[k + 1]) \in T
    BY <2>3, ReplacedState DEF T
  <2> QED BY <2>1, <2>2, <2>4
<1>14. \A k \in 0 .. N : k \in S
  <2> HIDE DEF S
  <2> QED BY <1>1, <1>12, <1>13, StepByStep
<1>15. after \in [0 .. N -> T]
  <2>1. after = [k \in 0 .. N |-> after[k]]
    BY <1>10
  <2> HIDE DEF next
  <2> QED BY <2>1, <1>14
<1> QED
  BY <1>2, <1>3, <1>11, <1>15 DEF T, N

\* The positions that a span covers.
Text(h) == [n \in 1 .. h.e - h.s |-> h.s + n - 1]

\* One span replaced, in a line whose spans to the right of it are.
LEMMA ReplacedOneMore ==
    ASSUME NEW n \in Nat, NEW h \in Spans(n), NEW H, NEW acc,
           H \subseteq Spans(n), \A g \in H : h.e <= g.s,
           h.type \in CanonicalTypes, acc.out = Joined(n, H)
    PROVE  Replaced(acc, h) = [out |-> Joined(n, H \cup {h}), seen |-> Append(acc.seen, Text(h))]
<1> DEFINE x == Joined(n, H)
           a == h.s
           b == h.e
           L == Len(x)
<1>1. /\ x \in Seq(Nat)
      /\ L >= b - 1
      /\ \A j \in 1 .. b - 1 : x[j] = j
      /\ Joined(n, H \cup {h}) = (SubSeq(x, 1, a - 1) \o Placeholder) \o SubSeq(x, b, L)
  BY JoinedOneMore
<1>2. a \in Nat \ {0} /\ b \in Nat \ {0} /\ a < b
  BY DEF Spans
<1>3. L \in Nat
  BY <1>1
<1>4. Replaced(acc, h) =
        [out |-> (SubSeq(x, 1, Min({a - 1, L})) \o Placeholder) \o SubSeq(x, b, L),
         seen |-> Append(acc.seen, SubSeq(x, a, Min({b - 1, L})))]
  BY DEF Replaced
<1>5. Text(h) = [k \in 1 .. b - a |-> a + k - 1]
  BY DEF Text
<1> HIDE DEF x, a, b, L
<1>6. \A m \in Nat : m <= L => Min({m, L}) = m
  <2> SUFFICES ASSUME NEW m \in Nat, m <= L PROVE Min({m, L}) = m
    OBVIOUS
  <2>1. Min({m, L}) \in {m, L} /\ \A y \in {m, L} : Min({m, L}) <= y
    <3> DEFINE T == {m, L}
    <3>1. T \subseteq Nat
      BY <1>3
    <3>2. T # {}
      OBVIOUS
    <3> HIDE DEF T
    <3>3. Min(T) \in T /\ \A y \in T : Min(T) <= y
      BY <3>1, <3>2, LeastOf
    <3> QED BY <3>3 DEF T
  <2>2. Min({m, L}) <= m
    BY <2>1
  <2> QED BY <2>1, <2>2, <1>3
<1>7. Min({a - 1, L}) = a - 1 /\ Min({b - 1, L}) = b - 1
  <2>1. a - 1 \in Nat /\ b - 1 \in Nat /\ a - 1 <= L /\ b - 1 <= L
    BY <1>1, <1>2, <1>3
  <2> QED BY <2>1, <1>6
<1>8. SubSeq(x, a, b - 1) = Text(h)
  <2>1. /\ SubSeq(x, a, b - 1) \in Seq(Nat)
        /\ Len(SubSeq(x, a, b - 1)) = IF a <= b - 1 THEN (b - 1) - a + 1 ELSE 0
        /\ \A k \in 1 .. (b - 1) - a + 1 : SubSeq(x, a, b - 1)[k] = x[a + k - 1]
    <3>1. \A j \in a .. b - 1 : x[j] \in Nat
      BY <1>1, <1>2
    <3>2. a \in Int /\ b - 1 \in Int
      BY <1>2
    <3> QED BY <3>1, <3>2, SubSeqProperties
  <2>2. Text(h) \in Seq(Nat) /\ Len(Text(h)) = b - a /\ \A k \in 1 .. b - a : Text(h)[k] = a + k - 1
    BY <1>2, <1>5
  <2>3. (b - 1) - a + 1 = b - a /\ a <= b - 1 /\ \A k \in 1 .. b - a : a + k - 1 \in 1 .. b - 1
    BY <1>2
  <2>4. /\ Len(SubSeq(x, a, b - 1)) = b - a
        /\ \A k \in 1 .. b - a : SubSeq(x, a, b - 1)[k] = a + k - 1
    BY <2>1, <2>3, <1>1
  <2> QED BY <2>1, <2>2, <2>4, SeqEqual
<1> QED
  BY <1>1, <1>4, <1>7, <1>8

\* Spans that stand one behind the other, replaced from the right: each is
\* replaced once, and what it covers is what its transformation is given.
LEMMA AppliedApart ==
    ASSUME NEW t \in Seq(Cell), NEW c \in Seq(Spans(Len(t))),
           \A k \in 1 .. Len(c) : c[k].type \in CanonicalTypes,
           \A i, j \in 1 .. Len(c) : i < j => c[j].e <= c[i].s
    PROVE  /\ Applied(t, c).out = Joined(Len(t), ToSet(c))
           /\ ToSet(Applied(t, c).seen) = {Text(h) : h \in ToSet(c)}
<1> DEFINE n == Len(t)
           N == Len(c)
           start == [out |-> Line(n), seen |-> <<>>]
           First(k) == {c[m] : m \in 1 .. k}
           state(k) == [out |-> Joined(n, First(k)), seen |-> [m \in 1 .. k |-> Text(c[m])]]
<1>1. n \in Nat /\ N \in Nat /\ DOMAIN t = 1 .. n /\ DOMAIN c = 1 .. N
  OBVIOUS
<1>2. \A k \in 1 .. N : c[k] \in Spans(n) /\ c[k].type \in CanonicalTypes
  OBVIOUS
<1>3. PICK after \in [0 .. N -> Rewritings] :
          /\ after[0] = start
          /\ \A k \in 1 .. N : after[k] = Replaced(after[k - 1], c[k])
          /\ Applied(t, c) = after[N]
  BY AppliedStepwise
<1> HIDE DEF n
<1>4. state(0) = start
  <2>1. First(0) = {}
    OBVIOUS
  <2>2. Joined(n, {}) = Line(n)
    BY <1>1, JoinedNone
  <2>3. [m \in 1 .. 0 |-> Text(c[m])] = <<>>
    OBVIOUS
  <2> HIDE DEF First
  <2> QED BY <2>1, <2>2, <2>3
<1>5. ASSUME NEW k \in 1 .. N
      PROVE  state(k) = Replaced(state(k - 1), c[k])
  <2> DEFINE H == First(k - 1)
             h == c[k]
             acc == state(k - 1)
  <2>1. k - 1 \in 0 .. N /\ \A m \in 1 .. k - 1 : m \in 1 .. N /\ m < k
    BY <1>1
  <2>2. H \subseteq Spans(n)
    BY <2>1, <1>2
  <2>3. \A f \in H : h.e <= f.s
    BY <2>1, <1>1
  <2>4. h \in Spans(n) /\ h.type \in CanonicalTypes
    BY <1>2
  <2>5. First(k) = H \cup {h}
    <3>1. \A m \in 1 .. k : m \in 1 .. k - 1 \/ m = k
      BY <1>1
    <3>2. \A m \in 1 .. k - 1 : m \in 1 .. k
      BY <1>1
    <3> QED BY <3>1, <3>2
  <2>6. acc.out = Joined(n, H) /\ acc.seen = [m \in 1 .. k - 1 |-> Text(c[m])]
    OBVIOUS
  <2>7. Append(acc.seen, Text(h)) = [m \in 1 .. k |-> Text(c[m])]
    <3> DEFINE E == {Text(c[m]) : m \in 1 .. k}
               old == [m \in 1 .. k - 1 |-> Text(c[m])]
               new == [m \in 1 .. k |-> Text(c[m])]
    <3>1. k \in Nat /\ k - 1 \in Nat /\ (k - 1) + 1 = k
      BY <1>1
    <3>2. old \in Seq(E) /\ Len(old) = k - 1 /\ \A m \in 1 .. k - 1 : old[m] = Text(c[m])
      BY <3>1
    <3>3. new \in Seq(E) /\ Len(new) = k /\ \A m \in 1 .. k : new[m] = Text(c[m])
      BY <3>1
    <3>4. Text(h) \in E
      BY <3>1
    <3> HIDE DEF E, old, new, h
    <3>5. old \in Seq(E)
      BY <3>2
    <3> DEFINE r == Append(old, Text(h))
    <3>6. /\ r \in Seq(E) /\ Len(r) = Len(old) + 1
          /\ \A m \in 1 .. Len(old) : r[m] = old[m]
          /\ r[Len(old) + 1] = Text(h)
      BY <3>4, <3>5, AppendProperties
    <3> HIDE DEF r
    <3>7. \A m \in 1 .. k : r[m] = new[m]
      <4>1. \A m \in 1 .. k : m \in 1 .. k - 1 \/ m = k
        BY <3>1
      <4>2. \A m \in 1 .. k - 1 : m \in 1 .. k
        BY <3>1
      <4>3. k \in 1 .. k
        BY <3>1
      <4> QED BY <4>1, <4>2, <4>3, <3>1, <3>2, <3>3, <3>6 DEF h
    <3>8. r = new
      BY <3>1, <3>2, <3>3, <3>6, <3>7, SeqEqual
    <3> QED BY <2>6, <3>8 DEF r, old, new
  <2> HIDE DEF H, h, acc, First
  <2>8. Replaced(acc, h) = [out |-> Joined(n, H \cup {h}), seen |-> Append(acc.seen, Text(h))]
    <3>1. h \in Spans(n)
      BY <2>4
    <3>2. h.type \in CanonicalTypes
      BY <2>4
    <3>3. acc.out = Joined(n, H)
      BY <2>6
    <3>4. n \in Nat
      BY <1>1
    <3> QED BY <3>1, <3>2, <3>3, <3>4, <2>2, <2>3, ReplacedOneMore
  <2>9. state(k) = Replaced(acc, h)
    BY <2>5, <2>7, <2>8
  <2> QED BY <2>9 DEF acc, h
<1> HIDE DEF state, start
<1> DEFINE S == {k \in 0 .. N : after[k] = state(k)}
<1>6. 0 \in S
  BY <1>1, <1>3, <1>4
<1>7. ASSUME NEW k \in 0 .. N - 1, k \in S
       PROVE  k + 1 \in S
  <2>1. k + 1 \in 1 .. N /\ (k + 1) - 1 = k /\ k + 1 \in 0 .. N
    BY <1>1
  <2>2. after[k + 1] = Replaced(after[k], c[k + 1])
    BY <2>1, <1>3
  <2>3. state(k + 1) = Replaced(state(k), c[k + 1])
    BY <2>1, <1>5
  <2> QED BY <2>1, <2>2, <2>3, <1>7
<1>8. \A k \in 0 .. N : k \in S
  <2> HIDE DEF S
  <2> QED BY <1>1, <1>6, <1>7, StepByStep
<1>9. Applied(t, c) = state(N)
  BY <1>1, <1>3, <1>8
<1>10. First(N) = ToSet(c)
  BY <1>1 DEF ToSet
<1>11. ToSet([m \in 1 .. N |-> Text(c[m])]) = {Text(h) : h \in ToSet(c)}
  BY <1>1 DEF ToSet
<1> DEFINE out == Joined(n, First(N))
           seen == [m \in 1 .. N |-> Text(c[m])]
<1> HIDE DEF First
<1>12. Applied(t, c) = [out |-> out, seen |-> seen]
  BY <1>9 DEF state
<1>13. out = Joined(Len(t), ToSet(c))
  <2>1. Joined(n, First(N)) = Joined(n, ToSet(c))
    <3> HIDE DEF N, n
    <3> QED BY <1>10
  <2> QED BY <2>1 DEF n
<1>14. ToSet(seen) = {Text(h) : h \in ToSet(c)}
  BY <1>11
<1> HIDE DEF out, seen
<1>15. Applied(t, c).out = out /\ Applied(t, c).seen = seen
  BY <1>12
<1> QED
  BY <1>13, <1>14, <1>15

\* One span replaced, whatever was replaced before it: the front of the line is
\* as it was, and behind it there is only what stood behind the span's end.
LEMMA ReplacedOut ==
    ASSUME NEW n \in Nat, NEW h \in Spans(n), NEW acc \in Rewritings,
           h.type \in CanonicalTypes
    PROVE  LET x == acc.out
               y == Replaced(acc, h).out
               q == Min({h.s - 1, Len(x)})
           IN  /\ y \in Seq(Nat) /\ q \in Nat
               /\ q <= h.s - 1 /\ q <= Len(x) /\ q \in {h.s - 1, Len(x)} /\ q <= Len(y)
               /\ \A i \in 1 .. q : y[i] = x[i]
               /\ \A i \in q + 1 .. Len(y) : y[i] = 0 \/ \E j \in h.e .. Len(x) : y[i] = x[j]
<1> DEFINE x == acc.out
           L == Len(x)
           a == h.s
           b == h.e
           q == Min({a - 1, L})
           head == SubSeq(x, 1, q)
           tail == SubSeq(x, b, L)
           K == Len(tail)
           front == head \o Placeholder
           out == front \o tail
<1>1. x \in Seq(Nat) /\ L \in Nat /\ L <= Len(x) /\ Replaced(acc, h) \in Rewritings
  BY ReplacedState DEF Rewritings
<1>2. a \in Nat \ {0} /\ b \in Nat \ {0} /\ a - 1 \in Nat /\ 1 \in Nat \ {0}
  BY DEF Spans
<1>3. Replaced(acc, h).out = out
  BY DEF Replaced
<1> HIDE DEF a, b
<1>4. q \in Nat /\ q <= a - 1 /\ q <= L /\ q \in {a - 1, L}
  <2> HIDE DEF L
  <2> QED BY <1>1, <1>2, LeastOfTwo
<1> HIDE DEF q
<1>5. head \in Seq(Nat) /\ Len(head) = q /\ \A i \in 1 .. q : head[i] = x[i]
  <2>1. q <= Len(x)
    BY <1>4
  <2>2. /\ head \in Seq(Nat)
        /\ Len(head) = IF 1 <= q THEN q - 1 + 1 ELSE 0
        /\ \A i \in 1 .. q - 1 + 1 : head[i] = x[1 + i - 1]
    BY <1>1, <1>2, <1>4, <2>1, Sliced
  <2>3. \A i \in 1 .. q : 1 + i - 1 = i /\ i \in 1 .. q - 1 + 1
    BY <1>4
  <2> HIDE DEF head
  <2> QED BY <2>2, <2>3, <1>4
<1>6. /\ tail \in Seq(Nat) /\ K \in Nat
      /\ \A i \in 1 .. K : b + i - 1 \in b .. L /\ tail[i] = x[b + i - 1]
  <2>1. /\ tail \in Seq(Nat)
        /\ Len(tail) = IF b <= L THEN L - b + 1 ELSE 0
        /\ \A i \in 1 .. L - b + 1 : tail[i] = x[b + i - 1]
    BY <1>1, <1>2, Sliced
  <2> HIDE DEF tail
  <2> QED BY <1>1, <1>2, <2>1
<1> HIDE DEF head, tail, x, L
<1>7. Placeholder \in Seq(Nat) /\ Len(Placeholder) = 2 /\ Placeholder[1] = 0 /\ Placeholder[2] = 0
  BY DEF Placeholder
<1>8. /\ front \in Seq(Nat) /\ Len(front) = q + 2
      /\ \A i \in 1 .. q + 2 : front[i] = IF i <= q THEN head[i] ELSE Placeholder[i - q]
  <2>1. /\ front \in Seq(Nat) /\ Len(front) = Len(head) + Len(Placeholder)
        /\ \A i \in 1 .. Len(head) + Len(Placeholder) :
              front[i] = IF i <= Len(head) THEN head[i] ELSE Placeholder[i - Len(head)]
    <3>1. head \in Seq(Nat) /\ Placeholder \in Seq(Nat)
      BY <1>5, <1>7
    <3> QED BY <3>1, ConcatProperties
  <2>2. Len(head) = q /\ Len(Placeholder) = 2
    BY <1>5, <1>7
  <2> HIDE DEF front
  <2> QED BY <2>1, <2>2
<1> HIDE DEF front
<1>9. /\ out \in Seq(Nat) /\ Len(out) = (q + 2) + K
      /\ \A i \in 1 .. (q + 2) + K :
            out[i] = IF i <= q + 2 THEN front[i] ELSE tail[i - (q + 2)]
  <2>1. /\ out \in Seq(Nat) /\ Len(out) = Len(front) + Len(tail)
        /\ \A i \in 1 .. Len(front) + Len(tail) :
              out[i] = IF i <= Len(front) THEN front[i] ELSE tail[i - Len(front)]
    <3>1. front \in Seq(Nat) /\ tail \in Seq(Nat)
      BY <1>6, <1>8
    <3> QED BY <3>1, ConcatProperties
  <2>2. Len(front) = q + 2 /\ Len(tail) = K
    BY <1>8
  <2> HIDE DEF out, K
  <2> QED BY <2>1, <2>2
<1> HIDE DEF out, K
<1>10. q <= Len(out)
  BY <1>4, <1>6, <1>9
<1>11. ASSUME NEW i \in 1 .. q
       PROVE  out[i] = x[i]
  <2>1. i \in 1 .. (q + 2) + K /\ i <= q + 2 /\ i \in 1 .. q + 2 /\ i <= q
    BY <1>4, <1>6
  <2> QED BY <2>1, <1>5, <1>8, <1>9
<1>12. ASSUME NEW i \in q + 1 .. Len(out)
       PROVE  out[i] = 0 \/ \E j \in b .. L : out[i] = x[j]
  <2>1. i \in 1 .. (q + 2) + K /\ ~ (i <= q)
    BY <1>4, <1>9
  <2>2. CASE i <= q + 2
    <3>1. i \in 1 .. q + 2 /\ (i - q = 1 \/ i - q = 2)
      BY <2>1, <2>2, <1>4
    <3>2. out[i] = Placeholder[i - q]
      BY <3>1, <2>1, <2>2, <1>8, <1>9
    <3> QED BY <3>1, <3>2, <1>7
  <2>3. CASE ~ (i <= q + 2)
    <3> DEFINE d == i - (q + 2)
    <3>1. d \in 1 .. K
      BY <2>1, <2>3, <1>4, <1>6
    <3>2. out[i] = tail[d]
      BY <2>1, <2>3, <1>9
    <3> HIDE DEF d
    <3> QED BY <3>1, <3>2, <1>6
  <2> QED BY <2>2, <2>3
<1> QED
  BY <1>1, <1>3, <1>4, <1>9, <1>10, <1>11, <1>12 DEF x, L, q, a, b

\* What becomes of one position x: once gone it stays gone, a span behind it
\* leaves the line before it alone, and a span over it removes it.
LEMMA ReplacedCell ==
    ASSUME NEW n \in Nat, NEW h \in Spans(n), NEW acc \in Rewritings,
           h.type \in CanonicalTypes, NEW x \in Nat \ {0}
    PROVE  /\ x \notin ToSet(acc.out) => x \notin ToSet(Replaced(acc, h).out)
           /\ Intact(acc.out, x + 1) /\ x < h.s => Intact(Replaced(acc, h).out, x + 1)
           /\ Intact(acc.out, x + 1) /\ h.s <= x /\ x < h.e =>
                 x \notin ToSet(Replaced(acc, h).out)
<1> DEFINE u == acc.out
           y == Replaced(acc, h).out
           a == h.s
           b == h.e
           L == Len(u)
           M == Len(y)
           q == Min({a - 1, L})
<1>1. /\ y \in Seq(Nat) /\ q \in Nat
      /\ q <= a - 1 /\ q <= L /\ q \in {a - 1, L} /\ q <= M
      /\ \A i \in 1 .. q : y[i] = u[i]
      /\ \A i \in q + 1 .. M : y[i] = 0 \/ \E j \in b .. L : y[i] = u[j]
  BY ReplacedOut
<1>2. /\ u \in Seq(Nat) /\ L \in Nat /\ DOMAIN u = 1 .. L
      /\ M \in Nat /\ DOMAIN y = 1 .. M
  BY <1>1 DEF Rewritings
<1>3. a \in Nat /\ b \in Nat /\ 1 <= a /\ a < b
  BY DEF Spans
<1>4. /\ ToSet(u) = {u[i] : i \in 1 .. L} /\ ToSet(y) = {y[i] : i \in 1 .. M}
      /\ \A i \in 1 .. L : u[i] \in Nat
  BY <1>2 DEF ToSet
<1>5. Intact(u, x + 1) <=>
          /\ L >= x
          /\ \A i \in 1 .. x : u[i] = i
          /\ \A i \in x + 1 .. L : u[i] = 0 \/ u[i] >= x + 1
  BY <1>2 DEF Intact
<1>6. Intact(y, x + 1) <=>
          /\ M >= x
          /\ \A i \in 1 .. x : y[i] = i
          /\ \A i \in x + 1 .. M : y[i] = 0 \/ y[i] >= x + 1
  BY <1>2 DEF Intact
<1> HIDE DEF u, y, a, b, L, M, q
<1>7. ASSUME x \notin ToSet(u), NEW i \in 1 .. M
      PROVE  y[i] # x
  <2>1. CASE i \in 1 .. q
    <3>1. i \in 1 .. L
      BY <2>1, <1>1, <1>2
    <3> QED BY <3>1, <2>1, <1>1, <1>4, <1>7
  <2>2. CASE i \in q + 1 .. M
    <3>1. \A j \in b .. L : j \in 1 .. L
      BY <1>2, <1>3
    <3> QED BY <3>1, <2>2, <1>1, <1>4, <1>7
  <2> QED BY <2>1, <2>2, <1>1, <1>2
<1>8. ASSUME Intact(u, x + 1), x < a
      PROVE  Intact(y, x + 1)
  <2>1. q >= x /\ M >= x
    BY <1>1, <1>2, <1>3, <1>5, <1>8
  <2>2. \A i \in 1 .. x : y[i] = i
    <3>1. \A i \in 1 .. x : i \in 1 .. q
      BY <2>1, <1>1
    <3> QED BY <3>1, <1>1, <1>5, <1>8
  <2>3. ASSUME NEW i \in x + 1 .. M
        PROVE  y[i] = 0 \/ y[i] >= x + 1
    <3>1. CASE i \in 1 .. q
      <4>1. i \in x + 1 .. L
        BY <3>1, <2>3, <1>1, <1>2
      <4>2. u[i] = 0 \/ u[i] >= x + 1
        BY <4>1, <1>5, <1>8
      <4>3. y[i] = u[i]
        BY <3>1, <1>1
      <4> QED BY <4>2, <4>3
    <3>2. CASE i \in q + 1 .. M
      <4>1. \A j \in b .. L : j \in x + 1 .. L
        BY <1>2, <1>3, <1>8
      <4> QED BY <4>1, <3>2, <1>1, <1>5, <1>8
    <3> QED BY <3>1, <3>2, <2>3, <1>1, <1>2
  <2> QED BY <2>1, <2>2, <2>3, <1>6
<1>9. ASSUME Intact(u, x + 1), a <= x, x < b, NEW i \in 1 .. M
      PROVE  y[i] # x
  <2>1. CASE i \in 1 .. q
    <3>1. i \in 1 .. x /\ i # x
      BY <2>1, <1>1, <1>3, <1>9
    <3> QED BY <3>1, <2>1, <1>1, <1>5, <1>9
  <2>2. CASE i \in q + 1 .. M
    <3>1. \A j \in b .. L : j \in x + 1 .. L
      BY <1>2, <1>3, <1>9
    <3>2. \A j \in b .. L : u[j] = 0 \/ u[j] >= x + 1
      BY <3>1, <1>5, <1>9
    <3>3. \A j \in b .. L : u[j] # x
      <4> SUFFICES ASSUME NEW j \in b .. L PROVE u[j] # x
        OBVIOUS
      <4> DEFINE v == u[j]
      <4>1. v = 0 \/ v >= x + 1
        BY <3>2
      <4> HIDE DEF v
      <4>2. v # x
        BY <4>1
      <4> QED BY <4>2 DEF v
    <3> QED BY <3>3, <2>2, <1>1
  <2> QED BY <2>1, <2>2, <1>1, <1>2
<1> QED
  BY <1>4, <1>7, <1>8, <1>9 DEF u, y, a, b

\* A span that no other span has moved the end of is gone, with all it covers.
LEMMA RewriteGone ==
    ASSUME NEW t \in Seq(Cell), NEW hits \in Seq(Spans(Len(t))),
           \A h \in ToSet(hits) : h.type \in CanonicalTypes,
           TypesApart(hits),
           NEW k \in ToSet(hits), \A g \in ToSet(hits) : ~ (k.s <= g.s /\ g.e < k.e)
    PROVE  Cells(k) \cap ToSet(Rewrite(t, hits).out) = {}
<1> DEFINE n == Len(t)
           kept == DedupSpans(hits)
           c == FromRight(kept)
           N == Len(c)
<1>1. n \in Nat /\ kept \in Seq(Spans(n)) /\ ToSet(kept) = ToSet(hits)
  BY DedupSpansKept, DedupSpansCover
<1>2. Rewrite(t, hits) = Applied(t, c)
  BY DEF Rewrite
<1> HIDE DEF kept
<1>3. /\ c \in Seq(Spans(n)) /\ Rearranged(c, kept)
      /\ \A i, j \in DOMAIN kept : i < j => c[j].s <= c[i].s
  BY <1>1, ArrangedFromRight
<1> HIDE DEF c
<1>4. ToSet(c) = ToSet(hits) /\ N \in Nat /\ DOMAIN kept = 1 .. N
  <2>1. ToSet(c) = ToSet(kept) /\ Len(c) = Len(kept)
    BY <1>1, <1>3, RearrangedKeeps
  <2> QED BY <2>1, <1>1
<1>5. /\ \A m \in 1 .. N : c[m] \in Spans(n) /\ c[m] \in ToSet(hits)
      /\ ToSet(c) = {c[m] : m \in 1 .. N}
  <2>1. DOMAIN c = 1 .. N /\ \A m \in 1 .. N : c[m] \in Spans(n)
    BY <1>3
  <2> HIDE DEF N
  <2>2. ToSet(c) = {c[m] : m \in 1 .. N}
    BY <2>1 DEF ToSet
  <2> QED BY <2>1, <2>2, <1>4
<1>6. PICK after \in [0 .. N -> Rewritings] :
          /\ after[0] = [out |-> Line(n), seen |-> <<>>]
          /\ \A m \in 1 .. N : after[m] = Replaced(after[m - 1], c[m])
          /\ Applied(t, c) = after[N]
  BY <1>3, AppliedStepwise
<1>7. PICK o \in 1 .. N : c[o] = k
  BY <1>4, <1>5
<1>8. k.s \in Nat /\ k.e \in Nat /\ 1 <= k.s /\ k.s < k.e /\ k.e <= n + 1
  BY <1>1, <1>5, <1>7 DEF Spans
<1> HIDE DEF n, N
<1> SUFFICES ASSUME NEW x \in k.s .. k.e - 1
             PROVE  x \notin ToSet(after[N].out)
  BY <1>2, <1>6 DEF Cells
<1>9. x \in Nat \ {0} /\ k.s <= x /\ x < k.e /\ x <= n
  BY <1>1, <1>8
<1> DEFINE Gone(m) == x \notin ToSet(after[m].out)
           Whole(m) == /\ Intact(after[m].out, x + 1)
                       /\ \A l \in 1 .. m : x < c[l].s
           S == {m \in 0 .. N : Gone(m) \/ Whole(m)}
<1>10. 0 \in S
  <2>1. Intact(Line(n), x + 1)
    <3>1. Line(n) \in Seq(Nat) /\ Len(Line(n)) = n /\ \A i \in 1 .. n : Line(n)[i] = i
      BY <1>1 DEF Line
    <3> QED BY <3>1, <1>1, <1>9 DEF Intact
  <2>2. after[0].out = Line(n) /\ 1 .. 0 = {} /\ 0 \in 0 .. N
    BY <1>4, <1>6
  <2> QED BY <2>1, <2>2
<1>11. ASSUME NEW m \in 0 .. N - 1, m \in S
       PROVE  m + 1 \in S
  <2>1. m + 1 \in 1 .. N /\ (m + 1) - 1 = m /\ m + 1 \in 0 .. N /\ m \in 0 .. N /\ m \in Nat
    BY <1>4
  <2> DEFINE h == c[m + 1]
             acc == after[m]
             next == after[m + 1]
  <2>2. next = Replaced(acc, h) /\ acc \in Rewritings
    BY <2>1, <1>6
  <2>3. h \in Spans(n) /\ h.type \in CanonicalTypes /\ h \in ToSet(hits)
    BY <2>1, <1>5
  <2>4. h.s \in Nat /\ h.e \in Nat
    BY <2>3 DEF Spans
  <2>5. \A l \in 1 .. m + 1 : l \in 1 .. m \/ l = m + 1
    BY <2>1
  <2> HIDE DEF next, acc
  <2>7. /\ x \notin ToSet(acc.out) => x \notin ToSet(next.out)
        /\ Intact(acc.out, x + 1) /\ x < h.s => Intact(next.out, x + 1)
        /\ Intact(acc.out, x + 1) /\ h.s <= x /\ x < h.e => x \notin ToSet(next.out)
    <3> HIDE DEF h
    <3> QED BY <2>2, <2>3, <1>1, <1>9, ReplacedCell
  <2>8. CASE Gone(m)
    <3>1. Gone(m + 1)
      BY <2>7, <2>8 DEF acc, next
    <3> QED BY <3>1, <2>1
  <2>9. CASE Whole(m) /\ x < h.s
    <3>1. Whole(m + 1)
      BY <2>5, <2>7, <2>9 DEF acc, next
    <3> QED BY <3>1, <2>1
  <2>10. CASE Whole(m) /\ ~ (x < h.s)
    <3>1. ~ (o <= m)
      <4>1. o <= m => o \in 1 .. m
        BY <2>1
      <4>2. o \in 1 .. m => x < k.s
        BY <2>10, <1>7
      <4> QED BY <4>1, <4>2, <1>8, <1>9
    <3>2. m + 1 < o \/ m + 1 = o
      BY <3>1, <2>1
    <3>3. k.s <= h.s
      <4>1. m + 1 < o => c[o].s <= c[m + 1].s
        BY <2>1, <1>3, <1>4
      <4> QED BY <3>2, <4>1, <1>7, <1>8
    <3>4. ~ (h.e < k.e)
      BY <3>3, <2>3
    <3>5. h.s <= x /\ x < h.e
      <4> HIDE DEF h
      <4> QED BY <3>4, <2>4, <2>10, <1>8, <1>9
    <3>6. Intact(acc.out, x + 1)
      BY <2>10 DEF acc
    <3>7. Gone(m + 1)
      BY <3>5, <3>6, <2>7 DEF next
    <3> QED BY <3>7, <2>1
  <2> QED BY <2>8, <2>9, <2>10, <1>11
<1>12. \A m \in 0 .. N : m \in S
  <2> HIDE DEF S
  <2> QED BY <1>4, <1>10, <1>11, StepByStep
<1>13. Gone(N) \/ Whole(N)
  BY <1>4, <1>12
<1>14. ~Whole(N)
  BY <1>7, <1>8, <1>9
<1> QED
  BY <1>13, <1>14

=============================================================================
