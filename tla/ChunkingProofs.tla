---------------------------- MODULE ChunkingProofs ---------------------------
(***************************************************************************)
(* Sizes, rolling hashes and shift resilience of the chunkers, for any     *)
(* streams, bytes, words, configurations and bounds.                       *)
(*                                                                         *)
(* The folds of the model are recursive functions.  What they compute is   *)
(* shown here by induction on the length of the sequence, along a function *)
(* that has the value of every beginning.                                  *)
(***************************************************************************)
EXTENDS Chunking, SequenceTheorems, WellFoundedInduction, TLAPS

-----------------------------------------------------------------------------
(* Induction, folds and sums.                                               *)

\* A set of numbers with 0 and the successor of each of its members has them all:
\* induction, from the least number that is missing.
LEMMA SetInduction ==
    ASSUME NEW T, 0 \in T, \A n \in Nat : n \in T => n + 1 \in T
    PROVE  Nat \subseteq T
<1>. DEFINE R == OpToRel(<, Nat)   B == Nat \ T
<1>1. IsWellFoundedOn(R, Nat)
  BY NatLessThanWellFounded
<1>2. \A x, y \in Nat : <<x, y>> \in R <=> x < y
  BY DEF OpToRel
<1>. HIDE DEF R
<1>3. SUFFICES ASSUME B # {} PROVE FALSE
  OBVIOUS
<1>. HIDE DEF B
<1>4. B \subseteq Nat
  BY DEF B
<1>5. PICK x \in B : \A y \in B : <<y, x>> \notin R
  BY <1>1, <1>3, <1>4, WFMin
<1>6. x \in Nat /\ x # 0 /\ x - 1 \in Nat
  BY <1>4 DEF B
<1>8. x - 1 < x /\ <<x - 1, x>> \in R
  BY <1>2, <1>6
<1>7. x - 1 \notin B
  BY <1>5, <1>8
<1>. QED
  BY <1>6, <1>7 DEF B

LEMMA Maximum ==
    ASSUME NEW n \in Nat, NEW s \in SUBSET (1..n), s # {}
    PROVE  Max(s) \in s /\ \A x \in s : x <= Max(s)
<1>. DEFINE T == {k \in Nat : \A u \in SUBSET (1..k) : u # {} => \E x \in u : \A y \in u : x >= y}
<1>1. 0 \in T
  <2>1. \A u \in SUBSET (1..0) : u = {}
    OBVIOUS
  <2>. QED
    BY <2>1
<1>2. ASSUME NEW k \in Nat, k \in T PROVE k + 1 \in T
  <2>1. SUFFICES ASSUME NEW u \in SUBSET (1..k + 1), u # {}
                 PROVE  \E x \in u : \A y \in u : x >= y
    OBVIOUS
  <2>2. CASE k + 1 \in u
    BY <2>2
  <2>3. CASE k + 1 \notin u
    <3>1. u \in SUBSET (1..k)
      BY <2>3
    <3>. QED
      BY <3>1, <2>1, <1>2
  <2>. QED
    BY <2>2, <2>3
<1>. HIDE DEF T
<1>3. n \in T
  BY <1>1, <1>2, SetInduction
<1>. QED
  BY <1>3 DEF T, Max

\* f folds a word of V along 1..n, largest index last, one F at a time.
Folds(f, F, base, n) ==
    \A u \in SUBSET (1..n) :
        f[u] = IF u = {} THEN base ELSE F[<<f[u \ {Max(u)}], Max(u)>>]

\* A set of indices and what is left without its largest.
LEMMA WithoutMax ==
    ASSUME NEW n \in Nat, NEW u \in SUBSET (1..n), u # {}
    PROVE  /\ Max(u) \in 1..n
           /\ u \ {Max(u)} \in SUBSET (1..n)
           /\ n + 1 \notin u
<1>1. Max(u) \in u
  BY Maximum
<1>2. u \subseteq 1..n /\ n + 1 \notin 1..n
  OBVIOUS
<1>. HIDE DEF Max
<1>. QED
  BY <1>1, <1>2

\* A fold along 1..k goes one index further.
LEMMA FoldGrows ==
    ASSUME NEW V, NEW base \in V, NEW n \in Nat, NEW F \in [V \X (1..n) -> V],
           NEW k \in Nat, k + 1 <= n, NEW f \in [SUBSET (1..k) -> V], Folds(f, F, base, k)
    PROVE  \E g \in [SUBSET (1..k + 1) -> V] : Folds(g, F, base, k + 1)
<1>. DEFINE g == [u \in SUBSET (1..k + 1) |->
                    IF k + 1 \in u THEN F[<<f[u \ {k + 1}], k + 1>>] ELSE f[u]]
<1>1. ASSUME NEW u \in SUBSET (1..k + 1), k + 1 \in u
      PROVE  /\ u \ {k + 1} \in SUBSET (1..k)
             /\ Max(u) = k + 1
             /\ g[u] = F[<<f[u \ {k + 1}], k + 1>>]
             /\ g[u \ {k + 1}] = f[u \ {k + 1}]
             /\ g[u] \in V
  <2>1. Max(u) \in u /\ k + 1 <= Max(u)
    <3>1. k + 1 \in Nat
      OBVIOUS
    <3>. QED
      BY <1>1, <3>1, Maximum
  <2>2. u \ {k + 1} \in SUBSET (1..k)
    OBVIOUS
  <2>0. \A i \in u : i <= k + 1 /\ i \in Nat
    OBVIOUS
  <2>3. Max(u) = k + 1
    <3>1. \A i \in Nat : i <= k + 1 /\ k + 1 <= i => i = k + 1
      OBVIOUS
    <3>. QED
      BY <2>0, <2>1, <3>1
  <2>4. g[u] = F[<<f[u \ {k + 1}], k + 1>>] /\ g[u \ {k + 1}] = f[u \ {k + 1}]
    BY <1>1
  <2>5. k + 1 \in 1..n
    OBVIOUS
  <2>. QED
    BY <2>2, <2>3, <2>4, <2>5
<1>2. ASSUME NEW u \in SUBSET (1..k + 1), k + 1 \notin u
      PROVE  u \in SUBSET (1..k) /\ g[u] = f[u]
  BY <1>2
<1>3. g \in [SUBSET (1..k + 1) -> V]
  BY <1>1, <1>2
<1>4. ASSUME NEW u \in SUBSET (1..k + 1)
      PROVE  g[u] = IF u = {} THEN base ELSE F[<<g[u \ {Max(u)}], Max(u)>>]
  <2>. HIDE DEF g
  <2>1. CASE k + 1 \in u
    BY <1>1, <2>1
  <2>2. CASE k + 1 \notin u
    <3>1. u \in SUBSET (1..k) /\ g[u] = f[u]
      BY <1>2, <2>2
    <3>2. u # {} =>
            /\ u \ {Max(u)} \in SUBSET (1..k + 1)
            /\ k + 1 \notin u \ {Max(u)}
      BY <2>2
    <3>3. u # {} => g[u \ {Max(u)}] = f[u \ {Max(u)}]
      BY <3>2, <1>2
    <3>4. f[u] = IF u = {} THEN base ELSE F[<<f[u \ {Max(u)}], Max(u)>>]
      BY <3>1 DEF Folds
    <3>. QED
      BY <3>1, <3>3, <3>4
  <2>. QED
    BY <2>1, <2>2
<1>. HIDE DEF g
<1>. QED
  BY <1>3, <1>4 DEF Folds

HasFold(V, F, base, k) == \E f \in [SUBSET (1..k) -> V] : Folds(f, F, base, k)

\* What the recursive functions behind FoldLeft ask for exists.
LEMMA FoldExists ==
    ASSUME NEW V, NEW base \in V, NEW n \in Nat, NEW F \in [V \X (1..n) -> V]
    PROVE  HasFold(V, F, base, n)
<1>. DEFINE T == {k \in Nat : k <= n => HasFold(V, F, base, k)}
<1>1. 0 \in T
  <2>. DEFINE f == [u \in SUBSET (1..0) |-> base]
  <2>1. \A u \in SUBSET (1..0) : u = {}
    OBVIOUS
  <2>2. Folds(f, F, base, 0)
    BY <2>1 DEF Folds
  <2>3. HasFold(V, F, base, 0)
    BY <2>2 DEF HasFold
  <2>. QED
    BY <2>3
<1>2. ASSUME NEW k \in Nat, k \in T
      PROVE  k + 1 \in T
  <2>1. k + 1 <= n => HasFold(V, F, base, k)
    BY <1>2
  <2>2. k + 1 <= n => HasFold(V, F, base, k + 1)
    BY <2>1, FoldGrows DEF HasFold
  <2>. QED
    BY <2>2
<1>. HIDE DEF T
<1>3. n \in T
  BY <1>1, <1>2, SetInduction
<1>. QED
  BY <1>3 DEF T

\* The same of a sum, in the form of MapThenFoldSet.
LEMMA SumExists ==
    ASSUME NEW s \in Seq(Int)
    PROVE  \E f \in [SUBSET (1..Len(s)) -> Int] :
              f = [u \in SUBSET (1..Len(s)) |->
                    IF u = {} THEN 0 ELSE f[u \ {Max(u)}] + s[Max(u)]]
<1>. DEFINE F == [p \in Int \X (1..Len(s)) |-> p[1] + s[p[2]]]
<1>1. F \in [Int \X (1..Len(s)) -> Int]
  OBVIOUS
<1>2. \A v \in Int, i \in 1..Len(s) : F[<<v, i>>] = v + s[i]
  OBVIOUS
<1>. HIDE DEF F
<1>3. PICK f \in [SUBSET (1..Len(s)) -> Int] : Folds(f, F, 0, Len(s))
  <2>1. Len(s) \in Nat /\ 0 \in Int
    OBVIOUS
  <2>2. HasFold(Int, F, 0, Len(s))
    BY <1>1, <2>1, FoldExists
  <2>. QED
    BY <2>2 DEF HasFold
<1>4. ASSUME NEW u \in SUBSET (1..Len(s)), u # {} PROVE f[u] = f[u \ {Max(u)}] + s[Max(u)]
  <2>1. Max(u) \in 1..Len(s) /\ u \ {Max(u)} \in SUBSET (1..Len(s))
    BY <1>4, WithoutMax
  <2>2. f[u] = F[<<f[u \ {Max(u)}], Max(u)>>]
    BY <1>3, <1>4 DEF Folds
  <2>. QED
    BY <1>2, <2>1, <2>2
<1>5. f = [u \in SUBSET (1..Len(s)) |->
                    IF u = {} THEN 0 ELSE f[u \ {Max(u)}] + s[Max(u)]]
  <2>1. \A u \in SUBSET (1..Len(s)) : f[u] = IF u = {} THEN 0 ELSE f[u \ {Max(u)}] + s[Max(u)]
    BY <1>3, <1>4 DEF Folds
  <2>. QED
    BY <2>1
<1>. QED
  BY <1>5

LEMMA MaxOfPrefix ==
    ASSUME NEW k \in Nat
    PROVE  Max(1..k + 1) = k + 1 /\ (1..k + 1) \ {k + 1} = 1..k
<1>1. Max(1..k + 1) \in 1..k + 1 /\ k + 1 <= Max(1..k + 1)
  <2>1. k + 1 \in Nat /\ 1..k + 1 # {} /\ k + 1 \in 1..k + 1
    OBVIOUS
  <2>. QED
    BY <2>1, Maximum
<1>2. \A i \in 1..k + 1 : k + 1 <= i => i = k + 1
  OBVIOUS
<1>. QED
  BY <1>1, <1>2

\* What the sizes in s add up to.
Total(s) == FoldLeft(+, 0, s)

\* A sum is what the last of the running totals says.
LEMMA SumFold ==
    ASSUME NEW s \in Seq(Int)
    PROVE  \E g : /\ g[0] = 0
                  /\ \A k \in 0..Len(s) - 1 : g[k + 1] = g[k] + s[k + 1]
                  /\ Total(s) = g[Len(s)]
<1>. DEFINE n == Len(s)
            P(f) == f = [u \in SUBSET (1..n) |->
                            IF u = {} THEN 0 ELSE f[u \ {Max(u)}] + s[Max(u)]]
            h == CHOOSE f : P(f)
            g == [k \in 0..n |-> h[1..k]]
<1>1. P(h)
  BY SumExists
<1>2. Total(s) = h[1..n]
  <2>1. DOMAIN s = 1..n
    OBVIOUS
  <2>. QED
    BY <2>1 DEF Total, FoldLeft, MapThenFoldSet
<1>. HIDE DEF h
<1>3. \A u \in SUBSET (1..n) :
        h[u] = IF u = {} THEN 0 ELSE h[u \ {Max(u)}] + s[Max(u)]
  BY <1>1
<1>4. g[0] = 0
  <2>1. 1..0 = {} /\ 0 \in 0..n
    OBVIOUS
  <2>. QED
    BY <2>1, <1>3
<1>5. ASSUME NEW k \in 0..n - 1
      PROVE  g[k + 1] = g[k] + s[k + 1]
  <2>1. k \in Nat /\ k \in 0..n /\ k + 1 \in 0..n /\ 1..k + 1 \in SUBSET (1..n) /\ 1..k + 1 # {}
    OBVIOUS
  <2>2. h[1..k + 1] = h[1..k] + s[k + 1]
    BY <2>1, <1>3, MaxOfPrefix
  <2>. QED
    BY <2>1, <2>2
<1>6. g[n] = h[1..n]
  OBVIOUS
<1>. HIDE DEF g
<1>. QED
  BY <1>2, <1>4, <1>5, <1>6

\* What FoldLeft(+, 0, _) computes.
LEMMA SumStep ==
    ASSUME NEW s \in Seq(Int), NEW x \in Int
    PROVE  /\ Total(<<>>) = 0
           /\ Total(s) \in Int
           /\ Total(Append(s, x)) = Total(s) + x
<1>. DEFINE t == Append(s, x)
<1>0. t \in Seq(Int) /\ Len(t) = Len(s) + 1 /\ t[Len(s) + 1] = x
      /\ \A k \in 1..Len(s) : t[k] = s[k]
  OBVIOUS
<1>1. Total(<<>>) = 0
  <2>1. <<>> \in Seq(Int) /\ Len(<<>>) = 0
    OBVIOUS
  <2>. QED
    BY <2>1, SumFold
<1>2. PICK g : /\ g[0] = 0
               /\ \A k \in 0..Len(s) - 1 : g[k + 1] = g[k] + s[k + 1]
               /\ Total(s) = g[Len(s)]
  BY SumFold
<1>. HIDE DEF t
<1>3. PICK h : /\ h[0] = 0
               /\ \A k \in 0..Len(t) - 1 : h[k + 1] = h[k] + t[k + 1]
               /\ Total(t) = h[Len(t)]
  BY <1>0, SumFold
<1>. DEFINE T == {k \in Nat : k <= Len(s) => g[k] \in Int /\ h[k] = g[k]}
<1>4. 0 \in T
  BY <1>2, <1>3
<1>5. ASSUME NEW k \in Nat, k \in T
      PROVE  k + 1 \in T
  <2>1. SUFFICES ASSUME k + 1 <= Len(s)
                 PROVE  g[k + 1] \in Int /\ h[k + 1] = g[k + 1]
    OBVIOUS
  <2>2. g[k] \in Int /\ h[k] = g[k] /\ k \in 0..Len(s) - 1 /\ k \in 0..Len(t) - 1
        /\ k + 1 \in 1..Len(s)
    BY <2>1, <1>5, <1>0
  <2>3. s[k + 1] \in Int
    BY <2>2
  <2>. QED
    BY <2>2, <2>3, <1>0, <1>2, <1>3
<1>. HIDE DEF T
<1>6. Len(s) \in T
  BY <1>4, <1>5, SetInduction
<1>7. g[Len(s)] \in Int /\ h[Len(s)] = g[Len(s)]
  BY <1>6 DEF T
<1>8. h[Len(t)] = h[Len(s)] + x
  BY <1>0, <1>3
<1>. QED
  BY <1>1, <1>2, <1>3, <1>7, <1>8 DEF t

-----------------------------------------------------------------------------
(* Remainders and words.                                                    *)

\* Division leaves a remainder, and only one.
LEMMA DivMod ==
    ASSUME NEW a \in Int, NEW w \in Nat \ {0}
    PROVE  a = w * (a \div w) + (a % w) /\ a \div w \in Int
OBVIOUS

LEMMA Mul ==
    ASSUME NEW d \in Int, NEW w \in Nat \ {0}
    PROVE  (d >= 1 => w * d >= w) /\ (d <= -1 => w * d <= -w)
OBVIOUS

LEMMA ModUnique ==
    ASSUME NEW a \in Int, NEW w \in Nat \ {0}, NEW q \in Int, NEW r \in 0..w - 1,
           a = w * q + r
    PROVE  a % w = r
<1>. DEFINE p == a \div w   s == a % w   d == q - p
<1>1. a = w * p + s /\ p \in Int
  BY DivMod
<1>2. s \in 0..w - 1
  OBVIOUS
<1>. HIDE DEF p, s
<1>3. d \in Int /\ w * d = w * q - w * p
  BY <1>1
<1>4. w * d = s - r
  BY <1>1, <1>2, <1>3
<1>. HIDE DEF d
<1>5. ~(d >= 1) /\ ~(d <= -1)
  BY <1>2, <1>3, <1>4, Mul
<1>6. d = 0
  BY <1>3, <1>5
<1>7. w * d = 0
  BY <1>6
<1>. QED
  BY <1>2, <1>4, <1>7 DEF s

\* Counting up a remainder.
LEMMA ModStep ==
    ASSUME NEW a \in Nat, NEW w \in Nat \ {0}
    PROVE  (a + 1) % w = IF a % w = w - 1 THEN 0 ELSE (a % w) + 1
<1>. DEFINE p == a \div w   s == a % w
<1>1. a = w * p + s /\ p \in Int
  BY DivMod
<1>2. s \in 0..w - 1
  OBVIOUS
<1>. HIDE DEF p, s
<1>3. CASE s = w - 1
  <2>1. a + 1 = w * (p + 1) + 0
    BY <1>1, <1>3
  <2>2. p + 1 \in Int /\ 0 \in 0..w - 1
    BY <1>1
  <2>3. a + 1 \in Int
    OBVIOUS
  <2>4. (a + 1) % w = 0
    BY <2>1, <2>2, <2>3, ModUnique
  <2>. QED
    BY <1>3, <2>4 DEF s
<1>4. CASE s # w - 1
  <2>1. a + 1 = w * p + (s + 1) /\ s + 1 \in 0..w - 1
    BY <1>1, <1>2, <1>4
  <2>3. a + 1 \in Int
    OBVIOUS
  <2>. HIDE DEF s
  <2>4. (a + 1) % w = s + 1
    BY <2>1, <1>1, <2>3, ModUnique
  <2>. QED
    BY <1>4, <2>4 DEF s
<1>. QED
  BY <1>3, <1>4

LEMMA ModRange ==
    ASSUME NEW a \in Int, NEW w \in Nat \ {0}
    PROVE  a % w \in 0..w - 1 /\ (a \in 0..w - 1 => a % w = a)
OBVIOUS

Bits == 0..Width - 1

\* Rotations and exclusive or of words.
LEMMA RotWord ==
    ASSUME NEW v \in SUBSET Bits, NEW n \in Nat
    PROVE  RotL(v, n) \in SUBSET Bits /\ RotL(v, 0) = v
<1>1. ASSUME NEW i \in v
      PROVE  (i + n) % Width \in Bits /\ (i + 0) % Width = i
  <2>1. i + n \in Int /\ i + 0 = i /\ i \in Int /\ i \in 0..Width - 1 /\ Width \in Nat \ {0}
    BY ChunkingAssumption DEF Bits
  <2>. QED
    BY <2>1, ModRange DEF Bits
<1>2. RotL(v, n) \in SUBSET Bits
  BY <1>1 DEF RotL
<1>3. RotL(v, 0) = v
  BY <1>1 DEF RotL
<1>. QED
  BY <1>2, <1>3

LEMMA XorWord ==
    ASSUME NEW v \in SUBSET Bits, NEW w \in SUBSET Bits
    PROVE  Xor(v, w) \in SUBSET Bits
BY DEF Xor

\* What was put into a word twice has left it.
LEMMA XorLeaves ==
    ASSUME NEW a, NEW t, NEW c
    PROVE  Xor(Xor(Xor(a, c), t), c) = Xor(a, t) /\ Xor(Xor(a, c), t) = Xor(Xor(a, t), c)
BY DEF Xor

\* Counting up a remainder again.
LEMMA ModTwice ==
    ASSUME NEW a \in Nat, NEW w \in Nat \ {0}
    PROVE  ((a % w) + 1) % w = (a + 1) % w
<1>. DEFINE s == a % w
<1>1. s \in 0..w - 1 /\ s \in Nat
  OBVIOUS
<1>2. (a + 1) % w = IF s = w - 1 THEN 0 ELSE s + 1
  BY ModStep
<1>. HIDE DEF s
<1>3. s % w = s
  BY <1>1, ModRange
<1>4. (s + 1) % w = IF s = w - 1 THEN 0 ELSE s + 1
  BY <1>1, <1>3, ModStep
<1>. QED
  BY <1>2, <1>4 DEF s

LEMMA ModStepInjective ==
    ASSUME NEW w \in Nat \ {0}, NEW i \in 0..w - 1, NEW j \in 0..w - 1,
           (i + 1) % w = (j + 1) % w
    PROVE  i = j
<1>1. i \in Nat /\ j \in Nat /\ i % w = i /\ j % w = j
  OBVIOUS
<1>2. (i + 1) % w = IF i = w - 1 THEN 0 ELSE i + 1
  BY <1>1, ModStep
<1>3. (j + 1) % w = IF j = w - 1 THEN 0 ELSE j + 1
  BY <1>1, ModStep
<1>. QED
  BY <1>2, <1>3

\* Rotations add up, and rotate the two sides of an exclusive or alike.
LEMMA RotOnce ==
    ASSUME NEW v \in SUBSET Bits, NEW n \in Nat
    PROVE  RotL(RotL(v, n), 1) = RotL(v, n + 1)
<1>1. ASSUME NEW i \in v
      PROVE  (((i + n) % Width) + 1) % Width = (i + (n + 1)) % Width
  <2>. DEFINE a == i + n
  <2>1. a \in Nat /\ Width \in Nat \ {0} /\ i + (n + 1) = a + 1
    BY ChunkingAssumption DEF Bits
  <2>. HIDE DEF a
  <2>2. ((a % Width) + 1) % Width = (a + 1) % Width
    BY <2>1, ModTwice
  <2>. QED
    BY <2>1, <2>2 DEF a
<1>2. RotL(RotL(v, n), 1) = {(((i + n) % Width) + 1) % Width : i \in v}
  BY DEF RotL
<1>3. RotL(v, n + 1) = {(i + (n + 1)) % Width : i \in v}
  BY DEF RotL
<1>. QED
  BY <1>1, <1>2, <1>3

LEMMA RotXor ==
    ASSUME NEW v \in SUBSET Bits, NEW w \in SUBSET Bits
    PROVE  RotL(Xor(v, w), 1) = Xor(RotL(v, 1), RotL(w, 1))
<1>1. ASSUME NEW i \in Bits, NEW j \in Bits, (i + 1) % Width = (j + 1) % Width
      PROVE  i = j
  <2>1. Width \in Nat \ {0} /\ i \in 0..Width - 1 /\ j \in 0..Width - 1
    BY ChunkingAssumption DEF Bits
  <2>. QED
    BY <1>1, <2>1, ModStepInjective
<1>. DEFINE f(i) == (i + 1) % Width
<1>2. \A i, j \in Bits : f(i) = f(j) => i = j
  BY <1>1
<1>3. RotL(Xor(v, w), 1) = {f(i) : i \in (v \ w) \union (w \ v)}
  BY DEF RotL, Xor
<1>4. Xor(RotL(v, 1), RotL(w, 1)) =
        ({f(i) : i \in v} \ {f(i) : i \in w}) \union ({f(i) : i \in w} \ {f(i) : i \in v})
  BY DEF RotL, Xor
<1>. HIDE DEF f
<1>. QED
  BY <1>2, <1>3, <1>4

-----------------------------------------------------------------------------
(* Hashes of windows.                                                       *)

\* The Rabin mask has at most eight bits.
ShortMask == cfg.chunker = "cdc_rabin" => Modulus \in {2, 4, 8, 16, 32, 64, 128, 256}

\* 257 is 1 modulo a power of two up to 256: with a mask of at most eight bits the
\* factor with which the outgoing byte is taken off does not matter.
LEMMA PowerIsOne ==
    ASSUME NEW m \in {2, 4, 8, 16, 32, 64, 128, 256}, NEW n \in Nat
    PROVE  PowerMod(257, n, m) = 1
<1>. DEFINE P(f) == f = [i \in 0..n |-> IF i = 0 THEN 1 % m ELSE (257 * f[i - 1]) % m]
            p == CHOOSE f : P(f)
<1>0. 1 % m = 1 /\ (257 * 1) % m = 1
  OBVIOUS
<1>1. P(p)
  <2>. DEFINE ones == [i \in 0..n |-> 1]
  <2>1. ASSUME NEW i \in 0..n
        PROVE  ones[i] = IF i = 0 THEN 1 % m ELSE (257 * ones[i - 1]) % m
    <3>1. i # 0 => i - 1 \in 0..n
      OBVIOUS
    <3>. QED
      BY <1>0, <3>1
  <2>2. P(ones)
    BY <2>1
  <2>. QED
    BY <2>2
<1>2. PowerMod(257, n, m) = p[n]
  BY DEF PowerMod
<1>. HIDE DEF p
<1>3. \A i \in 0..n : p[i] = IF i = 0 THEN 1 % m ELSE (257 * p[i - 1]) % m
  BY <1>1
<1>. DEFINE T == {i \in Nat : i <= n => p[i] = 1}
<1>4. 0 \in T
  BY <1>0, <1>3
<1>5. ASSUME NEW i \in Nat, i \in T
      PROVE  i + 1 \in T
  <2>1. i + 1 <= n => p[i] = 1 /\ i + 1 \in 0..n /\ i + 1 # 0 /\ (i + 1) - 1 = i
    BY <1>5
  <2>. QED
    BY <2>1, <1>0, <1>3
<1>. HIDE DEF T
<1>6. n \in T
  BY <1>4, <1>5, SetInduction
<1>. QED
  BY <1>2, <1>6 DEF T

\* The words of the hash in use.
Word == IF IsBuz THEN SUBSET Bits ELSE 0..Modulus - 1

\* A CDC configuration whose hash forgets what has left the window.
Forgetful ==
    /\ cfg \in Configs /\ cfg.chunker # "fixed"
    /\ ~IsBuz => Modulus \in {2, 4, 8, 16, 32, 64, 128, 256}

\* A byte pushed into a word of the hash leaves a word.
LEMMA PushWord ==
    ASSUME Forgetful, NEW h \in Word, NEW b \in Byte
    PROVE  Zero \in Word /\ Push(h, b) \in Word
<1>1. CASE IsBuz
  <2>1. BuzTable[b] \in SUBSET Bits /\ h \in SUBSET Bits
    BY <1>1, ChunkingAssumption DEF Word, Bits
  <2>. QED
    BY <1>1, <2>1, RotWord, XorWord DEF Word, Push, Zero
<1>2. CASE ~IsBuz
  <2>. DEFINE m == Modulus
  <2>1. m \in {2, 4, 8, 16, 32, 64, 128, 256} /\ h \in 0..m - 1 /\ b \in Int
    BY <1>2, ChunkingAssumption DEF Word, Forgetful
  <2>2. Push(h, b) = (h * 257 + b) % m /\ Zero = 0 /\ Word = 0..m - 1
    BY <1>2 DEF Push, Zero, Word
  <2>. HIDE DEF m
  <2>3. 0 \in 0..m - 1 /\ (h * 257 + b) % m \in 0..m - 1
    BY <2>1
  <2>. QED
    BY <2>2, <2>3
<1>. QED
  BY <1>1, <1>2

\* The hash of w from nothing.
HashOf(w) == FoldLeft(Push, Zero, w)

\* g has the hashes of the beginnings of w.
Hashes(g, w) ==
    /\ g[0] = Zero
    /\ \A k \in 0..Len(w) - 1 : g[k + 1] = Push(g[k], w[k + 1])

\* A beginning of 1..n and the next one.
LEMMA Beginning ==
    ASSUME NEW n \in Nat, NEW k \in 0..n - 1
    PROVE  /\ k \in Nat /\ k \in 0..n /\ k + 1 \in 0..n
           /\ 1..k + 1 \in SUBSET (1..n) /\ 1..k + 1 # {}
<1>1. k \in Nat /\ k + 1 \in Nat /\ k + 1 <= n
  OBVIOUS
<1>2. \A i \in 1..k + 1 : i \in 1..n
  BY <1>1
<1>3. 1 \in 1..k + 1
  BY <1>1
<1>. QED
  BY <1>1, <1>2, <1>3

\* FoldLeft(Push, Zero, w) is the last of the hashes of the beginnings of w.
LEMMA HashFold ==
    ASSUME Forgetful, NEW w \in Seq(Byte)
    PROVE  \E g : Hashes(g, w) /\ HashOf(w) = g[Len(w)]
<1>. DEFINE n == Len(w)
            P(f) == f = [u \in SUBSET (1..n) |->
                            IF u = {} THEN Zero ELSE Push(f[u \ {Max(u)}], w[Max(u)])]
            h == CHOOSE f : P(f)
            g == [k \in 0..n |-> h[1..k]]
<1>0. n \in Nat
  OBVIOUS
<1>1. P(h)
  <2>. DEFINE F == [p \in Word \X (1..n) |-> Push(p[1], w[p[2]])]
  <2>1. \A v \in Word, i \in 1..n : F[<<v, i>>] = Push(v, w[i])
    OBVIOUS
  <2>2. F \in [Word \X (1..n) -> Word]
    BY PushWord
  <2>3. HasFold(Word, F, Zero, n)
    <3>1. Zero \in Word
      BY PushWord DEF Forgetful, Word, Zero
    <3>. HIDE DEF F
    <3>. QED
      BY <1>0, <2>2, <3>1, FoldExists
  <2>. HIDE DEF F
  <2>4. PICK f \in [SUBSET (1..n) -> Word] : Folds(f, F, Zero, n)
    BY <2>3 DEF HasFold
  <2>5. ASSUME NEW u \in SUBSET (1..n), u # {}
        PROVE  f[u] = Push(f[u \ {Max(u)}], w[Max(u)])
    <3>1. Max(u) \in 1..n /\ u \ {Max(u)} \in SUBSET (1..n)
      BY <2>5, <1>0, WithoutMax
    <3>2. f[u] = F[<<f[u \ {Max(u)}], Max(u)>>]
      BY <2>4, <2>5 DEF Folds
    <3>. QED
      BY <2>1, <3>1, <3>2
  <2>6. \A u \in SUBSET (1..n) :
            f[u] = IF u = {} THEN Zero ELSE Push(f[u \ {Max(u)}], w[Max(u)])
    BY <2>4, <2>5 DEF Folds
  <2>7. P(f)
    BY <2>6
  <2>. QED
    BY <2>7
<1>2. HashOf(w) = h[1..n]
  <2>1. DOMAIN w = 1..n
    OBVIOUS
  <2>. QED
    BY <2>1 DEF HashOf, FoldLeft, MapThenFoldSet
<1>. HIDE DEF h
<1>3. \A u \in SUBSET (1..n) :
        h[u] = IF u = {} THEN Zero ELSE Push(h[u \ {Max(u)}], w[Max(u)])
  BY <1>1
<1>4. g[0] = Zero
  <2>1. 1..0 = {} /\ 0 \in 0..n
    OBVIOUS
  <2>. QED
    BY <2>1, <1>3
<1>5. ASSUME NEW k \in 0..n - 1
      PROVE  g[k + 1] = Push(g[k], w[k + 1])
  <2>1. k \in Nat /\ k \in 0..n /\ k + 1 \in 0..n /\ 1..k + 1 \in SUBSET (1..n) /\ 1..k + 1 # {}
    <3>. HIDE DEF n
    <3>. QED
      BY <1>0, Beginning
  <2>2. h[1..k + 1] = Push(h[1..k], w[k + 1])
    BY <2>1, <1>3, MaxOfPrefix
  <2>3. g[k] = h[1..k] /\ g[k + 1] = h[1..k + 1]
    BY <2>1
  <2>. HIDE DEF g
  <2>. QED
    BY <2>2, <2>3
<1>6. g[n] = h[1..n]
  OBVIOUS
<1>. HIDE DEF g
<1>. QED
  BY <1>2, <1>4, <1>5, <1>6 DEF Hashes

-----------------------------------------------------------------------------
(* Rolling a hash over one window.                                          *)

\* The hashes of the beginnings of a window are words, and the same for the same bytes.
LEMMA TableWord ==
    ASSUME NEW b \in Byte
    PROVE  BuzTable[b] \in SUBSET Bits
BY ChunkingAssumption DEF Bits

LEMMA HashesAreWords ==
    ASSUME Forgetful, NEW w \in Seq(Byte), NEW g, Hashes(g, w)
    PROVE  \A k \in 0..Len(w) : g[k] \in Word
<1>. DEFINE T == {k \in Nat : k <= Len(w) => g[k] \in Word}
<1>1. 0 \in T
  <2>1. Zero \in Word
    BY ChunkingAssumption DEF Forgetful, Word, Zero
  <2>. QED
    BY <2>1 DEF Hashes
<1>2. ASSUME NEW k \in Nat, k \in T
      PROVE  k + 1 \in T
  <2>1. SUFFICES ASSUME k + 1 <= Len(w)
                 PROVE  g[k + 1] \in Word
    OBVIOUS
  <2>2. g[k] \in Word /\ k \in 0..Len(w) - 1 /\ w[k + 1] \in Byte
    BY <1>2, <2>1
  <2>3. g[k + 1] = Push(g[k], w[k + 1])
    BY <2>2 DEF Hashes
  <2>. QED
    BY <2>2, <2>3, PushWord
<1>. HIDE DEF T
<1>3. Nat \subseteq T
  BY <1>1, <1>2, SetInduction
<1>. QED
  BY <1>3 DEF T

LEMMA HashesAgree ==
    ASSUME NEW w \in Seq(Byte), NEW g, NEW h, Hashes(g, w), Hashes(h, w)
    PROVE  g[Len(w)] = h[Len(w)]
<1>. DEFINE T == {k \in Nat : k <= Len(w) => g[k] = h[k]}
<1>1. 0 \in T
  BY DEF Hashes
<1>2. ASSUME NEW k \in Nat, k \in T
      PROVE  k + 1 \in T
  <2>1. k + 1 <= Len(w) => g[k] = h[k] /\ k \in 0..Len(w) - 1
    BY <1>2
  <2>. QED
    BY <2>1 DEF Hashes
<1>. HIDE DEF T
<1>3. Nat \subseteq T
  BY <1>1, <1>2, SetInduction
<1>. QED
  BY <1>3 DEF T

\* What the outgoing byte has added to the hash of the k bytes behind it.
Without(h, b, k) == IF IsBuz THEN Xor(h, RotL(BuzTable[b], k)) ELSE (h + b) % Modulus

\* Taking a byte off and pushing another one commute, one position further.
LEMMA WithoutPush ==
    ASSUME Forgetful, NEW h \in Word, NEW a \in Byte, NEW b \in Byte, NEW k \in Nat
    PROVE  Push(Without(h, a, k), b) = Without(Push(h, b), a, k + 1)
<1>1. CASE IsBuz
  <2>. DEFINE A == BuzTable[a]   B == BuzTable[b]
  <2>1. A \in SUBSET Bits /\ B \in SUBSET Bits /\ h \in SUBSET Bits
    BY <1>1, ChunkingAssumption DEF Word, Bits
  <2>. HIDE DEF A, B
  <2>2. RotL(A, k) \in SUBSET Bits
    BY <2>1, RotWord
  <2>3. RotL(Xor(h, RotL(A, k)), 1) = Xor(RotL(h, 1), RotL(A, k + 1))
    BY <2>1, <2>2, RotXor, RotOnce
  <2>4. Xor(Xor(RotL(h, 1), RotL(A, k + 1)), B) = Xor(Xor(RotL(h, 1), B), RotL(A, k + 1))
    BY XorLeaves
  <2>5. Push(Without(h, a, k), b) = Xor(RotL(Xor(h, RotL(A, k)), 1), B)
    BY <1>1 DEF Push, Without, A, B
  <2>6. Without(Push(h, b), a, k + 1) = Xor(Xor(RotL(h, 1), B), RotL(A, k + 1))
    BY <1>1 DEF Push, Without, A, B
  <2>. QED
    BY <2>3, <2>4, <2>5, <2>6
<1>2. CASE ~IsBuz
  <2>. DEFINE m == Modulus
  <2>1. m \in {2, 4, 8, 16, 32, 64, 128, 256} /\ h \in Int /\ a \in Int /\ b \in Int
    BY <1>2, ChunkingAssumption DEF Word, Forgetful
  <2>2. /\ Push(Without(h, a, k), b) = (((h + a) % m) * 257 + b) % m
        /\ Without(Push(h, b), a, k + 1) = (((h * 257 + b) % m) + a) % m
    BY <1>2 DEF Push, Without
  <2>. HIDE DEF m
  <2>3. (((h + a) % m) * 257 + b) % m = (((h * 257 + b) % m) + a) % m
    BY <2>1
  <2>. QED
    BY <2>2, <2>3
<1>. QED
  BY <1>1, <1>2

\* The first byte of w can be told apart in its hash.
LEMMA Outgoing ==
    ASSUME Forgetful, NEW w \in Seq(Byte), NEW v \in Seq(Byte), 0 < Len(w), Len(v) = Len(w),
           \A i \in 1..Len(w) - 1 : v[i] = w[i + 1],
           NEW g, Hashes(g, w), NEW h, Hashes(h, v)
    PROVE  g[Len(w)] = Without(h[Len(w) - 1], w[1], Len(w) - 1)
<1>. DEFINE T == {k \in Nat : k < Len(w) => g[k + 1] = Without(h[k], w[1], k)}
<1>0. w[1] \in Byte /\ Len(w) \in Nat /\ 0 \in 0..Len(w) - 1
  OBVIOUS
<1>1. 0 \in T
  <2>1. g[0] = Zero /\ h[0] = Zero /\ g[1] = Push(Zero, w[1])
    BY <1>0 DEF Hashes
  <2>2. Push(Zero, w[1]) = Without(Zero, w[1], 0)
    <3>1. CASE IsBuz
      <4>1. BuzTable[w[1]] \in SUBSET Bits
        BY <1>0, TableWord
      <4>2. RotL(BuzTable[w[1]], 0) = BuzTable[w[1]]
        BY <4>1, RotWord
      <4>3. RotL({}, 1) = {}
        BY DEF RotL
      <4>. QED
        BY <3>1, <4>2, <4>3 DEF Push, Without, Zero
    <3>2. CASE ~IsBuz
      BY <3>2, <1>0, ChunkingAssumption DEF Push, Without, Zero
    <3>. QED
      BY <3>1, <3>2
  <2>. QED
    BY <2>1, <2>2
<1>2. ASSUME NEW k \in Nat, k \in T
      PROVE  k + 1 \in T
  <2>1. SUFFICES ASSUME k + 1 < Len(w)
                 PROVE  g[k + 2] = Without(h[k + 1], w[1], k + 1)
    OBVIOUS
  <2>2. /\ g[k + 1] = Without(h[k], w[1], k)
        /\ k \in 0..Len(v) /\ k \in 0..Len(v) - 1 /\ k + 1 \in 0..Len(w) - 1
        /\ k + 1 \in 1..Len(w) - 1 /\ (k + 1) + 1 = k + 2 /\ w[k + 2] \in Byte
    BY <1>2, <2>1
  <2>3. h[k] \in Word
    BY <2>2, HashesAreWords
  <2>4. g[k + 2] = Push(g[k + 1], w[k + 2])
    BY <2>2 DEF Hashes
  <2>5. h[k + 1] = Push(h[k], w[k + 2])
    BY <2>2 DEF Hashes
  <2>6. Push(Without(h[k], w[1], k), w[k + 2]) = Without(Push(h[k], w[k + 2]), w[1], k + 1)
    BY <1>0, <2>2, <2>3, WithoutPush
  <2>. QED
    BY <2>2, <2>4, <2>5, <2>6
<1>. HIDE DEF T
<1>3. Nat \subseteq T
  BY <1>1, <1>2, SetInduction
<1>4. Len(w) - 1 \in T /\ (Len(w) - 1) + 1 = Len(w)
  BY <1>0, <1>3
<1>. QED
  BY <1>0, <1>4 DEF T

\* One step of the rolling hash: the hash of the window is that of the next one.
LEMMA RollShifts ==
    ASSUME Forgetful, NEW w \in Seq(Byte), NEW v \in Seq(Byte),
           Len(w) = cfg.window, Len(v) = cfg.window,
           \A i \in 1..Len(w) - 1 : v[i] = w[i + 1]
    PROVE  Roll(HashOf(w), v[Len(v)], w[1]) = HashOf(v)
<1>. DEFINE n == cfg.window   a == w[1]   b == v[n]
<1>0. n \in Nat \ {0} /\ a \in Byte /\ b \in Byte /\ n - 1 \in Nat /\ (n - 1) + 1 = n
  BY ChunkingAssumption DEF Forgetful
<1>1. PICK g : Hashes(g, w) /\ HashOf(w) = g[n]
  BY HashFold
<1>2. PICK h : Hashes(h, v) /\ HashOf(v) = h[n]
  BY HashFold
<1>. DEFINE x == h[n - 1]
<1>3. x \in Word
  <2>1. n - 1 \in 0..Len(v)
    BY <1>0
  <2>. HIDE DEF n
  <2>2. h[n - 1] \in Word
    BY <1>2, <2>1, HashesAreWords
  <2>. QED
    BY <2>2
<1>4. HashOf(v) = Push(x, b)
  <2>1. n - 1 \in 0..Len(v) - 1
    BY <1>0
  <2>. QED
    BY <1>0, <1>2, <2>1 DEF Hashes
<1>5. HashOf(w) = Without(x, a, n - 1)
  <2>1. 0 < Len(w) /\ Len(v) = Len(w) /\ Len(w) = n
    BY <1>0
  <2>2. g[Len(w)] = Without(h[Len(w) - 1], w[1], Len(w) - 1)
    BY <1>1, <1>2, <2>1, Outgoing
  <2>. QED
    BY <1>1, <2>1, <2>2
<1>. HIDE DEF x, a, b
<1>6. Roll(Without(x, a, n - 1), b, a) = Push(x, b)
  <2>1. CASE IsBuz
    <3>. DEFINE A == BuzTable[a]   B == BuzTable[b]
    <3>1. A \in SUBSET Bits /\ B \in SUBSET Bits /\ x \in SUBSET Bits
      BY <1>0, <1>3, <2>1, ChunkingAssumption DEF Word, Bits
    <3>. HIDE DEF A, B
    <3>2. RotL(A, n - 1) \in SUBSET Bits
      BY <3>1, <1>0, RotWord
    <3>3. RotL(Xor(x, RotL(A, n - 1)), 1) = Xor(RotL(x, 1), RotL(A, n))
      <4>1. RotL(Xor(x, RotL(A, n - 1)), 1) = Xor(RotL(x, 1), RotL(RotL(A, n - 1), 1))
        BY <3>1, <3>2, RotXor
      <4>2. RotL(RotL(A, n - 1), 1) = RotL(A, n)
        BY <1>0, <3>1, RotOnce
      <4>. QED
        BY <4>1, <4>2
    <3>4. Xor(Xor(Xor(RotL(x, 1), RotL(A, n)), B), RotL(A, n)) = Xor(RotL(x, 1), B)
      BY XorLeaves
    <3>5. Roll(Without(x, a, n - 1), b, a)
            = Xor(Xor(RotL(Xor(x, RotL(A, n - 1)), 1), B), RotL(A, n))
      BY <2>1 DEF Roll, Without, A, B
    <3>6. Push(x, b) = Xor(RotL(x, 1), B)
      BY <2>1 DEF Push, B
    <3>. QED
      BY <3>3, <3>4, <3>5, <3>6
  <2>2. CASE ~IsBuz
    <3>. DEFINE m == Modulus
    <3>1. m \in {2, 4, 8, 16, 32, 64, 128, 256} /\ x \in 0..m - 1 /\ a \in Int /\ b \in Int
      BY <1>0, <1>3, <2>2, ChunkingAssumption DEF Word, Forgetful
    <3>2. PowerMod(257, cfg.window, m) = 1
      BY <1>0, <3>1, PowerIsOne
    <3>3. Roll(Without(x, a, n - 1), b, a) = (((((x + a) % m) - a * 1) % m) * 257 + b) % m
      BY <2>2, <3>2 DEF Roll, Push, Without
    <3>4. Push(x, b) = (x * 257 + b) % m
      BY <2>2 DEF Push
    <3>. HIDE DEF m
    <3>5. (((((x + a) % m) - a * 1) % m) * 257 + b) % m = (x * 257 + b) % m
      <4>1. (((x + a) % m) - a * 1) % m = x
        BY <3>1
      <4>. QED
        BY <4>1
    <3>. QED
      BY <3>3, <3>4, <3>5
  <2>. QED
    BY <2>1, <2>2
<1>. QED
  BY <1>4, <1>5, <1>6 DEF a, b

-----------------------------------------------------------------------------
(* One byte of one chunker.                                                 *)

\* The hash of a window with one more byte.
LEMMA HashAppend ==
    ASSUME Forgetful, NEW w \in Seq(Byte), NEW b \in Byte
    PROVE  HashOf(Append(w, b)) = Push(HashOf(w), b)
<1>. DEFINE v == Append(w, b)
<1>0. v \in Seq(Byte) /\ Len(v) = Len(w) + 1 /\ v[Len(w) + 1] = b /\ Len(w) \in Nat
      /\ \A i \in 1..Len(w) : v[i] = w[i]
  OBVIOUS
<1>. HIDE DEF v
<1>1. PICK g : Hashes(g, w) /\ HashOf(w) = g[Len(w)]
  BY HashFold
<1>2. PICK h : Hashes(h, v) /\ HashOf(v) = h[Len(v)]
  BY <1>0, HashFold
<1>3. h[Len(v)] = Push(h[Len(w)], b)
  <2>1. Len(w) \in 0..Len(v) - 1
    BY <1>0
  <2>. QED
    BY <1>0, <1>2, <2>1 DEF Hashes
<1>4. Hashes(h, w)
  <2>1. \A k \in 0..Len(w) - 1 : k \in 0..Len(v) - 1 /\ k + 1 \in 1..Len(w)
    BY <1>0
  <2>2. \A k \in 0..Len(w) - 1 : h[k + 1] = Push(h[k], w[k + 1])
    BY <1>0, <1>2, <2>1 DEF Hashes
  <2>. QED
    BY <1>2, <2>2 DEF Hashes
<1>5. g[Len(w)] = h[Len(w)]
  BY <1>1, <1>4, HashesAgree
<1>. QED
  BY <1>1, <1>2, <1>3, <1>5 DEF v

\* A chunker is a record of what it has read, its ring and what it has cut.
Shape(st) ==
    /\ st = [data |-> st.data, ring |-> st.ring, fill |-> st.fill, wpos |-> st.wpos,
             hash |-> st.hash, size |-> st.size, cuts |-> st.cuts]
    /\ st.data \in Seq(Byte)
    /\ st.ring \in [0..cfg.window - 1 -> Byte \union {0}]
    /\ st.fill \in 0..cfg.window /\ st.wpos \in 0..cfg.window - 1
    /\ st.size \in Nat /\ st.cuts \in Seq(Int)

\* What a byte changes of a chunker before it looks whether to cut (Hashed), and after it
\* (Fed).
LEMMA HashedFields ==
    ASSUME cfg \in Configs, NEW st, Shape(st), NEW b \in Byte
    PROVE  /\ Shape(Hashed(st, b))
           /\ Hashed(st, b).data = st.data
           /\ Hashed(st, b).size = st.size
           /\ Hashed(st, b).cuts = st.cuts
           /\ st.fill < cfg.window =>
                /\ Hashed(st, b).ring = [st.ring EXCEPT ![st.fill] = b]
                /\ Hashed(st, b).fill = st.fill + 1
                /\ Hashed(st, b).wpos = st.wpos
                /\ Hashed(st, b).hash = Push(st.hash, b)
           /\ ~(st.fill < cfg.window) =>
                /\ Hashed(st, b).ring = [st.ring EXCEPT ![st.wpos] = b]
                /\ Hashed(st, b).fill = st.fill
                /\ Hashed(st, b).wpos = (st.wpos + 1) % cfg.window
                /\ Hashed(st, b).hash = Roll(st.hash, b, st.ring[st.wpos])
<1>0. cfg.window \in Nat \ {0}
  BY ChunkingAssumption
<1>1. CASE st.fill < cfg.window
  <2>1. Hashed(st, b) = [data |-> st.data, ring |-> [st.ring EXCEPT ![st.fill] = b],
                         fill |-> st.fill + 1, wpos |-> st.wpos, hash |-> Push(st.hash, b),
                         size |-> st.size, cuts |-> st.cuts]
    BY <1>1 DEF Shape, Hashed
  <2>2. [st.ring EXCEPT ![st.fill] = b] \in [0..cfg.window - 1 -> Byte \union {0}]
    BY DEF Shape
  <2>3. st.fill + 1 \in 0..cfg.window
    BY <1>0, <1>1 DEF Shape
  <2>. QED
    BY <1>1, <2>1, <2>2, <2>3 DEF Shape
<1>2. CASE ~(st.fill < cfg.window)
  <2>1. Hashed(st, b) = [data |-> st.data, ring |-> [st.ring EXCEPT ![st.wpos] = b],
                         fill |-> st.fill, wpos |-> (st.wpos + 1) % cfg.window,
                         hash |-> Roll(st.hash, b, st.ring[st.wpos]),
                         size |-> st.size, cuts |-> st.cuts]
    BY <1>2 DEF Shape, Hashed
  <2>2. [st.ring EXCEPT ![st.wpos] = b] \in [0..cfg.window - 1 -> Byte \union {0}]
    BY DEF Shape
  <2>3. (st.wpos + 1) % cfg.window \in 0..cfg.window - 1
    <3>1. st.wpos + 1 \in Int
      BY <1>0 DEF Shape
    <3>. QED
      BY <1>0, <3>1
  <2>. QED
    BY <1>2, <2>1, <2>2, <2>3 DEF Shape
<1>. QED
  BY <1>1, <1>2

\* The chunker after the next byte, before it looks whether to cut.
Read(st, b) == IF cfg.chunker = "fixed" THEN st ELSE Hashed(st, b)

LEMMA FedFields ==
    ASSUME cfg \in Configs, NEW st, Shape(st), NEW b \in Byte
    PROVE  /\ Shape(Fed(st, b))
           /\ Fed(st, b).data = Append(st.data, b)
           /\ Fed(st, b).ring = Read(st, b).ring
           /\ Fed(st, b).fill = Read(st, b).fill
           /\ Fed(st, b).wpos = Read(st, b).wpos
           /\ Fed(st, b).hash = Read(st, b).hash
           /\ CutHere(st.size + 1, Read(st, b).hash) =>
                Fed(st, b).size = 0 /\ Fed(st, b).cuts = Append(st.cuts, st.size + 1)
           /\ ~CutHere(st.size + 1, Read(st, b).hash) =>
                Fed(st, b).size = st.size + 1 /\ Fed(st, b).cuts = st.cuts
<1>. DEFINE r == Read(st, b)
<1>1. Shape(r) /\ r.data = st.data /\ r.size = st.size /\ r.cuts = st.cuts
  BY HashedFields DEF Read
<1>. DEFINE n == [r EXCEPT !.data = Append(@, b), !.size = @ + 1]
<1>2. Fed(st, b) = IF CutHere(n.size, n.hash)
                   THEN [n EXCEPT !.cuts = Append(@, n.size), !.size = 0]
                   ELSE n
  BY DEF Fed, Read
<1>. HIDE DEF r
<1>3. n = [data |-> Append(st.data, b), ring |-> r.ring, fill |-> r.fill, wpos |-> r.wpos,
           hash |-> r.hash, size |-> st.size + 1, cuts |-> st.cuts]
  <2>1. r = [data |-> st.data, ring |-> r.ring, fill |-> r.fill, wpos |-> r.wpos,
             hash |-> r.hash, size |-> st.size, cuts |-> st.cuts]
    BY <1>1 DEF Shape
  <2>. DEFINE d == [r EXCEPT !.data = Append(@, b)]
  <2>2. d = [data |-> Append(st.data, b), ring |-> r.ring, fill |-> r.fill,
             wpos |-> r.wpos, hash |-> r.hash, size |-> st.size, cuts |-> st.cuts]
    BY <1>1, <2>1
  <2>3. n = [d EXCEPT !.size = @ + 1]
    OBVIOUS
  <2>. HIDE DEF d, n
  <2>. QED
    BY <2>2, <2>3
<1>4. Append(st.data, b) \in Seq(Byte) /\ Append(st.cuts, st.size + 1) \in Seq(Int)
      /\ st.size + 1 \in Nat
  BY DEF Shape
<1>. HIDE DEF n
<1>5. CASE CutHere(st.size + 1, r.hash)
  <2>1. Fed(st, b) = [data |-> Append(st.data, b), ring |-> r.ring, fill |-> r.fill,
                      wpos |-> r.wpos, hash |-> r.hash, size |-> 0,
                      cuts |-> Append(st.cuts, st.size + 1)]
    BY <1>2, <1>3, <1>5
  <2>. QED
    BY <1>1, <1>4, <1>5, <2>1 DEF Shape, r
<1>6. CASE ~CutHere(st.size + 1, r.hash)
  <2>1. Fed(st, b) = [data |-> Append(st.data, b), ring |-> r.ring, fill |-> r.fill,
                      wpos |-> r.wpos, hash |-> r.hash, size |-> st.size + 1,
                      cuts |-> st.cuts]
    BY <1>2, <1>3, <1>6
  <2>. QED
    BY <1>1, <1>4, <1>6, <2>1 DEF Shape, r
<1>. QED
  BY <1>5, <1>6 DEF r

-----------------------------------------------------------------------------
(* The ring.                                                                *)

\* The last window of a chunker, byte by byte.
LEMMA WindowIs ==
    ASSUME cfg \in Configs, NEW st, st.data \in Seq(Byte)
    PROVE  /\ LastWindow(st) \in Seq(Byte)
           /\ Len(st.data) <= cfg.window => LastWindow(st) = st.data
           /\ cfg.window <= Len(st.data) =>
                /\ Len(LastWindow(st)) = cfg.window
                /\ \A i \in 1..cfg.window :
                    LastWindow(st)[i] = st.data[Len(st.data) - cfg.window + i]
<1>. DEFINE d == st.data   n == Len(d)   m == cfg.window
            from == IF n > m THEN n - m + 1 ELSE 1
<1>0. m \in Nat \ {0} /\ n \in Nat /\ d \in Seq(Byte) /\ from \in 1..n + 1
  BY ChunkingAssumption
<1>1. LastWindow(st) = SubSeq(d, from, n)
  BY DEF LastWindow
<1>. HIDE DEF d, m
<1>2. /\ SubSeq(d, from, n) \in Seq(Byte)
      /\ Len(SubSeq(d, from, n)) = n - from + 1
      /\ \A i \in 1..n - from + 1 : SubSeq(d, from, n)[i] = d[from + i - 1]
  <2>1. from \in Int /\ n \in Int /\ (from <= n \/ n - from + 1 = 0)
    BY <1>0
  <2>2. \A i \in from..n : d[i] \in Byte
    BY <1>0
  <2>. HIDE DEF from, n
  <2>. QED
    BY <2>1, <2>2, SubSeqProperties
<1>3. ASSUME n <= m
      PROVE  LastWindow(st) = d
  <2>1. from = 1
    BY <1>0, <1>3
  <2>2. SubSeq(d, 1, n) = d
    BY <1>0
  <2>. QED
    BY <1>1, <2>1, <2>2
<1>4. ASSUME m <= n
      PROVE  Len(LastWindow(st)) = m /\ \A i \in 1..m : LastWindow(st)[i] = d[n - m + i]
  <2>1. from = n - m + 1 /\ n - from + 1 = m
    BY <1>0, <1>4
  <2>2. \A i \in 1..m : from + i - 1 = n - m + i
    BY <1>0, <2>1
  <2>. HIDE DEF from, n
  <2>. QED
    BY <1>1, <1>2, <2>1, <2>2
<1>. QED
  BY <1>1, <1>2, <1>3, <1>4 DEF d, m

\* The ring holds the last bytes read, the oldest where the next one goes.
RingOK(st) ==
    /\ st.fill = IF Len(st.data) < cfg.window THEN Len(st.data) ELSE cfg.window
    /\ st.fill < cfg.window =>
        st.wpos = 0 /\ \A i \in 0..st.fill - 1 : st.ring[i] = st.data[i + 1]
    /\ st.fill = cfg.window =>
        \A i \in 0..cfg.window - 1 :
            st.ring[(st.wpos + i) % cfg.window] = st.data[Len(st.data) - cfg.window + 1 + i]

\* A byte while the window fills, and once it is full.
LEMMA FedFills ==
    ASSUME Forgetful, NEW st, Shape(st), NEW b \in Byte, st.fill < cfg.window
    PROVE  /\ Fed(st, b).data = Append(st.data, b)
           /\ Fed(st, b).ring = [st.ring EXCEPT ![st.fill] = b]
           /\ Fed(st, b).fill = st.fill + 1
           /\ Fed(st, b).wpos = st.wpos
           /\ Fed(st, b).hash = Push(st.hash, b)
<1>1. cfg \in Configs /\ Read(st, b) = Hashed(st, b)
  BY DEF Forgetful, Read
<1>2. /\ Hashed(st, b).ring = [st.ring EXCEPT ![st.fill] = b]
      /\ Hashed(st, b).fill = st.fill + 1
      /\ Hashed(st, b).wpos = st.wpos
      /\ Hashed(st, b).hash = Push(st.hash, b)
  <2>1. Hashed(st, b) = [data |-> st.data, ring |-> [st.ring EXCEPT ![st.fill] = b],
                         fill |-> st.fill + 1, wpos |-> st.wpos, hash |-> Push(st.hash, b),
                         size |-> st.size, cuts |-> st.cuts]
    BY DEF Shape, Hashed
  <2>. QED
    BY <2>1
<1>3. /\ Fed(st, b).data = Append(st.data, b)
      /\ Fed(st, b).ring = Read(st, b).ring
      /\ Fed(st, b).fill = Read(st, b).fill
      /\ Fed(st, b).wpos = Read(st, b).wpos
      /\ Fed(st, b).hash = Read(st, b).hash
  BY <1>1, FedFields
<1>. QED
  BY <1>1, <1>2, <1>3

LEMMA FedRolls ==
    ASSUME Forgetful, NEW st, Shape(st), NEW b \in Byte, ~(st.fill < cfg.window)
    PROVE  /\ Fed(st, b).data = Append(st.data, b)
           /\ Fed(st, b).ring = [st.ring EXCEPT ![st.wpos] = b]
           /\ Fed(st, b).fill = st.fill
           /\ Fed(st, b).wpos = (st.wpos + 1) % cfg.window
           /\ Fed(st, b).hash = Roll(st.hash, b, st.ring[st.wpos])
<1>1. cfg \in Configs /\ Read(st, b) = Hashed(st, b)
  BY DEF Forgetful, Read
<1>2. /\ Hashed(st, b).ring = [st.ring EXCEPT ![st.wpos] = b]
      /\ Hashed(st, b).fill = st.fill
      /\ Hashed(st, b).wpos = (st.wpos + 1) % cfg.window
      /\ Hashed(st, b).hash = Roll(st.hash, b, st.ring[st.wpos])
  BY <1>1, HashedFields
<1>3. /\ Fed(st, b).data = Append(st.data, b)
      /\ Fed(st, b).ring = Read(st, b).ring
      /\ Fed(st, b).fill = Read(st, b).fill
      /\ Fed(st, b).wpos = Read(st, b).wpos
      /\ Fed(st, b).hash = Read(st, b).hash
  BY <1>1, FedFields
<1>. QED
  BY <1>1, <1>2, <1>3

\* A position of the ring.
LEMMA ModPlus ==
    ASSUME NEW w \in Nat \ {0}, NEW p \in 0..w - 1, NEW i \in 0..w - 1
    PROVE  (p + i) % w = IF p + i < w THEN p + i ELSE p + i - w
<1>1. CASE p + i < w
  BY <1>1
<1>2. CASE p + i >= w
  <2>1. p + i = w * 1 + (p + i - w) /\ p + i - w \in 0..w - 1 /\ p + i \in Int
    BY <1>2
  <2>. QED
    BY <1>2, <2>1, ModUnique
<1>. QED
  BY <1>1, <1>2

\* The ring keeps the last bytes in order while it fills and once it wraps around.
LEMMA RingFills ==
    ASSUME Forgetful, NEW st, Shape(st), RingOK(st), NEW b \in Byte, st.fill < cfg.window
    PROVE  RingOK(Fed(st, b))
<1>. DEFINE m == cfg.window   n == Len(st.data)   x == Fed(st, b)
<1>0. /\ m \in Nat \ {0} /\ n \in Nat /\ n < m /\ st.fill = n /\ st.wpos = 0
      /\ st.ring \in [0..m - 1 -> Byte \union {0}]
      /\ \A i \in 0..n - 1 : st.ring[i] = st.data[i + 1]
  BY ChunkingAssumption DEF Forgetful, Shape, RingOK
<1>1. x.data = Append(st.data, b) /\ x.ring = [st.ring EXCEPT ![n] = b]
      /\ x.fill = n + 1 /\ x.wpos = 0
  BY <1>0, FedFills
<1>2. Len(x.data) = n + 1 /\ x.data[n + 1] = b /\ \A i \in 1..n : x.data[i] = st.data[i]
  <2>1. st.data \in Seq(Byte)
    BY DEF Shape
  <2>. QED
    BY <2>1, <1>1
<1>. HIDE DEF x, n, m
<1>3. \A i \in 0..n : x.ring[i] = x.data[i + 1]
  BY <1>0, <1>1, <1>2
<1>4. ASSUME n + 1 = m, NEW i \in 0..m - 1
      PROVE  x.ring[(x.wpos + i) % m] = x.data[Len(x.data) - m + 1 + i]
  <2>1. (0 + i) % m = i
    <3>1. m \in Nat \ {0} /\ 0 \in 0..m - 1
      BY <1>0
    <3>2. 0 + i = i /\ i < m
      BY <3>1
    <3>. QED
      BY <3>1, <3>2, ModPlus
  <2>2. (n + 1) - m + 1 + i = i + 1 /\ i \in 0..n
    BY <1>0, <1>4
  <2>. QED
    BY <1>1, <1>2, <1>3, <2>1, <2>2
<1>. QED
  <2>1. n + 1 < m => RingOK(x)
    BY <1>0, <1>1, <1>2, <1>3 DEF RingOK, m
  <2>2. n + 1 = m => RingOK(x)
    <3>1. SUFFICES ASSUME n + 1 = m
                   PROVE  RingOK(x)
      OBVIOUS
    <3>2. \A i \in 0..m - 1 : x.ring[(x.wpos + i) % m] = x.data[Len(x.data) - m + 1 + i]
      BY <1>4, <3>1
    <3>3. x.fill = m /\ Len(x.data) = m
      BY <1>1, <1>2, <3>1
    <3>. QED
      BY <1>0, <3>2, <3>3 DEF RingOK, m
  <2>. QED
    BY <1>0, <2>1, <2>2 DEF x

LEMMA RingRolls ==
    ASSUME Forgetful, NEW st, Shape(st), RingOK(st), NEW b \in Byte, ~(st.fill < cfg.window)
    PROVE  RingOK(Fed(st, b)) /\ st.ring[st.wpos] = st.data[Len(st.data) - cfg.window + 1]
<1>. DEFINE m == cfg.window   n == Len(st.data)   p == st.wpos   x == Fed(st, b)
<1>0. /\ m \in Nat \ {0} /\ n \in Nat /\ n >= m /\ st.fill = m /\ p \in 0..m - 1
      /\ st.ring \in [0..m - 1 -> Byte \union {0}]
      /\ \A i \in 0..m - 1 : st.ring[(p + i) % m] = st.data[n - m + 1 + i]
  BY ChunkingAssumption DEF Forgetful, Shape, RingOK
<1>1. x.data = Append(st.data, b) /\ x.ring = [st.ring EXCEPT ![p] = b]
      /\ x.fill = m /\ x.wpos = (p + 1) % m
  BY <1>0, FedRolls
<1>2. Len(x.data) = n + 1 /\ x.data[n + 1] = b /\ \A i \in 1..n : x.data[i] = st.data[i]
  <2>1. st.data \in Seq(Byte)
    BY DEF Shape
  <2>. QED
    BY <2>1, <1>1
<1>. HIDE DEF x, n, m, p
<1>3. (p + 0) % m = p /\ 0 \in 0..m - 1
  BY <1>0
<1>4. st.ring[p] = st.data[n - m + 1]
  <2>1. st.ring[(p + 0) % m] = st.data[n - m + 1 + 0]
    BY <1>0, <1>3
  <2>2. n - m + 1 + 0 = n - m + 1
    BY <1>0
  <2>. QED
    BY <1>3, <2>1, <2>2
<1>. DEFINE q == (p + 1) % m
<1>5. q = IF p = m - 1 THEN 0 ELSE p + 1
  <2>1. p % m = p /\ p \in Nat
    BY <1>0
  <2>. QED
    BY <1>0, <2>1, ModStep
<1>. HIDE DEF q
<1>6. ASSUME NEW i \in 0..m - 1
      PROVE  x.ring[(q + i) % m] = x.data[(n + 1) - m + 1 + i]
  <2>1. (q + i) % m = IF q + i < m THEN q + i ELSE q + i - m
    <3>1. q \in 0..m - 1
      BY <1>0, <1>5
    <3>. QED
      BY <1>0, <3>1, ModPlus
  <2>2. CASE i = m - 1
    <3>1. (q + i) % m = p
      BY <1>0, <1>5, <2>1, <2>2
    <3>2. (n + 1) - m + 1 + i = n + 1
      BY <1>0, <2>2
    <3>. QED
      BY <1>0, <1>1, <1>2, <3>1, <3>2
  <2>3. CASE i # m - 1
    <3>1. i + 1 \in 0..m - 1
      BY <1>0, <2>3
    <3>2. (p + (i + 1)) % m = IF p + (i + 1) < m THEN p + (i + 1) ELSE p + (i + 1) - m
      BY <1>0, <3>1, ModPlus
    <3>3. (q + i) % m = (p + (i + 1)) % m /\ (q + i) % m # p /\ (q + i) % m \in 0..m - 1
      BY <1>0, <1>5, <2>1, <2>3, <3>2
    <3>4. st.ring[(p + (i + 1)) % m] = st.data[n - m + 1 + (i + 1)]
      BY <1>0, <3>1
    <3>5. n - m + 1 + (i + 1) = (n + 1) - m + 1 + i /\ n - m + 1 + (i + 1) \in 1..n
      BY <1>0, <2>3
    <3>. HIDE DEF q
    <3>. QED
      BY <1>0, <1>1, <1>2, <3>3, <3>4, <3>5
  <2>. QED
    BY <2>2, <2>3
<1>7. RingOK(x)
  <2>1. \A i \in 0..m - 1 : x.ring[(x.wpos + i) % m] = x.data[Len(x.data) - m + 1 + i]
    BY <1>1, <1>2, <1>6 DEF q
  <2>. QED
    <3>1. x.fill = m /\ Len(x.data) = n + 1 /\ m \in Nat /\ n \in Nat /\ m <= n
      BY <1>0, <1>1, <1>2
    <3>. QED
      BY <2>1, <3>1 DEF RingOK, m
<1>. QED
  BY <1>4, <1>7 DEF x, n, m, p

\* A chunker whose hash is that of its window still has such a hash a byte later.
LEMMA RollsOn ==
    ASSUME Forgetful, NEW st, Shape(st), RingOK(st), NEW b \in Byte,
           st.hash = HashOf(LastWindow(st))
    PROVE  Fed(st, b).hash = HashOf(LastWindow(Fed(st, b)))
<1>. DEFINE m == cfg.window   n == Len(st.data)   x == Fed(st, b)
            w == LastWindow(st)   v == LastWindow(x)
<1>0. m \in Nat \ {0} /\ n \in Nat /\ st.data \in Seq(Byte)
      /\ cfg \in Configs /\ cfg.chunker # "fixed"
  BY ChunkingAssumption DEF Forgetful, Shape
<1>1. x.data = Append(st.data, b) /\ x.data \in Seq(Byte)
  <2>1. x.data = Append(st.data, b)
    BY <1>0, FedFields
  <2>. QED
    BY <1>0, <2>1
<1>2. Len(x.data) = n + 1 /\ x.data[n + 1] = b /\ \A i \in 1..n : x.data[i] = st.data[i]
  BY <1>0, <1>1
<1>. HIDE DEF x
<1>3. CASE st.fill < m
  <2>1. n < m
    BY <1>0, <1>3 DEF RingOK
  <2>2. x.hash = Push(st.hash, b)
    BY <1>3, FedFills DEF x
  <2>3. w = st.data /\ v = Append(st.data, b)
    <3>1. Len(st.data) <= cfg.window /\ Len(x.data) <= cfg.window
      BY <1>0, <1>2, <2>1
    <3>. HIDE DEF m, n
    <3>. QED
      BY <1>0, <1>1, <3>1, WindowIs
  <2>4. HashOf(Append(st.data, b)) = Push(HashOf(st.data), b)
    BY <1>0, HashAppend
  <2>. HIDE DEF w, v
  <2>. QED
    BY <2>2, <2>3, <2>4 DEF w, v, x
<1>4. CASE ~(st.fill < m)
  <2>1. n >= m
    BY <1>0, <1>4 DEF RingOK
  <2>2. x.hash = Roll(st.hash, b, st.ring[st.wpos])
    BY <1>4, FedRolls DEF x
  <2>3. st.ring[st.wpos] = st.data[n - m + 1]
    BY <1>4, RingRolls
  <2>4. w \in Seq(Byte) /\ Len(w) = m /\ \A i \in 1..m : w[i] = st.data[n - m + i]
    <3>1. cfg.window <= Len(st.data)
      BY <1>0, <2>1
    <3>. QED
      BY <1>0, <3>1, WindowIs
  <2>5. v \in Seq(Byte) /\ Len(v) = m /\ \A i \in 1..m : v[i] = x.data[(n + 1) - m + i]
    <3>1. cfg.window <= Len(x.data)
      BY <1>0, <1>2, <2>1
    <3>. QED
      BY <1>0, <1>1, <1>2, <3>1, WindowIs
  <2>. HIDE DEF w, v, m, n
  <2>6. w[1] = st.data[n - m + 1] /\ v[m] = b
    <3>1. 1 \in 1..m /\ m \in 1..m /\ (n + 1) - m + m = n + 1
      BY <1>0
    <3>. QED
      BY <1>0, <1>2, <2>4, <2>5, <3>1
  <2>7. \A i \in 1..m - 1 : v[i] = w[i + 1]
    <3>1. SUFFICES ASSUME NEW i \in 1..m - 1
                   PROVE  v[i] = w[i + 1]
      OBVIOUS
    <3>2. i \in 1..m /\ i + 1 \in 1..m /\ (n + 1) - m + i = n - m + (i + 1)
          /\ (n + 1) - m + i \in 1..n
      BY <1>0, <2>1
    <3>3. v[i] = x.data[(n + 1) - m + i]
      BY <2>5, <3>2
    <3>4. x.data[(n + 1) - m + i] = st.data[(n + 1) - m + i]
      BY <1>2, <3>2
    <3>5. w[i + 1] = st.data[n - m + (i + 1)]
      BY <2>4, <3>2
    <3>. QED
      BY <3>2, <3>3, <3>4, <3>5
  <2>8. Roll(HashOf(w), v[Len(v)], w[1]) = HashOf(v)
    BY <2>4, <2>5, <2>7, RollShifts DEF m
  <2>9. st.hash = HashOf(w)
    BY DEF w
  <2>10. x.hash = Roll(HashOf(w), b, w[1])
    BY <2>2, <2>3, <2>6, <2>9
  <2>11. x.hash = HashOf(v)
    BY <2>5, <2>6, <2>8, <2>10
  <2>. QED
    BY <2>11 DEF v, x
<1>. QED
  BY <1>3, <1>4

-----------------------------------------------------------------------------
(* Sizes of chunks.                                                         *)

\* The sizes of a chunker's cuts, when it may be done with its stream.
Sized(st, done) ==
    /\ st.size < cfg.max
    /\ cfg.chunker = "fixed" => st.size < cfg.avg
    /\ \A i \in 1..Len(st.cuts) :
        /\ st.cuts[i] \in 1..cfg.max
        /\ i < Len(st.cuts) \/ ~done => cfg.min <= st.cuts[i]
    /\ Total(st.cuts) + st.size = Len(st.data)

ChunkInv ==
    /\ cfg \in Configs
    /\ streams = [s \in Stream |-> streams[s]]
    /\ shared \in Nat /\ ended \in BOOLEAN
    /\ \A s \in Stream : Shape(streams[s]) /\ Sized(streams[s], ended)

\* Sizes: a fresh chunker, one byte more, the end of the stream.
LEMMA FreshChunker ==
    ASSUME cfg \in Configs
    PROVE  Shape(Fresh) /\ Sized(Fresh, FALSE)
<1>0. /\ cfg.window \in Nat \ {0} /\ cfg.min \in Nat /\ cfg.avg \in Nat /\ cfg.max \in Nat
      /\ 0 < cfg.min /\ cfg.min <= cfg.avg /\ cfg.avg <= cfg.max
  BY ChunkingAssumption
<1>1. Fresh = [data |-> <<>>, ring |-> [i \in 0..cfg.window - 1 |-> 0], fill |-> 0,
               wpos |-> 0, hash |-> Zero, size |-> 0, cuts |-> <<>>]
  BY DEF Fresh
<1>2. Shape(Fresh)
  BY <1>0, <1>1 DEF Shape
<1>3. Total(<<>>) = 0
  <2>1. <<>> \in Seq(Int) /\ 0 \in Int
    OBVIOUS
  <2>. QED
    BY <2>1, SumStep
<1>4. Sized(Fresh, FALSE)
  BY <1>0, <1>1, <1>3 DEF Sized
<1>. QED
  BY <1>2, <1>4

LEMMA FedSized ==
    ASSUME cfg \in Configs, NEW st, Shape(st), Sized(st, FALSE), NEW b \in Byte
    PROVE  Sized(Fed(st, b), FALSE)
<1>. DEFINE x == Fed(st, b)   h == Read(st, b).hash   k == st.size + 1
<1>0. /\ cfg.min \in Nat /\ cfg.avg \in Nat /\ cfg.max \in Nat
      /\ 0 < cfg.min /\ cfg.min <= cfg.avg /\ cfg.avg <= cfg.max
      /\ st.size \in Nat /\ st.cuts \in Seq(Int) /\ st.data \in Seq(Byte)
  BY ChunkingAssumption DEF Shape
<1>1. x.data = Append(st.data, b)
  BY FedFields
<1>2. Len(x.data) = Len(st.data) + 1
  BY <1>0, <1>1
<1>3. CASE CutHere(k, h)
  <2>1. x.size = 0 /\ x.cuts = Append(st.cuts, k)
    BY <1>3, FedFields
  <2>2. k \in Int /\ cfg.min <= k /\ k <= cfg.max /\ 1 <= k
    BY <1>0, <1>3 DEF CutHere, Sized
  <2>3. Total(Append(st.cuts, k)) = Total(st.cuts) + k /\ Total(st.cuts) \in Int
    BY <1>0, <2>2, SumStep
  <2>4. Len(x.cuts) = Len(st.cuts) + 1 /\ x.cuts[Len(st.cuts) + 1] = k
        /\ \A i \in 1..Len(st.cuts) : x.cuts[i] = st.cuts[i]
    BY <1>0, <2>1, <2>2
  <2>. HIDE DEF x, k, h
  <2>5. \A i \in 1..Len(x.cuts) : x.cuts[i] \in 1..cfg.max /\ cfg.min <= x.cuts[i]
    <3>1. SUFFICES ASSUME NEW i \in 1..Len(x.cuts)
                   PROVE  x.cuts[i] \in 1..cfg.max /\ cfg.min <= x.cuts[i]
      OBVIOUS
    <3>2. i = Len(st.cuts) + 1 \/ i \in 1..Len(st.cuts)
      BY <1>0, <2>4
    <3>3. CASE i = Len(st.cuts) + 1
      BY <1>0, <2>2, <2>4, <3>3
    <3>4. CASE i \in 1..Len(st.cuts)
      BY <1>0, <2>4, <3>4 DEF Sized
    <3>. QED
      BY <3>2, <3>3, <3>4
  <2>6. Total(x.cuts) + x.size = Len(x.data)
    BY <1>0, <1>2, <2>1, <2>3 DEF Sized, k
  <2>. QED
    BY <1>0, <2>1, <2>5, <2>6 DEF Sized, x
<1>4. CASE ~CutHere(k, h)
  <2>1. x.size = k /\ x.cuts = st.cuts
    BY <1>4, FedFields
  <2>2. Total(st.cuts) \in Int
    BY <1>0, SumStep
  <2>3. k < cfg.max /\ (cfg.chunker = "fixed" => k < cfg.avg)
    <3>1. k \in Nat /\ st.size < cfg.max
      BY <1>0 DEF Sized
    <3>2. CASE cfg.chunker = "fixed"
      <4>1. k # cfg.avg
        BY <1>4, <3>2 DEF CutHere
      <4>. QED
        BY <1>0, <4>1, <3>2 DEF Sized
    <3>3. CASE cfg.chunker # "fixed"
      <4>1. k < cfg.min \/ ~(k >= cfg.max)
        BY <1>0, <1>4, <3>1, <3>3 DEF CutHere
      <4>. QED
        BY <1>0, <3>1, <3>3, <4>1
    <3>. QED
      BY <3>2, <3>3
  <2>4. Total(x.cuts) + x.size = Len(x.data)
    <3>1. Total(st.cuts) + st.size = Len(st.data)
      BY DEF Sized
    <3>. HIDE DEF x
    <3>. QED
      BY <1>0, <1>2, <2>1, <2>2, <3>1
  <2>. HIDE DEF x
  <2>. QED
    BY <2>1, <2>3, <2>4 DEF Sized, x
<1>. QED
  BY <1>3, <1>4

LEMMA FinishedFields ==
    ASSUME cfg \in Configs, NEW st, Shape(st), Sized(st, FALSE)
    PROVE  /\ Shape(Finished(st)) /\ Sized(Finished(st), TRUE)
           /\ Finished(st).data = st.data
           /\ Finished(st).ring = st.ring
           /\ Finished(st).fill = st.fill
           /\ Finished(st).wpos = st.wpos
           /\ Finished(st).hash = st.hash
<1>. DEFINE x == Finished(st)   k == st.size
<1>0. /\ cfg.min \in Nat /\ cfg.avg \in Nat /\ cfg.max \in Nat
      /\ 0 < cfg.min /\ cfg.min <= cfg.avg /\ cfg.avg <= cfg.max
      /\ k \in Nat /\ st.cuts \in Seq(Int) /\ st.data \in Seq(Byte)
  BY ChunkingAssumption DEF Shape
<1>1. CASE k > 0
  <2>1. x = [data |-> st.data, ring |-> st.ring, fill |-> st.fill, wpos |-> st.wpos,
             hash |-> st.hash, size |-> 0, cuts |-> Append(st.cuts, k)]
    BY <1>1 DEF Finished, Shape
  <2>2. Append(st.cuts, k) \in Seq(Int) /\ k \in Int
    BY <1>0
  <2>3. Shape(x)
    BY <2>1, <2>2 DEF Shape
  <2>4. Total(Append(st.cuts, k)) = Total(st.cuts) + k /\ Total(st.cuts) \in Int
    BY <1>0, <2>2, SumStep
  <2>5. Len(x.cuts) = Len(st.cuts) + 1 /\ x.cuts[Len(st.cuts) + 1] = k
        /\ \A i \in 1..Len(st.cuts) : x.cuts[i] = st.cuts[i]
    BY <1>0, <2>1, <2>2
  <2>6. Total(x.cuts) + x.size = Len(x.data)
    BY <1>0, <2>1, <2>4 DEF Sized
  <2>7. x.size = 0 /\ x.data = st.data /\ x.ring = st.ring /\ x.fill = st.fill
        /\ x.wpos = st.wpos /\ x.hash = st.hash
    BY <2>1
  <2>. HIDE DEF x
  <2>8. ASSUME NEW i \in 1..Len(x.cuts)
        PROVE  x.cuts[i] \in 1..cfg.max /\ (i < Len(x.cuts) => cfg.min <= x.cuts[i])
    <3>1. i = Len(st.cuts) + 1 \/ i \in 1..Len(st.cuts)
      BY <1>0, <2>5
    <3>2. CASE i = Len(st.cuts) + 1
      BY <1>0, <1>1, <2>5, <3>2 DEF Sized
    <3>3. CASE i \in 1..Len(st.cuts)
      BY <1>0, <2>5, <3>3 DEF Sized
    <3>. QED
      BY <3>1, <3>2, <3>3
  <2>9. Sized(x, TRUE)
    BY <1>0, <2>6, <2>7, <2>8 DEF Sized
  <2>. QED
    BY <2>3, <2>7, <2>9 DEF x
<1>2. CASE ~(k > 0)
  <2>1. x = st
    BY <1>2 DEF Finished
  <2>. QED
    BY <2>1 DEF Sized
<1>. QED
  BY <1>1, <1>2

\* Every chunker keeps the shape and the sizes of its cuts.
LEMMA SizesStep ==
    ASSUME ChunkInv, [ChunkingNext]_chunkVars
    PROVE  ChunkInv'
<1>1. ASSUME cfg' = cfg, NEW s \in Stream, Shape(streams'[s]), Sized(streams'[s], ended')
      PROVE  Shape(streams[s])' /\ Sized(streams[s], ended)'
  BY <1>1 DEF Shape, Sized
<1>2. ASSUME NEW s \in Stream, NEW b \in Byte, OwnByte(s, b)
      PROVE  ChunkInv'
  <2>1. /\ cfg' = cfg /\ shared' = shared /\ ended' = ended /\ ended = FALSE
        /\ streams' = [streams EXCEPT ![s] = Fed(streams[s], b)]
    BY <1>2 DEF OwnByte, ChunkInv
  <2>2. streams' = [r \in Stream |-> streams'[r]] /\ streams'[s] = Fed(streams[s], b)
        /\ \A r \in Stream \ {s} : streams'[r] = streams[r]
    BY <2>1 DEF ChunkInv
  <2>3. Shape(Fed(streams[s], b)) /\ Sized(Fed(streams[s], b), FALSE)
    BY <2>1, FedFields, FedSized DEF ChunkInv
  <2>4. \A r \in Stream : Shape(streams'[r]) /\ Sized(streams'[r], ended')
    BY <2>1, <2>2, <2>3 DEF ChunkInv
  <2>. QED
    BY <1>1, <2>1, <2>2, <2>4 DEF ChunkInv
<1>3. ASSUME NEW b \in Byte, SharedByte(b)
      PROVE  ChunkInv'
  <2>1. /\ cfg' = cfg /\ shared' = shared + 1 /\ ended' = ended /\ ended = FALSE
        /\ streams' = [r \in Stream |-> Fed(streams[r], b)]
    BY <1>3 DEF SharedByte, ChunkInv
  <2>2. streams' = [r \in Stream |-> streams'[r]]
        /\ \A r \in Stream : streams'[r] = Fed(streams[r], b)
    BY <2>1
  <2>3. ASSUME NEW r \in Stream
        PROVE  Shape(Fed(streams[r], b)) /\ Sized(Fed(streams[r], b), FALSE)
    BY <2>1, FedFields, FedSized DEF ChunkInv
  <2>4. \A r \in Stream : Shape(streams'[r]) /\ Sized(streams'[r], ended')
    BY <2>1, <2>2, <2>3
  <2>. QED
    BY <1>1, <2>1, <2>2, <2>4 DEF ChunkInv
<1>4. ASSUME EndOfStreams
      PROVE  ChunkInv'
  <2>1. /\ cfg' = cfg /\ shared' = shared /\ ended' = TRUE /\ ended = FALSE
        /\ streams' = [r \in Stream |-> Finished(streams[r])]
    BY <1>4 DEF EndOfStreams, ChunkInv
  <2>2. streams' = [r \in Stream |-> streams'[r]]
        /\ \A r \in Stream : streams'[r] = Finished(streams[r])
    BY <2>1
  <2>3. ASSUME NEW r \in Stream
        PROVE  Shape(Finished(streams[r])) /\ Sized(Finished(streams[r]), TRUE)
    BY <2>1, FinishedFields DEF ChunkInv
  <2>4. \A r \in Stream : Shape(streams'[r]) /\ Sized(streams'[r], ended')
    BY <2>1, <2>2, <2>3
  <2>. QED
    BY <1>1, <2>1, <2>2, <2>4 DEF ChunkInv
<1>5. CASE UNCHANGED chunkVars
  BY <1>5 DEF chunkVars, ChunkInv, Shape, Sized
<1>. QED
  BY <1>2, <1>3, <1>4, <1>5 DEF ChunkingNext

LEMMA SizesInit ==
    ASSUME ChunkingInit
    PROVE  ChunkInv
<1>1. cfg \in Configs /\ ended = FALSE /\ shared = 0 /\ streams = [s \in Stream |-> Fresh]
  BY DEF ChunkingInit
<1>2. Shape(Fresh) /\ Sized(Fresh, FALSE)
  BY <1>1, FreshChunker
<1>. QED
  BY <1>1, <1>2 DEF ChunkInv

\* For any streams and any configuration that _cfg of cli.py accepts: every chunk but
\* the last has its size between min and max, none is empty or longer than max, and
\* the chunks make up the stream (the three iterators of chunking.py).
THEOREM ChunkSizes == ChunkingSpec => []SizesBounded
<1>1. ChunkingInit => ChunkInv
  BY SizesInit
<1>2. ChunkInv /\ [ChunkingNext]_chunkVars => ChunkInv'
  BY SizesStep
<1>3. ChunkInv => SizesBounded
  <2>1. SUFFICES ASSUME ChunkInv, NEW s \in Stream
                 PROVE  LET st == streams[s]
                        IN  /\ \A i \in 1..Len(st.cuts) :
                                /\ st.cuts[i] \in 1..cfg.max
                                /\ i < Len(st.cuts) \/ ~ended => st.cuts[i] >= cfg.min
                            /\ Total(st.cuts) + st.size = Len(st.data)
    BY DEF SizesBounded, Total
  <2>2. Sized(streams[s], ended) /\ Shape(streams[s])
    BY <2>1 DEF ChunkInv
  <2>3. cfg.min \in Nat /\ streams[s].cuts \in Seq(Int)
    BY <2>1, <2>2, ChunkingAssumption DEF ChunkInv, Shape
  <2>. QED
    BY <2>2, <2>3 DEF Sized
<1>. QED
  BY <1>1, <1>2, <1>3, PTL DEF ChunkingSpec

-----------------------------------------------------------------------------
(* Rolling.                                                                 *)

\* h is the hash of w.
HashedAs(h, w) == \E g : Hashes(g, w) /\ h = g[Len(w)]

\* HashedAs is what Rolling says, in a form that is the same in the next state.
LEMMA HashedAsIs ==
    ASSUME Forgetful, NEW w \in Seq(Byte), NEW h
    PROVE  HashedAs(h, w) <=> h = HashOf(w)
<1>1. PICK f : Hashes(f, w) /\ HashOf(w) = f[Len(w)]
  BY HashFold
<1>2. ASSUME NEW g, Hashes(g, w)
      PROVE  g[Len(w)] = f[Len(w)]
  BY <1>1, <1>2, HashesAgree
<1>. QED
  BY <1>1, <1>2 DEF HashedAs

LEMMA HashedAsStays ==
    ASSUME cfg' = cfg, NEW w, NEW h, HashedAs(h, w)
    PROVE  HashedAs(h, w)'
BY DEF HashedAs, Hashes, Push, Zero, IsBuz, Modulus, Xor, RotL

\* BuzHash always, Rabin under a short mask.
LEMMA ShortIsForgetful ==
    ASSUME ShortMask, cfg \in Configs, cfg.chunker # "fixed"
    PROVE  Forgetful
<1>1. cfg.chunker = "cdc_buzhash" \/ cfg.chunker = "cdc_rabin"
  BY ChunkingAssumption
<1>. QED
  BY <1>1 DEF ShortMask, Forgetful, IsBuz

\* A chunker whose hash is that of its window.
Rolls(st) == RingOK(st) /\ HashedAs(st.hash, LastWindow(st))

\* Hashes: a fresh chunker, one byte more, the end of the stream.
LEMMA FreshRolls ==
    ASSUME cfg \in Configs
    PROVE  Rolls(Fresh)
<1>0. cfg.window \in Nat \ {0}
  BY ChunkingAssumption
<1>1. Fresh = [data |-> <<>>, ring |-> [i \in 0..cfg.window - 1 |-> 0], fill |-> 0,
               wpos |-> 0, hash |-> Zero, size |-> 0, cuts |-> <<>>]
  BY DEF Fresh
<1>2. RingOK(Fresh)
  BY <1>0, <1>1 DEF RingOK
<1>3. LastWindow(Fresh) = <<>>
  <2>1. Fresh.data = <<>> /\ Fresh.data \in Seq(Byte) /\ Len(Fresh.data) <= cfg.window
    BY <1>0, <1>1
  <2>. QED
    BY <2>1, WindowIs
<1>4. HashedAs(Zero, <<>>)
  <2>. DEFINE g == [k \in {0} |-> Zero]
  <2>1. Hashes(g, <<>>) /\ g[Len(<<>>)] = Zero
    BY DEF Hashes
  <2>. QED
    BY <2>1 DEF HashedAs
<1>. QED
  BY <1>1, <1>2, <1>3, <1>4 DEF Rolls

LEMMA FedRollsOn ==
    ASSUME Forgetful, NEW st, Shape(st), Rolls(st), NEW b \in Byte
    PROVE  Rolls(Fed(st, b))
<1>. DEFINE x == Fed(st, b)
<1>1. cfg \in Configs /\ st.data \in Seq(Byte)
  BY DEF Forgetful, Shape
<1>2. x.data \in Seq(Byte)
  BY <1>1, FedFields DEF Shape
<1>3. LastWindow(st) \in Seq(Byte) /\ LastWindow(x) \in Seq(Byte)
  BY <1>1, <1>2, WindowIs
<1>4. st.hash = HashOf(LastWindow(st))
  BY <1>3, HashedAsIs DEF Rolls
<1>5. x.hash = HashOf(LastWindow(x))
  BY <1>4, RollsOn DEF Rolls
<1>6. RingOK(x)
  BY RingFills, RingRolls DEF Rolls
<1>. HIDE DEF x
<1>. QED
  BY <1>3, <1>5, <1>6, HashedAsIs DEF Rolls, x

LEMMA FinishedRolls ==
    ASSUME cfg \in Configs, NEW st, Shape(st), Sized(st, FALSE), Rolls(st)
    PROVE  Rolls(Finished(st))
<1>1. /\ Finished(st).data = st.data
      /\ Finished(st).ring = st.ring
      /\ Finished(st).fill = st.fill
      /\ Finished(st).wpos = st.wpos
      /\ Finished(st).hash = st.hash
  BY FinishedFields
<1>2. LastWindow(Finished(st)) = LastWindow(st)
  BY <1>1 DEF LastWindow
<1>. QED
  BY <1>1, <1>2 DEF Rolls, RingOK

RollsStay == cfg.chunker # "fixed" /\ ShortMask => \A s \in Stream : Rolls(streams[s])

RollInv == ChunkInv /\ RollsStay

\* Every chunker keeps the hash of its window.
LEMMA RollStep ==
    ASSUME RollInv, [ChunkingNext]_chunkVars
    PROVE  RollInv'
<1>0. ChunkInv'
  BY SizesStep DEF RollInv
<1>1. ASSUME cfg' = cfg, NEW s \in Stream, Rolls(streams'[s])
      PROVE  Rolls(streams[s])'
  <2>. DEFINE w == LastWindow(streams'[s])
  <2>1. HashedAs(streams'[s].hash, w)
    BY <1>1 DEF Rolls
  <2>2. HashedAs(streams[s].hash, LastWindow(streams[s]))'
    BY <1>1, <2>1, ZenonT(60) DEF HashedAs, Hashes, Push, Zero, IsBuz, Modulus, Xor, RotL, LastWindow
  <2>. QED
    BY <1>1, <2>2 DEF Rolls, RingOK
<1>2. cfg' = cfg
  BY DEF ChunkingNext, OwnByte, SharedByte, EndOfStreams, chunkVars
<1>3. SUFFICES ASSUME cfg.chunker # "fixed", ShortMask, NEW s \in Stream
               PROVE  Rolls(streams'[s])
  BY <1>0, <1>1, <1>2 DEF RollInv, RollsStay, ShortMask, Modulus
<1>4. /\ cfg \in Configs /\ Forgetful /\ streams = [r \in Stream |-> streams[r]]
      /\ Shape(streams[s]) /\ Sized(streams[s], ended) /\ Rolls(streams[s])
      /\ ended \in BOOLEAN
  BY <1>3, ShortIsForgetful DEF RollInv, RollsStay, ChunkInv
<1>5. ASSUME NEW r \in Stream, NEW b \in Byte, OwnByte(r, b)
      PROVE  Rolls(streams'[s])
  <2>1. streams' = [streams EXCEPT ![r] = Fed(streams[r], b)]
    BY <1>5 DEF OwnByte
  <2>2. streams'[s] = IF s = r THEN Fed(streams[s], b) ELSE streams[s]
    BY <1>4, <2>1
  <2>. QED
    BY <1>4, <2>2, FedRollsOn
<1>6. ASSUME NEW b \in Byte, SharedByte(b)
      PROVE  Rolls(streams'[s])
  <2>1. streams'[s] = Fed(streams[s], b)
    BY <1>6 DEF SharedByte
  <2>. QED
    BY <1>4, <2>1, FedRollsOn
<1>7. ASSUME EndOfStreams
      PROVE  Rolls(streams'[s])
  <2>1. streams'[s] = Finished(streams[s]) /\ ended = FALSE
    BY <1>4, <1>7 DEF EndOfStreams
  <2>. QED
    BY <1>4, <2>1, FinishedRolls
<1>8. CASE UNCHANGED chunkVars
  BY <1>4, <1>8 DEF chunkVars
<1>. QED
  BY <1>5, <1>6, <1>7, <1>8 DEF ChunkingNext

LEMMA RollInit ==
    ASSUME ChunkingInit
    PROVE  RollInv
<1>1. cfg \in Configs /\ streams = [s \in Stream |-> Fresh]
  BY DEF ChunkingInit
<1>2. Rolls(Fresh)
  BY <1>1, FreshRolls
<1>. QED
  BY <1>1, <1>2, SizesInit DEF RollInv, RollsStay

\* The rolling hash of iter_cdc_buzhash and iter_cdc_rabin is that of the last window of
\* bytes alone, wherever the ring stands: always for BuzHash, for Rabin as long as the
\* mask has at most eight bits.  Past that the outgoing byte does not leave the hash.
THEOREM HashesRoll == ChunkingSpec => [](ShortMask => Rolling)
<1>1. ChunkingInit => RollInv
  BY RollInit
<1>2. RollInv /\ [ChunkingNext]_chunkVars => RollInv'
  BY RollStep
<1>3. RollInv => (ShortMask => Rolling)
  <2>1. SUFFICES ASSUME RollInv, ShortMask, cfg.chunker # "fixed", NEW s \in Stream
                 PROVE  streams[s].hash = HashOf(LastWindow(streams[s]))
    BY DEF Rolling, HashOf
  <2>2. Forgetful /\ cfg \in Configs /\ streams[s].data \in Seq(Byte)
    BY <2>1, ShortIsForgetful DEF RollInv, ChunkInv, Shape
  <2>3. LastWindow(streams[s]) \in Seq(Byte)
    BY <2>2, WindowIs
  <2>. QED
    BY <2>1, <2>2, <2>3, HashedAsIs DEF RollInv, RollsStay, Rolls
<1>. QED
  BY <1>1, <1>2, <1>3, PTL DEF ChunkingSpec

\* The last k bytes of two chunkers are the same.
Alike(x, y, k) ==
    /\ k <= Len(x.data) /\ k <= Len(y.data)
    /\ \A i \in 0..k - 1 : x.data[Len(x.data) - i] = y.data[Len(y.data) - i]

-----------------------------------------------------------------------------
(* Two chunkers.                                                            *)

\* What two chunkers share grows with every byte they have in common.
LEMMA AlikeFed ==
    ASSUME cfg \in Configs, NEW x, Shape(x), NEW y, Shape(y), NEW k \in Nat, Alike(x, y, k),
           NEW b \in Byte
    PROVE  Alike(Fed(x, b), Fed(y, b), k + 1)
<1>. DEFINE v == Fed(x, b)   w == Fed(y, b)   m == Len(x.data)   n == Len(y.data)
<1>0. x.data \in Seq(Byte) /\ y.data \in Seq(Byte) /\ m \in Nat /\ n \in Nat
      /\ k <= m /\ k <= n
  BY DEF Shape, Alike
<1>1. v.data = Append(x.data, b) /\ w.data = Append(y.data, b)
  BY FedFields
<1>2. /\ Len(v.data) = m + 1 /\ v.data[m + 1] = b /\ \A i \in 1..m : v.data[i] = x.data[i]
      /\ Len(w.data) = n + 1 /\ w.data[n + 1] = b /\ \A i \in 1..n : w.data[i] = y.data[i]
  BY <1>0, <1>1
<1>3. \A i \in 0..k - 1 : x.data[m - i] = y.data[n - i]
  BY DEF Alike
<1>. HIDE DEF v, w, m, n
<1>4. ASSUME NEW i \in 0..k
      PROVE  v.data[(m + 1) - i] = w.data[(n + 1) - i]
  <2>1. CASE i = 0
    BY <1>0, <1>2, <2>1
  <2>2. CASE i # 0
    <3>1. i - 1 \in 0..k - 1 /\ m - (i - 1) \in 1..m /\ n - (i - 1) \in 1..n
          /\ m - (i - 1) = (m + 1) - i /\ n - (i - 1) = (n + 1) - i
      BY <1>0, <2>2
    <3>2. x.data[m - (i - 1)] = y.data[n - (i - 1)]
      BY <1>3, <3>1
    <3>3. v.data[m - (i - 1)] = x.data[m - (i - 1)]
      BY <1>2, <3>1
    <3>4. w.data[n - (i - 1)] = y.data[n - (i - 1)]
      BY <1>2, <3>1
    <3>. QED
      BY <3>1, <3>2, <3>3, <3>4
  <2>. QED
    BY <2>1, <2>2
<1>. QED
  BY <1>0, <1>2, <1>4 DEF Alike, v, w

\* After a window of shared bytes, windows and so hashes are the same.
LEMMA AlikeWindow ==
    ASSUME cfg \in Configs, NEW x, Shape(x), NEW y, Shape(y), NEW k \in Nat, Alike(x, y, k),
           cfg.window <= k
    PROVE  LastWindow(x) = LastWindow(y)
<1>. DEFINE m == Len(x.data)   n == Len(y.data)   u == cfg.window
            v == LastWindow(x)   w == LastWindow(y)
<1>0. x.data \in Seq(Byte) /\ y.data \in Seq(Byte) /\ m \in Nat /\ n \in Nat
      /\ k <= m /\ k <= n /\ u \in Nat \ {0} /\ u <= k /\ u <= m /\ u <= n
  BY ChunkingAssumption DEF Shape, Alike
<1>1. v \in Seq(Byte) /\ Len(v) = u /\ \A i \in 1..u : v[i] = x.data[m - u + i]
  BY <1>0, WindowIs
<1>2. w \in Seq(Byte) /\ Len(w) = u /\ \A i \in 1..u : w[i] = y.data[n - u + i]
  BY <1>0, WindowIs
<1>3. \A i \in 0..k - 1 : x.data[m - i] = y.data[n - i]
  BY DEF Alike
<1>. HIDE DEF v, w, m, n, u
<1>4. ASSUME NEW i \in 1..u
      PROVE  v[i] = w[i]
  <2>1. u - i \in 0..k - 1 /\ m - (u - i) = m - u + i /\ n - (u - i) = n - u + i
    BY <1>0
  <2>. QED
    BY <1>1, <1>2, <1>3, <2>1
<1>5. v = w
  BY <1>1, <1>2, <1>4, SeqEqual
<1>. QED
  BY <1>5 DEF v, w

LEMMA AlikeHash ==
    ASSUME Forgetful, NEW x, Shape(x), Rolls(x), NEW y, Shape(y), Rolls(y),
           NEW k \in Nat, Alike(x, y, k), cfg.window <= k
    PROVE  x.hash = y.hash
<1>1. cfg \in Configs /\ x.data \in Seq(Byte)
  BY DEF Forgetful, Shape
<1>2. LastWindow(x) = LastWindow(y)
  BY <1>1, AlikeWindow
<1>3. LastWindow(x) \in Seq(Byte)
  BY <1>1, WindowIs
<1>. QED
  BY <1>2, <1>3, HashedAsIs DEF Rolls

\* Where the next byte ends a chunk, it ends one of each.
LEMMA AlikeSize ==
    ASSUME cfg \in Configs, ShortMask, NEW x, Shape(x), NEW y, Shape(y),
           cfg.chunker # "fixed" => Rolls(x) /\ Rolls(y),
           NEW k \in Nat, Alike(x, y, k), cfg.window <= k, x.size = y.size, NEW b \in Byte
    PROVE  Fed(x, b).size = Fed(y, b).size
<1>. DEFINE v == Fed(x, b)   w == Fed(y, b)
<1>1. Shape(v) /\ Shape(w) /\ v.hash = Read(x, b).hash /\ w.hash = Read(y, b).hash
  BY FedFields
<1>2. CASE cfg.chunker = "fixed"
  <2>1. \A h : CutHere(x.size + 1, h) <=> x.size + 1 = cfg.avg
    BY <1>2 DEF CutHere
  <2>. QED
    BY <2>1, FedFields
<1>3. CASE cfg.chunker # "fixed"
  <2>1. Forgetful
    BY <1>3, ShortIsForgetful
  <2>2. Rolls(v) /\ Rolls(w)
    BY <1>3, <2>1, FedRollsOn
  <2>3. Alike(v, w, k + 1)
    BY AlikeFed
  <2>4. k + 1 \in Nat /\ cfg.window <= k + 1
    BY ChunkingAssumption
  <2>5. v.hash = w.hash
    <3>. HIDE DEF v, w
    <3>. QED
      BY <1>1, <2>1, <2>2, <2>3, <2>4, AlikeHash
  <2>. QED
    BY <1>1, <2>5, FedFields
<1>. QED
  BY <1>2, <1>3

\* All streams have the bytes in common that were shared; once they were cut at the
\* same byte their chunks go on alike.
AllAlike == \A s, t \in Stream : Alike(streams[s], streams[t], shared)

AllAligned ==
    ShortMask /\ aligned =>
        /\ cfg.window <= shared
        /\ ~ended => \A s, t \in Stream : streams[s].size = streams[t].size

ShiftInv == RollInv /\ AllAlike /\ AllAligned

LEMMA ShiftInit ==
    ASSUME ChunkingInit
    PROVE  ShiftInv
<1>1. /\ cfg \in Configs /\ streams = [s \in Stream |-> Fresh] /\ shared = 0
      /\ aligned = FALSE
  BY DEF ChunkingInit
<1>2. Alike(Fresh, Fresh, 0)
  BY DEF Alike, Fresh
<1>. QED
  BY <1>1, <1>2, RollInit DEF ShiftInv, AllAlike, AllAligned

\* What is shared, and what is cut alike, stays so.
LEMMA ShiftStep ==
    ASSUME ShiftInv, [ChunkingNext]_chunkVars
    PROVE  ShiftInv'
<1>0. /\ cfg \in Configs /\ shared \in Nat /\ ended \in BOOLEAN
      /\ streams = [r \in Stream |-> streams[r]]
      /\ \A s \in Stream : Shape(streams[s])
      /\ \A s \in Stream : Sized(streams[s], ended)
      /\ \A s, t \in Stream : Alike(streams[s], streams[t], shared)
      /\ cfg.window \in Nat \ {0}
  BY ChunkingAssumption DEF ShiftInv, RollInv, ChunkInv, AllAlike
<1>1. RollInv'
  BY RollStep DEF ShiftInv
<1>2. ASSUME NEW r \in Stream, NEW b \in Byte, OwnByte(r, b)
      PROVE  AllAlike' /\ AllAligned'
  <2>1. /\ shared = 0 /\ shared' = 0 /\ cfg' = cfg /\ aligned' = aligned
        /\ streams' = [streams EXCEPT ![r] = Fed(streams[r], b)]
    BY <1>2 DEF OwnByte
  <2>2. ~(ShortMask /\ aligned)
    BY <1>0, <2>1 DEF ShiftInv, AllAligned
  <2>3. ASSUME NEW s \in Stream
        PROVE  Shape(streams'[s])
    <3>1. streams'[s] = IF s = r THEN Fed(streams[s], b) ELSE streams[s]
      BY <1>0, <2>1
    <3>. QED
      BY <1>0, <3>1, FedFields
  <2>4. \A s \in Stream : Len(streams'[s].data) \in Nat
    BY <2>3 DEF Shape
  <2>5. AllAlike'
    <3>1. ASSUME NEW s \in Stream, NEW t \in Stream
          PROVE  Alike(streams'[s], streams'[t], shared')
      BY <2>1, <2>4 DEF Alike
    <3>. QED
      BY <3>1 DEF AllAlike
  <2>. QED
    BY <2>1, <2>2, <2>5 DEF AllAligned, ShortMask, Modulus
<1>3. ASSUME NEW b \in Byte, SharedByte(b)
      PROVE  AllAlike' /\ AllAligned'
  <2>1. /\ shared' = shared + 1 /\ cfg' = cfg /\ ended' = ended /\ ended = FALSE
        /\ aligned' = (aligned \/ /\ shared' >= cfg.window
                                  /\ \A s \in Stream : streams'[s].size = 0)
        /\ \A s \in Stream : streams'[s] = Fed(streams[s], b)
    BY <1>0, <1>3 DEF SharedByte
  <2>2. \A s, t \in Stream : Alike(Fed(streams[s], b), Fed(streams[t], b), shared + 1)
    BY <1>0, AlikeFed
  <2>3. AllAlike'
    <3>1. ASSUME NEW s \in Stream, NEW t \in Stream
          PROVE  Alike(streams'[s], streams'[t], shared')
      BY <2>1, <2>2
    <3>. QED
      BY <3>1 DEF AllAlike
  <2>4. ASSUME ShortMask, aligned
        PROVE  /\ cfg.window <= shared'
               /\ \A s, t \in Stream : streams'[s].size = streams'[t].size
    <3>1. cfg.window <= shared /\ \A s, t \in Stream : streams[s].size = streams[t].size
      BY <2>1, <2>4 DEF ShiftInv, AllAligned
    <3>2. cfg.chunker # "fixed" => \A s \in Stream : Rolls(streams[s])
      BY <2>4 DEF ShiftInv, RollInv, RollsStay
    <3>3. \A s, t \in Stream : Fed(streams[s], b).size = Fed(streams[t], b).size
      BY <1>0, <2>4, <3>1, <3>2, AlikeSize
    <3>. QED
      BY <1>0, <2>1, <3>1, <3>3
  <2>5. ASSUME ~aligned, aligned'
        PROVE  /\ cfg.window <= shared'
               /\ \A s, t \in Stream : streams'[s].size = streams'[t].size
    BY <1>0, <2>1, <2>5
  <2>6. ShortMask' = ShortMask
    BY <2>1 DEF ShortMask, Modulus
  <2>7. AllAligned'
    BY <2>1, <2>4, <2>5, <2>6 DEF AllAligned
  <2>. QED
    BY <2>3, <2>7
<1>4. ASSUME EndOfStreams
      PROVE  AllAlike' /\ AllAligned'
  <2>1. /\ shared' = shared /\ cfg' = cfg /\ ended' = TRUE /\ ended = FALSE
        /\ aligned' = aligned
        /\ \A s \in Stream : streams'[s] = Finished(streams[s])
    BY <1>0, <1>4 DEF EndOfStreams
  <2>2. \A s \in Stream : streams'[s].data = streams[s].data
    BY <1>0, <2>1, FinishedFields
  <2>3. AllAlike'
    <3>1. ASSUME NEW s \in Stream, NEW t \in Stream
          PROVE  Alike(streams'[s], streams'[t], shared')
      <4>1. Alike(streams[s], streams[t], shared)
        BY <1>0
      <4>. QED
        BY <2>1, <2>2, <4>1 DEF Alike
    <3>. QED
      BY <3>1 DEF AllAlike
  <2>. QED
    BY <2>1, <2>3 DEF ShiftInv, AllAligned, ShortMask, Modulus
<1>5. ASSUME UNCHANGED chunkVars
      PROVE  AllAlike' /\ AllAligned'
  <2>1. AllAlike /\ AllAligned
    BY DEF ShiftInv
  <2>2. AllAlike'
    BY <1>5, <2>1 DEF chunkVars, AllAlike, Alike
  <2>3. AllAligned'
    BY <1>5, <2>1 DEF chunkVars, AllAligned, ShortMask, Modulus
  <2>. QED
    BY <2>2, <2>3
<1>. QED
  BY <1>1, <1>2, <1>3, <1>4, <1>5 DEF ChunkingNext, ShiftInv

\* chunking.py is shift-resilient under the same condition, for any streams: a window
\* after an edit the bytes alone say where a chunk may end, and from the first common
\* cut on the streams are cut alike.
THEOREM ShiftsResilient == ChunkingSpec => [](ShortMask => ShiftResilient)
<1>1. ChunkingInit => ShiftInv
  BY ShiftInit
<1>2. ShiftInv /\ [ChunkingNext]_chunkVars => ShiftInv'
  BY ShiftStep
<1>3. ShiftInv => (ShortMask => ShiftResilient)
  <2>1. SUFFICES ASSUME ShiftInv, ShortMask
                 PROVE  ShiftResilient
    OBVIOUS
  <2>2. ASSUME cfg.chunker # "fixed", shared >= cfg.window, NEW s \in Stream, NEW t \in Stream
        PROVE  streams[s].hash = streams[t].hash
    <3>1. /\ Forgetful /\ shared \in Nat /\ cfg.window <= shared
          /\ Shape(streams[s]) /\ Rolls(streams[s]) /\ Shape(streams[t]) /\ Rolls(streams[t])
          /\ Alike(streams[s], streams[t], shared)
      BY <2>1, <2>2, ShortIsForgetful, ChunkingAssumption
         DEF ShiftInv, RollInv, ChunkInv, RollsStay, AllAlike
    <3>. QED
      BY <3>1, AlikeHash
  <2>3. aligned /\ ~ended => \A s, t \in Stream : streams[s].size = streams[t].size
    BY <2>1 DEF ShiftInv, AllAligned
  <2>. QED
    BY <2>2, <2>3 DEF ShiftResilient
<1>. QED
  BY <1>1, <1>2, <1>3, PTL DEF ChunkingSpec
=============================================================================
