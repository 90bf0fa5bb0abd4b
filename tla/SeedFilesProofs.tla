--------------------------- MODULE SeedFilesProofs ---------------------------
(***************************************************************************)
(* What reading a seed file returns, and what a signature in it means, for *)
(* any seeds, keys, paths and processes and however often files decay, are *)
(* edited or written over.                                                 *)
(***************************************************************************)
EXTENDS SeedFiles, SequenceTheorems, TLAPS

-----------------------------------------------------------------------------
(* Sequences, whatever they are sequences of.                               *)

IsSeq(q) == \E S : q \in Seq(S)

LEMMA SeqIs ==
    ASSUME NEW q, IsSeq(q)
    PROVE  /\ Len(q) \in Nat /\ DOMAIN q = 1..Len(q)
           /\ q = [i \in 1..Len(q) |-> q[i]]
  <1>1. PICK S : q \in Seq(S)
    BY DEF IsSeq
  <1> QED
    BY <1>1

LEMMA SeqOver ==
    ASSUME NEW q, IsSeq(q), NEW x
    PROVE  \E S : q \in Seq(S) /\ x \in S
  <1>1. PICK S : q \in Seq(S)
    BY DEF IsSeq
  <1>2. q \in Seq(S \union {x})
    BY <1>1
  <1> QED
    BY <1>2

LEMMA SeqBoth ==
    ASSUME NEW q, IsSeq(q), NEW r, IsSeq(r)
    PROVE  \E S : q \in Seq(S) /\ r \in Seq(S)
  <1>1. PICK S : q \in Seq(S)
    BY DEF IsSeq
  <1>2. PICK T : r \in Seq(T)
    BY DEF IsSeq
  <1>3. q \in Seq(S \union T) /\ r \in Seq(S \union T)
    BY <1>1, <1>2
  <1> QED
    BY <1>3

LEMMA SeqSame ==
    ASSUME NEW q, IsSeq(q), NEW r, IsSeq(r), Len(q) = Len(r),
           \A i \in 1..Len(q) : q[i] = r[i]
    PROVE  q = r
  <1>1. q = [i \in 1..Len(q) |-> q[i]] /\ r = [i \in 1..Len(r) |-> r[i]]
    BY SeqIs
  <1>2. [i \in 1..Len(q) |-> q[i]] = [i \in 1..Len(r) |-> r[i]]
    OBVIOUS
  <1> QED
    BY <1>1, <1>2

LEMMA SeqAppend ==
    ASSUME NEW q, IsSeq(q), NEW x
    PROVE  /\ IsSeq(Append(q, x)) /\ Len(Append(q, x)) = Len(q) + 1
           /\ \A i \in 1..Len(q) : Append(q, x)[i] = q[i]
           /\ Append(q, x)[Len(q) + 1] = x
  <1>1. PICK S : q \in Seq(S) /\ x \in S
    BY SeqOver
  <1>2. Append(q, x) \in Seq(S)
    BY <1>1
  <1> QED
    BY <1>1, <1>2 DEF IsSeq

LEMMA SeqConcat ==
    ASSUME NEW q, IsSeq(q), NEW r, IsSeq(r)
    PROVE  /\ IsSeq(q \o r) /\ Len(q \o r) = Len(q) + Len(r)
           /\ \A i \in 1..Len(q) : (q \o r)[i] = q[i]
           /\ \A i \in 1..Len(r) : (q \o r)[Len(q) + i] = r[i]
  <1>1. PICK S : q \in Seq(S) /\ r \in Seq(S)
    BY SeqBoth
  <1>2. q \o r \in Seq(S) /\ Len(q \o r) = Len(q) + Len(r)
    BY <1>1
  <1>3. \A i \in 1..Len(q) + Len(r) :
            (q \o r)[i] = IF i <= Len(q) THEN q[i] ELSE r[i - Len(q)]
    BY <1>1, ConcatProperties
  <1>4. Len(q) \in Nat /\ Len(r) \in Nat
    BY SeqIs
  <1> QED
    BY <1>2, <1>3, <1>4 DEF IsSeq

LEMMA SeqSub ==
    ASSUME NEW q, IsSeq(q), NEW m \in 1..Len(q) + 1, NEW n \in m - 1..Len(q)
    PROVE  /\ IsSeq(SubSeq(q, m, n)) /\ Len(SubSeq(q, m, n)) = n - m + 1
           /\ \A i \in 1..n - m + 1 : SubSeq(q, m, n)[i] = q[m + i - 1]
  <1>1. PICK S : q \in Seq(S)
    BY DEF IsSeq
  <1>2. /\ SubSeq(q, m, n) \in Seq(S) /\ Len(SubSeq(q, m, n)) = n - m + 1
        /\ \A i \in 1..n - m + 1 : SubSeq(q, m, n)[i] = q[m + i - 1]
    BY <1>1, SubSeqProperties
  <1> QED
    BY <1>2 DEF IsSeq

LEMMA SeqExcept ==
    ASSUME NEW q, IsSeq(q), NEW i \in 1..Len(q), NEW x
    PROVE  /\ IsSeq([q EXCEPT ![i] = x]) /\ Len([q EXCEPT ![i] = x]) = Len(q)
           /\ [q EXCEPT ![i] = x][i] = x
           /\ \A j \in 1..Len(q) : j # i => [q EXCEPT ![i] = x][j] = q[j]
  <1>1. PICK S : q \in Seq(S) /\ x \in S
    BY SeqOver
  <1>2. [q EXCEPT ![i] = x] \in Seq(S) /\ Len([q EXCEPT ![i] = x]) = Len(q)
    BY <1>1
  <1> QED
    BY <1>1, <1>2 DEF IsSeq

-----------------------------------------------------------------------------
(* Sections.                                                                *)

\* Sections of type t are the same ones, at the same places.
SameOf(F, G, t) ==
    /\ \A i \in DOMAIN F.sections : F.sections[i].type = t =>
           i \in DOMAIN G.sections /\ G.sections[i] = F.sections[i]
    /\ \A i \in DOMAIN G.sections : G.sections[i].type = t =>
           i \in DOMAIN F.sections /\ G.sections[i] = F.sections[i]

Kinds == {"manifest", "recipe", "raw", "signature"}
Alike(F, G) == \A t \in Kinds : SameOf(F, G, t)

One(q) ==
    \A i, j \in DOMAIN q : q[i].type = "integrity" /\ q[j].type = "integrity" => i = j

\* The file that ends where the data of a digest of the whole end.
Leading(data) == Plain(data.count, data.sections)

LEMMA StartIs ==
    ASSUME NEW F, IsSeq(F.sections), NEW t, NEW i, IsLast(F, t, i)
    PROVE  Has(F, t) /\ Start(F, t) = i /\ Payload(F, t) = F.sections[i].body
  <1>1. \A j \in DOMAIN F.sections : IsLast(F, t, j) => j = i
    BY SeqIs DEF IsLast
  <1>2. Start(F, t) = i
    BY <1>1 DEF Start, IsLast
  <1> QED
    BY <1>2 DEF Has, Payload, IsLast

LEMMA StartLast ==
    ASSUME NEW F, IsSeq(F.sections), NEW t, Has(F, t)
    PROVE  /\ IsLast(F, t, Start(F, t)) /\ Start(F, t) \in 1..Len(F.sections)
           /\ F.sections[Start(F, t)].type = t
  <1>1. PICK i \in DOMAIN F.sections : IsLast(F, t, i)
    BY DEF Has
  <1>2. Start(F, t) = i
    BY <1>1, StartIs
  <1> QED
    BY <1>1, <1>2, SeqIs DEF IsLast

LEMMA SameStart ==
    ASSUME NEW F, IsSeq(F.sections), NEW G, IsSeq(G.sections), NEW t, SameOf(F, G, t)
    PROVE  /\ Has(F, t) <=> Has(G, t)
           /\ Has(F, t) => Start(F, t) = Start(G, t) /\ Payload(F, t) = Payload(G, t)
  <1>1. \A i : IsLast(F, t, i) <=> IsLast(G, t, i)
    BY SeqIs DEF IsLast, SameOf
  <1>2. Has(F, t) <=> Has(G, t)
    BY <1>1 DEF Has, IsLast
  <1>3. ASSUME Has(F, t)
        PROVE  Start(F, t) = Start(G, t) /\ Payload(F, t) = Payload(G, t)
    <2>1. IsLast(F, t, Start(F, t))
      BY <1>3, StartLast
    <2>2. IsLast(G, t, Start(F, t))
      BY <1>1, <2>1
    <2>3. Start(G, t) = Start(F, t)
      BY <2>2, StartIs
    <2>4. F.sections[Start(F, t)] = G.sections[Start(F, t)]
      BY <2>1 DEF IsLast, SameOf
    <2> QED
      BY <2>3, <2>4 DEF Payload
  <1> QED
    BY <1>2, <1>3

\* What parse_seed decodes depends on the sections of those four types alone.
LEMMA AlikeDecode ==
    ASSUME NEW F, IsSeq(F.sections), NEW G, IsSeq(G.sections), Alike(F, G)
    PROVE  /\ Decodes(F) <=> Decodes(G)
           /\ Has(F, "manifest") /\ Has(F, "recipe") => SeedIn(F) = SeedIn(G)
  <1>1. \A t \in Kinds : /\ Has(F, t) <=> Has(G, t)
                         /\ Has(F, t) => Payload(F, t) = Payload(G, t)
    BY SameStart DEF Alike
  <1>2. {"manifest", "recipe", "raw", "signature"} = Kinds
    BY DEF Kinds
  <1> QED
    BY <1>1, <1>2 DEF Decodes, SeedIn

\* Where the integrity section is the last and only one of its type, the file
\* without it says the same.
LEMMA HeadAlike ==
    ASSUME NEW F, IsSeq(F.sections), Len(F.sections) > 0, NEW c,
           F.sections[Len(F.sections)].type = "integrity"
    PROVE  LET G == Plain(c, SubSeq(F.sections, 1, Len(F.sections) - 1))
           IN  IsSeq(G.sections) /\ Len(G.sections) = Len(F.sections) - 1 /\ Alike(F, G)
  <1> DEFINE q == SubSeq(F.sections, 1, Len(F.sections) - 1)
  <1>1. Len(F.sections) \in Nat /\ DOMAIN F.sections = 1..Len(F.sections)
    BY SeqIs
  <1>2. /\ IsSeq(q) /\ Len(q) = Len(F.sections) - 1
        /\ \A i \in 1..Len(F.sections) - 1 : q[i] = F.sections[i]
    BY <1>1, SeqSub, 1 \in 1..Len(F.sections) + 1, Len(F.sections) - 1 \in 0..Len(F.sections)
  <1>3. DOMAIN q = 1..Len(F.sections) - 1
    BY <1>2, SeqIs
  <1>4. Alike(F, Plain(c, q))
    BY <1>1, <1>2, <1>3 DEF Alike, SameOf, Kinds, Plain
  <1> QED
    BY <1>2, <1>4 DEF Plain

-----------------------------------------------------------------------------
(* Seeds that serialize_seed writes and parse_seed returns.                 *)

Wellformed(s) ==
    /\ s = [manifest |-> s.manifest, raw |-> s.raw,
            recipe |-> [table |-> s.recipe.table, ops |-> s.recipe.ops]]
    /\ IsSeq(s.recipe.table) /\ IsSeq(s.recipe.ops)
    /\ \A i \in DOMAIN s.recipe.ops : OpDecodes(s.recipe.ops[i], Len(s.recipe.table))

Fits(s) == \A i \in DOMAIN s.raw : s.raw[i] \notin Oversize

\* What was put together comes apart again.
LEMMA Unconcat ==
    ASSUME NEW q, IsSeq(q), NEW r, IsSeq(r), NEW c, IsSeq(c), Len(c) = Len(q) + Len(r),
           \A i \in 1..Len(q) : c[i] = q[i],
           \A i \in 1..Len(r) : c[Len(q) + i] = r[i]
    PROVE  SubSeq(c, 1, Len(q)) = q /\ SubSeq(c, Len(q) + 1, Len(q) + Len(r)) = r
  <1>1. Len(q) \in Nat /\ Len(r) \in Nat
    BY SeqIs
  <1>2. SubSeq(c, 1, Len(q)) = q
    <2>1. 1 \in 1..Len(c) + 1 /\ Len(q) \in 1 - 1..Len(c) /\ Len(q) - 1 + 1 = Len(q)
      BY <1>1
    <2>2. /\ IsSeq(SubSeq(c, 1, Len(q))) /\ Len(SubSeq(c, 1, Len(q))) = Len(q)
          /\ \A i \in 1..Len(q) : SubSeq(c, 1, Len(q))[i] = c[1 + i - 1]
      BY ONLY IsSeq(c), <2>1, SeqSub
    <2>3. \A i \in 1..Len(q) : 1 + i - 1 = i
      BY <1>1
    <2> QED
      BY <2>2, <2>3, SeqSame
  <1>3. SubSeq(c, Len(q) + 1, Len(q) + Len(r)) = r
    <2> DEFINE m == Len(q) + 1  n == Len(q) + Len(r)
    <2>1. m \in 1..Len(c) + 1 /\ n \in m - 1..Len(c) /\ n - m + 1 = Len(r)
          /\ \A i \in 1..Len(r) : m + i - 1 = Len(q) + i
      BY <1>1
    <2> HIDE DEF m, n
    <2>2. /\ IsSeq(SubSeq(c, m, n)) /\ Len(SubSeq(c, m, n)) = Len(r)
          /\ \A i \in 1..Len(r) : SubSeq(c, m, n)[i] = c[m + i - 1]
      BY ONLY IsSeq(c), <2>1, SeqSub
    <2> DEFINE d == SubSeq(c, m, n)
    <2>3. \A i \in 1..Len(r) : c[m + i - 1] = r[i]
      BY <2>1
    <2>4. IsSeq(d) /\ Len(d) = Len(r) /\ \A i \in 1..Len(d) : d[i] = r[i]
      BY <2>2, <2>3
    <2> HIDE DEF d
    <2>5. d = r
      BY ONLY IsSeq(r), <2>4, SeqSame
    <2> QED
      BY <2>5 DEF m, n, d
  <1> QED
    BY <1>2, <1>3

\* decode_recipe undoes encode_recipe.
LEMMA RecipeRoundTrip ==
    ASSUME NEW s, Wellformed(s)
    PROVE  RecipeDecodes(RecipeBody(s.recipe)) /\ DecodeRecipe(RecipeBody(s.recipe)) = s.recipe
  <1> DEFINE table == s.recipe.table  ops == s.recipe.ops  cells == table \o ops
             h == Len(table)  n == Len(ops)  b == RecipeBody(s.recipe)
  <1>1. /\ IsSeq(table) /\ IsSeq(ops) /\ s.recipe = [table |-> table, ops |-> ops]
        /\ \A i \in DOMAIN ops : OpDecodes(ops[i], h)
    BY DEF Wellformed
  <1>2. b.form = "recipe" /\ b.ops = n /\ b.hashes = h /\ b.cells = cells
    BY DEF RecipeBody
  <1> HIDE DEF table, ops, b
  <1>3. h \in Nat /\ n \in Nat /\ DOMAIN ops = 1..n
    BY <1>1, SeqIs
  <1>4. /\ IsSeq(cells) /\ Len(cells) = h + n
        /\ \A i \in 1..h : cells[i] = table[i]
        /\ \A i \in 1..n : cells[h + i] = ops[i]
    BY ONLY <1>1, SeqConcat
  <1> HIDE DEF cells
  <1>5. SubSeq(cells, 1, h) = table /\ SubSeq(cells, h + 1, h + n) = ops
    BY ONLY <1>1, <1>4, Unconcat
  <1> HIDE DEF h, n
  <1>6. RecipeDecodes(b)
    BY <1>1, <1>2, <1>3, <1>4 DEF RecipeDecodes
  <1>7. DecodeRecipe(b) = s.recipe
    BY <1>1, <1>2, <1>5 DEF DecodeRecipe
  <1> QED
    BY <1>6, <1>7 DEF b

\* A recipe that decodes is one.
LEMMA RecipeParsed ==
    ASSUME NEW b, RecipeDecodes(b), IsSeq(b.cells), b.hashes \in Nat, b.ops \in Nat
    PROVE  LET r == DecodeRecipe(b)
           IN  /\ IsSeq(r.table) /\ IsSeq(r.ops) /\ r = [table |-> r.table, ops |-> r.ops]
               /\ \A i \in DOMAIN r.ops : OpDecodes(r.ops[i], Len(r.table))
  <1> DEFINE c == b.cells  h == b.hashes  n == b.ops
             table == SubSeq(c, 1, h)  ops == SubSeq(c, h + 1, h + n)
  <1>1. Len(c) = h + n /\ \A i \in 1..n : OpDecodes(c[h + i], h)
    BY DEF RecipeDecodes
  <1>2. IsSeq(table) /\ Len(table) = h
    <2>1. 1 \in 1..Len(c) + 1 /\ h \in 1 - 1..Len(c) /\ h - 1 + 1 = h
      BY <1>1
    <2> QED
      BY <2>1, SeqSub
  <1>3. IsSeq(ops) /\ Len(ops) = n /\ \A i \in 1..n : ops[i] = c[h + i]
    <2>1. h + 1 \in 1..Len(c) + 1 /\ h + n \in (h + 1) - 1..Len(c)
      BY <1>1
    <2>2. /\ IsSeq(ops) /\ Len(ops) = (h + n) - (h + 1) + 1
          /\ \A i \in 1..(h + n) - (h + 1) + 1 : ops[i] = c[(h + 1) + i - 1]
      BY <2>1, SeqSub
    <2>3. (h + n) - (h + 1) + 1 = n /\ \A i \in 1..n : (h + 1) + i - 1 = h + i
      OBVIOUS
    <2> QED
      BY <2>2, <2>3
  <1>4. DOMAIN ops = 1..n
    BY <1>3, SeqIs
  <1>5. DecodeRecipe(b) = [table |-> table, ops |-> ops]
    BY DEF DecodeRecipe
  <1> HIDE DEF table, ops
  <1> QED
    BY <1>1, <1>2, <1>3, <1>4, <1>5

\* The content of a seed is its first two or three sections.
LEMMA ContentShape ==
    ASSUME NEW s, NEW z
    PROVE  LET q == ContentSections(s, z)
               n == IF s.raw = <<>> THEN 2 ELSE 3
           IN  /\ IsSeq(q) /\ Len(q) = n
               /\ q[1] = Section("manifest", ManifestBody(s.manifest, z))
               /\ q[2] = Section("recipe", RecipeBody(s.recipe))
               /\ s.raw # <<>> => q[3] = Section("raw", RawBody(s.raw))
  <1> DEFINE a == Section("manifest", ManifestBody(s.manifest, z))
             b == Section("recipe", RecipeBody(s.recipe))
             c == Section("raw", RawBody(s.raw))
  <1> HIDE DEF a, b, c
  <1>1. /\ <<a, b>> \in Seq({a, b, c}) /\ Len(<<a, b>>) = 2
        /\ <<a, b>>[1] = a /\ <<a, b>>[2] = b
    OBVIOUS
  <1>2. CASE s.raw = <<>>
    <2>1. ContentSections(s, z) = <<a, b>> \o <<>>
      BY <1>2 DEF ContentSections, a, b
    <2>2. ContentSections(s, z) = <<a, b>>
      BY <2>1, <1>1, ConcatEmptySeq
    <2> QED
      BY <1>1, <1>2, <2>2 DEF IsSeq, a, b, c
  <1>3. CASE s.raw # <<>>
    <2> DEFINE q == ContentSections(s, z)  u == <<a, b>>  v == <<c>>
    <2>1. q = u \o v
      BY <1>3 DEF ContentSections, a, b, c
    <2>2. v \in Seq({a, b, c}) /\ Len(v) = 1 /\ v[1] = c
      OBVIOUS
    <2>3. IsSeq(u) /\ IsSeq(v)
      BY <1>1, <2>2 DEF IsSeq
    <2>4. Len(u) = 2 /\ u[1] = a /\ u[2] = b
      BY <1>1
    <2> HIDE DEF q, u, v
    <2>5. /\ IsSeq(u \o v) /\ Len(u \o v) = Len(u) + Len(v)
          /\ \A i \in 1..Len(u) : (u \o v)[i] = u[i]
          /\ \A i \in 1..Len(v) : (u \o v)[Len(u) + i] = v[i]
      BY ONLY <2>3, SeqConcat
    <2>6. IsSeq(q) /\ Len(q) = 3 /\ q[1] = a /\ q[2] = b /\ q[3] = c
      BY <2>1, <2>2, <2>4, <2>5
    <2>7. (IF s.raw = <<>> THEN 2 ELSE 3) = 3
      BY <1>3
    <2>8. /\ IsSeq(q) /\ Len(q) = (IF s.raw = <<>> THEN 2 ELSE 3)
          /\ q[1] = a /\ q[2] = b /\ (s.raw # <<>> => q[3] = c)
      BY ONLY <2>6, <2>7
    <2> QED
      BY ONLY <2>8 DEF q, a, b, c
  <1> QED
    BY <1>2, <1>3

LEMMA Places ==
    ASSUME NEW n \in {2, 3}, NEW m \in {n, n + 1}
    PROVE  /\ {1, 2} \subseteq 1..m /\ (n = 3 => 3 \in 1..m)
           /\ \A i \in 1..m : i = 1 \/ i = 2 \/ (i = 3 /\ n = 3) \/ (i = n + 1 /\ m = n + 1)
  <1>1. n \in Nat /\ m \in Nat /\ (n = 2 \/ n = 3) /\ (m = n \/ m = n + 1)
    OBVIOUS
  <1>2. \A i \in 1..m : i \in Nat /\ 1 <= i /\ i <= m
    BY <1>1
  <1> QED
    BY ONLY <1>1, <1>2

\* q holds the content of s, n sections, and perhaps a signature behind it.
Follows(s, z, q, n) ==
    /\ n = Len(ContentSections(s, z)) /\ Len(q) \in {n, n + 1}
    /\ \A i \in 1..n : q[i] = ContentSections(s, z)[i]
    /\ Len(q) = n + 1 => q[n + 1].type = "signature" /\ q[n + 1].body.form = "signature"

\* A file whose sections are the content of a seed, with or without a signature
\* behind them, reads as that seed.
LEMMA ContentReads ==
    ASSUME NEW s, Wellformed(s), NEW z, NEW F, IsSeq(F.sections),
           NEW n, Follows(s, z, F.sections, n)
    PROVE  /\ Has(F, "manifest") /\ Payload(F, "manifest") = ManifestBody(s.manifest, z)
           /\ Has(F, "recipe") /\ SeedIn(F) = s
           /\ z \in Compression /\ Fits(s) => Decodes(F)
  <1> DEFINE C == ContentSections(s, z)
  <1> USE DEF Follows
  <1>1. /\ n \in {2, 3} /\ n = IF s.raw = <<>> THEN 2 ELSE 3
        /\ C[1] = Section("manifest", ManifestBody(s.manifest, z))
        /\ C[2] = Section("recipe", RecipeBody(s.recipe))
        /\ s.raw # <<>> => C[3] = Section("raw", RawBody(s.raw))
    BY ContentShape
  <1>2. /\ F.sections[1] = Section("manifest", ManifestBody(s.manifest, z))
        /\ F.sections[2] = Section("recipe", RecipeBody(s.recipe))
        /\ s.raw # <<>> => F.sections[3] = Section("raw", RawBody(s.raw))
    BY <1>1
  <1> HIDE DEF C
  <1>3. DOMAIN F.sections = 1..Len(F.sections) /\ Len(F.sections) \in {n, n + 1}
    BY SeqIs
  <1>4. /\ 1 \in DOMAIN F.sections /\ F.sections[1].type = "manifest"
        /\ 2 \in DOMAIN F.sections /\ F.sections[2].type = "recipe"
        /\ s.raw # <<>> => 3 \in DOMAIN F.sections /\ F.sections[3].type = "raw"
        /\ \A i \in DOMAIN F.sections :
               \/ i = 1 \/ i = 2 \/ (i = 3 /\ s.raw # <<>>)
               \/ i = n + 1 /\ F.sections[i].type = "signature"
                  /\ F.sections[i].body.form = "signature"
    <2>1. /\ F.sections[1].type = "manifest" /\ F.sections[2].type = "recipe"
          /\ s.raw # <<>> => F.sections[3].type = "raw"
      BY <1>2 DEF Section
    <2>2. /\ {1, 2} \subseteq 1..Len(F.sections) /\ (n = 3 => 3 \in 1..Len(F.sections))
          /\ \A i \in 1..Len(F.sections) :
                 i = 1 \/ i = 2 \/ (i = 3 /\ n = 3) \/ (i = n + 1 /\ Len(F.sections) = n + 1)
      BY ONLY <1>1, <1>3, Places
    <2>3. n = 3 <=> s.raw # <<>>
      BY <1>1
    <2> QED
      BY <2>1, <2>2, <2>3, <1>3
  <1>5. /\ Has(F, "manifest") /\ Payload(F, "manifest") = ManifestBody(s.manifest, z)
        /\ Has(F, "recipe") /\ Payload(F, "recipe") = RecipeBody(s.recipe)
    <2>1. IsLast(F, "manifest", 1) /\ IsLast(F, "recipe", 2)
      BY <1>4 DEF IsLast
    <2>2. Has(F, "manifest") /\ Payload(F, "manifest") = F.sections[1].body
      BY <2>1, StartIs
    <2>3. Has(F, "recipe") /\ Payload(F, "recipe") = F.sections[2].body
      BY <2>1, StartIs
    <2> QED
      BY <1>2, <2>2, <2>3 DEF Section
  <1>6. /\ Has(F, "raw") <=> s.raw # <<>>
        /\ Has(F, "raw") => Payload(F, "raw") = RawBody(s.raw)
    <2>1. CASE s.raw = <<>>
      BY <2>1, <1>4 DEF Has, IsLast
    <2>2. CASE s.raw # <<>>
      <3>1. IsLast(F, "raw", 3)
        BY <2>2, <1>4 DEF IsLast
      <3>2. Has(F, "raw") /\ Payload(F, "raw") = F.sections[3].body
        BY <3>1, StartIs
      <3> QED
        BY <2>2, <3>2, <1>2 DEF Section
    <2> QED
      BY <2>1, <2>2
  <1>7. Has(F, "signature") => Payload(F, "signature").form = "signature"
    <2>1. ASSUME Has(F, "signature")
          PROVE  Payload(F, "signature").form = "signature"
      <3>1. /\ Start(F, "signature") \in DOMAIN F.sections
            /\ F.sections[Start(F, "signature")].type = "signature"
        BY <2>1, StartLast, <1>3
      <3>2. F.sections[Start(F, "signature")].body.form = "signature"
        BY <3>1, <1>4
      <3> QED
        BY <3>2 DEF Payload
    <2> QED
      BY <2>1
  <1>8. SeedIn(F) = s
    <2>1. DecodeRecipe(RecipeBody(s.recipe)) = s.recipe
      BY RecipeRoundTrip
    <2>2. (IF Has(F, "raw") THEN Payload(F, "raw").entries ELSE <<>>) = s.raw
      BY <1>6 DEF RawBody
    <2>3. s = [manifest |-> s.manifest, recipe |-> s.recipe, raw |-> s.raw]
      BY DEF Wellformed
    <2>4. Payload(F, "manifest").json = s.manifest
      BY <1>5 DEF ManifestBody
    <2> QED
      BY <2>1, <2>2, <2>3, <2>4, <1>5 DEF SeedIn
  <1>9. z \in Compression /\ Fits(s) => Decodes(F)
    <2> SUFFICES ASSUME z \in Compression, Fits(s) PROVE Decodes(F)
      OBVIOUS
    <2>1. ManifestDecodes(ManifestBody(s.manifest, z))
      BY DEF ManifestDecodes, ManifestBody
    <2>2. RawDecodes(RawBody(s.raw))
      BY DEF RawDecodes, RawBody, Fits
    <2> QED
      BY <2>1, <2>2, <1>5, <1>6, <1>7, RecipeRoundTrip DEF Decodes
  <1> QED
    BY <1>5, <1>8, <1>9

\* Digests of the data themselves are found to agree.
LEMMA SumsFit ==
    ASSUME NEW F, IsSeq(F.sections), NEW g, IsLast(F, "integrity", g), NEW sums,
           F.sections[g].body = [form |-> "integrity", crc |-> sums, sha |-> sums],
           Mandatory \subseteq DOMAIN sums,
           \A d \in DOMAIN sums : sums[d] = Digested(F, d, Before(F, g)),
           Has(F, "signature") => Start(F, "signature") < g
    PROVE  Has(F, "integrity") /\ IntegrityHolds(F)
  <1>1. Has(F, "integrity") /\ Start(F, "integrity") = g
    BY StartIs
  <1> DEFINE b == [form |-> "integrity", crc |-> sums, sha |-> sums]
  <1>2. b.form = "integrity" /\ b.crc = sums /\ b.sha = sums
    OBVIOUS
  <1> HIDE DEF b
  <1>3. SumsAgree(F, b, Before(F, g))
    BY <1>2 DEF SumsAgree
  <1> QED
    BY <1>1, <1>2, <1>3 DEF IntegrityHolds, b

-----------------------------------------------------------------------------
(* Files that serialize_seed closes.                                        *)

LEMMA SeqWhole ==
    ASSUME NEW q, IsSeq(q)
    PROVE  SubSeq(q, 1, Len(q)) = q
  <1> DEFINE w == SubSeq(q, 1, Len(q))
  <1>1. Len(q) \in Nat /\ 1 \in 1..Len(q) + 1 /\ Len(q) \in 1 - 1..Len(q) /\ Len(q) - 1 + 1 = Len(q)
    BY SeqIs
  <1>2. IsSeq(w) /\ Len(w) = Len(q) /\ \A i \in 1..Len(q) : w[i] = q[1 + i - 1]
    BY <1>1, SeqSub
  <1>3. \A i \in 1..Len(q) : 1 + i - 1 = i
    BY <1>1
  <1>4. \A i \in 1..Len(w) : w[i] = q[i]
    BY <1>2, <1>3
  <1> HIDE DEF w
  <1>5. w = q
    BY <1>2, <1>4, SeqSame
  <1> QED
    BY <1>5 DEF w

\* The data under the signature of a seed, and the sections before the last.
SignedContent(s, z) ==
    [count |-> Len(ContentSections(s, z)) + 2, sections |-> ContentSections(s, z)]

Leaders(s, z, k) ==
    IF k = NoKey THEN ContentSections(s, z)
    ELSE Append(ContentSections(s, z),
                Section("signature", SignatureBody(k, SignedContent(s, z))))

LEMMA LeadersShape ==
    ASSUME NEW s, NEW z, NEW k
    PROVE  LET q == Leaders(s, z, k)  C == ContentSections(s, z)  n == Len(C)
           IN  /\ IsSeq(q) /\ n \in {2, 3} /\ Len(q) = n + ExtraSections(k) - 1
               /\ Len(q) = IF k = NoKey THEN n ELSE n + 1
               /\ \A i \in 1..n : q[i] = C[i]
               /\ k # NoKey => q[n + 1] = Section("signature", SignatureBody(k, SignedContent(s, z)))
               /\ \A i \in DOMAIN q : q[i].type # "integrity"
  <1> DEFINE q == Leaders(s, z, k)  C == ContentSections(s, z)  n == Len(C)
             sig == Section("signature", SignatureBody(k, SignedContent(s, z)))
  <1>1. IsSeq(C) /\ n \in {2, 3} /\ \A i \in 1..n : C[i].type # "integrity"
    <2>1. /\ IsSeq(C) /\ n = IF s.raw = <<>> THEN 2 ELSE 3
          /\ C[1] = Section("manifest", ManifestBody(s.manifest, z))
          /\ C[2] = Section("recipe", RecipeBody(s.recipe))
          /\ s.raw # <<>> => C[3] = Section("raw", RawBody(s.raw))
      BY ContentShape
    <2> HIDE DEF C
    <2>2. /\ IsSeq(C) /\ n = IF s.raw = <<>> THEN 2 ELSE 3
          /\ C[1].type = "manifest" /\ C[2].type = "recipe"
          /\ s.raw # <<>> => C[3].type = "raw"
      BY <2>1 DEF Section
    <2>3. CASE s.raw = <<>>
      <3>1. 1..n = {1, 2}
        BY <2>2, <2>3
      <3> QED
        BY <2>2, <2>3, <3>1
    <2>4. CASE s.raw # <<>>
      <3>1. 1..n = {1, 2, 3}
        BY <2>2, <2>4
      <3> QED
        BY <2>2, <2>4, <3>1
    <2> QED
      BY <2>3, <2>4
  <1> HIDE DEF C
  <1>2. CASE k = NoKey
    <2>1. q = C /\ ExtraSections(k) = 1
      BY <1>2 DEF Leaders, ExtraSections, C
    <2>2. DOMAIN C = 1..n
      BY <1>1, SeqIs
    <2> QED
      BY <2>1, <1>1, <1>2, <2>2 DEF C
  <1>3. CASE k # NoKey
    <2>1. q = Append(C, sig) /\ ExtraSections(k) = 2
      BY <1>3 DEF Leaders, ExtraSections, C
    <2> HIDE DEF sig, q
    <2>2. /\ IsSeq(Append(C, sig)) /\ Len(Append(C, sig)) = n + 1
          /\ \A i \in 1..n : Append(C, sig)[i] = C[i]
          /\ Append(C, sig)[n + 1] = sig
      BY ONLY <1>1, SeqAppend
    <2>3. /\ IsSeq(q) /\ Len(q) = n + 1 /\ q[n + 1] = sig
          /\ \A i \in 1..n : q[i] = C[i]
      BY <2>1, <2>2
    <2>4. sig.type = "signature"
      BY DEF sig, Section
    <2>5. DOMAIN q = 1..n + 1 /\ n \in Nat /\ n + 1 = n + 2 - 1
      BY <2>3, <1>1, SeqIs
    <2>6. \A i \in DOMAIN q : i \in 1..n \/ i = n + 1
      BY <2>5
    <2>7. \A i \in DOMAIN q : q[i].type # "integrity"
      BY <2>3, <2>4, <2>6, <1>1
    <2> QED
      BY <2>1, <2>3, <2>5, <2>7, <1>1, <1>3 DEF C, q, sig
  <1> QED
    BY <1>2, <1>3

LEMMA SerializeIs ==
    ASSUME NEW s, NEW z, NEW k
    PROVE  LET q == Leaders(s, z, k)
           IN  Serialize(s, z, k) = Closed(Plain(Len(q) + 1, q))
  <1> DEFINE q == Leaders(s, z, k)  C == ContentSections(s, z)  n == Len(C)
             G == Plain(n + ExtraSections(k), C)
  <1>1. IsSeq(C) /\ n \in {2, 3}
    BY ContentShape
  <1>2. Unsigned(s, z, k) = G
    BY DEF Unsigned
  <1>3. Len(q) + 1 = n + ExtraSections(k)
    BY LeadersShape DEF ExtraSections
  <1>4. k # NoKey => SignedData(G, n + 1) = SignedContent(s, z)
    <2>1. SubSeq(C, 1, n) = C
      BY <1>1, SeqWhole
    <2>2. n + 1 - 1 = n
      BY <1>1
    <2> QED
      BY <2>1, <2>2 DEF SignedData, Before, SignedContent, Plain, ExtraSections
  <1>5. ASSUME NEW x
        PROVE  [G EXCEPT !.sections = Append(@, x)] = Plain(n + ExtraSections(k), Append(C, x))
    BY DEF Plain
  <1> HIDE DEF G, n
  <1>6. Serialize(s, z, k) =
            Closed(IF k = NoKey THEN G
                   ELSE [G EXCEPT !.sections =
                            Append(@, Section("signature", SignatureBody(k, SignedData(G, n + 1))))])
    <2>1. Len(G.sections) = n
      BY DEF G, n, Plain
    <2> QED
      BY <1>2, <2>1 DEF Serialize
  <1>7. CASE k = NoKey
    BY <1>3, <1>5, <1>6, <1>7 DEF Leaders, G
  <1>8. CASE k # NoKey
    BY <1>3, <1>4, <1>5, <1>6, <1>8 DEF Leaders
  <1> QED
    BY <1>7, <1>8

\* The integrity section says of the file before it what it should.
LEMMA ClosedShape ==
    ASSUME NEW c, NEW q, IsSeq(q), \A i \in DOMAIN q : q[i].type # "integrity"
    PROVE  LET G == Plain(c, q)  F == Closed(G)  n == Len(q) + 1
           IN  /\ F = Plain(c, F.sections) /\ IsSeq(F.sections) /\ Len(F.sections) = n
               /\ \A i \in 1..Len(q) : F.sections[i] = q[i]
               /\ F.sections[n] = Section("integrity", IntegrityBody(G))
               /\ SubSeq(F.sections, 1, n - 1) = q
               /\ IsLast(F, "integrity", n) /\ One(F.sections) /\ Alike(F, G)
  <1> DEFINE G == Plain(c, q)  F == Closed(G)  n == Len(q) + 1
             last == Section("integrity", IntegrityBody(G))
  <1>1. F = Plain(c, Append(q, last)) /\ F.sections = Append(q, last)
    <2>1. G.sections = q
      BY DEF Plain
    <2>2. [G EXCEPT !.sections = Append(@, last)] = Plain(c, Append(q, last))
      BY DEF Plain
    <2> QED
      BY <2>2 DEF Closed, Plain
  <1> HIDE DEF F, last
  <1>2. /\ IsSeq(F.sections) /\ Len(F.sections) = n /\ F.sections[n] = last
        /\ \A i \in 1..Len(q) : F.sections[i] = q[i]
    BY <1>1, SeqAppend
  <1>3. last.type = "integrity"
    BY DEF last, Section
  <1>4. n \in Nat /\ Len(q) \in Nat /\ n - 1 = Len(q) /\ DOMAIN F.sections = 1..n /\ DOMAIN q = 1..Len(q)
    BY <1>2, SeqIs
  <1>5. \A i \in 1..n : F.sections[i].type = "integrity" <=> i = n
    BY <1>2, <1>3, <1>4
  <1>6. IsLast(F, "integrity", n) /\ One(F.sections)
    BY <1>4, <1>5 DEF IsLast, One
  <1>7. SubSeq(F.sections, 1, n - 1) = q
    <2> DEFINE w == SubSeq(F.sections, 1, n - 1)
    <2>1. 1 \in 1..Len(F.sections) + 1 /\ n - 1 \in 1 - 1..Len(F.sections) /\ (n - 1) - 1 + 1 = Len(q)
      BY <1>2, <1>4
    <2>2. IsSeq(w) /\ Len(w) = Len(q) /\ \A i \in 1..Len(q) : w[i] = F.sections[1 + i - 1]
      BY <1>2, <2>1, SeqSub
    <2>3. \A i \in 1..Len(q) : 1 + i - 1 = i
      BY <1>4
    <2>4. \A i \in 1..Len(w) : w[i] = q[i]
      BY <1>2, <2>2, <2>3
    <2> HIDE DEF w
    <2>5. w = q
      BY <2>2, <2>4, SeqSame
    <2> QED
      BY <2>5 DEF w
  <1>8. Alike(F, G)
    <2>1. G.sections = q
      BY DEF Plain
    <2>2. \A t \in Kinds : t # "integrity"
      BY DEF Kinds
    <2>3. \A i \in DOMAIN F.sections : F.sections[i].type # "integrity" => i \in 1..Len(q)
      BY <1>4, <1>5
    <2>4. \A i \in DOMAIN q : i \in DOMAIN F.sections /\ F.sections[i] = q[i]
      BY <1>2, <1>4
    <2> HIDE DEF G
    <2> QED
      BY <1>2, <1>4, <2>1, <2>2, <2>3, <2>4 DEF Alike, SameOf
  <1> QED
    BY <1>1, <1>2, <1>4, <1>6, <1>7, <1>8 DEF F, last

LEMMA SumsOf ==
    ASSUME NEW c, NEW q, IsSeq(q)
    PROVE  LET G == Plain(c, q)  b == IntegrityBody(G)
           IN  /\ b = [form |-> "integrity", crc |-> b.crc, sha |-> b.crc]
               /\ DOMAIN b.crc = Mandatory \union (IF Has(G, "raw") THEN {"raw"} ELSE {})
               /\ \A d \in DOMAIN b.crc : b.crc[d] = Digested(G, d, [count |-> c, sections |-> q])
  <1> DEFINE G == Plain(c, q)  w == [count |-> c, sections |-> q]
             fields == Mandatory \union (IF Has(G, "raw") THEN {"raw"} ELSE {})
             sums == [d \in fields |-> Digested(G, d, w)]
  <1>1. Before(G, Len(G.sections) + 1) = w
    <2>1. SubSeq(q, 1, Len(q)) = q /\ Len(q) + 1 - 1 = Len(q)
      BY SeqWhole, SeqIs
    <2> QED
      BY <2>1 DEF Before, Plain
  <1> HIDE DEF G, w
  <1>2. IntegrityBody(G) = [form |-> "integrity", crc |-> sums, sha |-> sums]
    BY <1>1 DEF IntegrityBody
  <1> QED
    BY <1>2 DEF G, w

LEMMA SerializeParses ==
    ASSUME NEW s, Wellformed(s), NEW z \in Compression, NEW k, Fits(s)
    PROVE  Parses(Serialize(s, z, k)) /\ SeedIn(Serialize(s, z, k)) = s
  <1> DEFINE q == Leaders(s, z, k)  c == Len(q) + 1  G == Plain(c, q)  F == Closed(G)
             sums == IntegrityBody(G).crc
  <1>1. F = Serialize(s, z, k)
    BY SerializeIs
  <1>2. /\ IsSeq(q) /\ Len(q) \in Nat /\ G.sections = q
        /\ \A i \in DOMAIN q : q[i].type # "integrity"
    BY LeadersShape, SeqIs DEF Plain
  <1>3. /\ Has(G, "manifest") /\ Has(G, "recipe") /\ SeedIn(G) = s /\ Decodes(G)
    <2> DEFINE C == ContentSections(s, z)  n == Len(C)
    <2>1. /\ Len(q) \in {n, n + 1} /\ \A i \in 1..n : q[i] = C[i]
          /\ Len(q) = n + 1 => q[n + 1] = Section("signature", SignatureBody(k, SignedContent(s, z)))
      BY LeadersShape
    <2>2. Len(q) = n + 1 => q[n + 1].type = "signature" /\ q[n + 1].body.form = "signature"
      BY <2>1 DEF Section, SignatureBody
    <2> HIDE DEF G
    <2>3. IsSeq(G.sections) /\ Follows(s, z, G.sections, n)
      BY <1>2, <2>1, <2>2 DEF Follows
    <2> HIDE DEF q
    <2> QED
      BY ONLY <2>3, Wellformed(s), z \in Compression, Fits(s), ContentReads
  <1>4. /\ F = Plain(c, F.sections) /\ IsSeq(F.sections) /\ Len(F.sections) = c
        /\ F.sections[c] = Section("integrity", IntegrityBody(G))
        /\ SubSeq(F.sections, 1, c - 1) = q
        /\ IsLast(F, "integrity", c) /\ Alike(F, G)
    BY <1>2, ClosedShape
  <1>5. /\ Decodes(F) /\ SeedIn(F) = s
    BY <1>2, <1>3, <1>4, AlikeDecode DEF Decodes
  <1>6. Has(F, "integrity") /\ IntegrityHolds(F)
    <2>1. /\ IntegrityBody(G) = [form |-> "integrity", crc |-> sums, sha |-> sums]
          /\ DOMAIN sums = Mandatory \union (IF Has(G, "raw") THEN {"raw"} ELSE {})
          /\ \A d \in DOMAIN sums : sums[d] = Digested(G, d, [count |-> c, sections |-> q])
      BY <1>2, SumsOf
    <2> HIDE DEF F, G, sums
    <2>2. F.sections[c].body = [form |-> "integrity", crc |-> sums, sha |-> sums]
      BY <1>4, <2>1 DEF Section
    <2>3. Before(F, c) = [count |-> c, sections |-> q]
      <3>1. F.count = c
        BY <1>4 DEF Plain
      <3> QED
        BY <1>4, <3>1 DEF Before
    <2>4. \A d \in DOMAIN sums : sums[d] = Digested(F, d, Before(F, c))
      <3>1. \A t \in {"manifest", "recipe", "raw"} : Has(G, t) => Payload(F, t) = Payload(G, t)
        BY <1>2, <1>4, SameStart DEF Alike, Kinds
      <3>2. \A d \in DOMAIN sums : d = "payload" \/ (d \in {"manifest", "recipe", "raw"} /\ Has(G, d))
        BY <1>3, <2>1 DEF Mandatory
      <3> QED
        BY <2>1, <2>3, <3>1, <3>2 DEF Digested
    <2>5. Has(F, "signature") => Start(F, "signature") < c
      <3>1. ASSUME Has(F, "signature") PROVE Start(F, "signature") < c
        <4>1. /\ Start(F, "signature") \in 1..c
              /\ F.sections[Start(F, "signature")].type = "signature"
          BY <3>1, <1>4, StartLast
        <4>2. F.sections[c].type = "integrity"
          BY <1>4 DEF Section
        <4> QED
          BY <4>1, <4>2, <1>2
      <3> QED
        BY <3>1
    <2> QED
      BY <1>4, <2>1, <2>2, <2>4, <2>5, SumsFit
  <1>7. Scans(F)
    <2> HIDE DEF F
    <2> QED
      BY <1>4 DEF Scans, Plain
  <1> HIDE DEF F
  <1> QED
    BY <1>1, <1>5, <1>6, <1>7 DEF Parses, Decodes

-----------------------------------------------------------------------------
(* What is true of every plain file: S are the pairs of key and seed that    *)
(* were signed, s is the seed the file's last writer meant, W are seeds      *)
(* somebody closed a plain file around.                                      *)

Vouched(body, S) ==
    \E k, s, z : /\ <<k, s>> \in S /\ Wellformed(s)
                 /\ body.mac = Mac(k, SignedContent(s, z))

SectionOK(x, S) ==
    /\ x.body.form = "signature" => Vouched(x.body, S)
    /\ x.body.form = "recipe" =>
           IsSeq(x.body.cells) /\ x.body.hashes \in Nat /\ x.body.ops \in Nat
    /\ x.body.form = "integrity" =>
           x.body = [form |-> "integrity", crc |-> x.body.crc, sha |-> x.body.sha]

IsPlain(F) == F = [form |-> "plain", count |-> F.count, sections |-> F.sections, tail |-> F.tail]

FileOK(F, S) ==
    /\ IsPlain(F) /\ IsSeq(F.sections) /\ One(F.sections)
    /\ \A i \in DOMAIN F.sections : SectionOK(F.sections[i], S)

Ended(F) == Len(F.sections) > 0 /\ F.sections[Len(F.sections)].type = "integrity"

\* The digest of the whole is taken of data that read as s, if they read at all.
Binds(b, s, W) ==
    /\ b.form = "integrity" /\ "payload" \in DOMAIN b.crc
    /\ Len(b.crc["payload"].sections) + 1 = b.crc["payload"].count
    /\ Decodes(Leading(b.crc["payload"]))
    => SeedIn(Leading(b.crc["payload"])) = s /\ s \in W

Bound(F, s, W) ==
    \A i \in DOMAIN F.sections :
        F.sections[i].type = "integrity" => Binds(F.sections[i].body, s, W)

Reads(F, s, W) ==
    IF Ended(F) THEN Bound(F, s, W) ELSE Parses(F) => SeedIn(F) = s /\ s \in W

LEMMA EndedReads ==
    ASSUME NEW F, NEW S, FileOK(F, S), Ended(F), NEW s, NEW W, Bound(F, s, W), Parses(F)
    PROVE  SeedIn(F) = s /\ s \in W
  <1> DEFINE n == Len(F.sections)  b == F.sections[n].body
             q == SubSeq(F.sections, 1, n - 1)  data == [count |-> F.count, sections |-> q]
  <1>1. /\ IsSeq(F.sections) /\ n \in Nat /\ n > 0 /\ DOMAIN F.sections = 1..n
        /\ F.sections[n].type = "integrity" /\ n = F.count
    BY SeqIs DEF FileOK, Ended, Parses, Scans
  <1>2. IsLast(F, "integrity", n)
    BY <1>1 DEF IsLast
  <1>3. Start(F, "integrity") = n
    BY <1>1, <1>2, StartIs
  <1>4. b.form = "integrity" /\ "payload" \in DOMAIN b.crc /\ b.crc["payload"] = data
    BY <1>3 DEF Parses, IntegrityHolds, SumsAgree, Mandatory, Digested, Before
  <1>5. IsSeq(q) /\ Len(q) = n - 1 /\ Alike(F, Plain(F.count, q))
    <2>1. /\ IsSeq(Plain(F.count, q).sections) /\ Len(Plain(F.count, q).sections) = n - 1
          /\ Alike(F, Plain(F.count, q))
      BY <1>1, HeadAlike
    <2> QED
      BY <2>1 DEF Plain
  <1> HIDE DEF q
  <1>6. Leading(data) = Plain(F.count, q) /\ IsSeq(Plain(F.count, q).sections)
    BY <1>5 DEF Leading, Plain
  <1>7. Decodes(Leading(data)) /\ SeedIn(Leading(data)) = SeedIn(F)
    BY <1>1, <1>5, <1>6, AlikeDecode DEF Parses
  <1>8. data.sections = q /\ data.count = n
    BY <1>1
  <1>9. Binds(b, s, W)
    BY <1>1 DEF Bound
  <1> HIDE DEF data, b, n
  <1>10. Len(b.crc["payload"].sections) + 1 = b.crc["payload"].count
    BY <1>1, <1>4, <1>5, <1>8
  <1> QED
    BY <1>4, <1>7, <1>9, <1>10 DEF Binds

LEMMA FileReads ==
    ASSUME NEW F, NEW S, FileOK(F, S), NEW s, NEW W, Reads(F, s, W), Parses(F)
    PROVE  SeedIn(F) = s /\ s \in W
  BY EndedReads DEF Reads

LEMMA ParsedWellformed ==
    ASSUME NEW F, NEW S, FileOK(F, S), Parses(F)
    PROVE  Wellformed(SeedIn(F))
  <1> DEFINE i == Start(F, "recipe")  b == Payload(F, "recipe")  r == DecodeRecipe(b)
  <1>1. /\ IsSeq(F.sections) /\ Has(F, "recipe") /\ RecipeDecodes(b)
        /\ \A j \in DOMAIN F.sections : SectionOK(F.sections[j], S)
    BY DEF FileOK, Parses, Decodes
  <1>2. i \in DOMAIN F.sections
    BY <1>1, StartLast, SeqIs
  <1>3. IsSeq(b.cells) /\ b.hashes \in Nat /\ b.ops \in Nat
    BY <1>1, <1>2 DEF SectionOK, Payload, RecipeDecodes
  <1> HIDE DEF b
  <1>4. /\ IsSeq(r.table) /\ IsSeq(r.ops) /\ r = [table |-> r.table, ops |-> r.ops]
        /\ \A j \in DOMAIN r.ops : OpDecodes(r.ops[j], Len(r.table))
    BY <1>1, <1>3, RecipeParsed
  <1>5. /\ SeedIn(F).recipe = r
        /\ SeedIn(F) = [manifest |-> SeedIn(F).manifest, recipe |-> SeedIn(F).recipe,
                        raw |-> SeedIn(F).raw]
    BY DEF SeedIn, b
  <1> HIDE DEF r
  <1> QED
    BY <1>4, <1>5 DEF Wellformed

\* A signature that holds covers the header, so it fixes how many sections
\* follow it: one, and that must be the integrity section.
LEMMA VouchedFile ==
    ASSUME NEW F, NEW S, FileOK(F, S), Parses(F), NEW key, key # NoKey,
           SignaturePhase(F, TRUE, key)
    PROVE  <<key, SeedIn(F)>> \in S
  <1> DEFINE n == Len(F.sections)  i == Start(F, "signature")  body == F.sections[i].body
  <1>1. /\ IsSeq(F.sections) /\ n \in Nat /\ DOMAIN F.sections = 1..n /\ n = F.count
        /\ Has(F, "signature") /\ SignatureHolds(F, key)
    BY SeqIs DEF FileOK, Parses, Scans, SignaturePhase
  <1>2. i \in 1..n /\ F.sections[i].type = "signature" /\ IsLast(F, "signature", i)
    BY <1>1, StartLast
  <1>3. body.form = "signature" /\ body.mac = Mac(key, SignedData(F, i))
    BY <1>1 DEF Parses, Decodes, SignatureHolds, Payload
  <1>4. PICK k, s, z : /\ <<k, s>> \in S /\ Wellformed(s)
                       /\ body.mac = Mac(k, SignedContent(s, z))
    BY <1>1, <1>2, <1>3 DEF FileOK, SectionOK, Vouched
  <1> DEFINE C == ContentSections(s, z)  m == Len(C)  q == SubSeq(F.sections, 1, i - 1)
  <1>5. k = key /\ F.count = m + 2 /\ q = C
    <2>1. Mac(key, SignedData(F, i)) = Mac(k, SignedContent(s, z))
      BY <1>3, <1>4
    <2>2. key = k /\ SignedData(F, i) = SignedContent(s, z)
      BY <2>1 DEF Mac
    <2> QED
      BY <2>2 DEF SignedData, SignedContent, Before
  <1>6. IsSeq(C) /\ m \in {2, 3}
    BY ContentShape
  <1>7. Len(q) = i - 1 /\ \A j \in 1..i - 1 : q[j] = F.sections[j]
    <2>1. 1 \in 1..n + 1 /\ i - 1 \in 1 - 1..n /\ (i - 1) - 1 + 1 = i - 1
      BY <1>1, <1>2
    <2>2. Len(q) = i - 1 /\ \A j \in 1..i - 1 : q[j] = F.sections[1 + j - 1]
      BY ONLY <1>1, <2>1, SeqSub
    <2>3. \A j \in 1..i - 1 : 1 + j - 1 = j
      BY <1>1, <1>2
    <2> QED
      BY <2>2, <2>3
  <1> HIDE DEF C, q
  <1>8. /\ i = m + 1 /\ n = m + 2 /\ m \in Nat
        /\ \A j \in 1..m : F.sections[j] = C[j]
    <2>1. i - 1 = m /\ m \in Nat
      BY <1>5, <1>6, <1>7
    <2>2. i = m + 1
      BY <1>1, <1>2, <2>1
    <2> QED
      BY <1>1, <1>5, <1>7, <2>1, <2>2
  <1> HIDE DEF i, m, n
  <1>9. F.sections[n].type = "integrity"
    <2> DEFINE g == Start(F, "integrity")
    <2>1. g \in 1..n /\ F.sections[g].type = "integrity"
      BY <1>1, StartLast DEF Parses, n
    <2>2. \A j \in 1..m : C[j].type # "integrity"
      <3>1. /\ \A j \in 1..m : Leaders(s, z, NoKey)[j] = C[j]
            /\ \A j \in DOMAIN Leaders(s, z, NoKey) : Leaders(s, z, NoKey)[j].type # "integrity"
            /\ IsSeq(Leaders(s, z, NoKey)) /\ Len(Leaders(s, z, NoKey)) = m
        BY LeadersShape DEF C, m
      <3>2. DOMAIN Leaders(s, z, NoKey) = 1..m
        BY <3>1, SeqIs
      <3> QED
        BY <3>1, <3>2
    <2>3. g \notin 1..m /\ g # m + 1
      BY <2>1, <2>2, <1>2, <1>8
    <2>4. g = n
      BY <2>1, <2>3, <1>8
    <2> QED
      BY <2>1, <2>4
  <1> DEFINE w == SubSeq(F.sections, 1, n - 1)  G == Plain(F.count, w)
  <1>10. IsSeq(G.sections) /\ Len(G.sections) = m + 1 /\ Alike(F, G) /\ G.sections = w
    <2>1. G.sections = w
      BY DEF Plain
    <2>2. n > 0 /\ n - 1 = m + 1
      BY <1>8
    <2> QED
      BY <1>1, <1>9, <2>1, <2>2, HeadAlike DEF n
  <1>11. \A j \in 1..m + 1 : w[j] = F.sections[j]
    <2>1. 1 \in 1..n + 1 /\ n - 1 \in 1 - 1..n /\ (n - 1) - 1 + 1 = m + 1
      BY <1>8
    <2>2. \A j \in 1..m + 1 : w[j] = F.sections[1 + j - 1]
      BY ONLY <1>1, <2>1, SeqSub DEF n
    <2>3. \A j \in 1..m + 1 : 1 + j - 1 = j
      BY <1>8
    <2> QED
      BY <2>2, <2>3
  <1> HIDE DEF G, w
  <1>12. Follows(s, z, G.sections, m)
    <2>1. m = Len(ContentSections(s, z)) /\ C = ContentSections(s, z)
      BY DEF m, C
    <2>2. 1..m \subseteq 1..m + 1 /\ m + 1 \in 1..m + 1
      BY <1>8
    <2>3. G.sections[m + 1] = F.sections[i]
      BY <1>8, <1>10, <1>11, <2>2
    <2> QED
      BY <1>2, <1>3, <1>8, <1>10, <1>11, <2>1, <2>2, <2>3 DEF Follows
  <1>13. /\ Has(G, "manifest") /\ Has(G, "recipe") /\ SeedIn(G) = s
    BY ONLY <1>4, <1>10, <1>12, ContentReads
  <1>14. SeedIn(F) = s
    BY <1>1, <1>10, <1>13, AlikeDecode DEF Parses
  <1> QED
    BY <1>4, <1>5, <1>14

LEMMA ContentOK ==
    ASSUME NEW s, Wellformed(s), NEW z, NEW S, NEW i \in DOMAIN ContentSections(s, z)
    PROVE  SectionOK(ContentSections(s, z)[i], S) /\ ContentSections(s, z)[i].type # "integrity"
  <1> DEFINE C == ContentSections(s, z)
             a == Section("manifest", ManifestBody(s.manifest, z))
             b == Section("recipe", RecipeBody(s.recipe))
             c == Section("raw", RawBody(s.raw))
  <1>1. C[i] \in {a, b, c}
    <2>1. /\ IsSeq(C) /\ Len(C) = IF s.raw = <<>> THEN 2 ELSE 3
          /\ C[1] = a /\ C[2] = b
          /\ s.raw # <<>> => C[3] = c
      BY ContentShape
    <2>2. DOMAIN C = 1..Len(C)
      BY <2>1, SeqIs
    <2> HIDE DEF C, a, b, c
    <2>3. i \in 1..Len(C)
      BY <2>2 DEF C
    <2>4. i = 1 \/ i = 2 \/ (i = 3 /\ s.raw # <<>>)
      <3>1. CASE s.raw = <<>>
        BY <2>1, <2>3, <3>1
      <3>2. CASE s.raw # <<>>
        BY <2>1, <2>3, <3>2
      <3> QED
        BY <3>1, <3>2
    <2> QED
      BY <2>1, <2>4
  <1>2. SectionOK(a, S) /\ a.type # "integrity"
    BY DEF SectionOK, Section, ManifestBody
  <1>3. SectionOK(c, S) /\ c.type # "integrity"
    BY DEF SectionOK, Section, RawBody
  <1>4. SectionOK(b, S) /\ b.type # "integrity"
    <2>1. /\ IsSeq(s.recipe.table \o s.recipe.ops) /\ Len(s.recipe.table) \in Nat
          /\ Len(s.recipe.ops) \in Nat
      BY SeqConcat, SeqIs DEF Wellformed
    <2> QED
      BY <2>1 DEF SectionOK, Section, RecipeBody
  <1> HIDE DEF C, a, b, c
  <1>5. SectionOK(C[i], S) /\ C[i].type # "integrity"
    BY <1>1, <1>2, <1>3, <1>4
  <1> QED
    BY <1>5 DEF C

\* A file that serialize_seed closed around s.
LEMMA SerializeOK ==
    ASSUME NEW s, Wellformed(s), NEW z, NEW k, NEW S, k # NoKey => <<k, s>> \in S,
           NEW W, s \in W
    PROVE  LET F == Serialize(s, z, k)
           IN  FileOK(F, S) /\ F.form = "plain" /\ F.tail = 0 /\ Ended(F) /\ Bound(F, s, W)
  <1> DEFINE q == Leaders(s, z, k)  c == Len(q) + 1  G == Plain(c, q)  F == Closed(G)
             C == ContentSections(s, z)  n == Len(C)
  <1>1. F = Serialize(s, z, k)
    BY SerializeIs
  <1>2. /\ IsSeq(q) /\ Len(q) \in Nat /\ G.sections = q /\ n \in {2, 3}
        /\ Len(q) = (IF k = NoKey THEN n ELSE n + 1)
        /\ \A i \in 1..n : q[i] = C[i]
        /\ k # NoKey => q[n + 1] = Section("signature", SignatureBody(k, SignedContent(s, z)))
        /\ \A i \in DOMAIN q : q[i].type # "integrity"
    BY LeadersShape, SeqIs DEF Plain
  <1>3. /\ F = Plain(c, F.sections) /\ IsSeq(F.sections) /\ Len(F.sections) = c
        /\ \A i \in 1..Len(q) : F.sections[i] = q[i]
        /\ F.sections[c] = Section("integrity", IntegrityBody(G))
        /\ IsLast(F, "integrity", c) /\ One(F.sections)
    BY <1>2, ClosedShape
  <1>4. Follows(s, z, G.sections, n) /\ IsSeq(G.sections)
    BY <1>2 DEF Follows, Section, SignatureBody
  <1> HIDE DEF q, G, F, C
  <1>5. Has(G, "manifest") /\ Has(G, "recipe") /\ SeedIn(G) = s
    BY <1>4, ContentReads
  <1>6. \A i \in 1..Len(q) : SectionOK(q[i], S)
    <2>1. ASSUME NEW i \in 1..n PROVE SectionOK(q[i], S)
      <3>1. DOMAIN C = 1..n /\ C = ContentSections(s, z)
        BY ContentShape, SeqIs DEF C
      <3> QED
        BY <1>2, <3>1, ContentOK
    <2>2. ASSUME k # NoKey PROVE SectionOK(q[n + 1], S)
      <3>1. Vouched(SignatureBody(k, SignedContent(s, z)), S)
        BY <2>2 DEF Vouched, SignatureBody
      <3>2. q[n + 1].body = SignatureBody(k, SignedContent(s, z))
        BY <1>2, <2>2 DEF Section
      <3>3. q[n + 1].body.form \notin {"recipe", "integrity"}
        BY <3>2 DEF SignatureBody
      <3> QED
        BY <3>1, <3>2, <3>3 DEF SectionOK
    <2>3. \A i \in 1..Len(q) : i \in 1..n \/ (i = n + 1 /\ k # NoKey)
      BY <1>2
    <2> QED
      BY <2>1, <2>2, <2>3
  <1> DEFINE last == Section("integrity", IntegrityBody(G))
  <1>7. /\ last.type = "integrity" /\ last.body.form = "integrity"
        /\ last.body = [form |-> "integrity", crc |-> last.body.crc, sha |-> last.body.sha]
        /\ last.body.crc["payload"] = [count |-> c, sections |-> q]
    <2>1. /\ IntegrityBody(G) = [form |-> "integrity", crc |-> IntegrityBody(G).crc, sha |-> IntegrityBody(G).crc]
          /\ "payload" \in DOMAIN IntegrityBody(G).crc
          /\ \A d \in DOMAIN IntegrityBody(G).crc :
                 IntegrityBody(G).crc[d] = Digested(G, d, [count |-> c, sections |-> q])
      BY <1>2, SumsOf DEF G, Mandatory
    <2> QED
      BY <2>1 DEF Section, Digested
  <1>8. FileOK(F, S)
    <2>1. SectionOK(last, S)
      BY <1>7 DEF SectionOK
    <2>2. DOMAIN F.sections = 1..c /\ \A i \in 1..c : i \in 1..Len(q) \/ i = c
      BY <1>2, <1>3, SeqIs
    <2> HIDE DEF last
    <2>3. \A i \in DOMAIN F.sections : SectionOK(F.sections[i], S)
      BY <1>3, <1>6, <2>1, <2>2 DEF last
    <2>4. IsPlain(F)
      BY <1>3 DEF IsPlain, Plain
    <2> QED
      BY <1>3, <2>3, <2>4 DEF FileOK
  <1>9. Bound(F, s, W)
    <2>1. Binds(last.body, s, W)
      <3>1. Leading([count |-> c, sections |-> q]) = G
        BY DEF Leading, G
      <3> QED
        BY <1>5, <1>7, <3>1 DEF Binds
    <2>2. \A i \in DOMAIN F.sections : F.sections[i].type = "integrity" => i = c
      BY <1>3, <1>7 DEF One, IsLast
    <2> QED
      BY <1>3, <2>1, <2>2 DEF Bound
  <1>10. Ended(F) /\ F.form = "plain" /\ F.tail = 0
    BY <1>2, <1>3, <1>7 DEF Ended, Plain
  <1> QED
    BY <1>1, <1>8, <1>9, <1>10

-----------------------------------------------------------------------------
(* Decay.                                                                   *)

LEMMA SeedsWellformed ==
    ASSUME NEW s \in Seeds
    PROVE  Wellformed(s)
  <1>1. /\ s.recipe.table \in Seq(Hash)
        /\ s.recipe.ops \in Seq([code : {"REF", "RAW"}, index : Nat])
        /\ \A i \in DOMAIN s.recipe.ops : s.recipe.ops[i].index < Len(s.recipe.table)
        /\ s = [manifest |-> s.manifest, raw |-> s.raw,
                recipe |-> [table |-> s.recipe.table, ops |-> s.recipe.ops]]
    BY FilesAssumption
  <1>2. IsSeq(s.recipe.table) /\ IsSeq(s.recipe.ops)
    BY <1>1 DEF IsSeq
  <1>3. \A i \in DOMAIN s.recipe.ops : s.recipe.ops[i] \in [code : {"REF", "RAW"}, index : Nat]
    <2> DEFINE Op == [code : {"REF", "RAW"}, index : Nat]  ops == s.recipe.ops
    <2>1. ops \in Seq(Op)
      BY <1>1
    <2> HIDE DEF Op, ops
    <2>2. \A i \in DOMAIN ops : ops[i] \in Op
      BY <2>1
    <2> QED
      BY <2>2 DEF Op, ops
  <1>4. \A i \in DOMAIN s.recipe.ops : OpDecodes(s.recipe.ops[i], Len(s.recipe.table))
    BY <1>1, <1>3 DEF OpDecodes
  <1> QED
    BY <1>1, <1>2, <1>4 DEF Wellformed

LEMMA PartOK ==
    ASSUME NEW x \in Parts, NEW S
    PROVE  SectionOK(x, S) /\ x.type # "integrity"
  <1>1. CASE x = Section("note", Garbled)
    BY <1>1 DEF SectionOK, Section, Garbled
  <1>2. CASE x \in {Section("recipe", r) : r \in Strange}
    <2>1. PICK r \in Strange : x = Section("recipe", r)
      BY <1>2
    <2>2. /\ r.form = "recipe" /\ r.hashes \in Nat /\ r.ops \in Nat
          /\ r.cells \in Seq(Hash \union [code : {"REF", "RAW"}, index : Nat])
      BY FilesAssumption
    <2>3. IsSeq(r.cells)
      BY <2>2 DEF IsSeq
    <2> QED
      BY <2>1, <2>2, <2>3 DEF SectionOK, Section
  <1>3. ASSUME NEW s \in Seeds, NEW z \in Compression,
               NEW i \in DOMAIN ContentSections(s, z), x = ContentSections(s, z)[i]
        PROVE  SectionOK(x, S) /\ x.type # "integrity"
    BY <1>3, SeedsWellformed, ContentOK
  <1> QED
    BY <1>1, <1>2, <1>3 DEF Parts

LEMMA WeakenedBinds ==
    ASSUME NEW b, b = [form |-> "integrity", crc |-> b.crc, sha |-> b.sha],
           NEW x \in Weakened(b), NEW s, NEW W, Binds(b, s, W)
    PROVE  /\ x = [form |-> "integrity", crc |-> x.crc, sha |-> x.sha]
           /\ Binds(x, s, W)
  <1>1. CASE \E d \in DOMAIN b.crc : x = [b EXCEPT !.crc = Without(b.crc, d)]
    <2>1. PICK d \in DOMAIN b.crc : x = [b EXCEPT !.crc = Without(b.crc, d)]
      BY <1>1
    <2>2. x = [form |-> "integrity", crc |-> Without(b.crc, d), sha |-> b.sha]
      BY <2>1
    <2>3. "payload" \in DOMAIN x.crc => /\ "payload" \in DOMAIN b.crc
                                        /\ x.crc["payload"] = b.crc["payload"]
      BY <2>2 DEF Without
    <2> QED
      BY <2>2, <2>3 DEF Binds
  <1>2. CASE \E d \in DOMAIN b.sha : x = [b EXCEPT !.sha = Without(b.sha, d)]
    <2>1. PICK d \in DOMAIN b.sha : x = [b EXCEPT !.sha = Without(b.sha, d)]
      BY <1>2
    <2>2. x = [form |-> "integrity", crc |-> b.crc, sha |-> Without(b.sha, d)]
      BY <2>1
    <2>3. x.crc = b.crc /\ x.form = b.form
      BY <2>2
    <2> QED
      BY <2>2, <2>3 DEF Binds
  <1> QED
    BY <1>1, <1>2 DEF Weakened

\* A section that takes the place of x.
LEMMA DecayedSectionOK ==
    ASSUME NEW S, NEW x, SectionOK(x, S), NEW y \in DecayedSection(x), NEW s, NEW W,
           x.type = "integrity" => Binds(x.body, s, W)
    PROVE  /\ SectionOK(y, S)
           /\ y.type = "integrity" => x.type = "integrity" /\ Binds(y.body, s, W)
  <1>1. CASE y = Section(x.type, Garbled)
    BY <1>1 DEF SectionOK, Section, Garbled, Binds
  <1>2. CASE y = Section("note", x.body)
    BY <1>2 DEF SectionOK, Section
  <1>3. CASE y \in Parts
    BY <1>3, PartOK
  <1>4. CASE x.body.form = "integrity" /\ y \in {Section(x.type, b) : b \in Weakened(x.body)}
    <2>1. PICK b \in Weakened(x.body) : y = Section(x.type, b)
      BY <1>4
    <2>2. y.type = x.type /\ y.body = b
      BY <2>1 DEF Section
    <2>3. x.body = [form |-> "integrity", crc |-> x.body.crc, sha |-> x.body.sha]
      BY <1>4 DEF SectionOK
    <2>4. b = [form |-> "integrity", crc |-> b.crc, sha |-> b.sha]
      BY <2>3 DEF Weakened
    <2>5. SectionOK(y, S)
      BY <2>2, <2>4 DEF SectionOK
    <2>6. x.type = "integrity" => Binds(b, s, W)
      BY <2>3, WeakenedBinds
    <2> QED
      BY <2>2, <2>5, <2>6
  <1> QED
    BY <1>1, <1>2, <1>3, <1>4 DEF DecayedSection

\* What one replaces and cuts, the last integrity section stays the last
\* section or is gone, and then nothing is read.
LEMMA ReadsIf ==
    ASSUME NEW G, IsSeq(G.sections), NEW s, NEW W, Bound(G, s, W),
           \A i \in DOMAIN G.sections :
               G.sections[i].type = "integrity" => i = Len(G.sections)
    PROVE  Reads(G, s, W)
  <1>1. ASSUME Parses(G) PROVE Ended(G)
    <2> DEFINE i == Start(G, "integrity")
    <2>1. i \in 1..Len(G.sections) /\ G.sections[i].type = "integrity"
      BY <1>1, StartLast DEF Parses
    <2>2. DOMAIN G.sections = 1..Len(G.sections)
      BY SeqIs
    <2> HIDE DEF i
    <2>3. i = Len(G.sections)
      BY <2>1, <2>2
    <2>4. Len(G.sections) > 0
      BY <2>1, <2>3
    <2> QED
      BY <2>1, <2>3, <2>4 DEF Ended
  <1> QED
    BY <1>1 DEF Reads

\* Another count, or bytes behind the sections, change no section.
LEMMA Reframed ==
    ASSUME NEW F, NEW S, FileOK(F, S), Ended(F), NEW s, NEW W, Bound(F, s, W), NEW c, NEW x
    PROVE  LET G == [form |-> "plain", count |-> c, sections |-> F.sections, tail |-> x]
           IN  FileOK(G, S) /\ G.form = "plain" /\ Reads(G, s, W)
  <1> DEFINE G == [form |-> "plain", count |-> c, sections |-> F.sections, tail |-> x]
  <1>1. G.form = "plain" /\ G.sections = F.sections /\ IsPlain(G)
    BY DEF IsPlain
  <1> HIDE DEF G
  <1>2. FileOK(G, S) /\ Ended(G) /\ Bound(G, s, W)
    BY <1>1 DEF FileOK, Ended, Bound
  <1>3. FileOK(G, S) /\ G.form = "plain" /\ Reads(G, s, W)
    BY <1>1, <1>2 DEF Reads
  <1> QED
    BY <1>3 DEF G

\* The same file around other sections.
LEMMA Resectioned ==
    ASSUME NEW F, NEW S, FileOK(F, S), NEW q, IsSeq(q),
           \A i \in DOMAIN q : SectionOK(q[i], S),
           \A i \in DOMAIN q : q[i].type = "integrity" => i = Len(q),
           NEW s, NEW W,
           \A i \in DOMAIN q : q[i].type = "integrity" => Binds(q[i].body, s, W)
    PROVE  LET G == [F EXCEPT !.sections = q]
           IN  FileOK(G, S) /\ G.form = "plain" /\ Reads(G, s, W)
  <1> DEFINE G == [F EXCEPT !.sections = q]
  <1>1. F = [form |-> "plain", count |-> F.count, sections |-> F.sections, tail |-> F.tail]
    BY DEF FileOK, IsPlain
  <1>2. G = [form |-> "plain", count |-> F.count, sections |-> q, tail |-> F.tail]
    BY <1>1
  <1>3. G.form = "plain" /\ G.sections = q /\ IsPlain(G)
    BY <1>2 DEF IsPlain
  <1> HIDE DEF G
  <1>4. FileOK(G, S) /\ Bound(G, s, W)
    BY <1>3 DEF FileOK, Bound, One
  <1>5. Reads(G, s, W)
    BY <1>3, <1>4, ReadsIf
  <1> QED
    BY <1>3, <1>4, <1>5 DEF G

\* A file that serialize_seed closed, decayed in any way, still reads as its
\* seed or not at all.
LEMMA DecayOK ==
    ASSUME NEW F, NEW S, FileOK(F, S), Ended(F), NEW s, NEW W, Bound(F, s, W),
           NEW G \in Decayed(F)
    PROVE  \/ G = Empty
           \/ FileOK(G, S) /\ G.form = "plain" /\ Reads(G, s, W)
  <1> DEFINE n == Len(F.sections)
  <1>1. /\ F = [form |-> "plain", count |-> F.count, sections |-> F.sections, tail |-> F.tail]
        /\ IsSeq(F.sections) /\ n \in Nat /\ n > 0 /\ DOMAIN F.sections = 1..n
        /\ F.sections[n].type = "integrity"
        /\ \A i \in 1..n : SectionOK(F.sections[i], S)
    BY SeqIs DEF FileOK, IsPlain, Ended
  <1>2. \A i \in 1..n : F.sections[i].type = "integrity" => i = n /\ Binds(F.sections[i].body, s, W)
    BY <1>1 DEF FileOK, One, Bound
  <1> HIDE DEF n
  <1>3. CASE G = [F EXCEPT !.tail = 1]
    <2>1. G = [form |-> "plain", count |-> F.count, sections |-> F.sections, tail |-> 1]
      BY <1>1, <1>3
    <2> QED
      BY <2>1, Reframed
  <1>4. CASE G = Empty
    BY <1>4
  <1>5. ASSUME NEW c, G = [F EXCEPT !.count = c]
        PROVE  FileOK(G, S) /\ G.form = "plain" /\ Reads(G, s, W)
    <2>1. G = [form |-> "plain", count |-> c, sections |-> F.sections, tail |-> F.tail]
      BY <1>1, <1>5
    <2> QED
      BY <2>1, Reframed
  <1>6. ASSUME NEW m \in 0..n - 1, G = [F EXCEPT !.sections = SubSeq(F.sections, 1, m)]
        PROVE  FileOK(G, S) /\ G.form = "plain" /\ Reads(G, s, W)
    <2> DEFINE q == SubSeq(F.sections, 1, m)
    <2>1. m - 1 + 1 = m /\ \A i \in 1..m : 1 + i - 1 = i
      BY <1>1
    <2>2. /\ IsSeq(F.sections) /\ 1 \in 1..Len(F.sections) + 1
          /\ m \in 1 - 1..Len(F.sections)
      BY <1>1 DEF n
    <2>3. IsSeq(q) /\ Len(q) = m - 1 + 1 /\ \A i \in 1..m - 1 + 1 : q[i] = F.sections[1 + i - 1]
      BY ONLY <2>2, SeqSub
    <2>4. IsSeq(q) /\ \A i \in 1..m : q[i] = F.sections[i]
      BY <2>1, <2>3
    <2>5. DOMAIN q = 1..m
      BY <2>1, <2>3, SeqIs
    <2> HIDE DEF q
    <2>6. \A i \in 1..m : i \in 1..n /\ i # n
      BY <1>1
    <2>7. \A i \in DOMAIN q : SectionOK(q[i], S) /\ q[i].type # "integrity"
      BY <1>1, <1>2, <2>4, <2>5, <2>6
    <2> QED
      BY <2>4, <2>7, <1>6, Resectioned DEF q
  <1>7. ASSUME NEW i \in 1..n, NEW x \in DecayedSection(F.sections[i]),
               G = [F EXCEPT !.sections[i] = x]
        PROVE  FileOK(G, S) /\ G.form = "plain" /\ Reads(G, s, W)
    <2> DEFINE q == [F.sections EXCEPT ![i] = x]
    <2>1. G = [F EXCEPT !.sections = q]
      BY <1>1, <1>7
    <2>2. /\ IsSeq(q) /\ Len(q) = n /\ q[i] = x
          /\ \A j \in 1..n : j # i => q[j] = F.sections[j]
      BY ONLY <1>1, i \in 1..n, SeqExcept DEF n
    <2>3. DOMAIN q = 1..n
      BY <2>2, SeqIs
    <2> HIDE DEF q
    <2>4. /\ SectionOK(x, S)
          /\ x.type = "integrity" => F.sections[i].type = "integrity" /\ Binds(x.body, s, W)
      BY <1>1, <1>2, DecayedSectionOK
    <2>5. \A j \in 1..n : SectionOK(q[j], S)
      BY <1>1, <2>2, <2>4
    <2>6. \A j \in 1..n : q[j].type = "integrity" => j = n /\ Binds(q[j].body, s, W)
      BY <1>2, <2>2, <2>4
    <2> QED
      BY <2>1, <2>2, <2>3, <2>5, <2>6, Resectioned
  <1>8. F.form # "sealed"
    BY <1>1
  <1> QED
    BY <1>1, <1>3, <1>4, <1>5, <1>6, <1>7, <1>8 DEF Decayed, n

-----------------------------------------------------------------------------
(* Edits.                                                                   *)

\* Every section of q is of the pool, or one of p's that q has once.
From(q, p, pool) ==
    \E f : /\ \A j \in DOMAIN q : q[j] \in pool \/ (f[j] \in DOMAIN p /\ q[j] = p[f[j]])
           /\ \A i, j \in DOMAIN q : f[i] = f[j] => i = j

LEMMA FromOK ==
    ASSUME NEW q, NEW p, NEW pool, From(q, p, pool), NEW S,
           \A x \in pool : SectionOK(x, S) /\ x.type # "integrity",
           \A i \in DOMAIN p : SectionOK(p[i], S), One(p)
    PROVE  One(q) /\ \A i \in DOMAIN q : SectionOK(q[i], S)
  <1>1. PICK f : /\ \A j \in DOMAIN q : q[j] \in pool \/ (f[j] \in DOMAIN p /\ q[j] = p[f[j]])
                 /\ \A i, j \in DOMAIN q : f[i] = f[j] => i = j
    BY DEF From
  <1>2. \A i \in DOMAIN q : SectionOK(q[i], S)
    BY <1>1
  <1>3. ASSUME NEW i \in DOMAIN q, NEW j \in DOMAIN q,
               q[i].type = "integrity", q[j].type = "integrity"
        PROVE  i = j
    <2>1. q[i] \notin pool /\ q[j] \notin pool
      BY <1>3
    <2>2. f[i] = f[j]
      BY <1>1, <1>3, <2>1 DEF One
    <2> QED
      BY <1>1, <2>2
  <1> QED
    BY <1>2, <1>3 DEF One

LEMMA InsertFrom ==
    ASSUME NEW p, IsSeq(p), NEW i \in 0..Len(p), NEW x, NEW pool, x \in pool
    PROVE  LET q == SubSeq(p, 1, i) \o <<x>> \o SubSeq(p, i + 1, Len(p))
           IN  IsSeq(q) /\ From(q, p, pool)
  <1> DEFINE n == Len(p)  a == SubSeq(p, 1, i)  b == <<x>>  c == SubSeq(p, i + 1, n)
             ab == a \o b  q == ab \o c
             f == [j \in 1..n + 1 |-> IF j <= i THEN j ELSE IF j = i + 1 THEN 0 ELSE j - 1]
  <1>1. n \in Nat /\ DOMAIN p = 1..n
    BY SeqIs
  <1>2. IsSeq(a) /\ Len(a) = i /\ \A j \in 1..i : a[j] = p[j]
    <2>1. i - 1 + 1 = i /\ \A j \in 1..i : 1 + j - 1 = j
      BY <1>1
    <2>2. 1 \in 1..Len(p) + 1 /\ i \in 1 - 1..Len(p)
      BY <1>1
    <2>3. IsSeq(a) /\ Len(a) = i - 1 + 1 /\ \A j \in 1..i - 1 + 1 : a[j] = p[1 + j - 1]
      BY ONLY <2>2, IsSeq(p), SeqSub
    <2> QED
      BY <2>1, <2>3
  <1>3. IsSeq(c) /\ Len(c) = n - i /\ \A j \in 1..n - i : c[j] = p[i + j]
    <2>1. n - (i + 1) + 1 = n - i /\ \A j \in 1..n - i : (i + 1) + j - 1 = i + j
      BY <1>1
    <2>2. i + 1 \in 1..Len(p) + 1 /\ n \in (i + 1) - 1..Len(p)
      BY <1>1
    <2>3. /\ IsSeq(c) /\ Len(c) = n - (i + 1) + 1
          /\ \A j \in 1..n - (i + 1) + 1 : c[j] = p[(i + 1) + j - 1]
      BY ONLY <2>2, IsSeq(p), SeqSub
    <2> QED
      BY <2>1, <2>3
  <1>4. IsSeq(b) /\ Len(b) = 1 /\ b[1] = x
    <2>1. b \in Seq({x})
      OBVIOUS
    <2> QED
      BY <2>1 DEF IsSeq
  <1> HIDE DEF a, b, c
  <1>5. /\ IsSeq(ab) /\ Len(ab) = i + 1
        /\ \A j \in 1..i : ab[j] = p[j]
        /\ ab[i + 1] = x
    <2>1. /\ IsSeq(a \o b) /\ Len(a \o b) = Len(a) + Len(b)
          /\ \A j \in 1..Len(a) : (a \o b)[j] = a[j]
          /\ \A j \in 1..Len(b) : (a \o b)[Len(a) + j] = b[j]
      <3>1. IsSeq(a) /\ IsSeq(b)
        BY <1>2, <1>4
      <3> QED
        BY ONLY <3>1, SeqConcat
    <2> QED
      BY <2>1, <1>2, <1>4
  <1> HIDE DEF ab
  <1>6. /\ IsSeq(q) /\ Len(q) = n + 1
        /\ \A j \in 1..i + 1 : q[j] = ab[j]
        /\ \A j \in 1..n - i : q[i + 1 + j] = c[j]
    <2>1. /\ IsSeq(ab \o c) /\ Len(ab \o c) = Len(ab) + Len(c)
          /\ \A j \in 1..Len(ab) : (ab \o c)[j] = ab[j]
          /\ \A j \in 1..Len(c) : (ab \o c)[Len(ab) + j] = c[j]
      <3>1. IsSeq(ab) /\ IsSeq(c)
        BY <1>3, <1>5
      <3> QED
        BY ONLY <3>1, SeqConcat
    <2> HIDE DEF n
    <2> QED
      BY <2>1, <1>1, <1>3, <1>5
  <1> HIDE DEF q
  <1>7. DOMAIN q = 1..n + 1
    BY <1>6, SeqIs
  <1>8. \A j \in 1..n + 1 : q[j] \in pool \/ (f[j] \in DOMAIN p /\ q[j] = p[f[j]])
    <2>1. ASSUME NEW j \in 1..n + 1, j <= i PROVE f[j] = j /\ j \in 1..n /\ q[j] = p[j]
      BY <2>1, <1>1, <1>5, <1>6
    <2>2. q[i + 1] = x
      BY <1>5, <1>6
    <2>3. ASSUME NEW j \in 1..n + 1, j > i + 1
          PROVE  f[j] = j - 1 /\ j - 1 \in 1..n /\ q[j] = p[j - 1]
      <3>1. j - i - 1 \in 1..n - i /\ i + 1 + (j - i - 1) = j /\ i + (j - i - 1) = j - 1
        BY <2>3, <1>1
      <3>2. q[j] = c[j - i - 1] /\ c[j - i - 1] = p[j - 1]
        BY <3>1, <1>3, <1>6
      <3> QED
        BY <2>3, <3>2, <1>1
    <2>4. \A j \in 1..n + 1 : j <= i \/ j = i + 1 \/ j > i + 1
      BY <1>1
    <2> QED
      BY <2>1, <2>2, <2>3, <2>4, <1>1
  <1>9. \A j, k \in 1..n + 1 : f[j] = f[k] => j = k
    BY <1>1
  <1> HIDE DEF f
  <1>10. From(q, p, pool)
    BY <1>7, <1>8, <1>9 DEF From
  <1> QED
    BY <1>6, <1>10 DEF q, ab, a, b, c

LEMMA ReplaceFrom ==
    ASSUME NEW p, IsSeq(p), NEW i \in 1..Len(p), NEW x, NEW pool, x \in pool
    PROVE  LET q == [p EXCEPT ![i] = x] IN IsSeq(q) /\ From(q, p, pool)
  <1> DEFINE q == [p EXCEPT ![i] = x]  f == [j \in 1..Len(p) |-> j]
  <1>1. /\ IsSeq(q) /\ Len(q) = Len(p) /\ q[i] = x
        /\ \A j \in 1..Len(p) : j # i => q[j] = p[j]
    BY SeqExcept
  <1>2. DOMAIN q = 1..Len(p) /\ DOMAIN p = 1..Len(p)
    BY <1>1, SeqIs
  <1> HIDE DEF q
  <1>3. \A j \in 1..Len(p) : q[j] \in pool \/ (f[j] \in DOMAIN p /\ q[j] = p[f[j]])
    BY <1>1, <1>2
  <1>4. \A j, k \in 1..Len(p) : f[j] = f[k] => j = k
    OBVIOUS
  <1> HIDE DEF f
  <1>5. From(q, p, pool)
    BY <1>2, <1>3, <1>4 DEF From
  <1> QED
    BY <1>1, <1>5 DEF q

LEMMA RemoveFrom ==
    ASSUME NEW p, IsSeq(p), NEW i \in 1..Len(p), NEW pool
    PROVE  LET q == SubSeq(p, 1, i - 1) \o SubSeq(p, i + 1, Len(p))
           IN  IsSeq(q) /\ From(q, p, pool)
  <1> DEFINE n == Len(p)  a == SubSeq(p, 1, i - 1)  c == SubSeq(p, i + 1, n)  q == a \o c
             f == [j \in 1..n - 1 |-> IF j < i THEN j ELSE j + 1]
  <1>1. n \in Nat /\ DOMAIN p = 1..n /\ n > 0
    BY SeqIs
  <1>2. IsSeq(a) /\ Len(a) = i - 1 /\ \A j \in 1..i - 1 : a[j] = p[j]
    <2>1. (i - 1) - 1 + 1 = i - 1 /\ \A j \in 1..i - 1 : 1 + j - 1 = j
      BY <1>1
    <2>2. 1 \in 1..Len(p) + 1 /\ i - 1 \in 1 - 1..Len(p)
      BY <1>1
    <2>3. /\ IsSeq(a) /\ Len(a) = (i - 1) - 1 + 1
          /\ \A j \in 1..(i - 1) - 1 + 1 : a[j] = p[1 + j - 1]
      BY ONLY <2>2, IsSeq(p), SeqSub
    <2> QED
      BY <2>1, <2>3
  <1>3. IsSeq(c) /\ Len(c) = n - i /\ \A j \in 1..n - i : c[j] = p[i + j]
    <2>1. n - (i + 1) + 1 = n - i /\ \A j \in 1..n - i : (i + 1) + j - 1 = i + j
      BY <1>1
    <2>2. i + 1 \in 1..Len(p) + 1 /\ n \in (i + 1) - 1..Len(p)
      BY <1>1
    <2>3. /\ IsSeq(c) /\ Len(c) = n - (i + 1) + 1
          /\ \A j \in 1..n - (i + 1) + 1 : c[j] = p[(i + 1) + j - 1]
      BY ONLY <2>2, IsSeq(p), SeqSub
    <2> QED
      BY <2>1, <2>3
  <1> HIDE DEF a, c
  <1>4. /\ IsSeq(q) /\ Len(q) = n - 1
        /\ \A j \in 1..i - 1 : q[j] = a[j]
        /\ \A j \in 1..n - i : q[i - 1 + j] = c[j]
    <2>1. /\ IsSeq(a \o c) /\ Len(a \o c) = Len(a) + Len(c)
          /\ \A j \in 1..Len(a) : (a \o c)[j] = a[j]
          /\ \A j \in 1..Len(c) : (a \o c)[Len(a) + j] = c[j]
      <3>1. IsSeq(a) /\ IsSeq(c)
        BY <1>2, <1>3
      <3> QED
        BY ONLY <3>1, SeqConcat
    <2> HIDE DEF n
    <2> QED
      BY <2>1, <1>1, <1>2, <1>3
  <1> HIDE DEF q
  <1>5. DOMAIN q = 1..n - 1
    BY <1>4, SeqIs
  <1>6. \A j \in 1..n - 1 : f[j] \in DOMAIN p /\ q[j] = p[f[j]]
    <2>1. ASSUME NEW j \in 1..n - 1, j < i PROVE f[j] = j /\ j \in 1..n /\ q[j] = p[j]
      BY <2>1, <1>1, <1>2, <1>4
    <2>2. ASSUME NEW j \in 1..n - 1, j >= i
          PROVE  f[j] = j + 1 /\ j + 1 \in 1..n /\ q[j] = p[j + 1]
      <3>1. j - i + 1 \in 1..n - i /\ i - 1 + (j - i + 1) = j /\ i + (j - i + 1) = j + 1
        BY <2>2, <1>1
      <3>2. q[j] = c[j - i + 1] /\ c[j - i + 1] = p[j + 1]
        BY <3>1, <1>3, <1>4
      <3> QED
        BY <2>2, <3>2, <1>1
    <2>3. \A j \in 1..n - 1 : j < i \/ j >= i
      BY <1>1
    <2> QED
      BY <2>1, <2>2, <2>3, <1>1
  <1>7. \A j, k \in 1..n - 1 : f[j] = f[k] => j = k
    BY <1>1
  <1>8. From(q, p, pool)
    BY <1>5, <1>6, <1>7 DEF From
  <1> QED
    BY <1>4, <1>8 DEF q, a, c

LEMMA ExchangeFrom ==
    ASSUME NEW p, IsSeq(p), NEW i \in 1..Len(p) - 1, NEW pool
    PROVE  LET q == [p EXCEPT ![i] = p[i + 1], ![i + 1] = p[i]]
           IN  IsSeq(q) /\ From(q, p, pool)
  <1> DEFINE n == Len(p)  r == [p EXCEPT ![i] = p[i + 1]]  q == [r EXCEPT ![i + 1] = p[i]]
             f == [j \in 1..n |-> IF j = i THEN i + 1 ELSE IF j = i + 1 THEN i ELSE j]
  <1>1. n \in Nat /\ DOMAIN p = 1..n /\ i \in 1..n /\ i + 1 \in 1..n /\ i # i + 1
    BY SeqIs
  <1>2. PICK S : p \in Seq(S)
    BY DEF IsSeq
  <1>3. /\ r \in Seq(S) /\ Len(r) = n /\ r[i] = p[i + 1]
        /\ \A j \in 1..n : j # i => r[j] = p[j]
    BY <1>1, <1>2
  <1> HIDE DEF r
  <1>4. /\ q \in Seq(S) /\ Len(q) = n /\ q[i + 1] = p[i]
        /\ \A j \in 1..n : j # i + 1 => q[j] = r[j]
    BY <1>1, <1>3, <1>2
  <1> HIDE DEF q
  <1>5. IsSeq(q)
    BY <1>4 DEF IsSeq
  <1>6. DOMAIN q = 1..n
    BY <1>4
  <1>7. \A j \in 1..n : f[j] \in DOMAIN p /\ q[j] = p[f[j]]
    BY <1>1, <1>3, <1>4
  <1>8. \A j, k \in 1..n : f[j] = f[k] => j = k
    BY <1>1
  <1>9. From(q, p, pool)
    BY <1>6, <1>7, <1>8 DEF From
  <1> QED
    BY <1>5, <1>9 DEF q, r

LEMMA EditedFrom ==
    ASSUME NEW p, IsSeq(p), NEW pool, NEW q \in Edited(p, pool)
    PROVE  IsSeq(q) /\ From(q, p, pool)
  <1>1. ASSUME NEW i \in 0..Len(p), NEW x \in pool,
               q = SubSeq(p, 1, i) \o <<x>> \o SubSeq(p, i + 1, Len(p))
        PROVE  IsSeq(q) /\ From(q, p, pool)
    BY <1>1, InsertFrom
  <1>2. ASSUME NEW i \in 1..Len(p), NEW x \in pool, q = [p EXCEPT ![i] = x]
        PROVE  IsSeq(q) /\ From(q, p, pool)
    <2> DEFINE r == [p EXCEPT ![i] = x]
    <2>1. IsSeq(r) /\ From(r, p, pool)
      BY ReplaceFrom
    <2>2. q = r
      BY <1>2
    <2> HIDE DEF r
    <2> QED
      BY <2>1, <2>2
  <1>3. ASSUME NEW i \in 1..Len(p), q = SubSeq(p, 1, i - 1) \o SubSeq(p, i + 1, Len(p))
        PROVE  IsSeq(q) /\ From(q, p, pool)
    BY <1>3, RemoveFrom
  <1>4. ASSUME NEW i \in 1..Len(p) - 1, q = [p EXCEPT ![i] = p[i + 1], ![i + 1] = p[i]]
        PROVE  IsSeq(q) /\ From(q, p, pool)
    <2> DEFINE r == [p EXCEPT ![i] = p[i + 1], ![i + 1] = p[i]]
    <2>1. IsSeq(r) /\ From(r, p, pool)
      BY ExchangeFrom
    <2>2. q = r
      BY <1>4
    <2> HIDE DEF r
    <2> QED
      BY <2>1, <2>2
  <1>5. ASSUME NEW x \in pool,
               q \in {SubSeq(p, 1, i) \o <<x>> \o SubSeq(p, i + 1, Len(p)) : i \in 0..Len(p)}
                     \union {[p EXCEPT ![i] = x] : i \in 1..Len(p)}
        PROVE  IsSeq(q) /\ From(q, p, pool)
    BY <1>1, <1>2, <1>5, Zenon
  <1>6. CASE q \in {SubSeq(p, 1, i - 1) \o SubSeq(p, i + 1, Len(p)) : i \in 1..Len(p)}
    BY <1>3, <1>6, Zenon
  <1>7. CASE q \in {[p EXCEPT ![i] = p[i + 1], ![i + 1] = p[i]] : i \in 1..Len(p) - 1}
    BY <1>4, <1>7, Zenon
  <1> QED
    BY <1>5, <1>6, <1>7, Zenon DEF Edited

\* The seed that a closed file is taken for, and those found in plain files.
Kept(F) == IF Parses(F) THEN SeedIn(F) ELSE NoSeed
Found(F, W) == IF Parses(F) THEN W \union {SeedIn(F)} ELSE W

\* The integrity section that another tool puts, its place and the rest.
LEMMA RecomputedShape ==
    ASSUME NEW q, IsSeq(q), One(q), Has(Plain(0, q), "integrity")
    PROVE  LET F == Plain(Len(q), q)
               g == Start(F, "integrity")
               sums == FittingSums(F)
               R == Recomputed(q)
           IN  /\ g \in 1..Len(q) /\ q[g].type = "integrity"
               /\ R = Plain(Len(q), R.sections)
               /\ IsSeq(R.sections) /\ Len(R.sections) = Len(q)
               /\ R.sections[g] =
                      Section("integrity", [form |-> "integrity", crc |-> sums, sha |-> sums])
               /\ \A j \in 1..Len(q) : j # g => R.sections[j] = q[j]
               /\ One(R.sections) /\ IsLast(R, "integrity", g)
  <1> DEFINE F == Plain(Len(q), q)  g == Start(F, "integrity")  sums == FittingSums(F)
             x == Section("integrity", [form |-> "integrity", crc |-> sums, sha |-> sums])
             r == [q EXCEPT ![g] = x]  R == Recomputed(q)
  <1>1. Has(F, "integrity") /\ F.sections = q
    BY DEF Has, IsLast, Plain
  <1>2. g \in 1..Len(q) /\ q[g].type = "integrity"
    BY <1>1, StartLast
  <1>3. R = Plain(Len(q), r)
    BY DEF Recomputed
  <1>4. x.type = "integrity"
    BY DEF Section
  <1> HIDE DEF x, g, F
  <1>5. /\ IsSeq(r) /\ Len(r) = Len(q) /\ r[g] = x
        /\ \A j \in 1..Len(q) : j # g => r[j] = q[j]
    BY <1>2, SeqExcept
  <1> HIDE DEF r, R
  <1>6. R.sections = r /\ R = Plain(Len(q), R.sections)
    BY <1>3 DEF Plain
  <1>7. DOMAIN q = 1..Len(q) /\ DOMAIN r = 1..Len(q) /\ Len(q) \in Nat
    BY <1>5, SeqIs
  <1>8. \A j \in 1..Len(q) : r[j].type = "integrity" => j = g
    BY <1>2, <1>5, <1>7 DEF One
  <1>9. One(r) /\ IsLast(R, "integrity", g)
    BY <1>2, <1>4, <1>5, <1>6, <1>7, <1>8 DEF One, IsLast
  <1> QED
    BY <1>2, <1>5, <1>6, <1>9 DEF x, g, F, R

\* Where that section is the last, the file it closes is read if what precedes
\* it decodes.
LEMMA RecomputedParses ==
    ASSUME NEW q, IsSeq(q), One(q), Has(Plain(0, q), "integrity"),
           Start(Plain(Len(q), q), "integrity") = Len(q),
           Decodes(Plain(Len(q), SubSeq(q, 1, Len(q) - 1)))
    PROVE  /\ Parses(Recomputed(q))
           /\ SeedIn(Recomputed(q)) = SeedIn(Plain(Len(q), SubSeq(q, 1, Len(q) - 1)))
  <1> DEFINE n == Len(q)  w == SubSeq(q, 1, n - 1)  F == Plain(n, q)  G == Plain(n, w)
             R == Recomputed(q)  sums == FittingSums(F)
             b == [form |-> "integrity", crc |-> sums, sha |-> sums]
  <1>1. n \in Nat /\ DOMAIN q = 1..n
    BY SeqIs
  <1>2. /\ n \in 1..n /\ q[n].type = "integrity" /\ R = Plain(n, R.sections)
        /\ IsSeq(R.sections) /\ Len(R.sections) = n
        /\ R.sections[n] = Section("integrity", b)
        /\ \A j \in 1..n : j # n => R.sections[j] = q[j]
        /\ IsLast(R, "integrity", n)
    BY RecomputedShape
  <1>3. F.sections = q /\ F.count = n /\ R.count = n /\ R.form = "plain" /\ R.tail = 0
    BY <1>2 DEF Plain
  <1> HIDE DEF R, F, b
  <1>4. DOMAIN R.sections = 1..n
    BY <1>2, SeqIs
  <1>5. R.sections[n].type = "integrity" /\ R.sections[n].body = b
    BY <1>2 DEF Section
  <1>6. Alike(R, F)
    BY <1>1, <1>2, <1>3, <1>4, <1>5 DEF Alike, SameOf, Kinds
  <1>7. IsSeq(G.sections) /\ Alike(F, G)
    <2> DEFINE H == Plain(n, SubSeq(F.sections, 1, Len(F.sections) - 1))
    <2>1. /\ IsSeq(F.sections) /\ Len(F.sections) > 0
          /\ F.sections[Len(F.sections)].type = "integrity"
      BY <1>1, <1>2, <1>3
    <2>2. IsSeq(H.sections) /\ Alike(F, H)
      BY ONLY <2>1, HeadAlike
    <2>3. H = G
      BY <1>3
    <2> QED
      BY <2>2, <2>3
  <1> HIDE DEF G
  <1>8. Decodes(F) /\ SeedIn(F) = SeedIn(G)
    BY <1>3, <1>7, AlikeDecode DEF G, Decodes
  <1>9. Decodes(R) /\ SeedIn(R) = SeedIn(F)
    BY <1>2, <1>3, <1>6, <1>8, AlikeDecode DEF Decodes
  <1>10. Scans(R)
    BY <1>2, <1>3 DEF Scans
  <1>11. Has(R, "integrity") /\ IntegrityHolds(R)
    <2>1. Before(R, n) = Before(F, n)
      <3> DEFINE v == SubSeq(R.sections, 1, n - 1)
      <3>1. /\ 1 \in 1..n + 1 /\ n - 1 \in 1 - 1..n /\ (n - 1) - 1 + 1 = n - 1
            /\ \A j \in 1..n - 1 : 1 + j - 1 = j /\ j \in 1..n /\ j # n
        BY <1>1, <1>2
      <3>2. /\ IsSeq(w) /\ Len(w) = (n - 1) - 1 + 1
            /\ \A j \in 1..(n - 1) - 1 + 1 : w[j] = q[1 + j - 1]
        BY <3>1, SeqSub
      <3>3. /\ IsSeq(v) /\ Len(v) = (n - 1) - 1 + 1
            /\ \A j \in 1..(n - 1) - 1 + 1 : v[j] = R.sections[1 + j - 1]
        <4>1. 1 \in 1..Len(R.sections) + 1 /\ n - 1 \in 1 - 1..Len(R.sections)
          BY <1>2, <3>1
        <4> QED
          BY <1>2, <4>1, SeqSub
      <3> HIDE DEF n, v, w
      <3>4. Len(v) = Len(w) /\ \A j \in 1..Len(v) : v[j] = w[j]
        BY <1>2, <3>1, <3>2, <3>3
      <3>5. v = w
        BY <3>2, <3>3, <3>4, SeqSame
      <3> QED
        BY <1>3, <3>5 DEF Before, v, w
    <2>2. Start(F, "integrity") = n
      BY DEF F
    <2> DEFINE fields == {d \in Mandatory \union {"raw"} : d = "payload" \/ Has(F, d)}
    <2>3. sums = [d \in fields |-> Digested(F, d, Before(F, n))]
      BY <2>2 DEF FittingSums
    <2> HIDE DEF sums, n
    <2>4. Mandatory \subseteq DOMAIN sums
      BY <1>8, <2>3 DEF Decodes, Mandatory
    <2>5. \A d \in DOMAIN sums : sums[d] = Digested(R, d, Before(R, n))
      <3>1. \A t \in {"manifest", "recipe", "raw"} : Has(F, t) => Payload(R, t) = Payload(F, t)
        BY <1>2, <1>3, <1>6, SameStart DEF Alike, Kinds
      <3>2. \A d \in DOMAIN sums :
                d = "payload" \/ (d \in {"manifest", "recipe", "raw"} /\ Has(F, d))
        BY <2>3 DEF Mandatory
      <3>3. \A d \in DOMAIN sums : sums[d] = Digested(F, d, Before(F, n))
        BY <2>3
      <3> QED
        BY <2>1, <3>1, <3>2, <3>3 DEF Digested
    <2>6. Has(R, "signature") => Start(R, "signature") < n
      <3>1. ASSUME Has(R, "signature") PROVE Start(R, "signature") < n
        <4>1. /\ Start(R, "signature") \in 1..n
              /\ R.sections[Start(R, "signature")].type = "signature"
          BY <3>1, <1>2, StartLast
        <4> QED
          BY <4>1, <1>1, <1>5
      <3> QED
        BY <3>1
    <2> QED
      BY <1>2, <1>5, <2>4, <2>5, <2>6, SumsFit DEF b
  <1> QED
    BY <1>8, <1>9, <1>10, <1>11 DEF Parses, Decodes, R, G

\* A file that another tool closes again reads as the seed found in it then.
LEMMA RecomputedOK ==
    ASSUME NEW q, IsSeq(q), One(q), Has(Plain(0, q), "integrity"), NEW S,
           \A i \in DOMAIN q : SectionOK(q[i], S), NEW W
    PROVE  LET R == Recomputed(q)
           IN  FileOK(R, S) /\ R.form = "plain" /\ Reads(R, Kept(R), Found(R, W))
  <1> DEFINE n == Len(q)  F == Plain(n, q)  g == Start(F, "integrity")  R == Recomputed(q)
             sums == FittingSums(F)  w == SubSeq(q, 1, g - 1)
             b == [form |-> "integrity", crc |-> sums, sha |-> sums]
  <1>1. n \in Nat /\ DOMAIN q = 1..n
    BY SeqIs
  <1>2. /\ g \in 1..n /\ q[g].type = "integrity" /\ R = Plain(n, R.sections)
        /\ IsSeq(R.sections) /\ Len(R.sections) = n
        /\ R.sections[g] = Section("integrity", b)
        /\ \A j \in 1..n : j # g => R.sections[j] = q[j]
        /\ One(R.sections) /\ IsLast(R, "integrity", g)
    BY RecomputedShape
  <1>3. R.count = n /\ R.form = "plain" /\ IsPlain(R)
    BY <1>2 DEF Plain, IsPlain
  <1>4. Before(F, g) = [count |-> n, sections |-> w]
    BY DEF Before, Plain
  <1>5. sums["payload"] = [count |-> n, sections |-> w]
    BY <1>4 DEF FittingSums, Digested, Mandatory
  <1> HIDE DEF R, sums
  <1>6. DOMAIN R.sections = 1..n
    BY <1>2, SeqIs
  <1>7. R.sections[g].type = "integrity" /\ R.sections[g].body = b
    BY <1>2 DEF Section
  <1>8. b.form = "integrity" /\ b = [form |-> "integrity", crc |-> b.crc, sha |-> b.sha]
        /\ b.crc = sums
    OBVIOUS
  <1> HIDE DEF b, g, n
  <1>9. FileOK(R, S)
    <2>1. SectionOK(R.sections[g], S)
      BY <1>7, <1>8 DEF SectionOK
    <2>2. \A j \in DOMAIN R.sections : SectionOK(R.sections[j], S)
      BY <1>1, <1>2, <1>6, <2>1
    <2> QED
      BY <1>2, <1>3, <2>2 DEF FileOK
  <1>10. CASE Ended(R)
    <2>1. g = n
      BY <1>2, <1>6, <1>7, <1>10 DEF Ended, One
    <2>2. ASSUME Decodes(Plain(n, w))
          PROVE  Parses(R) /\ SeedIn(R) = SeedIn(Plain(n, w))
      BY <2>1, <2>2, RecomputedParses DEF R, n, g
    <2>3. Leading(sums["payload"]) = Plain(n, w)
      BY <1>5 DEF Leading
    <2>4. Binds(b, Kept(R), Found(R, W))
      BY <1>8, <2>2, <2>3 DEF Binds, Kept, Found
    <2>5. Bound(R, Kept(R), Found(R, W))
      BY <1>2, <1>6, <1>7, <2>4 DEF Bound, One
    <2> QED
      BY <1>3, <1>9, <1>10, <2>5 DEF Reads, R
  <1>11. CASE ~Ended(R)
    BY <1>3, <1>9, <1>11 DEF Reads, Kept, Found, R
  <1> QED
    BY <1>10, <1>11

-----------------------------------------------------------------------------
(* The inductive invariant.  W are the seeds somebody closed a file around,  *)
(* B those not only under a passphrase, S the pairs that were signed.        *)

\* What write_seed and sign_seed_file put into a file.
Made(b, s, W, B, S) ==
    /\ Wellformed(s) /\ s \in W
    /\ \E z \in Compression, k \in Key :
        /\ k # NoKey => <<k, s>> \in S
        /\ \/ b = Serialize(s, z, k) /\ s \in B
           \/ \E e \in Passphrases, crypto \in BOOLEAN :
                  b = Encrypt(Serialize(s, z, k), e, crypto)

SealedOK(F, s, W, S) ==
    /\ F = [form |-> "sealed", version |-> F.version, passphrase |-> F.passphrase,
            inner |-> F.inner, errors |-> F.errors, tail |-> F.tail]
    /\ Wellformed(s) /\ s \in W
    /\ \E z \in Compression, k \in Key :
        F.inner = Serialize(s, z, k) /\ (k # NoKey => <<k, s>> \in S)

PlainOK(F, s, W, B, S) ==
    F.form = "plain" /\ FileOK(F, S) /\ Reads(F, s, W \intersect B)

FileState(F, s, W, B, S) ==
    F = NoFile \/ F = Empty \/ PlainOK(F, s, W, B, S) \/ SealedOK(F, s, W, S)

Shapes ==
    DOMAIN files = Path /\ DOMAIN meant = Path /\ DOMAIN pc = Client /\ DOMAIN job = Client

FilesOK == \A p \in Path : FileState(files[p], meant[p], written, bare, signed)

JobsOK ==
    \A c \in Client : pc[c] # "idle" =>
        job[c].path \in Path /\ Made(job[c].bytes, job[c].seed, written, bare, signed)

CleanOK == \A p \in clean : p \in Path /\ Made(files[p], meant[p], written, bare, signed)

FilesInv == Shapes /\ FilesOK /\ JobsOK /\ CleanOK /\ VouchedWasWritten

LEMMA MadeGrows ==
    ASSUME NEW b, NEW s, NEW W, NEW B, NEW S, Made(b, s, W, B, S),
           NEW W2, W \subseteq W2, NEW B2, B \subseteq B2, NEW S2, S \subseteq S2
    PROVE  Made(b, s, W2, B2, S2)
  BY DEF Made

LEMMA SectionGrows ==
    ASSUME NEW x, NEW S, SectionOK(x, S), NEW S2, S \subseteq S2
    PROVE  SectionOK(x, S2)
  <1>1. Vouched(x.body, S) => Vouched(x.body, S2)
    BY DEF Vouched
  <1> QED
    BY <1>1 DEF SectionOK

LEMMA StateGrows ==
    ASSUME NEW F, NEW s, NEW W, NEW B, NEW S, FileState(F, s, W, B, S),
           NEW W2, W \subseteq W2, NEW B2, B \subseteq B2, NEW S2, S \subseteq S2
    PROVE  FileState(F, s, W2, B2, S2)
  <1>1. CASE PlainOK(F, s, W, B, S)
    <2> DEFINE V == W \intersect B  V2 == W2 \intersect B2
    <2>1. V \subseteq V2
      OBVIOUS
    <2> HIDE DEF V, V2
    <2>2. F.form = "plain" /\ FileOK(F, S) /\ Reads(F, s, V)
      BY <1>1 DEF PlainOK, V
    <2>3. FileOK(F, S2)
      BY <2>2, SectionGrows DEF FileOK
    <2>4. \A b : Binds(b, s, V) => Binds(b, s, V2)
      BY <2>1 DEF Binds
    <2>5. Reads(F, s, V2)
      BY <2>1, <2>2, <2>4 DEF Reads, Bound
    <2> QED
      BY <2>2, <2>3, <2>5 DEF FileState, PlainOK, V2
  <1>2. CASE SealedOK(F, s, W, S)
    <2>1. SealedOK(F, s, W2, S2)
      BY <1>2 DEF SealedOK
    <2> QED
      BY <2>1 DEF FileState
  <1> QED
    BY <1>1, <1>2 DEF FileState

\* What lands on the path, with or without bytes of another writer behind it.
LEMMA MadeState ==
    ASSUME NEW b, NEW s, NEW W, NEW B, NEW S, Made(b, s, W, B, S), NEW x
    PROVE  /\ FileState([b EXCEPT !.tail = x], s, W, B, S)
           /\ x = 0 => [b EXCEPT !.tail = x] = b
  <1>1. PICK z \in Compression, k \in Key :
            /\ k # NoKey => <<k, s>> \in S
            /\ \/ b = Serialize(s, z, k) /\ s \in B
               \/ \E e \in Passphrases, crypto \in BOOLEAN :
                      b = Encrypt(Serialize(s, z, k), e, crypto)
    BY DEF Made
  <1>2. Wellformed(s) /\ s \in W
    BY DEF Made
  <1>3. CASE b = Serialize(s, z, k) /\ s \in B
    <2>1. /\ FileOK(b, S) /\ b.form = "plain" /\ b.tail = 0 /\ Ended(b)
          /\ Bound(b, s, W \intersect B)
      BY <1>1, <1>2, <1>3, SerializeOK
    <2>2. b = [form |-> "plain", count |-> b.count, sections |-> b.sections, tail |-> 0]
      BY <2>1 DEF FileOK, IsPlain
    <2> DEFINE G == [form |-> "plain", count |-> b.count, sections |-> b.sections, tail |-> x]
    <2>3. [b EXCEPT !.tail = x] = G
      BY <2>2
    <2>4. FileOK(G, S) /\ G.form = "plain" /\ Reads(G, s, W \intersect B)
      BY <2>1, Reframed
    <2> QED
      BY <2>2, <2>3, <2>4 DEF FileState, PlainOK
  <1>4. ASSUME NEW e \in Passphrases, NEW crypto \in BOOLEAN,
               b = Encrypt(Serialize(s, z, k), e, crypto)
        PROVE  /\ FileState([b EXCEPT !.tail = x], s, W, B, S)
               /\ x = 0 => [b EXCEPT !.tail = x] = b
    <2> DEFINE F == Serialize(s, z, k)  v == IF crypto THEN 3 ELSE 2
               G == [form |-> "sealed", version |-> v, passphrase |-> e, inner |-> F,
                     errors |-> 0, tail |-> x]
    <2> HIDE DEF F, v
    <2>1. b = [form |-> "sealed", version |-> v, passphrase |-> e, inner |-> F,
               errors |-> 0, tail |-> 0]
      BY <1>4 DEF Encrypt, F, v
    <2>2. [b EXCEPT !.tail = x] = G /\ (x = 0 => G = b)
      BY <2>1
    <2>3. SealedOK(G, s, W, S)
      BY <1>1, <1>2 DEF SealedOK, F
    <2> QED
      BY <2>2, <2>3 DEF FileState
  <1> QED
    BY <1>1, <1>3, <1>4

LEMMA BeginInv ==
    ASSUME FilesInv, NEW c \in Client, NEW p \in Path, NEW s, NEW b, Begin(c, p, s, b),
           Made(b, s, written', bare', signed'), written \subseteq written',
           bare \subseteq bare', signed \subseteq signed', VouchedWasWritten'
    PROVE  FilesInv'
  <1>1. /\ files' = files /\ meant' = meant /\ clean' = clean
        /\ pc' = [pc EXCEPT ![c] = "open"]
        /\ job' = [job EXCEPT ![c] = [path |-> p, seed |-> s, bytes |-> b]]
    BY DEF Begin
  <1>2. Shapes'
    BY <1>1 DEF FilesInv, Shapes
  <1>3. FilesOK'
    BY <1>1, StateGrows DEF FilesInv, FilesOK
  <1>4. JobsOK'
    <2>1. ASSUME NEW d \in Client, d # c, pc'[d] # "idle"
          PROVE  job'[d].path \in Path /\ Made(job'[d].bytes, job'[d].seed, written', bare', signed')
      <3>1. pc'[d] = pc[d] /\ job'[d] = job[d]
        BY <1>1, <2>1 DEF FilesInv, Shapes
      <3> QED
        BY <2>1, <3>1, MadeGrows DEF FilesInv, JobsOK
    <2>2. job'[c].path = p /\ job'[c].bytes = b /\ job'[c].seed = s
      BY <1>1 DEF FilesInv, Shapes
    <2> QED
      BY <2>1, <2>2 DEF JobsOK
  <1>5. CleanOK'
    BY <1>1, MadeGrows DEF FilesInv, CleanOK
  <1> QED
    BY <1>2, <1>3, <1>4, <1>5 DEF FilesInv

LEMMA WriteStartInv ==
    ASSUME FilesInv, NEW c \in Client, WriteStart(c)
    PROVE  FilesInv'
  <1>1. PICK p \in Path, s \in Seeds, z \in Compression, k \in Key, e \in Pass :
            /\ Begin(c, p, s, IF e = NoKey THEN Serialize(s, z, k)
                              ELSE Encrypt(Serialize(s, z, k), e, c \in WithCrypto))
            /\ written' = written \union {s}
            /\ bare' = IF e = NoKey THEN bare \union {s} ELSE bare
            /\ signed' = IF k = NoKey THEN signed ELSE signed \union {<<k, s>>}
    BY DEF WriteStart
  <1> DEFINE b == IF e = NoKey THEN Serialize(s, z, k)
                  ELSE Encrypt(Serialize(s, z, k), e, c \in WithCrypto)
  <1>2. Made(b, s, written', bare', signed')
    <2>1. Wellformed(s) /\ s \in written' /\ (k # NoKey => <<k, s>> \in signed')
      BY <1>1, SeedsWellformed
    <2>2. CASE e = NoKey
      <3>1. b = Serialize(s, z, k) /\ s \in bare'
        BY <1>1, <2>2
      <3> HIDE DEF b
      <3> QED
        BY <2>1, <3>1 DEF Made
    <2>3. CASE e # NoKey
      <3>1. b = Encrypt(Serialize(s, z, k), e, c \in WithCrypto)
        BY <2>3
      <3>2. e \in Passphrases /\ (c \in WithCrypto) \in BOOLEAN
        BY <2>3 DEF Pass
      <3> HIDE DEF b
      <3> QED
        BY <2>1, <3>1, <3>2 DEF Made
    <2> QED
      BY <2>2, <2>3
  <1>3. written \subseteq written' /\ bare \subseteq bare' /\ signed \subseteq signed'
    BY <1>1
  <1>4. VouchedWasWritten'
    <2>1. \A v \in signed' : v \in signed \/ v[2] = s
      BY <1>1
    <2> QED
      BY <1>1, <2>1 DEF FilesInv, VouchedWasWritten
  <1>5. Begin(c, p, s, b)
    BY <1>1
  <1> HIDE DEF b
  <1> QED
    BY <1>2, <1>3, <1>4, <1>5, BeginInv

LEMMA StatePlain ==
    ASSUME NEW F, NEW s, NEW W, NEW B, NEW S, FileState(F, s, W, B, S)
    PROVE  /\ F.form = "plain" => PlainOK(F, s, W, B, S)
           /\ F.form = "sealed" => SealedOK(F, s, W, S)
  <1>1. CASE F = NoFile \/ F = Empty
    BY <1>1 DEF NoFile, Empty
  <1>2. CASE PlainOK(F, s, W, B, S)
    BY <1>2 DEF PlainOK
  <1>3. CASE SealedOK(F, s, W, S)
    <2>1. F.form = "sealed"
      BY <1>3 DEF SealedOK
    <2> QED
      BY <1>3, <2>1
  <1> QED
    BY <1>1, <1>2, <1>3 DEF FileState

\* A file that is read without a passphrase is a plain one.
LEMMA PlainRead ==
    ASSUME FilesInv, NEW p \in Path, Parses(files[p])
    PROVE  /\ files[p].form = "plain" /\ PlainOK(files[p], meant[p], written, bare, signed)
           /\ SeedIn(files[p]) = meant[p] /\ meant[p] \in written /\ meant[p] \in bare
           /\ Wellformed(meant[p]) /\ CompressionIn(files[p]) \in Compression
  <1>1. files[p].form = "plain"
    BY DEF Parses, Scans
  <1>2. PlainOK(files[p], meant[p], written, bare, signed)
    BY <1>1, StatePlain DEF FilesInv, FilesOK
  <1>3. SeedIn(files[p]) = meant[p] /\ meant[p] \in written \intersect bare
    BY <1>2, FileReads DEF PlainOK
  <1>4. Wellformed(SeedIn(files[p]))
    BY <1>2, ParsedWellformed DEF PlainOK
  <1>5. CompressionIn(files[p]) \in Compression
    BY DEF Parses, Decodes, ManifestDecodes, CompressionIn
  <1> QED
    BY <1>1, <1>2, <1>3, <1>4, <1>5

LEMMA SignStartInv ==
    ASSUME FilesInv, NEW c \in Client, SignStart(c)
    PROVE  FilesInv'
  <1>1. PICK p \in Path, q \in Path, k \in Keys :
            /\ SignReadable(files[p], c)
            /\ Begin(c, q, SeedIn(Inner(files[p])),
                     Serialize(SeedIn(Inner(files[p])), CompressionIn(Inner(files[p])), k))
            /\ signed' = signed \union {<<k, SeedIn(Inner(files[p]))>>}
            /\ UNCHANGED <<written, bare>>
    BY DEF SignStart
  <1>2. Inner(files[p]) = files[p] /\ Parses(files[p])
    BY <1>1 DEF SignReadable, Readable, Inner
  <1> DEFINE s == SeedIn(files[p])  z == CompressionIn(files[p])  b == Serialize(s, z, k)
  <1>3. Wellformed(s) /\ s \in written /\ s \in bare /\ z \in Compression
    BY <1>2, PlainRead
  <1>4. Begin(c, q, s, b) /\ signed' = signed \union {<<k, s>>}
    BY <1>1, <1>2
  <1> HIDE DEF s, z
  <1>5. k \in Key /\ k # NoKey
    BY FilesAssumption DEF Key
  <1>6. Made(b, s, written', bare', signed')
    BY <1>1, <1>3, <1>4, <1>5 DEF Made
  <1>7. VouchedWasWritten'
    <2>1. \A v \in signed' : v \in signed \/ v[2] = s
      BY <1>4
    <2> QED
      BY <1>1, <1>3, <2>1 DEF FilesInv, VouchedWasWritten
  <1> HIDE DEF b
  <1> QED
    BY <1>1, <1>4, <1>6, <1>7, BeginInv

LEMMA OpenInv ==
    ASSUME FilesInv, NEW c \in Client, Open(c)
    PROVE  FilesInv'
  <1> DEFINE q == job[c].path
  <1>1. /\ pc[c] = "open" /\ pc' = [pc EXCEPT ![c] = "flush"]
        /\ files' = [files EXCEPT ![q] = Empty] /\ clean' = clean \ {q}
        /\ job' = job /\ meant' = meant /\ written' = written /\ bare' = bare
        /\ signed' = signed
    BY DEF Open
  <1>2. \A p \in Path : files'[p] = IF p = q THEN Empty ELSE files[p]
    BY <1>1 DEF FilesInv, Shapes
  <1> HIDE DEF q
  <1>3. Shapes'
    BY <1>1 DEF FilesInv, Shapes
  <1>4. FilesOK'
    BY <1>1, <1>2 DEF FilesInv, FilesOK, FileState
  <1>5. JobsOK'
    <2>1. \A d \in Client : pc'[d] # "idle" => pc[d] # "idle"
      BY <1>1 DEF FilesInv, Shapes
    <2> QED
      BY <1>1, <2>1 DEF FilesInv, JobsOK
  <1>6. CleanOK'
    BY <1>1, <1>2 DEF FilesInv, CleanOK
  <1>7. VouchedWasWritten'
    BY <1>1 DEF FilesInv, VouchedWasWritten
  <1> QED
    BY <1>3, <1>4, <1>5, <1>6, <1>7 DEF FilesInv

LEMMA FlushInv ==
    ASSUME FilesInv, NEW c \in Client, Flush(c)
    PROVE  FilesInv'
  <1> DEFINE q == job[c].path  b == job[c].bytes  s == job[c].seed
  <1>1. PICK x \in {0, 1} :
            /\ files' = [files EXCEPT ![q] = [b EXCEPT !.tail = x]]
            /\ clean' = IF x > 0 THEN clean \ {q} ELSE clean \union {q}
    BY DEF Flush
  <1>2. /\ pc[c] = "flush" /\ meant' = [meant EXCEPT ![q] = s]
        /\ pc' = [pc EXCEPT ![c] = "idle"] /\ job' = [job EXCEPT ![c] = NoJob]
        /\ written' = written /\ bare' = bare /\ signed' = signed
    BY DEF Flush, Ends
  <1>3. q \in Path /\ Made(b, s, written, bare, signed)
    BY <1>2 DEF FilesInv, JobsOK
  <1> DEFINE G == [b EXCEPT !.tail = x]
  <1>4. FileState(G, s, written, bare, signed) /\ (x = 0 => G = b)
    BY <1>3, MadeState
  <1> HIDE DEF G
  <1>5. /\ \A p \in Path : files'[p] = IF p = q THEN G ELSE files[p]
        /\ \A p \in Path : meant'[p] = IF p = q THEN s ELSE meant[p]
    BY <1>1, <1>2 DEF FilesInv, Shapes, G
  <1> HIDE DEF q, b, s
  <1>6. Shapes'
    BY <1>1, <1>2 DEF FilesInv, Shapes
  <1>7. FilesOK'
    BY <1>2, <1>4, <1>5 DEF FilesInv, FilesOK
  <1>8. JobsOK'
    <2>1. \A d \in Client : pc'[d] # "idle" => d # c /\ pc[d] # "idle" /\ job'[d] = job[d]
      BY <1>2 DEF FilesInv, Shapes
    <2> QED
      BY <1>2, <2>1 DEF FilesInv, JobsOK
  <1>9. CleanOK'
    <2>1. \A p \in clean' : p # q => p \in clean
      BY <1>1
    <2>2. q \in clean' => x = 0
      BY <1>1
    <2> QED
      BY <1>2, <1>3, <1>4, <1>5, <2>1, <2>2 DEF FilesInv, CleanOK
  <1>10. VouchedWasWritten'
    BY <1>2 DEF FilesInv, VouchedWasWritten
  <1> QED
    BY <1>6, <1>7, <1>8, <1>9, <1>10 DEF FilesInv

LEMMA KillInv ==
    ASSUME FilesInv, NEW c \in Client, Kill(c)
    PROVE  FilesInv'
  <1>1. /\ pc' = [pc EXCEPT ![c] = "idle"] /\ job' = [job EXCEPT ![c] = NoJob]
        /\ files' = files /\ meant' = meant /\ clean' = clean /\ written' = written
        /\ bare' = bare /\ signed' = signed
    BY DEF Kill, Ends, traceVars
  <1>2. Shapes'
    BY <1>1 DEF FilesInv, Shapes
  <1>3. FilesOK' /\ CleanOK' /\ VouchedWasWritten'
    BY <1>1 DEF FilesInv, FilesOK, CleanOK, VouchedWasWritten
  <1>4. JobsOK'
    <2>1. \A d \in Client : pc'[d] # "idle" => pc[d] # "idle" /\ job'[d] = job[d]
      BY <1>1 DEF FilesInv, Shapes
    <2> QED
      BY <1>1, <2>1 DEF FilesInv, JobsOK
  <1> QED
    BY <1>2, <1>3, <1>4 DEF FilesInv

\* What a protected file decays into keeps to the state of a file.
LEMMA DamagedState ==
    ASSUME NEW F, NEW s, NEW W, NEW B, NEW S, FileState(F, s, W, B, S), Protected(F),
           NEW G \in Decayed(F)
    PROVE  FileState(G, s, W, B, S)
  <1>1. CASE F.form = "plain"
    <2>1. FileOK(F, S) /\ Reads(F, s, W \intersect B)
      BY <1>1, StatePlain DEF PlainOK
    <2>2. F.sections # <<>> /\ F.sections[Len(F.sections)].type = "integrity"
      BY <1>1 DEF Protected
    <2>3. Len(F.sections) > 0
      <3>1. IsSeq(F.sections) /\ Len(F.sections) \in Nat
        BY <2>1, SeqIs DEF FileOK
      <3>2. <<>> \in Seq({}) /\ Len(<<>>) = 0
        OBVIOUS
      <3>3. ASSUME Len(F.sections) = 0 PROVE FALSE
        <4>1. \A i \in 1..Len(F.sections) : F.sections[i] = <<>>[i]
          BY <3>3
        <4>2. IsSeq(<<>>)
          BY <3>2 DEF IsSeq
        <4>3. F.sections = <<>>
          BY <3>1, <3>2, <3>3, <4>1, <4>2, SeqSame
        <4> QED
          BY <2>2, <4>3
      <3> QED
        BY <3>1, <3>3
    <2>4. Ended(F) /\ Bound(F, s, W \intersect B)
      BY <2>1, <2>2, <2>3 DEF Ended, Reads
    <2>5. \/ G = Empty
          \/ FileOK(G, S) /\ G.form = "plain" /\ Reads(G, s, W \intersect B)
      BY <2>1, <2>4, DecayOK
    <2> QED
      BY <2>5 DEF FileState, PlainOK
  <1>2. CASE F.form = "sealed"
    <2>1. SealedOK(F, s, W, S)
      BY <1>2, StatePlain
    <2>2. F = [form |-> "sealed", version |-> F.version, passphrase |-> F.passphrase,
               inner |-> F.inner, errors |-> F.errors, tail |-> F.tail]
      BY <2>1 DEF SealedOK
    <2>3. G = [F EXCEPT !.errors = 1] \/ G = [F EXCEPT !.tail = 1]
      BY <1>2 DEF Decayed
    <2>4. PICK x, y : G = [form |-> "sealed", version |-> F.version,
                           passphrase |-> F.passphrase, inner |-> F.inner,
                           errors |-> x, tail |-> y]
      BY <2>2, <2>3
    <2>5. SealedOK(G, s, W, S)
      BY <2>1, <2>4 DEF SealedOK
    <2> QED
      BY <2>5 DEF FileState
  <1> QED
    BY <1>1, <1>2 DEF Protected

LEMMA DamageInv ==
    ASSUME FilesInv, NEW q \in Path, Damage(q)
    PROVE  FilesInv'
  <1>1. PICK G \in Decayed(files[q]) : files' = [files EXCEPT ![q] = G]
    BY DEF Damage
  <1>2. /\ Protected(files[q]) /\ clean' = clean \ {q}
        /\ pc' = pc /\ job' = job /\ meant' = meant /\ written' = written
        /\ bare' = bare /\ signed' = signed
    BY DEF Damage, ownVars
  <1>3. FileState(G, meant[q], written, bare, signed)
    BY <1>2, DamagedState DEF FilesInv, FilesOK
  <1>4. \A p \in Path : files'[p] = IF p = q THEN G ELSE files[p]
    BY <1>1 DEF FilesInv, Shapes
  <1>5. Shapes'
    BY <1>1, <1>2 DEF FilesInv, Shapes
  <1>6. FilesOK'
    BY <1>2, <1>3, <1>4 DEF FilesInv, FilesOK
  <1>7. JobsOK' /\ VouchedWasWritten'
    BY <1>2 DEF FilesInv, JobsOK, VouchedWasWritten
  <1>8. CleanOK'
    BY <1>2, <1>4 DEF FilesInv, CleanOK
  <1> QED
    BY <1>5, <1>6, <1>7, <1>8 DEF FilesInv

LEMMA PoolOK ==
    ASSUME FilesInv, NEW x \in Pool
    PROVE  SectionOK(x, signed) /\ x.type # "integrity"
  <1>1. CASE x \in Parts
    BY <1>1, PartOK
  <1>2. ASSUME NEW q \in Path, files[q].form = "plain", NEW i \in DOMAIN files[q].sections,
               x = files[q].sections[i], x.type = "signature"
        PROVE  SectionOK(x, signed) /\ x.type # "integrity"
    <2>1. FileState(files[q], meant[q], written, bare, signed)
      BY DEF FilesInv, FilesOK
    <2>2. FileOK(files[q], signed)
      BY <1>2, <2>1, StatePlain DEF PlainOK
    <2> QED
      BY <1>2, <2>2 DEF FileOK
  <1> QED
    BY <1>1, <1>2 DEF Pool

LEMMA EditInv ==
    ASSUME FilesInv, NEW q \in Path, Edit(q)
    PROVE  FilesInv'
  <1>1. PICK sections \in Edited(files[q].sections, Pool) :
            LET F == Recomputed(sections)
                kept == Parses(F)
            IN  /\ Has(Plain(0, sections), "integrity")
                /\ files' = [files EXCEPT ![q] = F]
                /\ meant' = [meant EXCEPT ![q] = IF kept THEN SeedIn(F) ELSE NoSeed]
                /\ written' = IF kept THEN written \union {SeedIn(F)} ELSE written
                /\ bare' = IF kept THEN bare \union {SeedIn(F)} ELSE bare
    BY DEF Edit
  <1>2. /\ files[q].form = "plain" /\ clean' = clean \ {q}
        /\ pc' = pc /\ job' = job /\ signed' = signed
    BY DEF Edit, ownVars
  <1> DEFINE F == Recomputed(sections)  V == written \intersect bare
  <1>3. /\ Has(Plain(0, sections), "integrity")
        /\ files' = [files EXCEPT ![q] = F] /\ meant' = [meant EXCEPT ![q] = Kept(F)]
        /\ written' = Found(F, written) /\ bare' = Found(F, bare)
    BY <1>1 DEF Kept, Found
  <1>4. IsSeq(sections) /\ One(sections) /\ \A i \in DOMAIN sections : SectionOK(sections[i], signed)
    <2>1. FileState(files[q], meant[q], written, bare, signed)
      BY DEF FilesInv, FilesOK
    <2>2. FileOK(files[q], signed)
      BY <1>2, <2>1, StatePlain DEF PlainOK
    <2>3. IsSeq(sections) /\ From(sections, files[q].sections, Pool)
      BY <2>2, EditedFrom DEF FileOK
    <2> QED
      BY <2>2, <2>3, PoolOK, FromOK DEF FileOK
  <1>5. FileOK(F, signed) /\ F.form = "plain" /\ Reads(F, Kept(F), Found(F, V))
    BY <1>3, <1>4, RecomputedOK
  <1> HIDE DEF F
  <1>6. Found(F, V) = written' \intersect bare' /\ written \subseteq written' /\ bare \subseteq bare'
    BY <1>3 DEF Found
  <1>7. FileState(F, Kept(F), written', bare', signed)
    BY <1>5, <1>6 DEF FileState, PlainOK
  <1>8. /\ \A p \in Path : files'[p] = IF p = q THEN F ELSE files[p]
        /\ \A p \in Path : meant'[p] = IF p = q THEN Kept(F) ELSE meant[p]
    BY <1>3 DEF FilesInv, Shapes
  <1>9. Shapes'
    BY <1>2, <1>3 DEF FilesInv, Shapes
  <1>10. FilesOK'
    <2>1. ASSUME NEW p \in Path, p # q
          PROVE  FileState(files'[p], meant'[p], written', bare', signed')
      BY <1>2, <1>6, <1>8, <2>1, StateGrows DEF FilesInv, FilesOK
    <2> QED
      BY <1>2, <1>7, <1>8, <2>1 DEF FilesOK
  <1>11. JobsOK'
    BY <1>2, <1>6, MadeGrows DEF FilesInv, JobsOK
  <1>12. CleanOK'
    BY <1>2, <1>6, <1>8, MadeGrows DEF FilesInv, CleanOK
  <1>13. VouchedWasWritten'
    BY <1>2, <1>6 DEF FilesInv, VouchedWasWritten
  <1> QED
    BY <1>9, <1>10, <1>11, <1>12, <1>13 DEF FilesInv

-----------------------------------------------------------------------------
(* The invariant and what follows from it.                                  *)

LEMMA FilesInitially == FilesInit => FilesInv
  BY DEF FilesInit, FilesInv, Shapes, FilesOK, FileState, JobsOK, CleanOK, VouchedWasWritten

LEMMA FilesStep == FilesInv /\ [FilesNext]_fileVars => FilesInv'
  <1> SUFFICES ASSUME FilesInv, [FilesNext]_fileVars PROVE FilesInv'
    OBVIOUS
  <1>1. ASSUME NEW c \in Client, WriteStart(c) PROVE FilesInv'
    BY <1>1, WriteStartInv
  <1>2. ASSUME NEW c \in Client, SignStart(c) PROVE FilesInv'
    BY <1>2, SignStartInv
  <1>3. ASSUME NEW c \in Client, Open(c) PROVE FilesInv'
    BY <1>3, OpenInv
  <1>4. ASSUME NEW c \in Client, Flush(c) PROVE FilesInv'
    BY <1>4, FlushInv
  <1>5. ASSUME NEW c \in Client, Kill(c) PROVE FilesInv'
    BY <1>5, KillInv
  <1>6. ASSUME NEW p \in Path, Damage(p) PROVE FilesInv'
    BY <1>6, DamageInv
  <1>7. ASSUME NEW p \in Path, Edit(p) PROVE FilesInv'
    BY <1>7, EditInv
  <1>8. CASE UNCHANGED fileVars
    BY <1>8 DEF FilesInv, Shapes, FilesOK, JobsOK, CleanOK, VouchedWasWritten,
                fileVars, ownVars, bounds, traceVars
  <1> QED
    BY <1>1, <1>2, <1>3, <1>4, <1>5, <1>6, <1>7, <1>8 DEF FilesNext

\* Every reachable state satisfies the invariant: each file is absent, cut off
\* or in a state its last writer, decay or another tool leaves.
THEOREM FilesInvariant == FilesSpec => []FilesInv
  BY FilesInitially, FilesStep, PTL DEF FilesSpec

\* What is in a file that can be read at all is a seed file of the state
\* FileState says; inside an envelope it is the one serialize_seed made.
LEMMA WhatIsRead ==
    ASSUME FilesInv, NEW p \in Path, NEW e \in Pass, NEW crypto \in BOOLEAN,
           Readable(files[p], e, crypto)
    PROVE  LET F == Inner(files[p])
           IN  FileOK(F, signed) /\ SeedIn(F) = meant[p] /\ Parses(F)
  <1> DEFINE F == Inner(files[p])
  <1>1. Parses(F) /\ FileState(files[p], meant[p], written, bare, signed)
    BY DEF Readable, FilesInv, FilesOK
  <1>2. CASE files[p].form = "sealed"
    <2>1. SealedOK(files[p], meant[p], written, signed) /\ F = files[p].inner
      BY <1>1, <1>2, StatePlain DEF Inner
    <2>2. PICK z \in Compression, k \in Key :
              F = Serialize(meant[p], z, k) /\ (k # NoKey => <<k, meant[p]>> \in signed)
      BY <2>1 DEF SealedOK
    <2>3. Wellformed(meant[p])
      BY <2>1 DEF SealedOK
    <2> HIDE DEF F
    <2>4. FileOK(F, signed) /\ Ended(F) /\ Bound(F, meant[p], {meant[p]})
      <3>1. meant[p] \in {meant[p]}
        OBVIOUS
      <3> QED
        BY <2>2, <2>3, <3>1, SerializeOK
    <2>5. SeedIn(F) = meant[p]
      BY <1>1, <2>4, EndedReads
    <2> QED
      BY <1>1, <2>4, <2>5 DEF F
  <1>3. CASE files[p].form # "sealed"
    <2>1. F = files[p]
      BY <1>3 DEF Inner
    <2>2. PlainOK(files[p], meant[p], written, bare, signed) /\ SeedIn(files[p]) = meant[p]
      BY <1>1, <2>1, PlainRead
    <2> QED
      BY <1>1, <2>1, <2>2 DEF PlainOK
  <1> QED
    BY <1>2, <1>3

\* Whatever reads is the seed the last writer of the path meant: sections that
\* are lost, doubled or renamed, a wrong count and missing digests are refused.
THEOREM SeedReadBack == FilesSpec => []ReadBack
  <1>1. FilesInv => ReadBack
    BY WhatIsRead DEF ReadBack
  <1> QED
    BY <1>1, FilesInvariant, PTL

\* A seed under a signature that verifies is one a holder of the key signed.
THEOREM SeedSignedIsVouched == FilesSpec => []SignedIsVouched
  <1>1. FilesInv => SignedIsVouched
    <2> SUFFICES ASSUME FilesInv, NEW p \in Path, NEW e \in Pass, NEW crypto \in BOOLEAN,
                        NEW k \in Keys, Readable(files[p], e, crypto),
                        SignaturePhase(Inner(files[p]), TRUE, k)
                 PROVE  <<k, SeedIn(Inner(files[p]))>> \in signed
      BY DEF SignedIsVouched
    <2>1. FileOK(Inner(files[p]), signed) /\ Parses(Inner(files[p]))
      BY WhatIsRead
    <2>2. k # NoKey
      BY FilesAssumption
    <2> QED
      BY <2>1, <2>2, VouchedFile
  <1> QED
    BY <1>1, FilesInvariant, PTL

\* Whoever signs, signs what somebody closed a file around.
THEOREM SeedVouchedWasWritten == FilesSpec => []VouchedWasWritten
  <1>1. FilesInv => VouchedWasWritten
    BY DEF FilesInv
  <1> QED
    BY <1>1, FilesInvariant, PTL

\* A seed written only under a passphrase is in no plain file.
THEOREM SeedStaysSealed == FilesSpec => []SealedStaysSealed
  <1>1. FilesInv => SealedStaysSealed
    BY PlainRead DEF SealedStaysSealed
  <1> QED
    BY <1>1, FilesInvariant, PTL

\* A file nobody touched since its writer finished reads as that seed, unless
\* it embeds a chunk too large for the reader.
THEOREM SeedCleanReadable == FilesSpec => []CleanReadable
  <1>1. FilesInv => CleanReadable
    <2> SUFFICES ASSUME FilesInv, NEW p \in clean, Fits(meant[p])
                 PROVE  Parses(Inner(files[p])) /\ SeedIn(Inner(files[p])) = meant[p]
      BY DEF CleanReadable, Fits
    <2>1. Made(files[p], meant[p], written, bare, signed)
      BY DEF FilesInv, CleanOK
    <2>2. PICK z \in Compression, k \in Key : Inner(files[p]) = Serialize(meant[p], z, k)
      <3>1. PICK z \in Compression, k \in Key :
                \/ files[p] = Serialize(meant[p], z, k)
                \/ \E e \in Passphrases, crypto \in BOOLEAN :
                       files[p] = Encrypt(Serialize(meant[p], z, k), e, crypto)
        BY <2>1 DEF Made
      <3>2. CASE files[p] = Serialize(meant[p], z, k)
        <4>1. Serialize(meant[p], z, k).form = "plain"
          <5>1. meant[p] \in {meant[p]} /\ (k # NoKey => <<k, meant[p]>> \in {<<k, meant[p]>>})
            OBVIOUS
          <5>2. Wellformed(meant[p])
            BY <2>1 DEF Made
          <5> QED
            BY <5>1, <5>2, SerializeOK
        <4> QED
          BY <3>2, <4>1 DEF Inner
      <3>3. ASSUME NEW e \in Passphrases, NEW crypto \in BOOLEAN,
                   files[p] = Encrypt(Serialize(meant[p], z, k), e, crypto)
            PROVE  Inner(files[p]) = Serialize(meant[p], z, k)
        BY <3>3 DEF Inner, Encrypt
      <3> QED
        BY <3>1, <3>2, <3>3
    <2>3. Wellformed(meant[p])
      BY <2>1 DEF Made
    <2> QED
      BY <2>2, <2>3, SerializeParses
  <1> QED
    BY <1>1, FilesInvariant, PTL
=============================================================================
