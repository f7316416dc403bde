-------------------------- MODULE HttpParserProofs --------------------------
(***************************************************************************)
(* The maps of a request mean what its texts say (HeadersMeanLines,          *)
(* MapsMeanTexts), and a request is refused if and only if it is malformed   *)
(* (RefusedForAReason), for any texts and any number of header lines.        *)
(*                                                                         *)
(* The model's folds are unrolled from the definition of FoldLeft, and what  *)
(* holds of every length is proved by its smallest counterexample.  First    *)
(* what Split, Trim and PairsOf do: the pieces of a split are what stands    *)
(* between the cuts of a text (SplitCuts, PiecesAreCut), a trimmed piece has *)
(* the same "=" (TrimmedItem), and the map of the pairs is what the text     *)
(* means (PairsMean).  Then the header lines, one line at a time (FieldLine, *)
(* ContinuationLine), and the invariant (ParserInv).                        *)
(***************************************************************************)
EXTENDS HttpParser, SequenceTheorems, WellFoundedInduction, TLAPS

\* The characters of texts, and the key before the first header.
NoKey == ""
Space == " "
Token == STRING \cup {Space}

\* A set of numbers has a least one.
LEMMA LeastOf ==
  ASSUME NEW T, T \subseteq Nat, T # {}
  PROVE  \E n \in T : \A m \in T : n <= m
<1>1. PICK n \in T : \A m \in T : ~(<<m, n>> \in OpToRel(<, Nat))
  BY WFMin, NatLessThanWellFounded, Zenon
<1>2. \A m \in T : ~(m < n)
  BY <1>1, Zenon DEF OpToRel
<1>. QED  BY <1>2

\* What goes on from each number to the next goes up to n.
LEMMA UpTo ==
  ASSUME NEW n \in Nat, NEW T, 0 \in T, \A k \in 1..n : k - 1 \in T => k \in T
  PROVE  \A k \in 0..n : k \in T
<1>. DEFINE F == {k \in 0..n : k \notin T}
<1>1. SUFFICES ASSUME F # {} PROVE FALSE
  OBVIOUS
<1>2. PICK k \in F : \A j \in F : k <= j
  <2>1. F \subseteq Nat
    OBVIOUS
  <2>. HIDE DEF F
  <2>. QED  BY <1>1, <2>1, LeastOf
<1>3. k \in 1..n /\ k - 1 \in 0..n /\ k - 1 \notin F
  BY <1>2
<1>. QED  BY <1>2, <1>3

LEMMA MaxIs ==
  ASSUME NEW S, S \subseteq Nat, NEW k \in S, \A i \in S : i <= k
  PROVE  Max(S) = k
<1>. DEFINE m == CHOOSE x \in S : \A y \in S : x >= y
<1>1. \A y \in S : k >= y
  OBVIOUS
<1>2. m \in S /\ \A y \in S : m >= y
  BY <1>1, Zenon
<1>3. m = k
  <2>. HIDE DEF m
  <2>. QED  BY <1>2
<1>. QED  BY <1>3, Zenon DEF Max

\* And every set within a bound has a greatest.
LEMMA MaxExists ==
  ASSUME NEW n \in Nat, NEW S \in SUBSET (1..n), S # {}
  PROVE  Max(S) \in S /\ \A i \in S : i <= Max(S)
<1>. DEFINE T == {n - i : i \in S}
<1>1. PICK m \in T : \A j \in T : m <= j
  <2>1. \A i \in S : n - i \in Nat
    OBVIOUS
  <2>2. T \subseteq Nat /\ T # {}
    BY <2>1
  <2>. HIDE DEF T
  <2>. QED  BY <2>2, LeastOf
<1>2. PICK k \in S : m = n - k
  OBVIOUS
<1>3. \A i \in S : i \in Nat /\ n - i \in T
  OBVIOUS
<1>4. \A i \in S : i <= k
  <2>. HIDE DEF T
  <2>. QED  BY <1>1, <1>2, <1>3
<1>5. S \subseteq Nat /\ k \in S
  OBVIOUS
<1>. HIDE DEF T
<1>. QED  BY <1>4, <1>5, MaxIs

\* A fold over 1..n, from the greatest index down: what g is, with values in S.
IsFold(g, n, S, base, step) ==
    /\ g \in [SUBSET (1..n) -> S]
    /\ \A part \in SUBSET (1..n) :
          g[part] = IF part = {} THEN base ELSE step[<<g[part \ {Max(part)}], Max(part)>>]

LEMMA FoldExists ==
  ASSUME NEW n \in Nat, NEW S, NEW base \in S, NEW step, step \in [S \X (1..n) -> S]
  PROVE  \E g : IsFold(g, n, S, base, step)
<1>. DEFINE T == {k \in 0..n : \E g : IsFold(g, k, S, base, step)}
<1>1. 0 \in T
  <2>. DEFINE g == [part \in {{}} |-> base]
  <2>1. SUBSET (1..0) = {{}}
    OBVIOUS
  <2>2. IsFold(g, 0, S, base, step)
    BY <2>1 DEF IsFold
  <2>. QED  BY <2>2
<1>2. ASSUME NEW k \in 1..n, k - 1 \in T PROVE k \in T
  <2>1. PICK g : IsFold(g, k - 1, S, base, step)
    BY <1>2
  <2>. DEFINE h == [part \in SUBSET (1..k) |->
                      IF k \in part THEN step[<<g[part \ {k}], k>>] ELSE g[part]]
  <2>2. \A part \in SUBSET (1..k) :
           part \ {k} \in SUBSET (1..(k - 1)) /\ (k \notin part => part = part \ {k})
    OBVIOUS
  <2>3. \A part \in SUBSET (1..k) : h[part] \in S
    <3>. TAKE part \in SUBSET (1..k)
    <3>1. g[part \ {k}] \in S
      BY <2>1, <2>2 DEF IsFold
    <3>. QED  BY <2>2, <3>1
  <2>4. ASSUME NEW part \in SUBSET (1..k)
        PROVE  h[part] = IF part = {} THEN base ELSE step[<<h[part \ {Max(part)}], Max(part)>>]
    <3>1. CASE k \in part
      <4>1. Max(part) = k /\ part # {}
        <5>1. part \subseteq Nat /\ \A i \in part : i <= k
          BY <1>2
        <5>. QED  BY <3>1, <5>1, MaxIs
      <4>2. part \ {k} \in SUBSET (1..k) /\ k \notin part \ {k}
        OBVIOUS
      <4>3. h[part \ {k}] = g[part \ {k}]
        BY <4>2
      <4>. QED  BY <3>1, <4>1, <4>3
    <3>2. CASE k \notin part
      <4>1. part \in SUBSET (1..(k - 1)) /\ h[part] = g[part]
        BY <2>2, <3>2
      <4>2. part \ {Max(part)} \in SUBSET (1..k) /\ k \notin part \ {Max(part)}
        BY <3>2
      <4>3. h[part \ {Max(part)}] = g[part \ {Max(part)}]
        BY <4>2
      <4>. QED  BY <2>1, <4>1, <4>3 DEF IsFold
    <3>. QED  BY <3>1, <3>2
  <2>5. IsFold(h, k, S, base, step)
    <3>1. h \in [SUBSET (1..k) -> S]
      BY <2>3
    <3>. HIDE DEF h
    <3>. QED  BY <2>4, <3>1 DEF IsFold
  <2>. QED  BY <2>5
<1>3. \A k \in 0..n : k \in T
  <2>. HIDE DEF T
  <2>. QED  BY <1>1, <1>2, UpTo
<1>. QED  BY <1>3

\* The greatest of a prefix.
LEMMA PrefixMax ==
  ASSUME NEW k, k \in Nat \ {0}
  PROVE  /\ Max(1..k) = k /\ 1..k # {} /\ (1..k) \ {k} = 1..(k - 1)
<1>1. 1..k \subseteq Nat /\ k \in 1..k /\ \A i \in 1..k : i <= k
  OBVIOUS
<1>2. Max(1..k) = k
  BY <1>1, MaxIs
<1>. QED  BY <1>2

-----------------------------------------------------------------------------
(* boost::split.                                                           *)

LEMMA FunctionIsSeq ==
  ASSUME NEW S, NEW n \in Nat, NEW y, y \in [1..n -> S]
  PROVE  y \in Seq(S) /\ Len(y) = n
<1>1. y \in Seq(S)
  BY SeqDef, Zenon
<1>. QED  BY <1>1

Grown(pieces, c, sep) ==
    IF c = sep THEN Append(pieces, << >>)
    ELSE [pieces EXCEPT ![Len(pieces)] = Append(@, c)]

\* One character at a time.
LEMMA SplitSteps ==
  ASSUME NEW text \in Seq(Token), NEW sep
  PROVE  \E p : /\ Split(text, sep) = p[Len(text)]
                /\ p[0] = << << >> >>
                /\ \A k \in 1..Len(text) : p[k] = Grown(p[k - 1], text[k], sep)
<1>. DEFINE n == Len(text)
            S == Seq(Seq(Token))
            base == << << >> >>
            step == [x \in S \X (1..n) |-> Grown(x[1], text[x[2]], sep)]
            Is(g) == g = [part \in SUBSET DOMAIN text |-> IF part = {} THEN base
                            ELSE Grown(g[part \ {Max(part)}], text[Max(part)], sep)]
<1>1. n \in Nat /\ DOMAIN text = 1..n /\ base \in S
  OBVIOUS
<1>2. step \in [S \X (1..n) -> S]
  <2>1. ASSUME NEW x \in S, NEW i \in 1..n PROVE Grown(x, text[i], sep) \in S
    <3>1. CASE text[i] = sep
      BY <3>1 DEF Grown
    <3>2. CASE text[i] # sep
      <4>1. text[i] \in Token
        BY <1>1
      <4>2. ASSUME NEW j \in DOMAIN x PROVE Append(x[j], text[i]) \in Seq(Token)
        BY <4>1
      <4>. DEFINE y == [x EXCEPT ![Len(x)] = Append(@, text[i])]
      <4>3. Len(x) \in Nat /\ DOMAIN x = 1..Len(x) /\ \A j \in 1..Len(x) : x[j] \in Seq(Token)
        OBVIOUS
      <4>4. y \in [1..Len(x) -> Seq(Token)]
        BY <4>2, <4>3
      <4>5. y \in Seq(Seq(Token))
        <5>. HIDE DEF y
        <5>. QED  BY <4>3, <4>4, FunctionIsSeq
      <4>. QED  BY <3>2, <4>5 DEF Grown
    <3>. QED  BY <3>1, <3>2
  <2>. QED  BY <2>1
<1>3. PICK g : IsFold(g, n, S, base, step)
  <2>. HIDE DEF n, S, step, base
  <2>. QED  BY <1>1, <1>2, FoldExists
<1>4. Is(g)
  <2>1. ASSUME NEW part \in SUBSET (1..n), part # {}
        PROVE  part \ {Max(part)} \in SUBSET (1..n) /\ Max(part) \in 1..n
    BY <1>1, <2>1, MaxExists
  <2>2. ASSUME NEW part \in SUBSET (1..n), part # {}
        PROVE  g[part] = Grown(g[part \ {Max(part)}], text[Max(part)], sep)
    <3>. HIDE DEF S, base
    <3>. QED  BY <1>1, <1>3, <2>1, <2>2 DEF IsFold
  <2>3. g[{}] = base /\ g \in [SUBSET (1..n) -> S]
    BY <1>3 DEF IsFold
  <2>. HIDE DEF S, base, step
  <2>. QED  BY <1>1, <2>2, <2>3
<1>. DEFINE f == CHOOSE f : Is(f)
<1>5. Is(f)
  BY <1>4, Zenon
<1>6. Split(text, sep) = f[1..n]
  BY <1>1 DEF Split, FoldLeft, MapThenFoldSet, Grown
<1>. HIDE DEF f
<1>7. f[1..0] = base /\ \A k \in 1..n : f[1..k] = Grown(f[1..(k - 1)], text[k], sep)
  <2>1. ASSUME NEW part \in SUBSET (1..n)
        PROVE  f[part] = IF part = {} THEN base ELSE Grown(f[part \ {Max(part)}], text[Max(part)], sep)
    BY <1>1, <1>5
  <2>2. 1..0 = {}
    OBVIOUS
  <2>3. ASSUME NEW k \in 1..n PROVE f[1..k] = Grown(f[1..(k - 1)], text[k], sep)
    <3>1. 1..k \in SUBSET (1..n) /\ Max(1..k) = k /\ 1..k # {} /\ (1..k) \ {k} = 1..(k - 1)
      BY PrefixMax
    <3>. QED  BY <2>1, <3>1
  <2>. QED  BY <2>1, <2>2, <2>3
<1>. DEFINE p == [k \in 0..n |-> f[1..k]]
<1>8. /\ p[n] = f[1..n] /\ p[0] = f[1..0]
      /\ \A k \in 1..n : p[k] = f[1..k] /\ p[k - 1] = f[1..(k - 1)]
  BY <1>1
<1>. HIDE DEF p
<1>. QED  BY <1>6, <1>7, <1>8

\* c is where the first n characters of the text are cut into K pieces: from 0
\* to n + 1, at the separators and nowhere else.
Cutting(c, K, n, text, sep) ==
    /\ K \in Nat /\ K >= 1
    /\ c \in [1..(K + 1) -> Nat]
    /\ c[1] = 0 /\ c[K + 1] = n + 1
    /\ \A i \in 1..K : c[i] < c[i + 1]
    /\ \A i \in 2..K : text[c[i]] = sep
    /\ \A i \in 1..K : \A m \in (c[i] + 1)..(c[i + 1] - 1) : text[m] # sep

\* q are the pieces.
AreCut(q, c, K, text) ==
    /\ q \in Seq(Seq(Token))
    /\ Len(q) = K
    /\ \A i \in 1..K : q[i] = SubSeq(text, c[i] + 1, c[i + 1] - 1)

LEMMA SubSeqGrows ==
  ASSUME NEW text \in Seq(Token), NEW a \in Nat, NEW b \in 1..Len(text), a < b
  PROVE  Append(SubSeq(text, a + 1, b - 1), text[b]) = SubSeq(text, a + 1, b)
OBVIOUS

LEMMA CutGrows ==
  ASSUME NEW text \in Seq(Token), NEW sep, NEW k \in 1..Len(text),
         NEW q, NEW c, NEW K, Cutting(c, K, k - 1, text, sep), AreCut(q, c, K, text)
  PROVE  \E d, L : /\ Cutting(d, L, k, text, sep)
                   /\ AreCut(Grown(q, text[k], sep), d, L, text)
<1>0. k \in Nat /\ text[k] \in Token
  OBVIOUS
<1>1. K \in Nat /\ K >= 1 /\ c[K + 1] = k
  BY <1>0 DEF Cutting
<1>2. \A i \in 1..(K + 1) : c[i] \in Nat
  BY DEF Cutting
<1>3. q \in Seq(Seq(Token)) /\ Len(q) = K
  BY DEF AreCut
<1>4. \A i \in 1..K : i + 1 \in 1..(K + 1) /\ c[i] < c[i + 1]
  BY <1>1 DEF Cutting
<1>5. c[1] = 0 /\ \A i \in 2..K : text[c[i]] = sep
  BY DEF Cutting
<1>6. \A i \in 1..K : \A m \in (c[i] + 1)..(c[i + 1] - 1) : text[m] # sep
  BY DEF Cutting
<1>7. \A i \in 1..K : q[i] = SubSeq(text, c[i] + 1, c[i + 1] - 1)
  BY DEF AreCut
<1>8. c[K] \in Nat /\ c[K] < k
  BY <1>1, <1>2, <1>4
<1>9. CASE text[k] = sep
  <2>. DEFINE d == [i \in 1..(K + 2) |-> IF i = K + 2 THEN k + 1 ELSE c[i]]
              r == Append(q, << >>)
  <2>1. d[K + 2] = k + 1 /\ \A i \in 1..(K + 1) : d[i] = c[i]
    BY <1>1
  <2>2. d \in [1..(K + 2) -> Nat]
    BY <1>0, <1>1, <1>2
  <2>3. /\ r \in Seq(Seq(Token)) /\ Len(r) = K + 1 /\ r[K + 1] = << >>
        /\ \A i \in 1..K : r[i] = q[i]
    BY <1>1, <1>3
  <2>4. r = Grown(q, text[k], sep)
    BY <1>9 DEF Grown
  <2>5. \A i \in 1..(K + 1) : i = K + 1 \/ (i \in 1..K /\ i + 1 \in 1..(K + 1))
    BY <1>1
  <2>6. (K + 1) + 1 = K + 2 /\ (k + 1) - 1 = k
    BY <1>0, <1>1
  <2>. HIDE DEF d, r
  <2>7. \A i \in 1..K : d[i] = c[i] /\ d[i + 1] = c[i + 1]
    BY <1>1, <2>1, <2>5
  <2>8. Cutting(d, K + 1, k, text, sep)
    <3>1. ASSUME NEW i \in 1..(K + 1) PROVE d[i] < d[i + 1]
      <4>1. CASE i = K + 1
        BY <1>0, <1>1, <2>1, <2>6, <4>1
      <4>2. CASE i \in 1..K
        BY <1>4, <2>7, <4>2
      <4>. QED  BY <2>5, <4>1, <4>2
    <3>2. ASSUME NEW i \in 2..(K + 1) PROVE text[d[i]] = sep
      <4>1. CASE i = K + 1
        BY <1>1, <1>9, <2>1, <4>1
      <4>2. CASE i \in 2..K
        BY <1>5, <2>1, <4>2
      <4>. QED  BY <1>1, <4>1, <4>2
    <3>3. ASSUME NEW i \in 1..(K + 1), NEW m \in (d[i] + 1)..(d[i + 1] - 1) PROVE text[m] # sep
      <4>1. CASE i = K + 1
        BY <1>0, <1>1, <2>1, <2>6, <4>1
      <4>2. CASE i \in 1..K
        BY <1>6, <2>7, <4>2
      <4>. QED  BY <2>5, <4>1, <4>2
    <3>4. d[1] = 0
      BY <1>1, <1>5, <2>1
    <3>. QED  BY <1>1, <2>1, <2>2, <2>6, <3>1, <3>2, <3>3, <3>4 DEF Cutting
  <2>9. AreCut(r, d, K + 1, text)
    <3>1. SubSeq(text, k + 1, k) = << >>
      BY <1>0
    <3>2. ASSUME NEW i \in 1..(K + 1) PROVE r[i] = SubSeq(text, d[i] + 1, d[i + 1] - 1)
      <4>1. CASE i = K + 1
        <5>1. d[i] = k /\ d[i + 1] - 1 = k
          BY <1>0, <1>1, <2>1, <2>6, <4>1
        <5>. QED  BY <2>3, <3>1, <4>1, <5>1
      <4>2. CASE i \in 1..K
        BY <1>7, <2>3, <2>7, <4>2
      <4>. QED  BY <2>5, <4>1, <4>2
    <3>. QED  BY <2>3, <3>2 DEF AreCut
  <2>. QED  BY <2>4, <2>8, <2>9
<1>10. CASE text[k] # sep
  <2>. DEFINE d == [i \in 1..(K + 1) |-> IF i = K + 1 THEN k + 1 ELSE c[i]]
              r == [q EXCEPT ![K] = Append(q[K], text[k])]
  <2>1. d[K + 1] = k + 1 /\ \A i \in 1..K : d[i] = c[i]
    BY <1>1
  <2>2. d \in [1..(K + 1) -> Nat]
    BY <1>0, <1>1, <1>2
  <2>3. /\ r \in Seq(Seq(Token)) /\ Len(r) = K
        /\ \A i \in 1..K : r[i] = IF i = K THEN Append(q[K], text[k]) ELSE q[i]
    <3>1. K \in 1..K /\ Append(q[K], text[k]) \in Seq(Token)
      BY <1>0, <1>1, <1>3
    <3>. QED  BY <1>3, <3>1, ExceptSeq
  <2>4. r = Grown(q, text[k], sep)
    BY <1>3, <1>10 DEF Grown
  <2>5. \A i \in 1..K : i = K \/ (i \in 1..(K - 1) /\ i \in 1..K /\ i + 1 \in 1..K)
    BY <1>1
  <2>. HIDE DEF d, r
  <2>6. d[K] = c[K] /\ K \in 1..K
    BY <1>1, <2>1
  <2>7. \A i \in 1..(K - 1) : i \in 1..K /\ i # K /\ d[i] = c[i] /\ d[i + 1] = c[i + 1]
    BY <1>1, <2>1, <2>5
  <2>8. Cutting(d, K, k, text, sep)
    <3>1. ASSUME NEW i \in 1..K PROVE d[i] < d[i + 1]
      <4>1. CASE i = K
        BY <1>0, <1>8, <2>1, <2>6, <4>1
      <4>2. CASE i \in 1..(K - 1)
        BY <1>4, <2>7, <4>2
      <4>. QED  BY <2>5, <4>1, <4>2
    <3>2. \A i \in 2..K : text[d[i]] = sep
      BY <1>5, <2>1
    <3>3. ASSUME NEW i \in 1..K, NEW m \in (d[i] + 1)..(d[i + 1] - 1) PROVE text[m] # sep
      <4>1. CASE i = K
        <5>1. m = k \/ m \in (c[K] + 1)..(c[K + 1] - 1)
          BY <1>0, <1>1, <1>8, <2>1, <2>6, <4>1
        <5>. QED  BY <1>6, <1>10, <2>6, <5>1
      <4>2. CASE i \in 1..(K - 1)
        BY <1>6, <2>7, <4>2
      <4>. QED  BY <2>5, <4>1, <4>2
    <3>4. d[1] = 0
      BY <1>1, <1>5, <2>1
    <3>. QED  BY <1>1, <2>1, <2>2, <3>1, <3>2, <3>3, <3>4 DEF Cutting
  <2>9. AreCut(r, d, K, text)
    <3>1. q[K] = SubSeq(text, c[K] + 1, k - 1)
      BY <1>1, <1>7, <2>6
    <3>2. Append(q[K], text[k]) = SubSeq(text, c[K] + 1, k)
      BY <1>8, <3>1, SubSeqGrows
    <3>3. (k + 1) - 1 = k
      BY <1>0
    <3>4. ASSUME NEW i \in 1..K PROVE r[i] = SubSeq(text, d[i] + 1, d[i + 1] - 1)
      <4>1. CASE i = K
        BY <2>1, <2>3, <2>6, <3>2, <3>3, <4>1
      <4>2. CASE i \in 1..(K - 1)
        BY <1>7, <2>3, <2>7, <4>2
      <4>. QED  BY <2>5, <4>1, <4>2
    <3>. QED  BY <2>3, <3>4 DEF AreCut
  <2>. QED  BY <2>4, <2>8, <2>9
<1>. QED  BY <1>9, <1>10

\* Split cuts the whole text.
LEMMA SplitCuts ==
  ASSUME NEW text \in Seq(Token), NEW sep
  PROVE  \E c, K : Cutting(c, K, Len(text), text, sep) /\ AreCut(Split(text, sep), c, K, text)
<1>1. PICK p : /\ Split(text, sep) = p[Len(text)]
               /\ p[0] = << << >> >>
               /\ \A k \in 1..Len(text) : p[k] = Grown(p[k - 1], text[k], sep)
  BY SplitSteps
<1>. DEFINE T == {k \in 0..Len(text) :
                    \E c, K : Cutting(c, K, k, text, sep) /\ AreCut(p[k], c, K, text)}
<1>2. 0 \in T
  <2>1. Cutting(<<0, 1>>, 1, 0, text, sep)
    BY DEF Cutting
  <2>2. AreCut(<< << >> >>, <<0, 1>>, 1, text)
    BY DEF AreCut
  <2>. QED  BY <1>1, <2>1, <2>2
<1>3. \A k \in 1..Len(text) : k - 1 \in T => k \in T
  <2>. TAKE k \in 1..Len(text)
  <2>. HAVE k - 1 \in T
  <2>1. PICK c, K : Cutting(c, K, k - 1, text, sep) /\ AreCut(p[k - 1], c, K, text)
    OBVIOUS
  <2>2. PICK d, L : Cutting(d, L, k, text, sep) /\ AreCut(Grown(p[k - 1], text[k], sep), d, L, text)
    BY <2>1, CutGrows
  <2>. QED  BY <1>1, <2>2
<1>4. Len(text) \in T
  <2>1. Len(text) \in Nat
    OBVIOUS
  <2>. HIDE DEF T
  <2>. QED  BY <1>2, <1>3, <2>1, UpTo
<1>. QED  BY <1>1, <1>4

\* The cuts increase.
LEMMA CutsIncrease ==
  ASSUME NEW text, NEW sep, NEW n, NEW c, NEW K, Cutting(c, K, n, text, sep)
  PROVE  \A i, j \in 1..(K + 1) : i < j => c[i] < c[j]
<1>. DEFINE T == {j \in 0..(K + 1) : \A i \in 1..(K + 1) : i < j => c[i] < c[j]}
<1>1. K \in Nat /\ (\A i \in 1..(K + 1) : c[i] \in Nat) /\ \A i \in 1..K : c[i] < c[i + 1]
  BY DEF Cutting
<1>2. 0 \in T
  BY <1>1
<1>3. ASSUME NEW k \in 1..(K + 1), k - 1 \in T PROVE k \in T
  <2>1. ASSUME NEW i \in 1..(K + 1), i < k PROVE c[i] < c[k]
    <3>1. CASE i = k - 1
      <4>1. i \in 1..K /\ i + 1 = k
        BY <1>1, <2>1, <3>1
      <4>. QED  BY <1>1, <4>1
    <3>2. CASE i < k - 1
      <4>1. c[i] < c[k - 1]
        BY <1>3, <3>2
      <4>2. k - 1 \in 1..K /\ k - 1 \in 1..(K + 1) /\ (k - 1) + 1 = k
        BY <1>1, <3>2
      <4>3. c[k - 1] < c[k] /\ c[i] \in Nat /\ c[k - 1] \in Nat /\ c[k] \in Nat
        BY <1>1, <4>2
      <4>. QED  BY <4>1, <4>3
    <3>. QED  BY <2>1, <3>1, <3>2
  <2>. QED  BY <2>1
<1>4. \A j \in 0..(K + 1) : j \in T
  <2>1. K + 1 \in Nat
    BY <1>1
  <2>. HIDE DEF T
  <2>. QED  BY <1>2, <1>3, <2>1, UpTo
<1>. QED  BY <1>1, <1>4

\* Every place lies in a piece or at the cut before it.
LEMMA CutsCover ==
  ASSUME NEW text, NEW sep, NEW n \in Nat, NEW c, NEW K, Cutting(c, K, n, text, sep),
         NEW m \in 0..n
  PROVE  \E i \in 1..K : c[i] <= m /\ m < c[i + 1]
<1>. DEFINE T == {j \in 0..K : c[j + 1] <= m \/ \E i \in 1..K : c[i] <= m /\ m < c[i + 1]}
<1>1. /\ K \in Nat /\ (\A i \in 1..(K + 1) : c[i] \in Nat)
      /\ c[1] = 0 /\ c[K + 1] = n + 1
  BY DEF Cutting
<1>2. 0 \in T
  BY <1>1
<1>3. ASSUME NEW k \in 1..K, k - 1 \in T PROVE k \in T
  <2>1. (k - 1) + 1 = k /\ k \in 1..(K + 1) /\ k + 1 \in 1..(K + 1) /\ k \in 0..K
    BY <1>1
  <2>2. c[k] \in Nat /\ c[k + 1] \in Nat
    BY <1>1, <2>1
  <2>3. CASE \E i \in 1..K : c[i] <= m /\ m < c[i + 1]
    BY <2>1, <2>3
  <2>4. CASE c[k] <= m
    BY <2>1, <2>2, <2>4
  <2>. QED  BY <1>3, <2>1, <2>3, <2>4
<1>4. K \in T
  <2>. HIDE DEF T
  <2>. QED  BY <1>1, <1>2, <1>3, UpTo
<1>5. ~ (c[K + 1] <= m)
  BY <1>1
<1>. QED  BY <1>4, <1>5

Seps(text, sep) == {m \in 1..Len(text) : text[m] = sep}

\* The cuts inside of the text are its separators.
LEMMA CutsAreSeps ==
  ASSUME NEW text \in Seq(Token), NEW sep, NEW c, NEW K, Cutting(c, K, Len(text), text, sep)
  PROVE  /\ \A m \in Seps(text, sep) : \E i \in 2..K : c[i] = m
         /\ \A i \in 2..K : c[i] \in Seps(text, sep)
<1>. DEFINE n == Len(text)
<1>0. n \in Nat
  OBVIOUS
<1>1. /\ K \in Nat /\ K >= 1 /\ (\A i \in 1..(K + 1) : c[i] \in Nat)
      /\ c[1] = 0 /\ c[K + 1] = n + 1
  BY DEF Cutting
<1>2. \A i \in 1..K : \A m \in (c[i] + 1)..(c[i + 1] - 1) : text[m] # sep
  BY DEF Cutting
<1>3. \A i \in 2..K : text[c[i]] = sep
  BY DEF Cutting
<1>4. \A i, j \in 1..(K + 1) : i < j => c[i] < c[j]
  BY CutsIncrease
<1>. HIDE DEF n
<1>5. ASSUME NEW m \in 1..n, text[m] = sep PROVE \E i \in 2..K : c[i] = m
  <2>1. PICK i \in 1..K : c[i] <= m /\ m < c[i + 1]
    <3>1. m \in 0..n /\ Cutting(c, K, n, text, sep)
      BY <1>0 DEF n
    <3>. QED  BY <1>0, <3>1, CutsCover
  <2>2. c[i] \in Nat /\ c[i + 1] \in Nat
    BY <1>1
  <2>3. c[i] = m
    <3>1. m \in (c[i] + 1)..(c[i + 1] - 1) \/ c[i] = m
      BY <1>0, <2>1, <2>2
    <3>. QED  BY <1>2, <1>5, <3>1
  <2>4. i # 1
    BY <1>1, <2>3
  <2>. QED  BY <1>1, <2>3, <2>4
<1>6. ASSUME NEW i \in 2..K PROVE c[i] \in 1..n
  <2>1. 1 \in 1..(K + 1) /\ i \in 1..(K + 1) /\ K + 1 \in 1..(K + 1) /\ 1 < i /\ i < K + 1
    BY <1>1
  <2>2. c[1] < c[i] /\ c[i] < c[K + 1] /\ c[i] \in Nat
    BY <1>1, <1>4, <2>1
  <2>. QED  BY <1>0, <1>1, <2>2
<1>. QED  BY <1>3, <1>5, <1>6 DEF Seps, n

\* The pieces of the text are between neighbouring cuts.
LEMMA PiecesAreCut ==
  ASSUME NEW text \in Seq(Token), NEW sep, NEW c, NEW K, Cutting(c, K, Len(text), text, sep)
  PROVE  Pieces(text, sep) = {<<c[i], c[i + 1]>> : i \in 1..K}
<1>. DEFINE n == Len(text)
            S == Cuts(text, sep)
<1>0. n \in Nat /\ DOMAIN text = 1..n
  OBVIOUS
<1>1. /\ K \in Nat /\ K >= 1 /\ (\A i \in 1..(K + 1) : c[i] \in Nat)
      /\ c[1] = 0 /\ c[K + 1] = n + 1
  BY DEF Cutting
<1>2. \A i, j \in 1..(K + 1) : i < j => c[i] < c[j]
  BY CutsIncrease
<1>3. S = {0, n + 1} \cup Seps(text, sep)
  BY <1>0 DEF Cuts, Seps
<1>4. \A i \in 1..(K + 1) : c[i] \in S
  <2>. TAKE i \in 1..(K + 1)
  <2>1. i = 1 \/ i = K + 1 \/ i \in 2..K
    BY <1>1
  <2>. QED  BY <1>1, <1>3, <2>1, CutsAreSeps
<1>5. \A m \in S : \E i \in 1..(K + 1) : c[i] = m
  <2>. TAKE m \in S
  <2>1. CASE m \in {0, n + 1}
    <3>1. 1 \in 1..(K + 1) /\ K + 1 \in 1..(K + 1)
      BY <1>1
    <3>. QED  BY <1>1, <2>1, <3>1
  <2>2. CASE m \in Seps(text, sep)
    <3>1. PICK i \in 2..K : c[i] = m
      BY <2>2, CutsAreSeps
    <3>. QED  BY <1>1, <3>1
  <2>. QED  BY <1>3, <2>1, <2>2
<1>. HIDE DEF S
<1>6. ASSUME NEW i \in 1..K PROVE <<c[i], c[i + 1]>> \in Pieces(text, sep)
  <2>1. i \in 1..(K + 1) /\ i + 1 \in 1..(K + 1) /\ i < i + 1
    BY <1>1
  <2>2. c[i] \in S /\ c[i + 1] \in S /\ c[i] < c[i + 1]
    BY <1>2, <1>4, <2>1
  <2>3. ASSUME NEW m \in (c[i] + 1)..(c[i + 1] - 1), m \in S PROVE FALSE
    <3>1. PICK j \in 1..(K + 1) : c[j] = m
      BY <1>5, <2>3
    <3>2. c[i] \in Nat /\ c[i + 1] \in Nat
      BY <1>1, <2>1
    <3>3. c[i] < c[j] /\ c[j] < c[i + 1] /\ c[j] \in Nat
      BY <1>1, <3>1, <3>2
    <3>4. CASE j <= i
      <4>1. j = i \/ j < i
        BY <3>4
      <4>2. ~ (c[j] < c[i])
        BY <3>2, <3>3
      <4>3. c[j] # c[i]
        BY <3>2, <3>3
      <4>. QED  BY <1>2, <2>1, <4>1, <4>2, <4>3
    <3>5. CASE i < j
      <4>1. j = i + 1 \/ i + 1 < j
        BY <3>5
      <4>2. ~ (c[i + 1] < c[j]) /\ c[j] # c[i + 1]
        BY <3>2, <3>3
      <4>. QED  BY <1>2, <2>1, <4>1, <4>2
    <3>. QED  BY <3>4, <3>5
  <2>. QED  BY <2>2, <2>3 DEF Pieces, S
<1>7. ASSUME NEW d \in Pieces(text, sep) PROVE \E i \in 1..K : d = <<c[i], c[i + 1]>>
  <2>1. /\ d \in S \X S /\ d[1] < d[2]
        /\ \A m \in (d[1] + 1)..(d[2] - 1) : m \notin S
    BY DEF Pieces, S
  <2>2. PICK i \in 1..(K + 1) : c[i] = d[1]
    BY <1>5, <2>1
  <2>3. PICK j \in 1..(K + 1) : c[j] = d[2]
    BY <1>5, <2>1
  <2>4. i < j
    <3>1. i = j \/ j < i \/ i < j
      OBVIOUS
    <3>2. c[i] \in Nat /\ c[j] \in Nat
      BY <1>1
    <3>3. ~ (c[j] < c[i]) /\ c[i] # c[j]
      BY <2>1, <2>2, <2>3, <3>2
    <3>. QED  BY <1>2, <3>1, <3>3
  <2>5. i \in 1..K /\ i + 1 \in 1..(K + 1) /\ (i + 1 < j \/ i + 1 = j)
    BY <1>1, <2>4
  <2>6. i + 1 = j
    <3>1. SUFFICES ASSUME i + 1 < j PROVE FALSE
      BY <2>5
    <3>2. c[i] < c[i + 1] /\ c[i + 1] < c[j]
      BY <1>2, <2>5, <3>1
    <3>3. c[i] \in Nat /\ c[i + 1] \in Nat /\ c[j] \in Nat
      BY <1>1, <2>5
    <3>4. c[i + 1] \in (d[1] + 1)..(d[2] - 1)
      BY <2>2, <2>3, <3>2, <3>3
    <3>. QED  BY <1>4, <2>1, <2>5, <3>4
  <2>7. d = <<d[1], d[2]>>
    BY <2>1
  <2>. QED  BY <2>2, <2>3, <2>5, <2>6, <2>7
<1>. QED  BY <1>6, <1>7

\* One separator makes two pieces, what is before it and what is behind it.
LEMMA SplitInTwo ==
  ASSUME NEW text \in Seq(Token), NEW sep
  PROVE  /\ Len(Split(text, sep)) = 1 <=> Seps(text, sep) = {}
         /\ Len(Split(text, sep)) = 2 <=> \E e \in Seps(text, sep) : Seps(text, sep) = {e}
         /\ \A e \in Seps(text, sep) : Seps(text, sep) = {e} =>
               /\ Split(text, sep)[1] = SubSeq(text, 1, e - 1)
               /\ Split(text, sep)[2] = SubSeq(text, e + 1, Len(text))
<1>. DEFINE q == Split(text, sep)
            n == Len(text)
            E == Seps(text, sep)
<1>1. PICK c, K : Cutting(c, K, n, text, sep) /\ AreCut(q, c, K, text)
  BY SplitCuts
<1>2. n \in Nat /\ E \subseteq 1..n
  BY DEF Seps
<1>3. /\ K \in Nat /\ K >= 1 /\ (\A i \in 1..(K + 1) : c[i] \in Nat)
      /\ c[1] = 0 /\ c[K + 1] = n + 1
  BY <1>1 DEF Cutting
<1>4. Len(q) = K /\ \A i \in 1..K : q[i] = SubSeq(text, c[i] + 1, c[i + 1] - 1)
  BY <1>1 DEF AreCut
<1>5. (\A m \in E : \E i \in 2..K : c[i] = m) /\ \A i \in 2..K : c[i] \in E
  BY <1>1, CutsAreSeps
<1>6. \A i, j \in 1..(K + 1) : i < j => c[i] < c[j]
  BY <1>1, CutsIncrease
<1>7. CASE K = 1
  <2>1. E = {}
    BY <1>5, <1>7
  <2>. QED  BY <1>4, <1>7, <2>1
<1>8. CASE K = 2
  <2>1. E = {c[2]}
    BY <1>5, <1>8
  <2>2. c[1] + 1 = 1 /\ 1 + 1 = 2 /\ 2 + 1 = K + 1 /\ c[K + 1] - 1 = n
    BY <1>2, <1>3, <1>8
  <2>3. q[1] = SubSeq(text, 1, c[2] - 1) /\ q[2] = SubSeq(text, c[2] + 1, n)
    <3>1. 1 \in 1..K /\ 2 \in 1..K
      BY <1>8
    <3>. QED  BY <1>4, <2>2, <3>1
  <2>4. Len(q) = 2 /\ c[2] \in E /\ E = {c[2]} /\ \A e \in E : e = c[2]
    BY <1>4, <1>8, <2>1
  <2>5. Len(q) # 1 /\ E # {} /\ \E e \in E : E = {e}
    BY <2>4
  <2>. QED  BY <2>3, <2>4, <2>5, Zenon
<1>9. CASE K > 2
  <2>1. 2 \in 2..K /\ 3 \in 2..K /\ 2 \in 1..(K + 1) /\ 3 \in 1..(K + 1)
    BY <1>3, <1>9
  <2>2. c[2] < c[3] /\ c[2] \in Nat /\ c[3] \in Nat
    BY <1>3, <1>6, <2>1
  <2>3. c[2] \in E /\ c[3] \in E /\ c[2] # c[3]
    BY <1>5, <2>1, <2>2
  <2>. QED  BY <1>4, <1>9, <2>3
<1>. QED  BY <1>3, <1>7, <1>8, <1>9

LEMMA SplitType ==
  ASSUME NEW text \in Seq(Token), NEW sep
  PROVE  Split(text, sep) \in Seq(Seq(Token)) /\ Len(Split(text, sep)) >= 1
BY SplitCuts DEF AreCut, Cutting

-----------------------------------------------------------------------------
(* boost::trim.                                                            *)

LEMMA MinIs ==
  ASSUME NEW S, S \subseteq Nat, S # {}
  PROVE  Min(S) \in S /\ \A i \in S : Min(S) <= i
<1>. DEFINE m == CHOOSE x \in S : \A y \in S : x <= y
<1>1. PICK k \in S : \A i \in S : k <= i
  BY LeastOf
<1>2. m \in S /\ \A y \in S : m <= y
  BY <1>1, Zenon
<1>. QED  BY <1>2, Zenon DEF Min

\* It is empty, or begins with the first that is not a space.
LEMMA TrimLeftIs ==
  ASSUME NEW x \in Seq(Token)
  PROVE  \/ TrimLeft(x) = << >> /\ \A i \in 1..Len(x) : x[i] = Space
         \/ \E lo \in 1..Len(x) : /\ x[lo] # Space /\ \A i \in 1..(lo - 1) : x[i] = Space
                                  /\ TrimLeft(x) = SubSeq(x, lo, Len(x))
<1>. DEFINE I == {i \in 1..Len(x) : x[i] # Space}
            ink == IF I # {} THEN Min(I) ELSE 0
<1>1. TrimLeft(x) = IF ink = 0 THEN << >> ELSE SubSeq(x, ink, Len(x))
  BY Zenon DEF TrimLeft, SelectInSeq, Space
<1>2. I \subseteq Nat
  <2>1. Len(x) \in Nat
    OBVIOUS
  <2>. QED  BY <2>1
<1>3. CASE I = {}
  BY <1>1, <1>3
<1>4. CASE I # {}
  <2>1. Min(I) \in I /\ \A i \in I : Min(I) <= i
    <3>. HIDE DEF I
    <3>. QED  BY <1>2, <1>4, MinIs
  <2>2. Min(I) \in 1..Len(x) /\ Len(x) \in Nat
    BY <2>1
  <2>3. ASSUME NEW i \in 1..(Min(I) - 1) PROVE x[i] = Space
    <3>1. i \in 1..Len(x) /\ ~(Min(I) <= i)
      BY <2>2
    <3>2. i \notin I
      BY <2>1, <3>1
    <3>. QED  BY <3>1, <3>2
  <2>4. ink = Min(I) /\ Min(I) # 0
    BY <1>4, <2>2
  <2>. QED  BY <1>1, <2>1, <2>2, <2>3, <2>4
<1>. QED  BY <1>3, <1>4

LEMMA ReverseIs ==
  ASSUME NEW x \in Seq(Token)
  PROVE  /\ Reverse(x) \in Seq(Token) /\ Len(Reverse(x)) = Len(x)
         /\ \A i \in 1..Len(x) : Reverse(x)[i] = x[(Len(x) - i) + 1]
<1>1. Len(x) \in Nat /\ \A i \in 1..Len(x) : x[(Len(x) - i) + 1] \in Token
  OBVIOUS
<1>2. Reverse(x) = [i \in 1..Len(x) |-> x[(Len(x) - i) + 1]]
  BY Zenon DEF Reverse
<1>3. Reverse(x) \in [1..Len(x) -> Token]
  BY <1>1, <1>2
<1>4. Reverse(x) \in Seq(Token) /\ Len(Reverse(x)) = Len(x)
  BY <1>1, <1>3, FunctionIsSeq
<1>. QED  BY <1>2, <1>4

\* From the other side, it ends with the last that is not a space.
LEMMA TrimRightIs ==
  ASSUME NEW x \in Seq(Token)
  PROVE  \/ Reverse(TrimLeft(Reverse(x))) = << >> /\ \A i \in 1..Len(x) : x[i] = Space
         \/ \E hi \in 1..Len(x) :
               /\ x[hi] # Space /\ \A i \in (hi + 1)..Len(x) : x[i] = Space
               /\ Reverse(TrimLeft(Reverse(x))) = SubSeq(x, 1, hi)
<1>. DEFINE y == Reverse(x)
            n == Len(x)
<1>0. n \in Nat /\ y \in Seq(Token) /\ Len(y) = n
  BY ReverseIs
<1>1. \A i \in 1..n : n + 1 - i \in 1..n /\ y[n + 1 - i] = x[i] /\ y[i] = x[n + 1 - i]
  <2>. TAKE i \in 1..n
  <2>1. n + 1 - i \in 1..n /\ (n - (n + 1 - i)) + 1 = i /\ (n - i) + 1 = n + 1 - i
    BY <1>0
  <2>. QED  BY <2>1, ReverseIs
<1>. HIDE DEF y
<1>2. CASE TrimLeft(y) = << >> /\ \A i \in 1..n : y[i] = Space
  <2>1. Reverse(<< >>) = << >>
    BY DEF Reverse
  <2>. QED  BY <1>1, <1>2, <2>1 DEF y
<1>3. ASSUME NEW lo \in 1..n, y[lo] # Space, \A i \in 1..(lo - 1) : y[i] = Space,
             TrimLeft(y) = SubSeq(y, lo, n)
      PROVE  \E hi \in 1..n : /\ x[hi] # Space /\ \A i \in (hi + 1)..n : x[i] = Space
                              /\ Reverse(TrimLeft(y)) = SubSeq(x, 1, hi)
  <2>. DEFINE hi == n + 1 - lo
              z == SubSeq(y, lo, n)
  <2>1. hi \in 1..n /\ x[hi] # Space
    BY <1>0, <1>1, <1>3
  <2>2. \A i \in (hi + 1)..n : i \in 1..n /\ n + 1 - i \in 1..(lo - 1)
    BY <1>0
  <2>3. \A i \in (hi + 1)..n : x[i] = Space
    <3>. HIDE DEF hi
    <3>. QED  BY <1>1, <1>3, <2>2
  <2>4. z \in Seq(Token) /\ Len(z) = hi /\ \A i \in 1..hi : z[i] = y[lo + i - 1]
    <3>1. lo \in Int /\ n \in Int /\ lo <= n /\ n - lo + 1 = hi
      BY <1>0
    <3>2. \A i \in lo..n : y[i] \in Token
      BY <1>0
    <3>. QED  BY <3>1, <3>2, SubSeqProperties
  <2>5. Reverse(z) = SubSeq(x, 1, hi)
    <3>. DEFINE u == SubSeq(x, 1, hi)
    <3>1. u \in Seq(Token) /\ Len(u) = hi /\ \A i \in 1..hi : u[i] = x[i]
      <4>1. 1 \in Int /\ hi \in Int /\ 1 <= hi /\ hi - 1 + 1 = hi
        BY <1>0
      <4>2. \A i \in 1..hi : x[i] \in Token /\ 1 + i - 1 = i
        BY <1>0
      <4>. HIDE DEF hi
      <4>. QED  BY <4>1, <4>2, SubSeqProperties
    <3>2. /\ Reverse(z) \in Seq(Token) /\ Len(Reverse(z)) = hi
          /\ \A i \in 1..hi : Reverse(z)[i] = z[(hi - i) + 1]
      BY <2>4, ReverseIs
    <3>3. ASSUME NEW i \in 1..hi PROVE Reverse(z)[i] = u[i]
      <4>1. (hi - i) + 1 \in 1..hi /\ lo + ((hi - i) + 1) - 1 = n + 1 - i /\ i \in 1..n
        BY <1>0
      <4>2. z[(hi - i) + 1] = y[n + 1 - i]
        BY <2>4, <4>1
      <4>. QED  BY <1>1, <3>1, <3>2, <4>1, <4>2
    <3>4. Len(Reverse(z)) = Len(u) /\ \A i \in 1..Len(Reverse(z)) : Reverse(z)[i] = u[i]
      BY <3>1, <3>2, <3>3
    <3>. HIDE DEF u, z, hi
    <3>5. Reverse(z) = u
      BY <3>1, <3>2, <3>4, SeqEqual
    <3>. QED  BY <3>5 DEF u
  <2>. QED  BY <1>3, <2>1, <2>3, <2>5
<1>4. \/ TrimLeft(y) = << >> /\ \A i \in 1..n : y[i] = Space
      \/ \E lo \in 1..n : /\ y[lo] # Space /\ \A i \in 1..(lo - 1) : y[i] = Space
                          /\ TrimLeft(y) = SubSeq(y, lo, n)
  BY <1>0, TrimLeftIs
<1>. QED  BY <1>2, <1>3, <1>4 DEF y

\* Both sides: a part of the text from the first to the last that is no space.
LEMMA TrimIs ==
  ASSUME NEW x \in Seq(Token)
  PROVE  \/ Trim(x) = << >> /\ \A i \in 1..Len(x) : x[i] = Space
         \/ \E lo, hi \in 1..Len(x) :
               /\ lo <= hi /\ Trim(x) = SubSeq(x, lo, hi)
               /\ x[lo] # Space /\ x[hi] # Space
               /\ \A i \in 1..(lo - 1) : x[i] = Space
               /\ \A i \in (hi + 1)..Len(x) : x[i] = Space
<1>. DEFINE n == Len(x)
<1>0. n \in Nat
  OBVIOUS
<1>1. CASE TrimLeft(x) = << >> /\ \A i \in 1..n : x[i] = Space
  <2>1. Reverse(<< >>) = << >>
    BY DEF Reverse
  <2>2. TrimLeft(<< >>) = << >>
    <3>1. << >> \in Seq(Token) /\ 1..Len(<< >>) = {}
      OBVIOUS
    <3>. QED  BY <3>1, TrimLeftIs
  <2>3. Trim(x) = << >>
    BY <1>1, <2>1, <2>2 DEF Trim
  <2>. QED  BY <1>1, <2>3
<1>2. ASSUME NEW lo \in 1..n, x[lo] # Space, \A i \in 1..(lo - 1) : x[i] = Space,
             TrimLeft(x) = SubSeq(x, lo, n)
      PROVE  \E hi \in 1..n : /\ lo <= hi /\ Trim(x) = SubSeq(x, lo, hi) /\ x[hi] # Space
                              /\ \A i \in (hi + 1)..n : x[i] = Space
  <2>. DEFINE z == SubSeq(x, lo, n)
              m == n - lo + 1
  <2>1. z \in Seq(Token) /\ Len(z) = m /\ m \in Nat /\ \A i \in 1..m : z[i] = x[lo + i - 1]
    <3>1. lo \in Int /\ n \in Int /\ lo <= n
      BY <1>0
    <3>2. \A i \in lo..n : x[i] \in Token
      BY <1>0
    <3>3. m \in Nat
      BY <1>0
    <3>. QED  BY <3>1, <3>2, <3>3, SubSeqProperties
  <2>. HIDE DEF z
  <2>2. Trim(x) = Reverse(TrimLeft(Reverse(z)))
    BY <1>2 DEF Trim, z
  <2>3. 1 \in 1..m /\ lo + 1 - 1 = lo
    BY <1>0
  <2>4. z[1] # Space
    BY <1>2, <2>1, <2>3
  <2>5. PICK h \in 1..m : /\ z[h] # Space /\ \A i \in (h + 1)..m : z[i] = Space
                          /\ Trim(x) = SubSeq(z, 1, h)
    BY <2>1, <2>2, <2>3, <2>4, TrimRightIs
  <2>. DEFINE hi == lo + h - 1
  <2>6. hi \in 1..n /\ lo <= hi
    BY <1>0
  <2>7. x[hi] # Space
    BY <2>1, <2>5
  <2>8. ASSUME NEW i \in (hi + 1)..n PROVE x[i] = Space
    <3>1. i - lo + 1 \in (h + 1)..m /\ i - lo + 1 \in 1..m /\ lo + (i - lo + 1) - 1 = i
      BY <1>0
    <3>. QED  BY <2>1, <2>5, <3>1
  <2>9. SubSeq(z, 1, h) = SubSeq(x, lo, hi)
    <3>1. z = SubSeq(x, lo, n) /\ lo + 1 - 1 = lo
      BY DEF z
    <3>2. 1 \in 1..(n - lo + 1) /\ h \in 1..(n - lo + 1) /\ lo \in 1..n /\ n \in 1..n
      BY <1>0
    <3>. QED  BY <3>1, <3>2, SubSeqOfSubSeq
  <2>. QED  BY <2>5, <2>6, <2>7, <2>8, <2>9
<1>. QED  BY <1>1, <1>2, TrimLeftIs

LEMMA PartIs ==
  ASSUME NEW x \in Seq(Token), NEW a \in Nat, NEW b \in Nat, a >= 1, b <= Len(x)
  PROVE  /\ SubSeq(x, a, b) \in Seq(Token)
         /\ a <= b + 1 => Len(SubSeq(x, a, b)) = b - a + 1
         /\ \A i \in 1..(b - a + 1) : SubSeq(x, a, b)[i] = x[a + i - 1]
<1>1. \A i \in a..b : x[i] \in Token
  OBVIOUS
<1>2. a \in Int /\ b \in Int
  OBVIOUS
<1>3. /\ SubSeq(x, a, b) \in Seq(Token)
      /\ Len(SubSeq(x, a, b)) = IF a <= b THEN b - a + 1 ELSE 0
      /\ \A i \in 1..(b - a + 1) : SubSeq(x, a, b)[i] = x[a + i - 1]
  BY <1>1, <1>2, SubSeqProperties
<1>. QED  BY <1>2, <1>3

\* A part of a part.
LEMMA PartOfPart ==
  ASSUME NEW x \in Seq(Token), NEW a \in Nat, NEW b \in Nat, a >= 1, b <= Len(x),
         NEW i \in Nat, NEW j \in Nat, i >= 1, j <= b - a + 1
  PROVE  SubSeq(SubSeq(x, a, b), i, j) = SubSeq(x, a + i - 1, a + j - 1)
<1>1. CASE j < i
  <2>1. a + j - 1 < a + i - 1 /\ a + j - 1 \in Int /\ a + i - 1 \in Int
    BY <1>1
  <2>. QED  BY <1>1, <2>1, SubSeqEmpty
<1>2. CASE i <= j
  <2>1. a \in 1..Len(x) /\ b \in 1..Len(x) /\ i \in 1..(b - a + 1) /\ j \in 1..(b - a + 1)
    BY <1>2
  <2>. QED  BY <2>1, SubSeqOfSubSeq
<1>. QED  BY <1>1, <1>2

LEMMA TrimLeftAt ==
  ASSUME NEW x \in Seq(Token)
  PROVE  /\ (\A i \in 1..Len(x) : x[i] = Space) => TrimLeft(x) = << >>
         /\ \A lo \in 1..Len(x) : x[lo] # Space /\ (\A i \in 1..(lo - 1) : x[i] = Space) =>
               TrimLeft(x) = SubSeq(x, lo, Len(x))
<1>0. Len(x) \in Nat
  OBVIOUS
<1>1. CASE TrimLeft(x) = << >> /\ \A i \in 1..Len(x) : x[i] = Space
  BY <1>1
<1>2. ASSUME NEW l \in 1..Len(x), x[l] # Space, \A i \in 1..(l - 1) : x[i] = Space,
             TrimLeft(x) = SubSeq(x, l, Len(x)),
             NEW lo \in 1..Len(x), x[lo] # Space, \A i \in 1..(lo - 1) : x[i] = Space
      PROVE  l = lo
  <2>1. l \in 1..(lo - 1) \/ lo \in 1..(l - 1) \/ l = lo
    BY <1>0
  <2>. QED  BY <1>2, <2>1
<1>. QED  BY <1>1, <1>2, TrimLeftIs

TrimRight(x) == Reverse(TrimLeft(Reverse(x)))

LEMMA TrimRightAt ==
  ASSUME NEW x \in Seq(Token)
  PROVE  /\ (\A i \in 1..Len(x) : x[i] = Space) => TrimRight(x) = << >>
         /\ \A hi \in 1..Len(x) : x[hi] # Space /\ (\A i \in (hi + 1)..Len(x) : x[i] = Space) =>
               TrimRight(x) = SubSeq(x, 1, hi)
<1>0. Len(x) \in Nat
  OBVIOUS
<1>1. CASE TrimRight(x) = << >> /\ \A i \in 1..Len(x) : x[i] = Space
  BY <1>1
<1>2. ASSUME NEW h \in 1..Len(x), x[h] # Space, \A i \in (h + 1)..Len(x) : x[i] = Space,
             TrimRight(x) = SubSeq(x, 1, h),
             NEW hi \in 1..Len(x), x[hi] # Space, \A i \in (hi + 1)..Len(x) : x[i] = Space
      PROVE  h = hi
  <2>1. h \in (hi + 1)..Len(x) \/ hi \in (h + 1)..Len(x) \/ h = hi
    BY <1>0
  <2>. QED  BY <1>2, <2>1
<1>. QED  BY <1>1, <1>2, TrimRightIs DEF TrimRight

\* Trimming an item trims the outside of its key and of its value.
LEMMA TrimmedItem ==
  ASSUME NEW x \in Seq(Token)
  PROVE  /\ Trim(x) \in Seq(Token)
         /\ (\E e \in Seps(x, "=") : Seps(x, "=") = {e})
               <=> \E f \in Seps(Trim(x), "=") : Seps(Trim(x), "=") = {f}
         /\ \A e \in Seps(x, "="), f \in Seps(Trim(x), "=") :
               Seps(x, "=") = {e} /\ Seps(Trim(x), "=") = {f} =>
                  /\ SubSeq(Trim(x), 1, f - 1) = TrimLeft(SubSeq(x, 1, e - 1))
                  /\ SubSeq(Trim(x), f + 1, Len(Trim(x))) = TrimRight(SubSeq(x, e + 1, Len(x)))
<1>. DEFINE n == Len(x)
            y == Trim(x)
<1>0. n \in Nat /\ Space # "="
  BY DEF Space
<1>1. CASE y = << >> /\ \A i \in 1..n : x[i] = Space
  <2>1. Seps(x, "=") = {}
    BY <1>0, <1>1 DEF Seps
  <2>2. Seps(y, "=") = {} /\ y \in Seq(Token)
    BY <1>1 DEF Seps
  <2>. QED  BY <2>1, <2>2
<1>2. ASSUME NEW lo \in 1..n, NEW hi \in 1..n,
             lo <= hi, y = SubSeq(x, lo, hi), x[lo] # Space, x[hi] # Space,
             \A i \in 1..(lo - 1) : x[i] = Space, \A i \in (hi + 1)..n : x[i] = Space
      PROVE  /\ y \in Seq(Token)
             /\ \A e \in Seps(x, "=") : e - lo + 1 \in Seps(y, "=")
             /\ \A f \in Seps(y, "=") : f + lo - 1 \in Seps(x, "=")
             /\ \A e \in Seps(x, "=") :
                  /\ SubSeq(y, 1, e - lo) = TrimLeft(SubSeq(x, 1, e - 1))
                  /\ SubSeq(y, e - lo + 2, Len(y)) = TrimRight(SubSeq(x, e + 1, n))
  <2>. DEFINE m == hi - lo + 1
  <2>1. /\ y \in Seq(Token) /\ Len(y) = m /\ m \in Nat /\ m >= 1
        /\ \A i \in 1..m : y[i] = x[lo + i - 1]
    <3>1. lo \in Nat /\ hi \in Nat /\ lo >= 1 /\ hi <= n /\ lo <= hi + 1 /\ m \in Nat /\ m >= 1
      BY <1>0, <1>2
    <3>. QED  BY <1>2, <3>1, PartIs
  <2>. HIDE DEF y
  <2>2. ASSUME NEW e \in 1..n, x[e] = "=" PROVE e \in lo..hi
    <3>1. e \in 1..(lo - 1) \/ e \in (hi + 1)..n \/ e \in lo..hi
      BY <1>0
    <3>. QED  BY <1>0, <1>2, <2>2, <3>1
  <2>3. ASSUME NEW e \in Seps(x, "=") PROVE e - lo + 1 \in Seps(y, "=")
    <3>1. e \in lo..hi /\ x[e] = "="
      BY <2>2 DEF Seps
    <3>2. e - lo + 1 \in 1..m /\ lo + (e - lo + 1) - 1 = e
      BY <3>1
    <3>. QED  BY <2>1, <3>1, <3>2 DEF Seps
  <2>4. ASSUME NEW f \in Seps(y, "=") PROVE f + lo - 1 \in Seps(x, "=")
    <3>1. f \in 1..m /\ y[f] = "="
      BY <2>1 DEF Seps
    <3>2. f + lo - 1 \in 1..n /\ f + lo - 1 = lo + f - 1
      BY <1>0, <3>1
    <3>. QED  BY <2>1, <3>1, <3>2 DEF Seps
  <2>5. ASSUME NEW e \in Seps(x, "=")
        PROVE  SubSeq(y, 1, e - lo) = TrimLeft(SubSeq(x, 1, e - 1))
    <3>. DEFINE u == SubSeq(x, 1, e - 1)
    <3>1. e \in lo..hi /\ e - 1 \in Nat /\ e - 1 <= n /\ e - 1 - 1 + 1 = e - 1
      BY <1>0, <2>2 DEF Seps
    <3>2. u \in Seq(Token) /\ Len(u) = e - 1 /\ \A i \in 1..(e - 1) : u[i] = x[i]
      <4>1. 1 <= (e - 1) + 1 /\ \A i \in 1..(e - 1) : 1 + i - 1 = i
        BY <3>1
      <4>. QED  BY <3>1, <4>1, PartIs
    <3>. HIDE DEF u
    <3>3. CASE e = lo
      <4>1. \A i \in 1..Len(u) : u[i] = Space
        BY <1>2, <3>2, <3>3
      <4>2. TrimLeft(u) = << >>
        BY <3>2, <4>1, TrimLeftAt
      <4>3. SubSeq(y, 1, 0) = << >> /\ e - lo = 0
        BY <2>1, <3>3
      <4>. QED  BY <4>2, <4>3 DEF u
    <3>4. CASE lo < e
      <4>1. lo \in 1..Len(u) /\ lo - 1 <= e - 1
        BY <3>1, <3>2, <3>4
      <4>2. u[lo] # Space /\ \A i \in 1..(lo - 1) : u[i] = Space
        BY <1>2, <3>1, <3>2, <4>1
      <4>3. TrimLeft(u) = SubSeq(u, lo, e - 1)
        BY <3>2, <4>1, <4>2, TrimLeftAt
      <4>4. SubSeq(u, lo, e - 1) = SubSeq(x, lo, e - 1)
        <5>1. lo \in Nat /\ lo >= 1 /\ e - 1 <= (e - 1) - 1 + 1 /\ 1 + lo - 1 = lo
              /\ 1 + (e - 1) - 1 = e - 1
          BY <3>1
        <5>. QED  BY <3>1, <5>1, PartOfPart DEF u
      <4>5. SubSeq(y, 1, e - lo) = SubSeq(x, lo, e - 1)
        <5>1. /\ lo \in Nat /\ lo >= 1 /\ hi \in Nat /\ hi <= n /\ e - lo \in Nat
              /\ e - lo <= hi - lo + 1 /\ lo + 1 - 1 = lo /\ lo + (e - lo) - 1 = e - 1
          BY <1>0, <3>1, <3>4
        <5>. QED  BY <1>2, <5>1, PartOfPart
      <4>. QED  BY <4>3, <4>4, <4>5 DEF u
    <3>. QED  BY <3>1, <3>3, <3>4
  <2>6. ASSUME NEW e \in Seps(x, "=")
        PROVE  SubSeq(y, e - lo + 2, Len(y)) = TrimRight(SubSeq(x, e + 1, n))
    <3>. DEFINE v == SubSeq(x, e + 1, n)
    <3>1. e \in lo..hi /\ e + 1 \in Nat /\ e + 1 >= 1 /\ n - (e + 1) + 1 = n - e /\ e + 1 <= n + 1
      BY <1>0, <2>2 DEF Seps
    <3>2. v \in Seq(Token) /\ Len(v) = n - e /\ \A i \in 1..(n - e) : v[i] = x[e + i]
      <4>1. \A i \in 1..(n - e) : (e + 1) + i - 1 = e + i
        BY <3>1
      <4>. QED  BY <1>0, <3>1, <4>1, PartIs
    <3>. HIDE DEF v
    <3>3. CASE e = hi
      <4>1. \A i \in 1..(n - e) : e + i \in (hi + 1)..n
        BY <1>0, <3>1, <3>3
      <4>2. \A i \in 1..Len(v) : v[i] = Space
        BY <1>2, <3>2, <4>1
      <4>3. TrimRight(v) = << >>
        BY <3>2, <4>2, TrimRightAt
      <4>4. e - lo + 2 = m + 1 /\ m < m + 1
        BY <3>3
      <4>5. SubSeq(y, m + 1, m) = << >>
        BY <2>1, <4>4, SubSeqEmpty
      <4>. QED  BY <2>1, <4>3, <4>4, <4>5 DEF v
    <3>4. CASE e < hi
      <4>. DEFINE h == hi - e
      <4>1. h \in 1..Len(v) /\ e + h = hi
        BY <1>0, <3>1, <3>2, <3>4
      <4>2. \A i \in (h + 1)..(n - e) : e + i \in (hi + 1)..n /\ i \in 1..(n - e)
        BY <1>0, <3>1, <3>4
      <4>3. v[h] # Space /\ \A i \in (h + 1)..Len(v) : v[i] = Space
        BY <1>2, <3>2, <4>1, <4>2
      <4>4. TrimRight(v) = SubSeq(v, 1, h)
        BY <3>2, <4>1, <4>3, TrimRightAt
      <4>5. SubSeq(v, 1, h) = SubSeq(x, e + 1, hi)
        <5>1. /\ h \in Nat /\ h <= n - (e + 1) + 1 /\ (e + 1) + 1 - 1 = e + 1
              /\ (e + 1) + h - 1 = hi
          BY <1>0, <3>1, <3>4
        <5>. QED  BY <1>0, <3>1, <5>1, PartOfPart DEF v
      <4>6. SubSeq(y, e - lo + 2, m) = SubSeq(x, e + 1, hi)
        <5>1. /\ lo \in Nat /\ lo >= 1 /\ hi \in Nat /\ hi <= n
              /\ e - lo + 2 \in Nat /\ e - lo + 2 >= 1 /\ m \in Nat /\ m <= hi - lo + 1
          BY <1>0, <3>1, <3>4
        <5>2. lo + (e - lo + 2) - 1 = e + 1 /\ lo + m - 1 = hi
          BY <3>1
        <5>. HIDE DEF m
        <5>. DEFINE i == e - lo + 2
        <5>3. i \in Nat /\ i >= 1 /\ lo + i - 1 = e + 1
          BY <5>1, <5>2
        <5>. HIDE DEF i
        <5>4. SubSeq(SubSeq(x, lo, hi), i, m) = SubSeq(x, lo + i - 1, lo + m - 1)
          BY <5>1, <5>3, PartOfPart
        <5>. QED  BY <1>2, <5>2, <5>3, <5>4 DEF i
      <4>. QED  BY <2>1, <4>4, <4>5, <4>6 DEF v
    <3>. QED  BY <3>1, <3>3, <3>4
  <2>. QED  BY <2>1, <2>3, <2>4, <2>5, <2>6
<1>3. ASSUME /\ y \in Seq(Token)
             /\ \E lo \in 1..n :
                  /\ \A e \in Seps(x, "=") : e - lo + 1 \in Seps(y, "=")
                  /\ \A f \in Seps(y, "=") : f + lo - 1 \in Seps(x, "=")
                  /\ \A e \in Seps(x, "=") :
                       /\ SubSeq(y, 1, e - lo) = TrimLeft(SubSeq(x, 1, e - 1))
                       /\ SubSeq(y, e - lo + 2, Len(y)) = TrimRight(SubSeq(x, e + 1, n))
      PROVE  /\ (\E e \in Seps(x, "=") : Seps(x, "=") = {e})
                   <=> \E f \in Seps(y, "=") : Seps(y, "=") = {f}
             /\ \A e \in Seps(x, "="), f \in Seps(y, "=") :
                   Seps(x, "=") = {e} /\ Seps(y, "=") = {f} =>
                      /\ SubSeq(y, 1, f - 1) = TrimLeft(SubSeq(x, 1, e - 1))
                      /\ SubSeq(y, f + 1, Len(y)) = TrimRight(SubSeq(x, e + 1, n))
  <2>1. PICK lo \in 1..n :
                  /\ \A e \in Seps(x, "=") : e - lo + 1 \in Seps(y, "=")
                  /\ \A f \in Seps(y, "=") : f + lo - 1 \in Seps(x, "=")
                  /\ \A e \in Seps(x, "=") :
                       /\ SubSeq(y, 1, e - lo) = TrimLeft(SubSeq(x, 1, e - 1))
                       /\ SubSeq(y, e - lo + 2, Len(y)) = TrimRight(SubSeq(x, e + 1, n))
    BY <1>3
  <2>2. Seps(x, "=") \subseteq Int /\ Seps(y, "=") \subseteq Int
    BY <1>0, <1>3 DEF Seps
  <2>. HIDE DEF y, n
  <2>3. ASSUME NEW e \in Seps(x, "="), Seps(x, "=") = {e} PROVE Seps(y, "=") = {e - lo + 1}
    <3>1. \A f \in Seps(y, "=") : f + lo - 1 = e /\ f \in Int
      BY <2>1, <2>2, <2>3
    <3>2. \A f \in Seps(y, "=") : f = e - lo + 1
      BY <2>2, <3>1
    <3>. QED  BY <2>1, <3>2
  <2>4. ASSUME NEW f \in Seps(y, "="), Seps(y, "=") = {f} PROVE Seps(x, "=") = {f + lo - 1}
    <3>1. \A e \in Seps(x, "=") : e - lo + 1 = f /\ e \in Int
      BY <2>1, <2>2, <2>4
    <3>2. \A e \in Seps(x, "=") : e = f + lo - 1
      BY <2>2, <3>1
    <3>. QED  BY <2>1, <3>2
  <2>5. ASSUME NEW e \in Seps(x, "="), NEW f \in Seps(y, "="),
               Seps(x, "=") = {e}, Seps(y, "=") = {f}
        PROVE  f - 1 = e - lo /\ f + 1 = e - lo + 2
    <3>1. f = e - lo + 1
      BY <2>3, <2>5
    <3>. QED  BY <2>2, <3>1
  <2>. QED  BY <2>1, <2>3, <2>4, <2>5
<1>. QED  BY <1>1, <1>2, <1>3, TrimIs

LEMMA TrimmedPair ==
  ASSUME NEW x \in Seq(Token),
         NEW e, e \in Seps(x, "="), Seps(x, "=") = {e},
         NEW f, f \in Seps(Trim(x), "="), Seps(Trim(x), "=") = {f}
  PROVE  /\ SubSeq(Trim(x), 1, f - 1) = TrimLeft(SubSeq(x, 1, e - 1))
         /\ SubSeq(Trim(x), f + 1, Len(Trim(x))) = TrimRight(SubSeq(x, e + 1, Len(x)))
BY TrimmedItem

-----------------------------------------------------------------------------
(* The maps.                                                               *)

PairKey(piece) == Split(piece, "=")[1]
PairValue(piece) == Split(piece, "=")[2]

\* One pair at a time.
LEMMA PairsSteps ==
  ASSUME NEW q, NEW n \in Nat, DOMAIN q = 1..n
  PROVE  \E p : /\ PairsOf(q) = p[n]
                /\ p[0] = Nothing
                /\ \A k \in 1..n : p[k] = Put(p[k - 1], PairKey(q[k]), PairValue(q[k]))
<1>. DEFINE Keyset == {PairKey(q[i]) : i \in 1..n}
            Valueset == {PairValue(q[i]) : i \in 1..n}
            S == UNION {[D -> Valueset] : D \in SUBSET Keyset}
            base == << >>
            Step(map, i) == Put(map, PairKey(q[i]), PairValue(q[i]))
            step == [x \in S \X (1..n) |-> Step(x[1], x[2])]
            Is(g) == g = [part \in SUBSET DOMAIN q |-> IF part = {} THEN base
                            ELSE Step(g[part \ {Max(part)}], Max(part))]
<1>1. base \in S
  <2>1. base \in [{} -> Valueset]
    OBVIOUS
  <2>. QED  BY <2>1
<1>2. step \in [S \X (1..n) -> S]
  <2>1. ASSUME NEW map \in S, NEW i \in 1..n PROVE Step(map, i) \in S
    <3>1. PICK D \in SUBSET Keyset : map \in [D -> Valueset]
      OBVIOUS
    <3>2. PairKey(q[i]) \in Keyset /\ PairValue(q[i]) \in Valueset
      OBVIOUS
    <3>. HIDE DEF Keyset, Valueset
    <3>3. Step(map, i) \in [D \cup {PairKey(q[i])} -> Valueset]
      <4>. DEFINE f == Step(map, i)
      <4>1. DOMAIN f = D \cup {PairKey(q[i])} /\ f = [k \in DOMAIN f |-> f[k]]
        BY <3>1 DEF Put
      <4>2. \A k \in DOMAIN f : f[k] \in Valueset
        BY <3>1, <3>2, <4>1 DEF Put
      <4>. HIDE DEF f
      <4>. QED  BY <4>1, <4>2 DEF f
    <3>. QED  BY <3>2, <3>3
  <2>. HIDE DEF S, Step
  <2>. QED  BY <2>1
<1>3. PICK g : IsFold(g, n, S, base, step)
  <2>. HIDE DEF S, step, base
  <2>. QED  BY <1>1, <1>2, FoldExists
<1>4. Is(g)
  <2>1. ASSUME NEW part \in SUBSET (1..n), part # {}
        PROVE  part \ {Max(part)} \in SUBSET (1..n) /\ Max(part) \in 1..n
    BY <2>1, MaxExists
  <2>2. ASSUME NEW part \in SUBSET (1..n), part # {}
        PROVE  g[part] = Step(g[part \ {Max(part)}], Max(part))
    <3>. HIDE DEF S, base, Step
    <3>. QED  BY <1>3, <2>1, <2>2 DEF IsFold
  <2>3. g[{}] = base /\ g \in [SUBSET (1..n) -> S]
    BY <1>3 DEF IsFold
  <2>. HIDE DEF S, base, step, Step
  <2>. QED  BY <2>2, <2>3
<1>. DEFINE f == CHOOSE f : Is(f)
<1>5. Is(f)
  BY <1>4, Zenon
<1>6. PairsOf(q) = f[1..n]
  BY DEF PairsOf, FoldLeft, MapThenFoldSet, PairKey, PairValue, Nothing
<1>. HIDE DEF f, Step
<1>7. f[1..0] = base /\ \A k \in 1..n : f[1..k] = Step(f[1..(k - 1)], k)
  <2>1. ASSUME NEW part \in SUBSET (1..n)
        PROVE  f[part] = IF part = {} THEN base ELSE Step(f[part \ {Max(part)}], Max(part))
    BY <1>5
  <2>2. 1..0 = {}
    OBVIOUS
  <2>3. ASSUME NEW k \in 1..n PROVE f[1..k] = Step(f[1..(k - 1)], k)
    <3>1. 1..k \in SUBSET (1..n) /\ Max(1..k) = k /\ 1..k # {} /\ (1..k) \ {k} = 1..(k - 1)
      BY PrefixMax
    <3>. QED  BY <2>1, <3>1
  <2>. QED  BY <2>1, <2>2, <2>3
<1>. DEFINE p == [k \in 0..n |-> f[1..k]]
<1>8. /\ p[n] = f[1..n] /\ p[0] = f[1..0]
      /\ \A k \in 1..n : p[k] = f[1..k] /\ p[k - 1] = f[1..(k - 1)]
  OBVIOUS
<1>. HIDE DEF p
<1>. QED  BY <1>6, <1>7, <1>8 DEF Step, Nothing

\* The keys of the first n pairs, each with the value of its last.
Holds(map, q, n) ==
    /\ DOMAIN map = {PairKey(q[i]) : i \in 1..n}
    /\ \A i \in 1..n : (\A j \in (i + 1)..n : PairKey(q[j]) # PairKey(q[i])) =>
          map[PairKey(q[i])] = PairValue(q[i])

LEMMA PairsHold ==
  ASSUME NEW q, NEW n \in Nat, DOMAIN q = 1..n
  PROVE  Holds(PairsOf(q), q, n)
<1>1. PICK p : /\ PairsOf(q) = p[n]
               /\ p[0] = Nothing
               /\ \A k \in 1..n : p[k] = Put(p[k - 1], PairKey(q[k]), PairValue(q[k]))
  BY PairsSteps
<1>. DEFINE T == {k \in 0..n : Holds(p[k], q, k)}
<1>2. 0 \in T
  <2>1. DOMAIN Nothing = {}
    BY DEF Nothing
  <2>. QED  BY <1>1, <2>1 DEF Holds
<1>3. ASSUME NEW k \in 1..n, k - 1 \in T PROVE k \in T
  <2>1. p[k] = Put(p[k - 1], PairKey(q[k]), PairValue(q[k]))
    BY <1>1
  <2>2. 1..k = 1..(k - 1) \cup {k}
    OBVIOUS
  <2>3. DOMAIN p[k - 1] = {PairKey(q[i]) : i \in 1..(k - 1)}
    BY <1>3 DEF Holds
  <2>4. DOMAIN p[k] = {PairKey(q[i]) : i \in 1..k}
    <3>1. DOMAIN p[k] = DOMAIN p[k - 1] \cup {PairKey(q[k])}
      BY <2>1 DEF Put
    <3>. QED  BY <2>2, <2>3, <3>1
  <2>5. ASSUME NEW i \in 1..k, \A j \in (i + 1)..k : PairKey(q[j]) # PairKey(q[i])
        PROVE  p[k][PairKey(q[i])] = PairValue(q[i])
    <3>1. CASE i = k
      BY <2>1, <3>1 DEF Put
    <3>2. CASE i # k
      <4>1. i \in 1..(k - 1) /\ k \in (i + 1)..k /\ \A j \in (i + 1)..(k - 1) : j \in (i + 1)..k
        BY <3>2
      <4>2. p[k - 1][PairKey(q[i])] = PairValue(q[i])
        BY <1>3, <2>5, <4>1 DEF Holds
      <4>3. PairKey(q[k]) # PairKey(q[i]) /\ PairKey(q[i]) \in DOMAIN p[k - 1]
        BY <2>3, <2>5, <4>1
      <4>. QED  BY <2>1, <4>2, <4>3 DEF Put
    <3>. QED  BY <3>1, <3>2
  <2>. QED  BY <2>4, <2>5 DEF Holds
<1>4. n \in T
  <2>. HIDE DEF T
  <2>. QED  BY <1>2, <1>3, UpTo
<1>. QED  BY <1>1, <1>4

-----------------------------------------------------------------------------
(* What the pieces say.                                                    *)

ItemOf(x, sep) == IF sep = ";" THEN Trim(x) ELSE x

\* An item is a pair when its piece has one "=", and then says what that says.
Reads(text, d, item, sep) ==
    /\ IsPair(item) <=> \E k \in Equals(text, d) : Equals(text, d) = {k}
    /\ IsPair(item) => /\ KeyOf(text, d, sep) = PairKey(item)
                       /\ MeaningOf(text, d, sep) = PairValue(item)

LEMMA PieceReads ==
  ASSUME NEW text \in Seq(Token), NEW a \in Nat, NEW b \in Nat,
         a < b, b <= Len(text) + 1, NEW sep,
         NEW x, x = SubSeq(text, a + 1, b - 1), NEW d, d = <<a, b>>
  PROVE  Reads(text, d, ItemOf(x, sep), sep)
<1>. DEFINE m == b - a - 1
            item == ItemOf(x, sep)
<1>0. d[1] = a /\ d[2] = b /\ Len(text) \in Nat
  OBVIOUS
<1>1. x \in Seq(Token) /\ Len(x) = m /\ m \in Nat /\ \A i \in 1..m : x[i] = text[a + i]
  <2>1. /\ a + 1 \in Nat /\ b - 1 \in Nat /\ a + 1 >= 1 /\ b - 1 <= Len(text)
        /\ a + 1 <= (b - 1) + 1 /\ (b - 1) - (a + 1) + 1 = m /\ m \in Nat
    BY <1>0
  <2>2. \A i \in 1..m : (a + 1) + i - 1 = a + i
    BY <1>0
  <2>. QED  BY <2>1, <2>2, PartIs
<1>2. /\ \A e \in Seps(x, "=") : a + e \in Equals(text, d)
      /\ \A k \in Equals(text, d) : k - a \in Seps(x, "=")
      /\ Seps(x, "=") \subseteq 1..m /\ Seps(x, "=") \subseteq Int /\ Equals(text, d) \subseteq Int
  <2>1. ASSUME NEW e \in Seps(x, "=") PROVE a + e \in Equals(text, d)
    BY <1>0, <1>1 DEF Seps, Equals
  <2>2. ASSUME NEW k \in Equals(text, d) PROVE k - a \in Seps(x, "=")
    <3>1. k - a \in 1..m /\ a + (k - a) = k /\ text[k] = "="
      BY <1>0 DEF Equals
    <3>. QED  BY <1>1, <3>1 DEF Seps
  <2>3. Seps(x, "=") \subseteq 1..m /\ Seps(x, "=") \subseteq Int /\ Equals(text, d) \subseteq Int
    BY <1>0, <1>1 DEF Seps, Equals
  <2>. QED  BY <2>1, <2>2, <2>3
<1>3. item \in Seq(Token)
  BY <1>1, TrimmedItem DEF ItemOf
<1>4. /\ (\E e \in Seps(x, "=") : Seps(x, "=") = {e})
            <=> \E k \in Equals(text, d) : Equals(text, d) = {k}
      /\ \A e \in Seps(x, "=") : Seps(x, "=") = {e} => Equals(text, d) = {a + e}
  <2>1. ASSUME NEW e \in Seps(x, "="), Seps(x, "=") = {e} PROVE Equals(text, d) = {a + e}
    <3>1. \A k \in Equals(text, d) : k - a = e /\ k \in Int
      BY <1>2, <2>1
    <3>2. \A k \in Equals(text, d) : k = a + e
      BY <3>1
    <3>. QED  BY <1>2, <3>2
  <2>2. ASSUME NEW k \in Equals(text, d), Equals(text, d) = {k} PROVE Seps(x, "=") = {k - a}
    <3>1. \A e \in Seps(x, "=") : a + e = k /\ e \in Int
      BY <1>2, <2>2
    <3>2. \A e \in Seps(x, "=") : e = k - a
      BY <1>2, <3>1
    <3>. QED  BY <1>2, <2>2, <3>2
  <2>. QED  BY <1>2, <2>1, <2>2
<1>5. (\E e \in Seps(x, "=") : Seps(x, "=") = {e})
          <=> \E f \in Seps(item, "=") : Seps(item, "=") = {f}
  BY <1>1, TrimmedItem DEF ItemOf
<1>6. IsPair(item) <=> \E f \in Seps(item, "=") : Seps(item, "=") = {f}
  BY <1>3, SplitInTwo DEF IsPair
<1>7. ASSUME IsPair(item)
      PROVE  KeyOf(text, d, sep) = PairKey(item) /\ MeaningOf(text, d, sep) = PairValue(item)
  <2>1. PICK e \in Seps(x, "=") : Seps(x, "=") = {e}
    BY <1>5, <1>6, <1>7
  <2>2. PICK f \in Seps(item, "=") : Seps(item, "=") = {f}
    BY <1>6, <1>7
  <2>3. /\ PairKey(item) = SubSeq(item, 1, f - 1)
        /\ PairValue(item) = SubSeq(item, f + 1, Len(item))
    BY <1>3, <2>2, SplitInTwo DEF PairKey, PairValue
  <2>4. Equals(text, d) = {a + e} /\ e \in 1..m
    BY <1>2, <1>4, <2>1
  <2>. DEFINE k == CHOOSE k \in Equals(text, d) : TRUE
  <2>5. k = a + e
    BY <2>4
  <2>12. /\ KeyOf(text, d, sep) = IF sep = ";" THEN TrimLeft(SubSeq(text, d[1] + 1, k - 1))
                                   ELSE SubSeq(text, d[1] + 1, k - 1)
        /\ MeaningOf(text, d, sep) = IF sep = ";" THEN TrimRight(SubSeq(text, k + 1, d[2] - 1))
                                     ELSE SubSeq(text, k + 1, d[2] - 1)
    BY Zenon DEF KeyOf, MeaningOf, TrimRight
  <2>. HIDE DEF k
  <2>13. k - 1 = a + e - 1 /\ k + 1 = a + e + 1
    BY <2>4, <2>5
  <2>6. SubSeq(text, a + 1, a + e - 1) = SubSeq(x, 1, e - 1)
    <3>1. /\ a + 1 \in Nat /\ b - 1 \in Nat /\ a + 1 >= 1 /\ b - 1 <= Len(text)
          /\ 1 \in Nat /\ e - 1 \in Nat /\ 1 >= 1 /\ e - 1 <= (b - 1) - (a + 1) + 1
      BY <1>0, <2>4
    <3>2. (a + 1) + 1 - 1 = a + 1 /\ (a + 1) + (e - 1) - 1 = a + e - 1
      BY <2>4
    <3>3. SubSeq(x, 1, e - 1) = SubSeq(text, (a + 1) + 1 - 1, (a + 1) + (e - 1) - 1)
      BY <3>1, PartOfPart
    <3>. QED  BY <3>2, <3>3
  <2>7. SubSeq(text, a + e + 1, b - 1) = SubSeq(x, e + 1, m)
    <3>1. /\ a + 1 \in Nat /\ b - 1 \in Nat /\ a + 1 >= 1 /\ b - 1 <= Len(text)
          /\ e + 1 \in Nat /\ m \in Nat /\ e + 1 >= 1 /\ m <= (b - 1) - (a + 1) + 1
      BY <1>0, <1>1, <2>4
    <3>2. (a + 1) + (e + 1) - 1 = a + e + 1 /\ (a + 1) + m - 1 = b - 1
      BY <2>4
    <3>. DEFINE i == e + 1
    <3>3. i \in Nat /\ i >= 1 /\ (a + 1) + i - 1 = a + e + 1
      BY <3>1, <3>2
    <3>. HIDE DEF i, m
    <3>4. SubSeq(SubSeq(text, a + 1, b - 1), i, m) = SubSeq(text, (a + 1) + i - 1, (a + 1) + m - 1)
      BY <3>1, <3>3, PartOfPart
    <3>. QED  BY <3>2, <3>3, <3>4 DEF i
  <2>8. KeyOf(text, d, sep) = IF sep = ";" THEN TrimLeft(SubSeq(x, 1, e - 1)) ELSE SubSeq(x, 1, e - 1)
    BY <1>0, <2>6, <2>12, <2>13
  <2>9. MeaningOf(text, d, sep) = IF sep = ";" THEN TrimRight(SubSeq(x, e + 1, m)) ELSE SubSeq(x, e + 1, m)
    BY <1>0, <2>7, <2>12, <2>13
  <2>10. CASE sep = ";"
    <3>1. item = Trim(x)
      BY <2>10 DEF ItemOf
    <3>2. f \in Seps(Trim(x), "=") /\ Seps(Trim(x), "=") = {f}
      BY <2>2, <3>1
    <3>3. /\ SubSeq(Trim(x), 1, f - 1) = TrimLeft(SubSeq(x, 1, e - 1))
          /\ SubSeq(Trim(x), f + 1, Len(Trim(x))) = TrimRight(SubSeq(x, e + 1, Len(x)))
      BY <1>1, <2>1, <3>2, TrimmedPair
    <3>. QED  BY <1>1, <2>3, <2>8, <2>9, <2>10, <3>1, <3>3
  <2>11. CASE sep # ";"
    <3>1. item = x
      BY <2>11 DEF ItemOf
    <3>2. f = e
      BY <2>1, <2>2, <3>1
    <3>. QED  BY <1>1, <2>3, <2>8, <2>9, <2>11, <3>1, <3>2
  <2>. QED  BY <2>10, <2>11
<1>. QED  BY <1>4, <1>5, <1>6, <1>7 DEF Reads

\* A text of pairs, taken apart, means what it says.
LEMMA PairsMean ==
  ASSUME NEW text \in Seq(Token), NEW sep, NEW q,
         q = [i \in DOMAIN Split(text, sep) |-> ItemOf(Split(text, sep)[i], sep)]
  PROVE  /\ ArePairs(q) <=> WellFormed(text, sep)
         /\ ArePairs(q) => Means(text, sep, PairsOf(q))
<1>. DEFINE n == Len(text)
            r == Split(text, sep)
            map == PairsOf(q)
<1>1. PICK c, K : Cutting(c, K, n, text, sep) /\ AreCut(r, c, K, text)
  BY SplitCuts
<1>. DEFINE d(i) == <<c[i], c[i + 1]>>
<1>2. /\ K \in Nat /\ (\A i \in 1..(K + 1) : c[i] \in Nat)
      /\ c[K + 1] = n + 1 /\ n \in Nat
  BY <1>1 DEF Cutting
<1>3. \A i, j \in 1..(K + 1) : i < j => c[i] < c[j]
  BY <1>1, CutsIncrease
<1>4. r \in Seq(Seq(Token)) /\ Len(r) = K /\ \A i \in 1..K : r[i] = SubSeq(text, c[i] + 1, c[i + 1] - 1)
  BY <1>1 DEF AreCut
<1>5. DOMAIN q = 1..K /\ \A i \in 1..K : q[i] = ItemOf(r[i], sep)
  BY <1>4
<1>6. Pieces(text, sep) = {d(i) : i \in 1..K}
  BY <1>1, PiecesAreCut
<1>7. ASSUME NEW i \in 1..K
      PROVE  Reads(text, d(i), q[i], sep)
  <2>1. i \in 1..(K + 1) /\ i + 1 \in 1..(K + 1) /\ K + 1 \in 1..(K + 1) /\ i < i + 1
        /\ (i + 1 < K + 1 \/ i + 1 = K + 1)
    BY <1>2
  <2>2. c[i] \in Nat /\ c[i + 1] \in Nat /\ c[i] < c[i + 1]
    BY <1>2, <1>3, <2>1
  <2>3. c[i + 1] <= n + 1
    <3>1. c[i + 1] < c[K + 1] \/ c[i + 1] = c[K + 1]
      BY <1>3, <2>1
    <3>. QED  BY <1>2, <2>2, <3>1
  <2>4. r[i] = SubSeq(text, c[i] + 1, c[i + 1] - 1) /\ q[i] = ItemOf(r[i], sep)
    BY <1>4, <1>5
  <2>. DEFINE a == c[i]
              b == c[i + 1]
              x == r[i]
              e == d(i)
  <2>5. /\ a \in Nat /\ b \in Nat /\ a < b /\ b <= Len(text) + 1
        /\ x = SubSeq(text, a + 1, b - 1) /\ e = <<a, b>>
    BY <2>2, <2>3, <2>4
  <2>. HIDE DEF a, b, x, e
  <2>6. Reads(text, e, ItemOf(x, sep), sep)
    BY <2>5, PieceReads
  <2>7. q[i] = ItemOf(x, sep) /\ e = d(i)
    BY <2>4 DEF x, e
  <2>. HIDE DEF d
  <2>. QED  BY <2>6, <2>7
<1>8. ArePairs(q) <=> WellFormed(text, sep)
  <2>1. ArePairs(q) <=> \A i \in 1..K : IsPair(q[i])
    BY <1>5 DEF ArePairs
  <2>2. WellFormed(text, sep) <=>
           \A i \in 1..K : \E k \in Equals(text, d(i)) : Equals(text, d(i)) = {k}
    <3>. HIDE DEF d
    <3>. QED  BY <1>6 DEF WellFormed
  <2>. QED  BY <1>7, <2>1, <2>2 DEF Reads
<1>9. ASSUME ArePairs(q) PROVE Means(text, sep, map)
  <2>1. \A i \in 1..K : /\ KeyOf(text, d(i), sep) = PairKey(q[i])
                        /\ MeaningOf(text, d(i), sep) = PairValue(q[i])
    BY <1>5, <1>7, <1>9 DEF ArePairs, Reads
  <2>2. /\ DOMAIN map = {PairKey(q[i]) : i \in 1..K}
        /\ \A i \in 1..K : (\A j \in (i + 1)..K : PairKey(q[j]) # PairKey(q[i])) =>
              map[PairKey(q[i])] = PairValue(q[i])
    <3>1. K \in Nat /\ DOMAIN q = 1..K
      BY <1>2, <1>5
    <3>2. Holds(map, q, K)
      BY <3>1, PairsHold
    <3>. HIDE DEF map
    <3>. QED  BY <3>2 DEF Holds
  <2>. HIDE DEF map
  <2>3. DOMAIN map = {KeyOf(text, x, sep) : x \in Pieces(text, sep)}
    <3>1. \A x \in Pieces(text, sep) : \E i \in 1..K : x = d(i)
      BY <1>6
    <3>2. \A i \in 1..K : d(i) \in Pieces(text, sep)
      BY <1>6
    <3>. HIDE DEF d
    <3>3. \A x \in Pieces(text, sep) : KeyOf(text, x, sep) \in DOMAIN map
      BY <2>1, <2>2, <3>1
    <3>4. \A key \in DOMAIN map : \E x \in Pieces(text, sep) : key = KeyOf(text, x, sep)
      BY <2>1, <2>2, <3>2
    <3>. QED  BY <3>3, <3>4
  <2>4. ASSUME NEW x \in Pieces(text, sep),
               \A y \in Pieces(text, sep) : y[1] > x[1] => KeyOf(text, y, sep) # KeyOf(text, x, sep)
        PROVE  map[KeyOf(text, x, sep)] = MeaningOf(text, x, sep)
    <3>1. PICK i \in 1..K : x = d(i)
      BY <1>6
    <3>2. ASSUME NEW j \in (i + 1)..K PROVE PairKey(q[j]) # PairKey(q[i])
      <4>1. j \in 1..K /\ i \in 1..(K + 1) /\ j \in 1..(K + 1) /\ i < j
        BY <1>2
      <4>2. c[i] < c[j] /\ c[i] \in Nat /\ c[j] \in Nat
        BY <1>2, <1>3, <4>1
      <4>3. d(j) \in Pieces(text, sep) /\ d(j)[1] = c[j] /\ x[1] = c[i]
        BY <1>6, <3>1, <4>1
      <4>. HIDE DEF d
      <4>4. d(j)[1] > x[1]
        BY <4>2, <4>3
      <4>. QED  BY <2>1, <2>4, <3>1, <4>1, <4>3, <4>4
    <3>. HIDE DEF d
    <3>. QED  BY <2>1, <2>2, <3>1, <3>2
  <2>. QED  BY <2>3, <2>4 DEF Means
<1>. QED  BY <1>8, <1>9

LEMMA QueryMeans ==
  ASSUME NEW text \in Seq(Token)
  PROVE  /\ ArePairs(QsPieces(text)) <=> WellFormed(text, "&")
         /\ ArePairs(QsPieces(text)) => Means(text, "&", PairsOf(QsPieces(text)))
<1>. DEFINE r == Split(text, "&")
<1>1. r \in Seq(Seq(Token))
  BY SplitType
<1>2. r = [i \in DOMAIN r |-> ItemOf(r[i], "&")]
  <2>. HIDE DEF r
  <2>. QED  BY <1>1 DEF ItemOf
<1>. QED  BY <1>2, PairsMean DEF QsPieces

LEMMA CookiesMean ==
  ASSUME NEW text \in Seq(Token)
  PROVE  /\ ArePairs(CookiePieces(text)) <=> WellFormed(text, ";")
         /\ ArePairs(CookiePieces(text)) => Means(text, ";", PairsOf(CookiePieces(text)))
<1>1. CookiePieces(text) = [i \in DOMAIN Split(text, ";") |-> ItemOf(Split(text, ";")[i], ";")]
  BY DEF CookiePieces, ItemOf
<1>. QED  BY <1>1, PairsMean

-----------------------------------------------------------------------------
(* Header lines.                                                           *)

\* What a header's value becomes with the lines r that continue it.
Extended(base, r) ==
    FoldLeft(LAMBDA text, line : text \o << " " >> \o TrimLeft(line.value), base, r)

\* One line at a time.
ExtendedBy(text, line) == text \o << Space >> \o TrimLeft(line.value)

HaveTexts(r) == \A i \in DOMAIN r : r[i].value \in Seq(Token)

LEMMA SpaceIsToken == Space \in Token
BY DEF Token

LEMMA TrimLeftType == ASSUME NEW x \in Seq(Token) PROVE TrimLeft(x) \in Seq(Token)
<1>1. << >> \in Seq(Token)
  OBVIOUS
<1>2. \A lo \in 1..Len(x) : SubSeq(x, lo, Len(x)) \in Seq(Token)
  OBVIOUS
<1>. QED  BY <1>1, <1>2, TrimLeftIs

LEMMA ExtendedByType ==
  ASSUME NEW text \in Seq(Token), NEW line, line.value \in Seq(Token)
  PROVE  ExtendedBy(text, line) \in Seq(Token)
<1>1. << Space >> \in Seq(Token)
  BY SpaceIsToken
<1>2. TrimLeft(line.value) \in Seq(Token)
  BY TrimLeftType
<1>3. text \o << Space >> \in Seq(Token)
  BY <1>1, ConcatProperties
<1>. QED  BY <1>2, <1>3, ConcatProperties DEF ExtendedBy

LEMMA ExtendedSteps ==
  ASSUME NEW base \in Seq(Token), NEW q, NEW n \in Nat, DOMAIN q = 1..n, HaveTexts(q)
  PROVE  \E p : /\ Extended(base, q) = p[n]
                /\ p[0] = base
                /\ \A k \in 1..n : p[k] = ExtendedBy(p[k - 1], q[k])
<1>. DEFINE S == Seq(Token)
            Step(text, i) == ExtendedBy(text, q[i])
            step == [x \in S \X (1..n) |-> Step(x[1], x[2])]
            Is(g) == g = [part \in SUBSET DOMAIN q |-> IF part = {} THEN base
                            ELSE Step(g[part \ {Max(part)}], Max(part))]
<1>1. base \in S
  OBVIOUS
<1>2. step \in [S \X (1..n) -> S]
  <2>1. ASSUME NEW text \in S, NEW i \in 1..n PROVE Step(text, i) \in S
    BY ExtendedByType DEF HaveTexts
  <2>. HIDE DEF S, Step
  <2>. QED  BY <2>1
<1>3. PICK g : IsFold(g, n, S, base, step)
  <2>. HIDE DEF S, step
  <2>. QED  BY <1>1, <1>2, FoldExists
<1>4. Is(g)
  <2>1. ASSUME NEW part \in SUBSET (1..n), part # {}
        PROVE  part \ {Max(part)} \in SUBSET (1..n) /\ Max(part) \in 1..n
    BY <2>1, MaxExists
  <2>2. ASSUME NEW part \in SUBSET (1..n), part # {}
        PROVE  g[part] = Step(g[part \ {Max(part)}], Max(part))
    <3>. HIDE DEF S, Step
    <3>. QED  BY <1>3, <2>1, <2>2 DEF IsFold
  <2>3. g[{}] = base /\ g \in [SUBSET (1..n) -> S]
    BY <1>3 DEF IsFold
  <2>. HIDE DEF S, step, Step
  <2>. QED  BY <2>2, <2>3
<1>. DEFINE f == CHOOSE f : Is(f)
<1>5. Is(f)
  BY <1>4, Zenon
<1>6. Extended(base, q) = f[1..n]
  BY DEF Extended, FoldLeft, MapThenFoldSet, ExtendedBy, Space
<1>. HIDE DEF f, Step
<1>7. f[1..0] = base /\ \A k \in 1..n : f[1..k] = Step(f[1..(k - 1)], k)
  <2>1. ASSUME NEW part \in SUBSET (1..n)
        PROVE  f[part] = IF part = {} THEN base ELSE Step(f[part \ {Max(part)}], Max(part))
    BY <1>5
  <2>2. 1..0 = {}
    OBVIOUS
  <2>3. ASSUME NEW k \in 1..n PROVE f[1..k] = Step(f[1..(k - 1)], k)
    <3>1. Max(1..k) = k /\ 1..k # {} /\ (1..k) \ {k} = 1..(k - 1)
      BY PrefixMax
    <3>2. 1..k \in SUBSET (1..n)
      OBVIOUS
    <3>. QED  BY <2>1, <3>1, <3>2
  <2>. QED  BY <2>1, <2>2, <2>3
<1>. DEFINE p == [k \in 0..n |-> f[1..k]]
<1>8. /\ p[n] = f[1..n] /\ p[0] = f[1..0]
      /\ \A k \in 1..n : p[k] = f[1..k] /\ p[k - 1] = f[1..(k - 1)]
  OBVIOUS
<1>. HIDE DEF p
<1>. QED  BY <1>6, <1>7, <1>8 DEF Step

\* A value that no line continues.
LEMMA ExtendedEmpty ==
  ASSUME NEW base \in Seq(Token) PROVE Extended(base, << >>) = base
<1>1. DOMAIN << >> = 1..0 /\ 0 \in Nat /\ HaveTexts(<< >>)
  BY DEF HaveTexts
<1>. QED  BY <1>1, ExtendedSteps

\* One line more.
LEMMA ExtendedGrows ==
  ASSUME NEW base \in Seq(Token), NEW S, NEW q \in Seq(S), HaveTexts(q),
         NEW line \in S, line.value \in Seq(Token)
  PROVE  Extended(base, Append(q, line)) = ExtendedBy(Extended(base, q), line)
<1>. DEFINE n == Len(q)
            r == Append(q, line)
<1>1. n \in Nat /\ DOMAIN q = 1..n /\ DOMAIN r = 1..(n + 1) /\ r[n + 1] = line
      /\ \A i \in 1..n : r[i] = q[i]
  OBVIOUS
<1>2. HaveTexts(r)
  <2>1. \A i \in 1..(n + 1) : i = n + 1 \/ i \in 1..n
    BY <1>1
  <2>. HIDE DEF r, n
  <2>. QED  BY <1>1, <2>1 DEF HaveTexts
<1>. HIDE DEF n, r
<1>3. PICK p : /\ Extended(base, q) = p[n]
               /\ p[0] = base
               /\ \A k \in 1..n : p[k] = ExtendedBy(p[k - 1], q[k])
  BY <1>1, ExtendedSteps
<1>4. PICK o : /\ Extended(base, r) = o[n + 1]
               /\ o[0] = base
               /\ \A k \in 1..(n + 1) : o[k] = ExtendedBy(o[k - 1], r[k])
  BY <1>1, <1>2, ExtendedSteps
<1>. DEFINE T == {k \in 0..n : p[k] = o[k]}
<1>5. n \in T
  <2>1. 0 \in T
    BY <1>1, <1>3, <1>4
  <2>2. ASSUME NEW k \in 1..n, k - 1 \in T PROVE k \in T
    <3>1. k \in 1..(n + 1) /\ k \in 0..n
      BY <1>1
    <3>. QED  BY <1>1, <1>3, <1>4, <2>2, <3>1
  <2>3. n \in Nat /\ n \in 0..n
    BY <1>1
  <2>. HIDE DEF T
  <2>. QED  BY <2>1, <2>2, <2>3, UpTo
<1>6. o[n + 1] = ExtendedBy(o[n], line)
  <2>1. n + 1 \in 1..(n + 1) /\ (n + 1) - 1 = n
    BY <1>1
  <2>. QED  BY <1>1, <1>4, <2>1
<1>. QED  BY <1>3, <1>4, <1>5, <1>6 DEF r

\* What FieldOf and ValueUpTo say of the lines ls.
FieldAt(ls, i) ==
    CHOOSE f \in 1..i : ls[f].kind = "field" /\ \A k \in (f + 1)..i : ~(ls[k].kind = "field")

ValueAt(ls, f, i) == Extended(Trim(ls[f].value), SubSeq(ls, f + 1, i))

HasField(ls, i) == \E j \in 1..i : ls[j].kind = "field"

\* It is the last line with a colon, whatever comes later.
LEMMA FieldAtIs ==
  ASSUME NEW ls, NEW i \in Nat, NEW f \in 1..i, ls[f].kind = "field",
         \A k \in (f + 1)..i : ls[k].kind # "field"
  PROVE  FieldAt(ls, i) = f
<1>. DEFINE P(e) == ls[e].kind = "field" /\ \A k \in (e + 1)..i : ~(ls[k].kind = "field")
            g == CHOOSE e \in 1..i : P(e)
<1>1. P(f)
  OBVIOUS
<1>2. g \in 1..i /\ P(g)
  <2>. HIDE DEF P
  <2>. QED  BY <1>1
<1>3. FieldAt(ls, i) = g
  BY DEF FieldAt
<1>. HIDE DEF g
<1>4. ~(g < f)
  <2>1. SUFFICES ASSUME g < f PROVE FALSE
    OBVIOUS
  <2>2. f \in (g + 1)..i
    BY <1>2, <2>1
  <2>. QED  BY <1>1, <1>2, <2>2
<1>5. ~(f < g)
  <2>1. SUFFICES ASSUME f < g PROVE FALSE
    OBVIOUS
  <2>2. g \in (f + 1)..i
    BY <1>2, <2>1
  <2>. QED  BY <1>1, <1>2, <2>2
<1>. QED  BY <1>2, <1>3, <1>4, <1>5

LEMMA FieldAtExists ==
  ASSUME NEW ls, NEW i \in Nat, HasField(ls, i)
  PROVE  /\ FieldAt(ls, i) \in 1..i /\ ls[FieldAt(ls, i)].kind = "field"
         /\ \A k \in (FieldAt(ls, i) + 1)..i : ls[k].kind # "field"
<1>. DEFINE F == {f \in 1..i : ls[f].kind = "field"}
            f == Max(F)
<1>1. F \in SUBSET (1..i) /\ F # {}
  BY DEF HasField
<1>2. f \in F /\ \A e \in F : e <= f
  <2>. HIDE DEF F
  <2>. QED  BY <1>1, MaxExists
<1>. HIDE DEF f
<1>3. f \in 1..i /\ ls[f].kind = "field"
  BY <1>2
<1>4. ASSUME NEW k \in (f + 1)..i PROVE ls[k].kind # "field"
  <2>1. k \in 1..i /\ ~(k <= f)
    BY <1>3
  <2>. QED  BY <1>2, <2>1
<1>5. FieldAt(ls, i) = f
  BY <1>3, <1>4, FieldAtIs
<1>. QED  BY <1>3, <1>4, <1>5

\* A line behind them changes nothing of the lines before.
LEMMA FieldAtStays ==
  ASSUME NEW S, NEW ls \in Seq(S), NEW line \in S, NEW i \in 0..Len(ls)
  PROVE  /\ FieldAt(Append(ls, line), i) = FieldAt(ls, i)
         /\ HasField(Append(ls, line), i) <=> HasField(ls, i)
<1>. DEFINE r == Append(ls, line)
            P(e) == ls[e].kind = "field" /\ \A k \in (e + 1)..i : ~(ls[k].kind = "field")
            Q(e) == r[e].kind = "field" /\ \A k \in (e + 1)..i : ~(r[k].kind = "field")
<1>1. \A e \in 1..i : r[e] = ls[e]
  OBVIOUS
<1>. HIDE DEF r
<1>2. \A e \in 1..i : P(e) <=> Q(e)
  <2>1. SUFFICES ASSUME NEW e \in 1..i PROVE P(e) <=> Q(e)
    OBVIOUS
  <2>2. \A k \in (e + 1)..i : k \in 1..i
    OBVIOUS
  <2>. QED  BY <1>1, <2>2
<1>3. (CHOOSE e \in 1..i : P(e)) = CHOOSE e \in 1..i : Q(e)
  <2>. HIDE DEF P, Q
  <2>. QED  BY <1>2
<1>. QED  BY <1>1, <1>3 DEF FieldAt, HasField, r

LEMMA ValueAtStays ==
  ASSUME NEW S, NEW ls \in Seq(S), NEW line \in S, NEW i \in 1..Len(ls), NEW f \in 1..i
  PROVE  ValueAt(Append(ls, line), f, i) = ValueAt(ls, f, i)
<1>1. Append(ls, line)[f] = ls[f]
  OBVIOUS
<1>2. SubSeq(Append(ls, line), f + 1, i) = SubSeq(ls, f + 1, i)
  OBVIOUS
<1>. QED  BY <1>1, <1>2 DEF ValueAt

-----------------------------------------------------------------------------
(* The map that parseLine builds.                                          *)

\* Each line has a colon, or continues one with a key.
Sound(ls) ==
    \A i \in 1..Len(ls) :
       /\ ls[i].kind # "text"
       /\ ls[i].kind = "continuation" => HasField(ls, i) /\ ls[FieldAt(ls, i)].key # NoKey

\* Line i is the end of the last field with its key.
Final(ls, i) ==
    /\ i = Len(ls) \/ ls[i + 1].kind = "field"
    /\ \A k \in (i + 1)..Len(ls) :
          ls[k].kind = "field" => ls[k].key # ls[FieldAt(ls, i)].key

Meant(ls, map) ==
    /\ DOMAIN map = {ls[i].key : i \in {j \in 1..Len(ls) : ls[j].kind = "field"}}
    /\ \A i \in 1..Len(ls) :
          Final(ls, i) => map[ls[FieldAt(ls, i)].key] = ValueAt(ls, FieldAt(ls, i), i)

LastIs(ls, key, value) ==
    IF ls = << >> THEN key = NoKey
    ELSE /\ key = ls[FieldAt(ls, Len(ls))].key
         /\ value = ValueAt(ls, FieldAt(ls, Len(ls)), Len(ls))

LEMMA LineTypes ==
  ASSUME NEW line \in Lines
  PROVE  /\ line.kind \in {"field", "continuation", "text"}
         /\ line.value \in Seq(Token)
<1>1. \A text \in Values : text \in Seq(Token)
  <2>1. Seq(STRING) \subseteq Seq(Token)
    BY SeqMonotonic, Zenon DEF Token
  <2>. QED  BY <2>1, HttpParserAssumption
<1>2. << >> \in Seq(Token)
  OBVIOUS
<1>3. line.kind \in {"field", "continuation", "text"} /\ line.value \in Values \cup {<< >>}
  BY DEF Lines
<1>. QED  BY <1>1, <1>2, <1>3

\* Then each line belongs to one.
LEMMA SoundHasField ==
  ASSUME NEW ls \in Seq(Lines), Sound(ls), NEW i \in 1..Len(ls)
  PROVE  HasField(ls, i)
<1>1. ls[i].kind \in {"field", "continuation", "text"}
  BY LineTypes
<1>2. CASE ls[i].kind = "field"
  <2>1. i \in 1..i
    OBVIOUS
  <2>. QED  BY <1>2, <2>1 DEF HasField
<1>. QED  BY <1>1, <1>2 DEF Sound

\* A line with a colon begins a field, the last with its key.
LEMMA FieldLine ==
  ASSUME NEW ls \in Seq(Lines), NEW line \in Lines, line.kind = "field",
         NEW map, Sound(ls), Meant(ls, map)
  PROVE  /\ Sound(Append(ls, line))
         /\ Meant(Append(ls, line), Put(map, line.key, Trim(line.value)))
         /\ LastIs(Append(ls, line), line.key, Trim(line.value))
<1>. DEFINE n == Len(ls)
            r == Append(ls, line)
            hs == Put(map, line.key, Trim(line.value))
<1>1. /\ n \in Nat /\ r \in Seq(Lines) /\ Len(r) = n + 1 /\ r[n + 1] = line /\ r # << >>
      /\ \A i \in 1..n : r[i] = ls[i]
  OBVIOUS
<1>2. ASSUME NEW i \in 1..n
      PROVE  /\ FieldAt(r, i) = FieldAt(ls, i) /\ FieldAt(ls, i) \in 1..i
             /\ r[FieldAt(r, i)] = ls[FieldAt(ls, i)]
             /\ HasField(r, i) /\ HasField(ls, i)
             /\ ValueAt(r, FieldAt(r, i), i) = ValueAt(ls, FieldAt(ls, i), i)
  <2>1. FieldAt(r, i) = FieldAt(ls, i) /\ (HasField(r, i) <=> HasField(ls, i))
    BY FieldAtStays
  <2>2. HasField(ls, i)
    BY SoundHasField
  <2>3. FieldAt(ls, i) \in 1..i
    BY <2>2, FieldAtExists
  <2>4. ValueAt(r, FieldAt(ls, i), i) = ValueAt(ls, FieldAt(ls, i), i)
    BY <2>3, ValueAtStays
  <2>. QED  BY <1>1, <2>1, <2>2, <2>3, <2>4
<1>3. FieldAt(r, n + 1) = n + 1
  <2>1. n + 1 \in Nat /\ n + 1 \in 1..(n + 1) /\ (((n + 1) + 1)..(n + 1)) = {}
    BY <1>1
  <2>2. r[n + 1].kind = "field" /\ \A k \in ((n + 1) + 1)..(n + 1) : r[k].kind # "field"
    BY <1>1, <2>1
  <2>. HIDE DEF r
  <2>. QED  BY <2>1, <2>2, FieldAtIs
<1>4. ValueAt(r, n + 1, n + 1) = Trim(line.value)
  <2>1. SubSeq(r, (n + 1) + 1, n + 1) = << >>
    BY <1>1, SubSeqEmpty
  <2>2. Trim(line.value) \in Seq(Token)
    BY LineTypes, TrimmedItem
  <2>3. Extended(Trim(line.value), << >>) = Trim(line.value)
    BY <2>2, ExtendedEmpty
  <2>. QED  BY <1>1, <2>1, <2>3 DEF ValueAt
<1>. HIDE DEF n, r
<1>5. Sound(r)
  <2>1. SUFFICES ASSUME NEW i \in 1..(n + 1)
                 PROVE  /\ r[i].kind # "text"
                        /\ r[i].kind = "continuation" =>
                              HasField(r, i) /\ r[FieldAt(r, i)].key # NoKey
    BY <1>1 DEF Sound
  <2>2. CASE i = n + 1
    BY <1>1, <2>2
  <2>3. CASE i \in 1..n
    BY <1>1, <1>2, <2>3 DEF Sound, n
  <2>4. n \in Nat
    BY <1>1
  <2>5. i = n + 1 \/ i \in 1..n
    BY <2>4
  <2>. QED  BY <2>2, <2>3, <2>5
<1>6. DOMAIN hs = {r[i].key : i \in {j \in 1..Len(r) : r[j].kind = "field"}}
  <2>1. DOMAIN hs = DOMAIN map \cup {line.key}
    BY DEF Put
  <2>2. DOMAIN map = {ls[i].key : i \in {j \in 1..n : ls[j].kind = "field"}}
    BY DEF Meant, n
  <2>3. \A i \in 1..(n + 1) : i = n + 1 \/ i \in 1..n
    BY <1>1
  <2>4. \A i \in 1..n : i \in 1..(n + 1)
    BY <1>1
  <2>5. n + 1 \in 1..(n + 1)
    BY <1>1
  <2>6. {r[i].key : i \in {j \in 1..(n + 1) : r[j].kind = "field"}}
          = {ls[i].key : i \in {j \in 1..n : ls[j].kind = "field"}} \cup {line.key}
    <3>. HIDE DEF hs
    <3>. QED  BY <1>1, <2>3, <2>4, <2>5
  <2>. QED  BY <1>1, <2>1, <2>2, <2>6
<1>7. ASSUME NEW i \in 1..Len(r), Final(r, i)
      PROVE  hs[r[FieldAt(r, i)].key] = ValueAt(r, FieldAt(r, i), i)
  <2>1. CASE i = n + 1
    <3>1. hs[line.key] = Trim(line.value)
      BY DEF Put
    <3>. QED  BY <1>1, <1>3, <1>4, <2>1, <3>1
  <2>2. CASE i \in 1..n
    <3>1. r[n + 1].kind = "field" => line.key # ls[FieldAt(ls, i)].key
      BY <1>1, <1>2, <1>7, <2>2 DEF Final
    <3>2. Final(ls, i)
      <4>1. i = n \/ ls[i + 1].kind = "field"
        BY <1>1, <1>7, <2>2 DEF Final
      <4>2. ASSUME NEW k \in (i + 1)..n, ls[k].kind = "field"
            PROVE  ls[k].key # ls[FieldAt(ls, i)].key
        <5>1. k \in (i + 1)..(n + 1) /\ r[k] = ls[k]
          BY <1>1, <2>2
        <5>. QED  BY <1>1, <1>2, <1>7, <2>2, <4>2, <5>1 DEF Final
      <4>. QED  BY <4>1, <4>2 DEF Final, n
    <3>3. map[ls[FieldAt(ls, i)].key] = ValueAt(ls, FieldAt(ls, i), i)
      BY <2>2, <3>2 DEF Meant, n
    <3>4. ls[FieldAt(ls, i)].key \in DOMAIN map
      <4>1. ls[FieldAt(ls, i)].kind = "field" /\ FieldAt(ls, i) \in 1..i
        BY <1>2, <2>2, FieldAtExists
      <4>2. FieldAt(ls, i) \in 1..Len(ls)
        BY <1>1, <2>2, <4>1 DEF n
      <4>. QED  BY <4>1, <4>2 DEF Meant
    <3>5. hs[ls[FieldAt(ls, i)].key] = map[ls[FieldAt(ls, i)].key]
      BY <1>1, <3>1, <3>4 DEF Put
    <3>. QED  BY <1>2, <2>2, <3>3, <3>5
  <2>. QED  BY <1>1, <2>1, <2>2
<1>8. LastIs(r, line.key, Trim(line.value))
  BY <1>1, <1>3, <1>4 DEF LastIs
<1>. QED  BY <1>5, <1>6, <1>7, <1>8 DEF Meant, r

LEMMA RestGrows ==
  ASSUME NEW S, NEW ls \in Seq(S), NEW line \in S, NEW f \in 1..Len(ls)
  PROVE  /\ SubSeq(ls, f + 1, Len(ls)) \in Seq(S)
         /\ SubSeq(Append(ls, line), f + 1, Len(ls) + 1)
               = Append(SubSeq(ls, f + 1, Len(ls)), line)
<1>. DEFINE n == Len(ls)
            r == Append(ls, line)
            a == SubSeq(r, f + 1, n + 1)
            b == Append(SubSeq(ls, f + 1, n), line)
<1>1. SubSeq(ls, f + 1, n) \in Seq(S) /\ Len(SubSeq(ls, f + 1, n)) = n - f
  OBVIOUS
<1>2. a \in Seq(S) /\ Len(a) = n + 1 - f /\ b \in Seq(S) /\ Len(b) = n - f + 1
  OBVIOUS
<1>3. ASSUME NEW i \in 1..(n + 1 - f) PROVE a[i] = b[i]
  <2>1. a[i] = r[f + i]
    OBVIOUS
  <2>2. CASE i = n + 1 - f
    BY <2>1, <2>2
  <2>3. CASE i \in 1..(n - f)
    <3>1. f + i \in 1..n
      BY <2>3
    <3>2. r[f + i] = ls[f + i]
      BY <3>1
    <3>3. SubSeq(ls, f + 1, n)[i] = ls[f + i]
      BY <2>3
    <3>4. b[i] = SubSeq(ls, f + 1, n)[i]
      BY <1>1, <2>3
    <3>. QED  BY <2>1, <3>2, <3>3, <3>4
  <2>. QED  BY <2>2, <2>3
<1>4. Len(a) = Len(b)
  BY <1>2
<1>. HIDE DEF a, b
<1>5. a = b
  BY <1>2, <1>3, <1>4, SeqEqual
<1>. QED  BY <1>1, <1>5 DEF a, b

\* A line that starts with a space goes on with the value of the last field.
LEMMA ContinuationLine ==
  ASSUME NEW ls \in Seq(Lines), NEW line \in Lines, line.kind = "continuation",
         NEW map, NEW key, key # NoKey, NEW value,
         Sound(ls), Meant(ls, map), LastIs(ls, key, value)
  PROVE  /\ Sound(Append(ls, line))
         /\ Meant(Append(ls, line), Put(map, key, ExtendedBy(value, line)))
         /\ LastIs(Append(ls, line), key, ExtendedBy(value, line))
<1>. DEFINE n == Len(ls)
            r == Append(ls, line)
            F == FieldAt(ls, n)
            new == ExtendedBy(value, line)
            hs == Put(map, key, new)
<1>1. /\ r \in Seq(Lines) /\ Len(r) = n + 1 /\ r[n + 1] = line /\ r # << >>
      /\ \A i \in 1..n : r[i] = ls[i]
  OBVIOUS
<1>2. n \in Nat /\ n \in 1..n
  BY DEF LastIs
<1>3. ASSUME NEW i \in 1..n
      PROVE  /\ FieldAt(r, i) = FieldAt(ls, i) /\ FieldAt(ls, i) \in 1..i
             /\ ls[FieldAt(ls, i)].kind = "field"
             /\ \A k \in (FieldAt(ls, i) + 1)..i : ls[k].kind # "field"
             /\ r[FieldAt(r, i)] = ls[FieldAt(ls, i)]
             /\ HasField(r, i) /\ HasField(ls, i)
             /\ ValueAt(r, FieldAt(r, i), i) = ValueAt(ls, FieldAt(ls, i), i)
  <2>1. FieldAt(r, i) = FieldAt(ls, i) /\ (HasField(r, i) <=> HasField(ls, i))
    BY FieldAtStays
  <2>2. HasField(ls, i)
    BY SoundHasField
  <2>3. /\ FieldAt(ls, i) \in 1..i /\ ls[FieldAt(ls, i)].kind = "field"
        /\ \A k \in (FieldAt(ls, i) + 1)..i : ls[k].kind # "field"
    BY <2>2, FieldAtExists
  <2>4. ValueAt(r, FieldAt(ls, i), i) = ValueAt(ls, FieldAt(ls, i), i)
    BY <2>3, ValueAtStays
  <2>5. r[FieldAt(ls, i)] = ls[FieldAt(ls, i)]
    BY <2>3
  <2>. QED  BY <2>1, <2>2, <2>3, <2>4, <2>5
<1>4. key = ls[F].key /\ value = ValueAt(ls, F, n)
  BY <1>2 DEF LastIs
<1>5. F \in 1..n /\ ls[F].kind = "field" /\ \A k \in (F + 1)..n : ls[k].kind # "field"
  BY <1>2, <1>3
<1>6. ValueAt(r, F, n + 1) = new
  <2>. DEFINE rest == SubSeq(ls, F + 1, n)
  <2>1. SubSeq(r, F + 1, n + 1) = Append(rest, line) /\ rest \in Seq(Lines)
    <3>. HIDE DEF F
    <3>. QED  BY <1>5, RestGrows
  <2>2. Trim(ls[F].value) \in Seq(Token)
    BY <1>5, LineTypes, TrimmedItem
  <2>3. HaveTexts(rest)
    <3>. HIDE DEF rest
    <3>1. \A i \in DOMAIN rest : rest[i] \in Lines
      BY <2>1
    <3>. QED  BY <3>1, LineTypes DEF HaveTexts
  <2>4. line.value \in Seq(Token)
    BY LineTypes
  <2>. HIDE DEF rest
  <2>5. Extended(Trim(ls[F].value), Append(rest, line))
          = ExtendedBy(Extended(Trim(ls[F].value), rest), line)
    BY <2>1, <2>2, <2>3, <2>4, ExtendedGrows
  <2>6. Extended(Trim(ls[F].value), rest) = value
    BY <1>4 DEF ValueAt, rest
  <2>7. r[F] = ls[F]
    BY <1>1, <1>5
  <2>. HIDE DEF r, F
  <2>. QED  BY <2>1, <2>5, <2>6, <2>7 DEF ValueAt
<1>. HIDE DEF n, r, F, new
<1>7. /\ FieldAt(r, n + 1) = F /\ HasField(r, n + 1) /\ r[F] = ls[F]
  <2>1. F \in 1..(n + 1) /\ n + 1 \in Nat /\ r[F] = ls[F]
    BY <1>1, <1>2, <1>5
  <2>2. ASSUME NEW k \in (F + 1)..(n + 1) PROVE r[k].kind # "field"
    <3>1. k = n + 1 \/ (k \in (F + 1)..n /\ k \in 1..n)
      BY <1>2, <1>5
    <3>. QED  BY <1>1, <1>5, <3>1
  <2>. QED  BY <1>5, <2>1, <2>2, FieldAtIs DEF HasField
<1>8. Sound(r)
  <2>1. SUFFICES ASSUME NEW i \in 1..(n + 1)
                 PROVE  /\ r[i].kind # "text"
                        /\ r[i].kind = "continuation" =>
                              HasField(r, i) /\ r[FieldAt(r, i)].key # NoKey
    BY <1>1 DEF Sound
  <2>2. CASE i = n + 1
    BY <1>1, <1>4, <1>7, <2>2
  <2>3. CASE i \in 1..n
    BY <1>1, <1>3, <2>3 DEF Sound, n
  <2>4. i = n + 1 \/ i \in 1..n
    BY <1>2
  <2>. QED  BY <2>2, <2>3, <2>4
<1>9. DOMAIN hs = {r[i].key : i \in {j \in 1..Len(r) : r[j].kind = "field"}}
  <2>1. DOMAIN hs = DOMAIN map \cup {key}
    BY DEF Put
  <2>2. DOMAIN map = {ls[i].key : i \in {j \in 1..n : ls[j].kind = "field"}}
    BY DEF Meant, n
  <2>3. \A i \in 1..(n + 1) : i = n + 1 \/ i \in 1..n
    BY <1>2
  <2>4. \A i \in 1..n : i \in 1..(n + 1)
    BY <1>2
  <2>5. key \in DOMAIN map
    BY <1>4, <1>5, <2>2
  <2>6. {r[i].key : i \in {j \in 1..(n + 1) : r[j].kind = "field"}}
          = {ls[i].key : i \in {j \in 1..n : ls[j].kind = "field"}}
    BY <1>1, <2>3, <2>4
  <2>. HIDE DEF hs
  <2>. QED  BY <1>1, <2>1, <2>2, <2>5, <2>6
<1>10. ASSUME NEW i \in 1..Len(r), Final(r, i)
       PROVE  hs[r[FieldAt(r, i)].key] = ValueAt(r, FieldAt(r, i), i)
  <2>0. i = n + 1 \/ i \in 1..n
    BY <1>1, <1>2
  <2>1. CASE i = n + 1
    <3>1. hs[key] = new
      BY DEF Put
    <3>. QED  BY <1>1, <1>4, <1>6, <1>7, <2>1, <3>1
  <2>2. CASE i \in 1..n
    <3>0. i # n + 1 /\ i # Len(r)
      BY <1>1, <1>2, <2>2
    <3>1. r[i + 1].kind = "field"
      BY <1>10, <3>0 DEF Final
    <3>2. i + 1 \in 1..n /\ ls[i + 1].kind = "field"
      <4>1. i + 1 = n + 1 \/ i + 1 \in 1..n
        BY <1>2, <2>2
      <4>. QED  BY <1>1, <3>1, <4>1
    <3>3. i + 1 <= F
      <4>1. SUFFICES ASSUME ~(i + 1 <= F) PROVE FALSE
        OBVIOUS
      <4>2. i + 1 \in (F + 1)..n
        BY <1>2, <1>5, <3>2, <4>1
      <4>. QED  BY <1>5, <3>2, <4>2
    <3>4. ls[FieldAt(ls, i)].key # key
      <4>1. F \in (i + 1)..Len(r) /\ r[F].kind = "field"
        BY <1>1, <1>2, <1>5, <1>7, <3>3
      <4>. QED  BY <1>3, <1>4, <1>7, <1>10, <2>2, <4>1 DEF Final
    <3>5. Final(ls, i)
      <4>2. ASSUME NEW k \in (i + 1)..n, ls[k].kind = "field"
            PROVE  ls[k].key # ls[FieldAt(ls, i)].key
        <5>1. k \in (i + 1)..(n + 1) /\ r[k] = ls[k]
          BY <1>1, <1>2, <2>2
        <5>. QED  BY <1>1, <1>3, <1>10, <2>2, <4>2, <5>1 DEF Final
      <4>. QED  BY <3>2, <4>2 DEF Final, n
    <3>6. map[ls[FieldAt(ls, i)].key] = ValueAt(ls, FieldAt(ls, i), i)
      BY <2>2, <3>5 DEF Meant, n
    <3>7. ls[FieldAt(ls, i)].key \in DOMAIN map
      <4>1. FieldAt(ls, i) \in 1..n /\ ls[FieldAt(ls, i)].kind = "field"
        BY <1>2, <1>3, <2>2
      <4>. QED  BY <4>1 DEF Meant, n
    <3>8. hs[ls[FieldAt(ls, i)].key] = map[ls[FieldAt(ls, i)].key]
      BY <3>4, <3>7 DEF Put
    <3>. QED  BY <1>3, <2>2, <3>6, <3>8
  <2>. QED  BY <2>0, <2>1, <2>2
<1>11. LastIs(r, key, new)
  BY <1>1, <1>4, <1>6, <1>7 DEF LastIs
<1>. QED  BY <1>8, <1>9, <1>10, <1>11 DEF Meant, r, new

\* What keeps a line out is what LineFault says.
FaultIn(ls) ==
    \E i \in DOMAIN ls :
       \/ ls[i].kind = "text"
       \/ /\ ls[i].kind = "continuation"
          /\ ~ \E f \in 1..i : ls[f].kind = "field" /\ f = FieldAt(ls, i) /\ ls[f].key # NoKey

LEMMA SoundHasNoFault ==
  ASSUME NEW ls \in Seq(Lines)
  PROVE  FaultIn(ls) <=> ~Sound(ls)
<1>1. DOMAIN ls = 1..Len(ls)
  OBVIOUS
<1>2. ASSUME NEW i \in 1..Len(ls)
      PROVE  (\E f \in 1..i : ls[f].kind = "field" /\ f = FieldAt(ls, i) /\ ls[f].key # NoKey)
                <=> HasField(ls, i) /\ ls[FieldAt(ls, i)].key # NoKey
  <2>1. HasField(ls, i) => FieldAt(ls, i) \in 1..i /\ ls[FieldAt(ls, i)].kind = "field"
    BY FieldAtExists
  <2>2. ASSUME NEW f \in 1..i, ls[f].kind = "field" PROVE HasField(ls, i)
    BY <2>2 DEF HasField
  <2>. QED  BY <2>1, <2>2
<1>. QED  BY <1>1, <1>2, Zenon DEF FaultIn, Sound

LEMMA LineFaultIs == LineFault <=> FaultIn(lines)
BY Zenon DEF LineFault, FaultIn, FieldOf, FieldAt, IsField, NoKey

LEMMA LineFaultPrimeIs == LineFault' <=> FaultIn(lines')
BY Zenon DEF LineFault, FaultIn, FieldOf, FieldAt, IsField, NoKey

\* A start line is taken if it has one question mark at most and a query
\* behind it that consists of pairs.
LEMMA StartMeans ==
  ASSUME NEW text \in Seq(Token), NEW pieces, pieces = Split(text, "?")
  PROVE  /\ Len(pieces) = 1 \/ (Len(pieces) = 2 /\ ArePairs(QsPieces(pieces[2])))
              <=> ~ \E q \in Seps(text, "?") :
                       \/ Seps(text, "?") # {q}
                       \/ ~WellFormed(SubSeq(text, q + 1, Len(text)), "&")
         /\ Len(pieces) = 1 => Seps(text, "?") = {}
         /\ Len(pieces) = 2 /\ ArePairs(QsPieces(pieces[2])) =>
               \E q \in Seps(text, "?") :
                  Means(SubSeq(text, q + 1, Len(text)), "&", PairsOf(QsPieces(pieces[2])))
<1>. DEFINE E == Seps(text, "?")
            Query2(q) == SubSeq(text, q + 1, Len(text))
<1>1. /\ Len(pieces) = 1 <=> E = {}
      /\ Len(pieces) = 2 <=> \E e \in E : E = {e}
      /\ \A e \in E : E = {e} => pieces[2] = Query2(e)
  BY SplitInTwo
<1>2. ASSUME NEW q \in E
      PROVE  /\ ArePairs(QsPieces(Query2(q))) <=> WellFormed(Query2(q), "&")
             /\ ArePairs(QsPieces(Query2(q))) => Means(Query2(q), "&", PairsOf(QsPieces(Query2(q))))
  <2>1. q \in Nat /\ q + 1 >= 1 /\ q + 1 \in Nat /\ Len(text) \in Nat
    BY DEF Seps
  <2>2. Query2(q) \in Seq(Token)
    BY <2>1, PartIs
  <2>. HIDE DEF Query2
  <2>. QED  BY <2>2, QueryMeans
<1>. HIDE DEF E, Query2
<1>3. ASSUME NEW q \in E, E = {q}
      PROVE  Len(pieces) = 2 /\ ~(Len(pieces) = 1) /\ pieces[2] = Query2(q)
  BY <1>1, <1>3, Zenon
<1>4. CASE E = {}
  <2>1. Len(pieces) = 1 /\ ~(Len(pieces) = 2)
    BY <1>1, <1>4, Zenon
  <2>. QED  BY <1>4, <2>1, Zenon DEF E
<1>5. CASE \E q \in E : E = {q}
  <2>1. PICK q \in E : E = {q}
    BY <1>5
  <2>2. \A e \in E : e = q
    BY <2>1
  <2>. QED  BY <1>2, <1>3, <2>1, <2>2, Zenon DEF E, Query2
<1>6. CASE E # {} /\ ~ \E q \in E : E = {q}
  <2>1. ~(Len(pieces) = 1) /\ ~(Len(pieces) = 2)
    BY <1>1, <1>6, Zenon
  <2>. QED  BY <1>6, <2>1, Zenon DEF E, Query2
<1>. QED  BY <1>4, <1>5, <1>6, Zenon

-----------------------------------------------------------------------------
(* The invariant: the lines so far are sound, their map is what they mean,   *)
(* what parse keeps of the last one is the end of its value, and each of the *)
(* other maps is what its text means once it has been parsed.                *)

ParserTypes ==
    /\ lines \in Seq(Lines)
    /\ last_value \in Seq(Token)
    /\ \A key \in DOMAIN headers : headers[key] \in Seq(Token)

LinesParsed ==
    stage # "refused" =>
       /\ Sound(lines)
       /\ Meant(lines, headers)
       /\ LastIs(lines, last_key, last_value)
       /\ stage = "start" => lines = << >>

QueryParsed ==
    /\ stage = "start" => arguments = Nothing
    /\ stage \in {"headers", "body", "accepted"} =>
          \/ arguments = Nothing /\ QueryMarks = {}
          \/ \E q \in QueryMarks : Means(Query(q), "&", arguments)

CookiesParsed ==
    /\ stage \in {"start", "headers"} => cookies = Nothing
    /\ stage \in {"body", "accepted"} =>
          IF ValueOf("Cookie") = << >> THEN cookies = Nothing
          ELSE Means(ValueOf("Cookie"), ";", cookies)

BodyParsed ==
    /\ stage \in {"start", "headers", "body"} => body_arguments = Nothing
    /\ stage = "accepted" =>
          IF IsForm THEN Means(body, "&", body_arguments) ELSE body_arguments = Nothing

ParserInv ==
    /\ ParserTypes
    /\ LinesParsed
    /\ QueryParsed
    /\ CookiesParsed
    /\ BodyParsed

LEMMA InitParser == Init => ParserInv
<1>0. ASSUME Init
      PROVE  lines = << >> /\ headers = << >> /\ last_value = << >> /\ last_key = NoKey
  <2>1. lines = << >> /\ headers = Nothing /\ last_value = << >>
    BY <1>0, Zenon DEF Init
  <2>2. last_key = NoKey
    BY <1>0, Zenon DEF Init, NoKey
  <2>. QED  BY <2>1, <2>2 DEF Nothing
<1>1. ASSUME Init PROVE ParserTypes
  <2>1. lines = << >> /\ headers = << >> /\ last_value = << >>
    BY <1>0, <1>1
  <2>. QED  BY <2>1 DEF ParserTypes
<1>2. ASSUME Init PROVE LinesParsed
  <2>1. lines = << >> /\ headers = << >> /\ last_key = NoKey
    BY <1>0, <1>2
  <2>2. Sound(lines)
    BY <2>1 DEF Sound
  <2>3. Meant(lines, headers)
    BY <2>1 DEF Meant
  <2>4. LastIs(lines, last_key, last_value)
    BY <2>1 DEF LastIs
  <2>. QED  BY <2>1, <2>2, <2>3, <2>4 DEF LinesParsed
<1>3. ASSUME Init PROVE QueryParsed /\ CookiesParsed /\ BodyParsed
  <2>1. /\ stage = "start" /\ arguments = Nothing /\ cookies = Nothing
        /\ body_arguments = Nothing
    BY <1>3, Zenon DEF Init
  <2>. QED  BY <2>1 DEF QueryParsed, CookiesParsed, BodyParsed
<1>. QED  BY <1>1, <1>2, <1>3 DEF ParserInv

\* The value of a header.
LEMMA ValueOfType ==
  ASSUME ParserTypes, NEW key PROVE ValueOf(key) \in Seq(Token)
<1>1. << >> \in Seq(Token)
  OBVIOUS
<1>. QED  BY <1>1 DEF ParserTypes, ValueOf

LEMMA TextTypes ==
  /\ \A text \in Bodies : text \in Seq(Token)
  /\ \A line \in StartLines : line.uri \in Seq(Token)
<1>1. Seq(STRING) \subseteq Seq(Token)
  BY SeqMonotonic, Zenon DEF Token
<1>2. \A line \in StartLines : line.uri \in Uris
  BY DEF StartLines
<1>. QED  BY <1>1, <1>2, HttpParserAssumption

\* The query of the URI that a step reads, and nothing else.
LEMMA ParseStartLineIs ==
  ASSUME NEW line \in StartLines, ParseStartLine(line)
  PROVE  /\ QueryMarks' = Seps(line.uri, "?")
         /\ \A q : Query(q)' = SubSeq(line.uri, q + 1, Len(line.uri))
         /\ line.uri \in Seq(Token)
         /\ UNCHANGED <<last_key, last_value, headers, cookies, body_arguments, lines, body>>
         /\ stage = "start" /\ stage' \in {"headers", "refused"} /\ startLine' = line
<1>1. line.uri \in Seq(Token) /\ DOMAIN line.uri = 1..Len(line.uri)
  BY TextTypes
<1>2. startLine' = line
  BY DEF ParseStartLine
<1>. QED  BY <1>1, <1>2 DEF ParseStartLine, QueryMarks, Query, Seps

LEMMA ParseStartLineStep ==
  ASSUME ParserInv, NEW line \in StartLines, ParseStartLine(line)
  PROVE  ParserInv' /\ (stage' = "refused" <=> StartFault')
<1>. DEFINE pieces == Split(line.uri, "?")
            E == Seps(line.uri, "?")
            query(q) == SubSeq(line.uri, q + 1, Len(line.uri))
            good == Len(pieces) = 1 \/ (Len(pieces) = 2 /\ ArePairs(QsPieces(pieces[2])))
<1>1. /\ QueryMarks' = E
      /\ \A q : Query(q)' = query(q)
      /\ line.uri \in Seq(Token)
      /\ UNCHANGED <<last_key, last_value, headers, cookies, body_arguments, lines, body>>
      /\ stage = "start" /\ stage' \in {"headers", "refused"} /\ startLine' = line
  BY ParseStartLineIs
<1>2. /\ good <=> ~ \E q \in E : E # {q} \/ ~WellFormed(query(q), "&")
      /\ Len(pieces) = 1 => E = {}
      /\ Len(pieces) = 2 /\ ArePairs(QsPieces(pieces[2])) =>
            \E q \in E : Means(query(q), "&", PairsOf(QsPieces(pieces[2])))
  BY <1>1, StartMeans
<1>3. IF line.items = 3 /\ line.http /\ good
      THEN stage' = "headers"
           /\ arguments' = IF Len(pieces) = 2 THEN PairsOf(QsPieces(pieces[2])) ELSE Nothing
      ELSE stage' = "refused" /\ UNCHANGED arguments
  BY Zenon DEF ParseStartLine
<1>. HIDE DEF pieces, E, query
<1>4. StartFault' <=> ~(line.items = 3 /\ line.http /\ good)
  <2>1. StartFault' <=> \/ line.items # 3 \/ ~line.http
                        \/ \E q \in E : E # {q} \/ ~WellFormed(query(q), "&")
    BY <1>1, Zenon DEF StartFault
  <2>. QED  BY <1>2, <2>1, Zenon
<1>5. stage' = "refused" <=> StartFault'
  BY <1>3, <1>4
<1>6. ParserTypes' /\ LinesParsed'
  BY <1>1 DEF ParserInv, ParserTypes, LinesParsed
<1>7. QueryParsed'
  <2>1. stage' # "start"
    BY <1>1
  <2>2. ASSUME stage' \in {"headers", "body", "accepted"}
        PROVE  \/ arguments' = Nothing /\ E = {}
               \/ \E q \in E : Means(query(q), "&", arguments')
    <3>1. /\ good
          /\ arguments' = IF Len(pieces) = 2 THEN PairsOf(QsPieces(pieces[2])) ELSE Nothing
      BY <1>3, <2>2
    <3>. HIDE DEF good
    <3>2. CASE Len(pieces) = 2
      BY <1>2, <3>1, <3>2 DEF good
    <3>3. CASE ~(Len(pieces) = 2)
      BY <1>2, <3>1, <3>3 DEF good
    <3>. QED  BY <3>2, <3>3
  <2>. QED  BY <1>1, <2>1, <2>2, Zenon DEF QueryParsed
<1>8. CookiesParsed' /\ BodyParsed'
  <2>1. cookies' = Nothing /\ body_arguments' = Nothing
    BY <1>1 DEF ParserInv, CookiesParsed, BodyParsed
  <2>2. stage' # "body" /\ stage' # "accepted"
    BY <1>1
  <2>. QED  BY <2>1, <2>2 DEF CookiesParsed, BodyParsed
<1>. QED  BY <1>5, <1>6, <1>7, <1>8 DEF ParserInv

LEMMA ParseLineStep ==
  ASSUME ParserInv, NEW line \in Lines, ParseLine(line)
  PROVE  /\ ParserInv' /\ stage = "headers" /\ stage' \in {"headers", "refused"}
         /\ stage' = "refused" => LineFault'
         /\ stage' = "headers" => ~LineFault'
<1>1. /\ Sound(lines) /\ Meant(lines, headers) /\ LastIs(lines, last_key, last_value)
      /\ stage = "headers" /\ lines \in Seq(Lines) /\ lines' = Append(lines, line)
      /\ UNCHANGED <<cookies, arguments, body_arguments, startLine, body>>
  BY Zenon DEF ParserInv, ParserTypes, LinesParsed, ParseLine
<1>2. lines' \in Seq(Lines) /\ lines' # << >>
  BY <1>1
<1>3. \/ /\ line.kind = "continuation" /\ last_key # NoKey
         /\ last_value' = ExtendedBy(last_value, line)
         /\ headers' = Put(headers, last_key, last_value')
         /\ UNCHANGED <<last_key, stage>>
      \/ /\ line.kind = "field"
         /\ last_key' = line.key
         /\ last_value' = Trim(line.value)
         /\ headers' = Put(headers, line.key, last_value')
         /\ UNCHANGED stage
      \/ /\ line.kind = "text" \/ (line.kind = "continuation" /\ last_key = NoKey)
         /\ stage' = "refused"
         /\ UNCHANGED <<last_key, last_value, headers>>
  BY Zenon DEF ParseLine, Continued, ExtendedBy, Space, NoKey
<1>4. last_value' \in Seq(Token)
  BY <1>3, LineTypes, TrimmedItem, ExtendedByType DEF ParserInv, ParserTypes
<1>5. ParserTypes'
  <2>1. \A key \in DOMAIN headers : headers[key] \in Seq(Token)
    BY DEF ParserInv, ParserTypes
  <2>2. ASSUME NEW k, headers' = Put(headers, k, last_value')
        PROVE  \A key \in DOMAIN headers' : headers'[key] \in Seq(Token)
    BY <1>4, <2>1, <2>2 DEF Put
  <2>3. ASSUME headers' = headers
        PROVE  \A key \in DOMAIN headers' : headers'[key] \in Seq(Token)
    BY <2>1, <2>3
  <2>4. \A key \in DOMAIN headers' : headers'[key] \in Seq(Token)
    BY <1>3, <2>2, <2>3
  <2>. QED  BY <1>2, <1>4, <2>4 DEF ParserTypes
<1>6. ASSUME stage' = "headers"
      PROVE  Sound(lines') /\ Meant(lines', headers') /\ LastIs(lines', last_key', last_value')
  <2>1. CASE line.kind = "continuation"
    <3>1. /\ last_key # NoKey /\ last_value' = ExtendedBy(last_value, line)
          /\ headers' = Put(headers, last_key, last_value') /\ last_key' = last_key
      BY <1>3, <1>6, <2>1
    <3>. QED  BY <1>1, <2>1, <3>1, ContinuationLine
  <2>2. CASE line.kind = "field"
    <3>1. /\ last_value' = Trim(line.value) /\ last_key' = line.key
          /\ headers' = Put(headers, line.key, last_value')
      BY <1>3, <1>6, <2>2
    <3>. QED  BY <1>1, <2>2, <3>1, FieldLine
  <2>. QED  BY <1>3, <1>6, <2>1, <2>2
<1>7. LinesParsed'
  <2>1. stage' = "headers" \/ stage' = "refused"
    BY <1>1, <1>3
  <2>. QED  BY <1>6, <2>1 DEF LinesParsed
<1>8. QueryParsed' /\ CookiesParsed' /\ BodyParsed'
  <2>1. stage' = "headers" \/ stage' = "refused"
    BY <1>1, <1>3
  <2>2. /\ arguments = Nothing /\ QueryMarks = {}
        \/ \E q \in QueryMarks : Means(Query(q), "&", arguments)
    BY <1>1 DEF ParserInv, QueryParsed
  <2>3. QueryMarks' = QueryMarks /\ \A q : Query(q)' = Query(q)
    BY <1>1 DEF QueryMarks, Query
  <2>4. cookies' = Nothing /\ body_arguments' = Nothing
    BY <1>1 DEF ParserInv, CookiesParsed, BodyParsed
  <2>5. QueryParsed'
    <3>1. \/ arguments' = Nothing /\ QueryMarks' = {}
          \/ \E q \in QueryMarks' : Means(Query(q)', "&", arguments')
      BY <1>1, <2>2, <2>3, Zenon
    <3>. QED  BY <2>1, <3>1, Zenon DEF QueryParsed
  <2>. QED  BY <2>1, <2>4, <2>5 DEF CookiesParsed, BodyParsed
<1>9. ASSUME stage' = "refused" PROVE FaultIn(lines')
  <2>1. line.kind = "text" \/ (line.kind = "continuation" /\ last_key = NoKey)
    BY <1>1, <1>3, <1>9
  <2>. DEFINE n == Len(lines)
  <2>2. n + 1 \in DOMAIN lines' /\ lines'[n + 1] = line /\ n \in Nat
    BY <1>1
  <2>3. CASE line.kind = "text"
    BY <2>2, <2>3 DEF FaultIn
  <2>4. CASE line.kind = "continuation" /\ last_key = NoKey
    <3>1. ASSUME NEW f \in 1..(n + 1), lines'[f].kind = "field", f = FieldAt(lines', n + 1)
          PROVE  lines'[f].key = NoKey
      <4>1. f \in 1..n
        <5>1. f # n + 1
          BY <2>2, <2>4, <3>1
        <5>. QED  BY <2>2, <5>1
      <4>2. lines'[f] = lines[f]
        BY <1>1, <4>1
      <4>3. \A k \in (f + 1)..(n + 1) : lines'[k].kind # "field"
        <5>1. n + 1 \in Nat /\ HasField(lines', n + 1)
          BY <2>2, <3>1 DEF HasField
        <5>. QED  BY <3>1, <5>1, FieldAtExists
      <4>4. \A k \in (f + 1)..n : lines[k].kind # "field"
        <5>1. SUFFICES ASSUME NEW k \in (f + 1)..n PROVE lines[k].kind # "field"
          OBVIOUS
        <5>2. k \in (f + 1)..(n + 1) /\ k \in 1..n
          BY <2>2, <4>1
        <5>3. lines'[k] = lines[k]
          BY <1>1, <5>2
        <5>. QED  BY <4>3, <5>2, <5>3
      <4>5. FieldAt(lines, n) = f
        <5>. HIDE DEF n
        <5>. QED  BY <2>2, <3>1, <4>1, <4>2, <4>4, FieldAtIs
      <4>6. lines # << >>
        BY <4>1
      <4>. QED  BY <1>1, <2>4, <4>2, <4>5, <4>6 DEF LastIs
    <3>. HIDE DEF n
    <3>. QED  BY <2>2, <2>4, <3>1 DEF FaultIn
  <2>. QED  BY <2>1, <2>3, <2>4
<1>10. stage' = "headers" => ~FaultIn(lines')
  BY <1>2, <1>6, SoundHasNoFault
<1>. QED  BY <1>1, <1>3, <1>5, <1>7, <1>8, <1>9, <1>10, LineFaultPrimeIs DEF ParserInv

LEMMA ParseCookiesStep ==
  ASSUME ParserInv, ParseCookies
  PROVE  /\ ParserInv' /\ stage = "headers" /\ stage' \in {"body", "refused"}
         /\ stage' = "refused" <=> CookieFault'
<1>. DEFINE text == ValueOf("Cookie")
            items == CookiePieces(text)
<1>1. /\ stage = "headers"
      /\ UNCHANGED <<last_key, last_value, headers, arguments, body_arguments,
                     startLine, lines, body>>
  BY DEF ParseCookies
<1>2. IF text = << >> THEN stage' = "body" /\ UNCHANGED cookies
      ELSE IF ArePairs(items) THEN stage' = "body" /\ cookies' = PairsOf(items)
      ELSE stage' = "refused" /\ UNCHANGED cookies
  BY Zenon DEF ParseCookies
<1>3. text' = text
  BY <1>1 DEF ValueOf
<1>4. /\ ArePairs(items) <=> WellFormed(text, ";")
      /\ ArePairs(items) => Means(text, ";", PairsOf(items))
  <2>1. text \in Seq(Token)
    BY ValueOfType DEF ParserInv
  <2>. HIDE DEF text
  <2>. QED  BY <2>1, CookiesMean
<1>5. cookies = Nothing /\ body_arguments = Nothing
  BY <1>1 DEF ParserInv, CookiesParsed, BodyParsed
<1>6. CookieFault' <=> text # << >> /\ ~WellFormed(text, ";")
  BY <1>3, Zenon DEF CookieFault
<1>7. CookiesParsed' <=>
         /\ stage' \in {"start", "headers"} => cookies' = Nothing
         /\ stage' \in {"body", "accepted"} =>
              IF text = << >> THEN cookies' = Nothing ELSE Means(text, ";", cookies')
  BY <1>3, Zenon DEF CookiesParsed
<1>. HIDE DEF text, items
<1>8. stage' \in {"body", "refused"} /\ (stage' = "refused" <=> CookieFault')
  BY <1>2, <1>4, <1>6
<1>9. CookiesParsed'
  <2>1. CASE text = << >>
    BY <1>2, <1>5, <1>7, <2>1
  <2>2. CASE text # << >> /\ ArePairs(items)
    BY <1>2, <1>4, <1>7, <2>2
  <2>3. CASE text # << >> /\ ~ArePairs(items)
    BY <1>2, <1>7, <2>3
  <2>. QED  BY <2>1, <2>2, <2>3
<1>10. ParserTypes' /\ LinesParsed'
  BY <1>1, <1>8 DEF ParserInv, ParserTypes, LinesParsed
<1>11. QueryParsed'
  <2>1. \/ arguments = Nothing /\ QueryMarks = {}
        \/ \E q \in QueryMarks : Means(Query(q), "&", arguments)
    BY <1>1 DEF ParserInv, QueryParsed
  <2>2. QueryMarks' = QueryMarks /\ \A q : Query(q)' = Query(q)
    BY <1>1 DEF QueryMarks, Query
  <2>3. \/ arguments' = Nothing /\ QueryMarks' = {}
        \/ \E q \in QueryMarks' : Means(Query(q)', "&", arguments')
    BY <1>1, <2>1, <2>2, Zenon
  <2>4. stage' # "start"
    BY <1>8
  <2>. QED  BY <2>3, <2>4, Zenon DEF QueryParsed
<1>12. BodyParsed'
  BY <1>1, <1>5, <1>8 DEF BodyParsed
<1>. QED  BY <1>1, <1>8, <1>9, <1>10, <1>11, <1>12 DEF ParserInv

LEMMA ParseBodyStep ==
  ASSUME ParserInv, NEW text \in Bodies, ParseBodyArguments(text)
  PROVE  /\ ParserInv' /\ stage = "body" /\ stage' \in {"accepted", "refused"}
         /\ stage' = "refused" <=> BodyFault'
<1>1. /\ stage = "body" /\ body' = text
      /\ UNCHANGED <<last_key, last_value, headers, cookies, arguments, startLine, lines>>
  BY DEF ParseBodyArguments
<1>2. IF IsForm
      THEN IF ArePairs(QsPieces(text))
           THEN stage' = "accepted" /\ body_arguments' = PairsOf(QsPieces(text))
           ELSE stage' = "refused" /\ UNCHANGED body_arguments
      ELSE stage' = "accepted" /\ UNCHANGED body_arguments
  BY Zenon DEF ParseBodyArguments, IsForm
<1>3. (IsForm' <=> IsForm) /\ \A key : ValueOf(key)' = ValueOf(key)
  BY <1>1 DEF IsForm, ValueOf
<1>4. /\ ArePairs(QsPieces(text)) <=> WellFormed(text, "&")
      /\ ArePairs(QsPieces(text)) => Means(text, "&", PairsOf(QsPieces(text)))
  BY TextTypes, QueryMeans
<1>5. body_arguments = Nothing
  BY <1>1 DEF ParserInv, BodyParsed
<1>6. BodyFault' <=> IsForm /\ ~WellFormed(text, "&")
  BY <1>1, <1>3, Zenon DEF BodyFault
<1>7. stage' \in {"accepted", "refused"} /\ (stage' = "refused" <=> BodyFault')
  BY <1>2, <1>4, <1>6
<1>8. BodyParsed'
  <2>1. ASSUME stage' = "accepted"
        PROVE  IF IsForm THEN Means(text, "&", body_arguments') ELSE body_arguments' = Nothing
    BY <1>2, <1>4, <1>5, <2>1
  <2>2. (IF IsForm' THEN Means(body', "&", body_arguments') ELSE body_arguments' = Nothing)
          <=> IF IsForm THEN Means(text, "&", body_arguments') ELSE body_arguments' = Nothing
    BY <1>1, <1>3, Zenon
  <2>3. stage' # "start" /\ stage' # "headers" /\ stage' # "body"
    BY <1>7
  <2>. QED  BY <2>1, <2>2, <2>3, Zenon DEF BodyParsed
<1>9. ParserTypes' /\ LinesParsed'
  BY <1>1, <1>7 DEF ParserInv, ParserTypes, LinesParsed
<1>10. QueryParsed'
  <2>1. \/ arguments = Nothing /\ QueryMarks = {}
        \/ \E q \in QueryMarks : Means(Query(q), "&", arguments)
    BY <1>1 DEF ParserInv, QueryParsed
  <2>2. QueryMarks' = QueryMarks /\ \A q : Query(q)' = Query(q)
    BY <1>1 DEF QueryMarks, Query
  <2>3. \/ arguments' = Nothing /\ QueryMarks' = {}
        \/ \E q \in QueryMarks' : Means(Query(q)', "&", arguments')
    BY <1>1, <2>1, <2>2, Zenon
  <2>4. stage' # "start"
    BY <1>7
  <2>. QED  BY <2>3, <2>4, Zenon DEF QueryParsed
<1>11. CookiesParsed'
  <2>1. IF ValueOf("Cookie") = << >> THEN cookies = Nothing
        ELSE Means(ValueOf("Cookie"), ";", cookies)
    BY <1>1 DEF ParserInv, CookiesParsed
  <2>2. IF ValueOf("Cookie")' = << >> THEN cookies' = Nothing
        ELSE Means(ValueOf("Cookie")', ";", cookies')
    BY <1>1, <1>3, <2>1, Zenon
  <2>3. stage' # "start" /\ stage' # "headers"
    BY <1>7
  <2>. QED  BY <2>2, <2>3, Zenon DEF CookiesParsed
<1>. QED  BY <1>1, <1>7, <1>8, <1>9, <1>10, <1>11 DEF ParserInv

LEMMA StutterParser == ASSUME ParserInv, UNCHANGED vars PROVE ParserInv'
BY Zenon DEF ParserInv, ParserTypes, LinesParsed, QueryParsed, CookiesParsed, BodyParsed,
   vars, parsed, ValueOf, QueryMarks, Query, IsForm

\* The invariant of the parsers.
LEMMA ParserInvariant == Spec => []ParserInv
<1>1. ParserInv /\ [Next]_vars => ParserInv'
  BY ParseStartLineStep, ParseLineStep, ParseCookiesStep, ParseBodyStep, StutterParser
  DEF Next
<1>. QED  BY InitParser, <1>1, PTL DEF Spec

\* The map of the headers is what the lines say, each header with the value of
\* its last field and of the lines that continue it (HTTPHeaders::parse).
THEOREM HeadersMeanTheirLines == Spec => []HeadersMeanLines
<1>1. ParserInv => HeadersMeanLines
  <2>1. SUFFICES ASSUME ParserInv, stage \in {"headers", "body", "accepted"}
                 PROVE  /\ DOMAIN headers
                             = {lines[i].key : i \in {j \in DOMAIN lines : IsField(j)}}
                        /\ \A i \in DOMAIN lines :
                              LET f == FieldOf(i)
                                  last == /\ i = Len(lines) \/ IsField(i + 1)
                                          /\ \A k \in (i + 1)..Len(lines) :
                                                IsField(k) => lines[k].key # lines[f].key
                              IN last => headers[lines[f].key] = ValueUpTo(f, i)
    BY Zenon DEF HeadersMeanLines
  <2>2. Meant(lines, headers) /\ DOMAIN lines = 1..Len(lines)
    <3>1. stage # "refused"
      BY <2>1
    <3>. QED  BY <2>1, <3>1 DEF ParserInv, LinesParsed, ParserTypes
  <2>3. /\ \A i : FieldOf(i) = FieldAt(lines, i)
        /\ \A f, i : ValueUpTo(f, i) = ValueAt(lines, f, i)
    BY Zenon DEF FieldOf, FieldAt, ValueUpTo, ValueAt, Extended, IsField
  <2>4. \A i \in 1..Len(lines) :
           /\ i = Len(lines) \/ IsField(i + 1)
           /\ \A k \in (i + 1)..Len(lines) :
                 IsField(k) => lines[k].key # lines[FieldOf(i)].key
           => Final(lines, i)
    BY <2>3, Zenon DEF Final, IsField
  <2>5. DOMAIN headers = {lines[i].key : i \in {j \in DOMAIN lines : IsField(j)}}
    BY <2>2, Zenon DEF Meant, IsField
  <2>. QED  BY <2>2, <2>3, <2>4, <2>5, Zenon DEF Meant
<1>. QED  BY <1>1, ParserInvariant, PTL

\* What stands in a query, a cookie or a form ends up in its map and nothing
\* else does (parseHttpRequest, parseCookies, parseBodyArguments).
THEOREM MapsMeanTheirTexts == Spec => []MapsMeanTexts
<1>1. ParserInv => MapsMeanTexts
  <2>1. SUFFICES ASSUME ParserInv, stage \in {"body", "accepted"} PROVE MapsMeanTexts
    BY DEF MapsMeanTexts
  <2>2. \/ arguments = Nothing /\ QueryMarks = {}
        \/ \E q \in QueryMarks : Means(Query(q), "&", arguments)
    BY <2>1 DEF ParserInv, QueryParsed
  <2>3. IF ValueOf("Cookie") = << >> THEN cookies = Nothing
        ELSE Means(ValueOf("Cookie"), ";", cookies)
    BY <2>1 DEF ParserInv, CookiesParsed
  <2>4. IF IsForm /\ stage = "accepted" THEN Means(body, "&", body_arguments)
        ELSE body_arguments = Nothing
    <3>1. stage = "body" => body_arguments = Nothing
      BY <2>1 DEF ParserInv, BodyParsed
    <3>2. stage = "accepted" =>
            IF IsForm THEN Means(body, "&", body_arguments) ELSE body_arguments = Nothing
      BY <2>1 DEF ParserInv, BodyParsed
    <3>. QED  BY <2>1, <3>1, <3>2
  <2>. QED  BY <2>2, <2>3, <2>4, Zenon DEF MapsMeanTexts
<1>. QED  BY <1>1, ParserInvariant, PTL

\* A step refuses the request if and only if what it has parsed is malformed
\* (the exceptions that parseHttpRequest and parseBodyArguments throw).
THEOREM RefusedForItsFault == Spec => RefusedForAReason
<1>. DEFINE A ==
       /\ stage = "start" => (stage' = "refused" <=> StartFault')
       /\ stage = "headers" /\ stage' = "refused" => LineFault' \/ CookieFault'
       /\ stage = "headers" /\ stage' = "headers" => ~LineFault'
       /\ stage = "headers" /\ stage' = "body" => ~CookieFault'
       /\ stage = "body" => (stage' = "refused" <=> BodyFault')
<1>1. ASSUME ParserInv, Next PROVE A
  <2>1. ASSUME NEW line \in StartLines, ParseStartLine(line) PROVE A
    <3>1. stage = "start" /\ (stage' = "refused" <=> StartFault')
      BY <1>1, <2>1, ParseStartLineStep, ParseStartLineIs
    <3>. QED  BY <3>1
  <2>2. ASSUME NEW line \in Lines, ParseLine(line) PROVE A
    <3>1. /\ stage = "headers" /\ stage' \in {"headers", "refused"}
          /\ stage' = "refused" => LineFault'
          /\ stage' = "headers" => ~LineFault'
      BY <1>1, <2>2, ParseLineStep
    <3>. QED  BY <3>1
  <2>3. ASSUME ParseCookies PROVE A
    <3>1. /\ stage = "headers" /\ stage' \in {"body", "refused"}
          /\ stage' = "refused" <=> CookieFault'
      BY <1>1, <2>3, ParseCookiesStep
    <3>. QED  BY <3>1
  <2>4. ASSUME NEW text \in Bodies, ParseBodyArguments(text) PROVE A
    <3>1. stage = "body" /\ (stage' = "refused" <=> BodyFault')
      BY <1>1, <2>4, ParseBodyStep
    <3>. QED  BY <3>1
  <2>. QED  BY <1>1, <2>1, <2>2, <2>3, <2>4 DEF Next
<1>2. ParserInv /\ [Next]_vars => [A]_vars
  BY <1>1
<1>. HIDE DEF A
<1>3. Spec => [][A]_vars
  BY ParserInvariant, <1>2, PTL DEF Spec
<1>. QED  BY <1>3 DEF RefusedForAReason, A
=============================================================================
