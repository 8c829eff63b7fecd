------------------------- MODULE ExposureScanProofs -------------------------
(***************************************************************************)
(* Theorems about ExposureScan, for every disk, every set of roots and     *)
(* files, every text and all limits.                                       *)
(***************************************************************************)
EXTENDS ExposureScan, FiniteSetTheorems, WellFoundedInduction, TLAPS

-----------------------------------------------------------------------------
(* Induction over numbers, in the form of a least counterexample.          *)

(* Every set of numbers that is not empty has a least element. *)
LEMMA LeastNumber ==
  ASSUME NEW T \in SUBSET Nat, T # {}
  PROVE  \E m \in T : \A k \in T : m <= k
<1> DEFINE R == OpToRel(<, Nat)
<1>1. IsWellFoundedOn(R, Nat)
  BY NatLessThanWellFounded
<1> HIDE DEF R
<1>2. PICK x \in T : \A y \in T : ~ (<<y, x>> \in R)
  BY <1>1, WFMin
<1>3. \A y \in T : ~ (y < x)
  BY <1>2 DEF R, OpToRel
<1> QED BY <1>3

(* A set of numbers that holds with each number below n the next, and 0,   *)
(* holds all up to n.                                                      *)
LEMMA UpTo ==
  ASSUME NEW n \in Nat, NEW T, 0 \in T, \A m \in 1 .. n : m - 1 \in T => m \in T
  PROVE  \A m \in 0 .. n : m \in T
<1> SUFFICES ASSUME NEW m \in 0 .. n, m \notin T PROVE FALSE
  OBVIOUS
<1> DEFINE U == {k \in 0 .. n : k \notin T}
<1>1. U \in SUBSET Nat /\ U # {}
  OBVIOUS
<1>2. PICK k \in U : \A j \in U : k <= j
  BY <1>1, LeastNumber
<1>3. k # 0 /\ k \in 1 .. n
  BY <1>2
<1>4. k - 1 \notin U
  BY <1>2, <1>3
<1>5. k - 1 \in T
  BY <1>3, <1>4
<1> QED BY <1>2, <1>3, <1>5

(* f is defined by recursion on 0 .. n, from b and by the steps of g. *)
Follows(f, S, b, n, g) ==
  f \in [0 .. n -> S] /\ f[0] = b /\ \A k \in 1 .. n : f[k] = g[<<f[k - 1], k>>]

(* A step function gives a function by recursion on 0 .. n. *)
LEMMA Recursion ==
  ASSUME NEW S, NEW b \in S, NEW n \in Nat, NEW g \in [S \X (1 .. n) -> S]
  PROVE  \E f : Follows(f, S, b, n, g)
<1> DEFINE P(m) == \E f \in [0 .. m -> S] :
                     f[0] = b /\ \A k \in 1 .. m : f[k] = g[<<f[k - 1], k>>]
           T == {m \in 0 .. n : P(m)}
<1>1. 0 \in T
  <2>1. P(0)
    <3> WITNESS [k \in 0 .. 0 |-> b] \in [0 .. 0 -> S]
    <3> QED OBVIOUS
  <2> QED BY <2>1
<1>2. ASSUME NEW m \in 1 .. n, m - 1 \in T PROVE m \in T
  <2>1. PICK f \in [0 .. m - 1 -> S] :
               f[0] = b /\ \A k \in 1 .. m - 1 : f[k] = g[<<f[k - 1], k>>]
    BY <1>2
  <2>2. f[m - 1] \in S
    OBVIOUS
  <2>3. g[<<f[m - 1], m>>] \in S
    BY <2>2
  <2> DEFINE h == [k \in 0 .. m |-> IF k = m THEN g[<<f[m - 1], m>>] ELSE f[k]]
  <2>4. h \in [0 .. m -> S]
    BY <2>3
  <2>5. h[0] = b
    BY <2>1
  <2>6. \A k \in 1 .. m : h[k] = g[<<h[k - 1], k>>]
    <3> SUFFICES ASSUME NEW k \in 1 .. m PROVE h[k] = g[<<h[k - 1], k>>]
      OBVIOUS
    <3>1. h[k - 1] = f[k - 1]
      OBVIOUS
    <3>2. CASE k = m
      <4>1. h[m] = g[<<f[m - 1], m>>] /\ h[m - 1] = f[m - 1]
        OBVIOUS
      <4> HIDE DEF h
      <4> QED BY <3>2, <4>1
    <3>3. CASE k # m
      <4>1. k \in 1 .. m - 1
        BY <3>3
      <4> QED BY <2>1, <3>1, <3>3, <4>1
    <3> QED BY <3>2, <3>3
  <2>7. P(m)
    BY <2>4, <2>5, <2>6
  <2> QED BY <2>7
<1> HIDE DEF P, T
<1>3. n \in T
  BY <1>1, <1>2, UpTo
<1> QED BY <1>3 DEF P, T, Follows

-----------------------------------------------------------------------------
(* The roots.                                                              *)

(* The roots are paths, home is the first, and all have priority files. *)
LEMMA RootsType ==
  /\ Roots \in Seq(Paths) /\ Len(Roots) \in Nat \ {0}
  /\ DOMAIN Roots = 1 .. Len(Roots)
  /\ Range(Roots) \subseteq DOMAIN PriorityFiles
<1> DEFINE n == Len(ExtraRoots)
           Next1(r, k) == IF Contains(r, ExtraRoots[k]) THEN r ELSE Append(r, ExtraRoots[k])
           F(f) == [k \in 0 .. n |-> IF k = 0 THEN <<Home>>
                                     ELSE IF Contains(f[k - 1], ExtraRoots[k]) THEN f[k - 1]
                                     ELSE Append(f[k - 1], ExtraRoots[k])]
           D == {Home} \cup Range(ExtraRoots)
           S == Seq(D) \ {<<>>}
           g == [x \in S \X (1 .. n) |-> Next1(x[1], x[2])]
<1>1. n \in Nat /\ ExtraRoots \in Seq(Paths) /\ D \subseteq Paths /\ <<Home>> \in S
  BY DiskAssumption DEF Range
<1>2. \A r \in S, k \in 1 .. n : Next1(r, k) \in S
  BY <1>1 DEF Range
<1>3. g \in [S \X (1 .. n) -> S]
  BY <1>2
<1>4. PICK f \in [0 .. n -> S] :
        f[0] = <<Home>> /\ \A k \in 1 .. n : f[k] = g[<<f[k - 1], k>>]
  <2> HIDE DEF S, g, n
  <2>1. \E f : Follows(f, S, <<Home>>, n, g)
    BY <1>1, <1>3, Recursion, Zenon
  <2> QED BY <2>1 DEF Follows
<1>5. \A k \in 1 .. n : f[k] = Next1(f[k - 1], k)
  <2> SUFFICES ASSUME NEW k \in 1 .. n PROVE f[k] = Next1(f[k - 1], k)
    OBVIOUS
  <2>1. f[k - 1] \in S
    BY <1>1, SMTT(30)
  <2>2. g[<<f[k - 1], k>>] = Next1(f[k - 1], k)
    BY <2>1
  <2> QED BY <1>4, <2>2
<1>6. f = F(f)
  <2>1. ASSUME NEW k \in 0 .. n PROVE f[k] = F(f)[k]
    <3>1. CASE k = 0
      BY <1>1, <1>4, <3>1
    <3>2. CASE k # 0
      <4>1. k \in 1 .. n
        BY <1>1, <3>2
      <4>2. F(f)[k] = Next1(f[k - 1], k)
        BY <3>2
      <4> QED BY <1>5, <4>1, <4>2
    <3> QED BY <3>1, <3>2
  <2> QED BY <1>1, <2>1
<1> DEFINE c == CHOOSE h : h = F(h)
<1>7. c = F(c)
  BY <1>6
<1> HIDE DEF c
<1>8. \A k \in 0 .. n : c[k] = f[k]
  <2> DEFINE T == {k \in 0 .. n : c[k] = f[k]}
  <2>1. 0 \in T
    BY <1>1, <1>4, <1>7
  <2>2. ASSUME NEW k \in 1 .. n, k - 1 \in T PROVE k \in T
    <3>1. k \in 0 .. n /\ k # 0
      BY <1>1
    <3>2. F(c)[k] = Next1(c[k - 1], k)
      BY <3>1
    <3>3. c[k] = Next1(c[k - 1], k)
      BY <1>7, <3>2
    <3> QED BY <1>5, <2>2, <3>1, <3>3
  <2> HIDE DEF T
  <2>3. \A k \in 0 .. n : k \in T
    BY <1>1, <2>1, <2>2, UpTo
  <2> QED BY <2>3 DEF T
<1>9. Roots = c[n]
  BY DEF Roots, c
<1>10. Roots \in S
  BY <1>1, <1>4, <1>8, <1>9
<1>11. Roots \in Seq(Paths) /\ Roots # <<>> /\ Range(Roots) \subseteq D
  BY <1>1, <1>10 DEF Range
<1> QED BY <1>11, PriorityAssumption

-----------------------------------------------------------------------------
(* The matches that count.                                                 *)

(* The matches of a rule. *)
RuleMatches(matches) == {i \in DOMAIN matches : matches[i].rule # "none"}

(* K has, of the matches up to n, those no earlier one of K overlaps. *)
CountsUpTo(K, matches, n) ==
  /\ K \subseteq {i \in RuleMatches(matches) : i <= n}
  /\ \A i \in RuleMatches(matches) :
       i <= n => (i \in K <=> ~ \E j \in K : j < i /\ Overlap(matches[i], matches[j]))

(* Going through the matches once finds the ones that count, so Counted is *)
(* what its definition asks for.                                           *)
LEMMA CountedCounts ==
  ASSUME NEW matches \in Seq(Match)
  PROVE  /\ Counted(matches) \subseteq RuleMatches(matches)
         /\ \A i \in RuleMatches(matches) :
              i \in Counted(matches) <=>
                ~ \E j \in Counted(matches) : j < i /\ Overlap(matches[i], matches[j])
<1> DEFINE n == Len(matches)
           rules == RuleMatches(matches)
           T == {m \in 0 .. n : \E K : CountsUpTo(K, matches, m)}
<1>1. n \in Nat /\ DOMAIN matches = 1 .. n /\ rules \subseteq 1 .. n
  BY DEF RuleMatches
<1>2. 0 \in T
  <2>1. CountsUpTo({}, matches, 0)
    BY <1>1 DEF CountsUpTo
  <2> QED BY <1>1, <2>1
<1>3. ASSUME NEW m \in 1 .. n, m - 1 \in T PROVE m \in T
  <2>1. PICK K : CountsUpTo(K, matches, m - 1)
    BY <1>3
  <2>2. K \subseteq rules /\ \A j \in K : j <= m - 1 /\ j \in Nat
    BY <1>1, <2>1 DEF CountsUpTo
  <2>3. CASE m \in rules /\ ~ \E j \in K : Overlap(matches[m], matches[j])
    <3> DEFINE L == K \cup {m}
    <3>1. L \subseteq {i \in rules : i <= m}
      BY <1>1, <2>2, <2>3
    <3>2. ASSUME NEW i \in rules, i <= m
          PROVE  i \in L <=> ~ \E j \in L : j < i /\ Overlap(matches[i], matches[j])
      <4>1. CASE i = m
        BY <2>2, <2>3, <4>1
      <4>2. CASE i # m
        <5>1. i <= m - 1 /\ i \in Nat
          BY <1>1, <3>2, <4>2
        <5>2. \A j \in L : j < i => j \in K
          BY <5>1
        <5>3. i \in L <=> i \in K
          BY <4>2
        <5>4. i \in K <=> ~ \E j \in K : j < i /\ Overlap(matches[i], matches[j])
          BY <2>1, <5>1 DEF CountsUpTo
        <5> QED BY <5>2, <5>3, <5>4
      <4> QED BY <4>1, <4>2
    <3>3. CountsUpTo(L, matches, m)
      BY <3>1, <3>2 DEF CountsUpTo
    <3> QED BY <1>1, <3>3
  <2>4. CASE ~ (m \in rules /\ ~ \E j \in K : Overlap(matches[m], matches[j]))
    <3>1. K \subseteq {i \in rules : i <= m}
      BY <1>1, <2>2
    <3>2. ASSUME NEW i \in rules, i <= m
          PROVE  i \in K <=> ~ \E j \in K : j < i /\ Overlap(matches[i], matches[j])
      <4>1. CASE i = m
        <5>1. m \notin K
          BY <2>2
        <5>2. PICK j \in K : Overlap(matches[m], matches[j])
          BY <2>4, <3>2, <4>1
        <5>3. j < m
          BY <2>2
        <5> QED BY <4>1, <5>1, <5>2, <5>3
      <4>2. CASE i # m
        <5>1. i <= m - 1
          BY <1>1, <3>2, <4>2
        <5> QED BY <2>1, <5>1 DEF CountsUpTo
      <4> QED BY <4>1, <4>2
    <3>3. CountsUpTo(K, matches, m)
      BY <3>1, <3>2 DEF CountsUpTo
    <3> QED BY <1>1, <3>3
  <2> QED BY <2>3, <2>4
<1>4. n \in T
  <2>1. \A m \in 1 .. n : m - 1 \in T => m \in T
    BY <1>3
  <2> HIDE DEF T, n
  <2>2. \A m \in 0 .. n : m \in T
    BY <1>1, <1>2, <2>1, UpTo
  <2> QED BY <1>1, <2>2
<1>5. PICK K : CountsUpTo(K, matches, n)
  BY <1>4
<1> DEFINE C(L) == \A i \in rules :
                     i \in L <=> ~ \E j \in L : j < i /\ Overlap(matches[i], matches[j])
<1>6. K \in SUBSET rules /\ C(K)
  <2>1. \A i \in rules : i <= n
    BY <1>1
  <2> QED BY <1>5, <2>1 DEF CountsUpTo
<1> DEFINE c == CHOOSE L \in SUBSET rules : C(L)
<1>7. c \in SUBSET rules /\ C(c)
  BY <1>6
<1>8. Counted(matches) = c
  BY DEF Counted, RuleMatches
<1> QED BY <1>7, <1>8

(* After the first n matches what was found are matches that count, each   *)
(* once and in their order; all of them, unless something is missing.      *)
FoundUpTo(acc, idx, matches, n) ==
  /\ acc \in [found : Seq(Match), incomplete : BOOLEAN]
  /\ idx \in [1 .. Len(acc.found) -> Counted(matches)]
  /\ \A k \in 1 .. Len(acc.found) : acc.found[k] = matches[idx[k]] /\ idx[k] <= n
  /\ \A j, k \in 1 .. Len(acc.found) : j < k => idx[j] < idx[k]
  /\ ~ acc.incomplete =>
       \A i \in Counted(matches) : i <= n => \E k \in 1 .. Len(acc.found) : idx[k] = i

(* The next match counts if and only if it overlaps nothing found so far. *)
LEMMA FoundStep ==
  ASSUME NEW matches \in Seq(Match), NEW limit \in Int, NEW cut \in Nat,
         NEW n \in 1 .. Len(matches), NEW acc, NEW idx, FoundUpTo(acc, idx, matches, n - 1)
  PROVE  LET new == IF acc.incomplete THEN acc
                    ELSE IF n > cut THEN [acc EXCEPT !.incomplete = TRUE]
                    ELSE IF matches[n].rule = "none" THEN acc
                    ELSE Add(acc.found, matches[n], limit)
         IN \E inew : FoundUpTo(new, inew, matches, n)
<1> DEFINE K == Counted(matches)
           l == Len(acc.found)
           found == acc.found
<1>1. /\ acc \in [found : Seq(Match), incomplete : BOOLEAN]
      /\ idx \in [1 .. l -> K] /\ l \in Nat /\ n \in Nat /\ DOMAIN found = 1 .. l
  BY DEF FoundUpTo
<1>2. \A k \in 1 .. l : found[k] = matches[idx[k]] /\ idx[k] <= n - 1 /\ idx[k] \in Nat
  <2>1. K \subseteq 1 .. Len(matches)
    BY CountedCounts DEF RuleMatches
  <2> QED BY <1>1, <2>1 DEF FoundUpTo
<1>3. \A i \in K : i \in Nat /\ i \in RuleMatches(matches)
  BY CountedCounts DEF RuleMatches
<1>4. CASE acc.incomplete
  <2>1. FoundUpTo(acc, idx, matches, n)
    BY <1>1, <1>2, <1>4 DEF FoundUpTo
  <2> QED BY <1>4, <2>1
<1>5. CASE ~ acc.incomplete /\ n > cut
  <2> DEFINE new == [acc EXCEPT !.incomplete = TRUE]
  <2>1. new.found = found /\ new.incomplete = TRUE
        /\ new \in [found : Seq(Match), incomplete : BOOLEAN]
    BY <1>1
  <2> HIDE DEF new
  <2>2. FoundUpTo(new, idx, matches, n)
    BY <1>1, <1>2, <2>1 DEF FoundUpTo
  <2> QED BY <1>5, <2>2 DEF new
<1>6. CASE ~ acc.incomplete /\ ~ (n > cut) /\ matches[n].rule = "none"
  <2>1. n \notin K
    BY <1>3, <1>6 DEF RuleMatches
  <2>2. \A i \in K : i <= n => i <= n - 1
    BY <1>1, <1>3, <2>1
  <2>3. \A i \in K : i <= n => \E k \in 1 .. l : idx[k] = i
    BY <1>6, <2>2 DEF FoundUpTo
  <2>4. FoundUpTo(acc, idx, matches, n)
    BY <1>1, <1>2, <2>3 DEF FoundUpTo
  <2> QED BY <1>6, <2>4
<1>7. CASE ~ acc.incomplete /\ ~ (n > cut) /\ matches[n].rule # "none"
  <2>1. n \in RuleMatches(matches)
    BY <1>7 DEF RuleMatches
  <2>2. \A i \in K : i <= n - 1 => \E k \in 1 .. l : idx[k] = i
    BY <1>7 DEF FoundUpTo
  <2>3. n \in K <=> ~ \E k \in 1 .. l : Overlap(found[k], matches[n])
    <3>1. n \in K <=> ~ \E j \in K : j < n /\ Overlap(matches[n], matches[j])
      BY <2>1, CountedCounts
    <3>2. \A j \in K : Overlap(matches[n], matches[j]) <=> Overlap(matches[j], matches[n])
      BY DEF Overlap
    <3>3. ASSUME NEW j \in K, j < n, Overlap(matches[n], matches[j])
          PROVE  \E k \in 1 .. l : Overlap(found[k], matches[n])
      <4>1. j <= n - 1
        BY <1>1, <1>3, <3>3
      <4>2. PICK k \in 1 .. l : idx[k] = j
        BY <2>2, <4>1
      <4> QED BY <1>2, <3>2, <3>3, <4>2
    <3>4. ASSUME NEW k \in 1 .. l, Overlap(found[k], matches[n])
          PROVE  \E j \in K : j < n /\ Overlap(matches[n], matches[j])
      <4>1. idx[k] \in K
        BY <1>1
      <4>2. idx[k] < n /\ found[k] = matches[idx[k]]
        BY <1>1, <1>2
      <4> QED BY <3>2, <3>4, <4>1, <4>2
    <3> QED BY <3>1, <3>3, <3>4
  <2>4. CASE \E k \in DOMAIN found : Overlap(found[k], matches[n])
    <3> DEFINE new == [found |-> found, incomplete |-> FALSE]
    <3>1. new \in [found : Seq(Match), incomplete : BOOLEAN]
      BY <1>1
    <3>2. n \notin K
      BY <1>1, <2>3, <2>4
    <3>3. \A i \in K : i <= n => i <= n - 1
      BY <1>1, <1>3, <3>2
    <3>4. FoundUpTo(new, idx, matches, n)
      BY <1>1, <1>2, <2>2, <3>1, <3>3 DEF FoundUpTo
    <3>5. Add(found, matches[n], limit) = new
      BY <2>4 DEF Add
    <3> QED BY <1>7, <3>4, <3>5
  <2>5. CASE ~ (\E k \in DOMAIN found : Overlap(found[k], matches[n])) /\ l >= limit
    <3> DEFINE new == [found |-> found, incomplete |-> TRUE]
    <3>1. new \in [found : Seq(Match), incomplete : BOOLEAN]
      BY <1>1
    <3>a. new.found = found /\ new.incomplete = TRUE
      OBVIOUS
    <3>b. \A j, k \in 1 .. l : j < k => idx[j] < idx[k]
      BY DEF FoundUpTo
    <3>2. FoundUpTo(new, idx, matches, n)
      <4> HIDE DEF new
      <4> QED BY <1>1, <1>2, <3>1, <3>a, <3>b DEF FoundUpTo
    <3>3. Add(found, matches[n], limit) = new
      BY <2>5 DEF Add
    <3> QED BY <1>7, <3>2, <3>3
  <2>6. CASE ~ (\E k \in DOMAIN found : Overlap(found[k], matches[n])) /\ ~ (l >= limit)
    <3> DEFINE longer == Append(found, matches[n])
               new == [found |-> longer, incomplete |-> FALSE]
               inew == [k \in 1 .. l + 1 |-> IF k = l + 1 THEN n ELSE idx[k]]
    <3>1. matches[n] \in Match /\ n \in K
      BY <1>1, <2>3, <2>6
    <3>2. longer \in Seq(Match) /\ Len(longer) = l + 1 /\ longer[l + 1] = matches[n]
          /\ \A k \in 1 .. l : longer[k] = found[k]
      BY <1>1, <3>1
    <3> HIDE DEF longer
    <3>3. new \in [found : Seq(Match), incomplete : BOOLEAN]
      BY <3>2
    <3>4. inew \in [1 .. l + 1 -> K]
      BY <1>1, <3>1
    <3>5. \A k \in 1 .. l + 1 : longer[k] = matches[inew[k]] /\ inew[k] <= n
      BY <1>1, <1>2, <3>2
    <3>6. \A j, k \in 1 .. l + 1 : j < k => inew[j] < inew[k]
      <4> SUFFICES ASSUME NEW j \in 1 .. l + 1, NEW k \in 1 .. l + 1, j < k
                   PROVE  inew[j] < inew[k]
        OBVIOUS
      <4>1. j \in 1 .. l /\ inew[j] = idx[j]
        BY <1>1
      <4>2. CASE k = l + 1
        BY <1>1, <1>2, <4>1, <4>2
      <4>3. CASE k # l + 1
        <5>1. k \in 1 .. l /\ inew[k] = idx[k]
          BY <1>1, <4>3
        <5> QED BY <4>1, <5>1 DEF FoundUpTo
      <4> QED BY <4>2, <4>3
    <3>7. \A i \in K : i <= n => \E k \in 1 .. l + 1 : inew[k] = i
      <4> SUFFICES ASSUME NEW i \in K, i <= n PROVE \E k \in 1 .. l + 1 : inew[k] = i
        OBVIOUS
      <4>1. CASE i = n
        <5>1. l + 1 \in 1 .. l + 1 /\ inew[l + 1] = n
          BY <1>1
        <5> QED BY <4>1, <5>1
      <4>2. CASE i # n
        <5>1. i <= n - 1
          BY <1>1, <1>3, <4>2
        <5>2. PICK k \in 1 .. l : idx[k] = i
          BY <2>2, <5>1
        <5>3. k \in 1 .. l + 1 /\ inew[k] = i
          BY <1>1, <5>2
        <5> QED BY <5>3
      <4> QED BY <4>1, <4>2
    <3>8. new.found = longer
      OBVIOUS
    <3> HIDE DEF inew, new
    <3>9. FoundUpTo(new, inew, matches, n)
      BY <3>2, <3>3, <3>4, <3>5, <3>6, <3>7, <3>8 DEF FoundUpTo
    <3>10. Add(found, matches[n], limit) = new
      BY <2>6 DEF Add, longer, new
    <3> QED BY <1>7, <3>9, <3>10
  <2> QED BY <2>4, <2>5, <2>6
<1> QED BY <1>4, <1>5, <1>6, <1>7

(* What is recorded of a file are matches that count, and all of them when *)
(* neither the limit nor the end of the scan cut it short.                 *)
LEMMA RecordedCount ==
  ASSUME NEW matches \in Seq(Match), NEW limit \in Int, NEW cut \in Nat
  PROVE  \E idx : FoundUpTo(Recorded(matches, limit, cut), idx, matches, Len(matches))
<1> DEFINE n == Len(matches)
           S == [found : Seq(Match), incomplete : BOOLEAN]
           b == [found |-> <<>>, incomplete |-> FALSE]
           Step(acc, k) == IF acc.incomplete THEN acc
                           ELSE IF k > cut THEN [acc EXCEPT !.incomplete = TRUE]
                           ELSE IF matches[k].rule = "none" THEN acc
                           ELSE Add(acc.found, matches[k], limit)
           F(f) == [k \in 0 .. n |->
                      IF k = 0 THEN [found |-> <<>>, incomplete |-> FALSE]
                      ELSE IF f[k - 1].incomplete THEN f[k - 1]
                      ELSE IF k > cut THEN [f[k - 1] EXCEPT !.incomplete = TRUE]
                      ELSE IF matches[k].rule = "none" THEN f[k - 1]
                      ELSE Add(f[k - 1].found, matches[k], limit)]
           g == [x \in S \X (1 .. n) |-> Step(x[1], x[2])]
<1>1. n \in Nat /\ b \in S
  OBVIOUS
<1>2. \A acc \in S, k \in 1 .. n : Step(acc, k) \in S
  <2> SUFFICES ASSUME NEW acc \in S, NEW k \in 1 .. n PROVE Step(acc, k) \in S
    OBVIOUS
  <2>1. acc.found \in Seq(Match) /\ matches[k] \in Match
    OBVIOUS
  <2>2. Add(acc.found, matches[k], limit) \in S
    BY <2>1 DEF Add
  <2>3. [acc EXCEPT !.incomplete = TRUE] \in S
    OBVIOUS
  <2> QED BY <2>2, <2>3
<1>3. g \in [S \X (1 .. n) -> S]
  <2> HIDE DEF S, Step
  <2> QED BY <1>2
<1>4. PICK f : Follows(f, S, b, n, g)
  <2> HIDE DEF S, g, n, b
  <2> QED BY <1>1, <1>3, Recursion, Zenon
<1>5. \A k \in 1 .. n : f[k] = Step(f[k - 1], k)
  <2> HIDE DEF S, Step
  <2> SUFFICES ASSUME NEW k \in 1 .. n PROVE f[k] = Step(f[k - 1], k)
    OBVIOUS
  <2>1. f[k - 1] \in S
    BY <1>1, <1>4 DEF Follows
  <2>2. g[<<f[k - 1], k>>] = Step(f[k - 1], k)
    BY <2>1
  <2> QED BY <1>4, <2>2 DEF Follows
<1>6. f = F(f)
  <2>1. ASSUME NEW k \in 0 .. n PROVE f[k] = F(f)[k]
    <3>1. CASE k = 0
      BY <1>1, <1>4, <3>1 DEF Follows
    <3>2. CASE k # 0
      <4>1. k \in 1 .. n
        BY <1>1, <3>2
      <4>2. F(f)[k] = Step(f[k - 1], k)
        BY <3>2
      <4> QED BY <1>5, <4>1, <4>2
    <3> QED BY <3>1, <3>2
  <2>2. DOMAIN f = 0 .. n /\ f = [k \in 0 .. n |-> f[k]]
    BY <1>4 DEF Follows
  <2> QED BY <2>1, <2>2
<1> DEFINE c == CHOOSE h : h = F(h)
<1>7. c = F(c)
  BY <1>6
<1>8. c[0] = b /\ \A k \in 1 .. n : c[k] = Step(c[k - 1], k)
  <2> HIDE DEF c
  <2>1. F(c)[0] = b
    BY <1>1
  <2>2. ASSUME NEW k \in 1 .. n PROVE F(c)[k] = Step(c[k - 1], k)
    BY <1>1
  <2> HIDE DEF F, Step, b
  <2> QED BY <1>7, <2>1, <2>2
<1> HIDE DEF c
<1> DEFINE T == {k \in 0 .. n : \E idx : FoundUpTo(c[k], idx, matches, k)}
<1>9. 0 \in T
  <2>1. \A i \in Counted(matches) : i \in Nat /\ i > 0
    BY CountedCounts DEF RuleMatches
  <2>2. FoundUpTo(b, [k \in 1 .. 0 |-> 0], matches, 0)
    BY <2>1 DEF FoundUpTo
  <2> HIDE DEF b
  <2> QED BY <1>1, <1>8, <2>2
<1>10. ASSUME NEW k \in 1 .. n, k - 1 \in T PROVE k \in T
  <2>1. PICK idx : FoundUpTo(c[k - 1], idx, matches, k - 1)
    BY <1>10
  <2>2. \E inew : FoundUpTo(Step(c[k - 1], k), inew, matches, k)
    BY <2>1, FoundStep
  <2> HIDE DEF Step
  <2> QED BY <1>8, <2>2
<1>11. n \in T
  <2>1. \A k \in 1 .. n : k - 1 \in T => k \in T
    BY <1>10
  <2> HIDE DEF T, n
  <2>2. \A k \in 0 .. n : k \in T
    BY <1>1, <1>9, <2>1, UpTo
  <2> QED BY <1>1, <2>2
<1>12. Recorded(matches, limit, cut) = c[n]
  BY DEF Recorded, c
<1> HIDE DEF n
<1> QED BY <1>11, <1>12 DEF n

-----------------------------------------------------------------------------
(* Sorting.                                                                *)

(* Among n matches there is a last one. *)
LEMMA LastStart ==
  ASSUME NEW n \in Nat \ {0}, NEW q \in [1 .. n -> Match]
  PROVE  \E j \in 1 .. n : \A k \in 1 .. n : q[k].start <= q[j].start
<1> DEFINE T == {m \in 0 .. n : m = 0 \/ \E j \in 1 .. m : \A k \in 1 .. m : q[k].start <= q[j].start}
<1>0. \A k \in 1 .. n : q[k].start \in Nat
  BY DEF Match
<1>1. 0 \in T
  OBVIOUS
<1>2. ASSUME NEW m \in 1 .. n, m - 1 \in T PROVE m \in T
  <2>1. CASE m = 1
    <3>1. \A k \in 1 .. m : q[k].start <= q[1].start
      BY <1>0, <2>1
    <3> QED BY <2>1, <3>1
  <2>2. CASE m # 1
    <3>1. PICK j \in 1 .. m - 1 : \A k \in 1 .. m - 1 : q[k].start <= q[j].start
      BY <1>2, <2>2
    <3>2. j \in 1 .. m /\ j \in 1 .. n /\ m \in 1 .. m
      OBVIOUS
    <3>3. CASE q[m].start <= q[j].start
      <4>1. \A k \in 1 .. m : q[k].start <= q[j].start
        BY <3>1, <3>3
      <4> QED BY <3>2, <4>1
    <3>4. CASE ~ (q[m].start <= q[j].start)
      <4>1. \A k \in 1 .. m : q[k].start <= q[m].start
        BY <1>0, <3>1, <3>2, <3>4
      <4> QED BY <3>2, <4>1
    <3> QED BY <3>3, <3>4
  <2> QED BY <2>1, <2>2
<1>3. n \in T
  <2>1. \A m \in 1 .. n : m - 1 \in T => m \in T
    BY <1>2
  <2> HIDE DEF T
  <2>2. \A m \in 0 .. n : m \in T
    BY <1>1, <2>1, UpTo
  <2> QED BY <2>2
<1> QED BY <1>3

(* t has the elements of q, by their starts. *)
Sorts(t, q, n) ==
  /\ t \in [1 .. n -> Match]
  /\ \A i, j \in 1 .. n : i < j => t[i].start < t[j].start
  /\ \A k \in 1 .. n : \E j \in 1 .. n : t[k] = q[j]
  /\ \A k \in 1 .. n : \E j \in 1 .. n : q[k] = t[j]

(* The starts of the first n elements differ. *)
Distinct(q, n) ==
  /\ q \in [1 .. n -> Match]
  /\ \A i, j \in 1 .. n : i # j => q[i].start # q[j].start

(* Matches that start at different places can be sorted. *)
LEMMA SortExists ==
  ASSUME NEW n \in Nat, NEW q, Distinct(q, n)
  PROVE  \E t : Sorts(t, q, n)
<1> DEFINE T == {m \in 0 .. n : \A r : Distinct(r, m) => \E t : Sorts(t, r, m)}
<1>1. 0 \in T
  <2>1. \A r : Sorts([k \in 1 .. 0 |-> r], r, 0)
    BY DEF Sorts
  <2> QED BY <2>1
<1>2. ASSUME NEW m \in 1 .. n, m - 1 \in T PROVE m \in T
  <2> SUFFICES ASSUME NEW r, Distinct(r, m) PROVE \E t : Sorts(t, r, m)
    OBVIOUS
  <2>1. r \in [1 .. m -> Match] /\ m \in Nat \ {0} /\ m \in 1 .. m
    BY DEF Distinct
  <2>2. PICK j \in 1 .. m : \A k \in 1 .. m : r[k].start <= r[j].start
    BY <2>1, LastStart
  <2> DEFINE u == [k \in 1 .. m - 1 |-> IF k = j THEN r[m] ELSE r[k]]
  <2>3. \A k \in 1 .. m - 1 : k \in 1 .. m /\ k # m
    BY <2>1
  <2>4. u \in [1 .. m - 1 -> Match]
    BY <2>1, <2>3
  <2>5. Distinct(u, m - 1)
    <3> SUFFICES ASSUME NEW a \in 1 .. m - 1, NEW c \in 1 .. m - 1, a # c
                 PROVE  u[a].start # u[c].start
      BY <2>4 DEF Distinct
    <3>1. \A x, y \in 1 .. m : x # y => r[x].start # r[y].start
      BY DEF Distinct
    <3> QED BY <2>1, <2>3, <3>1
  <2>6. PICK t : Sorts(t, u, m - 1)
    BY <1>2, <2>5
  <2>7. \A k \in 1 .. m - 1 : u[k].start < r[j].start
    <3> SUFFICES ASSUME NEW k \in 1 .. m - 1 PROVE u[k].start < r[j].start
      OBVIOUS
    <3>1. PICK l \in 1 .. m : l # j /\ u[k] = r[l]
      BY <2>1, <2>3
    <3>2. r[l].start # r[j].start
      BY <3>1 DEF Distinct
    <3>3. r[l].start \in Nat /\ r[j].start \in Nat
      BY <2>1 DEF Match
    <3> QED BY <2>2, <3>1, <3>2, <3>3
  <2> DEFINE v == [k \in 1 .. m |-> IF k = m THEN r[j] ELSE t[k]]
  <2>8. t \in [1 .. m - 1 -> Match] /\ \A k \in 1 .. m : k # m => k \in 1 .. m - 1
    BY <2>1, <2>6, SMTT(30) DEF Sorts
  <2>9. v \in [1 .. m -> Match]
    BY <2>1, <2>8
  <2>10. \A k \in 1 .. m - 1 : v[k] = t[k]
    BY <2>3
  <2>11. v[m] = r[j]
    BY <2>1
  <2> HIDE DEF u, v
  <2>12. ASSUME NEW a \in 1 .. m, NEW c \in 1 .. m, a < c PROVE v[a].start < v[c].start
    <3>1. a \in 1 .. m - 1
      BY <2>12
    <3>2. CASE c = m
      <4>1. PICK k \in 1 .. m - 1 : t[a] = u[k]
        BY <2>6, <3>1 DEF Sorts
      <4> QED BY <2>7, <2>10, <2>11, <3>1, <3>2, <4>1
    <3>3. CASE c # m
      <4>1. c \in 1 .. m - 1
        BY <2>8, <3>3
      <4>2. t[a].start < t[c].start
        BY <2>6, <2>12, <3>1, <4>1 DEF Sorts
      <4> QED BY <2>10, <3>1, <4>1, <4>2
    <3> QED BY <3>2, <3>3
  <2>13. ASSUME NEW k \in 1 .. m PROVE \E l \in 1 .. m : v[k] = r[l]
    <3>1. CASE k = m
      BY <2>11, <3>1
    <3>2. CASE k # m
      <4>1. k \in 1 .. m - 1
        BY <2>8, <3>2
      <4>2. PICK l \in 1 .. m - 1 : t[k] = u[l]
        BY <2>6, <4>1 DEF Sorts
      <4>3. u[l] = r[m] \/ u[l] = r[l]
        BY DEF u
      <4> QED BY <2>1, <2>3, <2>10, <4>1, <4>2, <4>3
    <3> QED BY <3>1, <3>2
  <2>14. ASSUME NEW k \in 1 .. m PROVE \E l \in 1 .. m : r[k] = v[l]
    <3>1. CASE k = j
      BY <2>1, <2>11, <3>1
    <3>2. CASE k # j
      <4>1. PICK l \in 1 .. m - 1 : r[k] = u[l]
        <5>1. CASE k = m
          <6>1. j \in 1 .. m - 1 /\ u[j] = r[m]
            BY <2>8, <3>2, <5>1 DEF u
          <6> QED BY <5>1, <6>1
        <5>2. CASE k # m
          <6>1. k \in 1 .. m - 1 /\ u[k] = r[k]
            BY <2>8, <3>2, <5>2 DEF u
          <6> QED BY <6>1
        <5> QED BY <5>1, <5>2
      <4>2. PICK x \in 1 .. m - 1 : u[l] = t[x]
        BY <2>6 DEF Sorts
      <4> QED BY <2>3, <2>10, <4>1, <4>2
    <3> QED BY <3>1, <3>2
  <2>15. Sorts(v, r, m)
    BY <2>9, <2>12, <2>13, <2>14 DEF Sorts
  <2> QED BY <2>15
<1>3. n \in T
  <2>1. \A m \in 1 .. n : m - 1 \in T => m \in T
    BY <1>2
  <2> HIDE DEF T
  <2>2. \A m \in 0 .. n : m \in T
    BY <1>1, <2>1, UpTo
  <2> QED BY <2>2
<1> QED BY <1>3

(* sort_by_key gives the matches in the order of their starts. *)
LEMMA SortedSorts ==
  ASSUME NEW q \in Seq(Match), Distinct(q, Len(q))
  PROVE  Sorts(SortedByStart(q), q, Len(q)) /\ SortedByStart(q) \in Seq(Match)
<1> DEFINE n == Len(q)
           C(t) == /\ Range(t) = Range(q)
                   /\ \A i, j \in DOMAIN q : i < j => t[i].start < t[j].start
<1>1. n \in Nat /\ DOMAIN q = 1 .. n /\ q \in [1 .. n -> Match]
  OBVIOUS
<1>2. PICK t : Sorts(t, q, n)
  BY <1>1, SortExists
<1>3. t \in [DOMAIN q -> Range(q)] /\ C(t)
  <2>1. t \in [1 .. n -> Match] /\ \A k \in 1 .. n : t[k] \in Range(q)
    BY <1>1, <1>2 DEF Sorts, Range
  <2>2. Range(t) = Range(q)
    BY <1>1, <1>2, <2>1 DEF Sorts, Range
  <2>3. \A i, j \in DOMAIN q : i < j => t[i].start < t[j].start
    BY <1>1, <1>2 DEF Sorts
  <2> QED BY <1>1, <2>1, <2>2, <2>3
<1> DEFINE c == CHOOSE s \in [DOMAIN q -> Range(q)] : C(s)
<1>4. c \in [DOMAIN q -> Range(q)] /\ C(c)
  BY <1>3
<1>5. SortedByStart(q) = c
  BY DEF SortedByStart
<1> HIDE DEF c
<1>6. c \in [1 .. n -> Match] /\ \A k \in 1 .. n : c[k] \in Range(q)
  BY <1>1, <1>4 DEF Range
<1>7. \A k \in 1 .. n : (\E j \in 1 .. n : c[k] = q[j]) /\ (\E j \in 1 .. n : q[k] = c[j])
  BY <1>1, <1>4, <1>6 DEF Range
<1>8. Sorts(c, q, n)
  BY <1>1, <1>4, <1>6, <1>7 DEF Sorts
<1>9. c \in Seq(Match)
  BY <1>1, <1>6
<1> QED BY <1>5, <1>8, <1>9

-----------------------------------------------------------------------------
(* The lines of the findings of one file.                                  *)

(* The newlines before a place. *)
Before(newlines, place) == {b \in newlines : b < place}

(* Counting on from finding to finding gives each its own line. *)
LEMMA LocatedLines ==
  ASSUME NEW path, NEW found \in Seq(Match), NEW newlines \in SUBSET Nat,
         IsFiniteSet(newlines),
         \A i, j \in 1 .. Len(found) : i < j => found[i].start < found[j].start
  PROVE  Located(path, found, newlines) =
           [k \in 1 .. Len(found) |->
              [path |-> path, line |-> 1 + Cardinality(Before(newlines, found[k].start)),
               rule |-> found[k].rule]]
<1> DEFINE n == Len(found)
           From(k) == IF k = 1 THEN 0 ELSE found[k - 1].start
           Between(k) == {b \in newlines : From(k) <= b /\ b < found[k].start}
           F(f) == [k \in 0 .. n |->
                      IF k = 0 THEN 1
                      ELSE LET offset == IF k = 1 THEN 0 ELSE found[k - 1].start
                           IN f[k - 1] + Cardinality({b \in newlines :
                                                       offset <= b /\ b < found[k].start})]
           g == [x \in Nat \X (1 .. n) |-> x[1] + Cardinality(Between(x[2]))]
<1>1. n \in Nat /\ 1 \in Nat
  OBVIOUS
<1>2. \A k \in 1 .. n : Cardinality(Between(k)) \in Nat
  <2> SUFFICES ASSUME NEW k \in 1 .. n PROVE Cardinality(Between(k)) \in Nat
    OBVIOUS
  <2>1. Between(k) \in SUBSET newlines
    OBVIOUS
  <2> HIDE DEF Between
  <2> QED BY <2>1, FS_Subset, FS_CardinalityType
<1>3. g \in [Nat \X (1 .. n) -> Nat]
  <2> HIDE DEF Between
  <2> QED BY <1>2
<1>4. PICK f : Follows(f, Nat, 1, n, g)
  <2> HIDE DEF g, n
  <2> QED BY <1>1, <1>3, Recursion, Zenon
<1>5. \A k \in 1 .. n : f[k] = f[k - 1] + Cardinality(Between(k))
  <2> HIDE DEF Between
  <2> SUFFICES ASSUME NEW k \in 1 .. n PROVE f[k] = f[k - 1] + Cardinality(Between(k))
    OBVIOUS
  <2>1. f[k - 1] \in Nat
    BY <1>1, <1>4 DEF Follows
  <2>2. g[<<f[k - 1], k>>] = f[k - 1] + Cardinality(Between(k))
    BY <2>1
  <2> QED BY <1>4, <2>2 DEF Follows
<1>6. f = F(f)
  <2>1. ASSUME NEW k \in 0 .. n PROVE f[k] = F(f)[k]
    <3>1. CASE k = 0
      BY <1>1, <1>4, <3>1 DEF Follows
    <3>2. CASE k # 0
      <4>1. k \in 1 .. n
        BY <1>1, <3>2
      <4>2. F(f)[k] = f[k - 1] + Cardinality(Between(k))
        BY <3>2
      <4> QED BY <1>5, <4>1, <4>2
    <3> QED BY <3>1, <3>2
  <2>2. DOMAIN f = 0 .. n /\ f = [k \in 0 .. n |-> f[k]]
    BY <1>4 DEF Follows
  <2> QED BY <2>1, <2>2
<1> DEFINE c == CHOOSE h : h = F(h)
<1>7. c = F(c)
  BY <1>6
<1>8. c[0] = 1 /\ \A k \in 1 .. n : c[k] = c[k - 1] + Cardinality(Between(k))
  <2> HIDE DEF c
  <2>1. F(c)[0] = 1
    BY <1>1
  <2>2. ASSUME NEW k \in 1 .. n PROVE F(c)[k] = c[k - 1] + Cardinality(Between(k))
    BY <1>1
  <2> HIDE DEF F, Between
  <2> QED BY <1>7, <2>1, <2>2
<1> HIDE DEF c
<1> DEFINE B(k) == Before(newlines, found[k].start)
           T == {k \in 0 .. n : k = 0 \/ c[k] = 1 + Cardinality(B(k))}
<1>9. 0 \in T
  BY <1>1
<1>10. ASSUME NEW k \in 1 .. n, k - 1 \in T PROVE k \in T
  <2>1. CASE k = 1
    <3>1. Between(1) = B(1)
      <4>1. \A b \in newlines : 0 <= b
        OBVIOUS
      <4> QED BY <4>1 DEF Before
    <3> QED BY <1>1, <1>8, <2>1, <3>1
  <2>2. CASE k # 1
    <3>1. k - 1 \in 1 .. n /\ c[k - 1] = 1 + Cardinality(B(k - 1))
      BY <1>10, <2>2
    <3> DEFINE x == found[k - 1].start
               y == found[k].start
    <3>2. x < y /\ x \in Nat /\ y \in Nat
      <4>1. found[k - 1] \in Match /\ found[k] \in Match
        BY <3>1
      <4>2. k - 1 < k /\ k - 1 \in 1 .. Len(found) /\ k \in 1 .. Len(found)
        BY <3>1
      <4>3. x < y
        BY <4>2
      <4> QED BY <4>1, <4>3 DEF Match
    <3>3. B(k) = B(k - 1) \cup Between(k) /\ B(k - 1) \cap Between(k) = {}
      <4>1. From(k) = x
        BY <2>2
      <4>2. B(k) = {b \in newlines : b < y} /\ B(k - 1) = {b \in newlines : b < x}
            /\ Between(k) = {b \in newlines : x <= b /\ b < y}
        BY <4>1 DEF Before
      <4> HIDE DEF x, y, B, Between
      <4>3. \A b \in newlines : b < y <=> b < x \/ (x <= b /\ b < y)
        BY <3>2
      <4>4. \A b \in newlines : ~ (b < x /\ x <= b)
        BY <3>2
      <4> QED BY <4>2, <4>3, <4>4
    <3>4. B(k - 1) \in SUBSET newlines /\ Between(k) \in SUBSET newlines
      BY DEF Before
    <3> HIDE DEF B, Between
    <3>5. IsFiniteSet(B(k - 1)) /\ IsFiniteSet(Between(k))
      BY <3>4, FS_Subset
    <3>6. Cardinality(B(k)) = Cardinality(B(k - 1)) + Cardinality(Between(k))
      <4>1. Cardinality(B(k)) = Cardinality(B(k - 1)) + Cardinality(Between(k)) - Cardinality({})
        BY <3>3, <3>5, FS_Union
      <4> QED BY <3>5, <4>1, FS_EmptySet, FS_CardinalityType
    <3>7. Cardinality(B(k - 1)) \in Nat /\ Cardinality(Between(k)) \in Nat
      BY <3>5, FS_CardinalityType
    <3> QED BY <1>1, <1>8, <3>1, <3>6, <3>7
  <2> QED BY <2>1, <2>2
<1>11. \A k \in 1 .. n : c[k] = 1 + Cardinality(B(k))
  <2>1. \A k \in 1 .. n : k - 1 \in T => k \in T
    BY <1>10
  <2>2. \A k \in 0 .. n : k \in T
    <3> HIDE DEF T, n
    <3> QED BY <1>1, <1>9, <2>1, UpTo
  <2> QED BY <1>1, <2>2
<1>12. Located(path, found, newlines) =
         [k \in 1 .. n |-> [path |-> path, line |-> c[k], rule |-> found[k].rule]]
  BY DEF Located, c
<1> HIDE DEF B
<1>13. [k \in 1 .. n |-> [path |-> path, line |-> c[k], rule |-> found[k].rule]]
        = [k \in 1 .. n |-> [path |-> path, line |-> 1 + Cardinality(B(k)), rule |-> found[k].rule]]
  BY <1>11
<1> QED BY <1>12, <1>13 DEF B

-----------------------------------------------------------------------------
(* The findings of one file.                                               *)

(* What is found does not overlap, and so starts at different places. *)
LEMMA FoundDistinct ==
  ASSUME NEW matches \in Seq(Match), NEW acc, NEW idx,
         \A i \in DOMAIN matches : matches[i].start < matches[i].end,
         FoundUpTo(acc, idx, matches, Len(matches))
  PROVE  Distinct(acc.found, Len(acc.found))
<1> DEFINE q == acc.found
           n == Len(q)
<1>1. q \in Seq(Match) /\ n \in Nat /\ q \in [1 .. n -> Match]
  BY DEF FoundUpTo
<1>2. ASSUME NEW j \in 1 .. n, NEW k \in 1 .. n, j < k, q[j].start = q[k].start PROVE FALSE
  <2>1. idx[j] \in Counted(matches) /\ idx[k] \in Counted(matches)
    BY DEF FoundUpTo
  <2>2. idx[j] < idx[k] /\ q[j] = matches[idx[j]] /\ q[k] = matches[idx[k]]
    BY <1>2 DEF FoundUpTo
  <2>3. idx[k] \in RuleMatches(matches) /\ idx[j] \in DOMAIN matches /\ idx[k] \in DOMAIN matches
    BY <2>1, CountedCounts DEF RuleMatches
  <2>4. ~ Overlap(matches[idx[k]], matches[idx[j]])
    BY <2>1, <2>2, <2>3, CountedCounts
  <2>5. q[j].start < q[j].end /\ q[k].start < q[k].end
    BY <2>2, <2>3
  <2> QED BY <1>2, <2>2, <2>4, <2>5 DEF Overlap
<1>3. ASSUME NEW j \in 1 .. n, NEW k \in 1 .. n, j # k PROVE q[j].start # q[k].start
  <2>1. j < k \/ k < j
    BY <1>3
  <2> QED BY <1>2, <2>1
<1> QED BY <1>1, <1>3 DEF Distinct

(* The findings L are those of matches of file p that count, none twice,   *)
(* and all of them unless the report is partial.                           *)
StandFor(L, p, partial) ==
  \E idx : /\ idx \in [1 .. Len(L) -> Counted(Contents[p].matches)]
           /\ \A k \in 1 .. Len(L) : L[k] = FindingOf(p, idx[k])
           /\ \A j, k \in 1 .. Len(L) : j # k => idx[j] # idx[k]
           /\ ~ partial =>
                \A i \in Counted(Contents[p].matches) : \E k \in 1 .. Len(L) : idx[k] = i

(* Each finding stands for a match that counts, none for the same as       *)
(* another; each such match has one when nothing is missing.               *)
LEMMA FileFindings ==
  ASSUME NEW p \in DOMAIN Contents, NEW limit \in Int, NEW cut \in Nat
  PROVE  LET d == Detect(Contents[p].matches, limit, cut)
             L == Located(p, d.found, Contents[p].newlines)
         IN d.incomplete \in BOOLEAN /\ L \in Seq(Finding) /\ StandFor(L, p, d.incomplete)
<1> DEFINE c == Contents[p]
           M == c.matches
           K == Counted(M)
           r == Recorded(M, limit, cut)
           q == r.found
           n == Len(q)
           d == Detect(M, limit, cut)
           t == SortedByStart(q)
           L == Located(p, d.found, c.newlines)
<1>1. /\ p \in Paths /\ M \in Seq(Match) /\ c.newlines \in SUBSET Nat /\ IsFiniteSet(c.newlines)
      /\ \A i \in DOMAIN M : M[i].start < M[i].end
  BY TextAssumption DEF Text
<1> HIDE DEF c, M
<1>2. PICK idx : FoundUpTo(r, idx, M, Len(M))
  BY <1>1, RecordedCount
<1>3. /\ r \in [found : Seq(Match), incomplete : BOOLEAN] /\ q \in Seq(Match) /\ n \in Nat
      /\ idx \in [1 .. n -> K]
      /\ \A k \in 1 .. n : q[k] = M[idx[k]]
      /\ \A j, k \in 1 .. n : j < k => idx[j] < idx[k]
      /\ ~ r.incomplete => \A i \in K : \E k \in 1 .. n : idx[k] = i
  <2>1. \A i \in K : i <= Len(M)
    BY <1>1, CountedCounts DEF RuleMatches
  <2> QED BY <1>2, <2>1 DEF FoundUpTo
<1>4. Distinct(q, n)
  BY <1>1, <1>2, FoundDistinct
<1>5. Sorts(t, q, n) /\ t \in Seq(Match)
  BY <1>3, <1>4, SortedSorts
<1>6. d.found = t /\ d.incomplete = r.incomplete /\ d.incomplete \in BOOLEAN
  BY <1>3 DEF Detect
<1>7. Len(t) = n /\ DOMAIN t = 1 .. n
  BY <1>3, <1>5 DEF Sorts
<1>8. L = [k \in 1 .. n |->
             [path |-> p, line |-> 1 + Cardinality(Before(c.newlines, t[k].start)),
              rule |-> t[k].rule]]
  <2>1. \A i, j \in 1 .. Len(t) : i < j => t[i].start < t[j].start
    BY <1>5, <1>7 DEF Sorts
  <2> HIDE DEF d, t
  <2> QED BY <1>1, <1>5, <1>6, <1>7, <2>1, LocatedLines, SMTT(30)
<1> HIDE DEF d, t, r
<1> DEFINE at == [k \in 1 .. n |-> CHOOSE j \in 1 .. n : t[k] = q[j]]
           jdx == [k \in 1 .. n |-> idx[at[k]]]
<1>9. \A k \in 1 .. n : at[k] \in 1 .. n /\ t[k] = q[at[k]]
  BY <1>5 DEF Sorts
<1> HIDE DEF at
<1>10. jdx \in [1 .. n -> K] /\ \A k \in 1 .. n : jdx[k] = idx[at[k]] /\ t[k] = M[jdx[k]]
  BY <1>3, <1>9
<1>11. \A i \in K : i \in DOMAIN M /\ M[i].rule \in ExposureRule
  <2> SUFFICES ASSUME NEW i \in K PROVE i \in DOMAIN M /\ M[i].rule \in ExposureRule
    OBVIOUS
  <2>1. i \in DOMAIN M /\ M[i].rule # "none"
    BY <1>1, CountedCounts DEF RuleMatches
  <2>2. M[i] \in Match
    BY <1>1, <2>1
  <2> QED BY <2>1, <2>2 DEF Match
<1>12. \A k \in 1 .. n : L[k] = FindingOf(p, jdx[k])
  <2> HIDE DEF jdx, L
  <2> SUFFICES ASSUME NEW k \in 1 .. n PROVE L[k] = FindingOf(p, jdx[k])
    OBVIOUS
  <2>1. L[k] = [path |-> p, line |-> 1 + Cardinality(Before(c.newlines, t[k].start)),
                rule |-> t[k].rule]
    BY <1>8
  <2> QED BY <1>10, <2>1 DEF FindingOf, Before, c, M
<1>13. \A j, k \in 1 .. n : j # k => jdx[j] # jdx[k]
  <2> HIDE DEF jdx, L
  <2> SUFFICES ASSUME NEW j \in 1 .. n, NEW k \in 1 .. n, j # k, jdx[j] = jdx[k] PROVE FALSE
    OBVIOUS
  <2>1. t[j] = t[k]
    BY <1>10
  <2>2. j < k \/ k < j
    OBVIOUS
  <2>3. t[j].start < t[k].start \/ t[k].start < t[j].start
    BY <1>5, <2>2 DEF Sorts
  <2>4. t[j].start \in Nat
    BY <1>5 DEF Sorts, Match
  <2> QED BY <2>1, <2>3, <2>4
<1>14. ~ d.incomplete => \A i \in K : \E k \in 1 .. n : jdx[k] = i
  <2> HIDE DEF L
  <2> SUFFICES ASSUME ~ d.incomplete, NEW i \in K PROVE \E k \in 1 .. n : jdx[k] = i
    OBVIOUS
  <2>1. PICK j \in 1 .. n : idx[j] = i
    BY <1>3, <1>6
  <2>2. PICK k \in 1 .. n : q[j] = t[k]
    BY <1>5 DEF Sorts
  <2>3. q[at[k]] = q[j] /\ at[k] \in 1 .. n
    BY <1>9, <2>2
  <2>4. at[k] = j
    BY <1>4, <2>3 DEF Distinct
  <2> QED BY <1>10, <2>1, <2>4
<1>15. L \in Seq(Finding) /\ Len(L) = n
  <2>1. ASSUME NEW k \in 1 .. n PROVE L[k] \in Finding
    <3> HIDE DEF jdx, L
    <3> DEFINE b == Before(c.newlines, t[k].start)
    <3>1. b \in SUBSET c.newlines
      BY DEF Before
    <3>2. Cardinality(b) \in Nat
      <4> HIDE DEF b
      <4> QED BY <1>1, <3>1, FS_Subset, FS_CardinalityType
    <3>3. t[k].rule \in ExposureRule
      BY <1>10, <1>11
    <3>4. L[k] = [path |-> p, line |-> 1 + Cardinality(b), rule |-> t[k].rule]
      BY <1>8
    <3> HIDE DEF b
    <3> QED BY <1>1, <3>2, <3>3, <3>4 DEF Finding
  <2>2. DOMAIN L = 1 .. n /\ L = [k \in 1 .. n |-> L[k]]
    BY <1>8
  <2> HIDE DEF L
  <2> QED BY <1>3, <2>1, <2>2
<1> HIDE DEF jdx, L
<1>16. /\ d.incomplete \in BOOLEAN /\ L \in Seq(Finding)
       /\ \E i : /\ i \in [1 .. Len(L) -> Counted(M)]
                 /\ \A k \in 1 .. Len(L) : L[k] = FindingOf(p, i[k])
                 /\ \A j, k \in 1 .. Len(L) : j # k => i[j] # i[k]
                 /\ ~ d.incomplete => \A x \in Counted(M) : \E k \in 1 .. Len(L) : i[k] = x
  BY <1>6, <1>10, <1>12, <1>13, <1>14, <1>15
<1>17. StandFor(L, p, d.incomplete)
  BY <1>16 DEF StandFor, M, c
<1> QED BY <1>16, <1>17 DEF L, d, M, c

(* A finding is said at most as often as there are matches for it, and     *)
(* exactly as often when every match that counts has a finding.            *)
LEMMA TimesOfFile ==
  ASSUME NEW p \in DOMAIN Contents, NEW L \in Seq(Finding), NEW idx, NEW f, f.path = p,
         idx \in [1 .. Len(L) -> Counted(Contents[p].matches)],
         \A k \in 1 .. Len(L) : L[k] = FindingOf(p, idx[k]),
         \A j, k \in 1 .. Len(L) : j # k => idx[j] # idx[k]
  PROVE  /\ Times(f, L) <= Occurring(f)
         /\ (\A i \in Counted(Contents[p].matches) : \E k \in 1 .. Len(L) : idx[k] = i)
              => Times(f, L) = Occurring(f)
<1> DEFINE K == Counted(Contents[p].matches)
           S == {k \in DOMAIN L : L[k] = f}
           T == {i \in K : FindingOf(p, i) = f}
           h == [k \in S |-> idx[k]]
<1>1. DOMAIN L = 1 .. Len(L) /\ Len(L) \in Nat
  OBVIOUS
<1>2. Contents[p].matches \in Seq(Match)
  BY TextAssumption DEF Text
<1>3. K \subseteq 1 .. Len(Contents[p].matches) /\ Len(Contents[p].matches) \in Nat
  BY <1>2, CountedCounts DEF RuleMatches
<1>4. IsFiniteSet(T)
  <2>1. IsFiniteSet(1 .. Len(Contents[p].matches))
    BY <1>3, FS_Interval
  <2>2. T \in SUBSET (1 .. Len(Contents[p].matches))
    BY <1>3
  <2> HIDE DEF T
  <2> QED BY <2>1, <2>2, FS_Subset
<1>5. h \in [S -> T]
  BY <1>1
<1>6. h \in Injection(S, T)
  BY <1>1, <1>5 DEF Injection, IsInjective
<1>7. Times(f, L) = Cardinality(S) /\ Occurring(f) = Cardinality(T)
  BY DEF Times, Occurring
<1>8. ASSUME \A i \in K : \E k \in 1 .. Len(L) : idx[k] = i PROVE h \in Surjection(S, T)
  <2>1. ASSUME NEW i \in T PROVE \E k \in S : h[k] = i
    <3>1. PICK k \in 1 .. Len(L) : idx[k] = i
      BY <1>8
    <3>2. L[k] = f
      BY <3>1
    <3>3. k \in S
      BY <1>1, <3>2
    <3> QED BY <3>1, <3>3
  <2> QED BY <1>5, <2>1 DEF Surjection
<1>9. Cardinality(S) <= Cardinality(T) /\ (h \in Surjection(S, T) => Cardinality(S) = Cardinality(T))
  <2> HIDE DEF h, S, T
  <2> QED BY <1>4, <1>6, FS_Injection
<1> HIDE DEF h, S, T
<1> QED BY <1>7, <1>8, <1>9

(* All the findings L are about file p, or none is. *)
OnlyOf(L, p) == \A k \in 1 .. Len(L) : L[k].path = p
NoneOf(L, p) == \A k \in 1 .. Len(L) : L[k].path # p

(* The findings of a new file leave those of the others as they are. *)
LEMMA TimesGrow ==
  ASSUME NEW p, NEW old \in Seq(Finding), NEW L \in Seq(Finding), NEW f,
         NoneOf(old, p), OnlyOf(L, p)
  PROVE  /\ f.path = p => Times(f, old \o L) = Times(f, L)
         /\ f.path # p => Times(f, old \o L) = Times(f, old)
<1> DEFINE n == Len(old)
           m == Len(L)
           new == old \o L
<1>1. /\ n \in Nat /\ m \in Nat /\ DOMAIN new = 1 .. n + m /\ DOMAIN old = 1 .. n
      /\ DOMAIN L = 1 .. m
  OBVIOUS
<1>2. \A k \in 1 .. n : new[k] = old[k]
  OBVIOUS
<1>3. \A k \in 1 .. m : new[n + k] = L[k]
  OBVIOUS
<1>4. \A k \in n + 1 .. n + m : k - n \in 1 .. m /\ new[k] = L[k - n]
  BY <1>1, <1>3
<1> HIDE DEF n, m, new
<1>5. CASE f.path # p
  <2>1. \A k \in 1 .. n + m : new[k] = f => k \in 1 .. n
    <3> SUFFICES ASSUME NEW k \in 1 .. n + m, new[k] = f, k \notin 1 .. n PROVE FALSE
      OBVIOUS
    <3>1. k \in n + 1 .. n + m
      BY <1>1
    <3> QED BY <1>4, <1>5, <3>1 DEF m, OnlyOf
  <2>2. \A k \in 1 .. n : k \in 1 .. n + m
    BY <1>1
  <2>3. {k \in DOMAIN new : new[k] = f} = {k \in DOMAIN old : old[k] = f}
    BY <1>1, <1>2, <2>1, <2>2
  <2> QED BY <1>5, <2>3 DEF Times, new
<1>6. CASE f.path = p
  <2> DEFINE S == {k \in DOMAIN L : L[k] = f}
             T == {k \in DOMAIN new : new[k] = f}
             h == [k \in S |-> n + k]
  <2>1. \A k \in T : k \in n + 1 .. n + m
    <3> SUFFICES ASSUME NEW k \in T, k \notin n + 1 .. n + m PROVE FALSE
      OBVIOUS
    <3>1. k \in 1 .. n
      BY <1>1
    <3>2. new[k] = old[k] /\ new[k] = f
      BY <1>2, <3>1
    <3> QED BY <1>6, <3>1, <3>2 DEF n, NoneOf
  <2>2. h \in [S -> T]
    BY <1>1, <1>3
  <2>3. \A k \in T : k - n \in S /\ h[k - n] = k
    BY <1>1, <1>4, <2>1
  <2>4. h \in Bijection(S, T)
    <3>1. \A i, j \in S : h[i] = h[j] => i = j
      BY <1>1
    <3>2. h \in Injection(S, T)
      BY <2>2, <3>1 DEF Injection, IsInjective
    <3>3. h \in Surjection(S, T)
      BY <2>2, <2>3 DEF Surjection
    <3> QED BY <3>2, <3>3 DEF Bijection
  <2>5. IsFiniteSet(S)
    <3>1. S \in SUBSET (1 .. m) /\ IsFiniteSet(1 .. m)
      BY <1>1, FS_Interval
    <3> HIDE DEF S
    <3> QED BY <3>1, FS_Subset
  <2> HIDE DEF S, T, h
  <2>6. Cardinality(T) = Cardinality(S)
    BY <2>4, <2>5, FS_Bijection DEF ExistsBijection
  <2> QED BY <1>6, <2>6 DEF Times, S, T, new
<1> QED BY <1>5, <1>6

-----------------------------------------------------------------------------
(* The directories the roots lead to.                                      *)

(* The directories below those of X the walk goes on to. *)
Below(X) ==
  {e \in UNION {Entries[d] : d \in X \cap DOMAIN Entries} : IsDir(e) /\ e \notin Ignored}

(* Reachable is the least set with the roots that has, with a directory,   *)
(* those below it: the paths are finite, so as many steps as there are     *)
(* paths reach everything.                                                 *)
LEMMA ReachableLeast ==
  ASSUME disk \in Disks
  PROVE  /\ Reachable \subseteq Paths /\ Range(Roots) \subseteq Reachable
         /\ Below(Reachable) \subseteq Reachable
         /\ \A X : Range(Roots) \subseteq X /\ Below(X) \subseteq X => Reachable \subseteq X
<1> DEFINE n == Cardinality(Paths)
           B == Range(Roots)
           S == SUBSET Paths
           F(f) == [k \in 0 .. n |->
                      IF k = 0 THEN B
                      ELSE f[k - 1] \cup
                           {e \in UNION {Entries[d] : d \in f[k - 1] \cap DOMAIN Entries} :
                              IsDir(e) /\ e \notin Ignored}]
           g == [x \in S \X (1 .. n) |-> x[1] \cup Below(x[1])]
<1>1. n \in Nat /\ IsFiniteSet(Paths)
  BY DiskAssumption, FS_CardinalityType
<1>2. B \in S /\ B # {}
  BY RootsType DEF Range
<1>3. \A X \in S : Below(X) \in S
  BY DiskAssumption DEF Below
<1>4. g \in [S \X (1 .. n) -> S]
  BY <1>3
<1>5. PICK f : Follows(f, S, B, n, g)
  <2> HIDE DEF S, B, n, g
  <2> QED BY <1>1, <1>2, <1>4, Recursion, Zenon
<1>6. f \in [0 .. n -> S] /\ f[0] = B /\ \A k \in 1 .. n : f[k] = f[k - 1] \cup Below(f[k - 1])
  <2>1. f \in [0 .. n -> S] /\ f[0] = B
    BY <1>5 DEF Follows
  <2>2. ASSUME NEW k \in 1 .. n PROVE f[k] = f[k - 1] \cup Below(f[k - 1])
    <3>1. f[k - 1] \in S
      BY <1>1, <2>1
    <3>2. g[<<f[k - 1], k>>] = f[k - 1] \cup Below(f[k - 1])
      BY <3>1
    <3> QED BY <1>5, <3>2 DEF Follows
  <2> QED BY <2>1, <2>2
<1>7. f = F(f)
  <2>1. ASSUME NEW k \in 0 .. n PROVE f[k] = F(f)[k]
    <3>1. CASE k = 0
      BY <1>1, <1>6, <3>1
    <3>2. CASE k # 0
      <4>1. k \in 1 .. n
        BY <1>1, <3>2
      <4>2. F(f)[k] = f[k - 1] \cup Below(f[k - 1])
        BY <3>2 DEF Below
      <4> QED BY <1>6, <4>1, <4>2
    <3> QED BY <3>1, <3>2
  <2>2. f = [k \in 0 .. n |-> f[k]]
    BY <1>6
  <2> HIDE DEF B, n
  <2> QED BY <2>1, <2>2
<1> DEFINE c == CHOOSE h : h = F(h)
<1>8. c = F(c)
  BY <1>7
<1>9. c[0] = B /\ \A k \in 1 .. n : c[k] = c[k - 1] \cup Below(c[k - 1])
  <2> HIDE DEF c
  <2>1. F(c)[0] = B
    BY <1>1
  <2>2. ASSUME NEW k \in 1 .. n PROVE F(c)[k] = c[k - 1] \cup Below(c[k - 1])
    BY <1>1 DEF Below
  <2> HIDE DEF F
  <2> QED BY <1>8, <2>1, <2>2
<1>10. Reachable = c[n]
  BY DEF Reachable, c
<1> HIDE DEF c, n, B
<1>11. \A k \in 0 .. n : c[k] \in S /\ B \subseteq c[k]
  <2> DEFINE T == {k \in 0 .. n : c[k] \in S /\ B \subseteq c[k]}
  <2>1. 0 \in T
    BY <1>1, <1>2, <1>9
  <2>2. ASSUME NEW k \in 1 .. n, k - 1 \in T PROVE k \in T
    <3>1. c[k - 1] \in S /\ B \subseteq c[k - 1]
      BY <2>2
    <3>2. Below(c[k - 1]) \in S
      BY <1>3, <3>1
    <3> QED BY <1>1, <1>9, <3>1, <3>2
  <2>3. \A k \in 1 .. n : k - 1 \in T => k \in T
    BY <2>2
  <2>4. \A k \in 0 .. n : k \in T
    <3> HIDE DEF T
    <3> QED BY <1>1, <2>1, <2>3, UpTo
  <2> QED BY <2>4
<1>12. ASSUME NEW X, B \subseteq X, Below(X) \subseteq X PROVE c[n] \subseteq X
  <2> DEFINE T == {k \in 0 .. n : c[k] \subseteq X}
  <2>1. 0 \in T
    BY <1>1, <1>9, <1>12
  <2>2. ASSUME NEW k \in 1 .. n, k - 1 \in T PROVE k \in T
    <3>1. c[k - 1] \subseteq X
      BY <2>2
    <3>2. Below(c[k - 1]) \subseteq Below(X)
      BY <3>1 DEF Below
    <3> QED BY <1>1, <1>9, <1>12, <3>1, <3>2
  <2>3. \A k \in 1 .. n : k - 1 \in T => k \in T
    BY <2>2
  <2>4. \A k \in 0 .. n : k \in T
    <3> HIDE DEF T
    <3> QED BY <1>1, <2>1, <2>3, UpTo
  <2> QED BY <1>1, <2>4
<1>13. Below(c[n]) \subseteq c[n]
  <2> DEFINE Done(k) == Below(c[k]) \subseteq c[k]
             T == {k \in 0 .. n : Done(k) \/ Cardinality(c[k]) >= k + 1}
  <2>1. \A k \in 0 .. n : IsFiniteSet(c[k]) /\ Cardinality(c[k]) \in Nat /\ Cardinality(c[k]) <= n
    BY <1>1, <1>11, FS_Subset, FS_CardinalityType DEF n
  <2>2. 0 \in T
    <3>1. IsFiniteSet(B) /\ Cardinality(B) # 0 /\ Cardinality(B) \in Nat
      BY <1>1, <1>2, FS_Subset, FS_EmptySet, FS_CardinalityType
    <3> QED BY <1>1, <1>9, <3>1
  <2>3. ASSUME NEW k \in 1 .. n, k - 1 \in T PROVE k \in T
    <3>0. k - 1 \in 0 .. n /\ k \in 0 .. n /\ k \in Nat
      BY <1>1
    <3>1. c[k] = c[k - 1] \cup Below(c[k - 1])
      BY <1>9
    <3>2. CASE Done(k - 1)
      <4>1. c[k] = c[k - 1]
        BY <3>1, <3>2
      <4> QED BY <3>0, <3>2, <4>1
    <3>3. CASE ~ Done(k - 1)
      <4>1. c[k - 1] \in SUBSET c[k] /\ c[k - 1] # c[k]
        BY <3>1, <3>3
      <4>2. Cardinality(c[k - 1]) <= Cardinality(c[k]) /\ Cardinality(c[k - 1]) # Cardinality(c[k])
        BY <2>1, <3>0, <4>1, FS_Subset
      <4>3. Cardinality(c[k - 1]) >= k
        BY <2>3, <3>0, <3>3
      <4>4. Cardinality(c[k - 1]) \in Nat /\ Cardinality(c[k]) \in Nat
        BY <2>1, <3>0
      <4>5. Cardinality(c[k]) >= k + 1
        BY <3>0, <4>2, <4>3, <4>4
      <4> QED BY <3>0, <4>5
    <3> QED BY <3>2, <3>3
  <2>4. \A k \in 1 .. n : k - 1 \in T => k \in T
    BY <2>3
  <2>5. \A k \in 0 .. n : k \in T
    <3> HIDE DEF T
    <3> QED BY <1>1, <2>2, <2>4, UpTo
  <2>6. n \in 0 .. n
    BY <1>1
  <2>7. Done(n) \/ Cardinality(c[n]) >= n + 1
    BY <2>5, <2>6
  <2>8. ~ (Cardinality(c[n]) >= n + 1)
    BY <1>1, <2>1, <2>6
  <2> QED BY <2>7, <2>8
<1>14. n \in 0 .. n
  BY <1>1
<1> QED BY <1>10, <1>11, <1>12, <1>13, <1>14 DEF B

-----------------------------------------------------------------------------
(* What one step makes of a scanner.                                       *)

(* The fields of a scanner. *)
LEMMA ScannerFields ==
  ASSUME NEW s \in Scanner
  PROVE  /\ s.at \in {"begin", "priority", "walk", "sent", "failed", "died"}
         /\ s.root \in 1 .. Len(Roots) + 1 /\ s.next \in Nat \ {0}
         /\ s.stack \in Seq([dir : DOMAIN Entries, left : SUBSET Paths])
         /\ s.late \in BOOLEAN /\ s.incomplete \in BOOLEAN
         /\ s.seenFiles \in SUBSET Paths /\ s.seenDirs \in SUBSET Paths
         /\ s.entries \in Nat /\ s.bytes \in Nat /\ s.files \in Nat /\ s.skipped \in Nat
         /\ s.findings \in Seq(Finding) /\ Len(s.findings) \in Nat
BY DEF Scanner

(* A scanner stays one when a field gets a value of its type. *)
LEMMA ScannerUpdate ==
  ASSUME NEW s \in Scanner
  PROVE  /\ \A v \in {"begin", "priority", "walk", "sent", "failed", "died"} :
              [s EXCEPT !.at = v] \in Scanner
         /\ \A v \in 1 .. Len(Roots) + 1 : [s EXCEPT !.root = v] \in Scanner
         /\ \A v \in Nat \ {0} : [s EXCEPT !.next = v] \in Scanner
         /\ \A v \in Seq([dir : DOMAIN Entries, left : SUBSET Paths]) :
              [s EXCEPT !.stack = v] \in Scanner
         /\ \A v \in SUBSET Paths :
              [s EXCEPT !.seenFiles = v] \in Scanner /\ [s EXCEPT !.seenDirs = v] \in Scanner
         /\ \A v \in BOOLEAN :
              [s EXCEPT !.late = v] \in Scanner /\ [s EXCEPT !.incomplete = v] \in Scanner
         /\ \A v \in Nat :
              /\ [s EXCEPT !.entries = v] \in Scanner /\ [s EXCEPT !.bytes = v] \in Scanner
              /\ [s EXCEPT !.files = v] \in Scanner /\ [s EXCEPT !.skipped = v] \in Scanner
         /\ \A v \in Seq(Finding) : [s EXCEPT !.findings = v] \in Scanner
BY DEF Scanner

(* Reading a file leaves the scanner where it is. *)
SamePlace(s, t) ==
  /\ t.at = s.at /\ t.root = s.root /\ t.next = s.next /\ t.stack = s.stack
  /\ t.seenDirs = s.seenDirs /\ t.entries = s.entries

(* What stops a scan, or makes its report partial, is never taken back. *)
Onward(s, t) ==
  /\ s.incomplete => t.incomplete
  /\ s.late => t.late
  /\ t.files >= s.files /\ Len(t.findings) >= Len(s.findings)

(* Two such steps make one. *)
LEMMA Transitive ==
  ASSUME NEW a \in Scanner, NEW b \in Scanner, NEW c \in Scanner
  PROVE  /\ SamePlace(a, b) /\ SamePlace(b, c) => SamePlace(a, c)
         /\ Onward(a, b) /\ Onward(b, c) => Onward(a, c)
<1>1. SamePlace(a, b) /\ SamePlace(b, c) => SamePlace(a, c)
  BY DEF SamePlace
<1>2. /\ a.files \in Nat /\ b.files \in Nat /\ c.files \in Nat
      /\ Len(a.findings) \in Nat /\ Len(b.findings) \in Nat /\ Len(c.findings) \in Nat
  BY ScannerFields
<1>3. Onward(a, b) /\ Onward(b, c) => Onward(a, c)
  BY <1>2 DEF Onward
<1> QED BY <1>1, <1>3

(* The findings of file p are added, at most one for each match that       *)
(* counts; exactly one, unless something is missing.                       *)
Reported(s, t, p) ==
  \E L \in Seq(Finding) : t.findings = s.findings \o L /\ StandFor(L, p, t.incomplete)

(* Examined: the text of a file is counted, and its findings are added. *)
LEMMA ExaminedEffect ==
  ASSUME NEW s \in Scanner, NEW p \in DOMAIN Contents, NEW t \in Examined(s, p)
  PROVE  /\ t \in Scanner /\ SamePlace(s, t) /\ Onward(s, t)
         /\ t.seenFiles = s.seenFiles /\ t.files = s.files + 1 /\ t.skipped = s.skipped
         /\ Reported(s, t, p)
<1> DEFINE c == Contents[p]
           D(cut) == Detect(c.matches, MaxFindings - Len(s.findings), cut)
           Res(cut) == [s EXCEPT !.files = @ + 1, !.bytes = @ + c.bytes,
                                 !.late = @ \/ cut < Len(c.matches),
                                 !.incomplete = @ \/ D(cut).incomplete,
                                 !.findings = @ \o Located(p, D(cut).found, c.newlines)]
<1>1. c \in Text
  BY TextAssumption
<1>2. PICK cut \in 0 .. Len(c.matches) : t = Res(cut)
  BY DEF Examined
<1>3. Len(c.matches) \in Nat /\ c.bytes \in Nat /\ cut \in Nat
  BY <1>1 DEF Text
<1>4. MaxFindings - Len(s.findings) \in Int
  BY LimitAssumption DEF Scanner
<1> DEFINE d == D(cut)
           L == Located(p, d.found, c.newlines)
<1>5. d.incomplete \in BOOLEAN /\ L \in Seq(Finding) /\ StandFor(L, p, d.incomplete)
  BY <1>3, <1>4, FileFindings
<1>6. t = [s EXCEPT !.files = @ + 1, !.bytes = @ + c.bytes,
                    !.late = @ \/ cut < Len(c.matches),
                    !.incomplete = @ \/ d.incomplete, !.findings = @ \o L]
  BY <1>2
<1> HIDE DEF d, L, Res, D
<1>7. (s.findings \o L) \in Seq(Finding) /\ Len(s.findings \o L) >= Len(s.findings)
  BY <1>5 DEF Scanner
<1>8. /\ t.files = s.files + 1 /\ t.findings = s.findings \o L
      /\ t.late = (s.late \/ cut < Len(c.matches)) /\ t.incomplete = (s.incomplete \/ d.incomplete)
      /\ t.bytes = s.bytes + c.bytes
      /\ t.seenFiles = s.seenFiles /\ t.skipped = s.skipped /\ SamePlace(s, t)
  BY <1>6 DEF Scanner, SamePlace
<1>9. t \in Scanner
  <2>1. s.files + 1 \in Nat /\ s.bytes + c.bytes \in Nat
    BY <1>3, SMTT(30) DEF Scanner
  <2>2. (s.late \/ cut < Len(c.matches)) \in BOOLEAN /\ (s.incomplete \/ d.incomplete) \in BOOLEAN
    OBVIOUS
  <2> QED BY <1>6, <1>7, <2>1, <2>2, ScannerUpdate, Zenon
<1>10. Onward(s, t)
  BY <1>7, <1>8 DEF Onward, Scanner
<1>11. Reported(s, t, p)
  <2>1. ~ t.incomplete => ~ d.incomplete
    BY <1>8
  <2>2. StandFor(L, p, t.incomplete)
    BY <1>5, <2>1 DEF StandFor
  <2> QED BY <1>5, <1>8, <2>2 DEF Reported
<1> QED BY <1>8, <1>9, <1>10, <1>11

(* scan_file: the file is seen from now on.  If the report may still be    *)
(* complete, a text file was read and counted, and another was skipped.    *)
LEMMA ScanFileEffect ==
  ASSUME disk \in Disks, NEW s \in Scanner, NEW p \in Paths, IsFile(p), NEW t \in ScanFile(s, p)
  PROVE  /\ t \in Scanner /\ SamePlace(s, t) /\ Onward(s, t)
         /\ t.seenFiles = s.seenFiles \cup {p}
         /\ p \in s.seenFiles => t = s
         /\ p \notin s.seenFiles =>
              \/ disk[p] = "file" /\ t.files = s.files + 1 /\ t.skipped = s.skipped
                 /\ Reported(s, t, p)
              \/ t.findings = s.findings
                 /\ \/ t.incomplete
                    \/ disk[p] = "binary" /\ t.files = s.files /\ t.skipped = s.skipped + 1
<1> DEFINE seen == [s EXCEPT !.seenFiles = @ \cup {p}]
           skip == [seen EXCEPT !.skipped = @ + 1]
           fail == [skip EXCEPT !.incomplete = TRUE]
           size == Contents[p].bytes
           bin == [skip EXCEPT !.bytes = @ + size]
<1>1. p \in DOMAIN Contents /\ size \in Nat
  BY TextAssumption DEF IsFile, Text
<1>2. /\ seen \in Scanner /\ SamePlace(s, seen) /\ Onward(s, seen)
      /\ seen.seenFiles = s.seenFiles \cup {p} /\ seen.files = s.files /\ seen.skipped = s.skipped
      /\ seen.findings = s.findings /\ seen.incomplete = s.incomplete
  BY SMTT(30) DEF Scanner, SamePlace, Onward
<1> HIDE DEF seen
<1>3. /\ skip \in Scanner /\ SamePlace(seen, skip) /\ Onward(seen, skip)
      /\ skip.seenFiles = seen.seenFiles /\ skip.files = seen.files
      /\ skip.skipped = seen.skipped + 1 /\ skip.findings = seen.findings
  <2>1. s.skipped + 1 \in Nat /\ seen.skipped + 1 \in Nat
    BY <1>2 DEF Scanner
  <2>2. skip \in Scanner
    BY <1>2, <2>1, ScannerUpdate
  <2>3. /\ SamePlace(seen, skip) /\ skip.late = seen.late /\ skip.incomplete = seen.incomplete
        /\ skip.seenFiles = seen.seenFiles /\ skip.files = seen.files
        /\ skip.skipped = seen.skipped + 1 /\ skip.findings = seen.findings
    BY <1>2 DEF Scanner, SamePlace
  <2>4. seen.files \in Nat /\ Len(seen.findings) \in Nat
    BY <1>2 DEF Scanner
  <2>5. Onward(seen, skip)
    BY <2>3, <2>4 DEF Onward
  <2> QED BY <2>2, <2>3, <2>5
<1> HIDE DEF skip
<1>4. /\ fail \in Scanner /\ SamePlace(skip, fail) /\ Onward(skip, fail)
      /\ fail.seenFiles = skip.seenFiles /\ fail.findings = skip.findings /\ fail.incomplete
  BY <1>3 DEF Scanner, SamePlace, Onward
<1>5. /\ bin \in Scanner /\ SamePlace(skip, bin) /\ Onward(skip, bin)
      /\ bin.seenFiles = skip.seenFiles /\ bin.findings = skip.findings
      /\ bin.files = skip.files /\ bin.skipped = skip.skipped
  <2>1. skip.bytes + size \in Nat
    BY <1>1, <1>3, ScannerFields
  <2>2. bin \in Scanner
    BY <1>3, <2>1, ScannerUpdate
  <2>3. /\ SamePlace(skip, bin) /\ bin.late = skip.late /\ bin.incomplete = skip.incomplete
        /\ bin.seenFiles = skip.seenFiles /\ bin.files = skip.files
        /\ bin.skipped = skip.skipped /\ bin.findings = skip.findings
    BY <1>3 DEF Scanner, SamePlace
  <2>4. skip.files \in Nat /\ Len(skip.findings) \in Nat
    BY <1>3, SMTT(30) DEF Scanner
  <2>5. Onward(skip, bin)
    BY <2>3, <2>4 DEF Onward
  <2> QED BY <2>2, <2>3, <2>5
<1> HIDE DEF fail, bin
<1>6. CASE p \in s.seenFiles
  <2>1. t = s
    BY <1>6 DEF ScanFile
  <2> QED BY <1>6, <2>1 DEF SamePlace, Onward, Scanner
<1>7. CASE p \notin s.seenFiles
  <2>1. \/ t = fail
        \/ disk[p] = "binary" /\ t = bin
        \/ disk[p] # "binary" /\ t \in Examined(seen, p)
    <3>1. \/ ScanFile(s, p) = {fail}
          \/ disk[p] = "binary" /\ ScanFile(s, p) = {fail} \cup {bin}
          \/ disk[p] # "binary" /\ ScanFile(s, p) = {fail} \cup Examined(seen, p)
      <4> DEFINE full == \/ s.files >= MaxFiles
                         \/ size > MaxFileBytes
                         \/ s.bytes + size > MaxTotalBytes
      <4>1. ScanFile(s, p) = IF p \in s.seenFiles THEN {s}
                             ELSE IF full THEN {fail}
                             ELSE {fail} \cup IF disk[p] = "binary" THEN {bin}
                                              ELSE Examined(seen, p)
        BY DEF ScanFile, fail, bin, skip, seen
      <4> HIDE DEF full, size
      <4>2. CASE full
        BY <1>7, <4>1, <4>2
      <4>3. CASE ~ full
        BY <1>7, <4>1, <4>3
      <4> QED BY <4>2, <4>3
    <3> QED BY <3>1
  <2>2. /\ \A a, b, d \in Scanner : SamePlace(a, b) /\ SamePlace(b, d) => SamePlace(a, d)
        /\ \A a, b, d \in Scanner : Onward(a, b) /\ Onward(b, d) => Onward(a, d)
    BY Transitive
  <2>3. CASE t = fail
    BY <1>2, <1>3, <1>4, <1>7, <2>2, <2>3
  <2>4. CASE disk[p] = "binary" /\ t = bin
    BY <1>2, <1>3, <1>5, <1>7, <2>2, <2>4
  <2>5. CASE disk[p] # "binary" /\ t \in Examined(seen, p)
    <3>1. /\ t \in Scanner /\ SamePlace(seen, t) /\ Onward(seen, t)
          /\ t.seenFiles = seen.seenFiles /\ t.files = seen.files + 1 /\ t.skipped = seen.skipped
          /\ Reported(seen, t, p)
      BY <1>1, <1>2, <2>5, ExaminedEffect
    <3>2. Reported(s, t, p)
      BY <1>2, <3>1 DEF Reported
    <3>3. disk[p] = "file"
      BY <2>5 DEF IsFile, FileKinds
    <3> QED BY <1>2, <1>7, <2>2, <3>1, <3>2, <3>3
  <2> QED BY <2>1, <2>3, <2>4, <2>5
<1> QED BY <1>6, <1>7

-----------------------------------------------------------------------------
(* The findings of a scan.                                                 *)

(* On disk k: the findings are about text files that were read, and say    *)
(* nothing more often than it occurs; and as often, as long as the report  *)
(* may be complete.                                                        *)
FindingsInv(k, s) ==
  /\ \A n \in DOMAIN s.findings :
       s.findings[n].path \in s.seenFiles /\ k[s.findings[n].path] = "file"
  /\ \A f \in Range(s.findings) : Times(f, s.findings) <= Occurring(f)
  /\ ~ s.incomplete =>
       \A p \in s.seenFiles : k[p] = "file" =>
         \A m \in Counted(Contents[p].matches) :
           Times(FindingOf(p, m), s.findings) = Occurring(FindingOf(p, m))

(* A step that reads no file keeps this. *)
LEMMA FindingsSame ==
  ASSUME NEW k, NEW s, NEW t, FindingsInv(k, s), t.findings = s.findings,
         t.seenFiles = s.seenFiles, s.incomplete => t.incomplete
  PROVE  FindingsInv(k, t)
BY DEF FindingsInv

(* So does scan_file. *)
LEMMA FindingsScanFile ==
  ASSUME disk \in Disks, NEW s \in Scanner, NEW p \in Paths, IsFile(p), NEW t \in ScanFile(s, p),
         FindingsInv(disk, s)
  PROVE  FindingsInv(disk, t)
<1>1. /\ t \in Scanner /\ SamePlace(s, t) /\ Onward(s, t)
      /\ t.seenFiles = s.seenFiles \cup {p}
      /\ p \in s.seenFiles => t = s
      /\ p \notin s.seenFiles =>
           \/ disk[p] = "file" /\ t.files = s.files + 1 /\ t.skipped = s.skipped
              /\ Reported(s, t, p)
           \/ t.findings = s.findings
              /\ \/ t.incomplete
                 \/ disk[p] = "binary" /\ t.files = s.files /\ t.skipped = s.skipped + 1
  BY ScanFileEffect
<1>2. CASE p \in s.seenFiles
  BY <1>1, <1>2
<1>3. CASE t.findings = s.findings /\ (t.incomplete \/ disk[p] = "binary")
  <2>1. disk[p] = "binary" => disk[p] # "file"
    OBVIOUS
  <2>2. ~ t.incomplete => ~ s.incomplete
    BY <1>1 DEF Onward
  <2> QED BY <1>1, <1>3, <2>1, <2>2 DEF FindingsInv
<1>4. CASE p \notin s.seenFiles /\ disk[p] = "file" /\ Reported(s, t, p)
  <2>1. PICK L \in Seq(Finding) : t.findings = s.findings \o L /\ StandFor(L, p, t.incomplete)
    BY <1>4 DEF Reported
  <2> DEFINE old == s.findings
             new == t.findings
  <2>2. old \in Seq(Finding) /\ new = old \o L
    BY <2>1, ScannerFields
  <2>3. PICK idx : /\ idx \in [1 .. Len(L) -> Counted(Contents[p].matches)]
                   /\ \A k \in 1 .. Len(L) : L[k] = FindingOf(p, idx[k])
                   /\ \A j, k \in 1 .. Len(L) : j # k => idx[j] # idx[k]
                   /\ ~ t.incomplete =>
                        \A i \in Counted(Contents[p].matches) : \E k \in 1 .. Len(L) : idx[k] = i
    BY <2>1 DEF StandFor
  <2>4. p \in DOMAIN Contents
    BY TextAssumption DEF IsFile
  <2>5. \A k \in 1 .. Len(L) : L[k].path = p
    <3>1. \A i : FindingOf(p, i).path = p
      BY DEF FindingOf
    <3> QED BY <2>3, <3>1
  <2>6. \A k \in 1 .. Len(old) : old[k].path # p /\ old[k].path \in s.seenFiles
                                 /\ disk[old[k].path] = "file"
    BY <1>4, <2>2 DEF FindingsInv
  <2>7. \A f : /\ f.path = p => Times(f, new) = Times(f, L)
               /\ f.path # p => Times(f, new) = Times(f, old)
    <3> HIDE DEF old, new
    <3>1. NoneOf(old, p) /\ OnlyOf(L, p)
      BY <2>5, <2>6 DEF NoneOf, OnlyOf
    <3>2. \A f : /\ f.path = p => Times(f, old \o L) = Times(f, L)
                 /\ f.path # p => Times(f, old \o L) = Times(f, old)
      <4> SUFFICES ASSUME NEW f
                   PROVE  /\ f.path = p => Times(f, old \o L) = Times(f, L)
                          /\ f.path # p => Times(f, old \o L) = Times(f, old)
        OBVIOUS
      <4>1. old \in Seq(Finding)
        BY <2>2
      <4> QED BY <3>1, <4>1, TimesGrow
    <3> QED BY <2>2, <3>2
  <2>8. \A f : f.path = p => /\ Times(f, L) <= Occurring(f)
                             /\ ~ t.incomplete => Times(f, L) = Occurring(f)
    BY <2>3, <2>4, TimesOfFile
  <2>9. \A n \in DOMAIN new : \/ n \in 1 .. Len(old) /\ new[n] = old[n]
                              \/ \E k \in 1 .. Len(L) : new[n] = L[k]
    <3> SUFFICES ASSUME NEW n \in DOMAIN new, n \notin 1 .. Len(old)
                 PROVE  \E k \in 1 .. Len(L) : new[n] = L[k]
      BY <2>2
    <3>1. n - Len(old) \in 1 .. Len(L) /\ new[n] = L[n - Len(old)]
      BY <2>2
    <3> QED BY <3>1
  <2> HIDE DEF old, new
  <2>10. \A n \in DOMAIN new : new[n].path \in t.seenFiles /\ disk[new[n].path] = "file"
    BY <1>1, <1>4, <2>5, <2>6, <2>9
  <2>11. \A f \in Range(new) : Times(f, new) <= Occurring(f)
    <3> SUFFICES ASSUME NEW f \in Range(new) PROVE Times(f, new) <= Occurring(f)
      OBVIOUS
    <3>1. CASE f.path = p
      <4>1. Times(f, new) = Times(f, L)
        BY <2>7, <3>1
      <4>2. Times(f, L) <= Occurring(f)
        BY <2>8, <3>1
      <4> QED BY <4>1, <4>2
    <3>2. CASE f.path # p
      <4>1. PICK n \in DOMAIN new : new[n] = f
        BY DEF Range
      <4>2. n \in 1 .. Len(old) /\ old[n] = f
        BY <2>5, <2>9, <3>2, <4>1
      <4>3. f \in Range(old)
        BY <2>2, <4>2 DEF Range
      <4>4. Times(f, old) <= Occurring(f)
        BY <4>3 DEF FindingsInv, old
      <4>5. Times(f, new) = Times(f, old)
        BY <2>7, <3>2
      <4> QED BY <4>4, <4>5
    <3> QED BY <3>1, <3>2
  <2>12. ASSUME ~ t.incomplete, NEW q \in t.seenFiles, disk[q] = "file",
                NEW m \in Counted(Contents[q].matches)
         PROVE  Times(FindingOf(q, m), new) = Occurring(FindingOf(q, m))
    <3> DEFINE f == FindingOf(q, m)
    <3>1. f.path = q
      BY DEF FindingOf
    <3> HIDE DEF f
    <3>2. CASE q = p
      <4>1. Times(f, new) = Times(f, L)
        BY <2>7, <3>1, <3>2
      <4>2. Times(f, L) = Occurring(f)
        BY <2>8, <2>12, <3>1, <3>2
      <4> QED BY <4>1, <4>2 DEF f
    <3>3. CASE q # p
      <4>1. Times(f, new) = Times(f, old)
        BY <2>7, <3>1, <3>3
      <4>2. q \in s.seenFiles /\ ~ s.incomplete
        BY <1>1, <2>12, <3>3 DEF Onward
      <4>3. Times(f, old) = Occurring(f)
        BY <2>12, <4>2 DEF FindingsInv, f, old
      <4> QED BY <4>1, <4>3 DEF f
    <3> QED BY <3>2, <3>3
  <2> QED BY <2>10, <2>11, <2>12 DEF FindingsInv, new
<1> QED BY <1>1, <1>2, <1>3, <1>4

-----------------------------------------------------------------------------
(* The steps of the thread, case by case.                                  *)

(* No file is read, and a partial report stays one. *)
Quiet(s, t) ==
  /\ t.seenFiles = s.seenFiles /\ t.files = s.files /\ t.skipped = s.skipped
  /\ t.findings = s.findings /\ t.late = s.late
  /\ s.incomplete => t.incomplete

(* The walk stays where it is. *)
SameTree(s, t) == t.stack = s.stack /\ t.seenDirs = s.seenDirs

(* All parts of the way to a priority file of root r can be used. *)
Safe(k, r, way) ==
  /\ k[r] \in DirKinds /\ k[Last(way)] \in FileKinds
  /\ \A j \in DOMAIN way : k[way[j]] # "link"

(* The n-th priority file of the j-th root. *)
Way(j, n) == PriorityFiles[Roots[j]][n]
Ways(j) == Len(PriorityFiles[Roots[j]])

(* The ways are sequences of paths, and not empty. *)
LEMMA WayType ==
  ASSUME NEW j \in 1 .. Len(Roots)
  PROVE  /\ Roots[j] \in Paths /\ Roots[j] \in Range(Roots) /\ Roots[j] \in DOMAIN PriorityFiles
         /\ Ways(j) \in Nat
         /\ \A n \in 1 .. Ways(j) :
              /\ Way(j, n) \in Seq(Paths) /\ Len(Way(j, n)) \in Nat \ {0}
              /\ Way(j, n) \in Range(PriorityFiles[Roots[j]]) /\ Last(Way(j, n)) \in Paths
<1>1. Roots[j] \in Paths /\ Roots[j] \in Range(Roots) /\ Roots[j] \in DOMAIN PriorityFiles
  BY RootsType DEF Range
<1>2. PriorityFiles[Roots[j]] \in Seq(Seq(Paths) \ {<<>>})
  BY <1>1, PriorityAssumption
<1>3. Ways(j) \in Nat /\ DOMAIN PriorityFiles[Roots[j]] = 1 .. Ways(j)
  BY <1>2 DEF Ways
<1>4. ASSUME NEW n \in 1 .. Ways(j)
      PROVE  /\ Way(j, n) \in Seq(Paths) /\ Len(Way(j, n)) \in Nat \ {0}
             /\ Way(j, n) \in Range(PriorityFiles[Roots[j]]) /\ Last(Way(j, n)) \in Paths
  <2>1. Way(j, n) \in Seq(Paths) \ {<<>>}
    BY <1>2, <1>3 DEF Way
  <2>2. Way(j, n) \in Range(PriorityFiles[Roots[j]])
    BY <1>3 DEF Way, Range
  <2> QED BY <2>1, <2>2 DEF Last
<1> QED BY <1>1, <1>3, <1>4

(* A step of the priority phase: on to the walk, to the next root or past  *)
(* a way, and then the file at its end is read if the way can be used.     *)
LEMMA PriorityEffect ==
  ASSUME disk \in Disks, NEW i \in DOMAIN scans, scans[i] \in Scanner,
         scans[i].at = "priority", NEW t \in Priority(i)
  PROVE  LET s == scans[i] IN
         \/ /\ s.root = Len(Roots) + 1 /\ t \in Scanner /\ t.at = "walk" /\ t.root = 1
            /\ Quiet(s, t) /\ SameTree(s, t)
         \/ /\ s.root \in 1 .. Len(Roots) /\ t \in Scanner /\ t.at = "priority"
            /\ t.root = s.root + 1 /\ t.next = 1 /\ Quiet(s, t) /\ SameTree(s, t)
            /\ \/ disk[Roots[s.root]] = "relative" /\ t.incomplete
               \/ disk[Roots[s.root]] # "relative" /\ s.next > Ways(s.root)
               \/ Stopped(i) /\ t.incomplete
         \/ /\ s.root \in 1 .. Len(Roots) /\ s.next \in 1 .. Ways(s.root)
            /\ \E u \in Scanner :
                 /\ u.at = "priority" /\ u.root = s.root /\ u.next = s.next + 1
                 /\ Quiet(s, u) /\ SameTree(s, u)
                 /\ LET way == Way(s.root, s.next)
                    IN \/ ~ Safe(disk, Roots[s.root], way) /\ t = u
                       \/ Safe(disk, Roots[s.root], way) /\ t \in ScanFile(u, Last(way))
<1> DEFINE s == scans[i]
           root == Roots[s.root]
           NextRoot(x) == [x EXCEPT !.root = @ + 1, !.next = 1]
           way == PriorityFiles[root][s.next]
           safe == /\ IsDir(root)
                   /\ \A j \in DOMAIN way : disk[way[j]] # "link"
           a == [s EXCEPT !.at = "walk", !.root = 1]
           b == NextRoot(Partial(s))
           c == NextRoot(s)
           u == [s EXCEPT !.next = @ + 1]
<1>0. s.root \in 1 .. Len(Roots) + 1 /\ s.next \in Nat \ {0} /\ Len(Roots) \in Nat /\ s.at = "priority"
  BY RootsType, ScannerFields
<1>1. Priority(i) = IF s.root > Len(Roots) THEN {a}
                    ELSE IF disk[root] = "relative" THEN {b}
                    ELSE IF s.next > Len(PriorityFiles[root]) THEN {c}
                    ELSE IF Stopped(i) THEN {b}
                    ELSE IF safe /\ IsFile(Last(way)) THEN ScanFile(u, Last(way)) ELSE {u}
  BY DEF Priority
<1>2. a \in Scanner /\ a.at = "walk" /\ a.root = 1 /\ Quiet(s, a) /\ SameTree(s, a)
  <2>1. 1 \in 1 .. Len(Roots) + 1
    BY <1>0
  <2>2. a \in Scanner
    BY <2>1, ScannerUpdate
  <2> QED BY <2>2 DEF Scanner, Quiet, SameTree
<1>3. ASSUME s.root <= Len(Roots)
      PROVE  /\ b \in Scanner /\ b.at = "priority" /\ b.root = s.root + 1 /\ b.next = 1
             /\ Quiet(s, b) /\ SameTree(s, b) /\ b.incomplete
             /\ c \in Scanner /\ c.at = "priority" /\ c.root = s.root + 1 /\ c.next = 1
             /\ Quiet(s, c) /\ SameTree(s, c)
  <2>1. s.root + 1 \in 1 .. Len(Roots) + 1 /\ 1 \in Nat \ {0}
    BY <1>0, <1>3
  <2>2. c \in Scanner
    BY <2>1, ScannerUpdate
  <2>3. Partial(s) \in Scanner /\ Partial(s).root = s.root
    <3>1. Partial(s) \in Scanner
      BY ScannerUpdate DEF Partial
    <3>2. Partial(s).root = s.root
      BY DEF Partial, Scanner
    <3> QED BY <3>1, <3>2
  <2>4. b \in Scanner
    BY <2>1, <2>3, ScannerUpdate
  <2>5. c.at = "priority" /\ c.root = s.root + 1 /\ c.next = 1 /\ Quiet(s, c) /\ SameTree(s, c)
    BY <1>0 DEF Scanner, Quiet, SameTree
  <2>6. b.at = "priority" /\ b.root = s.root + 1 /\ b.next = 1 /\ Quiet(s, b) /\ SameTree(s, b)
        /\ b.incomplete
    BY <1>0 DEF Scanner, Quiet, SameTree, Partial
  <2> QED BY <2>2, <2>4, <2>5, <2>6
<1>4. /\ u \in Scanner /\ u.at = "priority" /\ u.root = s.root /\ u.next = s.next + 1
      /\ Quiet(s, u) /\ SameTree(s, u)
  <2>1. s.next + 1 \in Nat \ {0}
    BY <1>0
  <2>2. u \in Scanner
    BY <2>1, ScannerUpdate
  <2> QED BY <1>0, <2>2 DEF Scanner, Quiet, SameTree
<1>5. way = Way(s.root, s.next) /\ Len(PriorityFiles[root]) = Ways(s.root)
  BY DEF Way, Ways
<1>6. Safe(disk, root, way) <=> safe /\ IsFile(Last(way))
  BY DEF Safe, IsDir, IsFile
<1> HIDE DEF a, b, c, u, safe, way
<1>7. CASE s.root > Len(Roots)
  <2>1. t = a /\ s.root = Len(Roots) + 1
    BY <1>0, <1>1, <1>7
  <2> QED BY <1>2, <2>1
<1>8. CASE s.root <= Len(Roots)
  <2>1. s.root \in 1 .. Len(Roots) /\ ~ (s.root > Len(Roots))
    BY <1>0, <1>8
  <2>2. CASE disk[root] = "relative"
    <3>1. t = b
      BY <1>1, <2>1, <2>2
    <3> QED BY <1>3, <1>8, <2>1, <2>2, <3>1
  <2>3. CASE disk[root] # "relative" /\ s.next > Ways(s.root)
    <3>1. t = c
      BY <1>1, <1>5, <2>1, <2>3
    <3> QED BY <1>3, <1>8, <2>1, <2>3, <3>1
  <2>4. CASE disk[root] # "relative" /\ ~ (s.next > Ways(s.root)) /\ Stopped(i)
    <3>1. t = b
      BY <1>1, <1>5, <2>1, <2>4
    <3> QED BY <1>3, <1>8, <2>1, <2>4, <3>1
  <2>5. CASE disk[root] # "relative" /\ ~ (s.next > Ways(s.root)) /\ ~ Stopped(i)
    <3>1. s.next \in 1 .. Ways(s.root)
      BY <1>0, <2>1, <2>5, WayType
    <3>2. CASE safe /\ IsFile(Last(way))
      <4>1. t \in ScanFile(u, Last(way))
        BY <1>1, <1>5, <2>1, <2>5, <3>2
      <4> QED BY <1>4, <1>5, <1>6, <2>1, <3>1, <3>2, <4>1
    <3>3. CASE ~ (safe /\ IsFile(Last(way)))
      <4>1. t = u
        BY <1>1, <1>5, <2>1, <2>5, <3>3
      <4> QED BY <1>4, <1>5, <1>6, <2>1, <3>1, <3>3, <4>1
    <3> QED BY <3>2, <3>3
  <2> QED BY <2>2, <2>3, <2>4, <2>5
<1> QED BY <1>0, <1>7, <1>8

(* The scanner is otherwise as it was, and partial. *)
LEMMA PartialEffect ==
  ASSUME NEW s \in Scanner
  PROVE  /\ Partial(s) \in Scanner /\ Partial(s).incomplete /\ Quiet(s, Partial(s))
         /\ Partial(s).at = s.at /\ Partial(s).root = s.root /\ Partial(s).next = s.next
         /\ SameTree(s, Partial(s))
<1>1. Partial(s) \in Scanner
  BY ScannerUpdate DEF Partial
<1> QED BY <1>1 DEF Partial, Scanner, Quiet, SameTree

(* On disk k, directory d was entered before, or something is missing, or  *)
(* it is listed and on the stack.                                          *)
Entered(k, s, t, d) ==
  \/ d \in s.seenDirs /\ t = s
  \/ t.incomplete
  \/ /\ d \notin s.seenDirs /\ k[d] = "dir"
     /\ t.seenDirs = s.seenDirs \cup {d}
     /\ t.stack = Append(s.stack, [dir |-> d, left |-> Entries[d]])

(* Entering a directory does that and reads no file. *)
LEMMA EnterEffect ==
  ASSUME disk \in Disks, NEW s \in Scanner, NEW i, NEW d \in Paths, NEW t \in Enter(s, i, d)
  PROVE  /\ t \in Scanner /\ t.at = s.at /\ t.root = s.root /\ Quiet(s, t)
         /\ Entered(disk, s, t, d)
<1> DEFINE seen == [s EXCEPT !.seenDirs = @ \cup {d}]
           in == [seen EXCEPT !.stack = Append(@, [dir |-> d, left |-> Entries[d]])]
           out == Stopped(i) \/ Len(s.stack) > MaxDepth
<1>1. Enter(s, i, d) = IF d \in s.seenDirs THEN {s}
                       ELSE IF out THEN {Partial(s)}
                       ELSE IF ~ IsDir(d) THEN {Partial(s)}
                       ELSE {Partial(seen)} \cup (IF disk[d] = "unreadable" THEN {} ELSE {in})
  BY DEF Enter
<1>2. /\ seen \in Scanner /\ seen.at = s.at /\ seen.root = s.root /\ Quiet(s, seen)
      /\ seen.stack = s.stack /\ seen.seenDirs = s.seenDirs \cup {d}
  <2>1. s.seenDirs \cup {d} \in SUBSET Paths
    BY ScannerFields
  <2>2. seen \in Scanner
    BY <2>1, ScannerUpdate
  <2> QED BY <2>2 DEF Scanner, Quiet
<1> HIDE DEF out
<1>3. CASE d \in s.seenDirs
  <2>1. t = s
    BY <1>1, <1>3
  <2> QED BY <1>3, <2>1 DEF Quiet, Entered
<1>4. CASE t = Partial(s)
  BY <1>4, PartialEffect DEF Entered
<1>5. CASE t = Partial(seen)
  <2> HIDE DEF seen, in
  <2>1. Quiet(seen, t) /\ t \in Scanner /\ t.at = seen.at /\ t.root = seen.root /\ t.incomplete
    BY <1>2, <1>5, PartialEffect
  <2> QED BY <1>2, <2>1 DEF Quiet, Entered
<1>6. CASE d \notin s.seenDirs /\ IsDir(d) /\ disk[d] # "unreadable" /\ t = in
  <2>1. disk[d] = "dir" /\ d \in DOMAIN Entries
    BY <1>6, DiskAssumption DEF IsDir, DirKinds
  <2>2. Entries[d] \in SUBSET Paths
    BY <2>1, DiskAssumption
  <2> DEFINE top == [dir |-> d, left |-> Entries[d]]
  <2>3. top \in [dir : DOMAIN Entries, left : SUBSET Paths]
    BY <2>1, <2>2
  <2>4. Append(seen.stack, top) \in Seq([dir : DOMAIN Entries, left : SUBSET Paths])
    <3>1. seen.stack \in Seq([dir : DOMAIN Entries, left : SUBSET Paths])
      BY <1>2, ScannerFields
    <3> HIDE DEF seen, top
    <3> QED BY <2>3, <3>1
  <2>5. in = [seen EXCEPT !.stack = Append(seen.stack, top)]
    OBVIOUS
  <2> HIDE DEF seen, in
  <2>6. in \in Scanner
    BY <1>2, <2>4, <2>5, ScannerUpdate
  <2>7. in.at = seen.at /\ in.root = seen.root /\ Quiet(seen, in)
        /\ in.seenDirs = seen.seenDirs /\ in.stack = Append(seen.stack, top)
    BY <1>2, <2>5 DEF Scanner, Quiet
  <2>8. Quiet(s, in)
    BY <1>2, <2>7 DEF Quiet
  <2> QED BY <1>2, <1>6, <2>1, <2>6, <2>7, <2>8 DEF Entered
<1> HIDE DEF seen, in
<1>7. CASE d \notin s.seenDirs
  <2>1. CASE out \/ ~ IsDir(d)
    <3>1. t = Partial(s)
      BY <1>1, <1>7, <2>1
    <3> QED BY <1>4, <3>1
  <2>2. CASE ~ out /\ IsDir(d) /\ disk[d] = "unreadable"
    <3>1. t = Partial(seen)
      BY <1>1, <1>7, <2>2
    <3> QED BY <1>5, <3>1
  <2>3. CASE ~ out /\ IsDir(d) /\ disk[d] # "unreadable"
    <3>1. t = Partial(seen) \/ t = in
      BY <1>1, <1>7, <2>3
    <3> QED BY <1>5, <1>6, <1>7, <2>3, <3>1
  <2> QED BY <2>1, <2>2, <2>3
<1> QED BY <1>3, <1>7

(* Entry e of the directory on top is taken, and nothing else changes in   *)
(* the tree.                                                               *)
Taken(s, u, e) ==
  /\ u.seenDirs = s.seenDirs /\ Len(u.stack) = Len(s.stack)
  /\ \A j \in 1 .. Len(s.stack) :
       /\ u.stack[j].dir = s.stack[j].dir
       /\ u.stack[j].left = IF j = Len(s.stack) THEN s.stack[j].left \ {e} ELSE s.stack[j].left

(* The places of the scanners a step of the walk goes through. *)
Walking(s, u) == u \in Scanner /\ u.at = "walk" /\ Quiet(s, u)

(* A step of the walk: the end, the next root, back to the directory       *)
(* above, or the next entry.                                               *)
LEMMA WalkEffect ==
  ASSUME disk \in Disks, NEW i \in DOMAIN scans, scans[i] \in Scanner,
         scans[i].at = "walk", NEW t \in Walk(i)
  PROVE  LET s == scans[i]
             n == Len(s.stack)
         IN
         \/ /\ s.stack = <<>> /\ s.root = Len(Roots) + 1
            /\ t \in Scanner /\ t.at = "sent" /\ t.root = s.root /\ Quiet(s, t) /\ SameTree(s, t)
         \/ /\ s.stack = <<>> /\ s.root \in 1 .. Len(Roots)
            /\ \E u : /\ Walking(s, u) /\ u.root = s.root + 1 /\ SameTree(s, u)
                      /\ \/ disk[Roots[s.root]] = "relative" /\ t = u
                         \/ t \in Enter(u, i, Roots[s.root])
         \/ /\ n > 0 /\ Walking(s, t) /\ t.root = s.root
            /\ s.stack[n].left = {} \/ t.incomplete
            /\ t.seenDirs = s.seenDirs /\ Len(t.stack) = n - 1
            /\ \A j \in 1 .. n - 1 : t.stack[j] = s.stack[j]
         \/ /\ n > 0 /\ ~ Stopped(i)
            /\ \E e \in s.stack[n].left : \E u :
                 /\ Walking(s, u) /\ u.root = s.root /\ Taken(s, u, e)
                 /\ \/ t = Partial(u)
                    \/ IsDir(e) /\ e \in Ignored /\ t = u
                    \/ IsDir(e) /\ e \notin Ignored /\ t \in Enter(u, i, e)
                    \/ IsFile(e) /\ t \in ScanFile(u, e)
                    \/ /\ ~ IsDir(e) /\ ~ IsFile(e) /\ t \in Scanner /\ t.at = "walk"
                       /\ t.root = u.root /\ SameTree(u, t) /\ t.seenFiles = u.seenFiles
                       /\ t.files = u.files /\ t.skipped = u.skipped + 1
                       /\ t.findings = u.findings /\ t.late = u.late
                       /\ t.incomplete = u.incomplete
<1> DEFINE s == scans[i]
           n == Len(s.stack)
           D == [dir : DOMAIN Entries, left : SUBSET Paths]
<1>1. /\ s.root \in 1 .. Len(Roots) + 1 /\ Len(Roots) \in Nat /\ s.at = "walk"
      /\ s.stack \in Seq(D) /\ n \in Nat /\ s.entries \in Nat
  <2>1. /\ s.root \in 1 .. Len(Roots) + 1 /\ s.stack \in Seq(D) /\ s.entries \in Nat
    BY ScannerFields
  <2> HIDE DEF D
  <2>2. n \in Nat
    BY <2>1
  <2> QED BY <2>1, <2>2, RootsType
<1>2. CASE s.stack = <<>> /\ s.root > Len(Roots)
  <2> DEFINE a == [s EXCEPT !.at = "sent"]
  <2>1. t = a /\ s.root = Len(Roots) + 1
    BY <1>1, <1>2 DEF Walk
  <2>2. a \in Scanner
    BY ScannerUpdate
  <2>3. a.at = "sent" /\ a.root = s.root /\ Quiet(s, a) /\ SameTree(s, a)
    BY DEF Scanner, Quiet, SameTree
  <2> QED BY <1>2, <2>1, <2>2, <2>3
<1>3. CASE s.stack = <<>> /\ ~ (s.root > Len(Roots))
  <2> DEFINE u == [s EXCEPT !.root = @ + 1]
  <2>1. Walk(i) = IF disk[Roots[s.root]] = "relative" THEN {u} ELSE Enter(u, i, Roots[s.root])
    BY <1>3 DEF Walk
  <2>2. s.root + 1 \in 1 .. Len(Roots) + 1 /\ s.root \in 1 .. Len(Roots)
    BY <1>1, <1>3
  <2>3. u \in Scanner
    BY <2>2, ScannerUpdate
  <2>4. u.at = "walk" /\ u.root = s.root + 1 /\ Quiet(s, u) /\ SameTree(s, u)
    BY <1>1 DEF Scanner, Quiet, SameTree
  <2> HIDE DEF u
  <2>5. \/ disk[Roots[s.root]] = "relative" /\ t = u
        \/ t \in Enter(u, i, Roots[s.root])
    BY <2>1
  <2> QED BY <1>3, <2>2, <2>3, <2>4, <2>5 DEF Walking
<1>4. CASE s.stack # <<>>
  <2> DEFINE left == s.stack[n].left
             full == Stopped(i) \/ s.entries >= MaxEntries
  <2>1. Walk(i) = IF left = {} THEN {Return(s)}
                  ELSE IF full THEN {Return(Partial(s))}
                  ELSE UNION {Entry(s, i, e) : e \in left}
    BY <1>4 DEF Walk, Last
  <2>2. n > 0 /\ n \in 1 .. n /\ left \in SUBSET Paths
    <3>1. n > 0 /\ n \in 1 .. n
      BY <1>1, <1>4
    <3>2. s.stack[n] \in D
      <4> HIDE DEF D
      <4> QED BY <1>1, <3>1
    <3> QED BY <3>1, <3>2
  <2>3. ASSUME NEW x \in Scanner, x.stack = s.stack
        PROVE  /\ Return(x) \in Scanner /\ Return(x).at = x.at /\ Return(x).root = x.root
               /\ Quiet(x, Return(x)) /\ Return(x).incomplete = x.incomplete
               /\ Return(x).seenDirs = x.seenDirs /\ Len(Return(x).stack) = n - 1
               /\ \A j \in 1 .. n - 1 : Return(x).stack[j] = s.stack[j]
    <3>1. /\ Front(s.stack) \in Seq(D) /\ Len(Front(s.stack)) = n - 1
          /\ \A j \in 1 .. n - 1 : Front(s.stack)[j] = s.stack[j]
      <4> HIDE DEF D
      <4> QED BY <1>1, <2>2 DEF Front
    <3>2. Return(x) = [x EXCEPT !.stack = Front(s.stack)]
      BY <2>3 DEF Return
    <3>3. Return(x) \in Scanner
      BY <3>1, <3>2, ScannerUpdate
    <3>4. /\ Return(x).at = x.at /\ Return(x).root = x.root /\ Quiet(x, Return(x))
          /\ Return(x).incomplete = x.incomplete /\ Return(x).seenDirs = x.seenDirs
          /\ Return(x).stack = Front(s.stack)
      BY <3>2 DEF Scanner, Quiet
    <3> QED BY <3>1, <3>3, <3>4
  <2>4. CASE left = {}
    <3>1. t = Return(s)
      BY <2>1, <2>4
    <3> QED BY <1>1, <2>2, <2>3, <2>4, <3>1 DEF Walking
  <2>5. CASE left # {} /\ full
    <3>1. t = Return(Partial(s))
      BY <2>1, <2>5
    <3>2. /\ Partial(s) \in Scanner /\ Partial(s).incomplete /\ Quiet(s, Partial(s))
          /\ Partial(s).at = s.at /\ Partial(s).root = s.root /\ SameTree(s, Partial(s))
      BY PartialEffect
    <3> DEFINE x == Partial(s)
    <3>3. x.stack = s.stack /\ x.seenDirs = s.seenDirs /\ x \in Scanner
      BY <3>2 DEF SameTree
    <3> HIDE DEF x
    <3>4. /\ t \in Scanner /\ t.at = x.at /\ t.root = x.root
          /\ Quiet(x, t) /\ t.incomplete = x.incomplete
          /\ t.seenDirs = x.seenDirs /\ Len(t.stack) = n - 1
          /\ \A j \in 1 .. n - 1 : t.stack[j] = s.stack[j]
      BY <2>3, <3>1, <3>3 DEF x
    <3>5. Quiet(s, t)
      BY <3>2, <3>4 DEF Quiet, x
    <3>6. Walking(s, t) /\ t.root = s.root /\ t.incomplete
      BY <1>1, <3>2, <3>4, <3>5 DEF Walking, x
    <3> QED BY <2>2, <3>3, <3>4, <3>6
  <2>6. CASE left # {} /\ ~ full
    <3>1. PICK e \in left : t \in Entry(s, i, e)
      BY <2>1, <2>6
    <3> DEFINE u == [s EXCEPT !.entries = @ + 1, !.stack[Len(s.stack)].left = @ \ {e}]
               w == [s.stack EXCEPT ![n].left = @ \ {e}]
               more == [u EXCEPT !.skipped = @ + 1]
    <3>2. /\ w \in Seq(D) /\ Len(w) = n
          /\ \A j \in 1 .. n :
               /\ w[j].dir = s.stack[j].dir
               /\ w[j].left = IF j = n THEN s.stack[j].left \ {e} ELSE s.stack[j].left
      <4> DEFINE top == [s.stack[n] EXCEPT !.left = @ \ {e}]
      <4>1. s.stack[n] \in D
        <5> HIDE DEF D
        <5> QED BY <1>1, <2>2
      <4>2. top \in D /\ top.dir = s.stack[n].dir /\ top.left = s.stack[n].left \ {e}
        BY <4>1
      <4>3. w = [s.stack EXCEPT ![n] = top]
        OBVIOUS
      <4> HIDE DEF top, w
      <4>4. w \in Seq(D) /\ Len(w) = n
        BY <1>1, <2>2, <4>2, <4>3
      <4>5. \A j \in 1 .. n : w[j] = IF j = n THEN top ELSE s.stack[j]
        BY <1>1, <2>2, <4>3
      <4> QED BY <4>2, <4>4, <4>5
    <3>3. u = [[s EXCEPT !.entries = s.entries + 1] EXCEPT !.stack = w]
      BY DEF Scanner
    <3>4. u \in Scanner
      <4>1. s.entries + 1 \in Nat
        BY <1>1
      <4> HIDE DEF u, w
      <4> QED BY <3>2, <3>3, <4>1, ScannerUpdate
    <3>5. u.at = "walk" /\ u.root = s.root /\ Quiet(s, u) /\ u.seenDirs = s.seenDirs /\ u.stack = w
      <4> HIDE DEF u, w
      <4> QED BY <1>1, <3>3 DEF Scanner, Quiet
    <3> HIDE DEF w
    <3>6. Walking(s, u) /\ Taken(s, u, e)
      <4> HIDE DEF u
      <4> QED BY <3>2, <3>4, <3>5 DEF Walking, Taken
    <3>7. Entry(s, i, e) = {Partial(u)} \cup
            CASE IsDir(e) -> IF e \in Ignored THEN {u} ELSE Enter(u, i, e)
              [] IsFile(e) -> ScanFile(u, e)
              [] OTHER -> {more}
      BY DEF Entry
    <3>8. /\ more \in Scanner /\ more.at = u.at /\ more.root = u.root /\ SameTree(u, more)
          /\ more.seenFiles = u.seenFiles /\ more.files = u.files
          /\ more.skipped = u.skipped + 1 /\ more.findings = u.findings
          /\ more.late = u.late /\ more.incomplete = u.incomplete
      <4> HIDE DEF u
      <4>1. u.skipped + 1 \in Nat
        BY <3>4, ScannerFields
      <4>2. more \in Scanner
        BY <3>4, <4>1, ScannerUpdate
      <4> QED BY <3>4, <4>2 DEF Scanner, SameTree
    <3> HIDE DEF u, more, left
    <3>9. IsDir(e) => ~ IsFile(e)
      BY DEF IsDir, IsFile, DirKinds, FileKinds
    <3>10. \/ t = Partial(u)
           \/ IsDir(e) /\ e \in Ignored /\ t = u
           \/ IsDir(e) /\ e \notin Ignored /\ t \in Enter(u, i, e)
           \/ IsFile(e) /\ t \in ScanFile(u, e)
           \/ ~ IsDir(e) /\ ~ IsFile(e) /\ t = more
      <4>1. CASE IsDir(e) /\ e \in Ignored
        <5>1. Entry(s, i, e) = {Partial(u)} \cup {u}
          BY <3>7, <3>9, <4>1
        <5> QED BY <3>1, <4>1, <5>1
      <4>2. CASE IsDir(e) /\ e \notin Ignored
        <5>1. Entry(s, i, e) = {Partial(u)} \cup Enter(u, i, e)
          BY <3>7, <3>9, <4>2
        <5> QED BY <3>1, <4>2, <5>1
      <4>3. CASE ~ IsDir(e) /\ IsFile(e)
        <5>1. Entry(s, i, e) = {Partial(u)} \cup ScanFile(u, e)
          BY <3>7, <4>3
        <5> QED BY <3>1, <4>3, <5>1
      <4>4. CASE ~ IsDir(e) /\ ~ IsFile(e)
        <5>1. Entry(s, i, e) = {Partial(u)} \cup {more}
          BY <3>7, <4>4
        <5> QED BY <3>1, <4>4, <5>1
      <4> QED BY <4>1, <4>2, <4>3, <4>4
    <3>11. ~ Stopped(i)
      BY <2>6
    <3> HIDE DEF full
    <3> QED BY <2>2, <3>5, <3>6, <3>8, <3>10, <3>11 DEF left
  <2> QED BY <2>4, <2>5, <2>6
<1> QED BY <1>2, <1>3, <1>4

(* The step of the priority phase and of the walk keep the shape of the    *)
(* scanner and its findings.                                               *)
LEMMA FindingsStep ==
  ASSUME disk \in Disks, NEW i \in DOMAIN scans, scans[i] \in Scanner,
         FindingsInv(disk, scans[i]), NEW t,
         \/ scans[i].at = "priority" /\ t \in Priority(i)
         \/ scans[i].at = "walk" /\ t \in Walk(i)
  PROVE  t \in Scanner /\ FindingsInv(disk, t)
<1> DEFINE s == scans[i]
<1>1. ASSUME NEW x, NEW y, FindingsInv(disk, x), Quiet(x, y)
      PROVE  FindingsInv(disk, y)
  BY <1>1, FindingsSame DEF Quiet
<1>2. ASSUME NEW u \in Scanner, Quiet(s, u), NEW p \in Paths, IsFile(p), t \in ScanFile(u, p)
      PROVE  t \in Scanner /\ FindingsInv(disk, t)
  <2>1. FindingsInv(disk, u)
    BY <1>1, <1>2
  <2> QED BY <1>2, <2>1, ScanFileEffect, FindingsScanFile
<1>3. ASSUME NEW u \in Scanner, Quiet(s, u), NEW d \in Paths, t \in Enter(u, i, d)
      PROVE  t \in Scanner /\ FindingsInv(disk, t)
  <2>1. FindingsInv(disk, u)
    BY <1>1, <1>3
  <2>2. t \in Scanner /\ Quiet(u, t)
    BY <1>3, EnterEffect
  <2> QED BY <1>1, <2>1, <2>2
<1>4. CASE s.at = "priority" /\ t \in Priority(i)
  <2>1. CASE t \in Scanner /\ Quiet(s, t)
    BY <1>1, <2>1
  <2>2. CASE /\ s.root \in 1 .. Len(Roots) /\ s.next \in 1 .. Ways(s.root)
             /\ \E u \in Scanner :
                  /\ Quiet(s, u)
                  /\ LET way == Way(s.root, s.next)
                     IN \/ t = u
                        \/ Safe(disk, Roots[s.root], way) /\ t \in ScanFile(u, Last(way))
    <3>1. Last(Way(s.root, s.next)) \in Paths
      BY <2>2, WayType
    <3>2. Safe(disk, Roots[s.root], Way(s.root, s.next)) => IsFile(Last(Way(s.root, s.next)))
      BY DEF Safe, IsFile
    <3> QED BY <1>1, <1>2, <2>2, <3>1, <3>2
  <2> QED BY <1>4, <2>1, <2>2, PriorityEffect
<1>5. CASE s.at = "walk" /\ t \in Walk(i)
  <2> DEFINE n == Len(s.stack)
  <2>1. CASE t \in Scanner /\ Quiet(s, t)
    BY <1>1, <2>1
  <2>2. CASE /\ s.root \in 1 .. Len(Roots)
             /\ \E u : /\ Walking(s, u)
                       /\ \/ t = u
                          \/ t \in Enter(u, i, Roots[s.root])
    <3>1. Roots[s.root] \in Paths
      BY <2>2, WayType
    <3> QED BY <1>1, <1>3, <2>2, <3>1 DEF Walking
  <2>3. ASSUME n > 0, NEW e \in s.stack[n].left, NEW u, Walking(s, u),
               \/ t = Partial(u)
               \/ IsDir(e) /\ e \in Ignored /\ t = u
               \/ IsDir(e) /\ e \notin Ignored /\ t \in Enter(u, i, e)
               \/ IsFile(e) /\ t \in ScanFile(u, e)
               \/ /\ t \in Scanner /\ t.seenFiles = u.seenFiles
                  /\ t.findings = u.findings /\ t.incomplete = u.incomplete
        PROVE  t \in Scanner /\ FindingsInv(disk, t)
    <3>1. u \in Scanner /\ Quiet(s, u) /\ FindingsInv(disk, u)
      BY <1>1, <2>3 DEF Walking
    <3>2. e \in Paths
      <4> DEFINE D == [dir : DOMAIN Entries, left : SUBSET Paths]
      <4>1. s.stack \in Seq(D)
        BY ScannerFields
      <4>2. s.stack[n] \in D
        <5> HIDE DEF D
        <5> QED BY <2>3, <4>1
      <4> QED BY <4>2
    <3>3. CASE t = Partial(u)
      BY <1>1, <3>1, <3>3, PartialEffect
    <3>4. CASE t \in Scanner /\ t.seenFiles = u.seenFiles
               /\ t.findings = u.findings /\ t.incomplete = u.incomplete
      BY <3>1, <3>4, FindingsSame
    <3> QED BY <1>2, <1>3, <2>3, <3>1, <3>2, <3>3, <3>4
  <2> QED BY <1>5, <2>1, <2>2, <2>3, WalkEffect DEF Walking
<1> QED BY <1>4, <1>5

-----------------------------------------------------------------------------
(* The credential files come first.                                        *)

(* The files at the end of the ways that can be used, on disk k. *)
Credentials(k) ==
  UNION {{Last(way) : way \in {w \in Range(PriorityFiles[r]) : Safe(k, r, w)}} : r \in Range(Roots)}

(* The scanner has something that stops it; c says that it was cancelled. *)
Halted(c, s) == c \/ s.late \/ s.files >= MaxFiles \/ Len(s.findings) >= MaxFindings

(* Every way before the scanner's place was followed. *)
PassedWays(k, s) ==
  \A j \in 1 .. Len(Roots) : \A n \in 1 .. Ways(j) :
    /\ j < s.root \/ (j = s.root /\ n < s.next)
    /\ Safe(k, Roots[j], Way(j, n))
    => Last(Way(j, n)) \in s.seenFiles

(* In the priority phase only credential files are read, those before its  *)
(* place are read unless it was stopped; a walk that reads another file    *)
(* comes after all of them.                                                *)
CredentialsInv(k, c, s) ==
  /\ s.seenFiles \subseteq Credentials(k) \/ Credentials(k) \subseteq s.seenFiles
  /\ s.at \in {"begin", "priority"} =>
       s.seenFiles \subseteq Credentials(k) /\ (Halted(c, s) \/ PassedWays(k, s))
  /\ s.at = "walk" =>
       Credentials(k) \subseteq s.seenFiles \/ (Halted(c, s) /\ s.seenFiles \subseteq Credentials(k))

(* A way that can be used leads to a credential file. *)
LEMMA WayToCredential ==
  ASSUME NEW k, NEW j \in 1 .. Len(Roots), NEW n \in 1 .. Ways(j), Safe(k, Roots[j], Way(j, n))
  PROVE  Last(Way(j, n)) \in Credentials(k)
BY WayType DEF Credentials

(* When all ways are passed, all credential files were read. *)
LEMMA AllPassed ==
  ASSUME NEW k, NEW s, s.root = Len(Roots) + 1, PassedWays(k, s)
  PROVE  Credentials(k) \subseteq s.seenFiles
<1> SUFFICES ASSUME NEW p \in Credentials(k) PROVE p \in s.seenFiles
  OBVIOUS
<1>0. PICK r \in Range(Roots) :
        \E way \in Range(PriorityFiles[r]) : Safe(k, r, way) /\ p = Last(way)
  BY DEF Credentials
<1>1. PICK way \in Range(PriorityFiles[r]) : Safe(k, r, way) /\ p = Last(way)
  BY <1>0
<1>2. PICK j \in 1 .. Len(Roots) : r = Roots[j]
  BY RootsType DEF Range
<1>3. Ways(j) \in Nat /\ PriorityFiles[r] \in Seq(Seq(Paths) \ {<<>>})
  BY <1>2, WayType, PriorityAssumption
<1>4. PICK n \in 1 .. Ways(j) : way = Way(j, n)
  BY <1>1, <1>2, <1>3 DEF Range, Way, Ways
<1>5. j < s.root
  BY RootsType
<1> QED BY <1>1, <1>2, <1>4, <1>5 DEF PassedWays

(* A scanner that is stopped stays stopped. *)
LEMMA HaltedOnward ==
  ASSUME NEW c, NEW s \in Scanner, NEW t \in Scanner, Onward(s, t) \/ Quiet(s, t), Halted(c, s)
  PROVE  Halted(c, t)
<1>1. /\ s.files \in Nat /\ t.files \in Nat /\ Len(s.findings) \in Nat /\ Len(t.findings) \in Nat
      /\ MaxFiles \in Nat /\ MaxFindings \in Nat
  BY ScannerFields, LimitAssumption
<1> QED BY <1>1 DEF Onward, Quiet, Halted

(* The steps of both phases keep the order. *)
LEMMA CredentialsStep ==
  ASSUME disk \in Disks, NEW i \in DOMAIN scans, scans[i] \in Scanner,
         CredentialsInv(disk, i \in cancelled, scans[i]), NEW t \in Scanner,
         \/ scans[i].at = "priority" /\ t \in Priority(i)
         \/ scans[i].at = "walk" /\ t \in Walk(i)
  PROVE  CredentialsInv(disk, i \in cancelled, t)
<1> DEFINE s == scans[i]
           c == i \in cancelled
           C == Credentials(disk)
           H(x) == Halted(c, x)
<1>1. Stopped(i) <=> H(s)
  BY DEF Stopped, Halted
<1>2. ASSUME NEW x \in Scanner, NEW y \in Scanner, Quiet(x, y) PROVE H(x) => H(y)
  BY <1>2, HaltedOnward
<1>3. s.root \in 1 .. Len(Roots) + 1 /\ s.next \in Nat \ {0} /\ Len(Roots) \in Nat
  BY RootsType, ScannerFields
<1> HIDE DEF C, H
<1>4. CASE s.at = "priority" /\ t \in Priority(i)
  <2>0. s.seenFiles \subseteq C /\ (H(s) \/ PassedWays(disk, s))
    BY <1>4 DEF CredentialsInv, C, H
  <2>1. CASE /\ s.root = Len(Roots) + 1 /\ t.at = "walk" /\ Quiet(s, t)
    <3>1. t.seenFiles = s.seenFiles /\ (H(s) => H(t))
      BY <1>2, <2>1 DEF Quiet
    <3>2. PassedWays(disk, s) => C \subseteq s.seenFiles
      BY <2>1, AllPassed DEF C
    <3> QED BY <2>0, <2>1, <3>1, <3>2 DEF CredentialsInv, C, H
  <2>2. CASE /\ s.root \in 1 .. Len(Roots) /\ t.at = "priority"
             /\ t.root = s.root + 1 /\ t.next = 1 /\ Quiet(s, t)
             /\ \/ disk[Roots[s.root]] = "relative" /\ t.incomplete
                \/ disk[Roots[s.root]] # "relative" /\ s.next > Ways(s.root)
                \/ Stopped(i) /\ t.incomplete
    <3>1. t.seenFiles = s.seenFiles /\ (H(s) => H(t))
      BY <1>2, <2>2 DEF Quiet
    <3>2. CASE H(s)
      BY <2>0, <2>2, <3>1, <3>2 DEF CredentialsInv, C, H
    <3>3. CASE ~ H(s)
      <4>1. PassedWays(disk, s)
        BY <2>0, <3>3
      <4>2. \/ disk[Roots[s.root]] = "relative"
            \/ s.next > Ways(s.root)
        BY <1>1, <2>2, <3>3
      <4>3. ASSUME NEW j \in 1 .. Len(Roots), NEW n \in 1 .. Ways(j),
                   j < t.root \/ (j = t.root /\ n < t.next), Safe(disk, Roots[j], Way(j, n))
            PROVE  Last(Way(j, n)) \in t.seenFiles
        <5>1. Ways(j) \in Nat
          BY WayType
        <5>2. j < s.root \/ j = s.root
          BY <1>3, <2>2, <4>3, <5>1
        <5>3. j = s.root => n < s.next
          <6> SUFFICES ASSUME j = s.root PROVE n < s.next
            OBVIOUS
          <6>1. disk[Roots[s.root]] # "relative"
            BY <4>3 DEF Safe, DirKinds
          <6> QED BY <1>3, <4>2, <5>1, <6>1
        <5> QED BY <3>1, <4>1, <4>3, <5>2, <5>3 DEF PassedWays
      <4>4. PassedWays(disk, t)
        BY <4>3 DEF PassedWays
      <4> QED BY <2>0, <2>2, <3>1, <4>4 DEF CredentialsInv, C, H
    <3> QED BY <3>2, <3>3
  <2>3. ASSUME s.root \in 1 .. Len(Roots), s.next \in 1 .. Ways(s.root), NEW u \in Scanner,
               u.at = "priority", u.root = s.root, u.next = s.next + 1, Quiet(s, u),
               \/ ~ Safe(disk, Roots[s.root], Way(s.root, s.next)) /\ t = u
               \/ /\ Safe(disk, Roots[s.root], Way(s.root, s.next))
                  /\ t \in ScanFile(u, Last(Way(s.root, s.next)))
        PROVE  CredentialsInv(disk, c, t)
    <3> DEFINE p == Last(Way(s.root, s.next))
    <3>1. u.seenFiles = s.seenFiles /\ (H(s) => H(u))
      BY <1>2, <2>3 DEF Quiet
    <3>2. p \in Paths
      BY <2>3, WayType
    <3>3. CASE ~ Safe(disk, Roots[s.root], Way(s.root, s.next)) /\ t = u
      <4>1. ASSUME NEW j \in 1 .. Len(Roots), NEW n \in 1 .. Ways(j), PassedWays(disk, s),
                   j < t.root \/ (j = t.root /\ n < t.next), Safe(disk, Roots[j], Way(j, n))
            PROVE  Last(Way(j, n)) \in t.seenFiles
        <5>1. Ways(j) \in Nat
          BY WayType
        <5>2. ~ (j = s.root /\ n = s.next)
          BY <3>3, <4>1
        <5>3. j < s.root \/ (j = s.root /\ n < s.next)
          BY <1>3, <2>3, <3>3, <4>1, <5>1, <5>2
        <5> QED BY <3>1, <3>3, <4>1, <5>3 DEF PassedWays
      <4>2. PassedWays(disk, s) => PassedWays(disk, t)
        BY <4>1 DEF PassedWays
      <4> QED BY <2>0, <2>3, <3>1, <3>3, <4>2 DEF CredentialsInv, C, H
    <3>4. CASE Safe(disk, Roots[s.root], Way(s.root, s.next)) /\ t \in ScanFile(u, p)
      <4>1. IsFile(p) /\ p \in C
        BY <2>3, <3>4, WayToCredential DEF Safe, IsFile, C
      <4>2. SamePlace(u, t) /\ Onward(u, t) /\ t.seenFiles = u.seenFiles \cup {p}
        <5> HIDE DEF p
        <5> QED BY <3>2, <3>4, <4>1, ScanFileEffect
      <4>3. t.at = "priority" /\ t.root = s.root /\ t.next = s.next + 1
        BY <2>3, <4>2 DEF SamePlace
      <4>4. H(u) => H(t)
        BY <4>2, HaltedOnward DEF H
      <4>5. ASSUME NEW j \in 1 .. Len(Roots), NEW n \in 1 .. Ways(j), PassedWays(disk, s),
                   j < t.root \/ (j = t.root /\ n < t.next), Safe(disk, Roots[j], Way(j, n))
            PROVE  Last(Way(j, n)) \in t.seenFiles
        <5>1. Ways(j) \in Nat
          BY WayType
        <5>2. CASE j = s.root /\ n = s.next
          BY <4>2, <5>2
        <5>3. CASE ~ (j = s.root /\ n = s.next)
          <6>1. j < s.root \/ (j = s.root /\ n < s.next)
            BY <1>3, <4>3, <4>5, <5>1, <5>3
          <6>2. Last(Way(j, n)) \in s.seenFiles
            BY <4>5, <6>1 DEF PassedWays
          <6> QED BY <3>1, <4>2, <6>2
        <5> QED BY <5>2, <5>3
      <4>6. PassedWays(disk, s) => PassedWays(disk, t)
        BY <4>5 DEF PassedWays
      <4>7. t.seenFiles \subseteq C
        BY <2>0, <3>1, <4>1, <4>2
      <4> QED BY <2>0, <3>1, <4>3, <4>4, <4>6, <4>7 DEF CredentialsInv, C, H
    <3> QED BY <2>3, <3>3, <3>4
  <2>4. CASE /\ s.root \in 1 .. Len(Roots) /\ s.next \in 1 .. Ways(s.root)
             /\ \E u \in Scanner :
                  /\ u.at = "priority" /\ u.root = s.root /\ u.next = s.next + 1
                  /\ Quiet(s, u)
                  /\ \/ ~ Safe(disk, Roots[s.root], Way(s.root, s.next)) /\ t = u
                     \/ /\ Safe(disk, Roots[s.root], Way(s.root, s.next))
                        /\ t \in ScanFile(u, Last(Way(s.root, s.next)))
    BY <2>3, <2>4
  <2> QED BY <1>4, <2>1, <2>2, <2>4, PriorityEffect
<1>5. CASE s.at = "walk" /\ t \in Walk(i)
  <2>0. C \subseteq s.seenFiles \/ (H(s) /\ s.seenFiles \subseteq C)
    BY <1>5 DEF CredentialsInv, C, H
  <2>1. CASE Quiet(s, t) /\ t.at \in {"walk", "sent"}
    <3>1. t.seenFiles = s.seenFiles /\ (H(s) => H(t))
      BY <1>2, <2>1 DEF Quiet
    <3> QED BY <2>0, <2>1, <3>1 DEF CredentialsInv, C, H
  <2>2. CASE ~ Stopped(i) /\ s.seenFiles \subseteq t.seenFiles /\ t.at = "walk"
    BY <1>1, <2>0, <2>2 DEF CredentialsInv, C, H
  <2>3. ASSUME NEW u \in Scanner, u.at = "walk", Quiet(s, u), NEW d \in Paths, t \in Enter(u, i, d)
        PROVE  Quiet(s, t) /\ t.at \in {"walk", "sent"}
    <3>1. t.at = u.at /\ Quiet(u, t)
      BY <2>3, EnterEffect
    <3> QED BY <2>3, <3>1 DEF Quiet
  <2>4. CASE /\ s.root \in 1 .. Len(Roots)
             /\ \E u : /\ Walking(s, u)
                       /\ \/ t = u
                          \/ t \in Enter(u, i, Roots[s.root])
    <3>1. Roots[s.root] \in Paths
      BY <2>4, WayType
    <3> QED BY <2>1, <2>3, <2>4, <3>1 DEF Walking
  <2> DEFINE n == Len(s.stack)
  <2>5. ASSUME n > 0, ~ Stopped(i), NEW e \in s.stack[n].left, NEW u, Walking(s, u),
               \/ t = Partial(u)
               \/ IsDir(e) /\ e \in Ignored /\ t = u
               \/ IsDir(e) /\ e \notin Ignored /\ t \in Enter(u, i, e)
               \/ IsFile(e) /\ t \in ScanFile(u, e)
               \/ t.at = "walk" /\ t.seenFiles = u.seenFiles
        PROVE  CredentialsInv(disk, c, t)
    <3>1. u \in Scanner /\ u.at = "walk" /\ Quiet(s, u) /\ u.seenFiles = s.seenFiles
      BY <2>5 DEF Walking, Quiet
    <3>2. e \in Paths
      <4> DEFINE D == [dir : DOMAIN Entries, left : SUBSET Paths]
      <4>1. s.stack \in Seq(D)
        BY ScannerFields
      <4>2. s.stack[n] \in D
        <5> HIDE DEF D
        <5> QED BY <2>5, <4>1
      <4> QED BY <4>2
    <3>3. CASE t = Partial(u)
      BY <2>2, <2>5, <3>1, <3>3, PartialEffect DEF Quiet
    <3>4. CASE IsFile(e) /\ t \in ScanFile(u, e)
      <4>1. SamePlace(u, t) /\ t.seenFiles = u.seenFiles \cup {e}
        BY <3>1, <3>2, <3>4, ScanFileEffect
      <4> QED BY <2>2, <2>5, <3>1, <4>1 DEF SamePlace
    <3>5. CASE t \in Enter(u, i, e)
      BY <2>1, <2>3, <3>1, <3>2, <3>5
    <3> QED BY <2>2, <2>5, <3>1, <3>3, <3>4, <3>5
  <2> QED BY <1>5, <2>1, <2>4, <2>5, WalkEffect DEF Walking
<1> QED BY <1>4, <1>5

-----------------------------------------------------------------------------
(* What a report that may still be complete has seen.                      *)

(* Entry e is in a directory of the stack and was not looked at yet. *)
Pending(s, e) == \E j \in 1 .. Len(s.stack) : e \in s.stack[j].left

(* On disk k, entry e is done with. *)
Handled(k, s, e) ==
  /\ k[e] \in DirKinds => e \in Ignored \/ e \in s.seenDirs
  /\ k[e] \in FileKinds => e \in s.seenFiles

(* The files read and skipped, and the other entries that were looked at. *)
Texts(k, s) == {p \in s.seenFiles : k[p] = "file"}
Binaries(k, s) == {p \in s.seenFiles : k[p] = "binary"}
Others(k, s) ==
  {e \in Paths : /\ k[e] \notin DirKinds \cup FileKinds /\ ~ Pending(s, e)
                 /\ \E d \in s.seenDirs : e \in Entries[d]}

(* The directories entered are reachable, and could be listed. *)
DirsInv(k, R, s) == \A d \in s.seenDirs : d \in R /\ k[d] = "dir"

(* The stack has different ones of them, each with entries of its own. *)
StackInv(s) ==
  /\ \A j \in 1 .. Len(s.stack) :
       s.stack[j].dir \in s.seenDirs /\ s.stack[j].left \subseteq Entries[s.stack[j].dir]
  /\ \A j, l \in 1 .. Len(s.stack) : j # l => s.stack[j].dir # s.stack[l].dir

(* Every entry but those of X is still to come or done with. *)
EntriesInv(k, s, X) ==
  \A d \in s.seenDirs : \A e \in Entries[d] : e \in X \/ Pending(s, e) \/ Handled(k, s, e)

(* The files are files, in reachable directories if those can be listed. *)
FilesInv(k, R, s) ==
  \A p \in s.seenFiles :
    /\ k[p] \in FileKinds
    /\ (\A r \in R : k[r] = "dir") => \E d \in R : p \in Entries[d]

(* The counters of the report; the entries of X are not counted yet. *)
CountInv(k, s, X) ==
  /\ s.files = Cardinality(Texts(k, s))
  /\ s.skipped = Cardinality(Binaries(k, s) \cup (Others(k, s) \ X))

TreeInv(k, R, s, X) ==
  /\ DirsInv(k, R, s) /\ StackInv(s) /\ EntriesInv(k, s, X) /\ FilesInv(k, R, s)
  /\ CountInv(k, s, X)

(* A step that moves neither in the tree nor in the counts keeps this. *)
LEMMA TreeSame ==
  ASSUME NEW k, NEW R, NEW s, NEW t, NEW X, TreeInv(k, R, s, X), SameTree(s, t),
         t.seenFiles = s.seenFiles, t.files = s.files, t.skipped = s.skipped
  PROVE  TreeInv(k, R, t, X)
<1>1. t.stack = s.stack /\ t.seenDirs = s.seenDirs
  BY DEF SameTree
<1>2. DirsInv(k, R, t) /\ StackInv(t) /\ FilesInv(k, R, t)
  BY <1>1 DEF TreeInv, DirsInv, StackInv, FilesInv
<1>3. \A e : Pending(t, e) <=> Pending(s, e)
  BY <1>1 DEF Pending
<1>4. EntriesInv(k, t, X)
  BY <1>1, <1>3 DEF TreeInv, EntriesInv, Handled
<1>5. Texts(k, t) = Texts(k, s) /\ Binaries(k, t) = Binaries(k, s) /\ Others(k, t) = Others(k, s)
  BY <1>1, <1>3 DEF Texts, Binaries, Others
<1>6. CountInv(k, t, X)
  BY <1>5 DEF TreeInv, CountInv
<1> QED BY <1>2, <1>4, <1>6 DEF TreeInv

(* The sets that are counted are finite. *)
LEMMA CountedFinite ==
  ASSUME NEW k, NEW s \in Scanner, NEW X
  PROVE  /\ IsFiniteSet(Texts(k, s)) /\ IsFiniteSet(Binaries(k, s) \cup (Others(k, s) \ X))
         /\ Cardinality(Texts(k, s)) \in Nat
         /\ Cardinality(Binaries(k, s) \cup (Others(k, s) \ X)) \in Nat
<1>1. IsFiniteSet(Paths) /\ s.seenFiles \in SUBSET Paths
  BY DiskAssumption, ScannerFields
<1>2. Texts(k, s) \in SUBSET Paths /\ Binaries(k, s) \cup (Others(k, s) \ X) \in SUBSET Paths
  BY <1>1 DEF Texts, Binaries, Others
<1> QED BY <1>1, <1>2, FS_Subset, FS_CardinalityType

(* Taking entry e from the directory on top: only e is in between. *)
LEMMA TreeTaken ==
  ASSUME NEW k \in Disks, NEW R, NEW s \in Scanner, NEW u \in Scanner, Len(s.stack) > 0,
         NEW e \in s.stack[Len(s.stack)].left, TreeInv(k, R, s, {}), Taken(s, u, e),
         u.seenFiles = s.seenFiles, u.files = s.files, u.skipped = s.skipped
  PROVE  /\ TreeInv(k, R, u, {e}) /\ ~ Pending(u, e) /\ e \in Paths
         /\ \E d \in u.seenDirs : d \in R /\ d \in DOMAIN Entries /\ e \in Entries[d]
<1> DEFINE n == Len(s.stack)
           top == s.stack[n].dir
<1>1. n \in Nat /\ n \in 1 .. n
  <2>1. s.stack \in Seq([dir : DOMAIN Entries, left : SUBSET Paths])
    BY ScannerFields
  <2> QED BY <2>1
<1>2. u.seenDirs = s.seenDirs /\ Len(u.stack) = n
  BY DEF Taken
<1>3. \A j \in 1 .. n :
        /\ u.stack[j].dir = s.stack[j].dir
        /\ j = n => u.stack[j].left = s.stack[j].left \ {e}
        /\ j # n => u.stack[j].left = s.stack[j].left
  BY DEF Taken
<1>4. \A j \in 1 .. n : u.stack[j].left \subseteq s.stack[j].left
  BY <1>3
<1>5. \A j \in 1 .. n : s.stack[j].dir \in s.seenDirs /\ s.stack[j].left \subseteq Entries[s.stack[j].dir]
  BY DEF TreeInv, StackInv
<1>6. \A j, l \in 1 .. n : j # l => s.stack[j].dir # s.stack[l].dir
  BY DEF TreeInv, StackInv
<1>7. \A d \in s.seenDirs : d \in R /\ k[d] = "dir" /\ d \in DOMAIN Entries /\ d \in Paths
  BY DiskAssumption, ScannerFields DEF TreeInv, DirsInv
<1>8. top \in s.seenDirs /\ e \in Entries[top] /\ top \in DOMAIN Entries
  BY <1>1, <1>5, <1>7
<1>9. e \in Paths
  BY <1>8, DiskAssumption
<1> HIDE DEF n, top
<1>10. ~ Pending(u, e)
  <2> SUFFICES ASSUME NEW j \in 1 .. n, e \in u.stack[j].left PROVE FALSE
    BY <1>2 DEF Pending
  <2>1. j # n
    BY <1>3
  <2>2. e \in Entries[s.stack[j].dir] /\ s.stack[j].dir \in DOMAIN Entries /\ s.stack[j].dir # top
    BY <1>1, <1>4, <1>5, <1>6, <1>7, <2>1 DEF top
  <2> QED BY <1>8, <2>2, DiskAssumption
<1>11. \A x : x # e => (Pending(u, x) <=> Pending(s, x))
  <2>1. \A x : x # e => \A j \in 1 .. n : x \in u.stack[j].left <=> x \in s.stack[j].left
    BY <1>3
  <2> QED BY <1>2, <2>1 DEF Pending, n
<1>12. Pending(s, e)
  BY <1>1 DEF Pending, n
<1>13. DirsInv(k, R, u) /\ FilesInv(k, R, u)
  BY <1>2 DEF TreeInv, DirsInv, FilesInv
<1>14. StackInv(u)
  BY <1>2, <1>3, <1>4, <1>5, <1>6 DEF StackInv
<1>15. EntriesInv(k, u, {e})
  <2> SUFFICES ASSUME NEW d \in u.seenDirs, NEW x \in Entries[d], x # e
               PROVE  Pending(u, x) \/ Handled(k, u, x)
    BY DEF EntriesInv
  <2>1. Pending(s, x) \/ Handled(k, s, x)
    BY <1>2 DEF TreeInv, EntriesInv
  <2> QED BY <1>2, <1>11, <2>1 DEF Handled
<1>16. Others(k, u) \ {e} = Others(k, s) \ {}
  <2>1. e \notin Others(k, s)
    BY <1>12 DEF Others
  <2>2. \A x : x # e => (x \in Others(k, u) <=> x \in Others(k, s))
    BY <1>2, <1>11 DEF Others
  <2> QED BY <2>1, <2>2
<1>17. CountInv(k, u, {e})
  <2>1. Texts(k, u) = Texts(k, s) /\ Binaries(k, u) = Binaries(k, s)
    BY DEF Texts, Binaries
  <2> QED BY <1>16, <2>1 DEF TreeInv, CountInv
<1> QED BY <1>2, <1>7, <1>8, <1>9, <1>10, <1>13, <1>14, <1>15, <1>17 DEF TreeInv

(* An entry that is done with needs no exception. *)
LEMMA TreeHandled ==
  ASSUME NEW k, NEW R, NEW s, NEW e, TreeInv(k, R, s, {e}), Handled(k, s, e),
         k[e] \in DirKinds \cup FileKinds
  PROVE  TreeInv(k, R, s, {})
<1>1. Others(k, s) \ {e} = Others(k, s) \ {}
  BY DEF Others
<1>2. CountInv(k, s, {})
  BY <1>1 DEF TreeInv, CountInv
<1>3. EntriesInv(k, s, {})
  BY DEF TreeInv, EntriesInv
<1> QED BY <1>2, <1>3 DEF TreeInv

(* Another entry is counted as skipped. *)
LEMMA TreeSkipped ==
  ASSUME NEW k, NEW R, NEW u \in Scanner, NEW t \in Scanner, NEW e \in Paths,
         TreeInv(k, R, u, {e}), k[e] \notin DirKinds \cup FileKinds, ~ Pending(u, e),
         \E d \in u.seenDirs : e \in Entries[d], SameTree(u, t),
         t.seenFiles = u.seenFiles, t.files = u.files, t.skipped = u.skipped + 1
  PROVE  TreeInv(k, R, t, {})
<1>1. t.stack = u.stack /\ t.seenDirs = u.seenDirs
  BY DEF SameTree
<1>2. DirsInv(k, R, t) /\ StackInv(t) /\ FilesInv(k, R, t)
  BY <1>1 DEF TreeInv, DirsInv, StackInv, FilesInv
<1>3. \A x : Pending(t, x) <=> Pending(u, x)
  BY <1>1 DEF Pending
<1>4. EntriesInv(k, t, {})
  <2>1. Handled(k, t, e)
    BY DEF Handled
  <2> QED BY <1>1, <1>3, <2>1 DEF TreeInv, EntriesInv, Handled
<1>5. Texts(k, t) = Texts(k, u) /\ Binaries(k, t) = Binaries(k, u) /\ Others(k, t) = Others(k, u)
  BY <1>1, <1>3 DEF Texts, Binaries, Others
<1> DEFINE A == Binaries(k, u) \cup (Others(k, u) \ {e})
           B == Binaries(k, t) \cup (Others(k, t) \ {})
<1>6. B = A \cup {e} /\ e \notin A
  <2>1. e \in Others(k, u)
    BY DEF Others
  <2>2. e \notin Binaries(k, u)
    BY DEF Binaries, FileKinds
  <2> QED BY <1>5, <2>1, <2>2
<1>7. IsFiniteSet(A) /\ Cardinality(A) = u.skipped /\ t.files = Cardinality(Texts(k, t))
  BY <1>5, CountedFinite DEF TreeInv, CountInv
<1> HIDE DEF A, B
<1>8. Cardinality(B) = u.skipped + 1
  <2>1. Cardinality(A \cup {e}) = IF e \in A THEN Cardinality(A) ELSE Cardinality(A) + 1
    BY <1>7, FS_AddElement, Zenon
  <2> QED BY <1>6, <1>7, <2>1
<1>9. CountInv(k, t, {})
  BY <1>7, <1>8 DEF CountInv, B
<1> QED BY <1>2, <1>4, <1>9 DEF TreeInv

(* A directory that is entered is pending with all its entries. *)
LEMMA TreeEntered ==
  ASSUME NEW k \in Disks, NEW R, NEW s \in Scanner, NEW t \in Scanner, NEW X, NEW d \in Paths,
         TreeInv(k, R, s, X), d \in R, Entered(k, s, t, d), Quiet(s, t), ~ t.incomplete
  PROVE  TreeInv(k, R, t, X) /\ d \in t.seenDirs /\ s.seenDirs \subseteq t.seenDirs
<1>1. CASE t = s
  BY <1>1 DEF Entered
<1>2. CASE t # s
  <2> DEFINE n == Len(s.stack)
             top == [dir |-> d, left |-> Entries[d]]
             D == [dir : DOMAIN Entries, left : SUBSET Paths]
  <2>1. /\ d \notin s.seenDirs /\ k[d] = "dir" /\ t.seenDirs = s.seenDirs \cup {d}
        /\ t.stack = Append(s.stack, top)
    BY <1>2 DEF Entered
  <2>2. s.stack \in Seq(D)
    BY ScannerFields
  <2>3. top.dir = d /\ top.left = Entries[d]
    OBVIOUS
  <2> HIDE DEF D, top
  <2>4. n \in Nat /\ Len(t.stack) = n + 1 /\ t.stack[n + 1] = top
        /\ \A j \in 1 .. n : t.stack[j] = s.stack[j]
    BY <2>1, <2>2
  <2> HIDE DEF n
  <2>5. \A j \in 1 .. n + 1 : j = n + 1 \/ j \in 1 .. n
    BY <2>4
  <2>6. \A x : Pending(t, x) <=> Pending(s, x) \/ x \in Entries[d]
    <3>1. ASSUME NEW x, Pending(s, x) PROVE Pending(t, x)
      <4>1. PICK j \in 1 .. n : x \in s.stack[j].left
        BY <3>1 DEF Pending, n
      <4>2. j \in 1 .. n + 1
        BY <2>4
      <4> QED BY <2>4, <4>1, <4>2 DEF Pending
    <3>2. ASSUME NEW x \in Entries[d] PROVE Pending(t, x)
      <4>1. n + 1 \in 1 .. n + 1
        BY <2>4
      <4> QED BY <2>3, <2>4, <4>1 DEF Pending
    <3>3. ASSUME NEW x, Pending(t, x) PROVE Pending(s, x) \/ x \in Entries[d]
      <4>1. PICK j \in 1 .. n + 1 : x \in t.stack[j].left
        BY <2>4, <3>3 DEF Pending
      <4> QED BY <2>3, <2>4, <2>5, <4>1 DEF Pending, n
    <3> QED BY <3>1, <3>2, <3>3
  <2>7. t.seenFiles = s.seenFiles /\ t.files = s.files /\ t.skipped = s.skipped
    BY DEF Quiet
  <2>8. DirsInv(k, R, t) /\ FilesInv(k, R, t)
    BY <2>1, <2>7 DEF TreeInv, DirsInv, FilesInv
  <2>9. StackInv(t)
    <3>1. \A j \in 1 .. n : s.stack[j].dir \in s.seenDirs
                            /\ s.stack[j].left \subseteq Entries[s.stack[j].dir]
      BY DEF TreeInv, StackInv, n
    <3>2. \A j, l \in 1 .. n : j # l => s.stack[j].dir # s.stack[l].dir
      BY DEF TreeInv, StackInv, n
    <3>3. \A j \in 1 .. n + 1 : t.stack[j].dir \in t.seenDirs
                                /\ t.stack[j].left \subseteq Entries[t.stack[j].dir]
      BY <2>1, <2>3, <2>4, <2>5, <3>1
    <3>4. \A j, l \in 1 .. n + 1 : j # l => t.stack[j].dir # t.stack[l].dir
      BY <2>1, <2>3, <2>4, <2>5, <3>1, <3>2
    <3> QED BY <2>4, <3>3, <3>4 DEF StackInv
  <2>10. EntriesInv(k, t, X)
    <3> SUFFICES ASSUME NEW c \in t.seenDirs, NEW x \in Entries[c], x \notin X
                 PROVE  Pending(t, x) \/ Handled(k, t, x)
      BY DEF EntriesInv
    <3>1. CASE c = d
      BY <2>6, <3>1
    <3>2. CASE c # d
      <4>1. Pending(s, x) \/ Handled(k, s, x)
        BY <2>1, <3>2 DEF TreeInv, EntriesInv
      <4> QED BY <2>1, <2>6, <2>7, <4>1 DEF Handled
    <3> QED BY <3>1, <3>2
  <2>11. Others(k, t) = Others(k, s)
    <3>0. d \in DOMAIN Entries /\ \A c \in s.seenDirs : c \in DOMAIN Entries
      BY <2>1, DiskAssumption, ScannerFields DEF TreeInv, DirsInv
    <3>1. ASSUME NEW x \in Others(k, t) PROVE x \in Others(k, s)
      <4>1. /\ x \in Paths /\ k[x] \notin DirKinds \cup FileKinds
            /\ ~ Pending(s, x) /\ x \notin Entries[d]
        BY <2>6 DEF Others
      <4>2. PICK c \in t.seenDirs : x \in Entries[c]
        BY DEF Others
      <4> QED BY <2>1, <4>1, <4>2 DEF Others
    <3>2. ASSUME NEW x \in Others(k, s) PROVE x \in Others(k, t)
      <4>1. x \in Paths /\ k[x] \notin DirKinds \cup FileKinds /\ ~ Pending(s, x)
        BY DEF Others
      <4>2. PICK c \in s.seenDirs : x \in Entries[c]
        BY DEF Others
      <4>3. x \notin Entries[d]
        BY <2>1, <3>0, <4>2, DiskAssumption
      <4>4. ~ Pending(t, x)
        BY <2>6, <4>1, <4>3
      <4> QED BY <2>1, <4>1, <4>2, <4>4 DEF Others
    <3> QED BY <3>1, <3>2
  <2>12. CountInv(k, t, X)
    <3>1. Texts(k, t) = Texts(k, s) /\ Binaries(k, t) = Binaries(k, s)
      BY <2>7 DEF Texts, Binaries
    <3> QED BY <2>7, <2>11, <3>1 DEF TreeInv, CountInv
  <2> QED BY <2>1, <2>8, <2>9, <2>10, <2>12 DEF TreeInv
<1> QED BY <1>1, <1>2

(* The directory above is gone back to when the one on top is done. *)
LEMMA TreeReturned ==
  ASSUME NEW k, NEW R, NEW s \in Scanner, NEW t, TreeInv(k, R, s, {}), Quiet(s, t),
         Len(s.stack) > 0, s.stack[Len(s.stack)].left = {}, t.seenDirs = s.seenDirs,
         Len(t.stack) = Len(s.stack) - 1,
         \A j \in 1 .. Len(s.stack) - 1 : t.stack[j] = s.stack[j]
  PROVE  TreeInv(k, R, t, {})
<1> DEFINE n == Len(s.stack)
<1>1. n \in Nat /\ Len(t.stack) = n - 1 /\ n > 0
  <2>1. s.stack \in Seq([dir : DOMAIN Entries, left : SUBSET Paths])
    BY ScannerFields
  <2> QED BY <2>1
<1>2. \A j \in 1 .. n - 1 : t.stack[j] = s.stack[j] /\ j \in 1 .. n
  BY <1>1
<1>3. \A j \in 1 .. n : j = n \/ j \in 1 .. n - 1
  BY <1>1
<1>4. t.seenFiles = s.seenFiles /\ t.files = s.files /\ t.skipped = s.skipped
  BY DEF Quiet
<1>5. s.stack[n].left = {}
  OBVIOUS
<1> HIDE DEF n
<1>6. \A x : Pending(t, x) <=> Pending(s, x)
  <2>1. ASSUME NEW x, Pending(t, x) PROVE Pending(s, x)
    BY <1>1, <1>2, <2>1 DEF Pending, n
  <2>2. ASSUME NEW x, Pending(s, x) PROVE Pending(t, x)
    <3>1. PICK j \in 1 .. n : x \in s.stack[j].left
      BY <2>2 DEF Pending, n
    <3>2. j \in 1 .. n - 1
      BY <1>3, <1>5, <3>1
    <3> QED BY <1>1, <1>2, <3>1, <3>2 DEF Pending
  <2> QED BY <2>1, <2>2
<1>7. DirsInv(k, R, t) /\ FilesInv(k, R, t)
  BY <1>4 DEF TreeInv, DirsInv, FilesInv
<1>8. StackInv(t)
  BY <1>1, <1>2 DEF TreeInv, StackInv, n
<1>9. EntriesInv(k, t, {})
  BY <1>4, <1>6 DEF TreeInv, EntriesInv, Handled
<1>10. Texts(k, t) = Texts(k, s) /\ Binaries(k, t) = Binaries(k, s) /\ Others(k, t) = Others(k, s)
  BY <1>4, <1>6 DEF Texts, Binaries, Others
<1>11. CountInv(k, t, {})
  BY <1>4, <1>10 DEF TreeInv, CountInv
<1> QED BY <1>7, <1>8, <1>9, <1>11 DEF TreeInv

(* A file is counted when it is read or skipped for the first time. *)
LEMMA TreeScanFile ==
  ASSUME disk \in Disks, NEW R, NEW X, NEW s \in Scanner, NEW p \in Paths, IsFile(p),
         NEW t \in ScanFile(s, p), TreeInv(disk, R, s, X), ~ t.incomplete,
         (\A r \in R : disk[r] = "dir") => \E d \in R : p \in Entries[d]
  PROVE  TreeInv(disk, R, t, X)
<1>1. /\ t \in Scanner /\ SamePlace(s, t)
      /\ t.seenFiles = s.seenFiles \cup {p}
      /\ p \in s.seenFiles => t = s
      /\ p \notin s.seenFiles =>
           \/ disk[p] = "file" /\ t.files = s.files + 1 /\ t.skipped = s.skipped
           \/ disk[p] = "binary" /\ t.files = s.files /\ t.skipped = s.skipped + 1
  BY ScanFileEffect
<1>2. CASE p \in s.seenFiles
  BY <1>1, <1>2
<1>3. CASE p \notin s.seenFiles
  <2>1. t.stack = s.stack /\ t.seenDirs = s.seenDirs
    BY <1>1 DEF SamePlace
  <2>2. DirsInv(disk, R, t) /\ StackInv(t)
    BY <2>1 DEF TreeInv, DirsInv, StackInv
  <2>3. FilesInv(disk, R, t)
    BY <1>1 DEF TreeInv, FilesInv, IsFile
  <2>4. \A x : Pending(t, x) <=> Pending(s, x)
    BY <2>1 DEF Pending
  <2>5. EntriesInv(disk, t, X)
    BY <1>1, <2>1, <2>4 DEF TreeInv, EntriesInv, Handled
  <2>6. Others(disk, t) = Others(disk, s)
    BY <2>1, <2>4 DEF Others
  <2> DEFINE A == Texts(disk, s)
             B == Binaries(disk, s) \cup (Others(disk, s) \ X)
             A1 == Texts(disk, t)
             B1 == Binaries(disk, t) \cup (Others(disk, t) \ X)
  <2>7. IsFiniteSet(A) /\ IsFiniteSet(B) /\ s.files = Cardinality(A) /\ s.skipped = Cardinality(B)
    BY CountedFinite DEF TreeInv, CountInv
  <2>8. CASE disk[p] = "file" /\ t.files = s.files + 1 /\ t.skipped = s.skipped
    <3>1. A1 = A \cup {p} /\ p \notin A
      BY <1>1, <1>3, <2>8 DEF Texts
    <3>2. B1 = B
      <4>1. Binaries(disk, t) = Binaries(disk, s)
        BY <1>1, <2>8 DEF Binaries
      <4> QED BY <2>6, <4>1
    <3> HIDE DEF A, B, A1, B1
    <3>3. Cardinality(A \cup {p}) = IF p \in A THEN Cardinality(A) ELSE Cardinality(A) + 1
      BY <2>7, FS_AddElement, Zenon
    <3>4. t.files = Cardinality(A1) /\ t.skipped = Cardinality(B1)
      BY <2>7, <2>8, <3>1, <3>2, <3>3
    <3>5. CountInv(disk, t, X)
      BY <3>4 DEF CountInv, A1, B1
    <3> QED BY <2>2, <2>3, <2>5, <3>5 DEF TreeInv
  <2>9. CASE disk[p] = "binary" /\ t.files = s.files /\ t.skipped = s.skipped + 1
    <3>1. A1 = A
      BY <1>1, <2>9 DEF Texts
    <3>2. B1 = B \cup {p} /\ p \notin B
      <4>1. Binaries(disk, t) = Binaries(disk, s) \cup {p} /\ p \notin Binaries(disk, s)
        BY <1>1, <1>3, <2>9 DEF Binaries
      <4>2. p \notin Others(disk, s)
        BY DEF Others, IsFile
      <4> QED BY <2>6, <4>1, <4>2
    <3> HIDE DEF A, B, A1, B1
    <3>3. Cardinality(B \cup {p}) = IF p \in B THEN Cardinality(B) ELSE Cardinality(B) + 1
      BY <2>7, FS_AddElement, Zenon
    <3>4. t.files = Cardinality(A1) /\ t.skipped = Cardinality(B1)
      BY <2>7, <2>9, <3>1, <3>2, <3>3
    <3>5. CountInv(disk, t, X)
      BY <3>4 DEF CountInv, A1, B1
    <3> QED BY <2>2, <2>3, <2>5, <3>5 DEF TreeInv
  <2> QED BY <1>1, <1>3, <2>8, <2>9
<1> QED BY <1>2, <1>3

(* The way to a priority file leads through reachable directories, if they *)
(* all can be listed.                                                      *)
LEMMA WayReachable ==
  ASSUME disk \in Disks, NEW j \in 1 .. Len(Roots), NEW n \in 1 .. Ways(j),
         Safe(disk, Roots[j], Way(j, n)), \A r \in Reachable : disk[r] = "dir"
  PROVE  \E d \in Reachable : Last(Way(j, n)) \in Entries[d]
<1> DEFINE r == Roots[j]
           way == Way(j, n)
           l == Len(way)
           On(m) == IF m = 0 THEN r ELSE way[m]
           T == {m \in 0 .. l - 1 : On(m) \in Reachable}
<1>1. /\ r \in Reachable /\ r \in DOMAIN PriorityFiles /\ way \in Range(PriorityFiles[r])
      /\ way \in Seq(Paths) /\ l \in Nat \ {0}
  BY WayType, ReachableLeast
<1>2. \A m \in 1 .. l :
        LET parent == IF m = 1 THEN r ELSE way[m - 1]
        IN /\ parent \in DOMAIN Entries => way[m] \in Entries[parent]
           /\ m < l => disk[way[m]] \in DirKinds /\ way[m] \notin Ignored
  <2>1. DOMAIN way = 1 .. l
    BY <1>1
  <2> HIDE DEF way, r
  <2> QED BY <1>1, <2>1, PriorityAssumption DEF Safe, way, r
<1>3. \A d \in Reachable : d \in DOMAIN Entries
  BY ReachableLeast, DiskAssumption
<1>4. ASSUME NEW m \in 1 .. l, On(m - 1) \in Reachable PROVE way[m] \in Entries[On(m - 1)]
  <2>1. On(m - 1) = IF m = 1 THEN r ELSE way[m - 1]
    BY <1>1
  <2> QED BY <1>2, <1>3, <1>4, <2>1
<1>5. 0 \in T
  BY <1>1
<1>6. ASSUME NEW m \in 1 .. l - 1, m - 1 \in T PROVE m \in T
  <2>1. m \in 1 .. l /\ m < l /\ m \in 0 .. l - 1 /\ On(m) = way[m]
    BY <1>1
  <2>2. On(m - 1) \in Reachable
    BY <1>6
  <2>3. way[m] \in Entries[On(m - 1)]
    BY <1>4, <2>1, <2>2
  <2>4. disk[way[m]] \in DirKinds /\ way[m] \notin Ignored
    BY <1>2, <2>1
  <2> HIDE DEF On, T, way, l
  <2>5. way[m] \in Below(Reachable)
    BY <1>3, <2>2, <2>3, <2>4 DEF Below, IsDir
  <2>6. way[m] \in Reachable
    BY <2>5, ReachableLeast
  <2> QED BY <2>1, <2>6 DEF T
<1>7. l - 1 \in T
  <2>1. \A m \in 1 .. l - 1 : m - 1 \in T => m \in T
    BY <1>6
  <2>2. l - 1 \in Nat /\ l - 1 \in 0 .. l - 1
    BY <1>1
  <2> HIDE DEF T, l
  <2>3. \A m \in 0 .. l - 1 : m \in T
    BY <1>5, <2>1, <2>2, UpTo
  <2> QED BY <2>2, <2>3
<1>8. l \in 1 .. l /\ On(l - 1) \in Reachable
  BY <1>1, <1>7
<1>9. way[l] \in Entries[On(l - 1)]
  BY <1>4, <1>8
<1> QED BY <1>8, <1>9 DEF Last

(* Where the scanner is: the tree is untouched until the walk, every root  *)
(* that was passed has been of use, and the walk ends after the last.      *)
PlaceInv(k, s) ==
  /\ s.at \in {"begin", "priority"} =>
       /\ s.seenDirs = {} /\ s.stack = <<>>
       /\ \A j \in 1 .. Len(Roots) : j < s.root => k[Roots[j]] # "relative"
  /\ s.at \in {"walk", "sent"} =>
       \A j \in 1 .. Len(Roots) :
         k[Roots[j]] # "relative" /\ (j < s.root => Roots[j] \in s.seenDirs)
  /\ s.at = "sent" => s.root = Len(Roots) + 1 /\ s.stack = <<>>

(* A report that may still be complete has left nothing out so far. *)
WalkInv(k, R, s) == ~ s.incomplete => TreeInv(k, R, s, {}) /\ PlaceInv(k, s)

(* The step of the priority phase leaves nothing out. *)
LEMMA WalkInvPriority ==
  ASSUME disk \in Disks, NEW i \in DOMAIN scans, scans[i] \in Scanner,
         WalkInv(disk, Reachable, scans[i]), scans[i].at = "priority", NEW t \in Priority(i)
  PROVE  WalkInv(disk, Reachable, t)
<1> DEFINE s == scans[i]
           R == Reachable
<1> SUFFICES ASSUME ~ t.incomplete PROVE TreeInv(disk, R, t, {}) /\ PlaceInv(disk, t)
  BY DEF WalkInv
<1>1. s.root \in 1 .. Len(Roots) + 1 /\ Len(Roots) \in Nat
  BY RootsType, ScannerFields
<1>2. ASSUME ~ s.incomplete
      PROVE  /\ TreeInv(disk, R, s, {}) /\ s.seenDirs = {} /\ s.stack = <<>>
             /\ \A j \in 1 .. Len(Roots) : j < s.root => disk[Roots[j]] # "relative"
  BY <1>2 DEF WalkInv, PlaceInv
<1>3. CASE /\ s.root = Len(Roots) + 1 /\ t.at = "walk" /\ t.root = 1
           /\ Quiet(s, t) /\ SameTree(s, t)
  <2>1. ~ s.incomplete
    BY <1>3 DEF Quiet
  <2>2. TreeInv(disk, R, t, {})
    BY <1>2, <1>3, <2>1, TreeSame DEF Quiet
  <2>3. \A j \in 1 .. Len(Roots) : j < s.root /\ ~ (j < t.root)
    BY <1>1, <1>3
  <2> QED BY <1>2, <1>3, <2>1, <2>2, <2>3 DEF PlaceInv
<1>4. CASE /\ s.root \in 1 .. Len(Roots) /\ t.at = "priority"
           /\ t.root = s.root + 1 /\ Quiet(s, t) /\ SameTree(s, t)
           /\ \/ disk[Roots[s.root]] = "relative" /\ t.incomplete
              \/ disk[Roots[s.root]] # "relative" /\ s.next > Ways(s.root)
              \/ Stopped(i) /\ t.incomplete
  <2>1. ~ s.incomplete
    BY <1>4 DEF Quiet
  <2>2. TreeInv(disk, R, t, {})
    BY <1>2, <1>4, <2>1, TreeSame DEF Quiet
  <2>3. disk[Roots[s.root]] # "relative"
    BY <1>4
  <2>4. \A j \in 1 .. Len(Roots) : j < t.root => j < s.root \/ j = s.root
    BY <1>1, <1>4
  <2>5. \A j \in 1 .. Len(Roots) : j < t.root => disk[Roots[j]] # "relative"
    BY <1>2, <2>1, <2>3, <2>4
  <2>6. t.seenDirs = {} /\ t.stack = <<>>
    BY <1>2, <1>4, <2>1 DEF SameTree
  <2> QED BY <1>4, <2>2, <2>5, <2>6 DEF PlaceInv
<1>5. ASSUME s.root \in 1 .. Len(Roots), s.next \in 1 .. Ways(s.root), NEW u \in Scanner,
             u.at = "priority", u.root = s.root, Quiet(s, u), SameTree(s, u),
             \/ ~ Safe(disk, Roots[s.root], Way(s.root, s.next)) /\ t = u
             \/ /\ Safe(disk, Roots[s.root], Way(s.root, s.next))
                /\ t \in ScanFile(u, Last(Way(s.root, s.next)))
      PROVE  TreeInv(disk, R, t, {}) /\ PlaceInv(disk, t)
  <2> DEFINE p == Last(Way(s.root, s.next))
  <2>1. ASSUME ~ u.incomplete
        PROVE  /\ TreeInv(disk, R, u, {}) /\ u.seenDirs = {} /\ u.stack = <<>>
               /\ \A j \in 1 .. Len(Roots) : j < u.root => disk[Roots[j]] # "relative"
    <3>1. ~ s.incomplete
      BY <1>5, <2>1 DEF Quiet
    <3>2. TreeInv(disk, R, u, {})
      BY <1>2, <1>5, <3>1, TreeSame DEF Quiet
    <3> QED BY <1>2, <1>5, <3>1, <3>2 DEF SameTree
  <2>2. CASE t = u
    BY <1>5, <2>1, <2>2 DEF PlaceInv
  <2>3. CASE Safe(disk, Roots[s.root], Way(s.root, s.next)) /\ t \in ScanFile(u, p)
    <3>1. p \in Paths /\ IsFile(p)
      BY <1>5, <2>3, WayType DEF Safe, IsFile
    <3>2. (\A r \in R : disk[r] = "dir") => \E d \in R : p \in Entries[d]
      BY <1>5, <2>3, WayReachable
    <3> HIDE DEF p, R
    <3>3. SamePlace(u, t) /\ Onward(u, t)
      BY <2>3, <3>1, ScanFileEffect
    <3>4. ~ u.incomplete
      BY <3>3 DEF Onward
    <3>5. TreeInv(disk, R, t, {})
      BY <2>1, <2>3, <3>1, <3>2, <3>4, TreeScanFile
    <3>6. t.at = "priority" /\ t.seenDirs = {} /\ t.stack = <<>> /\ t.root = u.root
      BY <1>5, <2>1, <3>3, <3>4 DEF SamePlace
    <3> QED BY <2>1, <3>4, <3>5, <3>6 DEF PlaceInv
  <2> QED BY <1>5, <2>2, <2>3
<1>6. CASE /\ s.root \in 1 .. Len(Roots) /\ s.next \in 1 .. Ways(s.root)
           /\ \E u \in Scanner :
                /\ u.at = "priority" /\ u.root = s.root
                /\ Quiet(s, u) /\ SameTree(s, u)
                /\ \/ ~ Safe(disk, Roots[s.root], Way(s.root, s.next)) /\ t = u
                   \/ /\ Safe(disk, Roots[s.root], Way(s.root, s.next))
                      /\ t \in ScanFile(u, Last(Way(s.root, s.next)))
  BY <1>5, <1>6
<1> QED BY <1>3, <1>4, <1>6, PriorityEffect

(* A step of the walk leaves nothing out. *)
LEMMA WalkInvWalk ==
  ASSUME disk \in Disks, NEW i \in DOMAIN scans, scans[i] \in Scanner,
         WalkInv(disk, Reachable, scans[i]), scans[i].at = "walk", NEW t \in Walk(i)
  PROVE  WalkInv(disk, Reachable, t)
<1> DEFINE s == scans[i]
           R == Reachable
           n == Len(s.stack)
<1> SUFFICES ASSUME ~ t.incomplete PROVE TreeInv(disk, R, t, {}) /\ PlaceInv(disk, t)
  BY DEF WalkInv
<1>1. s.root \in 1 .. Len(Roots) + 1 /\ Len(Roots) \in Nat
  BY RootsType, ScannerFields
<1>2. ASSUME ~ s.incomplete
      PROVE  /\ TreeInv(disk, R, s, {})
             /\ \A j \in 1 .. Len(Roots) :
                  disk[Roots[j]] # "relative" /\ (j < s.root => Roots[j] \in s.seenDirs)
  BY <1>2 DEF WalkInv, PlaceInv
<1>3. ASSUME ~ s.incomplete, t.at = "walk", t.root = s.root, s.seenDirs \subseteq t.seenDirs
      PROVE  PlaceInv(disk, t)
  BY <1>2, <1>3 DEF PlaceInv
<1>4. CASE /\ s.stack = <<>> /\ s.root = Len(Roots) + 1
           /\ t.at = "sent" /\ t.root = s.root /\ Quiet(s, t) /\ SameTree(s, t)
  <2>1. ~ s.incomplete
    BY <1>4 DEF Quiet
  <2>2. TreeInv(disk, R, t, {})
    BY <1>2, <1>4, <2>1, TreeSame DEF Quiet
  <2> QED BY <1>2, <1>4, <2>1, <2>2 DEF PlaceInv, SameTree
<1>5. ASSUME s.root \in 1 .. Len(Roots), NEW u, Walking(s, u), u.root = s.root + 1,
             SameTree(s, u),
             \/ disk[Roots[s.root]] = "relative" /\ t = u
             \/ t \in Enter(u, i, Roots[s.root])
      PROVE  TreeInv(disk, R, t, {}) /\ PlaceInv(disk, t)
  <2> DEFINE d == Roots[s.root]
  <2>1. u \in Scanner /\ u.at = "walk" /\ Quiet(s, u)
    BY <1>5 DEF Walking
  <2>2. CASE disk[d] = "relative" /\ t = u
    <3>1. ~ s.incomplete
      BY <2>1, <2>2 DEF Quiet
    <3> QED BY <1>2, <1>5, <2>2, <3>1
  <2>3. CASE t \in Enter(u, i, d)
    <3>1. d \in Paths /\ d \in R
      BY <1>5, WayType, ReachableLeast
    <3> HIDE DEF d, R
    <3>2. /\ t \in Scanner /\ t.at = u.at /\ t.root = u.root /\ Quiet(u, t)
          /\ Entered(disk, u, t, d)
      BY <2>1, <2>3, <3>1, EnterEffect
    <3>3. ~ u.incomplete /\ ~ s.incomplete
      BY <2>1, <3>2 DEF Quiet
    <3>4. TreeInv(disk, R, u, {})
      BY <1>2, <1>5, <2>1, <3>3, TreeSame DEF Quiet
    <3>5. TreeInv(disk, R, t, {}) /\ d \in t.seenDirs /\ u.seenDirs \subseteq t.seenDirs
      BY <2>1, <3>1, <3>2, <3>4, TreeEntered
    <3>6. s.seenDirs \subseteq t.seenDirs
      BY <1>5, <3>5 DEF SameTree
    <3>7. \A j \in 1 .. Len(Roots) : j < t.root => j < s.root \/ j = s.root
      BY <1>1, <1>5, <3>2
    <3>8. \A j \in 1 .. Len(Roots) : j < t.root => Roots[j] \in t.seenDirs
      BY <1>2, <3>3, <3>5, <3>6, <3>7 DEF d
    <3> QED BY <1>2, <2>1, <3>2, <3>3, <3>5, <3>8 DEF PlaceInv
  <2> QED BY <1>5, <2>2, <2>3
<1>6. CASE /\ n > 0 /\ Walking(s, t) /\ t.root = s.root
           /\ s.stack[n].left = {} \/ t.incomplete
           /\ t.seenDirs = s.seenDirs /\ Len(t.stack) = n - 1
           /\ \A j \in 1 .. n - 1 : t.stack[j] = s.stack[j]
  <2>1. t.at = "walk" /\ Quiet(s, t) /\ s.stack[n].left = {}
    BY <1>6 DEF Walking
  <2>2. ~ s.incomplete
    BY <2>1 DEF Quiet
  <2>3. TreeInv(disk, R, s, {})
    BY <1>2, <2>2
  <2>4. TreeInv(disk, R, t, {})
    BY <1>6, <2>1, <2>3, TreeReturned
  <2> QED BY <1>3, <1>6, <2>1, <2>2, <2>4
<1>7. ASSUME n > 0, NEW e \in s.stack[n].left, NEW u, Walking(s, u), u.root = s.root,
             Taken(s, u, e),
             \/ t = Partial(u)
             \/ IsDir(e) /\ e \in Ignored /\ t = u
             \/ IsDir(e) /\ e \notin Ignored /\ t \in Enter(u, i, e)
             \/ IsFile(e) /\ t \in ScanFile(u, e)
             \/ /\ ~ IsDir(e) /\ ~ IsFile(e) /\ t \in Scanner /\ t.at = "walk"
                /\ t.root = u.root /\ SameTree(u, t) /\ t.seenFiles = u.seenFiles
                /\ t.files = u.files /\ t.skipped = u.skipped + 1
                /\ t.incomplete = u.incomplete
      PROVE  TreeInv(disk, R, t, {}) /\ PlaceInv(disk, t)
  <2>1. /\ u \in Scanner /\ u.at = "walk" /\ Quiet(s, u) /\ u.seenDirs = s.seenDirs
        /\ u.seenFiles = s.seenFiles /\ u.files = s.files /\ u.skipped = s.skipped
    BY <1>7 DEF Walking, Quiet, Taken
  <2>2. ASSUME ~ u.incomplete
        PROVE  /\ ~ s.incomplete /\ TreeInv(disk, R, u, {e}) /\ ~ Pending(u, e) /\ e \in Paths
               /\ \E d \in u.seenDirs : d \in R /\ d \in DOMAIN Entries /\ e \in Entries[d]
    <3>1. ~ s.incomplete
      BY <2>1, <2>2 DEF Quiet
    <3>2. TreeInv(disk, R, s, {})
      BY <1>2, <3>1
    <3> HIDE DEF R
    <3> QED BY <1>7, <2>1, <3>1, <3>2, TreeTaken
  <2>3. CASE t = Partial(u)
    BY <2>1, <2>3, PartialEffect
  <2>4. CASE IsDir(e) /\ e \in Ignored /\ t = u
    <3>1. Handled(disk, u, e) /\ disk[e] \in DirKinds \cup FileKinds
      BY <2>4 DEF Handled, IsDir, DirKinds, FileKinds
    <3>2. TreeInv(disk, R, u, {})
      BY <2>2, <2>4, <3>1, TreeHandled
    <3> QED BY <1>3, <1>7, <2>1, <2>2, <2>4, <3>2
  <2>5. CASE IsDir(e) /\ e \notin Ignored /\ t \in Enter(u, i, e)
    <3>0. e \in Paths
      <4> DEFINE D == [dir : DOMAIN Entries, left : SUBSET Paths]
      <4>1. s.stack \in Seq(D)
        BY ScannerFields
      <4>2. s.stack[n] \in D
        <5> HIDE DEF D
        <5> QED BY <1>7, <4>1
      <4> QED BY <4>2
    <3>1. /\ t \in Scanner /\ t.at = u.at /\ t.root = u.root /\ Quiet(u, t)
          /\ Entered(disk, u, t, e)
      BY <2>1, <2>5, <3>0, EnterEffect
    <3>2. ~ u.incomplete
      BY <3>1 DEF Quiet
    <3>3. e \in Below(R)
      BY <2>2, <2>5, <3>2 DEF Below
    <3>4. e \in R
      BY <3>3, ReachableLeast
    <3> HIDE DEF R
    <3>5. TreeInv(disk, R, t, {e}) /\ e \in t.seenDirs /\ u.seenDirs \subseteq t.seenDirs
      BY <2>1, <2>2, <3>0, <3>1, <3>2, <3>4, TreeEntered
    <3>6. Handled(disk, t, e) /\ disk[e] \in DirKinds \cup FileKinds
      BY <2>5, <3>5 DEF Handled, IsDir, DirKinds, FileKinds
    <3>7. TreeInv(disk, R, t, {})
      BY <3>5, <3>6, TreeHandled
    <3> QED BY <1>3, <1>7, <2>1, <2>2, <3>1, <3>2, <3>5, <3>7
  <2>6. CASE IsFile(e) /\ t \in ScanFile(u, e)
    <3>0. e \in Paths
      <4> DEFINE D == [dir : DOMAIN Entries, left : SUBSET Paths]
      <4>1. s.stack \in Seq(D)
        BY ScannerFields
      <4>2. s.stack[n] \in D
        <5> HIDE DEF D
        <5> QED BY <1>7, <4>1
      <4> QED BY <4>2
    <3>1. t \in Scanner /\ SamePlace(u, t) /\ Onward(u, t) /\ t.seenFiles = u.seenFiles \cup {e}
      BY <2>1, <2>6, <3>0, ScanFileEffect
    <3>2. ~ u.incomplete
      BY <3>1 DEF Onward
    <3>3. (\A r \in R : disk[r] = "dir") => \E d \in R : e \in Entries[d]
      BY <2>2, <3>2
    <3> HIDE DEF R
    <3>4. TreeInv(disk, R, t, {e})
      BY <2>1, <2>2, <2>6, <3>0, <3>2, <3>3, TreeScanFile
    <3>5. Handled(disk, t, e) /\ disk[e] \in DirKinds \cup FileKinds
      BY <2>6, <3>1 DEF Handled, IsFile, DirKinds, FileKinds
    <3>6. TreeInv(disk, R, t, {})
      BY <3>4, <3>5, TreeHandled
    <3>7. t.at = "walk" /\ t.root = s.root /\ s.seenDirs \subseteq t.seenDirs
      BY <1>7, <2>1, <3>1 DEF SamePlace
    <3> QED BY <1>3, <2>2, <3>2, <3>6, <3>7
  <2>7. CASE /\ ~ IsDir(e) /\ ~ IsFile(e) /\ t \in Scanner /\ t.at = "walk"
             /\ t.root = u.root /\ SameTree(u, t) /\ t.seenFiles = u.seenFiles
             /\ t.files = u.files /\ t.skipped = u.skipped + 1
             /\ t.incomplete = u.incomplete
    <3>1. ~ u.incomplete
      BY <2>7
    <3>2. disk[e] \notin DirKinds \cup FileKinds
      BY <2>7 DEF IsDir, IsFile
    <3>3. \E d \in u.seenDirs : e \in Entries[d]
      BY <2>2, <3>1
    <3>4. TreeInv(disk, R, u, {e}) /\ ~ Pending(u, e) /\ e \in Paths /\ ~ s.incomplete
      BY <2>2, <3>1
    <3> HIDE DEF R
    <3>5. TreeInv(disk, R, t, {})
      BY <2>1, <2>7, <3>2, <3>3, <3>4, TreeSkipped
    <3>6. t.root = s.root /\ s.seenDirs \subseteq t.seenDirs
      BY <1>7, <2>1, <2>7 DEF SameTree
    <3> QED BY <1>3, <2>7, <3>4, <3>5, <3>6
  <2> QED BY <1>7, <2>3, <2>4, <2>5, <2>6, <2>7
<1> QED BY <1>4, <1>5, <1>6, <1>7, WalkEffect

(* A report without the notice is about everything that is reachable. *)
LEMMA NothingLeftOut ==
  ASSUME disk \in Disks, NEW s \in Scanner, WalkInv(disk, Reachable, s), s.at = "sent",
         ~ s.incomplete
  PROVE  /\ \A r \in Reachable : disk[r] = "dir"
         /\ {p \in Leaves : disk[p] = "file"} = Texts(disk, s)
         /\ s.files = Cardinality({p \in Leaves : disk[p] = "file"})
         /\ s.skipped = Cardinality({p \in Leaves : disk[p] # "file"})
<1> DEFINE R == Reachable
<1>1. /\ DirsInv(disk, R, s) /\ StackInv(s) /\ EntriesInv(disk, s, {}) /\ FilesInv(disk, R, s)
      /\ CountInv(disk, s, {}) /\ s.root = Len(Roots) + 1 /\ s.stack = <<>>
      /\ \A j \in 1 .. Len(Roots) : j < s.root => Roots[j] \in s.seenDirs
  BY DEF WalkInv, TreeInv, PlaceInv
<1>2. \A e : ~ Pending(s, e)
  BY <1>1 DEF Pending
<1>3. \A d \in s.seenDirs : d \in R /\ disk[d] = "dir" /\ d \in DOMAIN Entries
  BY <1>1, DiskAssumption, ScannerFields DEF DirsInv
<1>4. \A d \in s.seenDirs : \A e \in Entries[d] : Handled(disk, s, e)
  BY <1>1, <1>2 DEF EntriesInv
<1>5. R \subseteq s.seenDirs
  <2>1. Range(Roots) \subseteq s.seenDirs
    <3>1. \A j \in 1 .. Len(Roots) : j < s.root
      BY <1>1, RootsType
    <3> QED BY <1>1, <3>1, RootsType DEF Range
  <2>2. Below(s.seenDirs) \subseteq s.seenDirs
    BY <1>4 DEF Below, Handled, IsDir
  <2> QED BY <2>1, <2>2, ReachableLeast
<1>6. R = s.seenDirs
  BY <1>3, <1>5
<1>7. \A r \in R : disk[r] = "dir" /\ r \in DOMAIN Entries
  BY <1>3, <1>6
<1>8. s.seenFiles \subseteq Leaves
  <2> SUFFICES ASSUME NEW p \in s.seenFiles PROVE p \in Leaves
    OBVIOUS
  <2>1. disk[p] \in FileKinds /\ \E d \in R : p \in Entries[d]
    BY <1>1, <1>7 DEF FilesInv
  <2>2. ~ IsDir(p)
    BY <2>1 DEF IsDir, DirKinds, FileKinds
  <2> QED BY <1>7, <2>1, <2>2 DEF Leaves
<1>9. \A p \in Leaves : /\ p \in Paths /\ disk[p] \notin DirKinds
                        /\ \E d \in s.seenDirs : p \in Entries[d]
                        /\ disk[p] \in FileKinds => p \in s.seenFiles
  <2> SUFFICES ASSUME NEW p \in Leaves
               PROVE  /\ p \in Paths /\ disk[p] \notin DirKinds
                      /\ \E d \in s.seenDirs : p \in Entries[d]
                      /\ disk[p] \in FileKinds => p \in s.seenFiles
    OBVIOUS
  <2>1. PICK d \in R : p \in Entries[d] /\ d \in DOMAIN Entries
    BY DEF Leaves
  <2>2. p \in Paths
    BY <2>1, DiskAssumption
  <2>3. disk[p] \notin DirKinds
    BY DEF Leaves, IsDir
  <2> QED BY <1>4, <1>6, <2>1, <2>2, <2>3 DEF Handled
<1>10. {p \in Leaves : disk[p] = "file"} = Texts(disk, s)
  BY <1>8, <1>9 DEF Texts, FileKinds
<1>11. {p \in Leaves : disk[p] # "file"} = Binaries(disk, s) \cup (Others(disk, s) \ {})
  <2>1. ASSUME NEW p \in Leaves, disk[p] # "file" PROVE p \in Binaries(disk, s) \cup Others(disk, s)
    <3>1. CASE disk[p] \in FileKinds
      BY <1>9, <2>1, <3>1 DEF Binaries, FileKinds
    <3>2. CASE disk[p] \notin FileKinds
      BY <1>2, <1>9, <2>1, <3>2 DEF Others
    <3> QED BY <3>1, <3>2
  <2>2. ASSUME NEW p \in Binaries(disk, s) PROVE p \in Leaves /\ disk[p] # "file"
    BY <1>8 DEF Binaries
  <2>3. ASSUME NEW p \in Others(disk, s) PROVE p \in Leaves /\ disk[p] # "file"
    <3>1. disk[p] \notin DirKinds \cup FileKinds /\ \E d \in s.seenDirs : p \in Entries[d]
      BY DEF Others
    <3>2. disk[p] # "file"
      BY <3>1 DEF FileKinds
    <3> QED BY <1>3, <1>6, <3>1, <3>2 DEF Leaves, IsDir
  <2> QED BY <2>1, <2>2, <2>3
<1> QED BY <1>1, <1>7, <1>10, <1>11 DEF CountInv

-----------------------------------------------------------------------------
(* The invariant of the specification.                                     *)

ScanInv(k, R, c, s) == FindingsInv(k, s) /\ CredentialsInv(k, c, s) /\ WalkInv(k, R, s)

ScansInv == \A i \in DOMAIN scans : ScanInv(disk, Reachable, i \in cancelled, scans[i])

IInv == TypeOK /\ ScansInv /\ OnlyThisScanIsShown

(* A new scanner has seen nothing. *)
LEMMA NewScannerInv ==
  ASSUME NEW k, NEW R, NEW c
  PROVE  NewScanner \in Scanner /\ ScanInv(k, R, c, NewScanner)
<1> DEFINE s == NewScanner
<1>1. /\ s.at = "begin" /\ s.root = 1 /\ s.next = 1 /\ s.stack = <<>> /\ s.seenFiles = {}
      /\ s.seenDirs = {} /\ s.files = 0 /\ s.skipped = 0 /\ s.findings = <<>>
  BY DEF NewScanner
<1>2. s \in Scanner
  <2>1. 1 \in 1 .. Len(Roots) + 1
    BY RootsType
  <2>2. <<>> \in Seq([dir : DOMAIN Entries, left : SUBSET Paths]) /\ <<>> \in Seq(Finding)
    OBVIOUS
  <2> QED BY <2>1, <2>2 DEF NewScanner, Scanner
<1> HIDE DEF s
<1>3. FindingsInv(k, s)
  BY <1>1 DEF FindingsInv, Range
<1>4. CredentialsInv(k, c, s)
  <2>1. \A j \in 1 .. Len(Roots) : \A n \in 1 .. Ways(j) :
          ~ (j < 1 \/ (j = 1 /\ n < 1))
    BY RootsType, WayType
  <2>2. PassedWays(k, s)
    BY <1>1, <2>1 DEF PassedWays
  <2> QED BY <1>1, <2>2 DEF CredentialsInv
<1>5. WalkInv(k, R, s)
  <2>1. DirsInv(k, R, s) /\ StackInv(s) /\ EntriesInv(k, s, {}) /\ FilesInv(k, R, s)
    BY <1>1 DEF DirsInv, StackInv, EntriesInv, FilesInv
  <2>2. Texts(k, s) = {} /\ Binaries(k, s) \cup (Others(k, s) \ {}) = {}
    BY <1>1 DEF Texts, Binaries, Others
  <2>3. CountInv(k, s, {})
    BY <1>1, <2>2, FS_EmptySet DEF CountInv
  <2>4. \A j \in 1 .. Len(Roots) : ~ (j < 1)
    BY RootsType
  <2>5. PlaceInv(k, s)
    BY <1>1, <2>4 DEF PlaceInv
  <2> QED BY <2>1, <2>3, <2>5 DEF WalkInv, TreeInv
<1> QED BY <1>2, <1>3, <1>4, <1>5 DEF ScanInv, s

(* A cancelled scan is only stopped the more. *)
LEMMA CancelledInv ==
  ASSUME NEW k, NEW R, NEW c, NEW b, NEW s, ScanInv(k, R, c, s), c => b
  PROVE  ScanInv(k, R, b, s)
<1>1. Halted(c, s) => Halted(b, s)
  BY DEF Halted
<1>2. CredentialsInv(k, c, s)
  BY DEF ScanInv
<1>3. CredentialsInv(k, b, s)
  BY <1>1, <1>2 DEF CredentialsInv
<1> QED BY <1>3 DEF ScanInv

(* The disk does not change, and so neither does what is reachable. *)
LEMMA ReachableSame ==
  ASSUME disk' = disk
  PROVE  Reachable' = Reachable
BY DEF Reachable, IsDir

(* One step of a thread, or the end of its time or of its life. *)
LEMMA ThreadInv ==
  ASSUME disk \in Disks, NEW i \in DOMAIN scans, scans[i] \in Scanner, NEW t,
         ScanInv(disk, Reachable, i \in cancelled, scans[i]),
         \/ scans[i].at = "begin" /\ t \in Begin(i)
         \/ scans[i].at = "priority" /\ t \in Priority(i)
         \/ scans[i].at = "walk" /\ t \in Walk(i)
         \/ t = [scans[i] EXCEPT !.late = TRUE]
         \/ t = [scans[i] EXCEPT !.at = "died"]
  PROVE  t \in Scanner /\ ScanInv(disk, Reachable, i \in cancelled, t)
<1> DEFINE s == scans[i]
           R == Reachable
           c == i \in cancelled
<1>1. FindingsInv(disk, s) /\ CredentialsInv(disk, c, s) /\ WalkInv(disk, R, s)
  BY DEF ScanInv
<1>2. CASE s.at = "priority" /\ t \in Priority(i)
  <2>1. t \in Scanner /\ FindingsInv(disk, t)
    BY <1>1, <1>2, FindingsStep
  <2>2. CredentialsInv(disk, c, t)
    BY <1>1, <1>2, <2>1, CredentialsStep
  <2>3. WalkInv(disk, R, t)
    BY <1>1, <1>2, WalkInvPriority
  <2> QED BY <2>1, <2>2, <2>3 DEF ScanInv
<1>3. CASE s.at = "walk" /\ t \in Walk(i)
  <2>1. t \in Scanner /\ FindingsInv(disk, t)
    BY <1>1, <1>3, FindingsStep
  <2>2. CredentialsInv(disk, c, t)
    BY <1>1, <1>3, <2>1, CredentialsStep
  <2>3. WalkInv(disk, R, t)
    BY <1>1, <1>3, WalkInvWalk
  <2> QED BY <2>1, <2>2, <2>3 DEF ScanInv
<1>4. ASSUME t \in Scanner, SameTree(s, t), t.seenFiles = s.seenFiles, t.files = s.files,
             t.skipped = s.skipped, t.findings = s.findings, t.incomplete = s.incomplete,
             t.root = s.root, t.next = s.next, s.late => t.late,
             t.at = s.at \/ t.at \in {"failed", "died"} \/ (s.at = "begin" /\ t.at = "priority")
      PROVE  ScanInv(disk, R, c, t)
  <2> HIDE DEF R, c
  <2>1. FindingsInv(disk, t)
    BY <1>1, <1>4, FindingsSame
  <2>2. (Halted(c, s) => Halted(c, t)) /\ (PassedWays(disk, s) => PassedWays(disk, t))
    BY <1>4 DEF Halted, PassedWays
  <2>3. CredentialsInv(disk, c, t)
    BY <1>1, <1>4, <2>2 DEF CredentialsInv
  <2>4. ASSUME ~ t.incomplete PROVE TreeInv(disk, R, t, {}) /\ PlaceInv(disk, t)
    <3>1. TreeInv(disk, R, s, {}) /\ PlaceInv(disk, s)
      BY <1>1, <1>4, <2>4 DEF WalkInv
    <3>2. TreeInv(disk, R, t, {})
      BY <1>4, <3>1, TreeSame
    <3>3. PlaceInv(disk, t)
      BY <1>4, <3>1 DEF PlaceInv, SameTree
    <3> QED BY <3>2, <3>3
  <2> QED BY <2>1, <2>3, <2>4 DEF ScanInv, WalkInv
<1>5. ASSUME NEW v \in {"priority", "failed", "died"}, t = [s EXCEPT !.at = v],
             v = "priority" => s.at = "begin"
      PROVE  t \in Scanner /\ ScanInv(disk, R, c, t)
  <2>1. t \in Scanner
    BY <1>5, ScannerUpdate
  <2>2. /\ SameTree(s, t) /\ t.seenFiles = s.seenFiles /\ t.files = s.files
        /\ t.skipped = s.skipped /\ t.findings = s.findings /\ t.incomplete = s.incomplete
        /\ t.root = s.root /\ t.next = s.next /\ t.late = s.late /\ t.at = v
    BY <1>5 DEF Scanner, SameTree
  <2> QED BY <1>4, <1>5, <2>1, <2>2
<1>6. CASE s.at = "begin" /\ t \in Begin(i)
  <2>1. t = [s EXCEPT !.at = "priority"] \/ t = [s EXCEPT !.at = "failed"]
    BY <1>6 DEF Begin
  <2> QED BY <1>5, <1>6, <2>1
<1>7. CASE t = [s EXCEPT !.late = TRUE]
  <2>1. t \in Scanner
    BY <1>7, ScannerUpdate
  <2>2. /\ SameTree(s, t) /\ t.seenFiles = s.seenFiles /\ t.files = s.files
        /\ t.skipped = s.skipped /\ t.findings = s.findings /\ t.incomplete = s.incomplete
        /\ t.root = s.root /\ t.next = s.next /\ t.late /\ t.at = s.at
    BY <1>7 DEF Scanner, SameTree
  <2> QED BY <1>4, <2>1, <2>2
<1>8. CASE t = [s EXCEPT !.at = "died"]
  BY <1>5, <1>8
<1> QED BY <1>2, <1>3, <1>6, <1>7, <1>8

(* The invariant holds at the start. *)
LEMMA IInvInit == Init => IInv
<1> SUFFICES ASSUME Init PROVE IInv
  OBVIOUS
<1>1. scans = <<>> /\ DOMAIN scans = {} /\ Len(scans) = 0
  BY DEF Init
<1>2. <<>> \in Seq(Scanner)
  OBVIOUS
<1>3. TypeOK
  BY <1>1, <1>2 DEF Init, TypeOK, NewUtilities, NoReport
<1>4. ScansInv
  BY <1>1 DEF ScansInv
<1>5. OnlyThisScanIsShown
  BY DEF Init, OnlyThisScanIsShown, NewUtilities
<1> QED BY <1>3, <1>4, <1>5 DEF IInv

(* A step of one thread keeps it. *)
LEMMA IInvThread ==
  ASSUME IInv, NEW i \in DOMAIN scans, ScanStep(i) \/ TimeUp(i) \/ Die(i)
  PROVE  IInv'
<1>1. disk \in Disks /\ scans \in Seq(Scanner) /\ scans[i] \in Scanner
      /\ ScanInv(disk, Reachable, i \in cancelled, scans[i])
  BY DEF IInv, TypeOK, ScansInv
<1>2. disk' = disk /\ cancelled' = cancelled /\ ui' = ui /\ barrier' = barrier
  BY DEF ScanStep, TimeUp, Die
<1>3. \E t : /\ scans' = [scans EXCEPT ![i] = t]
             /\ \/ scans[i].at = "begin" /\ t \in Begin(i)
                \/ scans[i].at = "priority" /\ t \in Priority(i)
                \/ scans[i].at = "walk" /\ t \in Walk(i)
                \/ t = [scans[i] EXCEPT !.late = TRUE]
                \/ t = [scans[i] EXCEPT !.at = "died"]
  <2>1. CASE ScanStep(i)
    <3>1. scans[i].at \in {"begin", "priority", "walk"}
      BY <2>1 DEF ScanStep, Running
    <3>2. CASE scans[i].at = "begin"
      BY <2>1, <3>2 DEF ScanStep
    <3>3. CASE scans[i].at = "priority"
      BY <2>1, <3>3 DEF ScanStep
    <3>4. CASE scans[i].at = "walk"
      BY <2>1, <3>4 DEF ScanStep
    <3> QED BY <3>1, <3>2, <3>3, <3>4
  <2>2. CASE TimeUp(i)
    BY <2>2 DEF TimeUp
  <2>3. CASE Die(i)
    BY <2>3 DEF Die
  <2> QED BY <2>1, <2>2, <2>3
<1>4. PICK t : /\ scans' = [scans EXCEPT ![i] = t]
               /\ \/ scans[i].at = "begin" /\ t \in Begin(i)
                  \/ scans[i].at = "priority" /\ t \in Priority(i)
                  \/ scans[i].at = "walk" /\ t \in Walk(i)
                  \/ t = [scans[i] EXCEPT !.late = TRUE]
                  \/ t = [scans[i] EXCEPT !.at = "died"]
  BY <1>3
<1>5. t \in Scanner /\ ScanInv(disk, Reachable, i \in cancelled, t)
  BY <1>1, <1>4, ThreadInv
<1>6. scans' \in Seq(Scanner) /\ Len(scans') = Len(scans) /\ DOMAIN scans' = DOMAIN scans
  BY <1>1, <1>4, <1>5
<1>7. TypeOK'
  BY <1>2, <1>6 DEF IInv, TypeOK
<1>8. ScansInv'
  <2> SUFFICES ASSUME NEW l \in DOMAIN scans
               PROVE  ScanInv(disk, Reachable, l \in cancelled, scans'[l])
    BY <1>2, <1>6, ReachableSame DEF ScansInv
  <2>1. CASE l = i
    BY <1>1, <1>4, <1>5, <2>1
  <2>2. CASE l # i
    <3>1. scans'[l] = scans[l]
      BY <1>1, <1>4, <2>2
    <3> QED BY <3>1 DEF IInv, ScansInv
  <2> QED BY <2>1, <2>2
<1>9. OnlyThisScanIsShown'
  BY <1>2, <1>6 DEF IInv, OnlyThisScanIsShown, NoReport
<1> QED BY <1>7, <1>8, <1>9 DEF IInv

(* So does a step of the window that starts no scan and may cancel some. *)
LEMMA IInvWindow ==
  ASSUME IInv, disk' = disk, scans' = scans, cancelled \subseteq cancelled',
         TypeOK', OnlyThisScanIsShown'
  PROVE  IInv'
<1>1. ScansInv'
  <2> SUFFICES ASSUME NEW l \in DOMAIN scans
               PROVE  ScanInv(disk, Reachable, l \in cancelled', scans[l])
    BY ReachableSame DEF ScansInv
  <2>1. ScanInv(disk, Reachable, l \in cancelled, scans[l])
    BY DEF IInv, ScansInv
  <2>2. l \in cancelled => l \in cancelled'
    OBVIOUS
  <2> QED BY <2>1, <2>2, CancelledInv
<1> QED BY <1>1 DEF IInv

(* A frame of the window: a scan that is started is the last one, and its  *)
(* result replaces what was shown.                                         *)
LEMMA IInvFrame ==
  ASSUME IInv, NEW click \in BOOLEAN, NEW cancel \in BOOLEAN, NEW close \in BOOLEAN,
         NEW id \in 0 .. MaxScans[disk], ShowExposureScan(click, id, cancel, close)
  PROVE  IInv'
<1> DEFINE n == Len(scans)
           U(m) == [open : BOOLEAN, task : 0 .. m, report : [of : 0 .. m], error : BOOLEAN]
           starts == click /\ ui.task = 0
           clicked == IF click THEN [ui EXCEPT !.open = TRUE] ELSE ui
           started == IF starts THEN Start(clicked, id) ELSE clicked
           polled == Received(started)
           closed == [polled EXCEPT !.open = FALSE, !.task = 0]
           m == IF id # 0 THEN n + 1 ELSE n
           Good(u) == /\ u.report # NoReport => u.report.of = m /\ u.report.of > barrier
                      /\ u.task # 0 => u.task = m /\ u.task > barrier
<1>1. /\ disk \in Disks /\ scans \in Seq(Scanner) /\ n \in Nat /\ ui \in U(n)
      /\ barrier \in 0 .. n /\ cancelled \subseteq DOMAIN scans /\ DOMAIN scans = 1 .. n
  BY DEF IInv, TypeOK
<1>2. /\ id # 0 => starts /\ id = n + 1
      /\ scans' = IF id # 0 THEN Append(scans, NewScanner) ELSE scans
      /\ cancel => polled.task # 0
      /\ ui' = IF close THEN closed ELSE polled
      /\ cancelled' = cancelled \cup (IF ui'.task # started.task THEN Dropped(started) ELSE {})
                                \cup (IF cancel THEN {polled.task} ELSE {})
      /\ disk' = disk /\ barrier' = barrier
  BY DEF ShowExposureScan
<1>3. m \in Nat /\ m >= n /\ 0 .. n \subseteq 0 .. m /\ 1 .. n \subseteq 1 .. m /\ (id = 0 => m = n)
  <2>1. m \in Nat /\ m >= n /\ (id = 0 => m = n)
    <3>1. (id = 0 /\ m = n) \/ (id # 0 /\ m = n + 1)
      OBVIOUS
    <3> HIDE DEF m, n
    <3> QED BY <1>1, <3>1
  <2> HIDE DEF m, n
  <2>2. 0 .. n \subseteq 0 .. m /\ 1 .. n \subseteq 1 .. m
    BY <1>1, <2>1
  <2> QED BY <2>1, <2>2
<1>4. ui \in U(m) /\ NoReport \in [of : 0 .. m]
  <2> HIDE DEF m, n
  <2>1. NoReport \in [of : 0 .. m]
    BY <1>3 DEF NoReport
  <2>2. ui.report \in [of : 0 .. m] /\ ui.task \in 0 .. m
    BY <1>1, <1>3
  <2>3. ui = [open |-> ui.open, task |-> ui.task, report |-> ui.report, error |-> ui.error]
        /\ ui.open \in BOOLEAN /\ ui.error \in BOOLEAN
    BY <1>1
  <2> QED BY <2>1, <2>2, <2>3
<1>5. clicked \in U(m) /\ clicked.task = ui.task /\ clicked.report = ui.report
  BY <1>4
<1>6. id \in 0 .. m
  <2>1. id = 0 \/ id = m
    BY <1>2
  <2> HIDE DEF m
  <2> QED BY <1>3, <2>1
<1>7. started \in U(m) /\ Good(started)
  <2> HIDE DEF clicked, m, starts
  <2>1. CASE starts
    <3>1. started = [clicked EXCEPT !.report = NoReport, !.task = id, !.error = (id = 0)]
      BY <2>1 DEF Start
    <3>2. started \in U(m)
      BY <1>4, <1>5, <1>6, <3>1
    <3>3. started.report = NoReport /\ started.task = id
      BY <1>5, <3>1
    <3>4. id # 0 => id = m /\ id > barrier
      BY <1>1, <1>2 DEF m
    <3> QED BY <3>2, <3>3, <3>4
  <2>2. CASE ~ starts
    <3>1. started = clicked /\ id = 0
      BY <1>2, <2>2
    <3>2. m = n
      BY <3>1 DEF m
    <3>3. Good(ui)
      BY <3>2 DEF IInv, OnlyThisScanIsShown
    <3> QED BY <1>5, <3>1, <3>3
  <2> QED BY <2>1, <2>2
<1> HIDE DEF started
<1>8. /\ polled \in U(m) /\ Good(polled)
      /\ polled.task = started.task \/ polled.task = 0
  <2> HIDE DEF m
  <2>0. started.task \in 0 .. m /\ started \in U(m)
    BY <1>7
  <2>1. CASE polled = started
    BY <1>7, <2>1
  <2>2. CASE polled # started
    <3>1. started.task # 0
      BY <2>2 DEF Received
    <3>2. \/ polled = [started EXCEPT !.task = 0, !.error = FALSE, !.report = [of |-> started.task]]
          \/ polled = [started EXCEPT !.task = 0, !.error = TRUE, !.report = NoReport]
      BY <2>2 DEF Received
    <3>3. CASE polled = [started EXCEPT !.task = 0, !.error = FALSE, !.report = [of |-> started.task]]
      <4> HIDE DEF polled
      <4>0. [of |-> started.task] \in [of : 0 .. m] /\ 0 \in 0 .. m
        BY <1>3, <2>0
      <4>1. polled \in U(m)
        BY <2>0, <3>3, <4>0
      <4>2. polled.task = 0 /\ polled.report = [of |-> started.task]
        BY <2>0, <3>3
      <4>3. polled.report.of = started.task
        BY <4>2
      <4>4. started.task = m /\ started.task > barrier
        BY <1>7, <3>1
      <4> QED BY <4>1, <4>2, <4>3, <4>4
    <3>4. CASE polled = [started EXCEPT !.task = 0, !.error = TRUE, !.report = NoReport]
      <4> HIDE DEF polled
      <4>0. NoReport \in [of : 0 .. m] /\ 0 \in 0 .. m
        BY <1>3, <1>4
      <4>1. polled \in U(m)
        BY <2>0, <3>4, <4>0
      <4>2. polled.task = 0 /\ polled.report = NoReport
        BY <2>0, <3>4
      <4> QED BY <4>1, <4>2
    <3> QED BY <3>2, <3>3, <3>4
  <2> QED BY <2>1, <2>2
<1> HIDE DEF polled
<1>9. closed \in U(m) /\ Good(closed)
  <2> HIDE DEF m
  <2>0. 0 \in 0 .. m
    BY <1>3
  <2>1. closed \in U(m)
    BY <1>8, <2>0
  <2>2. closed.task = 0 /\ closed.report = polled.report
    BY <1>8
  <2> QED BY <1>8, <2>1, <2>2
<1>10. ui' \in U(m) /\ Good(ui')
  <2> HIDE DEF closed, U, Good
  <2> QED BY <1>2, <1>8, <1>9
<1>11. scans' \in Seq(Scanner) /\ Len(scans') = m /\ DOMAIN scans' = 1 .. m
  <2>1. NewScanner \in Scanner
    BY NewScannerInv
  <2> QED BY <1>1, <1>2, <2>1
<1>12. cancelled \subseteq cancelled' /\ cancelled' \subseteq 1 .. m
  <2> HIDE DEF m
  <2>1. started.task \in 0 .. m /\ polled.task \in 0 .. m
    BY <1>7, <1>8
  <2>2. Dropped(started) \subseteq 1 .. m
    BY <1>3, <2>1 DEF Dropped
  <2>3. cancel => polled.task \in 1 .. m
    BY <1>2, <1>3, <2>1
  <2>4. cancelled \subseteq 1 .. m
    BY <1>1, <1>3
  <2> QED BY <1>2, <2>2, <2>3, <2>4
<1>13. TypeOK'
  <2> HIDE DEF m
  <2>1. barrier' \in 0 .. m /\ disk' \in Disks
    BY <1>1, <1>2, <1>3
  <2> QED BY <1>10, <1>11, <1>12, <2>1 DEF TypeOK
<1>14. OnlyThisScanIsShown'
  BY <1>2, <1>10, <1>11 DEF OnlyThisScanIsShown, NoReport
<1>15. ScansInv'
  <2> SUFFICES ASSUME NEW l \in 1 .. m
               PROVE  ScanInv(disk, Reachable, l \in cancelled', scans'[l])
    BY <1>2, <1>11, ReachableSame DEF ScansInv
  <2>1. CASE l \in 1 .. n
    <3>1. scans'[l] = scans[l]
      BY <1>1, <1>2, <2>1
    <3>2. ScanInv(disk, Reachable, l \in cancelled, scans[l])
      BY <1>1, <2>1 DEF IInv, ScansInv
    <3> QED BY <1>12, <3>1, <3>2, CancelledInv
  <2>2. CASE l \notin 1 .. n
    <3>1. l = n + 1 /\ id # 0
      BY <1>1, <2>2
    <3>2. scans'[l] = NewScanner
      BY <1>1, <1>2, <3>1
    <3> QED BY <3>2, NewScannerInv
  <2> QED BY <2>1, <2>2
<1> QED BY <1>13, <1>14, <1>15 DEF IInv

(* Every step keeps the invariant. *)
LEMMA IInvNext == IInv /\ [Next]_vars => IInv'
<1> SUFFICES ASSUME IInv, [Next]_vars PROVE IInv'
  OBVIOUS
<1>0. /\ disk \in Disks /\ scans \in Seq(Scanner) /\ Len(scans) \in Nat
      /\ ui \in [open : BOOLEAN, task : 0 .. Len(scans), report : [of : 0 .. Len(scans)],
                 error : BOOLEAN]
      /\ barrier \in 0 .. Len(scans) /\ cancelled \subseteq DOMAIN scans
      /\ DOMAIN scans = 1 .. Len(scans)
  BY DEF IInv, TypeOK
<1>1. CASE \E i \in DOMAIN scans : ScanStep(i) \/ TimeUp(i) \/ Die(i)
  BY <1>1, IInvThread
<1>2. CASE Frame
  BY <1>2, IInvFrame DEF Frame
<1>3. CASE ClearSensitiveBuffers
  <2>1. disk' = disk /\ scans' = scans /\ cancelled' = cancelled \cup Dropped(ui)
        /\ barrier' = Len(scans) /\ ui' = [ui EXCEPT !.task = 0, !.report = NoReport, !.open = FALSE]
    BY <1>3 DEF ClearSensitiveBuffers
  <2>2. Dropped(ui) \subseteq DOMAIN scans
    BY <1>0 DEF Dropped
  <2>3. NoReport \in [of : 0 .. Len(scans)] /\ 0 \in 0 .. Len(scans)
    BY <1>0 DEF NoReport
  <2>4. ui' \in [open : BOOLEAN, task : 0 .. Len(scans), report : [of : 0 .. Len(scans)],
                 error : BOOLEAN]
    BY <1>0, <2>1, <2>3
  <2>5. TypeOK'
    BY <1>0, <2>1, <2>2, <2>4 DEF TypeOK
  <2>6. ui'.task = 0 /\ ui'.report = NoReport
    BY <1>0, <2>1
  <2>7. OnlyThisScanIsShown'
    BY <2>6 DEF OnlyThisScanIsShown, NoReport
  <2> QED BY <2>1, <2>5, <2>7, IInvWindow
<1>4. CASE ShowUnlockRequest
  <2>1. disk' = disk /\ scans' = scans /\ cancelled' = cancelled /\ barrier' = barrier
        /\ ui' = [ui EXCEPT !.open = FALSE]
    BY <1>4 DEF ShowUnlockRequest
  <2>2. ui' \in [open : BOOLEAN, task : 0 .. Len(scans), report : [of : 0 .. Len(scans)],
                 error : BOOLEAN] /\ ui'.task = ui.task /\ ui'.report = ui.report
    BY <1>0, <2>1
  <2>3. TypeOK'
    BY <1>0, <2>1, <2>2 DEF TypeOK
  <2>4. OnlyThisScanIsShown'
    BY <2>1, <2>2 DEF IInv, OnlyThisScanIsShown, NoReport
  <2> QED BY <2>1, <2>3, <2>4, IInvWindow
<1>5. CASE UNCHANGED vars
  <2>1. disk' = disk /\ scans' = scans /\ cancelled' = cancelled /\ ui' = ui /\ barrier' = barrier
    BY <1>5 DEF vars
  <2>2. TypeOK'
    BY <1>0, <2>1 DEF TypeOK
  <2>3. OnlyThisScanIsShown'
    BY <2>1 DEF IInv, OnlyThisScanIsShown, NoReport
  <2> QED BY <2>1, <2>2, <2>3, IInvWindow
<1> QED BY <1>1, <1>2, <1>3, <1>4, <1>5 DEF Next

-----------------------------------------------------------------------------
(* The theorems.                                                           *)

(* The invariant holds always. *)
THEOREM IInvAlways == Spec => []IInv
<1>1. Init => IInv
  BY IInvInit
<1>2. IInv /\ [Next]_vars => IInv'
  BY IInvNext
<1> QED BY <1>1, <1>2, PTL DEF Spec

(* The state keeps its shape. *)
THEOREM TypesAlways == Spec => []TypeOK
<1>1. IInv => TypeOK
  BY DEF IInv
<1> QED BY <1>1, IInvAlways, PTL

(* A report without the partial-scan notice is about everything the roots  *)
(* lead to: everything could be listed, every text file was read once and  *)
(* the rest was counted as skipped once, whatever the disk and the limits  *)
(* are (walk, scan_file).                                                  *)
THEOREM CompleteIsEverything == Spec => []CompleteMeansEverything
<1>1. IInv => CompleteMeansEverything
  <2> SUFFICES ASSUME IInv, NEW i \in DOMAIN scans, Complete(i)
               PROVE  /\ \A r \in Reachable : disk[r] = "dir"
                      /\ scans[i].files = Cardinality({p \in Leaves : disk[p] = "file"})
                      /\ scans[i].skipped = Cardinality({p \in Leaves : disk[p] # "file"})
    BY DEF CompleteMeansEverything
  <2>1. disk \in Disks /\ scans[i] \in Scanner /\ WalkInv(disk, Reachable, scans[i])
    BY DEF IInv, TypeOK, ScansInv, ScanInv
  <2>2. scans[i].at = "sent" /\ ~ scans[i].incomplete
    BY DEF Complete
  <2> QED BY <2>1, <2>2, NothingLeftOut
<1> QED BY <1>1, IInvAlways, PTL

(* Every finding is an occurrence, no occurrence is reported twice, and a  *)
(* report without the notice has all of them, however the texts' matches   *)
(* overlap and wherever the scan stops (detect, scan_file).                *)
THEOREM FindingsAlwaysExact == Spec => []FindingsAreExact
<1>1. IInv => FindingsAreExact
  <2> SUFFICES ASSUME IInv, NEW i \in DOMAIN scans
               PROVE  LET found == scans[i].findings
                          files == {p \in Leaves : disk[p] = "file"}
                      IN /\ \A f \in Range(found) : Times(f, found) <= Occurring(f)
                         /\ Complete(i) =>
                              /\ \A f \in Range(found) : f.path \in files
                              /\ \A p \in files : \A m \in Counted(Contents[p].matches) :
                                   Times(FindingOf(p, m), found) = Occurring(FindingOf(p, m))
    BY DEF FindingsAreExact
  <2> DEFINE s == scans[i]
             files == {p \in Leaves : disk[p] = "file"}
  <2>1. disk \in Disks /\ s \in Scanner /\ WalkInv(disk, Reachable, s) /\ FindingsInv(disk, s)
    BY DEF IInv, TypeOK, ScansInv, ScanInv
  <2>2. \A f \in Range(s.findings) : Times(f, s.findings) <= Occurring(f)
    BY <2>1 DEF FindingsInv
  <2>3. ASSUME Complete(i)
        PROVE  /\ \A f \in Range(s.findings) : f.path \in files
               /\ \A p \in files : \A m \in Counted(Contents[p].matches) :
                    Times(FindingOf(p, m), s.findings) = Occurring(FindingOf(p, m))
    <3>1. files = Texts(disk, s) /\ ~ s.incomplete
      BY <2>1, <2>3, NothingLeftOut DEF Complete
    <3> HIDE DEF files
    <3> QED BY <2>1, <3>1 DEF FindingsInv, Texts, Range
  <2> QED BY <2>2, <2>3
<1> QED BY <1>1, IInvAlways, PTL

(* The credential files of all roots are read before any other file, also  *)
(* when a scan is cancelled, runs into a limit or out of time              *)
(* (scan_user_files).                                                      *)
THEOREM CredentialsAlwaysFirst == Spec => []CredentialsFirst
<1>1. IInv => CredentialsFirst
  <2> SUFFICES ASSUME IInv PROVE CredentialsFirst
    OBVIOUS
  <2>1. \A i \in DOMAIN scans : \/ scans[i].seenFiles \subseteq Credentials(disk)
                                \/ Credentials(disk) \subseteq scans[i].seenFiles
    BY DEF IInv, ScansInv, ScanInv, CredentialsInv
  <2>2. \A r : {way \in Range(PriorityFiles[r]) :
                  /\ IsDir(r) /\ IsFile(Last(way))
                  /\ \A j \in DOMAIN way : disk[way[j]] # "link"}
               = {w \in Range(PriorityFiles[r]) : Safe(disk, r, w)}
    BY DEF Safe, IsDir, IsFile
  <2> QED BY <2>1, <2>2 DEF CredentialsFirst, Credentials
<1> QED BY <1>1, IInvAlways, PTL

(* The window shows only the report of the scan that was started last and  *)
(* since the window was last locked (start_exposure_scan,                  *)
(* clear_sensitive_buffers).                                               *)
THEOREM OnlyThisScanAlways == Spec => []OnlyThisScanIsShown
<1>1. IInv => OnlyThisScanIsShown
  BY DEF IInv
<1> QED BY <1>1, IInvAlways, PTL
=============================================================================
