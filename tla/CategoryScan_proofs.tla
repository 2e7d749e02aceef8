------------------------- MODULE CategoryScan_proofs -------------------------
(***************************************************************************)
(* Proofs about the category scans, the funnel and the refresh of prices,  *)
(* for any offers, nodes, brands, answers, thresholds and faults and any   *)
(* number of callers.  What a batch holds is described by Sound, whatever  *)
(* the others do; what it holds of prices by Honest, as long as the        *)
(* functions do not overlap (Serial): then the products it asks about are  *)
(* not fresh, and what it is going to store is what Amazon said last.      *)
(***************************************************************************)
EXTENDS CategoryScan, SequenceTheorems, FiniteSetTheorems, WellFoundedInduction, TLAPS

\* What the searches may find.
Found == UNION {ToSet(Listing[n]) : n \in Nodes}

-----------------------------------------------------------------------------
(* The inductive invariant.                                                *)

StatsShape(s) ==
    /\ s \in [input : {s.input}, deduped : {s.deduped}, margin : {s.margin},
              brand : {s.brand}, enrich : {s.enrich}]
    /\ s.input \in Int /\ s.deduped \in Int /\ s.margin \in Int /\ s.brand \in Int /\ s.enrich \in Int

Shape(b) ==
    /\ b \in [at : {b.at}, left : {b.left}, verdict : {b.verdict}, out : {b.out},
              passed : {b.passed}, stats : {b.stats}]
    /\ b.at \in {"idle", "dedup", "brands", "pricing", "writing", "done"}
    /\ b.left \in Seq(Offers) /\ b.out \in Seq(Survivors) /\ b.passed \in Nat
    /\ StatsShape(b.stats)

\* The tiers add up.
Pending(b) == IF b.at = "pricing" THEN Len(b.left) - b.passed
              ELSE IF b.at \in {"dedup", "brands"} THEN Len(b.left) ELSE 0
Adds(b) == LET s == b.stats
           IN /\ s.input = s.deduped + s.margin + s.brand + s.enrich + Pending(b) + Len(b.out)
              /\ b.at = "dedup" => s.deduped = 0 /\ s.margin = 0
              /\ b.at \in {"dedup", "brands"} => s.brand = 0

\* Survivors come from offers that were asked for.
Position(b) ==
    /\ ToSet(b.left) \subseteq Found
    /\ b.at \in {"idle", "dedup", "brands"} => b.out = <<>> /\ b.passed = 0
    /\ b.at = "pricing" => /\ b.passed <= Len(b.left)
                           /\ \A i \in DOMAIN b.out : \E k \in 1 .. b.passed : b.left[k].asin = b.out[i].asin

\* No verdict passes a refused brand, unless Amazon did not say so.
Verdicts(b) ==
    /\ DOMAIN b.verdict \subseteq Brands
    /\ \A x \in DOMAIN b.verdict : /\ b.verdict[x] \in {"eligible", "presumed", "restricted", "failed"}
                                   /\ x \in Refused => b.verdict[x] # "eligible"

\* Refused products that are past the brand gate are excused.
Gated(b) ==
    /\ b.at = "pricing" => \A o \in ToSet(b.left) : o.asin \in RefusedProducts => Excused(b, o.asin)
    /\ \A i \in DOMAIN b.out : b.out[i].asin \in RefusedProducts => Excused(b, b.out[i].asin)

Sound(b) == Shape(b) /\ Adds(b) /\ Position(b) /\ Verdicts(b) /\ Gated(b)

\* What a batch holds of prices.
Honest(b, rows, said, doubtful) ==
    /\ b.at \in {"brands", "pricing"} => \A o \in ToSet(b.left) : rows[o.asin].age # "fresh"
    /\ \A i \in DOMAIN b.out : LET s == b.out[i]
                               IN IF s.checked THEN s.asin \in doubtful \/ (s.buyBox > 0 /\ s.buyBox = said[s.asin])
                                  ELSE s.buyBox = 0

ScanShape(s) ==
    /\ s \in [at : {s.at}, nodes : {s.nodes}, found : {s.found}, job : {s.job}, tries : {s.tries}]
    /\ s.at \in {"idle", "pick", "search", "funnel", "answer"}
    /\ s.nodes \in Seq(Nodes) /\ s.found \in Seq(Offers) /\ ToSet(s.found) \subseteq Found
    /\ s.job \in {"none", "running", "completed"}

Rows == [buyBox : Nat, sellers : Nat, age : {"absent", "never", "fresh", "stale"}]
Eligibilities == [status : {"unknown", "eligible", "presumed", "restricted"}, fresh : BOOLEAN]

\* An eligibility that is remembered is Amazon's, or presumed.
Remembered == \A b \in Brands : eligibility[b].fresh =>
    eligibility[b].status # "unknown" /\ (b \in Refused => eligibility[b].status # "eligible")

\* Every node is in the rotation once.
Rotates(order) ==
    /\ order \in Seq(Nodes) /\ ToSet(order) = Nodes
    /\ \A i, j \in 1 .. Len(order) : order[i] = order[j] => i = j

RefreshShape(r) ==
    /\ r \in [at : {r.at}, todo : {r.todo}, answers : {r.answers}]
    /\ r.todo \subseteq Asins /\ DOMAIN r.answers \subseteq Asins \ r.todo
    /\ \A a \in DOMAIN r.answers : r.answers[a] \in Quotes
    /\ r.at = "idle" => r.todo = {} /\ DOMAIN r.answers = {}

Stored ==
    /\ catalog \in [Asins -> Rows] /\ eligibility \in [Brands -> Eligibilities] /\ Remembered
    /\ faults \in Nat /\ told \in [Asins -> Nat]
    /\ Rotates(rotation) /\ RefreshShape(refresh)

Scans == scan = [c \in Callers |-> scan[c]] /\ \A c \in Callers : ScanShape(scan[c])

Batches ==
    /\ batch = [c \in Callers |-> batch[c]]
    /\ \A c \in Callers : /\ Sound(batch[c])
                          /\ scan[c].at \notin {"funnel", "answer"} => batch[c] = NoBatch

\* One function at a time.
Serial ==
    /\ \A c, d \in Callers : Busy(c) /\ Busy(d) => c = d
    /\ refresh.at # "idle" => \A c \in Callers : ~Busy(c)

\* The refresh asks for rows that are not fresh and stores what Amazon said last.
Renews(r, rows, said) ==
    /\ \A a \in r.todo : rows[a].age # "fresh"
    /\ \A a \in DOMAIN r.answers : r.answers[a].price = said[a]

Prices ==
    ~loose => /\ Serial
              /\ \A c \in Callers : Honest(batch[c], catalog, told, unsure)
              /\ Renews(refresh, catalog, told)
              /\ FreshIsTold

IInv == Stored /\ Scans /\ Batches /\ Prices

-----------------------------------------------------------------------------
(* Sequences.                                                              *)

\* Induction, for a set of numbers: the least number outside it does not exist.
LEMMA AllNumbers ==
    ASSUME NEW T, NEW n \in Nat, 0 \in T, \A k \in 0 .. n : k < n /\ k \in T => k + 1 \in T
    PROVE  \A k \in 0 .. n : k \in T
<1>. DEFINE D == {k \in 0 .. n : k \notin T}
<1>. SUFFICES ASSUME D # {} PROVE FALSE
  OBVIOUS
<1>1. PICK k \in D : \A j \in D : ~(<<j, k>> \in OpToRel(<, Nat))
  <2>1. D \subseteq Nat
    OBVIOUS
  <2>. QED  BY <2>1, NatLessThanWellFounded, WFMin
<1>2. k # 0 /\ k \in 1 .. n /\ k - 1 \in 0 .. n /\ k - 1 < n /\ k - 1 + 1 = k
  OBVIOUS
<1>3. k - 1 \notin D
  <2>1. k - 1 \in D => <<k - 1, k>> \in OpToRel(<, Nat)
    BY <1>2 DEF OpToRel
  <2>. QED  BY <1>1, <2>1
<1>. QED  BY <1>2, <1>3

\* There is a function that begins with a and goes on by H.
Moves(S, n) == [1 .. n -> [S -> S]]
Goes(f, S, a, n, H) == f \in [0 .. n -> S] /\ f[0] = a /\ \A k \in 1 .. n : f[k] = H[k][f[k - 1]]

LEMMA Recursion ==
    ASSUME NEW S, NEW a \in S, NEW n \in Nat, NEW H \in Moves(S, n)
    PROVE  \E f : Goes(f, S, a, n, H)
<1>. USE DEF Moves, Goes
<1>. DEFINE Upto(m, f) == f \in [0 .. m -> S] /\ f[0] = a /\ \A k \in 1 .. m : f[k] = H[k][f[k - 1]]
            T == {m \in 0 .. n : \E f : Upto(m, f)}
<1>1. 0 \in T
  <2>1. Upto(0, [k \in 0 .. 0 |-> a])
    OBVIOUS
  <2>. HIDE DEF Upto
  <2>. QED  BY <2>1
<1>2. ASSUME NEW m \in 0 .. n, m < n, m \in T
      PROVE  m + 1 \in T
  <2>1. PICK f : Upto(m, f)
    BY <1>2
  <2>2. m \in Nat /\ m + 1 \in 1 .. n /\ m + 1 \in 0 .. n /\ f[m] \in S /\ H[m + 1][f[m]] \in S
    BY <1>2, <2>1
  <2>. DEFINE b == H[m + 1][f[m]]
              g == [k \in 0 .. m + 1 |-> IF k <= m THEN f[k] ELSE b]
  <2>3. b \in S
    BY <2>2
  <2>4. /\ g \in [0 .. m + 1 -> S] /\ g[0] = a /\ g[m + 1] = b /\ g[m] = f[m]
        /\ \A k \in 1 .. m : g[k] = f[k] /\ g[k - 1] = f[k - 1]
    <3>. HIDE DEF b
    <3>. QED  BY <2>1, <2>2, <2>3
  <2>5. ASSUME NEW k \in 1 .. m + 1 PROVE g[k] = H[k][g[k - 1]]
    <3>. HIDE DEF g
    <3>1. CASE k = m + 1
      BY <2>2, <2>4, <3>1
    <3>2. CASE k # m + 1
      BY <2>1, <2>2, <2>4, <3>2
    <3>. QED  BY <3>1, <3>2
  <2>6. Upto(m + 1, g)
    <3>. HIDE DEF g
    <3>. QED  BY <2>4, <2>5
  <2>. HIDE DEF Upto
  <2>. QED  BY <2>2, <2>6
<1>3. n \in T
  <2>. HIDE DEF T
  <2>1. \A m \in 0 .. n : m \in T
    BY <1>1, <1>2, AllNumbers
  <2>. QED  BY <2>1
<1>. QED  BY <1>3

\* What a selection does, element by element.
Adding(s, G, q, n) == IF s[n] \in G THEN Append(q, s[n]) ELSE q
Runs(s, S, G, g) == /\ g \in [0 .. Len(s) -> Seq(S)] /\ g[0] = <<>>
                    /\ \A n \in 1 .. Len(s) : g[n] = Adding(s, G, g[n - 1], n)

LEMMA SelectedSteps ==
    ASSUME NEW S, NEW s \in Seq(S), NEW G
    PROVE  \E g : Runs(s, S, G, g) /\ Selected(s, G) = g[Len(s)]
<1>. DEFINE L == Len(s)
            H == [n \in 1 .. L |-> [q \in Seq(S) |-> Adding(s, G, q, n)]]
            One(f, n) == IF n = 0 THEN <<>>
                         ELSE IF s[n] \in G THEN Append(f[n - 1], s[n]) ELSE f[n - 1]
<1>1. L \in Nat /\ <<>> \in Seq(S)
  OBVIOUS
<1>2. ASSUME NEW n \in 1 .. L, NEW q \in Seq(S)
      PROVE  Adding(s, G, q, n) \in Seq(S)
  BY DEF Adding
<1>3. H \in [1 .. L -> [Seq(S) -> Seq(S)]]
  BY <1>2
<1>4. \A n \in 1 .. L, q \in Seq(S) : H[n][q] = Adding(s, G, q, n)
  OBVIOUS
<1>. HIDE DEF H, L
<1>e. PICK f : Goes(f, Seq(S), <<>>, L, H)
  <2>1. H \in Moves(Seq(S), L)
    BY <1>3 DEF Moves
  <2>. QED  BY <1>1, <2>1, Recursion
<1>5. f \in [0 .. L -> Seq(S)] /\ f[0] = <<>> /\ \A n \in 1 .. L : f[n] = H[n][f[n - 1]]
  BY <1>e DEF Goes
<1>6. \A n \in 1 .. L : n - 1 \in 0 .. L /\ n \in 0 .. L /\ n # 0
  BY <1>1
<1>7. \A n \in 1 .. L : f[n] = Adding(s, G, f[n - 1], n)
  BY <1>4, <1>5, <1>6
<1>8. \A n \in 0 .. L : f[n] = One(f, n)
  <2>1. \A n \in 1 .. L : f[n] = One(f, n)
    BY <1>6, <1>7 DEF Adding
  <2>2. \A n \in 0 .. L : n = 0 \/ n \in 1 .. L
    BY <1>1
  <2>. QED  BY <1>5, <2>1, <2>2
<1>. DEFINE chosen == CHOOSE g : g = [n \in 0 .. L |-> One(g, n)]
<1>9. chosen = [n \in 0 .. L |-> One(chosen, n)]
  <2>1. f = [n \in 0 .. L |-> One(f, n)]
    <3>1. f = [n \in 0 .. L |-> f[n]]
      BY <1>5
    <3>. HIDE DEF One
    <3>. QED  BY <1>8, <3>1
  <2>. HIDE DEF One
  <2>. QED  BY <2>1
<1>10. Selected(s, G) = chosen[L]
  BY Zenon DEF Selected, L
<1>. DEFINE T == {n \in 0 .. L : chosen[n] = f[n]}
<1>. HIDE DEF chosen
<1>11. 0 \in T
  BY <1>1, <1>5, <1>9
<1>12. ASSUME NEW n \in 0 .. L, n < L, n \in T
       PROVE  n + 1 \in T
  <2>1. n + 1 \in 0 .. L /\ n + 1 # 0 /\ (n + 1) - 1 = n /\ chosen[n] = f[n]
    BY <1>1, <1>12
  <2>2. chosen[n + 1] = One(chosen, n + 1) /\ f[n + 1] = One(f, n + 1)
    <3>. HIDE DEF One
    <3>. QED  BY <1>8, <1>9, <2>1
  <2>. QED  BY <2>1, <2>2
<1>13. chosen[L] = f[L]
  <2>. HIDE DEF T
  <2>1. \A n \in 0 .. L : n \in T
    BY <1>1, <1>11, <1>12, AllNumbers
  <2>2. L \in T
    BY <1>1, <2>1
  <2>. QED  BY <2>2 DEF T
<1>14. Runs(s, S, G, f)
  BY <1>5, <1>7 DEF Runs, L
<1>. QED  BY <1>10, <1>13, <1>14 DEF L

\* A selection has the members that are in the set, and repeats none that the sequence does not.
Once(q) == \A i, j \in 1 .. Len(q) : q[i] = q[j] => i = j
Chosen(s, G, q, n) ==
    /\ \A x : x \in ToSet(q) <=> x \in G /\ \E i \in 1 .. n : s[i] = x
    /\ Once(s) => Once(q)

LEMMA AddedIsChosen ==
    ASSUME NEW S, NEW s \in Seq(S), NEW G, NEW q \in Seq(S), NEW n \in Nat, n < Len(s), Chosen(s, G, q, n)
    PROVE  Chosen(s, G, Adding(s, G, q, n + 1), n + 1)
<1>. DEFINE e == s[n + 1]
<1>1. n + 1 \in 1 .. Len(s) /\ e \in S /\ Len(q) \in Nat
  OBVIOUS
<1>2. \A x : (\E i \in 1 .. n + 1 : s[i] = x) <=> (\E i \in 1 .. n : s[i] = x) \/ x = e
  <2>1. \A i : i \in 1 .. n + 1 <=> i \in 1 .. n \/ i = n + 1
    OBVIOUS
  <2>. QED  BY <2>1
<1>. HIDE DEF e
<1>3. CASE e \notin G
  <2>1. Adding(s, G, q, n + 1) = q
    BY <1>3 DEF Adding, e
  <2>2. \A x : x \in ToSet(q) <=> x \in G /\ \E i \in 1 .. n + 1 : s[i] = x
    BY <1>2, <1>3 DEF Chosen
  <2>. QED  BY <2>1, <2>2 DEF Chosen
<1>4. CASE e \in G
  <2>. DEFINE p == Append(q, e)
  <2>1. Adding(s, G, q, n + 1) = p
    BY <1>4 DEF Adding, e
  <2>2. /\ p \in Seq(S) /\ Len(p) = Len(q) + 1 /\ p[Len(q) + 1] = e
        /\ \A i \in 1 .. Len(q) : p[i] = q[i]
    BY <1>1, AppendProperties
  <2>. HIDE DEF p
  <2>3. \A i : i \in 1 .. Len(p) <=> i \in 1 .. Len(q) \/ i = Len(q) + 1
    BY <1>1, <2>2
  <2>4. \A x : x \in ToSet(p) <=> x \in ToSet(q) \/ x = e
    <3>0. p \in Seq(S)
      BY <2>2
    <3>1. \A x : x \in ToSet(p) <=> \E i \in 1 .. Len(p) : p[i] = x
      BY <3>0 DEF ToSet
    <3>2. \A x : x \in ToSet(q) <=> \E i \in 1 .. Len(q) : q[i] = x
      BY DEF ToSet
    <3>. QED  BY <2>2, <2>3, <3>1, <3>2
  <2>5. \A x : x \in ToSet(p) <=> x \in G /\ \E i \in 1 .. n + 1 : s[i] = x
    BY <1>2, <1>4, <2>4 DEF Chosen
  <2>6. ASSUME Once(s) PROVE Once(p)
    <3>1. e \notin ToSet(q)
      <4>1. \A i \in 1 .. n : i \in 1 .. Len(s) /\ i # n + 1
        BY <1>1
      <4>2. \A i \in 1 .. n : s[i] # e
        BY <1>1, <2>6, <4>1 DEF Once, e
      <4>. QED  BY <4>2 DEF Chosen
    <3>2. \A i \in 1 .. Len(q) : q[i] # e
      BY <3>1 DEF ToSet
    <3>3. Once(q)
      BY <2>6 DEF Chosen
    <3>. QED  BY <2>2, <2>3, <3>2, <3>3 DEF Once
  <2>. QED  BY <2>1, <2>5, <2>6 DEF Chosen
<1>. QED  BY <1>3, <1>4

LEMMA SelectedMeans ==
    ASSUME NEW S, NEW s \in Seq(S), NEW G
    PROVE  /\ Selected(s, G) \in Seq(S) /\ ToSet(Selected(s, G)) = ToSet(s) \cap G
           /\ Once(s) => Once(Selected(s, G))
<1>. DEFINE L == Len(s)
<1>1. PICK g : Runs(s, S, G, g) /\ Selected(s, G) = g[L]
  BY SelectedSteps
<1>2. L \in Nat /\ g \in [0 .. L -> Seq(S)] /\ g[0] = <<>>
      /\ \A n \in 1 .. L : g[n] = Adding(s, G, g[n - 1], n)
  BY <1>1 DEF Runs
<1>. DEFINE T == {n \in 0 .. L : Chosen(s, G, g[n], n)}
<1>3. 0 \in T
  BY <1>2 DEF Chosen, Once, ToSet
<1>4. ASSUME NEW n \in 0 .. L, n < L, n \in T PROVE n + 1 \in T
  <2>1. n \in Nat /\ n + 1 \in 1 .. L /\ n + 1 \in 0 .. L /\ (n + 1) - 1 = n /\ g[n] \in Seq(S)
    BY <1>2, <1>4
  <2>2. Chosen(s, G, Adding(s, G, g[n], n + 1), n + 1)
    BY <1>4, <2>1, AddedIsChosen
  <2>. QED  BY <1>2, <2>1, <2>2
<1>5. Chosen(s, G, g[L], L)
  <2>. HIDE DEF T
  <2>1. \A n \in 0 .. L : n \in T
    BY <1>2, <1>3, <1>4, AllNumbers
  <2>2. L \in T
    BY <1>2, <2>1
  <2>. QED  BY <2>2 DEF T
<1>6. \A x : x \in ToSet(s) <=> \E i \in 1 .. L : s[i] = x
  BY DEF ToSet
<1>. QED  BY <1>1, <1>2, <1>5, <1>6 DEF Chosen

\* A selection keeps the order of its members.
KeepsOrder(s, q, n) ==
    /\ \A i \in 1 .. Len(q) : \E k \in 1 .. n : s[k] = q[i]
    /\ \A i, j \in 1 .. Len(q) : i < j => \E k, l \in 1 .. n : k < l /\ s[k] = q[i] /\ s[l] = q[j]

LEMMA AddedKeepsOrder ==
    ASSUME NEW S, NEW s \in Seq(S), NEW G, NEW q \in Seq(S), NEW n \in Nat, n < Len(s), KeepsOrder(s, q, n)
    PROVE  KeepsOrder(s, Adding(s, G, q, n + 1), n + 1)
<1>. DEFINE e == s[n + 1]
            p == Append(q, e)
<1>1. n + 1 \in 1 .. n + 1 /\ e \in S /\ Len(q) \in Nat /\ \A k \in 1 .. n : k \in 1 .. n + 1 /\ k < n + 1
  OBVIOUS
<1>2. Adding(s, G, q, n + 1) \in {q, p}
  BY DEF Adding
<1>3. KeepsOrder(s, q, n + 1)
  BY <1>1 DEF KeepsOrder
<1>4. /\ Len(p) = Len(q) + 1 /\ p[Len(q) + 1] = e
      /\ \A i \in 1 .. Len(q) : p[i] = q[i]
  BY <1>1, AppendProperties
<1>. HIDE DEF p
<1>5. ASSUME NEW i \in 1 .. Len(p) PROVE \E k \in 1 .. n + 1 : s[k] = p[i]
  <2>1. i \in 1 .. Len(q) \/ i = Len(q) + 1
    BY <1>1, <1>4
  <2>2. CASE i \in 1 .. Len(q)
    <3>1. PICK k \in 1 .. n : s[k] = q[i]
      BY <2>2 DEF KeepsOrder
    <3>. QED  BY <1>1, <1>4, <2>2, <3>1
  <2>. QED  BY <1>1, <1>4, <2>1, <2>2
<1>6. ASSUME NEW i \in 1 .. Len(p), NEW j \in 1 .. Len(p), i < j
      PROVE  \E k, l \in 1 .. n + 1 : k < l /\ s[k] = p[i] /\ s[l] = p[j]
  <2>1. i \in 1 .. Len(q) /\ (j \in 1 .. Len(q) \/ j = Len(q) + 1)
    BY <1>1, <1>4, <1>6
  <2>2. CASE j \in 1 .. Len(q)
    <3>1. PICK k, l \in 1 .. n : k < l /\ s[k] = q[i] /\ s[l] = q[j]
      BY <1>6, <2>1, <2>2 DEF KeepsOrder
    <3>. QED  BY <1>1, <1>4, <2>1, <2>2, <3>1
  <2>3. CASE j = Len(q) + 1
    <3>1. PICK k \in 1 .. n : s[k] = q[i]
      BY <2>1 DEF KeepsOrder
    <3>. QED  BY <1>1, <1>4, <2>1, <2>3, <3>1
  <2>. QED  BY <2>1, <2>2, <2>3
<1>7. KeepsOrder(s, p, n + 1)
  BY <1>5, <1>6 DEF KeepsOrder
<1>. QED  BY <1>2, <1>3, <1>7

LEMMA SelectedKeepsOrder ==
    ASSUME NEW S, NEW s \in Seq(S), NEW G
    PROVE  KeepsOrder(s, Selected(s, G), Len(s))
<1>. DEFINE L == Len(s)
<1>1. PICK g : Runs(s, S, G, g) /\ Selected(s, G) = g[L]
  BY SelectedSteps
<1>2. L \in Nat /\ g \in [0 .. L -> Seq(S)] /\ g[0] = <<>>
      /\ \A n \in 1 .. L : g[n] = Adding(s, G, g[n - 1], n)
  BY <1>1 DEF Runs
<1>. DEFINE T == {n \in 0 .. L : KeepsOrder(s, g[n], n)}
<1>3. 0 \in T
  BY <1>2 DEF KeepsOrder
<1>4. ASSUME NEW n \in 0 .. L, n < L, n \in T PROVE n + 1 \in T
  <2>1. n \in Nat /\ n + 1 \in 1 .. L /\ n + 1 \in 0 .. L /\ (n + 1) - 1 = n /\ g[n] \in Seq(S)
    BY <1>2, <1>4
  <2>2. KeepsOrder(s, Adding(s, G, g[n], n + 1), n + 1)
    BY <1>4, <2>1, AddedKeepsOrder
  <2>. QED  BY <1>2, <2>1, <2>2
<1>5. KeepsOrder(s, g[L], L)
  <2>. HIDE DEF T
  <2>1. \A n \in 0 .. L : n \in T
    BY <1>2, <1>3, <1>4, AllNumbers
  <2>2. L \in T
    BY <1>2, <2>1
  <2>. QED  BY <2>2 DEF T
<1>. QED  BY <1>1, <1>5

\* Places in a sequence have a first and a last one.
LEMMA FirstPlace ==
    ASSUME NEW n \in Nat, NEW I \in SUBSET (1 .. n), I # {}
    PROVE  Min(I) \in I
<1>1. PICK k \in I : \A j \in I : ~(<<j, k>> \in OpToRel(<, Nat))
  <2>1. I \subseteq Nat
    OBVIOUS
  <2>. QED  BY <2>1, NatLessThanWellFounded, WFMin
<1>2. ASSUME NEW j \in I PROVE k <= j
  <2>1. j \in 1 .. n /\ k \in 1 .. n
    OBVIOUS
  <2>2. j \in Nat /\ k \in Nat
    BY <2>1
  <2>3. <<j, k>> \notin OpToRel(<, Nat)
    BY <1>1
  <2>. QED  BY <2>2, <2>3 DEF OpToRel
<1>. QED  BY <1>2 DEF Min

LEMMA LastPlace ==
    ASSUME NEW n \in Nat, NEW I \in SUBSET (1 .. n), I # {}
    PROVE  Max(I) \in I
<1>. DEFINE D == {k \in Nat : \A i \in I : i <= k}
<1>1. n \in D /\ D \subseteq Nat
  OBVIOUS
<1>2. PICK k \in D : \A j \in D : ~(<<j, k>> \in OpToRel(<, Nat))
  <2>. HIDE DEF D
  <2>. QED  BY <1>1, NatLessThanWellFounded, WFMin
<1>3. k \in Nat /\ \A i \in I : i \in Nat /\ i <= k
  <2>1. k \in Nat /\ \A i \in I : i <= k
    BY <1>2
  <2>2. \A i \in I : i \in 1 .. n
    OBVIOUS
  <2>. QED  BY <2>1, <2>2
<1>4. k \in I
  <2>. SUFFICES ASSUME k \notin I PROVE FALSE
    OBVIOUS
  <2>1. \A i \in I : i <= k - 1
    BY <1>3
  <2>2. k - 1 \in Nat
    <3>1. PICK i \in I : TRUE
      OBVIOUS
    <3>2. i \in Nat /\ i <= k /\ i <= k - 1
      BY <1>3, <2>1
    <3>. QED  BY <1>3, <3>2
  <2>3. k - 1 \in D /\ <<k - 1, k>> \in OpToRel(<, Nat)
    BY <1>3, <2>1, <2>2 DEF OpToRel
  <2>. QED  BY <1>2, <2>3
<1>. QED  BY <1>3, <1>4 DEF Max

\* The offer that counts for a product is one of its offers.
LEMMA OfferMeans ==
    ASSUME NEW offers \in Seq(Offers), NEW a, a \in AsinsOf(offers)
    PROVE  OfferOf(offers, a) \in ToSet(offers) /\ OfferOf(offers, a).asin = a
<1>. DEFINE I == {i \in 1 .. Len(offers) : offers[i].asin = a}
<1>1. I # {} /\ I \in SUBSET (1 .. Len(offers)) /\ Len(offers) \in Nat
  BY DEF AsinsOf, ToSet
<1>2. LastOffer(offers, a) = Max(I)
  BY <1>1 DEF LastOffer, SelectLastInSeq
<1>. HIDE DEF I
<1>3. Max(I) \in I
  BY <1>1, LastPlace
<1>4. Max(I) \in 1 .. Len(offers) /\ offers[Max(I)].asin = a
  BY <1>3 DEF I
<1>5. offers[Max(I)] \in ToSet(offers)
  BY <1>4 DEF ToSet
<1>. QED  BY <1>2, <1>4, <1>5 DEF OfferOf

\* The product a brand is checked by is one of that brand.
LEMMA SampleMeans ==
    ASSUME NEW offers \in Seq(Offers), NEW b, b \in BrandsOf(offers)
    PROVE  \E o \in ToSet(offers) : o.brand = b /\ o.asin = Sample(offers, b)
<1>. DEFINE I == {i \in 1 .. Len(offers) : offers[i].brand = b}
<1>1. I # {} /\ I \in SUBSET (1 .. Len(offers)) /\ Len(offers) \in Nat
  BY DEF BrandsOf, ToSet
<1>2. Sample(offers, b) = offers[Min(I)].asin
  BY <1>1 DEF Sample, SelectInSeq
<1>. HIDE DEF I
<1>3. Min(I) \in I
  BY <1>1, FirstPlace
<1>4. Min(I) \in 1 .. Len(offers) /\ offers[Min(I)].brand = b
  BY <1>3 DEF I
<1>5. offers[Min(I)] \in ToSet(offers)
  BY <1>4 DEF ToSet
<1>. QED  BY <1>2, <1>4, <1>5

\* The brand that decides for a product is one it is offered under, if there is one.
LEMMA BrandMeans ==
    ASSUME NEW offers \in Seq(Offers), NEW o, o \in ToSet(offers), o.brand # NoBrand
    PROVE  \E p \in ToSet(offers) : /\ p.asin = o.asin /\ p.brand = BrandFor(offers, o.asin)
                                    /\ p.brand # NoBrand
<1>. DEFINE I == {i \in 1 .. Len(offers) : offers[i].asin = o.asin /\ offers[i].brand # NoBrand}
<1>1. I # {} /\ I \in SUBSET (1 .. Len(offers)) /\ Len(offers) \in Nat
  BY DEF ToSet
<1>2. SelectLastInSeq(offers, LAMBDA x : x.asin = o.asin /\ x.brand # NoBrand) = Max(I)
  BY <1>1 DEF SelectLastInSeq
<1>. HIDE DEF I
<1>3. Max(I) \in I
  BY <1>1, LastPlace
<1>4. Max(I) # 0
  BY <1>1, <1>3
<1>5. BrandFor(offers, o.asin) = offers[Max(I)].brand
  BY <1>2, <1>4 DEF BrandFor
<1>6. /\ Max(I) \in 1 .. Len(offers) /\ offers[Max(I)].asin = o.asin
      /\ offers[Max(I)].brand # NoBrand
  BY <1>3 DEF I
<1>7. offers[Max(I)] \in ToSet(offers)
  BY <1>6 DEF ToSet
<1>. QED  BY <1>5, <1>6, <1>7

-----------------------------------------------------------------------------
(* The rotation.                                                           *)

LEMMA MarkedRotates ==
    ASSUME NEW order, Rotates(order), NEW n \in Nodes
    PROVE  Rotates(MarkScanned(order, n))
<1>. DEFINE q == Selected(order, Nodes \ {n})
            p == Append(q, n)
<1>1. order \in Seq(Nodes) /\ ToSet(order) = Nodes /\ Once(order)
  BY DEF Rotates, Once
<1>2. q \in Seq(Nodes) /\ ToSet(q) = Nodes \ {n} /\ Once(q)
  <2>1. ToSet(q) = Nodes \cap (Nodes \ {n}) /\ q \in Seq(Nodes) /\ Once(q)
    BY <1>1, SelectedMeans
  <2>. QED  BY <2>1
<1>. HIDE DEF q
<1>3. p \in Seq(Nodes) /\ Len(p) = Len(q) + 1 /\ p[Len(q) + 1] = n /\ \A i \in 1 .. Len(q) : p[i] = q[i]
  BY <1>2, AppendProperties
<1>. HIDE DEF p
<1>4. Len(q) \in Nat /\ \A i : i \in 1 .. Len(p) <=> i \in 1 .. Len(q) \/ i = Len(q) + 1
  BY <1>2, <1>3
<1>5. \A x : x \in ToSet(q) <=> \E i \in 1 .. Len(q) : q[i] = x
  BY <1>2 DEF ToSet
<1>6. \A x : x \in ToSet(p) <=> \E i \in 1 .. Len(p) : p[i] = x
  BY <1>3 DEF ToSet
<1>7. \A x : x \in ToSet(p) <=> x \in ToSet(q) \/ x = n
  BY <1>3, <1>4, <1>5, <1>6
<1>8. ToSet(p) = Nodes
  BY <1>2, <1>7
<1>9. \A i \in 1 .. Len(q) : q[i] # n
  BY <1>2, <1>5
<1>10. \A i, j \in 1 .. Len(p) : p[i] = p[j] => i = j
  BY <1>2, <1>3, <1>4, <1>9 DEF Once
<1>. QED  BY <1>3, <1>8, <1>10 DEF Rotates, MarkScanned, p, q

LEMMA RotationSize ==
    ASSUME NEW order, Rotates(order)
    PROVE  Len(order) = Cardinality(Nodes)
<1>1. order \in [1 .. Len(order) -> Nodes] /\ Len(order) \in Nat /\ ToSet(order) = Nodes
      /\ \A i, j \in 1 .. Len(order) : order[i] = order[j] => i = j
  BY DEF Rotates
<1>2. \A x \in Nodes : \E i \in 1 .. Len(order) : order[i] = x
  BY <1>1 DEF ToSet
<1>3. order \in Bijection(1 .. Len(order), Nodes)
  BY <1>1, <1>2 DEF Bijection, Injection, Surjection, IsInjective
<1>4. ExistsBijection(1 .. Len(order), Nodes)
  BY <1>3 DEF ExistsBijection
<1>. QED  BY <1>1, <1>4, FS_CountingElements

LEMMA FirstRotation ==
    ASSUME NEW order \in [1 .. Cardinality(Nodes) -> Nodes], ToSet(order) = Nodes
    PROVE  Rotates(order)
<1>. DEFINE k == Cardinality(Nodes)
<1>1. k \in Nat
  BY ScanAssumption, FS_CardinalityType
<1>. HIDE DEF k
<1>2. order \in [1 .. k -> Nodes]
  BY DEF k
<1>3. order \in Seq(Nodes) /\ Len(order) = k
  BY <1>1, <1>2
<1>4. \A x \in Nodes : \E i \in 1 .. k : order[i] = x
  BY <1>2 DEF ToSet
<1>5. order \in Surjection(1 .. k, Nodes)
  BY <1>2, <1>4 DEF Surjection
<1>6. IsFiniteSet(1 .. k) /\ Cardinality(1 .. k) = Cardinality(Nodes)
  BY <1>1, FS_Interval DEF k
<1>7. order \in Injection(1 .. k, Nodes)
  BY <1>5, <1>6, FS_Surjection
<1>8. \A i, j \in 1 .. k : order[i] = order[j] => i = j
  BY <1>7 DEF Injection, IsInjective
<1>. QED  BY <1>3, <1>8 DEF Rotates

-----------------------------------------------------------------------------
(* What the steps of a batch make of it.                                   *)

LEMMA Fields ==
    ASSUME NEW b, Shape(b)
    PROVE  b = [at |-> b.at, left |-> b.left, verdict |-> b.verdict, out |-> b.out,
                passed |-> b.passed, stats |-> b.stats]
BY DEF Shape

LEMMA StatsFields ==
    ASSUME NEW s, StatsShape(s)
    PROVE  s = [input |-> s.input, deduped |-> s.deduped, margin |-> s.margin,
                brand |-> s.brand, enrich |-> s.enrich]
BY DEF StatsShape

LEMMA NoBatchSound == Sound(NoBatch) /\ \A rows, said, doubtful : Honest(NoBatch, rows, said, doubtful)
BY DEF Sound, Shape, StatsShape, Adds, Pending, Position, Verdicts, Gated, Honest, NoBatch, NoStats, Empty, ToSet

LEMMA EnteredSound ==
    ASSUME NEW offers \in Seq(Offers), ToSet(offers) \subseteq Found
    PROVE  /\ Sound(Entered(offers))
           /\ \A rows, said, doubtful : Honest(Entered(offers), rows, said, doubtful)
<1>. DEFINE b == Entered(offers)
            a == IF offers = Empty THEN "done" ELSE "dedup"
            s == [input |-> Len(offers), deduped |-> 0, margin |-> 0, brand |-> 0, enrich |-> 0]
<1>0. s = [NoStats EXCEPT !.input = Len(offers)] /\ Len(offers) \in Nat /\ Empty = <<>>
  BY DEF NoStats, Empty
<1>. HIDE DEF a, s
<1>1. b = [at |-> a, left |-> offers, verdict |-> <<>>, out |-> <<>>, passed |-> 0, stats |-> s]
  <2>1. NoBatch = [at |-> "idle", left |-> <<>>, verdict |-> <<>>, out |-> <<>>, passed |-> 0,
                   stats |-> NoStats]
    BY DEF NoBatch, Empty
  <2>2. b = [NoBatch EXCEPT !.at = a, !.left = offers, !.stats = s]
    BY <1>0, Zenon DEF Entered, a
  <2>. HIDE DEF b
  <2>. QED  BY <2>1, <2>2
<1>. HIDE DEF b
<1>2. /\ b.at = a /\ b.left = offers /\ b.verdict = <<>> /\ b.out = <<>> /\ b.passed = 0 /\ b.stats = s
      /\ a = IF offers = <<>> THEN "done" ELSE "dedup"
  BY <1>0, <1>1 DEF a
<1>9. Shape(b)
  <2>1. StatsShape(s)
    BY <1>0 DEF StatsShape, s
  <2>2. b = [at |-> b.at, left |-> b.left, verdict |-> b.verdict, out |-> b.out,
             passed |-> b.passed, stats |-> b.stats]
    BY <1>1, <1>2
  <2>. QED  BY <1>2, <2>1, <2>2 DEF Shape
<1>3. Adds(b)
  <2>1. Pending(b) = Len(offers)
    BY <1>0, <1>2 DEF Pending
  <2>. QED  BY <1>0, <1>2, <2>1 DEF Adds, s
<1>4. Position(b) /\ Verdicts(b) /\ Gated(b)
  BY <1>2 DEF Position, Verdicts, Gated
<1>5. \A rows, said, doubtful : Honest(b, rows, said, doubtful)
  BY <1>2 DEF Honest
<1>. QED  BY <1>3, <1>4, <1>5, <1>9 DEF Sound, b

\* T0 and T1: what remains is not fresh and was there before.
Deduped(b, stale, good) ==
    [at |-> "brands", left |-> good, verdict |-> b.verdict, out |-> b.out, passed |-> b.passed,
     stats |-> [input |-> b.stats.input, deduped |-> Len(b.left) - Len(stale),
                margin |-> Len(stale) - Len(good), brand |-> b.stats.brand, enrich |-> b.stats.enrich]]
Unknown(known) == {o \in Offers : o.asin \notin known}

LEMMA DedupedSound ==
    ASSUME NEW b, Sound(b), b.at = "dedup", NEW known, NEW stale, NEW good,
           stale = Selected(b.left, Unknown(known)),
           good = Selected(stale, Estimated)
    PROVE  /\ Sound(Deduped(b, stale, good))
           /\ \A o \in ToSet(good) : o.asin \notin known
<1>. DEFINE l == Deduped(b, stale, good)
<1>1. b.left \in Seq(Offers) /\ b.out \in Seq(Survivors) /\ b.passed \in Nat /\ StatsShape(b.stats)
  BY DEF Sound, Shape
<1>2. stale \in Seq(Offers) /\ ToSet(stale) = ToSet(b.left) \cap Unknown(known)
  BY <1>1, SelectedMeans
<1>3. good \in Seq(Offers) /\ ToSet(good) = ToSet(stale) \cap Estimated
  BY <1>2, SelectedMeans
<1>4. ToSet(good) \subseteq ToSet(b.left) /\ \A o \in ToSet(good) : o.asin \notin known
  BY <1>2, <1>3 DEF Unknown
<1>5. Len(b.left) \in Nat /\ Len(stale) \in Nat /\ Len(good) \in Nat
  BY <1>1, <1>2, <1>3
<1>6. /\ l.at = "brands" /\ l.left = good /\ l.verdict = b.verdict /\ l.out = b.out /\ l.passed = b.passed
      /\ l.stats.input = b.stats.input /\ l.stats.deduped = Len(b.left) - Len(stale)
      /\ l.stats.margin = Len(stale) - Len(good) /\ l.stats.brand = b.stats.brand
      /\ l.stats.enrich = b.stats.enrich
  BY DEF Deduped
<1>7. Shape(l)
  <2>1. StatsShape(l.stats)
    <3>1. l.stats = [input |-> b.stats.input, deduped |-> Len(b.left) - Len(stale),
                     margin |-> Len(stale) - Len(good), brand |-> b.stats.brand, enrich |-> b.stats.enrich]
      BY DEF Deduped
    <3>. HIDE DEF l
    <3>. QED  BY <1>1, <1>5, <3>1 DEF StatsShape
  <2>2. l = [at |-> l.at, left |-> l.left, verdict |-> l.verdict, out |-> l.out,
             passed |-> l.passed, stats |-> l.stats]
    BY <1>6 DEF Deduped
  <2>. HIDE DEF l
  <2>. QED  BY <1>1, <1>3, <1>6, <2>1, <2>2 DEF Shape
<1>. HIDE DEF l
<1>8. Adds(l)
  <2>1. /\ Pending(b) = Len(b.left) /\ Pending(l) = Len(good)
    BY <1>6 DEF Pending
  <2>2. Len(b.out) \in Nat /\ b.stats.brand \in Int /\ b.stats.enrich \in Int /\ b.stats.input \in Int
    BY <1>1 DEF StatsShape
  <2>3. /\ b.stats.input = b.stats.deduped + b.stats.margin + b.stats.brand + b.stats.enrich
                           + Pending(b) + Len(b.out)
        /\ b.stats.deduped = 0 /\ b.stats.margin = 0 /\ b.stats.brand = 0
    BY DEF Sound, Adds
  <2>4. l.stats.input = l.stats.deduped + l.stats.margin + l.stats.brand + l.stats.enrich
                        + Pending(l) + Len(l.out)
    <3>1. b.stats.input = b.stats.enrich + Len(b.left) + Len(b.out)
      BY <1>5, <2>1, <2>2, <2>3
    <3>2. /\ l.stats.input = b.stats.input /\ l.stats.deduped = Len(b.left) - Len(stale)
          /\ l.stats.margin = Len(stale) - Len(good) /\ l.stats.brand = 0
          /\ l.stats.enrich = b.stats.enrich /\ Pending(l) = Len(good) /\ Len(l.out) = Len(b.out)
      BY <1>6, <2>1, <2>3
    <3>. DEFINE e == b.stats.enrich
                n == Len(b.left)
                o == Len(b.out)
                k == Len(stale)
                g == Len(good)
    <3>3. e \in Int /\ n \in Int /\ o \in Int /\ k \in Int /\ g \in Int
      BY <1>5, <2>2
    <3>4. e + n + o = (n - k) + (k - g) + 0 + e + g + o
      <4>. HIDE DEF e, n, o, k, g
      <4>. QED  BY <3>3
    <3>. QED  BY <3>1, <3>2, <3>4, Zenon
  <2>. QED  BY <1>6, <2>3, <2>4 DEF Adds
<1>9. Position(l) /\ Verdicts(l) /\ Gated(l)
  BY <1>4, <1>6 DEF Sound, Position, Verdicts, Gated
<1>. QED  BY <1>4, <1>7, <1>8, <1>9 DEF Sound, l

\* T2: a brand gets a verdict.
Judged(b, x, status) ==
    [at |-> b.at, left |-> b.left, verdict |-> With(b.verdict, x, status), out |-> b.out,
     passed |-> b.passed, stats |-> b.stats]

LEMMA JudgedSound ==
    ASSUME NEW b, Sound(b), b.at = "brands", NEW x \in Brands, x \notin DOMAIN b.verdict,
           NEW status \in {"eligible", "presumed", "restricted", "failed"},
           x \in Refused => status # "eligible"
    PROVE  Sound(Judged(b, x, status))
<1>. DEFINE l == Judged(b, x, status)
            v == With(b.verdict, x, status)
<1>1. /\ DOMAIN v = DOMAIN b.verdict \cup {x} /\ v[x] = status
      /\ \A y \in DOMAIN b.verdict : v[y] = b.verdict[y]
  BY DEF With
<1>. HIDE DEF v
<1>2. /\ l.at = "brands" /\ l.left = b.left /\ l.verdict = v /\ l.out = b.out /\ l.passed = b.passed
      /\ l.stats = b.stats
      /\ l = [at |-> l.at, left |-> l.left, verdict |-> l.verdict, out |-> l.out,
              passed |-> l.passed, stats |-> l.stats]
  BY DEF Judged, v
<1>. HIDE DEF l
<1>3. Shape(l)
  BY <1>2 DEF Sound, Shape
<1>4. Adds(l)
  BY <1>2 DEF Sound, Adds, Pending
<1>5. Position(l)
  BY <1>2 DEF Sound, Position
<1>6. Verdicts(l)
  BY <1>1, <1>2 DEF Sound, Verdicts
<1>7. Gated(l)
  BY <1>2 DEF Sound, Position, Gated
<1>. QED  BY <1>3, <1>4, <1>5, <1>6, <1>7 DEF Sound, l

\* T2: the gate.  What a refused brand keeps is excused.
GatedBy(b, kept) ==
    [at |-> "pricing", left |-> kept, verdict |-> b.verdict, out |-> b.out, passed |-> b.passed,
     stats |-> [input |-> b.stats.input, deduped |-> b.stats.deduped, margin |-> b.stats.margin,
                brand |-> Len(b.left) - Len(kept), enrich |-> b.stats.enrich]]
Kept(b) == {o \in Offers : o.brand \notin Blocked /\ EligibleBrand(b.left, b.verdict, o.asin)}

LEMMA RefusedExcused ==
    ASSUME NEW b, Sound(b), BrandsOf(b.left) \subseteq DOMAIN b.verdict,
           NEW o \in ToSet(b.left), o.asin \in RefusedProducts, EligibleBrand(b.left, b.verdict, o.asin)
    PROVE  Excused(b, o.asin)
<1>1. b.left \in Seq(Offers) /\ ToSet(b.left) \subseteq Found
  BY DEF Sound, Shape, Position
<1>2. \A p \in ToSet(b.left) : p.asin = o.asin => p.brand \in Refused
  BY <1>1 DEF RefusedProducts, Found
<1>3. o.brand # NoBrand
  BY <1>2, FunnelAssumption DEF Refused
<1>4. PICK p \in ToSet(b.left) : /\ p.asin = o.asin /\ p.brand = BrandFor(b.left, o.asin)
                                 /\ p.brand # NoBrand
  BY <1>1, <1>3, BrandMeans
<1>5. p.brand \in DOMAIN b.verdict
  BY <1>4 DEF BrandsOf
<1>6. b.verdict[p.brand] # "restricted"
  BY <1>4 DEF EligibleBrand
<1>7. b.verdict[p.brand] \in {"failed", "presumed"}
  BY <1>2, <1>4, <1>5, <1>6 DEF Sound, Verdicts
<1>8. p \in UNION {ToSet(Listing[n]) : n \in Nodes}
  BY <1>1 DEF Found
<1>. QED  BY <1>4, <1>5, <1>7, <1>8 DEF Excused

LEMMA GatedSound ==
    ASSUME NEW b, Sound(b), b.at = "brands", BrandsOf(b.left) \subseteq DOMAIN b.verdict,
           NEW kept, kept = Selected(b.left, Kept(b))
    PROVE  Sound(GatedBy(b, kept)) /\ ToSet(kept) \subseteq ToSet(b.left)
<1>. DEFINE l == GatedBy(b, kept)
            s == [input |-> b.stats.input, deduped |-> b.stats.deduped, margin |-> b.stats.margin,
                  brand |-> Len(b.left) - Len(kept), enrich |-> b.stats.enrich]
<1>1. b.left \in Seq(Offers) /\ b.out \in Seq(Survivors) /\ b.passed \in Nat /\ StatsShape(b.stats)
  BY DEF Sound, Shape
<1>2. kept \in Seq(Offers) /\ ToSet(kept) = ToSet(b.left) \cap Kept(b)
  BY <1>1, SelectedMeans
<1>3. l = [at |-> "pricing", left |-> kept, verdict |-> b.verdict, out |-> b.out, passed |-> b.passed,
           stats |-> s]
  BY DEF GatedBy
<1>4. /\ StatsShape(s) /\ s.input = b.stats.input /\ s.deduped = b.stats.deduped
      /\ s.margin = b.stats.margin /\ s.brand = Len(b.left) - Len(kept) /\ s.enrich = b.stats.enrich
  BY <1>1, <1>2 DEF StatsShape
<1>. HIDE DEF l, s
<1>5. /\ l.at = "pricing" /\ l.left = kept /\ l.verdict = b.verdict /\ l.out = b.out
      /\ l.passed = b.passed /\ l.stats = s
  BY <1>3
<1>6. b.out = <<>> /\ b.passed = 0 /\ ToSet(b.left) \subseteq Found
  BY DEF Sound, Position
<1>7. Shape(l)
  BY <1>1, <1>2, <1>3, <1>4, <1>5 DEF Shape
<1>8. Adds(l)
  <2>. DEFINE i == b.stats.input
              d == b.stats.deduped
              m == b.stats.margin
              e == b.stats.enrich
              n == Len(b.left)
              k == Len(kept)
  <2>1. i \in Int /\ d \in Int /\ m \in Int /\ e \in Int /\ n \in Int /\ k \in Nat
    BY <1>1, <1>2 DEF StatsShape
  <2>2. Pending(b) = n /\ b.stats.brand = 0 /\ Len(b.out) = 0
    BY <1>6 DEF Sound, Adds, Pending
  <2>3. i = d + m + 0 + e + n + 0
    BY <2>2 DEF Sound, Adds
  <2>4. Pending(l) = k - 0
    BY <1>5, <1>6 DEF Pending
  <2>5. Len(l.out) = 0 /\ l.stats.input = i /\ l.stats.deduped = d /\ l.stats.margin = m
        /\ l.stats.brand = n - k /\ l.stats.enrich = e /\ l.at = "pricing"
    BY <1>4, <1>5, <2>2
  <2>. HIDE DEF i, d, m, e, n, k
  <2>. QED  BY <2>1, <2>3, <2>4, <2>5 DEF Adds
<1>9. Position(l)
  <2>1. Len(kept) \in Nat
    BY <1>2
  <2>. QED  BY <1>2, <1>5, <1>6, <2>1 DEF Position
<1>10. Verdicts(l)
  BY <1>5 DEF Sound, Verdicts
<1>11. Gated(l)
  <2>1. ASSUME NEW o \in ToSet(kept), o.asin \in RefusedProducts PROVE Excused(b, o.asin)
    <3>1. o \in ToSet(b.left) /\ EligibleBrand(b.left, b.verdict, o.asin)
      BY <1>2 DEF Kept
    <3>. QED  BY <2>1, <3>1, RefusedExcused
  <2>2. \A a : Excused(b, a) => Excused(l, a)
    BY <1>5 DEF Excused
  <2>. QED  BY <1>5, <1>6, <2>1, <2>2 DEF Gated
<1>. QED  BY <1>2, <1>7, <1>8, <1>9, <1>10, <1>11 DEF Sound, l

\* T3: n more offers were asked for, and these of them survived.
Asking(b, n, kept) ==
    [at |-> b.at, left |-> b.left, verdict |-> b.verdict, out |-> b.out \o kept, passed |-> b.passed + n,
     stats |-> [input |-> b.stats.input, deduped |-> b.stats.deduped, margin |-> b.stats.margin,
                brand |-> b.stats.brand, enrich |-> b.stats.enrich + (n - Len(kept))]]

LEMMA AskingSound ==
    ASSUME NEW b, Sound(b), b.at = "pricing", NEW n \in Nat, b.passed + n <= Len(b.left),
           NEW kept \in Seq(Survivors),
           \A j \in DOMAIN kept : \E k \in b.passed + 1 .. b.passed + n : b.left[k].asin = kept[j].asin
    PROVE  /\ Sound(Asking(b, n, kept))
           /\ \A i \in DOMAIN (b.out \o kept) :
                 \/ i \in DOMAIN b.out /\ (b.out \o kept)[i] = b.out[i]
                 \/ \E j \in DOMAIN kept : (b.out \o kept)[i] = kept[j]
<1>. DEFINE l == Asking(b, n, kept)
            w == b.out \o kept
            s == [input |-> b.stats.input, deduped |-> b.stats.deduped, margin |-> b.stats.margin,
                  brand |-> b.stats.brand, enrich |-> b.stats.enrich + (n - Len(kept))]
<1>1. /\ b.left \in Seq(Offers) /\ b.out \in Seq(Survivors) /\ b.passed \in Nat /\ StatsShape(b.stats)
      /\ Len(b.out) \in Nat /\ Len(kept) \in Nat /\ Len(b.left) \in Nat
  BY DEF Sound, Shape
<1>2. /\ w \in Seq(Survivors) /\ Len(w) = Len(b.out) + Len(kept)
      /\ \A i \in 1 .. Len(b.out) + Len(kept) :
            w[i] = IF i <= Len(b.out) THEN b.out[i] ELSE kept[i - Len(b.out)]
  BY <1>1, ConcatProperties
<1>3. ASSUME NEW i \in DOMAIN w
      PROVE  \/ i \in DOMAIN b.out /\ w[i] = b.out[i]
             \/ \E j \in DOMAIN kept : w[i] = kept[j]
  <2>1. i \in 1 .. Len(b.out) + Len(kept)
    <3>. HIDE DEF w
    <3>. QED  BY <1>2
  <2>2. CASE i <= Len(b.out)
    <3>1. i \in DOMAIN b.out
      BY <1>1, <2>1, <2>2
    <3>. QED  BY <1>2, <2>1, <2>2, <3>1
  <2>3. CASE ~(i <= Len(b.out))
    <3>1. i - Len(b.out) \in DOMAIN kept
      BY <1>1, <2>1, <2>3
    <3>. QED  BY <1>2, <2>1, <2>3, <3>1
  <2>. QED  BY <2>2, <2>3
<1>. HIDE DEF w
<1>4. l = [at |-> b.at, left |-> b.left, verdict |-> b.verdict, out |-> w, passed |-> b.passed + n,
           stats |-> s]
  BY DEF Asking, w
<1>5. /\ StatsShape(s) /\ s.input = b.stats.input /\ s.deduped = b.stats.deduped
      /\ s.margin = b.stats.margin /\ s.brand = b.stats.brand
      /\ s.enrich = b.stats.enrich + (n - Len(kept))
  BY <1>1 DEF StatsShape
<1>. HIDE DEF l, s
<1>6. /\ l.at = "pricing" /\ l.left = b.left /\ l.verdict = b.verdict /\ l.out = w
      /\ l.passed = b.passed + n /\ l.stats = s
  BY <1>4
<1>7. Shape(l)
  BY <1>1, <1>2, <1>4, <1>5, <1>6 DEF Shape
<1>8. Adds(l)
  <2>. DEFINE i == b.stats.input
              d == b.stats.deduped
              m == b.stats.margin
              x == b.stats.brand
              e == b.stats.enrich
              u == Len(b.left)
              p == b.passed
              o == Len(b.out)
              k == Len(kept)
  <2>1. i \in Int /\ d \in Int /\ m \in Int /\ x \in Int /\ e \in Int /\ u \in Int /\ p \in Int
        /\ o \in Int /\ k \in Int
    BY <1>1 DEF StatsShape
  <2>2. i = d + m + x + e + (u - p) + o
    BY DEF Sound, Adds, Pending
  <2>3. Pending(l) = u - (p + n)
    BY <1>6 DEF Pending
  <2>4. /\ Len(l.out) = o + k /\ l.stats.input = i /\ l.stats.deduped = d /\ l.stats.margin = m
        /\ l.stats.brand = x /\ l.stats.enrich = e + (n - k) /\ l.at = "pricing"
    BY <1>2, <1>5, <1>6
  <2>. HIDE DEF i, d, m, x, e, u, p, o, k
  <2>5. i = d + m + x + (e + (n - k)) + (u - (p + n)) + (o + k)
    BY <2>1, <2>2
  <2>. QED  BY <2>3, <2>4, <2>5 DEF Adds
<1>9. Position(l)
  <2>1. ASSUME NEW i \in DOMAIN w PROVE \E k \in 1 .. b.passed + n : b.left[k].asin = w[i].asin
    <3>1. \A k : k \in 1 .. b.passed \/ k \in b.passed + 1 .. b.passed + n => k \in 1 .. b.passed + n
      BY <1>1
    <3>2. CASE i \in DOMAIN b.out /\ w[i] = b.out[i]
      BY <3>1, <3>2 DEF Sound, Position
    <3>3. CASE \E j \in DOMAIN kept : w[i] = kept[j]
      BY <3>1, <3>3
    <3>. QED  BY <1>3, <3>2, <3>3
  <2>. QED  BY <1>6, <2>1 DEF Sound, Position
<1>10. Verdicts(l)
  BY <1>6 DEF Sound, Verdicts
<1>11. Gated(l)
  <2>1. \A a : Excused(b, a) => Excused(l, a)
    BY <1>6 DEF Excused
  <2>2. ASSUME NEW o \in ToSet(b.left), o.asin \in RefusedProducts PROVE Excused(l, o.asin)
    BY <2>1, <2>2 DEF Sound, Gated
  <2>3. ASSUME NEW i \in DOMAIN w, w[i].asin \in RefusedProducts PROVE Excused(l, w[i].asin)
    <3>1. CASE i \in DOMAIN b.out /\ w[i] = b.out[i]
      BY <2>1, <2>3, <3>1 DEF Sound, Gated
    <3>2. CASE \E j \in DOMAIN kept : w[i] = kept[j]
      <4>1. PICK k \in b.passed + 1 .. b.passed + n : b.left[k].asin = w[i].asin
        BY <3>2
      <4>2. k \in 1 .. Len(b.left)
        BY <1>1
      <4>3. b.left[k] \in ToSet(b.left)
        BY <1>1, <4>2 DEF ToSet
      <4>. QED  BY <2>2, <2>3, <4>1, <4>3
    <3>. QED  BY <1>3, <3>1, <3>2
  <2>. QED  BY <1>6, <2>2, <2>3 DEF Gated
<1>. QED  BY <1>3, <1>7, <1>8, <1>9, <1>10, <1>11 DEF Sound, l, w

\* From then on only the count of the rows written changes.
Writing(b, at, left, passed) ==
    [at |-> at, left |-> left, verdict |-> b.verdict, out |-> b.out, passed |-> passed, stats |-> b.stats]

LEMMA WritingSound ==
    ASSUME NEW b, Sound(b), b.at \in {"pricing", "writing"}, Pending(b) = 0,
           NEW at \in {"writing", "done"}, NEW left \in {b.left, <<>>}, NEW passed \in Nat
    PROVE  Sound(Writing(b, at, left, passed))
<1>. DEFINE l == Writing(b, at, left, passed)
<1>1. /\ l.at = at /\ l.left = left /\ l.verdict = b.verdict /\ l.out = b.out /\ l.passed = passed
      /\ l.stats = b.stats
      /\ l = [at |-> l.at, left |-> l.left, verdict |-> l.verdict, out |-> l.out,
              passed |-> l.passed, stats |-> l.stats]
  BY DEF Writing
<1>. HIDE DEF l
<1>2. Shape(l)
  <2>1. /\ b.left \in Seq(Offers) /\ b.out \in Seq(Survivors) /\ StatsShape(b.stats)
        /\ <<>> \in Seq(Offers)
    BY DEF Sound, Shape
  <2>. QED  BY <1>1, <2>1 DEF Shape
<1>3. Adds(l)
  <2>1. Pending(l) = 0
    BY <1>1 DEF Pending
  <2>. QED  BY <1>1, <2>1 DEF Sound, Adds
<1>4. Position(l)
  <2>1. ToSet(<<>>) = {}
    BY DEF ToSet
  <2>. QED  BY <1>1, <2>1 DEF Sound, Position
<1>5. Verdicts(l) /\ Gated(l)
  BY <1>1 DEF Sound, Verdicts, Gated, Excused
<1>. QED  BY <1>2, <1>3, <1>4, <1>5 DEF Sound, l

-----------------------------------------------------------------------------
(* The assignments of the steps, as records.                               *)

LEMMA CountedBefore ==
    ASSUME NEW s, StatsShape(s), NEW x, NEW y
    PROVE  [s EXCEPT !.deduped = x, !.margin = y]
           = [input |-> s.input, deduped |-> x, margin |-> y, brand |-> s.brand, enrich |-> s.enrich]
<1>. DEFINE l == [s EXCEPT !.deduped = x, !.margin = y]
<1>1. l \in [input : {s.input}, deduped : {x}, margin : {y}, brand : {s.brand}, enrich : {s.enrich}]
  BY DEF StatsShape
<1>. HIDE DEF l
<1>2. l = [input |-> s.input, deduped |-> x, margin |-> y, brand |-> s.brand, enrich |-> s.enrich]
  BY <1>1
<1>. QED  BY <1>2 DEF l

LEMMA CountedBrands ==
    ASSUME NEW s, StatsShape(s), NEW x
    PROVE  [s EXCEPT !.brand = x]
           = [input |-> s.input, deduped |-> s.deduped, margin |-> s.margin, brand |-> x, enrich |-> s.enrich]
<1>. DEFINE l == [s EXCEPT !.brand = x]
<1>1. l \in [input : {s.input}, deduped : {s.deduped}, margin : {s.margin}, brand : {x}, enrich : {s.enrich}]
  BY DEF StatsShape
<1>. HIDE DEF l
<1>2. l = [input |-> s.input, deduped |-> s.deduped, margin |-> s.margin, brand |-> x, enrich |-> s.enrich]
  BY <1>1
<1>. QED  BY <1>2 DEF l

LEMMA CountedEnriched ==
    ASSUME NEW s, StatsShape(s), NEW x
    PROVE  [s EXCEPT !.enrich = x]
           = [input |-> s.input, deduped |-> s.deduped, margin |-> s.margin, brand |-> s.brand, enrich |-> x]
<1>. DEFINE l == [s EXCEPT !.enrich = x]
<1>1. l \in [input : {s.input}, deduped : {s.deduped}, margin : {s.margin}, brand : {s.brand}, enrich : {x}]
  BY DEF StatsShape
<1>. HIDE DEF l
<1>2. l = [input |-> s.input, deduped |-> s.deduped, margin |-> s.margin, brand |-> s.brand, enrich |-> x]
  BY <1>1
<1>. QED  BY <1>2 DEF l

LEMMA Entering ==
    ASSUME NEW b, Shape(b), NEW at, NEW left, NEW stats
    PROVE  [b EXCEPT !.at = at, !.left = left, !.stats = stats]
           = [at |-> at, left |-> left, verdict |-> b.verdict, out |-> b.out, passed |-> b.passed, stats |-> stats]
<1>. DEFINE l == [b EXCEPT !.at = at, !.left = left, !.stats = stats]
<1>1. l \in [at : {at}, left : {left}, verdict : {b.verdict}, out : {b.out}, passed : {b.passed}, stats : {stats}]
  BY DEF Shape
<1>. HIDE DEF l
<1>2. l = [at |-> at, left |-> left, verdict |-> b.verdict, out |-> b.out, passed |-> b.passed, stats |-> stats]
  BY <1>1
<1>. QED  BY <1>2 DEF l

LEMMA Judging ==
    ASSUME NEW b, Shape(b), NEW verdict
    PROVE  [b EXCEPT !.verdict = verdict]
           = [at |-> b.at, left |-> b.left, verdict |-> verdict, out |-> b.out, passed |-> b.passed, stats |-> b.stats]
<1>. DEFINE l == [b EXCEPT !.verdict = verdict]
<1>1. l \in [at : {b.at}, left : {b.left}, verdict : {verdict}, out : {b.out}, passed : {b.passed}, stats : {b.stats}]
  BY DEF Shape
<1>. HIDE DEF l
<1>2. l = [at |-> b.at, left |-> b.left, verdict |-> verdict, out |-> b.out, passed |-> b.passed, stats |-> b.stats]
  BY <1>1
<1>. QED  BY <1>2 DEF l

LEMMA Enriching ==
    ASSUME NEW b, Shape(b), NEW passed, NEW out, NEW stats
    PROVE  [b EXCEPT !.passed = passed, !.out = out, !.stats = stats]
           = [at |-> b.at, left |-> b.left, verdict |-> b.verdict, out |-> out, passed |-> passed, stats |-> stats]
<1>. DEFINE l == [b EXCEPT !.passed = passed, !.out = out, !.stats = stats]
<1>1. l \in [at : {b.at}, left : {b.left}, verdict : {b.verdict}, out : {out}, passed : {passed}, stats : {stats}]
  BY DEF Shape
<1>. HIDE DEF l
<1>2. l = [at |-> b.at, left |-> b.left, verdict |-> b.verdict, out |-> out, passed |-> passed, stats |-> stats]
  BY <1>1
<1>. QED  BY <1>2 DEF l

LEMMA Failing ==
    ASSUME NEW b, Shape(b), NEW passed, NEW out
    PROVE  [b EXCEPT !.passed = passed, !.out = out]
           = [at |-> b.at, left |-> b.left, verdict |-> b.verdict, out |-> out, passed |-> passed, stats |-> b.stats]
<1>. DEFINE l == [b EXCEPT !.passed = passed, !.out = out]
<1>1. l \in [at : {b.at}, left : {b.left}, verdict : {b.verdict}, out : {out}, passed : {passed}, stats : {b.stats}]
  BY DEF Shape
<1>. HIDE DEF l
<1>2. l = [at |-> b.at, left |-> b.left, verdict |-> b.verdict, out |-> out, passed |-> passed, stats |-> b.stats]
  BY <1>1
<1>. QED  BY <1>2 DEF l

LEMMA Counting ==
    ASSUME NEW b, Shape(b), NEW passed
    PROVE  [b EXCEPT !.passed = passed]
           = [at |-> b.at, left |-> b.left, verdict |-> b.verdict, out |-> b.out, passed |-> passed, stats |-> b.stats]
<1>. DEFINE l == [b EXCEPT !.passed = passed]
<1>1. l \in [at : {b.at}, left : {b.left}, verdict : {b.verdict}, out : {b.out}, passed : {passed}, stats : {b.stats}]
  BY DEF Shape
<1>. HIDE DEF l
<1>2. l = [at |-> b.at, left |-> b.left, verdict |-> b.verdict, out |-> b.out, passed |-> passed, stats |-> b.stats]
  BY <1>1
<1>. QED  BY <1>2 DEF l

LEMMA Ending ==
    ASSUME NEW b, Shape(b), NEW at, NEW passed
    PROVE  [b EXCEPT !.at = at, !.passed = passed]
           = [at |-> at, left |-> b.left, verdict |-> b.verdict, out |-> b.out, passed |-> passed, stats |-> b.stats]
<1>. DEFINE l == [b EXCEPT !.at = at, !.passed = passed]
<1>1. l \in [at : {at}, left : {b.left}, verdict : {b.verdict}, out : {b.out}, passed : {passed}, stats : {b.stats}]
  BY DEF Shape
<1>. HIDE DEF l
<1>2. l = [at |-> at, left |-> b.left, verdict |-> b.verdict, out |-> b.out, passed |-> passed, stats |-> b.stats]
  BY <1>1
<1>. QED  BY <1>2 DEF l

-----------------------------------------------------------------------------
(* The steps of a batch.                                                   *)

LEMMA NoBatchFields == NoBatch.at = "idle" /\ NoBatch.left = <<>> /\ NoBatch.out = <<>> /\ NoBatch.passed = 0
BY DEF NoBatch, Empty

\* Without overlaps a scan in its funnel is the only function under way.
LEMMA Undisturbed ==
    ASSUME IInv, ~loose, NEW c \in Callers, scan[c].at = "funnel"
    PROVE  /\ \A d \in Callers : d # c => batch[d] = NoBatch
           /\ refresh.todo = {} /\ DOMAIN refresh.answers = {}
<1>1. Serial
  BY DEF IInv, Prices
<1>2. Busy(c)
  BY DEF Busy
<1>3. \A d \in Callers : d # c => ~Busy(d)
  BY <1>1, <1>2 DEF Serial
<1>4. \A d \in Callers : d # c => scan[d].at = "idle"
  BY <1>3 DEF Busy
<1>5. refresh.at = "idle"
  BY <1>1, <1>2 DEF Serial
<1>. QED  BY <1>4, <1>5 DEF IInv, Batches, Stored, RefreshShape

LEMMA FunnelKept ==
    ASSUME IInv, NEW c \in Callers, scan[c].at = "funnel", UNCHANGED <<rotation, scan, refresh>>,
           Stored', NEW l, Sound(l), batch' = [batch EXCEPT ![c] = l], ~loose' => ~loose,
           ~loose' => Honest(l, catalog', told', unsure') /\ FreshIsTold'
    PROVE  IInv'
<1>1. Scans'
  <2>1. Scans
    BY DEF IInv
  <2>. QED  BY <2>1 DEF Scans
<1>2. /\ batch' = [d \in Callers |-> batch'[d]] /\ batch'[c] = l
      /\ \A d \in Callers : d # c => batch'[d] = batch[d]
  BY DEF IInv, Batches
<1>3. Batches'
  <2>1. ASSUME NEW d \in Callers
        PROVE  Sound(batch'[d]) /\ (scan'[d].at \notin {"funnel", "answer"} => batch'[d] = NoBatch)
    <3>1. CASE d = c
      BY <1>2, <3>1
    <3>2. CASE d # c
      BY <1>2, <3>2 DEF IInv, Batches
    <3>. QED  BY <3>1, <3>2
  <2>. QED  BY <1>2, <2>1 DEF Batches
<1>4. Prices'
  <2>. SUFFICES ASSUME ~loose'
                PROVE  /\ Serial' /\ \A d \in Callers : Honest(batch'[d], catalog', told', unsure')
                       /\ Renews(refresh', catalog', told') /\ FreshIsTold'
    BY DEF Prices
  <2>1. Serial'
    BY DEF IInv, Prices, Serial, Busy
  <2>2. \A d \in Callers : Honest(batch'[d], catalog', told', unsure')
    BY <1>2, Undisturbed, NoBatchSound
  <2>3. Renews(refresh', catalog', told')
    BY Undisturbed DEF Renews
  <2>. QED  BY <2>1, <2>2, <2>3
<1>. QED  BY <1>1, <1>3, <1>4 DEF IInv

LEMMA FaultTyped == ASSUME faults \in Nat, Fault PROVE faults' \in Nat /\ faults' # faults
BY DEF Fault

\* Steps that leave the catalog and Amazon's answers alone.
LEMMA StoredSame ==
    ASSUME Stored, UNCHANGED <<catalog, eligibility, told, rotation, refresh>>, faults' \in Nat
    PROVE  Stored'
BY DEF Stored, Remembered

LEMMA TellsSame == ASSUME FreshIsTold, UNCHANGED <<catalog, told, unsure>>, ~loose PROVE FreshIsTold'
BY DEF FreshIsTold, FreshRows

LEMMA DedupKept ==
    ASSUME IInv, NEW c \in Callers, Funnel(c), Dedup(c)
    PROVE  IInv'
<1>. DEFINE b == batch[c]
<1>1. /\ scan[c].at = "funnel" /\ b.at = "dedup" /\ Sound(b) /\ faults \in Nat
      /\ UNCHANGED <<rotation, scan, refresh, catalog, eligibility, told, unsure>>
      /\ loose' = (loose \/ faults' # faults)
  BY DEF Funnel, Dedup, IInv, Batches, Stored
<1>. DEFINE Steps(known) ==
              /\ IF known = FreshRows THEN NoFault ELSE Fault
              /\ LET stale == Selected(b.left, {o \in Offers : o.asin \notin known})
                     good == Selected(stale, Estimated)
                 IN batch' = [batch EXCEPT ![c] =
                                [b EXCEPT !.at = "brands", !.left = good,
                                          !.stats = [b.stats EXCEPT !.deduped = Len(b.left) - Len(stale),
                                                                    !.margin = Len(stale) - Len(good)]]]
<1>2. \E known \in {FreshRows, {}} : Steps(known)
  BY Zenon DEF Dedup
<1>. HIDE DEF Steps
<1>3. PICK known \in {FreshRows, {}} : Steps(known)
  BY <1>2
<1>. DEFINE stale == Selected(b.left, {o \in Offers : o.asin \notin known})
            good == Selected(stale, Estimated)
            l == Deduped(b, stale, good)
<1>4. Sound(l) /\ \A o \in ToSet(good) : o.asin \notin known
  <2>1. stale = Selected(b.left, Unknown(known))
    BY DEF Unknown
  <2>. HIDE DEF b, stale
  <2>. QED  BY <1>1, <2>1, DedupedSound
<1>. HIDE DEF stale, good
<1>5. batch' = [batch EXCEPT ![c] = l]
  <2>. DEFINE x == Len(b.left) - Len(stale)
              y == Len(stale) - Len(good)
              s == [b.stats EXCEPT !.deduped = x, !.margin = y]
              m == [b EXCEPT !.at = "brands", !.left = good, !.stats = s]
  <2>1. Shape(b) /\ batch = [d \in Callers |-> batch[d]] /\ StatsShape(b.stats)
    BY <1>1 DEF Sound, Shape, IInv, Batches
  <2>2. batch' = [batch EXCEPT ![c] = m]
    BY <1>3, Zenon DEF Steps, stale, good
  <2>3. s = [input |-> b.stats.input, deduped |-> x, margin |-> y, brand |-> b.stats.brand,
             enrich |-> b.stats.enrich]
    <3>. HIDE DEF x, y
    <3>. QED  BY <2>1, CountedBefore, Zenon
  <2>5. m = [at |-> "brands", left |-> good, verdict |-> b.verdict, out |-> b.out, passed |-> b.passed,
             stats |-> s]
    <3>. HIDE DEF s
    <3>. QED  BY <2>1, Entering, Zenon
  <2>6. m = l
    <3>. HIDE DEF m, s
    <3>. QED  BY <2>3, <2>5 DEF Deduped
  <2>. QED  BY <2>2, <2>6
<1>6. faults' \in Nat /\ (~loose' => ~loose /\ known = FreshRows)
  BY <1>1, <1>3, FaultTyped DEF Steps, NoFault
<1>7. Stored'
  BY <1>1, <1>6, StoredSame DEF IInv
<1>8. ASSUME ~loose' PROVE Honest(l, catalog', told', unsure') /\ FreshIsTold'
  <2>1. l.left = good /\ l.out = <<>>
    BY <1>1 DEF Deduped, Sound, Position
  <2>2. Sound(l) /\ ToSet(good) \subseteq ToSet(l.left) /\ l.left \in Seq(Offers)
    BY <1>4, <2>1 DEF Sound, Shape
  <2>3. \A o \in ToSet(good) : o.asin \in Asins
    <3>1. good \in Seq(Offers)
      BY <2>1, <2>2
    <3>2. \A o \in ToSet(good) : o \in Offers
      BY <3>1 DEF ToSet
    <3>. QED  BY <3>2 DEF Offers
  <2>4. \A o \in ToSet(good) : catalog[o.asin].age # "fresh"
    BY <1>4, <1>6, <1>8, <2>3 DEF FreshRows
  <2>5. FreshIsTold'
    BY <1>1, <1>6, <1>8, TellsSame DEF IInv, Prices
  <2>. HIDE DEF l
  <2>. QED  BY <1>1, <2>1, <2>4, <2>5 DEF Honest
<1>. HIDE DEF l, b
<1>. QED  BY <1>1, <1>4, <1>5, <1>6, <1>7, <1>8, FunnelKept

\* A brand's verdict.
LEMMA JudgeKept ==
    ASSUME IInv, NEW c \in Callers, scan[c].at = "funnel", batch[c].at = "brands",
           NEW x \in Brands, x \in Unchecked(c),
           NEW status \in {"eligible", "presumed", "restricted", "failed"},
           x \in Refused => status # "eligible", Judge(c, x, status),
           UNCHANGED <<rotation, scan, refresh, catalog, told, unsure>>, ~loose' => ~loose, Stored'
    PROVE  IInv'
<1>. DEFINE b == batch[c]
            l == Judged(b, x, status)
<1>1. Sound(b) /\ Shape(b) /\ x \notin DOMAIN b.verdict
  BY DEF IInv, Batches, Sound, Unchecked
<1>2. batch' = [batch EXCEPT ![c] = l]
  <2>1. batch' = [batch EXCEPT ![c] = [b EXCEPT !.verdict = With(b.verdict, x, status)]]
    BY DEF Judge
  <2>. DEFINE v == With(b.verdict, x, status)
  <2>2. [b EXCEPT !.verdict = v] = l
    <3>. HIDE DEF b, v
    <3>1. [b EXCEPT !.verdict = v]
          = [at |-> b.at, left |-> b.left, verdict |-> v, out |-> b.out, passed |-> b.passed, stats |-> b.stats]
      BY <1>1, Judging, Zenon
    <3>. QED  BY <3>1 DEF Judged, v
  <2>. QED  BY <2>1, <2>2
<1>3. Sound(l)
  <2>. HIDE DEF b
  <2>1. b.at = "brands"
    BY DEF b
  <2>. QED  BY <1>1, <2>1, JudgedSound
<1>4. ASSUME ~loose' PROVE Honest(l, catalog', told', unsure') /\ FreshIsTold'
  <2>1. FreshIsTold'
    BY <1>4, TellsSame DEF IInv, Prices
  <2>2. Honest(b, catalog, told, unsure)
    BY <1>4 DEF IInv, Prices
  <2>3. l.at = b.at /\ l.left = b.left /\ l.out = b.out
    BY DEF Judged
  <2>. HIDE DEF l, b
  <2>. QED  BY <2>1, <2>2, <2>3 DEF Honest
<1>. HIDE DEF l
<1>. QED  BY <1>2, <1>3, <1>4, FunnelKept

LEMMA StoredVerdict ==
    ASSUME Stored, NEW x \in Brands, NEW status \in {"eligible", "presumed", "restricted"},
           x \in Refused => status # "eligible", eligibility' = [eligibility EXCEPT ![x] = Cached(status)],
           UNCHANGED <<catalog, told, rotation, refresh>>, faults' \in Nat
    PROVE  Stored'
<1>1. Cached(status) \in Eligibilities /\ Cached(status).status = status
  BY DEF Cached, Eligibilities
<1>2. eligibility' \in [Brands -> Eligibilities]
  BY <1>1 DEF Stored
<1>3. eligibility'[x].status = status /\ \A y \in Brands : y # x => eligibility'[y] = eligibility[y]
  BY <1>1 DEF Stored
<1>4. Remembered'
  BY <1>3 DEF Stored, Remembered
<1>. QED  BY <1>2, <1>4 DEF Stored

LEMMA CheckKept ==
    ASSUME IInv, NEW c \in Callers, Funnel(c), NEW x \in Brands,
           CheckCached(c, x) \/ CheckAmazon(c, x) \/ CheckUnanswered(c, x) \/ CheckFailed(c, x)
    PROVE  IInv'
<1>1. /\ scan[c].at = "funnel" /\ batch[c].at = "brands" /\ Sound(batch[c]) /\ faults \in Nat
      /\ x \in Unchecked(c)
      /\ UNCHANGED <<rotation, scan, refresh, catalog, told, unsure>> /\ (~loose' => ~loose)
  BY DEF Funnel, CheckCached, CheckAmazon, CheckUnanswered, CheckFailed, IInv, Batches, Stored
<1>2. Stored
  BY DEF IInv
<1>3. CASE CheckCached(c, x)
  <2>1. eligibility[x].fresh /\ eligibility[x] \in Eligibilities
    BY <1>2, <1>3 DEF CheckCached, CacheHit, Stored
  <2>2. eligibility[x].status \in {"eligible", "presumed", "restricted"}
        /\ (x \in Refused => eligibility[x].status # "eligible")
    BY <1>2, <2>1 DEF Stored, Remembered, Eligibilities
  <2>3. Stored'
    BY <1>1, <1>2, <1>3, StoredSame DEF CheckCached
  <2>4. Judge(c, x, eligibility[x].status)
    BY <1>3 DEF CheckCached
  <2>. QED  BY <1>1, <2>2, <2>3, <2>4, JudgeKept
<1>4. CASE CheckAmazon(c, x)
  <2>. DEFINE status == StatusOf(Sample(batch[c].left, x))
  <2>1. status \in {"eligible", "restricted"}
    BY DEF StatusOf
  <2>2. x \in Refused => status # "eligible"
    <3>1. batch[c].left \in Seq(Offers) /\ ToSet(batch[c].left) \subseteq Found
          /\ x \in BrandsOf(batch[c].left)
      BY <1>1 DEF Sound, Shape, Position, Unchecked
    <3>2. PICK o \in ToSet(batch[c].left) : o.brand = x /\ o.asin = Sample(batch[c].left, x)
      BY <3>1, SampleMeans
    <3>3. x \in Refused => o.asin \in Restricted
      BY <3>1, <3>2 DEF Refused, Found
    <3>. QED  BY <3>2, <3>3 DEF StatusOf
  <2>3. /\ Judge(c, x, status)
        /\ \/ eligibility' = [eligibility EXCEPT ![x] = Cached(status)] /\ NoFault
           \/ UNCHANGED eligibility /\ Fault
    BY <1>4 DEF CheckAmazon
  <2>. HIDE DEF status
  <2>4. faults' \in Nat
    BY <1>1, <2>3, FaultTyped DEF NoFault
  <2>5. Stored'
    BY <1>1, <1>2, <2>1, <2>2, <2>3, <2>4, StoredSame, StoredVerdict
  <2>. QED  BY <1>1, <2>1, <2>2, <2>3, <2>5, JudgeKept
<1>5. CASE CheckUnanswered(c, x)
  <2>1. Judge(c, x, "presumed") /\ eligibility' = [eligibility EXCEPT ![x] = Cached("presumed")] /\ Fault
    BY <1>5 DEF CheckUnanswered
  <2>2. faults' \in Nat
    BY <1>1, <2>1, FaultTyped
  <2>3. Stored'
    BY <1>1, <1>2, <2>1, <2>2, StoredVerdict
  <2>. QED  BY <1>1, <2>1, <2>3, JudgeKept
<1>6. CASE CheckFailed(c, x)
  <2>1. Judge(c, x, "failed") /\ UNCHANGED eligibility /\ Fault
    BY <1>6 DEF CheckFailed
  <2>2. faults' \in Nat
    BY <1>1, <2>1, FaultTyped
  <2>3. Stored'
    BY <1>1, <1>2, <2>2, <2>1, StoredSame
  <2>. QED  BY <1>1, <2>1, <2>3, JudgeKept
<1>. QED  BY <1>3, <1>4, <1>5, <1>6

LEMMA GateKept ==
    ASSUME IInv, NEW c \in Callers, Funnel(c), BrandGate(c)
    PROVE  IInv'
<1>. DEFINE b == batch[c]
            kept == Selected(b.left, Kept(b))
            l == GatedBy(b, kept)
<1>1. /\ scan[c].at = "funnel" /\ b.at = "brands" /\ Sound(b) /\ Shape(b) /\ StatsShape(b.stats)
      /\ Unchecked(c) = {} /\ UNCHANGED <<rotation, scan, refresh, catalog, eligibility, faults, told, unsure>>
      /\ (~loose' => ~loose) /\ Stored
  BY DEF Funnel, BrandGate, IInv, Batches, Sound, Shape
<1>2. batch' = [batch EXCEPT ![c] = [b EXCEPT !.at = "pricing", !.left = kept,
                                              !.stats = [b.stats EXCEPT !.brand = Len(b.left) - Len(kept)]]]
  BY Zenon DEF BrandGate, Kept
<1>3. BrandsOf(b.left) \subseteq DOMAIN b.verdict
  BY <1>1 DEF Unchecked
<1>. HIDE DEF b, kept
<1>4. Sound(l) /\ ToSet(kept) \subseteq ToSet(b.left)
  <2>1. kept = Selected(b.left, Kept(b))
    BY DEF kept
  <2>. QED  BY <1>1, <1>3, <2>1, GatedSound
<1>5. batch' = [batch EXCEPT ![c] = l]
  <2>. DEFINE x == Len(b.left) - Len(kept)
              t == [b.stats EXCEPT !.brand = x]
  <2>1. t = [input |-> b.stats.input, deduped |-> b.stats.deduped, margin |-> b.stats.margin,
             brand |-> x, enrich |-> b.stats.enrich]
    <3>. HIDE DEF x
    <3>. QED  BY <1>1, CountedBrands, Zenon
  <2>2. [b EXCEPT !.at = "pricing", !.left = kept, !.stats = t]
        = [at |-> "pricing", left |-> kept, verdict |-> b.verdict, out |-> b.out, passed |-> b.passed, stats |-> t]
    <3>. HIDE DEF t
    <3>. QED  BY <1>1, Entering, Zenon
  <2>3. [b EXCEPT !.at = "pricing", !.left = kept, !.stats = t] = l
    BY <2>1, <2>2, Zenon DEF GatedBy
  <2>. QED  BY <1>2, <2>3, Zenon
<1>6. Stored'
  BY <1>1, StoredSame DEF Stored
<1>7. ASSUME ~loose' PROVE Honest(l, catalog', told', unsure') /\ FreshIsTold'
  <2>1. FreshIsTold'
    BY <1>1, <1>7, TellsSame DEF IInv, Prices
  <2>2. Honest(b, catalog, told, unsure)
    BY <1>1, <1>7 DEF IInv, Prices, b
  <2>3. l.at = "pricing" /\ l.left = kept /\ l.out = b.out
    BY DEF GatedBy
  <2>. HIDE DEF l
  <2>. QED  BY <1>1, <1>4, <2>1, <2>2, <2>3 DEF Honest
<1>. HIDE DEF l
<1>. QED  BY <1>1, <1>4, <1>5, <1>6, <1>7, FunnelKept

\* Steps that only count the rows written, and the one that begins to write.
LEMMA CloseKept ==
    ASSUME IInv, NEW c \in Callers, scan[c].at = "funnel", batch[c].at \in {"pricing", "writing"},
           Pending(batch[c]) = 0, NEW at \in {"writing", "done"}, NEW left \in {batch[c].left, <<>>},
           NEW passed \in Nat, NEW l, l = Writing(batch[c], at, left, passed), batch' = [batch EXCEPT ![c] = l],
           UNCHANGED <<rotation, scan, refresh, told, unsure>>, ~loose' => ~loose, Stored',
           ~loose' => FreshIsTold'
    PROVE  IInv'
<1>. DEFINE b == batch[c]
<1>1. Sound(b)
  BY DEF IInv, Batches
<1>2. Sound(l)
  <2>1. /\ b.at \in {"pricing", "writing"} /\ Pending(b) = 0 /\ left \in {b.left, <<>>}
        /\ l = Writing(b, at, left, passed)
    OBVIOUS
  <2>. HIDE DEF b
  <2>. QED  BY <1>1, <2>1, WritingSound
<1>3. ASSUME ~loose' PROVE Honest(l, catalog', told', unsure')
  <2>1. Honest(b, catalog, told, unsure)
    BY <1>3 DEF IInv, Prices
  <2>2. l.at \notin {"brands", "pricing"} /\ l.out = b.out
    BY DEF Writing
  <2>. HIDE DEF b
  <2>. QED  BY <2>1, <2>2 DEF Honest
<1>. QED  BY <1>2, <1>3, FunnelKept

LEMMA EndPricingKept ==
    ASSUME IInv, NEW c \in Callers, Funnel(c), EndPricing(c)
    PROVE  IInv'
<1>. DEFINE b == batch[c]
<1>1. /\ scan[c].at = "funnel" /\ b.at = "pricing" /\ b.passed = Len(b.left) /\ Shape(b)
      /\ UNCHANGED <<rotation, scan, refresh, catalog, eligibility, faults, told, unsure>>
      /\ (~loose' => ~loose) /\ Stored
  BY DEF Funnel, EndPricing, IInv, Batches, Sound
<1>2. batch' = [batch EXCEPT ![c] = [b EXCEPT !.at = "writing", !.left = <<>>, !.passed = 0]]
  BY DEF EndPricing, Empty
<1>3. Pending(b) = 0
  BY <1>1 DEF Pending, Shape
<1>. DEFINE l == Writing(b, "writing", <<>>, 0)
<1>4. [b EXCEPT !.at = "writing", !.left = <<>>, !.passed = 0] = l
  <2>1. Shape(b)
    BY <1>1
  <2>. DEFINE m == [b EXCEPT !.at = "writing", !.left = <<>>, !.passed = 0]
  <2>. HIDE DEF b
  <2>2. m \in [at : {"writing"}, left : {<<>>}, verdict : {b.verdict}, out : {b.out}, passed : {0}, stats : {b.stats}]
    BY <2>1 DEF Shape
  <2>. HIDE DEF m
  <2>3. m = [at |-> "writing", left |-> <<>>, verdict |-> b.verdict, out |-> b.out, passed |-> 0, stats |-> b.stats]
    BY <2>2
  <2>. QED  BY <2>3 DEF m, Writing
<1>5. Stored'
  BY <1>1, StoredSame DEF Stored
<1>6. ~loose' => FreshIsTold'
  BY <1>1, TellsSame DEF IInv, Prices
<1>7. batch' = [batch EXCEPT ![c] = l] /\ 0 \in Nat
  BY <1>2, <1>4, Zenon
<1>8. l = Writing(batch[c], "writing", <<>>, 0)
  OBVIOUS
<1>. HIDE DEF l
<1>. QED  BY <1>1, <1>3, <1>5, <1>6, <1>7, <1>8, CloseKept

LEMMA EndBatchKept ==
    ASSUME IInv, NEW c \in Callers, Funnel(c), EndBatch(c)
    PROVE  IInv'
<1>. DEFINE b == batch[c]
<1>1. /\ scan[c].at = "funnel" /\ b.at = "writing" /\ Shape(b) /\ faults \in Nat
      /\ UNCHANGED <<rotation, scan, refresh, catalog, eligibility, told, unsure>> /\ (NoFault \/ Fault)
      /\ (~loose' => ~loose) /\ Stored
  BY DEF Funnel, EndBatch, IInv, Batches, Sound, Stored
<1>2. batch' = [batch EXCEPT ![c] = [b EXCEPT !.at = "done", !.passed = 0]]
  BY DEF EndBatch
<1>3. Pending(b) = 0
  BY <1>1 DEF Pending
<1>. DEFINE l == Writing(b, "done", b.left, 0)
<1>4. [b EXCEPT !.at = "done", !.passed = 0] = l
  <2>0. Shape(b)
    BY <1>1
  <2>. DEFINE zero == 0
  <2>. HIDE DEF b, zero
  <2>1. [b EXCEPT !.at = "done", !.passed = zero]
        = [at |-> "done", left |-> b.left, verdict |-> b.verdict, out |-> b.out, passed |-> zero, stats |-> b.stats]
    BY <2>0, Ending, Zenon
  <2>. USE DEF zero
  <2>. QED  BY <2>1 DEF Writing
<1>5. Stored'
  BY <1>1, StoredSame, FaultTyped DEF NoFault
<1>6. ~loose' => FreshIsTold'
  BY <1>1, TellsSame DEF IInv, Prices
<1>7. batch' = [batch EXCEPT ![c] = l] /\ 0 \in Nat
  BY <1>2, <1>4, Zenon
<1>8. l = Writing(batch[c], "done", batch[c].left, 0)
  OBVIOUS
<1>. HIDE DEF l
<1>. QED  BY <1>1, <1>3, <1>5, <1>6, <1>7, <1>8, CloseKept

\* A row that is written and counts as fresh holds what Amazon said last.
LEMMA UpsertedTyped ==
    ASSUME NEW row \in Rows, NEW s \in Survivors
    PROVE  Upserted(row, s) \in Rows
<1>. DEFINE w == Upserted(row, s)
            price == IF s.buyBox > 0 THEN s.buyBox ELSE row.buyBox
            sellers == IF s.sellers > 0 THEN s.sellers ELSE row.sellers
            age == IF row = NoRow THEN (IF s.checked THEN "fresh" ELSE "never")
                   ELSE IF s.buyBox > 0 THEN "fresh" ELSE row.age
<1>1. s.buyBox \in Nat /\ s.sellers \in Nat
  BY DEF Survivors
<1>2. row.buyBox \in Nat /\ row.sellers \in Nat /\ row.age \in {"absent", "never", "fresh", "stale"}
  BY DEF Rows
<1>3. price \in Nat /\ sellers \in Nat
  BY <1>1, <1>2
<1>4. age \in {"absent", "never", "fresh", "stale"}
  BY <1>2
<1>5. w = [buyBox |-> price, sellers |-> sellers, age |-> age]
  BY DEF Upserted
<1>. HIDE DEF w, price, sellers, age
<1>6. w \in Rows
  BY <1>3, <1>4, <1>5 DEF Rows
<1>. QED  BY <1>6 DEF w

LEMMA UpsertedMeans ==
    ASSUME NEW row \in Rows, NEW s \in Survivors
    PROVE  /\ s.buyBox > 0 => Upserted(row, s).buyBox = s.buyBox
           /\ ~(s.buyBox > 0) => /\ Upserted(row, s).buyBox = row.buyBox
                                 /\ Upserted(row, s).age = "fresh" => row.age = "fresh" \/ s.checked = TRUE
<1>1. s.checked \in BOOLEAN
  BY DEF Survivors
<1>2. Upserted(row, s).buyBox = IF s.buyBox > 0 THEN s.buyBox ELSE row.buyBox
  BY DEF Upserted
<1>3. Upserted(row, s).age = IF row = NoRow THEN (IF s.checked THEN "fresh" ELSE "never")
                             ELSE IF s.buyBox > 0 THEN "fresh" ELSE row.age
  BY DEF Upserted
<1>. QED  BY <1>1, <1>2, <1>3

LEMMA WriteRowKept ==
    ASSUME IInv, NEW c \in Callers, Funnel(c), WriteRow(c)
    PROVE  IInv'
<1>. DEFINE b == batch[c]
            s == b.out[b.passed + 1]
            row == catalog[s.asin]
            l == Writing(b, "writing", b.left, b.passed + 1)
<1>1. /\ scan[c].at = "funnel" /\ b.at = "writing" /\ Shape(b) /\ b.passed < Len(b.out)
      /\ UNCHANGED <<rotation, scan, refresh, eligibility, faults, told, unsure>>
      /\ (~loose' => ~loose) /\ Stored
  BY DEF Funnel, WriteRow, IInv, Batches, Sound
<1>2. batch' = [batch EXCEPT ![c] = [b EXCEPT !.passed = b.passed + 1]]
      /\ catalog' = [catalog EXCEPT ![s.asin] = Upserted(row, s)]
  BY DEF WriteRow
<1>3. Pending(b) = 0
  BY <1>1 DEF Pending
<1>4. [b EXCEPT !.passed = b.passed + 1] = l
  <2>1. Shape(b)
    BY <1>1
  <2>. DEFINE n == b.passed + 1
              m == [b EXCEPT !.passed = n]
  <2>. HIDE DEF b, n
  <2>2. m \in [at : {b.at}, left : {b.left}, verdict : {b.verdict}, out : {b.out}, passed : {n}, stats : {b.stats}]
    BY <2>1 DEF Shape
  <2>. HIDE DEF m
  <2>3. m = [at |-> b.at, left |-> b.left, verdict |-> b.verdict, out |-> b.out, passed |-> n, stats |-> b.stats]
    BY <2>2
  <2>4. b.at = "writing"
    BY <1>1 DEF b
  <2>. QED  BY <2>3, <2>4 DEF m, n, Writing
<1>5. b.passed + 1 \in DOMAIN b.out /\ s \in Survivors /\ b.passed + 1 \in Nat
  <2>1. b.out \in Seq(Survivors) /\ b.passed \in Nat
    BY <1>1 DEF Shape
  <2>. HIDE DEF b
  <2>2. b.passed < Len(b.out)
    BY <1>1 DEF b
  <2>. QED  BY <2>1, <2>2
<1>6. s.asin \in Asins
  BY <1>5 DEF Survivors
<1>7. catalog' \in [Asins -> Rows] /\ catalog'[s.asin] = Upserted(row, s)
      /\ \A a \in Asins : a # s.asin => catalog'[a] = catalog[a]
  <2>1. catalog \in [Asins -> Rows]
    BY <1>1 DEF Stored
  <2>2. row \in Rows
    BY <1>6, <2>1
  <2>3. Upserted(row, s) \in Rows
    BY <1>5, <2>2, UpsertedTyped
  <2>. HIDE DEF s, row
  <2>. QED  BY <1>2, <1>6, <2>1, <2>3
<1>a. /\ s.buyBox > 0 => catalog'[s.asin].buyBox = s.buyBox
      /\ ~(s.buyBox > 0) => /\ catalog'[s.asin].buyBox = row.buyBox
                            /\ catalog'[s.asin].age = "fresh" => row.age = "fresh" \/ s.checked = TRUE
  <2>1. row \in Rows
    BY <1>1, <1>6 DEF Stored
  <2>. HIDE DEF s, row
  <2>2. s \in Survivors
    BY <1>5
  <2>3. catalog'[s.asin] = Upserted(row, s)
    BY <1>7
  <2>4. /\ s.buyBox > 0 => Upserted(row, s).buyBox = s.buyBox
        /\ ~(s.buyBox > 0) => /\ Upserted(row, s).buyBox = row.buyBox
                              /\ Upserted(row, s).age = "fresh" => row.age = "fresh" \/ s.checked = TRUE
    BY <2>1, <2>2, UpsertedMeans, ZenonT(40)
  <2>. QED  BY <2>3, <2>4
<1>8. Stored'
  <2>1. Stored /\ eligibility' = eligibility /\ faults' = faults /\ told' = told
        /\ rotation' = rotation /\ refresh' = refresh /\ catalog' \in [Asins -> Rows]
    BY <1>1, <1>7
  <2>. QED  BY <2>1 DEF Stored, Remembered
<1>9. ASSUME ~loose' PROVE FreshIsTold'
  <2>1. Honest(b, catalog, told, unsure) /\ (\A a \in FreshRows \ unsure : catalog[a].buyBox = told[a])
    BY <1>1, <1>9 DEF IInv, Prices, FreshIsTold
  <2>2. IF s.checked THEN s.asin \in unsure \/ (s.buyBox > 0 /\ s.buyBox = told[s.asin]) ELSE s.buyBox = 0
    BY <1>5, <2>1 DEF Honest
  <2>3. s.buyBox \in Nat
    BY <1>5 DEF Survivors
  <2>4. ASSUME catalog'[s.asin].age = "fresh", s.asin \notin unsure PROVE catalog'[s.asin].buyBox = told[s.asin]
    <3>0. catalog[s.asin].age = "fresh" => catalog[s.asin].buyBox = told[s.asin]
      BY <1>6, <2>1, <2>4 DEF FreshRows
    <3>1. s.checked \in BOOLEAN
      BY <1>5 DEF Survivors
    <3>. HIDE DEF s
    <3>. QED  BY <1>a, <2>2, <2>3, <2>4, <3>0, <3>1
  <2>5. \A a \in Asins : catalog'[a].age = "fresh" /\ a \notin unsure => catalog'[a].buyBox = told[a]
    <3>. HIDE DEF s, row
    <3>. QED  BY <1>7, <2>1, <2>4 DEF FreshRows
  <2>. QED  BY <1>1, <2>5 DEF FreshIsTold, FreshRows
<1>10. batch' = [batch EXCEPT ![c] = l] /\ l = Writing(batch[c], "writing", batch[c].left, batch[c].passed + 1)
  BY <1>2, <1>4, Zenon
<1>. HIDE DEF l
<1>. QED  BY <1>1, <1>3, <1>5, <1>8, <1>9, <1>10, CloseKept

\* A pricing call asks for the next offers of the batch.
LEMMA AskedMeans ==
    ASSUME NEW c \in Callers, Sound(batch[c]), batch[c].at = "pricing", batch[c].passed < Len(batch[c].left)
    PROVE  /\ Asked(c) \in Seq(Offers) /\ batch[c].passed + Len(Asked(c)) <= Len(batch[c].left)
           /\ \A i \in 1 .. Len(Asked(c)) :
                 /\ Asked(c)[i] = batch[c].left[batch[c].passed + i]
                 /\ batch[c].passed + i \in 1 .. Len(batch[c].left)
                 /\ Asked(c)[i] \in ToSet(batch[c].left)
<1>. DEFINE left == batch[c].left
            done == batch[c].passed
            last == IF done + BatchSize < Len(left) THEN done + BatchSize ELSE Len(left)
            asked == SubSeq(left, done + 1, last)
<1>1. left \in Seq(Offers) /\ done \in Nat /\ Len(left) \in Nat /\ done < Len(left)
  BY DEF Sound, Shape
<1>2. Asked(c) = asked
  BY DEF Asked
<1>. HIDE DEF left, done
<1>3. last \in Nat /\ last <= Len(left) /\ done + 1 <= last
  BY <1>1, FunnelAssumption
<1>. HIDE DEF last
<1>4. done + 1 \in 1 .. Len(left) + 1 /\ last \in (done + 1) - 1 .. Len(left)
  BY <1>1, <1>3
<1>5. /\ asked \in Seq(Offers) /\ Len(asked) = last - (done + 1) + 1
      /\ \A i \in 1 .. last - (done + 1) + 1 : asked[i] = left[(done + 1) + i - 1]
  BY <1>1, <1>4, SubSeqProperties
<1>. HIDE DEF asked
<1>6. Len(asked) = last - done /\ done + Len(asked) <= Len(left)
  BY <1>1, <1>3, <1>5
<1>7. ASSUME NEW i \in 1 .. Len(asked)
      PROVE  asked[i] = left[done + i] /\ done + i \in 1 .. Len(left) /\ asked[i] \in ToSet(left)
  <2>1. (done + 1) + i - 1 = done + i /\ done + i \in 1 .. Len(left) /\ i \in 1 .. last - (done + 1) + 1
    BY <1>1, <1>3, <1>6
  <2>2. asked[i] = left[done + i]
    BY <1>5, <2>1
  <2>. QED  BY <1>1, <2>1, <2>2 DEF ToSet
<1>. QED  BY <1>2, <1>5, <1>6, <1>7 DEF left, done

LEMMA AskedBeforeMeans ==
    ASSUME NEW c \in Callers, Sound(batch[c]), batch[c].at = "pricing", NEW k \in 1 .. batch[c].passed
    PROVE  batch[c].left[k].asin \in AskedBefore(c)
<1>. DEFINE left == batch[c].left
            done == batch[c].passed
            q == SubSeq(left, 1, done)
<1>1. left \in Seq(Offers) /\ done \in Nat /\ Len(left) \in Nat /\ done <= Len(left)
  BY DEF Sound, Shape, Position
<1>2. AskedBefore(c) = AsinsOf(q) /\ k \in 1 .. done
  BY DEF AskedBefore
<1>. HIDE DEF left, done
<1>3. 1 \in 1 .. Len(left) + 1 /\ done \in 1 - 1 .. Len(left)
  BY <1>1
<1>4. q \in Seq(Offers) /\ Len(q) = done - 1 + 1 /\ \A i \in 1 .. done - 1 + 1 : q[i] = left[1 + i - 1]
  BY <1>1, <1>3, SubSeqProperties
<1>. HIDE DEF q
<1>5. k \in 1 .. Len(q) /\ q[k] = left[k]
  <2>1. k \in 1 .. done - 1 + 1 /\ 1 + k - 1 = k /\ Len(q) = done
    BY <1>1, <1>2, <1>4
  <2>. QED  BY <1>1, <1>2, <1>4, <2>1
<1>6. q[k] \in ToSet(q)
  BY <1>4, <1>5 DEF ToSet
<1>7. left[k].asin \in AsinsOf(q)
  BY <1>5, <1>6 DEF AsinsOf
<1>. QED  BY <1>2, <1>7 DEF left

\* What an answer leaves of an offer.
LEMMA PricedMeans ==
    ASSUME NEW o \in Offers, NEW q \in Quotes \cup {NoQuote}
    PROVE  /\ Priced(o, q) \in Survivors /\ Priced(o, q).asin = o.asin /\ Priced(o, q).checked = TRUE
           /\ Quoted(q) => q \in Quotes /\ Priced(o, q).buyBox = q.price /\ q.price > 0 /\ q.price \in Nat
<1>. DEFINE price == IF q # NoQuote /\ q.price > 0 THEN q.price ELSE o.est
            sellers == IF q # NoQuote /\ q.sellers > 0 THEN q.sellers ELSE o.sellers
            w == Priced(o, q)
<1>1. o.asin \in Asins /\ o.cost \in Nat /\ o.est \in Nat /\ o.sellers \in Nat
  BY DEF Offers
<1>2. q # NoQuote => q \in Quotes /\ q.price \in Nat /\ q.sellers \in Nat
  BY FunnelAssumption
<1>3. price \in Nat /\ sellers \in Nat /\ (Quoted(q) => q \in Quotes /\ price = q.price /\ q.price > 0)
  BY <1>1, <1>2 DEF Quoted
<1>4. w = [asin |-> o.asin, cost |-> o.cost, checked |-> TRUE, buyBox |-> price, sellers |-> sellers]
  BY DEF Priced
<1>. HIDE DEF price, sellers, w
<1>5. w \in Survivors /\ w.asin = o.asin /\ w.checked = TRUE /\ w.buyBox = price
  BY <1>1, <1>3, <1>4 DEF Survivors
<1>. QED  BY <1>2, <1>3, <1>5 DEF w, Quoted

LEMMA UnpricedMeans ==
    ASSUME NEW o \in Offers
    PROVE  /\ Unpriced(o) \in Survivors /\ Unpriced(o).asin = o.asin /\ Unpriced(o).checked = FALSE
           /\ Unpriced(o).buyBox = 0
BY DEF Unpriced, Offers, Survivors

\* The batch after a call for n more offers, of which these survived.
LEMMA AskingFields ==
    ASSUME NEW b, Shape(b), NEW n \in Nat, NEW kept \in Seq(Survivors), NEW e, e = b.stats.enrich + (n - Len(kept))
    PROVE  [b EXCEPT !.passed = b.passed + n, !.out = b.out \o kept, !.stats = [b.stats EXCEPT !.enrich = e]]
           = Asking(b, n, kept)
<1>. DEFINE p == b.passed + n
            w == b.out \o kept
            t == [b.stats EXCEPT !.enrich = e]
            m == [b EXCEPT !.passed = p, !.out = w, !.stats = t]
<1>1. t = [input |-> b.stats.input, deduped |-> b.stats.deduped, margin |-> b.stats.margin,
           brand |-> b.stats.brand, enrich |-> e]
  <2>1. StatsShape(b.stats)
    BY DEF Shape
  <2>. QED  BY <2>1, CountedEnriched, Zenon
<1>. HIDE DEF p, w, t
<1>2. m \in [at : {b.at}, left : {b.left}, verdict : {b.verdict}, out : {w}, passed : {p}, stats : {t}]
  BY DEF Shape
<1>. HIDE DEF m
<1>3. m = [at |-> b.at, left |-> b.left, verdict |-> b.verdict, out |-> w, passed |-> p, stats |-> t]
  BY <1>2
<1>4. m = Asking(b, n, kept)
  BY <1>1, <1>3, Zenon DEF Asking, p, w
<1>. QED  BY <1>4, Zenon DEF m, p, w, t

LEMMA PriceBatchKept ==
    ASSUME IInv, NEW c \in Callers, Funnel(c), PriceBatch(c)
    PROVE  IInv'
<1>. DEFINE b == batch[c]
            asked == Asked(c)
            n == Len(asked)
            judged(answer) == [i \in DOMAIN asked |-> Priced(OfferOf(b.left, asked[i].asin), answer[asked[i].asin])]
            some(answer) == Selected(judged(answer), Surviving)
            Steps(answer) ==
              /\ batch' = [batch EXCEPT ![c] =
                             [b EXCEPT !.passed = b.passed + Len(asked), !.out = b.out \o some(answer),
                                       !.stats = [b.stats EXCEPT !.enrich = b.stats.enrich
                                                        + (Len(judged(answer)) - Len(some(answer)))]]]
              /\ told' = [a \in Asins |-> IF a \in DOMAIN answer /\ Quoted(answer[a])
                                          THEN answer[a].price ELSE told[a]]
              /\ unsure' = unsure \cup {a \in DOMAIN answer : ~Quoted(answer[a]) \/ a \in AskedBefore(c)}
<1>1. /\ scan[c].at = "funnel" /\ b.at = "pricing" /\ Shape(b) /\ Sound(b)
      /\ UNCHANGED <<rotation, scan, refresh, catalog, eligibility, faults>> /\ (~loose' => ~loose)
  BY DEF Funnel, PriceBatch, IInv, Batches, Sound
<1>2. \E answer \in [AsinsOf(asked) -> Quotes \cup {NoQuote}] : Steps(answer)
  BY Zenon DEF PriceBatch
<1>3. /\ asked \in Seq(Offers) /\ b.passed + n <= Len(b.left) /\ b.left \in Seq(Offers)
      /\ \A i \in 1 .. n : /\ asked[i] = b.left[b.passed + i] /\ b.passed + i \in 1 .. Len(b.left)
                            /\ asked[i] \in ToSet(b.left)
  <2>1. b.passed < Len(b.left)
    BY DEF PriceBatch
  <2>. QED  BY <1>1, <2>1, AskedMeans DEF Shape
<1>. HIDE DEF Steps
<1>4. PICK answer \in [AsinsOf(asked) -> Quotes \cup {NoQuote}] : Steps(answer)
  BY <1>2
<1>. DEFINE all == judged(answer)
            kept == some(answer)
            l == Asking(b, n, kept)
<1>5. batch[c] = b
  OBVIOUS
<1>6. /\ batch' = [batch EXCEPT ![c] = [b EXCEPT !.passed = b.passed + n, !.out = b.out \o kept,
                                   !.stats = [b.stats EXCEPT !.enrich = b.stats.enrich + (Len(all) - Len(kept))]]]
      /\ told' = [a \in Asins |-> IF a \in DOMAIN answer /\ Quoted(answer[a]) THEN answer[a].price ELSE told[a]]
      /\ unsure' = unsure \cup {a \in DOMAIN answer : ~Quoted(answer[a]) \/ a \in AskedBefore(c)}
  BY <1>4, Zenon DEF Steps
<1>. HIDE DEF asked
<1>7. n \in Nat /\ \A i \in 1 .. n : asked[i] \in Offers /\ asked[i].asin \in Asins
                                  /\ asked[i].asin \in AsinsOf(asked) /\ asked[i].asin \in AsinsOf(b.left)
  <2>1. n \in Nat /\ \A i \in 1 .. n : asked[i] \in Offers /\ asked[i] \in ToSet(asked)
    BY <1>3 DEF ToSet
  <2>. QED  BY <1>3, <2>1 DEF AsinsOf, Offers
<1>8. ASSUME NEW i \in 1 .. n
      PROVE  /\ OfferOf(b.left, asked[i].asin) \in Offers /\ OfferOf(b.left, asked[i].asin).asin = asked[i].asin
             /\ answer[asked[i].asin] \in Quotes \cup {NoQuote}
  <2>. HIDE DEF b
  <2>1. \A o \in ToSet(b.left) : o \in Offers
    BY <1>3 DEF ToSet
  <2>. QED  BY <1>3, <1>7, <2>1, OfferMeans
<1>9. /\ all \in Seq(Survivors) /\ Len(all) = n
      /\ \A i \in 1 .. n :
            /\ all[i].asin = asked[i].asin /\ all[i].checked = TRUE
            /\ Quoted(answer[asked[i].asin]) =>
                  all[i].buyBox = answer[asked[i].asin].price /\ answer[asked[i].asin].price > 0
  <2>1. DOMAIN asked = 1 .. n
    BY <1>3
  <2>2. all = [i \in 1 .. n |-> Priced(OfferOf(b.left, asked[i].asin), answer[asked[i].asin])]
    BY <2>1
  <2>3. ASSUME NEW i \in 1 .. n
        PROVE  /\ all[i] \in Survivors /\ all[i].asin = asked[i].asin /\ all[i].checked = TRUE
               /\ Quoted(answer[asked[i].asin]) =>
                     all[i].buyBox = answer[asked[i].asin].price /\ answer[asked[i].asin].price > 0
    <3>. DEFINE o == OfferOf(b.left, asked[i].asin)
                q == answer[asked[i].asin]
    <3>1. all[i] = Priced(o, q)
      BY <2>2
    <3>2. o \in Offers /\ q \in Quotes \cup {NoQuote} /\ o.asin = asked[i].asin
      BY <1>8
    <3>. HIDE DEF o, q, all
    <3>3. /\ Priced(o, q) \in Survivors /\ Priced(o, q).asin = o.asin /\ Priced(o, q).checked = TRUE
          /\ Quoted(q) => Priced(o, q).buyBox = q.price /\ q.price > 0
      BY <3>2, PricedMeans, ZenonT(40)
    <3>. QED  BY <3>1, <3>2, <3>3, Zenon DEF q
  <2>. HIDE DEF n, all
  <2>4. all \in [1 .. n -> Survivors]
    <3>1. DOMAIN all = 1 .. n /\ all = [i \in 1 .. n |-> all[i]]
      BY <2>2, Zenon
    <3>. QED  BY <2>3, <3>1
  <2>5. n \in Nat
    BY <1>7
  <2>6. all \in Seq(Survivors) /\ Len(all) = n
    BY <2>4, <2>5
  <2>. QED  BY <2>3, <2>6, Zenon
<1>. HIDE DEF all
<1>10. kept \in Seq(Survivors) /\ ToSet(kept) \subseteq ToSet(all)
  <2>1. kept = Selected(all, Surviving)
    BY DEF all
  <2>. HIDE DEF kept
  <2>. QED  BY <1>9, <2>1, SelectedMeans
<1>. HIDE DEF kept
<1>11. \A j \in DOMAIN kept : \E i \in 1 .. n : kept[j] = all[i]
  <2>1. \A j \in DOMAIN kept : kept[j] \in ToSet(kept)
    BY <1>10 DEF ToSet
  <2>2. \A x \in ToSet(all) : \E i \in 1 .. n : x = all[i]
    BY <1>9 DEF ToSet
  <2>. QED  BY <1>10, <2>1, <2>2
<1>12. /\ Sound(l)
       /\ \A i \in DOMAIN (b.out \o kept) :
             \/ i \in DOMAIN b.out /\ (b.out \o kept)[i] = b.out[i]
             \/ \E j \in DOMAIN kept : (b.out \o kept)[i] = kept[j]
  <2>0. b.passed \in Nat
    BY <1>1 DEF Shape
  <2>. HIDE DEF b
  <2>1. \A j \in DOMAIN kept : \E k \in b.passed + 1 .. b.passed + n : b.left[k].asin = kept[j].asin
    <3>1. \A i \in 1 .. n : b.passed + i \in b.passed + 1 .. b.passed + n
      BY <1>7, <2>0
    <3>. HIDE DEF n
    <3>2. ASSUME NEW j \in DOMAIN kept
          PROVE  \E k \in b.passed + 1 .. b.passed + n : b.left[k].asin = kept[j].asin
      <4>1. PICK i \in 1 .. n : kept[j] = all[i]
        BY <1>11
      <4>2. kept[j].asin = b.left[b.passed + i].asin
        <5>1. all[i].asin = asked[i].asin
          BY <1>9
        <5>2. asked[i] = b.left[b.passed + i]
          BY <1>3
        <5>. HIDE DEF all, asked
        <5>. QED  BY <4>1, <5>1, <5>2, Zenon
      <4>. QED  BY <3>1, <4>2
    <3>. QED  BY <3>2, Zenon
  <2>. HIDE DEF n
  <2>. QED  BY <1>1, <1>3, <1>7, <1>10, <2>1, AskingSound
<1>13. batch' = [batch EXCEPT ![c] = l]
  <2>. DEFINE e == b.stats.enrich + (n - Len(kept))
  <2>1. [b EXCEPT !.passed = b.passed + n, !.out = b.out \o kept, !.stats = [b.stats EXCEPT !.enrich = e]] = l
    <3>1. e = b.stats.enrich + (n - Len(kept)) /\ n \in Nat /\ Shape(b)
      BY <1>1, <1>7
    <3>. HIDE DEF n, b, e
    <3>. QED  BY <1>10, <3>1, AskingFields, Zenon
  <2>2. Len(all) = n
    BY <1>9
  <2>. HIDE DEF l, n
  <2>. QED  BY <1>6, <2>1, <2>2, Zenon
<1>14. DOMAIN answer = AsinsOf(asked) /\ \A a \in DOMAIN answer : answer[a] \in Quotes \cup {NoQuote}
  BY <1>4
<1>15. Stored'
  <2>1. \A a \in DOMAIN answer : Quoted(answer[a]) => answer[a].price \in Nat
    BY <1>14, FunnelAssumption DEF Quoted
  <2>2. Stored
    BY DEF IInv
  <2>3. told' \in [Asins -> Nat]
    BY <1>6, <2>1, <2>2 DEF Stored
  <2>. QED  BY <1>1, <2>2, <2>3 DEF Stored, Remembered
<1>16. ASSUME ~loose' PROVE Honest(l, catalog', told', unsure') /\ FreshIsTold'
  <2>1. /\ Honest(b, catalog, told, unsure) /\ \A a \in FreshRows \ unsure : catalog[a].buyBox = told[a]
    BY <1>1, <1>16 DEF IInv, Prices, FreshIsTold
  <2>2. \A a \in DOMAIN answer : catalog[a].age # "fresh"
    <3>1. \A a \in AsinsOf(asked) : \E o \in ToSet(b.left) : o.asin = a
      <4>1. \A o \in ToSet(asked) : o \in ToSet(b.left)
        BY <1>3 DEF ToSet
      <4>. QED  BY <4>1 DEF AsinsOf
    <3>. QED  BY <1>1, <1>14, <2>1, <3>1 DEF Honest
  <2>3. FreshIsTold'
    <3>1. \A a \in Asins : catalog[a].age = "fresh" /\ a \notin unsure' => a \notin unsure /\ told'[a] = told[a]
      BY <1>6, <2>2
    <3>. QED  BY <1>1, <2>1, <3>1 DEF FreshIsTold, FreshRows
  <2>. DEFINE w == b.out \o kept
              Told(s) == IF s.checked THEN s.asin \in unsure' \/ (s.buyBox > 0 /\ s.buyBox = told'[s.asin])
                         ELSE s.buyBox = 0
  <2>4. ASSUME NEW i \in DOMAIN b.out PROVE Told(b.out[i])
    <3>. DEFINE s == b.out[i]
    <3>1. s.asin \in AskedBefore(c)
      <4>1. PICK k \in 1 .. b.passed : b.left[k].asin = s.asin
        BY <1>1 DEF Sound, Position
      <4>2. b.left[k].asin \in AskedBefore(c)
        BY <1>1, <1>5, AskedBeforeMeans
      <4>. QED  BY <4>1, <4>2
    <3>2. s.asin \in Asins
      <4>1. b.out \in Seq(Survivors)
        BY <1>1 DEF Shape
      <4>2. s \in Survivors
        <5>. HIDE DEF b
        <5>. QED  BY <4>1
      <4>. QED  BY <4>2 DEF Survivors
    <3>3. IF s.checked THEN s.asin \in unsure \/ (s.buyBox > 0 /\ s.buyBox = told[s.asin]) ELSE s.buyBox = 0
      BY <2>1 DEF Honest
    <3>. HIDE DEF s
    <3>4. s.asin \in unsure' \/ (s.asin \notin unsure /\ told'[s.asin] = told[s.asin])
      BY <1>6, <3>1, <3>2
    <3>5. Told(s)
      BY <3>3, <3>4
    <3>. QED  BY <3>5 DEF s
  <2>5. ASSUME NEW i \in 1 .. n PROVE Told(all[i])
    <3>. DEFINE a == asked[i].asin
    <3>1. a \in Asins /\ a \in DOMAIN answer
      BY <1>7, <1>14
    <3>2. /\ all[i].asin = a /\ all[i].checked = TRUE
          /\ Quoted(answer[a]) => all[i].buyBox = answer[a].price /\ answer[a].price > 0
      <4>1. all[i].asin = a /\ all[i].checked = TRUE
        BY <1>9, Zenon
      <4>2. Quoted(answer[a]) => all[i].buyBox = answer[a].price /\ answer[a].price > 0
        BY <1>9, Zenon
      <4>. QED  BY <4>1, <4>2
    <3>. HIDE DEF a
    <3>3. a \in unsure' \/ (Quoted(answer[a]) /\ told'[a] = answer[a].price)
      BY <1>6, <3>1
    <3>. QED  BY <3>2, <3>3
  <2>. HIDE DEF Told
  <2>6. \A i \in DOMAIN w : Told(w[i])
    <3>. HIDE DEF n
    <3>. QED  BY <1>11, <1>12, <2>4, <2>5
  <2>7. l.at = "pricing" /\ l.left = b.left /\ l.out = w
    BY <1>1 DEF Asking
  <2>. HIDE DEF l, b, w
  <2>8. Honest(l, catalog', told', unsure')
    BY <1>1, <2>1, <2>6, <2>7 DEF Honest, Told
  <2>. QED  BY <2>3, <2>8
<1>. HIDE DEF l
<1>. QED  BY <1>1, <1>12, <1>13, <1>15, <1>16, FunnelKept

\* A batch that lost nothing in a call that failed.
LEMMA AskingAll ==
    ASSUME NEW b, Shape(b), NEW n \in Nat, NEW kept \in Seq(Survivors), Len(kept) = n
    PROVE  [b EXCEPT !.passed = b.passed + n, !.out = b.out \o kept] = Asking(b, n, kept)
<1>. DEFINE p == b.passed + n
            w == b.out \o kept
            e == b.stats.enrich + (n - Len(kept))
            t == [input |-> b.stats.input, deduped |-> b.stats.deduped, margin |-> b.stats.margin,
                  brand |-> b.stats.brand, enrich |-> e]
<1>1. t = b.stats
  <2>1. StatsShape(b.stats) /\ b.stats.enrich \in Int
    BY DEF Shape, StatsShape
  <2>2. e = b.stats.enrich
    BY <2>1
  <2>. HIDE DEF e
  <2>. QED  BY <2>1, <2>2, StatsFields
<1>. HIDE DEF p, w
<1>2. [b EXCEPT !.passed = p, !.out = w]
      = [at |-> b.at, left |-> b.left, verdict |-> b.verdict, out |-> w, passed |-> p, stats |-> b.stats]
  BY Failing, Zenon
<1>3. [b EXCEPT !.passed = p, !.out = w] = Asking(b, n, kept)
  BY <1>1, <1>2, Zenon DEF Asking, p, w
<1>. QED  BY <1>3, Zenon DEF p, w

LEMMA PriceFailedKept ==
    ASSUME IInv, NEW c \in Callers, Funnel(c), PriceFailed(c)
    PROVE  IInv'
<1>. DEFINE b == batch[c]
            asked == Asked(c)
            n == Len(asked)
            rest == [i \in DOMAIN asked |-> Unpriced(OfferOf(b.left, asked[i].asin))]
            l == Asking(b, n, rest)
<1>1. /\ scan[c].at = "funnel" /\ b.at = "pricing" /\ Shape(b) /\ Sound(b)
      /\ UNCHANGED <<rotation, scan, refresh, catalog, eligibility, told, unsure>> /\ (~loose' => ~loose)
      /\ Stored /\ faults' \in Nat
  BY FaultTyped DEF Funnel, PriceFailed, IInv, Batches, Sound, Stored
<1>2. batch' = [batch EXCEPT ![c] = [b EXCEPT !.passed = b.passed + n, !.out = b.out \o rest]]
  BY Zenon DEF PriceFailed
<1>3. /\ asked \in Seq(Offers) /\ b.passed + n <= Len(b.left) /\ b.left \in Seq(Offers)
      /\ \A i \in 1 .. n : /\ asked[i] = b.left[b.passed + i] /\ b.passed + i \in 1 .. Len(b.left)
                            /\ asked[i] \in ToSet(b.left)
  <2>1. b.passed < Len(b.left)
    BY DEF PriceFailed
  <2>. QED  BY <1>1, <2>1, AskedMeans DEF Shape
<1>. HIDE DEF asked
<1>4. n \in Nat /\ DOMAIN asked = 1 .. n /\ \A i \in 1 .. n : asked[i].asin \in AsinsOf(b.left)
  <2>1. n \in Nat /\ DOMAIN asked = 1 .. n
    BY <1>3
  <2>. QED  BY <1>3, <2>1 DEF AsinsOf
<1>5. ASSUME NEW i \in 1 .. n
      PROVE  /\ rest[i] \in Survivors /\ rest[i].asin = asked[i].asin /\ rest[i].checked = FALSE
             /\ rest[i].buyBox = 0
  <2>. DEFINE o == OfferOf(b.left, asked[i].asin)
  <2>1. o \in Offers /\ o.asin = asked[i].asin
    <3>. HIDE DEF b
    <3>1. \A x \in ToSet(b.left) : x \in Offers
      BY <1>3 DEF ToSet
    <3>. QED  BY <1>3, <1>4, <3>1, OfferMeans
  <2>2. rest[i] = Unpriced(o)
    BY <1>4
  <2>. HIDE DEF o, rest
  <2>. QED  BY <2>1, <2>2, UnpricedMeans
<1>6. rest \in Seq(Survivors) /\ Len(rest) = n
  <2>1. rest \in [1 .. n -> Survivors]
    <3>1. rest = [i \in 1 .. n |-> rest[i]]
      BY <1>4
    <3>. HIDE DEF rest, n
    <3>. QED  BY <1>5, <3>1
  <2>. HIDE DEF rest, n
  <2>. QED  BY <1>4, <2>1
<1>. HIDE DEF rest
<1>7. /\ Sound(l)
      /\ \A i \in DOMAIN (b.out \o rest) :
            \/ i \in DOMAIN b.out /\ (b.out \o rest)[i] = b.out[i]
            \/ \E j \in DOMAIN rest : (b.out \o rest)[i] = rest[j]
  <2>0. b.passed \in Nat
    BY <1>1 DEF Shape
  <2>. HIDE DEF b
  <2>1. \A j \in DOMAIN rest : \E k \in b.passed + 1 .. b.passed + n : b.left[k].asin = rest[j].asin
    <3>1. \A i \in 1 .. n : b.passed + i \in b.passed + 1 .. b.passed + n
      BY <1>4, <2>0
    <3>2. DOMAIN rest = 1 .. n
      BY <1>4, <1>6
    <3>3. \A j \in 1 .. n : rest[j].asin = b.left[b.passed + j].asin
      BY <1>3, <1>5
    <3>. HIDE DEF n
    <3>. QED  BY <3>1, <3>2, <3>3
  <2>2. n \in Nat /\ rest \in Seq(Survivors) /\ Sound(b) /\ b.at = "pricing" /\ b.passed + n <= Len(b.left)
    BY <1>1, <1>3, <1>4, <1>6
  <2>. HIDE DEF n
  <2>. QED  BY <2>1, <2>2, AskingSound
<1>8. batch' = [batch EXCEPT ![c] = l]
  <2>1. n \in Nat /\ Shape(b)
    BY <1>1, <1>4
  <2>2. [b EXCEPT !.passed = b.passed + n, !.out = b.out \o rest] = l
    <3>. HIDE DEF n, b
    <3>. QED  BY <1>6, <2>1, AskingAll, Zenon
  <2>. QED  BY <1>2, <2>2, Zenon
<1>9. Stored'
  BY <1>1, StoredSame
<1>10. ASSUME ~loose' PROVE Honest(l, catalog', told', unsure') /\ FreshIsTold'
  <2>1. Honest(b, catalog, told, unsure)
    BY <1>1, <1>10 DEF IInv, Prices
  <2>2. FreshIsTold'
    BY <1>1, <1>10, TellsSame DEF IInv, Prices
  <2>. DEFINE w == b.out \o rest
              Told(s) == IF s.checked THEN s.asin \in unsure \/ (s.buyBox > 0 /\ s.buyBox = told[s.asin])
                         ELSE s.buyBox = 0
  <2>3. \A i \in DOMAIN b.out : Told(b.out[i])
    BY <2>1 DEF Honest
  <2>4. \A i \in DOMAIN rest : Told(rest[i])
    <3>1. DOMAIN rest = 1 .. n
      BY <1>4, <1>6
    <3>. QED  BY <1>5, <3>1
  <2>. HIDE DEF Told
  <2>5. \A i \in DOMAIN w : Told(w[i])
    BY <1>7, <2>3, <2>4
  <2>6. l.at = "pricing" /\ l.left = b.left /\ l.out = w
    BY <1>1 DEF Asking
  <2>. HIDE DEF l, b, w
  <2>7. Honest(l, catalog', told', unsure')
    BY <1>1, <2>1, <2>5, <2>6 DEF Honest, Told
  <2>. QED  BY <2>2, <2>7
<1>. HIDE DEF l
<1>. QED  BY <1>1, <1>7, <1>8, <1>9, <1>10, FunnelKept

\* A step of a batch.
LEMMA FunnelStepKept ==
    ASSUME IInv, NEW c \in Callers, Funnel(c)
    PROVE  IInv'
<1>1. FunnelStep(c)
  BY DEF Funnel
<1>. QED  BY <1>1, DedupKept, CheckKept, GateKept, PriceBatchKept, PriceFailedKept, EndPricingKept,
             WriteRowKept, EndBatchKept DEF FunnelStep

-----------------------------------------------------------------------------
(* The steps of a scan.                                                    *)

\* A step that leaves the catalog and Amazon's answers alone.
LEMMA ControlKept ==
    ASSUME IInv, NEW c \in Callers, NEW r, ScanShape(r), scan' = [scan EXCEPT ![c] = r],
           NEW l, Sound(l), batch' = [batch EXCEPT ![c] = l], r.at \notin {"funnel", "answer"} => l = NoBatch,
           UNCHANGED <<catalog, eligibility, told, unsure, refresh>>, Rotates(rotation'), faults' \in Nat,
           ~loose' => ~loose /\ Honest(l, catalog, told, unsure),
           ~loose' => r.at = "idle" \/ Busy(c) \/ (refresh.at = "idle" /\ \A d \in Callers : ~Busy(d))
    PROVE  IInv'
<1>1. /\ Stored /\ Scans /\ Batches /\ Prices
  BY DEF IInv
<1>2. Stored'
  BY <1>1 DEF Stored, Remembered
<1>3. /\ scan' = [d \in Callers |-> scan'[d]] /\ scan'[c] = r
      /\ \A d \in Callers : d # c => scan'[d] = scan[d]
  BY <1>1 DEF Scans
<1>4. /\ batch' = [d \in Callers |-> batch'[d]] /\ batch'[c] = l
      /\ \A d \in Callers : d # c => batch'[d] = batch[d]
  BY <1>1 DEF Batches
<1>5. Scans'
  BY <1>1, <1>3 DEF Scans
<1>6. Batches'
  <2>1. ASSUME NEW d \in Callers
        PROVE  Sound(batch'[d]) /\ (scan'[d].at \notin {"funnel", "answer"} => batch'[d] = NoBatch)
    <3>1. CASE d = c
      BY <1>3, <1>4, <3>1
    <3>2. CASE d # c
      BY <1>1, <1>3, <1>4, <3>2 DEF Batches
    <3>. QED  BY <3>1, <3>2
  <2>. QED  BY <1>4, <2>1 DEF Batches
<1>7. Prices'
  <2>. SUFFICES ASSUME ~loose'
                PROVE  /\ Serial' /\ \A d \in Callers : Honest(batch'[d], catalog', told', unsure')
                       /\ Renews(refresh', catalog', told') /\ FreshIsTold'
    BY DEF Prices
  <2>1. Serial /\ (\A d \in Callers : Honest(batch[d], catalog, told, unsure)) /\ Renews(refresh, catalog, told)
        /\ FreshIsTold /\ Honest(l, catalog, told, unsure)
        /\ (r.at = "idle" \/ Busy(c) \/ (refresh.at = "idle" /\ \A d \in Callers : ~Busy(d)))
    BY <1>1 DEF Prices
  <2>2. Serial'
    <3>1. (Busy(c))' <=> r.at # "idle"
      BY <1>3 DEF Busy
    <3>2. \A d \in Callers : d # c => ((scan'[d].at # "idle") <=> Busy(d))
      BY <1>3 DEF Busy
    <3>3. scan'[c].at = r.at
      BY <1>3
    <3>4. \A d, e \in Callers : scan'[d].at # "idle" /\ scan'[e].at # "idle" => d = e
      BY <2>1, <3>2, <3>3 DEF Serial
    <3>5. refresh.at # "idle" => \A d \in Callers : ~(scan'[d].at # "idle")
      BY <2>1, <3>2, <3>3 DEF Serial
    <3>. QED  BY <3>4, <3>5 DEF Serial, Busy
  <2>3. \A d \in Callers : Honest(batch'[d], catalog', told', unsure')
    BY <1>4, <2>1
  <2>4. Renews(refresh', catalog', told')
    BY <2>1
  <2>5. FreshIsTold'
    BY <2>1, TellsSame, <1>1 DEF Prices
  <2>. QED  BY <2>2, <2>3, <2>4, <2>5
<1>. QED  BY <1>2, <1>5, <1>6, <1>7 DEF IInv

\* One that leaves the batches alone too.
LEMMA ControlSame ==
    ASSUME IInv, NEW c \in Callers, NEW r, ScanShape(r), scan' = [scan EXCEPT ![c] = r],
           r.at \in {"funnel", "answer"} \/ scan[c].at \notin {"funnel", "answer"},
           UNCHANGED <<catalog, eligibility, batch, told, unsure, refresh>>, Rotates(rotation'), faults' \in Nat,
           ~loose' => ~loose,
           ~loose' => r.at = "idle" \/ Busy(c) \/ (refresh.at = "idle" /\ \A d \in Callers : ~Busy(d))
    PROVE  IInv'
<1>. DEFINE l == batch[c]
<1>1. batch' = [batch EXCEPT ![c] = l] /\ Sound(l) /\ (r.at \notin {"funnel", "answer"} => l = NoBatch)
  BY DEF IInv, Batches
<1>2. ~loose' => ~loose /\ Honest(l, catalog, told, unsure)
  BY DEF IInv, Prices
<1>. HIDE DEF l
<1>. QED  BY <1>1, <1>2, ControlKept

LEMMA AgainShape ==
    ASSUME NEW s
    PROVE  ScanShape(Again(s)) /\ Again(s).at \in {"idle", "pick"}
<1>. DEFINE n == [NoScan EXCEPT !.at = "pick", !.tries = s.tries + 1]
<1>1. <<>> \in Seq(Nodes) /\ <<>> \in Seq(Offers) /\ ToSet(<<>>) = {}
  BY DEF ToSet
<1>2. ScanShape(NoScan) /\ NoScan.at = "idle"
  BY <1>1 DEF ScanShape, NoScan, Empty
<1>3. ScanShape(n) /\ n.at = "pick"
  <2>. DEFINE k == s.tries + 1
  <2>1. n = [at |-> "pick", nodes |-> <<>>, found |-> <<>>, job |-> "none", tries |-> k]
    <3>. HIDE DEF k
    <3>1. [NoScan EXCEPT !.at = "pick", !.tries = k]
          = [at |-> "pick", nodes |-> <<>>, found |-> <<>>, job |-> "none", tries |-> k]
      <4>1. NoScan = [at |-> "idle", nodes |-> <<>>, found |-> <<>>, job |-> "none", tries |-> 0]
        BY DEF NoScan, Empty
      <4>. DEFINE e == [NoScan EXCEPT !.at = "pick", !.tries = k]
      <4>2. e \in [at : {"pick"}, nodes : {<<>>}, found : {<<>>}, job : {"none"}, tries : {k}]
        BY <4>1
      <4>. HIDE DEF e
      <4>3. e = [at |-> "pick", nodes |-> <<>>, found |-> <<>>, job |-> "none", tries |-> k]
        BY <4>2
      <4>. QED  BY <4>3 DEF e
    <3>. QED  BY <3>1 DEF k
  <2>. HIDE DEF n, k
  <2>. QED  BY <1>1, <2>1 DEF ScanShape
<1>4. Again(s) = n \/ Again(s) = NoScan
  BY DEF Again
<1>. HIDE DEF n
<1>. QED  BY <1>2, <1>3, <1>4

LEMMA TriggerKept ==
    ASSUME IInv, NEW c \in Callers, Trigger(c)
    PROVE  IInv'
<1>. DEFINE s == scan[c]
            r == [s EXCEPT !.at = "pick"]
<1>1. /\ s.at = "idle" /\ UNCHANGED <<catalog, eligibility, batch, faults, told, unsure, rotation, refresh>>
      /\ scan' = [scan EXCEPT ![c] = r] /\ Rotates(rotation) /\ faults \in Nat /\ ScanShape(s)
      /\ loose' = (loose \/ refresh.at # "idle" \/ \E d \in Callers : Busy(d))
  BY DEF Trigger, Busy, funnelVars, IInv, Stored, Scans
<1>2. ScanShape(r) /\ r.at = "pick"
  <2>1. ScanShape(s)
    BY <1>1
  <2>. HIDE DEF s
  <2>2. r \in [at : {"pick"}, nodes : {s.nodes}, found : {s.found}, job : {s.job}, tries : {s.tries}]
    BY <2>1 DEF ScanShape
  <2>. HIDE DEF r
  <2>. QED  BY <2>1, <2>2 DEF ScanShape
<1>3. Rotates(rotation') /\ faults' \in Nat
  BY <1>1
<1>4. ~loose' => ~loose /\ refresh.at = "idle" /\ \A d \in Callers : ~Busy(d)
  BY <1>1
<1>. HIDE DEF r
<1>. QED  BY <1>1, <1>2, <1>3, <1>4, ControlSame

LEMMA PickKept ==
    ASSUME IInv, NEW c \in Callers, Pick(c)
    PROVE  IInv'
<1>. DEFINE s == scan[c]
            n == IF MaxNodes < Len(rotation) THEN MaxNodes ELSE Len(rotation)
            first == SubSeq(rotation, 1, n)
<1>1. /\ s.at = "pick" /\ UNCHANGED <<catalog, eligibility, batch, told, unsure, rotation, refresh, loose>>
      /\ Rotates(rotation) /\ faults \in Nat /\ ScanShape(s)
  BY DEF Pick, NothingElse, IInv, Stored, Scans
<1>2. PICK job \in {"running", "none"} : /\ NoFault \/ Fault
                                        /\ scan' = [scan EXCEPT ![c] = [s EXCEPT !.at = "search", !.job = job,
                                                                                !.nodes = first]]
  BY DEF Pick
<1>. DEFINE r == [s EXCEPT !.at = "search", !.job = job, !.nodes = first]
<1>3. first \in Seq(Nodes)
  <2>1. rotation \in Seq(Nodes) /\ Len(rotation) \in Nat
    BY <1>1 DEF Rotates
  <2>2. n \in Nat /\ n <= Len(rotation)
    BY <2>1, ScanAssumption
  <2>. HIDE DEF n
  <2>3. \A i \in 1 .. n : rotation[i] \in Nodes
    BY <2>1, <2>2
  <2>. QED  BY <2>2, <2>3, SubSeqProperties
<1>. HIDE DEF first
<1>4. ScanShape(r) /\ r.at = "search"
  <2>1. ScanShape(s)
    BY <1>1
  <2>. HIDE DEF s
  <2>2. r \in [at : {"search"}, nodes : {first}, found : {s.found}, job : {job}, tries : {s.tries}]
    BY <2>1 DEF ScanShape
  <2>. HIDE DEF r
  <2>. QED  BY <1>3, <2>1, <2>2 DEF ScanShape
<1>5. faults' \in Nat /\ Rotates(rotation') /\ Busy(c) /\ scan' = [scan EXCEPT ![c] = r]
  BY <1>1, <1>2, FaultTyped DEF NoFault, Busy
<1>. HIDE DEF r
<1>. QED  BY <1>1, <1>4, <1>5, ControlSame

LEMMA PickFailedKept ==
    ASSUME IInv, NEW c \in Callers, PickFailed(c)
    PROVE  IInv'
<1>. DEFINE r == Again(scan[c])
<1>1. /\ scan[c].at = "pick" /\ UNCHANGED <<catalog, eligibility, batch, told, unsure, rotation, refresh, loose>>
      /\ Rotates(rotation') /\ faults' \in Nat /\ Busy(c) /\ scan' = [scan EXCEPT ![c] = r]
  BY FaultTyped DEF PickFailed, NothingElse, IInv, Stored, Busy
<1>2. ScanShape(r)
  BY AgainShape
<1>. HIDE DEF r
<1>. QED  BY <1>1, <1>2, ControlSame

\* The next node is done with: r has what was found.
LEMMA SearchedShape ==
    ASSUME NEW s, ScanShape(s), s.at = "search", s.nodes # <<>>,
           NEW found \in Seq(Offers), ToSet(found) \subseteq Found
    PROVE  LET r == [s EXCEPT !.nodes = Tail(s.nodes), !.found = found] IN ScanShape(r) /\ r.at = "search"
<1>. DEFINE t == Tail(s.nodes)
            r == [s EXCEPT !.nodes = t, !.found = found]
<1>1. t \in Seq(Nodes)
  BY DEF ScanShape
<1>. HIDE DEF t
<1>2. r \in [at : {"search"}, nodes : {t}, found : {found}, job : {s.job}, tries : {s.tries}]
  BY DEF ScanShape
<1>. HIDE DEF r
<1>3. ScanShape(r) /\ r.at = "search"
  BY <1>1, <1>2 DEF ScanShape
<1>. QED  BY <1>3 DEF r, t

LEMMA FoundMore ==
    ASSUME NEW found \in Seq(Offers), ToSet(found) \subseteq Found, NEW n \in Nodes
    PROVE  found \o Listing[n] \in Seq(Offers) /\ ToSet(found \o Listing[n]) \subseteq Found
<1>. DEFINE more == Listing[n]
            w == found \o more
<1>1. more \in Seq(Offers) /\ ToSet(more) \subseteq Found
  BY ScanAssumption DEF Found
<1>. HIDE DEF more
<1>2. /\ w \in Seq(Offers) /\ Len(w) = Len(found) + Len(more)
      /\ \A i \in 1 .. Len(found) + Len(more) :
            w[i] = IF i <= Len(found) THEN found[i] ELSE more[i - Len(found)]
  BY <1>1, ConcatProperties
<1>. HIDE DEF w
<1>3. ASSUME NEW i \in 1 .. Len(w) PROVE w[i] \in Found
  <2>1. CASE i <= Len(found)
    <3>1. i \in 1 .. Len(found) /\ w[i] = found[i]
      BY <1>1, <1>2, <2>1
    <3>. QED  BY <3>1 DEF ToSet
  <2>2. CASE ~(i <= Len(found))
    <3>1. i - Len(found) \in 1 .. Len(more) /\ w[i] = more[i - Len(found)]
      BY <1>1, <1>2, <2>2
    <3>. QED  BY <1>1, <3>1 DEF ToSet
  <2>. QED  BY <2>1, <2>2
<1>4. ToSet(w) \subseteq Found
  BY <1>2, <1>3 DEF ToSet
<1>. QED  BY <1>2, <1>4 DEF w, more

LEMMA SearchKept ==
    ASSUME IInv, NEW c \in Callers, Search(c)
    PROVE  IInv'
<1>. DEFINE s == scan[c]
            n == Head(s.nodes)
            found == s.found \o Listing[n]
            r == [s EXCEPT !.nodes = Tail(s.nodes), !.found = found]
<1>1. /\ s.at = "search" /\ s.nodes # <<>> /\ UNCHANGED <<catalog, eligibility, batch, told, unsure, refresh, loose>>
      /\ Rotates(rotation) /\ faults \in Nat /\ ScanShape(s)
      /\ \/ rotation' = MarkScanned(rotation, n) /\ NoFault
         \/ UNCHANGED rotation /\ Fault
      /\ scan' = [scan EXCEPT ![c] = r]
  BY DEF Search, NothingElse, Empty, IInv, Stored, Scans
<1>2. n \in Nodes /\ s.found \in Seq(Offers) /\ ToSet(s.found) \subseteq Found
  BY <1>1 DEF ScanShape
<1>3. Busy(c)
  BY <1>1 DEF Busy
<1>. HIDE DEF s, n
<1>4. found \in Seq(Offers) /\ ToSet(found) \subseteq Found
  BY <1>2, FoundMore
<1>. HIDE DEF found
<1>5. ScanShape(r) /\ r.at = "search"
  BY <1>1, <1>4, SearchedShape
<1>6. Rotates(rotation') /\ faults' \in Nat
  BY <1>1, <1>2, MarkedRotates, FaultTyped DEF NoFault
<1>7. scan[c].at = "search"
  BY <1>1 DEF s
<1>. HIDE DEF r
<1>. QED  BY <1>1, <1>3, <1>5, <1>6, <1>7, ControlSame

LEMMA SearchFailedKept ==
    ASSUME IInv, NEW c \in Callers, SearchFailed(c)
    PROVE  IInv'
<1>. DEFINE s == scan[c]
            r == [s EXCEPT !.nodes = Tail(s.nodes), !.found = s.found]
<1>1. /\ s.at = "search" /\ s.nodes # <<>>
      /\ UNCHANGED <<catalog, eligibility, batch, told, unsure, rotation, refresh, loose>>
      /\ Rotates(rotation) /\ faults \in Nat /\ ScanShape(s) /\ (NoFault \/ Fault)
      /\ scan' = [scan EXCEPT ![c] = [s EXCEPT !.nodes = Tail(s.nodes)]]
  BY DEF SearchFailed, NothingElse, Empty, IInv, Stored, Scans
<1>2. s.found \in Seq(Offers) /\ ToSet(s.found) \subseteq Found
  BY <1>1 DEF ScanShape
<1>3. Busy(c) /\ scan[c].at = "search"
  BY <1>1 DEF Busy
<1>4. Rotates(rotation') /\ faults' \in Nat
  BY <1>1, FaultTyped DEF NoFault
<1>. HIDE DEF s
<1>5. ScanShape(r) /\ r.at = "search"
  BY <1>1, <1>2, SearchedShape
<1>6. r = [s EXCEPT !.nodes = Tail(s.nodes)]
  <2>. DEFINE t == Tail(s.nodes)
  <2>1. ScanShape(s)
    BY <1>1
  <2>. HIDE DEF t
  <2>2. [s EXCEPT !.nodes = t, !.found = s.found] = [s EXCEPT !.nodes = t]
    BY <2>1 DEF ScanShape
  <2>. QED  BY <2>2 DEF t
<1>7. scan' = [scan EXCEPT ![c] = r]
  BY <1>1, <1>6, Zenon
<1>. HIDE DEF r
<1>. QED  BY <1>1, <1>3, <1>4, <1>5, <1>7, ControlSame

LEMMA EnterFunnelKept ==
    ASSUME IInv, NEW c \in Callers, EnterFunnel(c)
    PROVE  IInv'
<1>. DEFINE s == scan[c]
            r == [s EXCEPT !.at = "funnel", !.found = <<>>]
            l == Entered(s.found)
<1>1. /\ s.at = "search" /\ UNCHANGED <<catalog, eligibility, faults, told, unsure, rotation, refresh, loose>>
      /\ Rotates(rotation) /\ faults \in Nat /\ ScanShape(s)
      /\ scan' = [scan EXCEPT ![c] = r] /\ batch' = [batch EXCEPT ![c] = l]
  BY DEF EnterFunnel, NothingElse, Empty, IInv, Stored, Scans
<1>2. s.found \in Seq(Offers) /\ ToSet(s.found) \subseteq Found
  BY <1>1 DEF ScanShape
<1>3. Busy(c) /\ Rotates(rotation') /\ faults' \in Nat
  BY <1>1 DEF Busy
<1>. HIDE DEF s
<1>4. Sound(l) /\ Honest(l, catalog, told, unsure)
  BY <1>2, EnteredSound
<1>5. ScanShape(r) /\ r.at = "funnel"
  <2>1. r \in [at : {"funnel"}, nodes : {s.nodes}, found : {<<>>}, job : {s.job}, tries : {s.tries}]
    BY <1>1 DEF ScanShape
  <2>2. <<>> \in Seq(Offers) /\ ToSet(<<>>) = {}
    BY DEF ToSet
  <2>. HIDE DEF r
  <2>. QED  BY <1>1, <2>1, <2>2 DEF ScanShape
<1>. HIDE DEF r, l
<1>. QED  BY <1>1, <1>3, <1>4, <1>5, ControlKept

LEMMA CompleteKept ==
    ASSUME IInv, NEW c \in Callers, Complete(c)
    PROVE  IInv'
<1>. DEFINE s == scan[c]
<1>1. /\ s.at = "funnel" /\ UNCHANGED <<catalog, eligibility, batch, told, unsure, rotation, refresh, loose>>
      /\ Rotates(rotation) /\ faults \in Nat /\ ScanShape(s)
  BY DEF Complete, NothingElse, IInv, Stored, Scans
<1>2. PICK job \in {"completed", s.job} :
         /\ NoFault \/ Fault
         /\ scan' = [scan EXCEPT ![c] = [s EXCEPT !.at = "answer",
                                                  !.job = IF s.job = "none" THEN "none" ELSE job]]
  BY DEF Complete
<1>. DEFINE j == IF s.job = "none" THEN "none" ELSE job
            r == [s EXCEPT !.at = "answer", !.job = j]
<1>3. Busy(c) /\ Rotates(rotation') /\ faults' \in Nat /\ scan' = [scan EXCEPT ![c] = r]
  BY <1>1, <1>2, FaultTyped DEF Busy, NoFault
<1>4. j \in {"none", "running", "completed"}
  BY <1>1 DEF ScanShape
<1>5. scan[c].at \in {"funnel", "answer"}
  BY <1>1
<1>. HIDE DEF s, j
<1>6. ScanShape(r) /\ r.at = "answer"
  <2>1. r \in [at : {"answer"}, nodes : {s.nodes}, found : {s.found}, job : {j}, tries : {s.tries}]
    BY <1>1 DEF ScanShape
  <2>. HIDE DEF r
  <2>. QED  BY <1>1, <1>4, <2>1 DEF ScanShape
<1>. HIDE DEF r
<1>. QED  BY <1>1, <1>3, <1>5, <1>6, ControlSame

LEMMA AnswerKept ==
    ASSUME IInv, NEW c \in Callers, Answer(c)
    PROVE  IInv'
<1>1. /\ UNCHANGED <<catalog, eligibility, faults, told, unsure, rotation, refresh, loose>>
      /\ Rotates(rotation') /\ faults' \in Nat
      /\ scan' = [scan EXCEPT ![c] = NoScan] /\ batch' = [batch EXCEPT ![c] = NoBatch]
  BY DEF Answer, NothingElse, IInv, Stored
<1>2. ScanShape(NoScan) /\ NoScan.at = "idle"
  <2>1. <<>> \in Seq(Nodes) /\ <<>> \in Seq(Offers) /\ ToSet(<<>>) = {}
    BY DEF ToSet
  <2>. QED  BY <2>1 DEF ScanShape, NoScan, Empty
<1>. QED  BY <1>1, <1>2, NoBatchSound, ControlKept

LEMMA LostKept ==
    ASSUME IInv, NEW c \in Callers, Lost(c)
    PROVE  IInv'
<1>. DEFINE r == Again(scan[c])
<1>1. /\ scan[c].at # "idle" /\ UNCHANGED <<catalog, eligibility, told, unsure, rotation, refresh, loose>>
      /\ Rotates(rotation') /\ faults' \in Nat /\ Busy(c)
      /\ scan' = [scan EXCEPT ![c] = r] /\ batch' = [batch EXCEPT ![c] = NoBatch]
  BY FaultTyped DEF Lost, NothingElse, Busy, IInv, Stored
<1>2. ScanShape(r) /\ r.at \in {"idle", "pick"}
  BY AgainShape
<1>. HIDE DEF r
<1>. QED  BY <1>1, <1>2, NoBatchSound, ControlKept

-----------------------------------------------------------------------------
(* The steps of the refresh, and time.                                     *)

LEMMA RefreshKept ==
    ASSUME IInv, Stored', UNCHANGED <<scan, batch>>, ~loose' => ~loose,
           ~loose' => refresh'.at = "idle" \/ refresh.at # "idle" \/ \A c \in Callers : ~Busy(c),
           ~loose' => \A c \in Callers : Honest(batch[c], catalog', told', unsure'),
           ~loose' => Renews(refresh', catalog', told') /\ FreshIsTold'
    PROVE  IInv'
<1>1. Scans' /\ Batches'
  BY DEF IInv, Scans, Batches
<1>2. Prices'
  <2>1. ~loose' => Serial'
    BY DEF IInv, Prices, Serial, Busy
  <2>. QED  BY <2>1 DEF Prices
<1>. QED  BY <1>1, <1>2 DEF IInv

\* While the refresh is under way no scan is.
LEMMA Alone ==
    ASSUME IInv, ~loose, refresh.at # "idle"
    PROVE  \A rows, said, doubtful : \A c \in Callers : Honest(batch[c], rows, said, doubtful)
<1>1. \A c \in Callers : scan[c].at = "idle"
  BY DEF IInv, Prices, Serial, Busy
<1>2. \A c \in Callers : batch[c] = NoBatch
  BY <1>1 DEF IInv, Batches
<1>. QED  BY <1>2, NoBatchSound

LEMMA RefreshListKept ==
    ASSUME IInv, RefreshList
    PROVE  IInv'
<1>1. PICK S \in SUBSET StaleRows : refresh' = [at |-> "pricing", todo |-> S, answers |-> <<>>]
  BY DEF RefreshList, Empty
<1>2. /\ Stored /\ loose' = (loose \/ \E c \in Callers : Busy(c))
      /\ UNCHANGED <<catalog, eligibility, batch, faults, told, unsure, rotation, scan>>
  BY DEF IInv, RefreshList, funnelVars
<1>3. /\ refresh'.at = "pricing" /\ refresh'.todo = S /\ DOMAIN refresh'.answers = {}
      /\ S \subseteq Asins /\ \A a \in S : catalog[a].age # "fresh"
  BY <1>1 DEF StaleRows
<1>4. RefreshShape(refresh')
  BY <1>1, <1>3 DEF RefreshShape
<1>5. Stored'
  BY <1>2, <1>4 DEF Stored, Remembered
<1>6. ~loose' => \A c \in Callers : Honest(batch[c], catalog', told', unsure')
  BY <1>2 DEF IInv, Prices
<1>7. ~loose' => FreshIsTold'
  BY <1>2, TellsSame DEF IInv, Prices
<1>8. Renews(refresh', catalog', told')
  BY <1>2, <1>3 DEF Renews
<1>. QED  BY <1>2, <1>5, <1>6, <1>7, <1>8, RefreshKept

LEMMA RefreshBatchKept ==
    ASSUME IInv, RefreshBatch
    PROVE  IInv'
<1>1. /\ Stored /\ refresh.at # "idle" /\ refresh.todo \subseteq Asins
      /\ UNCHANGED <<catalog, eligibility, batch, faults, unsure, rotation, scan, loose>>
  BY DEF IInv, RefreshBatch, NothingElse, Stored, RefreshShape
<1>. DEFINE priced(B, answer) == {a \in B : Quoted(answer[a])}
<1>. DEFINE Steps(B, answer) ==
              /\ refresh' = [at |-> "pricing", todo |-> refresh.todo \ B,
                             answers |-> [a \in priced(B, answer) |-> answer[a]]]
              /\ told' = [a \in Asins |-> IF a \in priced(B, answer) THEN answer[a].price ELSE told[a]]
<1>a. PICK B \in SUBSET refresh.todo : \E answer \in [B -> Quotes \cup {NoQuote}] : Steps(B, answer)
  BY Zenon DEF RefreshBatch
<1>2. PICK answer \in [B -> Quotes \cup {NoQuote}] : Steps(B, answer)
  BY <1>a
<1>. DEFINE P == priced(B, answer)
<1>3. P \subseteq B /\ \A a \in P : answer[a] \in Quotes /\ answer[a].price \in Nat
  BY <1>2, FunnelAssumption DEF Quoted
<1>. HIDE DEF P
<1>4. /\ refresh' = [at |-> "pricing", todo |-> refresh.todo \ B, answers |-> [a \in P |-> answer[a]]]
      /\ told' = [a \in Asins |-> IF a \in P THEN answer[a].price ELSE told[a]]
  BY <1>2 DEF P
<1>5. /\ refresh'.at = "pricing" /\ refresh'.todo = refresh.todo \ B /\ DOMAIN refresh'.answers = P
      /\ \A a \in P : refresh'.answers[a] = answer[a]
      /\ refresh' = [at |-> refresh'.at, todo |-> refresh'.todo, answers |-> refresh'.answers]
  BY <1>4
<1>6. RefreshShape(refresh')
  BY <1>1, <1>2, <1>3, <1>5 DEF RefreshShape
<1>7. told' \in [Asins -> Nat]
  BY <1>1, <1>3, <1>4 DEF Stored
<1>8. Stored'
  BY <1>1, <1>6, <1>7 DEF Stored, Remembered
<1>9. ASSUME ~loose' PROVE Renews(refresh', catalog', told') /\ FreshIsTold'
  <2>1. Renews(refresh, catalog, told) /\ \A a \in FreshRows \ unsure : catalog[a].buyBox = told[a]
    BY <1>1, <1>9 DEF IInv, Prices, FreshIsTold
  <2>2. \A a \in P : a \in Asins /\ catalog[a].age # "fresh" /\ told'[a] = answer[a].price
    BY <1>1, <1>2, <1>3, <1>4, <2>1 DEF Renews
  <2>3. \A a \in Asins : a \notin P => told'[a] = told[a]
    BY <1>4
  <2>4. FreshIsTold'
    BY <1>1, <2>1, <2>2, <2>3 DEF FreshIsTold, FreshRows
  <2>. QED  BY <1>1, <1>5, <2>1, <2>2, <2>4 DEF Renews
<1>10. ~loose' => \A c \in Callers : Honest(batch[c], catalog', told', unsure')
  BY <1>1, Alone
<1>. QED  BY <1>1, <1>8, <1>9, <1>10, RefreshKept

LEMMA RefreshFailedKept ==
    ASSUME IInv, RefreshFailed
    PROVE  IInv'
<1>1. /\ Stored /\ refresh.at # "idle" /\ RefreshShape(refresh) /\ faults' \in Nat
      /\ UNCHANGED <<catalog, eligibility, batch, told, unsure, rotation, scan, loose>>
  BY FaultTyped DEF IInv, RefreshFailed, NothingElse, Stored, RefreshShape
<1>2. PICK B \in SUBSET refresh.todo : refresh' = [refresh EXCEPT !.todo = @ \ B]
  BY DEF RefreshFailed
<1>. DEFINE t == refresh.todo \ B
<1>3. refresh' \in [at : {refresh.at}, todo : {t}, answers : {refresh.answers}]
  BY <1>1, <1>2 DEF RefreshShape
<1>. HIDE DEF t
<1>4. refresh'.at = refresh.at /\ refresh'.todo = t /\ refresh'.answers = refresh.answers
      /\ refresh' \in [at : {refresh'.at}, todo : {refresh'.todo}, answers : {refresh'.answers}]
  BY <1>3
<1>5. t \subseteq refresh.todo
  BY DEF t
<1>6. RefreshShape(refresh')
  BY <1>1, <1>4, <1>5 DEF RefreshShape
<1>7. Stored'
  BY <1>1, <1>6 DEF Stored, Remembered
<1>8. ~loose' => Renews(refresh', catalog', told')
  BY <1>1, <1>4, <1>5 DEF IInv, Prices, Renews
<1>9. ~loose' => FreshIsTold'
  BY <1>1, TellsSame DEF IInv, Prices
<1>10. ~loose' => \A c \in Callers : Honest(batch[c], catalog', told', unsure')
  BY <1>1, Alone
<1>. QED  BY <1>1, <1>7, <1>8, <1>9, <1>10, RefreshKept

LEMMA RefreshStoreKept ==
    ASSUME IInv, RefreshStore
    PROVE  IInv'
<1>1. PICK a \in DOMAIN refresh.answers :
         /\ \/ catalog' = [catalog EXCEPT ![a] = Repriced(refresh.answers[a])] /\ NoFault
            \/ UNCHANGED catalog /\ Fault
         /\ refresh' = [refresh EXCEPT !.answers = [b \in DOMAIN @ \ {a} |-> @[b]]]
  BY DEF RefreshStore
<1>. DEFINE q == refresh.answers[a]
            rest == [b \in DOMAIN refresh.answers \ {a} |-> refresh.answers[b]]
<1>2. /\ Stored /\ refresh.at # "idle" /\ RefreshShape(refresh) /\ faults' \in Nat
      /\ UNCHANGED <<eligibility, batch, told, unsure, rotation, scan, loose>>
      /\ a \in Asins /\ a \notin refresh.todo /\ q \in Quotes
  BY <1>1, FaultTyped DEF IInv, RefreshStore, NothingElse, NoFault, Stored, RefreshShape
<1>3. Repriced(q) \in Rows /\ Repriced(q).buyBox = q.price
  <2>1. q.price \in Nat /\ q.sellers \in Nat
    BY <1>2, FunnelAssumption
  <2>. HIDE DEF q
  <2>. QED  BY <2>1 DEF Repriced, Rows
<1>4. /\ catalog' \in [Asins -> Rows] /\ \A x \in Asins : x # a => catalog'[x] = catalog[x]
      /\ catalog'[a] = catalog[a] \/ catalog'[a].buyBox = q.price
  BY <1>1, <1>2, <1>3 DEF Stored
<1>5. /\ DOMAIN rest = DOMAIN refresh.answers \ {a}
      /\ \A b \in DOMAIN rest : rest[b] = refresh.answers[b]
  OBVIOUS
<1>6. refresh' \in [at : {refresh.at}, todo : {refresh.todo}, answers : {rest}]
  <2>1. refresh' = [refresh EXCEPT !.answers = rest]
    BY <1>1
  <2>. HIDE DEF rest
  <2>. QED  BY <1>2, <2>1 DEF RefreshShape
<1>. HIDE DEF rest, q
<1>7. refresh'.at = refresh.at /\ refresh'.todo = refresh.todo /\ refresh'.answers = rest
      /\ refresh' \in [at : {refresh'.at}, todo : {refresh'.todo}, answers : {refresh'.answers}]
  BY <1>6
<1>8. RefreshShape(refresh')
  BY <1>2, <1>5, <1>7 DEF RefreshShape
<1>9. Stored'
  BY <1>2, <1>4, <1>8 DEF Stored, Remembered
<1>10. ASSUME ~loose' PROVE Renews(refresh', catalog', told') /\ FreshIsTold'
  <2>1. Renews(refresh, catalog, told) /\ \A x \in FreshRows \ unsure : catalog[x].buyBox = told[x]
    BY <1>2, <1>10 DEF IInv, Prices, FreshIsTold
  <2>2. q.price = told[a]
    BY <1>1, <2>1 DEF Renews, q
  <2>3. FreshIsTold'
    BY <1>2, <1>4, <2>1, <2>2 DEF FreshIsTold, FreshRows
  <2>4. Renews(refresh', catalog', told')
    BY <1>2, <1>4, <1>5, <1>7, <2>1 DEF Renews, RefreshShape
  <2>. QED  BY <2>3, <2>4
<1>11. ~loose' => \A c \in Callers : Honest(batch[c], catalog', told', unsure')
  BY <1>2, Alone
<1>. QED  BY <1>2, <1>9, <1>10, <1>11, RefreshKept

LEMMA RefreshEndKept ==
    ASSUME IInv, RefreshEnd
    PROVE  IInv'
<1>1. /\ Stored /\ refresh.at # "idle" /\ faults' \in Nat /\ refresh' = NoRefresh
      /\ UNCHANGED <<catalog, eligibility, batch, told, unsure, rotation, scan, loose>>
  BY FaultTyped DEF IInv, RefreshEnd, NothingElse, NoFault, Stored
<1>2. RefreshShape(NoRefresh) /\ NoRefresh.todo = {} /\ DOMAIN NoRefresh.answers = {} /\ NoRefresh.at = "idle"
  BY DEF RefreshShape, NoRefresh, Empty
<1>3. Stored'
  BY <1>1, <1>2 DEF Stored, Remembered
<1>4. Renews(refresh', catalog', told')
  BY <1>1, <1>2 DEF Renews
<1>5. ~loose' => FreshIsTold'
  BY <1>1, TellsSame DEF IInv, Prices
<1>6. ~loose' => \A c \in Callers : Honest(batch[c], catalog', told', unsure')
  BY <1>1, Alone
<1>. QED  BY <1>1, <1>2, <1>3, <1>4, <1>5, <1>6, RefreshKept

LEMMA PriceAgesKept ==
    ASSUME IInv, NEW a \in Asins, PriceAges(a), UNCHANGED scanVars
    PROVE  IInv'
<1>1. /\ Stored /\ UNCHANGED <<eligibility, batch, faults, told, unsure, rotation, scan, refresh, loose>>
      /\ catalog \in [Asins -> Rows] /\ catalog' = [catalog EXCEPT ![a].age = "stale"]
  BY DEF IInv, PriceAges, scanVars, Stored
<1>2. /\ catalog' \in [Asins -> Rows] /\ catalog'[a].age = "stale"
      /\ \A x \in Asins : x # a => catalog'[x] = catalog[x]
  BY <1>1 DEF Rows
<1>3. Stored'
  BY <1>1, <1>2 DEF Stored, Remembered
<1>4. \A x \in Asins : catalog'[x].age = "fresh" => catalog'[x] = catalog[x]
  BY <1>2
<1>5. ASSUME ~loose' PROVE Renews(refresh', catalog', told') /\ FreshIsTold'
  <2>1. /\ Renews(refresh, catalog, told) /\ \A x \in FreshRows \ unsure : catalog[x].buyBox = told[x]
        /\ refresh.todo \subseteq Asins
    BY <1>1, <1>5 DEF IInv, Prices, FreshIsTold, Stored, RefreshShape
  <2>2. FreshIsTold'
    BY <1>1, <1>4, <2>1 DEF FreshIsTold, FreshRows
  <2>3. \A x \in refresh.todo : catalog'[x].age # "fresh"
    BY <1>4, <2>1 DEF Renews
  <2>. QED  BY <1>1, <2>1, <2>2, <2>3 DEF Renews
<1>6. ASSUME ~loose', NEW c \in Callers PROVE Honest(batch[c], catalog', told', unsure')
  <2>. DEFINE b == batch[c]
  <2>1. Honest(b, catalog, told, unsure) /\ b.left \in Seq(Offers)
    BY <1>1, <1>6 DEF IInv, Prices, Batches, Sound, Shape
  <2>. HIDE DEF b
  <2>2. \A o \in ToSet(b.left) : o.asin \in Asins
    <3>1. \A o \in ToSet(b.left) : o \in Offers
      BY <2>1 DEF ToSet
    <3>. QED  BY <3>1 DEF Offers
  <2>3. Honest(b, catalog', told', unsure')
    BY <1>1, <1>4, <2>1, <2>2 DEF Honest
  <2>. QED  BY <2>3 DEF b
<1>7. UNCHANGED <<scan, batch>> /\ (~loose' => ~loose) /\ refresh' = refresh
  BY <1>1
<1>. QED  BY <1>3, <1>5, <1>6, <1>7, RefreshKept

LEMMA EligibilityAgesKept ==
    ASSUME IInv, NEW x \in Brands, EligibilityAges(x), UNCHANGED scanVars
    PROVE  IInv'
<1>1. /\ Stored /\ UNCHANGED <<catalog, batch, faults, told, unsure, rotation, scan, refresh, loose>>
      /\ eligibility \in [Brands -> Eligibilities] /\ eligibility' = [eligibility EXCEPT ![x].fresh = FALSE]
  BY DEF IInv, EligibilityAges, scanVars, Stored
<1>2. /\ eligibility' \in [Brands -> Eligibilities] /\ eligibility'[x].fresh = FALSE
      /\ \A y \in Brands : y # x => eligibility'[y] = eligibility[y]
  BY <1>1 DEF Eligibilities
<1>3. Stored'
  BY <1>1, <1>2 DEF Stored, Remembered
<1>4. ~loose' => Renews(refresh', catalog', told')
  BY <1>1 DEF IInv, Prices
<1>5. ~loose' => FreshIsTold'
  BY <1>1, TellsSame DEF IInv, Prices
<1>6. ~loose' => \A c \in Callers : Honest(batch[c], catalog', told', unsure')
  BY <1>1 DEF IInv, Prices
<1>7. UNCHANGED <<scan, batch>> /\ (~loose' => ~loose) /\ refresh' = refresh
  BY <1>1
<1>. QED  BY <1>3, <1>4, <1>5, <1>6, <1>7, RefreshKept

-----------------------------------------------------------------------------
(* The invariant holds at first and is kept.                               *)

LEMMA InitIInv == Init => IInv
<1>. SUFFICES ASSUME Init PROVE IInv
  OBVIOUS
<1>1. /\ catalog = [a \in Asins |-> NoRow] /\ told = [a \in Asins |-> 0] /\ faults = 0 /\ unsure = {}
      /\ eligibility = [b \in Brands |-> [status |-> "unknown", fresh |-> FALSE]]
      /\ batch = [c \in Callers |-> NoBatch] /\ scan = [c \in Callers |-> NoScan] /\ refresh = NoRefresh
      /\ rotation \in [1 .. Cardinality(Nodes) -> Nodes] /\ ToSet(rotation) = Nodes
  BY DEF Init, FunnelInit
<1>2. NoRow \in Rows /\ NoRow.age # "fresh"
  BY DEF NoRow, Rows
<1>3. RefreshShape(NoRefresh) /\ NoRefresh.todo = {} /\ DOMAIN NoRefresh.answers = {} /\ NoRefresh.at = "idle"
  BY DEF RefreshShape, NoRefresh, Empty
<1>4. ScanShape(NoScan) /\ NoScan.at = "idle"
  <2>1. <<>> \in Seq(Nodes) /\ <<>> \in Seq(Offers) /\ ToSet(<<>>) = {}
    BY DEF ToSet
  <2>. QED  BY <2>1 DEF ScanShape, NoScan, Empty
<1>5. Stored
  <2>1. eligibility \in [Brands -> Eligibilities] /\ Remembered
    BY <1>1 DEF Eligibilities, Remembered
  <2>2. Rotates(rotation)
    BY <1>1, FirstRotation
  <2>3. catalog \in [Asins -> Rows] /\ told \in [Asins -> Nat] /\ faults \in Nat
    BY <1>1, <1>2
  <2>. QED  BY <1>1, <1>3, <2>1, <2>2, <2>3 DEF Stored
<1>6. Scans
  BY <1>1, <1>4 DEF Scans
<1>7. Batches
  BY <1>1, NoBatchSound DEF Batches
<1>8. Prices
  <2>1. Serial
    BY <1>1, <1>3, <1>4 DEF Serial, Busy
  <2>2. \A c \in Callers : Honest(batch[c], catalog, told, unsure)
    BY <1>1, NoBatchSound
  <2>3. Renews(refresh, catalog, told)
    BY <1>1, <1>3 DEF Renews
  <2>4. FreshIsTold
    BY <1>1, <1>2 DEF FreshIsTold, FreshRows
  <2>. QED  BY <2>1, <2>2, <2>3, <2>4 DEF Prices
<1>. QED  BY <1>5, <1>6, <1>7, <1>8 DEF IInv

LEMMA StutterKept ==
    ASSUME IInv, UNCHANGED vars
    PROVE  IInv'
<1>1. UNCHANGED <<catalog, eligibility, batch, faults, told, unsure, rotation, scan, refresh, loose>>
  BY DEF vars, funnelVars, scanVars
<1>2. Stored' /\ Scans' /\ Batches'
  BY <1>1 DEF IInv, Stored, Remembered, Scans, Batches
<1>3. Prices'
  BY <1>1 DEF IInv, Prices, Serial, Busy, FreshIsTold, FreshRows
<1>. QED  BY <1>2, <1>3 DEF IInv

LEMMA NextIInv == IInv /\ [Next]_vars => IInv'
<1>. SUFFICES ASSUME IInv, [Next]_vars PROVE IInv'
  OBVIOUS
<1>1. ASSUME NEW c \in Callers, Trigger(c) \/ ScanStep(c) \/ Lost(c) PROVE IInv'
  BY <1>1, TriggerKept, LostKept, PickKept, PickFailedKept, SearchKept, SearchFailedKept, EnterFunnelKept,
     FunnelStepKept, CompleteKept, AnswerKept DEF ScanStep
<1>2. CASE RefreshStep
  BY <1>2, RefreshListKept, RefreshBatchKept, RefreshFailedKept, RefreshStoreKept, RefreshEndKept
     DEF RefreshStep
<1>3. CASE Aging
  BY <1>3, PriceAgesKept, EligibilityAgesKept DEF Aging
<1>4. CASE UNCHANGED vars
  BY <1>4, StutterKept
<1>. QED  BY <1>1, <1>2, <1>3, <1>4 DEF Next

\* Batches, catalog, scans and refresh hold together in every history.
THEOREM FunnelInvariance == Spec => []IInv
<1>. QED  BY InitIInv, NextIInv, PTL DEF Spec

\* The statistics of a funnel add up at every point of a batch, whatever offers come in, whatever
\* fails and whoever else is at work (funnel_service.go:63-300).
THEOREM FunnelAddsUp == Spec => []FunnelSound
<1>1. IInv => FunnelSound
  <2>. SUFFICES ASSUME IInv PROVE FunnelSound
    OBVIOUS
  <2>1. Stored /\ Scans /\ Batches
    BY DEF IInv
  <2>2. Len(rotation) = Cardinality(Nodes) /\ ToSet(rotation) = Nodes
    BY <2>1, RotationSize DEF Stored, Rotates
  <2>3. TypeOK
    BY <2>1, <2>2 DEF TypeOK, Stored, Rows, Eligibilities, Scans, ScanShape
  <2>4. ASSUME NEW c \in Callers PROVE Accounted(c)
    <3>. DEFINE b == batch[c]
    <3>1. Adds(b) /\ b.at \in {"idle", "dedup", "brands", "pricing", "writing", "done"}
      BY <2>1 DEF Batches, Sound, Shape
    <3>2. Pending(b) = CASE b.at = "pricing" -> Len(b.left) - b.passed
                         [] b.at \in {"dedup", "brands"} -> Len(b.left)
                         [] OTHER -> 0
      <4>. HIDE DEF b
      <4>. QED  BY <3>1 DEF Pending
    <3>. QED  BY <3>1, <3>2 DEF Adds, Accounted
  <2>. QED  BY <2>3, <2>4 DEF FunnelSound
<1>. QED  BY <1>1, FunnelInvariance, PTL

\* A row whose price counts as fresh holds the last price Amazon gave, as long as scan and
\* refresh did not overlap (funnel_service.go:92-106, 239-281; client.go:851-885).
THEOREM FreshPricesTold == Spec => []FreshIsTold
<1>1. IInv => FreshIsTold
  BY DEF IInv, Prices, FreshIsTold
<1>. QED  BY <1>1, FunnelInvariance, PTL

\* A product Amazon refuses under every brand it is offered under survives only a batch that
\* could not ask, or took no answer for a yes (brand_eligibility_service.go:46-100).
THEOREM RefusedStopped == Spec => []RestrictedStopped
<1>1. IInv => RestrictedStopped
  BY DEF IInv, Batches, Sound, Gated, RestrictedStopped
<1>. QED  BY <1>1, FunnelInvariance, PTL

-----------------------------------------------------------------------------
(* The safety half of RotationReachesAll.                                  *)

Ahead(order, a, b) == \E i, j \in 1 .. Len(order) : i < j /\ order[i] = a /\ order[j] = b

\* A scan has searched node n, which can be searched, and marked it.
Marked(n) ==
    /\ rotation' = MarkScanned(rotation, n)
    /\ \E c \in Callers : /\ scan[c].at = "search" /\ scan[c].nodes # Empty
                          /\ Head(scan[c].nodes) = n /\ n \notin Broken

\* A node that is ahead of another stays so until it has been searched itself.
NeverOvertaken ==
    \A a, b \in Nodes : Ahead(rotation, a, b) => Ahead(rotation', a, b) \/ Marked(a)

\* Marking a node lets nobody but those behind it move ahead of it.
LEMMA MarkedOrder ==
    ASSUME NEW order, Rotates(order), NEW n \in Nodes, NEW a \in Nodes, NEW b \in Nodes,
           Ahead(order, a, b), a # n
    PROVE  Ahead(MarkScanned(order, n), a, b)
<1>. DEFINE p == MarkScanned(order, n)
            q == Selected(order, Nodes \ {n})
<1>1. order \in Seq(Nodes) /\ ToSet(order) = Nodes /\ \A i, j \in 1 .. Len(order) : order[i] = order[j] => i = j
  BY DEF Rotates
<1>2. p \in Seq(Nodes) /\ ToSet(p) = Nodes
  BY MarkedRotates DEF Rotates
<1>3. q \in Seq(Nodes) /\ KeepsOrder(order, q, Len(order))
  BY <1>1, SelectedMeans, SelectedKeepsOrder
<1>4. p = Append(q, n)
  BY DEF MarkScanned
<1>. HIDE DEF p, q
<1>5. Len(q) \in Nat /\ Len(p) = Len(q) + 1 /\ p[Len(q) + 1] = n /\ \A i \in 1 .. Len(q) : p[i] = q[i]
  BY <1>3, <1>4, AppendProperties
<1>6. PICK x, y \in 1 .. Len(order) : x < y /\ order[x] = a /\ order[y] = b
  BY DEF Ahead
<1>7. PICK i, j \in 1 .. Len(p) : p[i] = a /\ p[j] = b
  BY <1>2 DEF ToSet
<1>8. i \in 1 .. Len(q) /\ (j \in 1 .. Len(q) \/ j = Len(q) + 1)
  BY <1>5, <1>7
<1>9. i < j
  <2>1. CASE j = Len(q) + 1
    BY <1>5, <1>8, <2>1
  <2>2. CASE j \in 1 .. Len(q) /\ j < i
    <3>1. PICK k, l \in 1 .. Len(order) : k < l /\ order[k] = q[j] /\ order[l] = q[i]
      BY <1>3, <1>8, <2>2 DEF KeepsOrder
    <3>b. order[k] = b /\ order[l] = a
      BY <1>5, <1>7, <1>8, <2>2, <3>1
    <3>2. k = y /\ l = x
      BY <1>1, <1>6, <3>1, <3>b
    <3>3. x \in Nat /\ y \in Nat
      BY <1>1
    <3>. QED  BY <1>6, <3>1, <3>2, <3>3
  <2>3. i # j
    <3>1. a # b
      BY <1>1, <1>6
    <3>. QED  BY <1>7, <3>1
  <2>. QED  BY <1>5, <1>8, <2>1, <2>2, <2>3
<1>. QED  BY <1>7, <1>9 DEF Ahead, p

\* Whatever fails, is repeated or is cut short, and whoever else scans, no node passes another
\* in the rotation but by the other's having been searched: a node's turn only comes nearer
\* (MarkScanned and the order of GetNextForScan, browse_node_repo.go:47-62).
THEOREM TurnsComeNearer == Spec => [][NeverOvertaken]_vars
<1>1. IInv /\ [Next]_vars => [NeverOvertaken]_vars
  <2>. SUFFICES ASSUME IInv, Next PROVE NeverOvertaken
    OBVIOUS
  <2>1. Rotates(rotation)
    BY DEF IInv, Stored
  <2>2. CASE rotation' = rotation
    BY <2>2 DEF NeverOvertaken
  <2>3. ASSUME NEW c \in Callers, Search(c), rotation' # rotation PROVE NeverOvertaken
    <3>. DEFINE n == Head(scan[c].nodes)
    <3>1. /\ scan[c].at = "search" /\ scan[c].nodes # Empty /\ n \notin Broken
          /\ rotation' = MarkScanned(rotation, n)
      BY <2>3 DEF Search
    <3>2. n \in Nodes
      BY <3>1 DEF IInv, Scans, ScanShape, Empty
    <3>. HIDE DEF n
    <3>3. Marked(n)
      BY <3>1 DEF Marked, n
    <3>. QED  BY <2>1, <3>1, <3>2, <3>3, MarkedOrder DEF NeverOvertaken
  <2>4. ASSUME NEW c \in Callers, Trigger(c) \/ (ScanStep(c) /\ ~Search(c)) \/ Lost(c)
        PROVE  rotation' = rotation
    BY <2>4 DEF Trigger, ScanStep, Pick, PickFailed, SearchFailed, EnterFunnel, Funnel, Complete, Answer, Lost
  <2>5. RefreshStep \/ Aging => rotation' = rotation
    BY DEF RefreshStep, RefreshList, RefreshBatch, RefreshFailed, RefreshStore, RefreshEnd, Aging, scanVars
  <2>. QED  BY <2>2, <2>3, <2>4, <2>5 DEF Next, ScanStep
<1>. QED  BY <1>1, FunnelInvariance, PTL DEF Spec
=============================================================================
