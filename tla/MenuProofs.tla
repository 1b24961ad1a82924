----------------------------- MODULE MenuProofs -----------------------------
(***************************************************************************)
(* The published menu, for any number of publishers, customers and menus:   *)
(* types, one menu for each version, mappings that translate the menu that   *)
(* is published, views that move forward, and what a basket costs: exactly   *)
(* the sum of its items, and what the menu in the customer's hands says.     *)
(***************************************************************************)
EXTENDS MenuRequirements, FiniteSetTheorems, SequenceTheorems,
        WellFoundedInduction, TLAPS

-----------------------------------------------------------------------------
(* Menus and what is shown of them. *)

\* A menu is shown under its own version.
LEMMA PublicMenu ==
  ASSUME NEW m \in Menus
  PROVE  /\ Public(m) \in Shown /\ m # None
         /\ m.version \in Versions
         /\ Public(m).version = m.version
BY MenusHaveVersions, NoneIsAbsent DEF Public, Menus, Shown, Versions

\* Versions are numbers.
LEMMA VersionsAreNumbers ==
  /\ \A n \in Versions : n \in Nat
  /\ \A m \in Shown : m.version \in Versions /\ m # None
BY PublicMenu, MenusHaveVersions, NoneIsAbsent DEF Versions, Menus, Shown

\* The copies, one by one.
LEMMA CopiesMeans ==
  \A m : m \in Copies <=>
    \/ m = Public(menu) \/ m \in cache
    \/ /\ m # None
       /\ \E c \in Customers : m = customer[c].held \/ m = customer[c].shown
BY DEF Copies

-----------------------------------------------------------------------------
(* Counting. *)

\* What holds of 0, and of the next number wherever it holds, always holds.
LEMMA Counting ==
  ASSUME NEW G, 0 \in G, \A n \in Nat : n \in G => n + 1 \in G
  PROVE  \A n \in Nat : n \in G
<1> DEFINE R == {ss \in Nat \X Nat : ss[1] < ss[2]}
           T == Nat \ G
<1> SUFFICES ASSUME T # {} PROVE FALSE
  OBVIOUS
<1>1. IsWellFoundedOn(R, Nat)
  BY NatLessThanWellFounded DEF OpToRel
<1>2. \A i, j \in Nat : i < j => <<i, j>> \in R
  OBVIOUS
<1> HIDE DEF R
<1>3. PICK n \in T : \A m \in T : <<m, n>> \notin R
  BY <1>1, WFMin
<1>4. n \in Nat \ {0} /\ n - 1 \in Nat /\ n - 1 < n
  OBVIOUS
<1>5. n - 1 \in G
  BY <1>2, <1>3, <1>4
<1> QED
  BY <1>4, <1>5

\* The greatest number of an initial part is its last.
LEMMA LastOfFirst ==
  ASSUME NEW k \in Nat \ {0}
  PROVE  Max(1 .. k) = k /\ (1 .. k) \ {k} = 1 .. k - 1
<1>1. k \in 1 .. k /\ \A x \in 1 .. k : k >= x
  OBVIOUS
<1>2. ASSUME NEW m \in 1 .. k, \A x \in 1 .. k : m >= x PROVE m = k
  BY <1>1, <1>2
<1>3. Max(1 .. k) = k
  BY <1>1, <1>2 DEF Max
<1> QED
  BY <1>3

\* A set of numbers with a bound has a greatest one.
LEMMA GreatestNumber ==
  ASSUME NEW S \in SUBSET Nat, S # {}, NEW n \in Nat, \A x \in S : x <= n
  PROVE  Max(S) \in S /\ \A x \in S : x <= Max(S)
<1> DEFINE T == {n - x : x \in S}
           R == {ss \in Nat \X Nat : ss[1] < ss[2]}
<1>1. T \subseteq Nat /\ T # {}
  <2>1. ASSUME NEW x \in S PROVE n - x \in Nat
    OBVIOUS
  <2> QED BY <2>1
<1>2. IsWellFoundedOn(R, Nat)
  BY NatLessThanWellFounded DEF OpToRel
<1>3. \A i, j \in Nat : i < j => <<i, j>> \in R
  OBVIOUS
<1> HIDE DEF T, R
<1>4. PICK t \in T : \A u \in T : ~(<<u, t>> \in R)
  BY <1>1, <1>2, WFMin
<1>5. PICK m \in S : t = n - m
  BY <1>4 DEF T
<1>6. ASSUME NEW x \in S PROVE m >= x
  <2>1. n - x \in T /\ n - x \in Nat /\ t \in Nat
    BY <1>1 DEF T
  <2>2. ~(n - x < t)
    BY <1>3, <1>4, <2>1
  <2> QED BY <1>5, <2>1, <2>2
<1> QED BY <1>6 DEF Max

-----------------------------------------------------------------------------
(* The loop over the items of a basket. *)

Turn(lines, basket, f, s) ==
  IF s = {} THEN Charged(0)
  ELSE LET i == Max(s) IN AddItem(lines, f[s \ {i}], basket[i])
RunOver(lines, basket, f) ==
  f = [s \in SUBSET DOMAIN basket |-> Turn(lines, basket, f, s)]

\* The bill after each of the items, one by one.
IsRun(lines, basket, bills) ==
  /\ bills[0] = Charged(0)
  /\ \A k \in 1 .. Len(basket) :
       bills[k] = AddItem(lines, bills[k - 1], basket[k])

\* There is a function as the fold of the library describes it.
LEMMA RunExists ==
  ASSUME NEW lines, NEW basket, NEW n \in Nat, DOMAIN basket = 1 .. n
  PROVE  \E f : RunOver(lines, basket, f)
<1> DEFINE Good(f, k) == \A s \in SUBSET (1 .. k) :
             s \subseteq 1 .. n => f[s] = Turn(lines, basket, f, s)
           G == {k \in Nat : \E f : DOMAIN f = SUBSET (1 .. n) /\ Good(f, k)}
<1>1. 0 \in G
  <2> DEFINE f == [s \in SUBSET (1 .. n) |-> Charged(0)]
  <2>1. \A s \in SUBSET (1 .. 0) : s = {}
    OBVIOUS
  <2>2. Good(f, 0)
    BY <2>1 DEF Turn
  <2> QED BY <2>2
<1>2. ASSUME NEW k \in Nat, k \in G PROVE k + 1 \in G
  <2>1. PICK f : DOMAIN f = SUBSET (1 .. n) /\ Good(f, k)
    BY <1>2
  <2> DEFINE g == [s \in SUBSET (1 .. n) |-> Turn(lines, basket, f, s)]
  <2>2. ASSUME NEW s \in SUBSET (1 .. k + 1), s \subseteq 1 .. n
        PROVE  g[s] = Turn(lines, basket, g, s)
    <3>1. CASE s = {}
      BY <3>1 DEF Turn
    <3>2. CASE s # {}
      <4> DEFINE i == Max(s)
      <4>1. i \in s /\ \A x \in s : x <= i
        <5>1. s \in SUBSET Nat /\ \A x \in s : x <= n
          BY <2>2
        <5> QED BY <3>2, <5>1, GreatestNumber
      <4> HIDE DEF i
      <4>2. s \ {i} \in SUBSET (1 .. k) /\ s \ {i} \subseteq 1 .. n
        BY <2>2, <4>1
      <4>3. g[s \ {i}] = f[s \ {i}]
        BY <2>1, <4>2
      <4>4. g[s] = AddItem(lines, f[s \ {i}], basket[i])
        BY <2>2, <3>2 DEF Turn, i
      <4>5. Turn(lines, basket, g, s) = AddItem(lines, g[s \ {i}], basket[i])
        BY <3>2 DEF Turn, i
      <4> QED BY <4>3, <4>4, <4>5
    <3> QED BY <3>1, <3>2
  <2>3. DOMAIN g = SUBSET (1 .. n) /\ Good(g, k + 1)
    BY <2>2
  <2> HIDE DEF g, Good
  <2> QED BY <2>3
<1> HIDE DEF G
<1>3. n \in G
  BY <1>1, <1>2, Counting
<1>4. PICK f : DOMAIN f = SUBSET (1 .. n) /\ Good(f, n)
  BY <1>3 DEF G
<1> DEFINE g == [s \in SUBSET (1 .. n) |-> f[s]]
<1>5. \A s \in SUBSET (1 .. n) : g[s] = Turn(lines, basket, g, s)
  <2> SUFFICES ASSUME NEW s \in SUBSET (1 .. n)
               PROVE  f[s] = Turn(lines, basket, g, s)
    OBVIOUS
  <2>1. f[s] = Turn(lines, basket, f, s)
    BY <1>4
  <2>2. CASE s = {}
    BY <2>1, <2>2 DEF Turn
  <2>3. CASE s # {}
    <3>1. s \ {Max(s)} \in SUBSET (1 .. n)
      OBVIOUS
    <3>2. g[s \ {Max(s)}] = f[s \ {Max(s)}]
      BY <3>1
    <3> HIDE DEF g
    <3> QED BY <2>1, <2>3, <3>2 DEF Turn
  <2> QED BY <2>2, <2>3
<1> HIDE DEF g
<1>6. g = [s \in SUBSET (1 .. n) |-> Turn(lines, basket, g, s)]
  BY <1>5 DEF g
<1> QED BY <1>6 DEF RunOver

\* What the loop has charged in the end is the last of the bills.
LEMMA SubtotalRuns ==
  ASSUME NEW lines, NEW basket, NEW n \in Nat, DOMAIN basket = 1 .. n,
         Len(basket) = n
  PROVE  \E bills : /\ IsRun(lines, basket, bills)
                    /\ Subtotal(lines, basket) = bills[n]
<1> DEFINE f == CHOOSE h : RunOver(lines, basket, h)
           bills == [k \in 0 .. n |-> f[1 .. k]]
<1>1. Subtotal(lines, basket) = f[DOMAIN basket]
  BY DEF Subtotal, FoldLeft, MapThenFoldSet, RunOver, Turn
<1>2. RunOver(lines, basket, f)
  BY RunExists
<1> HIDE DEF f
<1>3. \A s \in SUBSET (1 .. n) : f[s] = Turn(lines, basket, f, s)
  BY <1>2 DEF RunOver
<1>4. bills[0] = Charged(0)
  <2>1. 1 .. 0 = {} /\ 0 \in 0 .. n
    OBVIOUS
  <2>2. f[{}] = Charged(0)
    BY <1>3 DEF Turn
  <2> QED BY <2>1, <2>2
<1>5. ASSUME NEW k \in 1 .. n
      PROVE  bills[k] = AddItem(lines, bills[k - 1], basket[k])
  <2>1. /\ 1 .. k \in SUBSET (1 .. n) /\ 1 .. k # {}
        /\ k \in 0 .. n /\ k - 1 \in 0 .. n
    <3>1. 1 \in 1 .. k /\ k \in 0 .. n /\ k - 1 \in 0 .. n
      OBVIOUS
    <3>2. \A x \in 1 .. k : x \in 1 .. n
      OBVIOUS
    <3> QED BY <3>1, <3>2
  <2>2. Max(1 .. k) = k /\ (1 .. k) \ {k} = 1 .. k - 1
    BY LastOfFirst
  <2>3. f[1 .. k] = AddItem(lines, f[1 .. k - 1], basket[k])
    BY <1>3, <2>1, <2>2 DEF Turn
  <2> QED BY <2>1, <2>3
<1>6. bills[n] = f[DOMAIN basket]
  OBVIOUS
<1> HIDE DEF bills
<1>7. IsRun(lines, basket, bills)
  BY <1>4, <1>5 DEF IsRun
<1> QED BY <1>1, <1>6, <1>7

-----------------------------------------------------------------------------
(* The sum of the costs. *)

Total(lines, basket, f, s) ==
  IF s = {} THEN 0
  ELSE LET i == CHOOSE j \in s : TRUE
       IN Cost(lines, basket[i]) + f[s \ {i}]
SumOver(lines, basket, f) ==
  f = [s \in SUBSET DOMAIN basket |-> Total(lines, basket, f, s)]

\* There is a function as the sum of the library describes it.
LEMMA SumExists ==
  ASSUME NEW lines, NEW basket, IsFiniteSet(DOMAIN basket)
  PROVE  \E f : SumOver(lines, basket, f)
<1> DEFINE S == DOMAIN basket
           Good(f, k) == \A s \in SUBSET S :
             Cardinality(s) <= k => f[s] = Total(lines, basket, f, s)
           G == {k \in Nat : \E f : DOMAIN f = SUBSET S /\ Good(f, k)}
<1>1. \A s \in SUBSET S : IsFiniteSet(s) /\ Cardinality(s) \in Nat
  BY FS_Subset, FS_CardinalityType
<1>2. 0 \in G
  <2> DEFINE f == [s \in SUBSET S |-> 0]
  <2>1. \A s \in SUBSET S : Cardinality(s) <= 0 => s = {}
    BY <1>1, FS_EmptySet
  <2>2. Good(f, 0)
    BY <2>1 DEF Total
  <2>3. DOMAIN f = SUBSET S
    OBVIOUS
  <2> HIDE DEF f, Good
  <2> QED BY <2>2, <2>3
<1>3. ASSUME NEW k \in Nat, k \in G PROVE k + 1 \in G
  <2>1. PICK f : DOMAIN f = SUBSET S /\ Good(f, k)
    BY <1>3
  <2> DEFINE g == [s \in SUBSET S |-> Total(lines, basket, f, s)]
  <2>2. ASSUME NEW s \in SUBSET S, Cardinality(s) <= k + 1
        PROVE  g[s] = Total(lines, basket, g, s)
    <3>1. CASE s = {}
      BY <3>1 DEF Total
    <3>2. CASE s # {}
      <4> DEFINE i == CHOOSE j \in s : TRUE
      <4>1. i \in s
        BY <3>2
      <4>2. g[s] = Cost(lines, basket[i]) + f[s \ {i}]
        BY <3>2 DEF Total
      <4>3. Total(lines, basket, g, s) = Cost(lines, basket[i]) + g[s \ {i}]
        BY <3>2 DEF Total
      <4> HIDE DEF i
      <4>4. s \ {i} \in SUBSET S /\ Cardinality(s \ {i}) <= k
        BY <1>1, <2>2, <4>1, FS_RemoveElement
      <4>5. g[s \ {i}] = f[s \ {i}]
        BY <2>1, <4>4
      <4> HIDE DEF g
      <4> QED BY <4>2, <4>3, <4>5
    <3> QED BY <3>1, <3>2
  <2>3. DOMAIN g = SUBSET S /\ Good(g, k + 1)
    BY <2>2
  <2> HIDE DEF g, Good
  <2> QED BY <2>3
<1> HIDE DEF G
<1>4. Cardinality(S) \in G
  BY <1>1, <1>2, <1>3, Counting
<1>5. PICK f : DOMAIN f = SUBSET S /\ Good(f, Cardinality(S))
  BY <1>4 DEF G
<1> DEFINE g == [s \in SUBSET S |-> f[s]]
<1>6. \A s \in SUBSET S : g[s] = Total(lines, basket, g, s)
  <2> SUFFICES ASSUME NEW s \in SUBSET S
               PROVE  f[s] = Total(lines, basket, g, s)
    OBVIOUS
  <2>1. f[s] = Total(lines, basket, f, s)
    BY <1>5, FS_Subset
  <2>2. CASE s = {}
    BY <2>1, <2>2 DEF Total
  <2>3. CASE s # {}
    <3>1. \A j : s \ {j} \in SUBSET S
      OBVIOUS
    <3>2. \A j : g[s \ {j}] = f[s \ {j}]
      BY <3>1
    <3> HIDE DEF g
    <3> QED BY <2>1, <2>3, <3>2 DEF Total
  <2> QED BY <2>2, <2>3
<1> HIDE DEF g
<1>7. g = [s \in SUBSET S |-> Total(lines, basket, g, s)]
  BY <1>6 DEF g
<1> QED BY <1>7 DEF SumOver

\* A sum is the same, whichever of its terms is taken off first.
CostsAreInts(lines, basket) ==
  \A i \in DOMAIN basket : Cost(lines, basket[i]) \in Int
TermsCommute(lines, basket, f) ==
  \A s \in SUBSET DOMAIN basket :
    /\ f[s] \in Int
    /\ \A i \in s : f[s] = Cost(lines, basket[i]) + f[s \ {i}]

LEMMA AnyTermFirst ==
  ASSUME NEW lines, NEW basket, IsFiniteSet(DOMAIN basket),
         CostsAreInts(lines, basket), NEW f, SumOver(lines, basket, f)
  PROVE  TermsCommute(lines, basket, f)
<1> DEFINE S == DOMAIN basket
           C(i) == Cost(lines, basket[i])
           Fine(s) == f[s] \in Int /\ \A i \in s : f[s] = C(i) + f[s \ {i}]
           G == {k \in Nat : \A s \in SUBSET S : Cardinality(s) <= k => Fine(s)}
<1>1. \A s \in SUBSET S : IsFiniteSet(s) /\ Cardinality(s) \in Nat
  BY FS_Subset, FS_CardinalityType
<1>2. \A s \in SUBSET S : f[s] = Total(lines, basket, f, s)
  BY DEF SumOver
<1>3. 0 \in G
  <2>1. ASSUME NEW s \in SUBSET S, Cardinality(s) <= 0 PROVE Fine(s)
    <3>1. s = {}
      BY <1>1, <2>1, FS_EmptySet
    <3>2. f[s] = 0
      BY <1>2, <3>1 DEF Total
    <3> HIDE DEF C
    <3> QED BY <3>1, <3>2
  <2> HIDE DEF Fine
  <2> QED BY <2>1
<1>4. ASSUME NEW k \in Nat, k \in G PROVE k + 1 \in G
  <2>1. \A s \in SUBSET S : Cardinality(s) <= k => Fine(s)
    BY <1>4
  <2>2. ASSUME NEW s \in SUBSET S, Cardinality(s) <= k + 1 PROVE Fine(s)
    <3>1. CASE s = {}
      <4>1. f[s] = 0
        BY <1>2, <3>1 DEF Total
      <4> HIDE DEF C
      <4> QED BY <3>1, <4>1
    <3>2. CASE s # {}
      <4>1. PICK i \in s : f[s] = C(i) + f[s \ {i}]
        BY <1>2, <3>2 DEF Total
      <4>2. \A j \in s : s \ {j} \in SUBSET S /\ Cardinality(s \ {j}) <= k
        BY <1>1, <2>2, FS_RemoveElement
      <4>3. \A j \in s : Fine(s \ {j})
        BY <2>1, <4>2
      <4>4. \A j \in s : C(j) \in Int /\ f[s \ {j}] \in Int
        BY <4>3 DEF CostsAreInts
      <4>5. ASSUME NEW j \in s, j # i PROVE f[s] = C(j) + f[s \ {j}]
        <5>1. (s \ {i}) \ {j} = (s \ {j}) \ {i}
          OBVIOUS
        <5> DEFINE rest == f[(s \ {i}) \ {j}]
        <5>2. f[s \ {i}] = C(j) + rest
          BY <4>3, <4>5
        <5>3. f[s \ {j}] = C(i) + rest
          BY <4>3, <4>5, <5>1
        <5>4. rest \in Int
          <6>1. /\ s \ {i} \in SUBSET S /\ IsFiniteSet(s \ {i})
                /\ Cardinality(s \ {i}) <= k /\ Cardinality(s \ {i}) \in Nat
            BY <1>1, <4>2
          <6>2. (s \ {i}) \ {j} \in SUBSET S
                /\ Cardinality((s \ {i}) \ {j}) <= Cardinality(s \ {i})
                /\ Cardinality((s \ {i}) \ {j}) \in Nat
            <7>1. (s \ {i}) \ {j} \in SUBSET (s \ {i})
              OBVIOUS
            <7> QED BY <1>1, <6>1, <7>1, FS_Subset
          <6>3. Cardinality((s \ {i}) \ {j}) <= k
            BY <6>1, <6>2
          <6>4. Fine((s \ {i}) \ {j})
            BY <2>1, <6>2, <6>3
          <6> QED BY <6>4
        <5>5. C(i) \in Int /\ C(j) \in Int
          BY <4>4, <4>5
        <5> HIDE DEF rest, C
        <5> QED BY <4>1, <5>2, <5>3, <5>4, <5>5
      <4>6. \A j \in s : f[s] = C(j) + f[s \ {j}]
        BY <4>1, <4>5
      <4>7. f[s] \in Int
        BY <4>1, <4>4
      <4> HIDE DEF C
      <4> QED BY <4>6, <4>7
    <3> QED BY <3>1, <3>2
  <2> HIDE DEF Fine
  <2> QED BY <2>2
<1> HIDE DEF G
<1>5. \A n \in Nat : n \in G
  BY <1>3, <1>4, Counting
<1>6. \A s \in SUBSET S : Fine(s)
  BY <1>1, <1>5 DEF G
<1> QED BY <1>6 DEF TermsCommute

\* The exact sum of the first items, one by one.
IsSum(lines, basket, sums) ==
  /\ sums[0] = 0
  /\ \A k \in 1 .. Len(basket) :
       sums[k] = sums[k - 1] + Cost(lines, basket[k])

LEMMA TotalSums ==
  ASSUME NEW lines, NEW basket, NEW n \in Nat, DOMAIN basket = 1 .. n,
         Len(basket) = n, CostsAreInts(lines, basket)
  PROVE  \E sums \in [0 .. n -> Int] :
           /\ IsSum(lines, basket, sums)
           /\ ExactTotal(lines, basket) = DeliveryFee + sums[n]
<1>1. ExactTotal(lines, basket) =
        DeliveryFee + (CHOOSE h : SumOver(lines, basket, h))[DOMAIN basket]
  BY DEF ExactTotal, MapThenSumSet, MapThenFoldSet, SumOver, Total
<1>2. IsFiniteSet(DOMAIN basket)
  BY FS_Interval
<1>3. PICK f : f = (CHOOSE h : SumOver(lines, basket, h))
               /\ SumOver(lines, basket, f)
  BY <1>2, SumExists
<1> DEFINE sums == [k \in 0 .. n |-> f[1 .. k]]
<1>4. \A s \in SUBSET DOMAIN basket :
        /\ f[s] \in Int
        /\ \A i \in s : f[s] = Cost(lines, basket[i]) + f[s \ {i}]
  <2>1. TermsCommute(lines, basket, f)
    BY <1>2, <1>3, AnyTermFirst
  <2> QED BY <2>1 DEF TermsCommute
<1>5. \A k \in 0 .. n : 1 .. k \in SUBSET DOMAIN basket
  OBVIOUS
<1>6. sums \in [0 .. n -> Int]
  BY <1>4, <1>5
<1>7. sums[0] = 0
  <2>1. 1 .. 0 = {} /\ 0 \in 0 .. n
    OBVIOUS
  <2>2. f[{}] = 0
    BY <1>3 DEF SumOver, Total
  <2> QED BY <2>1, <2>2
<1>8. ASSUME NEW k \in 1 .. n
      PROVE  sums[k] = sums[k - 1] + Cost(lines, basket[k])
  <2>1. k \in 1 .. k /\ k \in 0 .. n /\ k - 1 \in 0 .. n /\ k \in Nat \ {0}
    OBVIOUS
  <2>2. (1 .. k) \ {k} = 1 .. k - 1
    BY <2>1, LastOfFirst
  <2>3. f[1 .. k] = Cost(lines, basket[k]) + f[1 .. k - 1]
    BY <1>4, <1>5, <2>1, <2>2
  <2>4. f[1 .. k - 1] \in Int /\ Cost(lines, basket[k]) \in Int
    BY <1>4, <1>5, <2>1 DEF CostsAreInts
  <2> QED BY <2>1, <2>3, <2>4
<1>9. sums[n] = f[DOMAIN basket]
  OBVIOUS
<1> HIDE DEF sums
<1>10. IsSum(lines, basket, sums)
  BY <1>7, <1>8 DEF IsSum
<1> QED BY <1>1, <1>3, <1>6, <1>9, <1>10

-----------------------------------------------------------------------------
(* Lines and items. *)

LinesFit(lines) ==
  /\ DOMAIN lines \subseteq Nat \ {0}
  /\ \A i \in DOMAIN lines :
       lines[i].price \in 0 .. MaxMoney /\ lines[i].available \in BOOLEAN
  /\ \A i, j \in DOMAIN lines : lines[i].product = lines[j].product => i = j

CanOrder(lines, item) ==
  /\ item.quantity > 0
  /\ \E i \in DOMAIN lines :
       lines[i].product = item.product /\ lines[i].available

\* A product is on one line, and found there.
LEMMA LineIsFound ==
  ASSUME NEW lines, LinesFit(lines), NEW i \in DOMAIN lines, NEW product,
         lines[i].product = product
  PROVE  FindLine(lines, product) = i
<1> DEFINE places == {j \in DOMAIN lines : lines[j].product = product}
<1>1. places = {i}
  BY DEF LinesFit
<1>2. i \in Nat \ {0}
  BY DEF LinesFit
<1> HIDE DEF places
<1>3. Min(places) = i
  BY <1>1, <1>2 DEF Min
<1>4. FindLine(lines, product) = IF places = {} THEN 0 ELSE Min(places)
  BY DEF FindLine, places
<1> QED BY <1>1, <1>3, <1>4

\* Where there is no line, there is none found.
LEMMA NoLineIsFound ==
  ASSUME NEW lines, NEW product,
         \A i \in DOMAIN lines : lines[i].product # product
  PROVE  FindLine(lines, product) = 0
<1>1. {i \in DOMAIN lines : lines[i].product = product} = {}
  OBVIOUS
<1> QED BY <1>1 DEF FindLine

LEMMA CostOfLine ==
  ASSUME NEW lines, LinesFit(lines), NEW i \in DOMAIN lines, NEW item,
         lines[i].product = item.product
  PROVE  Cost(lines, item) = item.quantity * lines[i].price
<1> DEFINE line == CHOOSE l \in ToSet(lines) : l.product = item.product
<1>1. lines[i] \in ToSet(lines)
  BY DEF ToSet
<1>2. line \in ToSet(lines) /\ line.product = item.product
  BY <1>1
<1>3. PICK j \in DOMAIN lines : line = lines[j]
  BY <1>2 DEF ToSet
<1>4. j = i
  BY <1>2, <1>3 DEF LinesFit
<1>5. Cost(lines, item) = item.quantity * line.price
  BY DEF Cost
<1> HIDE DEF line
<1> QED BY <1>3, <1>4, <1>5

\* A price fits a quantity exactly if the product is within the bound.
LEMMA BoundOfPrice ==
  ASSUME NEW max \in Nat, NEW quantity \in Nat \ {0}, NEW price \in 0 .. max
  PROVE  /\ price * quantity \in Nat
         /\ price <= max \div quantity <=> price * quantity <= max
<1>1. price * quantity \in Nat
  OBVIOUS
<1> DEFINE q == max \div quantity
<1>2. q \in Nat /\ q * quantity <= max /\ max < (q + 1) * quantity
  OBVIOUS
<1> HIDE DEF q
<1>3. ASSUME price <= q PROVE price * quantity <= max
  <2>1. price * quantity <= q * quantity
    BY <1>2, <1>3
  <2> QED BY <1>1, <1>2, <2>1
<1>4. ASSUME price > q PROVE price * quantity > max
  <2>1. (q + 1) * quantity <= price * quantity
    BY <1>2, <1>4
  <2> QED BY <1>1, <1>2, <2>1
<1>5. price <= q <=> price * quantity <= max
  BY <1>1, <1>2, <1>3, <1>4
<1> QED BY <1>1, <1>5 DEF q

\* One item is added to a bill at its exact cost, or refused because it cannot
\* be ordered or does not fit under the bound.
LEMMA ItemAdds ==
  ASSUME NEW lines, LinesFit(lines), NEW item, item.quantity \in Int,
         NEW bill, bill.code = "ok", NEW amount, amount = bill.amount,
         amount \in 0 .. MaxMoney,
         NEW new, new = AddItem(lines, bill, item),
         NEW cost, cost = Cost(lines, item)
  PROVE  /\ ~CanOrder(lines, item) => new.code # "ok"
         /\ CanOrder(lines, item) =>
              /\ cost \in Nat
              /\ new.code = "ok" <=> amount + cost <= MaxMoney
              /\ new.code = "ok" => new.amount = amount + cost
<1> DEFINE line == FindLine(lines, item.product)
<1>1. MaxMoney \in Nat
  BY MoneyType
<1>2. \A code : Refused(code).code = code
  BY DEF Refused
<1>3. ASSUME ~CanOrder(lines, item) PROVE new.code # "ok"
  <2>1. CASE item.quantity <= 0
    BY <1>2, <2>1 DEF AddItem
  <2>2. CASE item.quantity > 0 /\ line = 0
    BY <1>2, <2>2 DEF AddItem
  <2>3. CASE item.quantity > 0 /\ line # 0
    <3>1. PICK i \in DOMAIN lines : lines[i].product = item.product
      BY <2>3, NoLineIsFound
    <3>2. line = i /\ ~lines[i].available
      BY <1>3, <2>3, <3>1, LineIsFound DEF CanOrder
    <3>3. new = Refused("item_unavailable")
      BY <2>3, <3>2 DEF AddItem
    <3> QED BY <1>2, <3>3
  <2> QED BY <2>1, <2>2, <2>3
<1>4. ASSUME CanOrder(lines, item)
      PROVE  /\ cost \in Nat
             /\ new.code = "ok" <=> amount + cost <= MaxMoney
             /\ new.code = "ok" => new.amount = amount + cost
  <2>1. PICK i \in DOMAIN lines : lines[i].product = item.product
                                  /\ lines[i].available
    BY <1>4 DEF CanOrder
  <2>2. PICK price : price = lines[i].price
    OBVIOUS
  <2>3. PICK quantity : quantity = item.quantity
    OBVIOUS
  <2>4. /\ line = i /\ i # 0 /\ price \in 0 .. MaxMoney
        /\ quantity \in Nat \ {0}
    BY <1>4, <2>1, <2>2, <2>3, LineIsFound DEF LinesFit, CanOrder
  <2>5. cost = quantity * price
    BY <2>1, <2>2, <2>3, CostOfLine
  <2>6. /\ price * quantity \in Nat
        /\ price <= MaxMoney \div quantity <=> price * quantity <= MaxMoney
    BY <1>1, <2>4, BoundOfPrice
  <2>7. cost \in Nat /\ cost = price * quantity
    BY <2>4, <2>5, <2>6
  <2>8. Fits(price, quantity, amount) <=> amount + cost <= MaxMoney
    BY <1>1, <2>4, <2>6, <2>7 DEF Fits
  <2>9. new = IF ~Fits(price, quantity, amount) THEN Refused("invalid_request")
              ELSE Charged(amount + price * quantity)
    BY <2>1, <2>2, <2>3, <2>4 DEF AddItem
  <2> QED BY <1>2, <2>7, <2>8, <2>9 DEF Charged
<1> QED BY <1>3, <1>4

\* Whatever comes after a refusal, it stays.
LEMMA RefusalStays ==
  ASSUME NEW lines, NEW bill, bill.code # "ok", NEW item
  PROVE  AddItem(lines, bill, item) = bill
BY DEF AddItem

-----------------------------------------------------------------------------
(* Baskets. *)

IsBasket(basket, n) ==
  /\ n \in Nat /\ DOMAIN basket = 1 .. n /\ Len(basket) = n
  /\ \A i \in 1 .. n : basket[i].quantity \in Int

\* The bill after k items, if it is not refused, is a sum within the bound of
\* items that can all be ordered.
BillFits(lines, basket, bill, k) ==
  bill.code = "ok" =>
    /\ bill.amount \in 0 .. MaxMoney
    /\ \A i \in 1 .. k : CanOrder(lines, basket[i])

LEMMA BillsFit ==
  ASSUME NEW lines, LinesFit(lines), NEW basket, NEW n, IsBasket(basket, n),
         NEW bills, IsRun(lines, basket, bills)
  PROVE  \A k \in 0 .. n : BillFits(lines, basket, bills[k], k)
<1> DEFINE G == {k \in Nat : k <= n => BillFits(lines, basket, bills[k], k)}
<1>1. n \in Nat /\ MaxMoney \in Nat
  BY MoneyType DEF IsBasket
<1>2. 0 \in G
  <2>1. bills[0] = Charged(0) /\ 0 \in 0 .. MaxMoney /\ 1 .. 0 = {}
    BY <1>1 DEF IsRun
  <2>2. BillFits(lines, basket, bills[0], 0)
    BY <2>1 DEF BillFits, Charged
  <2> QED BY <2>2
<1>3. ASSUME NEW k \in Nat, k \in G PROVE k + 1 \in G
  <2> SUFFICES ASSUME k + 1 <= n PROVE BillFits(lines, basket, bills[k + 1], k + 1)
    OBVIOUS
  <2>1. BillFits(lines, basket, bills[k], k)
    BY <1>1, <1>3
  <2>2. k + 1 \in 1 .. n /\ (k + 1) - 1 = k
    BY <1>1
  <2>3. bills[k + 1] = AddItem(lines, bills[k], basket[k + 1])
    BY <2>2 DEF IsRun, IsBasket
  <2>4. CASE bills[k].code # "ok"
    <3>1. bills[k + 1] = bills[k]
      BY <2>3, <2>4, RefusalStays
    <3> QED BY <2>4, <3>1 DEF BillFits
  <2>5. CASE bills[k].code = "ok"
    <3> DEFINE item == basket[k + 1]
               amount == bills[k].amount
               cost == Cost(lines, item)
               new == bills[k + 1]
    <3>1. amount \in 0 .. MaxMoney /\ item.quantity \in Int
      BY <2>1, <2>2, <2>5 DEF BillFits, IsBasket
    <3>2. /\ ~CanOrder(lines, item) => new.code # "ok"
          /\ CanOrder(lines, item) =>
               /\ cost \in Nat
               /\ new.code = "ok" <=> amount + cost <= MaxMoney
               /\ new.code = "ok" => new.amount = amount + cost
      BY <2>3, <2>5, <3>1, ItemAdds
    <3>3. ASSUME new.code = "ok"
          PROVE  new.amount \in 0 .. MaxMoney /\ CanOrder(lines, item)
      <4> HIDE DEF item, amount, cost, new
      <4> QED BY <1>1, <3>1, <3>2, <3>3
    <3>4. ASSUME NEW i \in 1 .. k + 1, new.code = "ok"
          PROVE  CanOrder(lines, basket[i])
      <4>1. CASE i = k + 1
        BY <3>3, <3>4, <4>1
      <4>2. CASE i # k + 1
        <5>1. i \in 1 .. k
          BY <4>2
        <5> QED BY <2>1, <2>5, <5>1 DEF BillFits
      <4> QED BY <4>1, <4>2
    <3> HIDE DEF new
    <3>5. BillFits(lines, basket, new, k + 1)
      BY <3>3, <3>4 DEF BillFits
    <3> QED BY <3>5 DEF new
  <2> QED BY <2>4, <2>5
<1> HIDE DEF G
<1>4. \A k \in Nat : k \in G
  BY <1>2, <1>3, Counting
<1> QED BY <1>1, <1>4 DEF G

\* Where all can be ordered, the bill after k items is their sum, unless that
\* is above the bound.
BillSums(bill, sum) ==
  /\ sum \in Nat
  /\ bill.code = "ok" <=> sum <= MaxMoney
  /\ bill.code = "ok" => bill.amount = sum

LEMMA BillsAreSums ==
  ASSUME NEW lines, LinesFit(lines), NEW basket, NEW n, IsBasket(basket, n),
         NEW bills, IsRun(lines, basket, bills),
         NEW sums, IsSum(lines, basket, sums),
         \A i \in 1 .. n : CanOrder(lines, basket[i])
  PROVE  \A k \in 0 .. n : BillSums(bills[k], sums[k])
<1> DEFINE G == {k \in Nat : k <= n => BillSums(bills[k], sums[k])}
<1>1. n \in Nat /\ MaxMoney \in Nat
  BY MoneyType DEF IsBasket
<1>2. 0 \in G
  <2>1. bills[0] = Charged(0) /\ sums[0] = 0
    BY DEF IsRun, IsSum
  <2>2. BillSums(bills[0], sums[0])
    BY <1>1, <2>1 DEF BillSums, Charged
  <2> QED BY <2>2
<1>3. ASSUME NEW k \in Nat, k \in G PROVE k + 1 \in G
  <2> SUFFICES ASSUME k + 1 <= n PROVE BillSums(bills[k + 1], sums[k + 1])
    OBVIOUS
  <2> DEFINE item == basket[k + 1]
             cost == Cost(lines, item)
             new == bills[k + 1]
             old == bills[k]
             sum == sums[k]
  <2>1. BillSums(old, sum)
    BY <1>1, <1>3
  <2>2. k + 1 \in 1 .. n /\ (k + 1) - 1 = k
    BY <1>1
  <2>3. new = AddItem(lines, old, item) /\ sums[k + 1] = sum + cost
    BY <2>2 DEF IsRun, IsSum, IsBasket
  <2>4. item.quantity \in Int /\ CanOrder(lines, item)
    BY <2>2 DEF IsBasket
  <2>5. sum \in Nat
    BY <2>1 DEF BillSums
  <2>6. cost \in Nat
    <3>1. PICK i \in DOMAIN lines : lines[i].product = item.product
      BY <2>4 DEF CanOrder
    <3>2. PICK price, quantity :
            price = lines[i].price /\ quantity = item.quantity
      OBVIOUS
    <3>3. price \in Nat /\ quantity \in Nat
      BY <1>1, <2>4, <3>2 DEF LinesFit, CanOrder
    <3>4. cost = quantity * price
      BY <3>1, <3>2, CostOfLine
    <3> QED BY <3>3, <3>4
  <2> HIDE DEF item, cost, new, old, sum
  <2>7. CASE old.code # "ok"
    <3>1. new = old
      BY <2>3, <2>7, RefusalStays
    <3>2. ~(sum <= MaxMoney)
      BY <2>1, <2>7 DEF BillSums
    <3>3. sum + cost \in Nat /\ ~(sum + cost <= MaxMoney)
      BY <1>1, <2>5, <2>6, <3>2
    <3>4. BillSums(new, sum + cost)
      BY <2>7, <3>1, <3>3 DEF BillSums
    <3> QED BY <2>3, <3>4 DEF new
  <2>8. CASE old.code = "ok"
    <3>1. sum = old.amount /\ sum \in 0 .. MaxMoney
      BY <1>1, <2>1, <2>5, <2>8 DEF BillSums
    <3>2. /\ new.code = "ok" <=> sum + cost <= MaxMoney
          /\ new.code = "ok" => new.amount = sum + cost
      BY <2>3, <2>4, <2>8, <3>1, ItemAdds DEF cost
    <3>3. BillSums(new, sum + cost)
      BY <2>5, <2>6, <3>2 DEF BillSums
    <3> QED BY <2>3, <3>3 DEF new
  <2> QED BY <2>7, <2>8
<1> HIDE DEF G
<1>4. \A k \in Nat : k \in G
  BY <1>2, <1>3, Counting
<1> QED BY <1>1, <1>4 DEF G

\* What is charged is exact, and nothing that could be charged is refused.
Exact(lines, basket) ==
  LET bill == Bill(lines, basket)
  IN /\ bill.code = "ok" <=> /\ Orderable(lines, basket)
                            /\ ExactTotal(lines, basket) <= MaxMoney
     /\ bill.code = "ok" => bill.amount = ExactTotal(lines, basket)

LEMMA BillIsExact ==
  ASSUME NEW lines, LinesFit(lines), NEW basket, NEW n, IsBasket(basket, n),
         basket = <<>> <=> n = 0
  PROVE  Exact(lines, basket)
<1>1. MaxMoney \in Nat /\ DeliveryFee \in 0 .. MaxMoney /\ n \in Nat
  BY MoneyType DEF IsBasket
<1>2. Refused("invalid_request").code # "ok"
  BY DEF Refused
<1>3. CASE basket = <<>>
  BY <1>2, <1>3 DEF Exact, Bill, Orderable
<1>4. CASE basket # <<>>
  <2>1. PICK bills : IsRun(lines, basket, bills)
                     /\ Subtotal(lines, basket) = bills[n]
    BY <1>1, SubtotalRuns DEF IsBasket
  <2>2. PICK sum : sum = bills[n]
    OBVIOUS
  <2>3. Bill(lines, basket) =
          IF sum.code # "ok" THEN sum
          ELSE IF sum.amount > MaxMoney - DeliveryFee
            THEN Refused("invalid_request")
          ELSE Charged(sum.amount + DeliveryFee)
    BY <1>4, <2>1, <2>2 DEF Bill
  <2>4. Orderable(lines, basket) <=>
          \A i \in 1 .. n : CanOrder(lines, basket[i])
    BY <1>4 DEF Orderable, CanOrder, IsBasket
  <2>5. CASE ~Orderable(lines, basket)
    <3>1. BillFits(lines, basket, sum, n)
      BY <1>1, <2>1, <2>2, BillsFit
    <3>2. sum.code # "ok"
      BY <2>4, <2>5, <3>1 DEF BillFits
    <3> QED BY <2>3, <2>5, <3>2 DEF Exact
  <2>6. CASE Orderable(lines, basket)
    <3>1. CostsAreInts(lines, basket)
      <4> SUFFICES ASSUME NEW i \in 1 .. n PROVE Cost(lines, basket[i]) \in Int
        BY DEF CostsAreInts, IsBasket
      <4>1. PICK j \in DOMAIN lines : lines[j].product = basket[i].product
        BY <2>4, <2>6 DEF CanOrder
      <4>2. PICK price, quantity :
              price = lines[j].price /\ quantity = basket[i].quantity
        OBVIOUS
      <4>3. price \in Int /\ quantity \in Int
        BY <1>1, <4>2 DEF LinesFit, IsBasket
      <4>4. Cost(lines, basket[i]) = quantity * price
        BY <4>1, <4>2, CostOfLine
      <4> QED BY <4>3, <4>4
    <3>2. PICK sums \in [0 .. n -> Int] :
            /\ IsSum(lines, basket, sums)
            /\ ExactTotal(lines, basket) = DeliveryFee + sums[n]
      BY <1>1, <3>1, TotalSums DEF IsBasket
    <3>3. PICK total : total = sums[n]
      OBVIOUS
    <3>4. BillSums(sum, total)
      BY <1>1, <2>1, <2>2, <2>4, <2>6, <3>2, <3>3, BillsAreSums
    <3>5. /\ Charged(total + DeliveryFee).code = "ok"
          /\ Charged(total + DeliveryFee).amount = total + DeliveryFee
      BY DEF Charged
    <3>6. ExactTotal(lines, basket) = total + DeliveryFee /\ total \in Nat
      BY <1>1, <3>2, <3>3, <3>4 DEF BillSums
    <3>7. CASE sum.code # "ok"
      <4>1. ~(total + DeliveryFee <= MaxMoney)
        BY <1>1, <3>4, <3>7 DEF BillSums
      <4> QED BY <2>3, <3>6, <3>7, <4>1 DEF Exact
    <3>8. CASE sum.code = "ok"
      <4>1. sum.amount = total
        BY <3>4, <3>8 DEF BillSums
      <4>2. sum.amount > MaxMoney - DeliveryFee
              <=> ~(total + DeliveryFee <= MaxMoney)
        BY <1>1, <3>6, <4>1
      <4>3. Bill(lines, basket) =
              IF total + DeliveryFee <= MaxMoney
              THEN Charged(total + DeliveryFee)
              ELSE Refused("invalid_request")
        BY <2>3, <3>8, <4>1, <4>2
      <4> QED BY <1>2, <2>6, <3>5, <3>6, <4>3 DEF Exact
    <3> QED BY <3>7, <3>8
  <2> QED BY <2>5, <2>6
<1> QED BY <1>3, <1>4

-----------------------------------------------------------------------------
(* The menu as it is shown, and the menu as it is priced. *)

PublicLines(lines) == RestrictValues(lines, LAMBDA line : line.available)

\* What can be ordered is on the public lines, at the same price.
LEMMA PublicItems ==
  ASSUME NEW lines, LinesFit(lines), NEW item, CanOrder(lines, item), NEW bill
  PROVE  AddItem(PublicLines(lines), bill, item) = AddItem(lines, bill, item)
<1> DEFINE public == PublicLines(lines)
<1>1. /\ DOMAIN public = {i \in DOMAIN lines : lines[i].available}
      /\ \A i \in DOMAIN public : i \in DOMAIN lines /\ public[i] = lines[i]
  BY DEF PublicLines, RestrictValues, Restrict
<1> HIDE DEF public
<1>2. LinesFit(public)
  BY <1>1 DEF LinesFit
<1>3. PICK i \in DOMAIN lines : /\ lines[i].product = item.product
                                /\ lines[i].available
  BY DEF CanOrder
<1>4. i \in DOMAIN public /\ public[i] = lines[i]
  BY <1>1, <1>3
<1>5. FindLine(lines, item.product) = i
  BY <1>3, LineIsFound
<1>6. FindLine(public, item.product) = i
  BY <1>2, <1>3, <1>4, LineIsFound
<1>7. AddItem(public, bill, item) = AddItem(lines, bill, item)
  BY <1>4, <1>5, <1>6 DEF AddItem
<1> QED BY <1>7 DEF public

\* A basket that is charged is charged the same by what is shown of the menu.
LEMMA PublicBill ==
  ASSUME NEW lines, LinesFit(lines), NEW basket, NEW n, IsBasket(basket, n),
         Bill(lines, basket).code = "ok"
  PROVE  Bill(PublicLines(lines), basket) = Bill(lines, basket)
<1> DEFINE public == PublicLines(lines)
<1>1. n \in Nat /\ DOMAIN basket = 1 .. n /\ Len(basket) = n
  BY DEF IsBasket
<1>2. PICK bills : IsRun(lines, basket, bills)
                   /\ Subtotal(lines, basket) = bills[n]
  BY <1>1, SubtotalRuns
<1>3. PICK others : IsRun(public, basket, others)
                    /\ Subtotal(public, basket) = others[n]
  BY <1>1, SubtotalRuns
<1>4. bills[n].code = "ok"
  BY <1>2 DEF Bill, Refused
<1>5. \A i \in 1 .. n : CanOrder(lines, basket[i])
  <2>1. BillFits(lines, basket, bills[n], n)
    BY <1>1, <1>2, BillsFit
  <2> QED BY <1>4, <2>1 DEF BillFits
<1> DEFINE G == {k \in Nat : k <= n => others[k] = bills[k]}
<1> HIDE DEF public
<1>6. 0 \in G
  BY <1>2, <1>3 DEF IsRun
<1>7. ASSUME NEW k \in Nat, k \in G PROVE k + 1 \in G
  <2> SUFFICES ASSUME k + 1 <= n PROVE others[k + 1] = bills[k + 1]
    OBVIOUS
  <2>1. k + 1 \in 1 .. n /\ (k + 1) - 1 = k /\ others[k] = bills[k]
    BY <1>1, <1>7
  <2>2. /\ others[k + 1] = AddItem(public, bills[k], basket[k + 1])
        /\ bills[k + 1] = AddItem(lines, bills[k], basket[k + 1])
    BY <1>1, <1>2, <1>3, <2>1 DEF IsRun
  <2>3. CanOrder(lines, basket[k + 1])
    BY <1>5, <2>1
  <2>4. AddItem(public, bills[k], basket[k + 1])
          = AddItem(lines, bills[k], basket[k + 1])
    BY <2>3, PublicItems DEF public
  <2> QED BY <2>2, <2>4
<1> HIDE DEF G
<1>8. n \in G
  BY <1>1, <1>6, <1>7, Counting
<1>9. Subtotal(public, basket) = Subtotal(lines, basket)
  BY <1>1, <1>2, <1>3, <1>8 DEF G
<1> QED BY <1>9 DEF Bill, public

-----------------------------------------------------------------------------
(* The menu and the baskets of the model. *)

\* A menu that is valid has lines that can be priced.
LEMMA MenuLinesFit ==
  ASSUME NEW m \in Menus, Valid(m)
  PROVE  LinesFit(m.lines) /\ Public(m).lines = PublicLines(m.lines)
<1>1. m.lines \in Seq([product : Products(m), price : Int, available : BOOLEAN])
  BY LinesType DEF Menus
<1>2. /\ DOMAIN m.lines = 1 .. Len(m.lines) /\ Len(m.lines) \in Nat
      /\ \A i \in DOMAIN m.lines : m.lines[i].available \in BOOLEAN
  <2> DEFINE Lines == [product : Products(m), price : Int, available : BOOLEAN]
  <2>1. \A line \in Lines : line.available \in BOOLEAN
    OBVIOUS
  <2> HIDE DEF Lines
  <2>2. m.lines \in Seq(Lines)
    BY <1>1 DEF Lines
  <2>3. \A i \in 1 .. Len(m.lines) : m.lines[i] \in Lines
    BY <2>2
  <2> QED BY <2>1, <2>2, <2>3
<1>3. LinesFit(m.lines)
  <2>1. DOMAIN m.lines \subseteq Nat \ {0}
    BY <1>2
  <2> QED BY <1>2, <2>1 DEF LinesFit, Valid
<1>4. Public(m).lines = PublicLines(m.lines)
  BY MenusHaveVersions DEF Public, PublicLines, Menus
<1> QED BY <1>3, <1>4

LEMMA BasketsAreBaskets ==
  ASSUME NEW basket \in Baskets
  PROVE  IsBasket(basket, Len(basket)) /\ (basket = <<>> <=> Len(basket) = 0)
<1> DEFINE Items == [product : {basket[i].product : i \in DOMAIN basket},
                     quantity : Int]
<1>1. \A item \in Items : item.quantity \in Int
  OBVIOUS
<1>2. basket \in Seq(Items)
  BY BasketsType
<1> HIDE DEF Items
<1>3. /\ DOMAIN basket = 1 .. Len(basket) /\ Len(basket) \in Nat
      /\ \A i \in 1 .. Len(basket) : basket[i] \in Items
  BY <1>2
<1>4. basket = <<>> <=> Len(basket) = 0
  BY <1>2, EmptySeq
<1> QED BY <1>1, <1>3, <1>4 DEF IsBasket

-----------------------------------------------------------------------------
(* The inductive invariant. *)

\* What a publisher has looked at is not newer than the menu, and if it has the
\* menu's version, its mapping is the menu's.
PublisherKnows(r, m) ==
  /\ r.phase \in {"current", "save", "reread", "mappings"}
       => r.asked \in Menus /\ Valid(r.asked)
  /\ r.phase \in {"mappings", "done"}
       => r.told \in Versions /\ r.told <= m.version
  /\ r.phase = "done" /\ r.told = m.version => r.products = Products(m)

\* What a customer is about to be shown is not older than what was shown, and
\* what is ordered costs what the menu that was shown says.
CustomerKnows(r) ==
  /\ r.phase = "get"
       => /\ r.key \in Versions
          /\ r.shown # None => r.shown.version <= r.key
  /\ r.phase = "put"
       => /\ r.held \in Shown
          /\ r.shown # None => r.shown.version <= r.held.version
  /\ r.phase \in {"place", "ordered"}
       => r.bill = Bill(r.shown.lines, r.basket)

CopiesAreOld == \A m \in Copies : m.version <= menu.version

IInv ==
  /\ TypeOK /\ Valid(menu) /\ CopiesAreOld /\ VersionNamesOneMenu
  /\ \A p \in Publishers : PublisherKnows(publisher[p], menu)
  /\ \A c \in Customers : CustomerKnows(customer[c])

\* The seeded menu and nobody at work satisfy the invariant.
LEMMA InitIInv == Init => IInv
<1> SUFFICES ASSUME Init PROVE IInv
  OBVIOUS
<1>1. Seed \in Menus
  BY DEF Menus
<1>2. NoPublication \in Publication
  BY DEF NoPublication, Publication
<1>3. NoRequest \in Request
  BY DEF NoRequest, Request
<1>4. TypeOK
  BY <1>1, <1>2, <1>3, SeedIsValid DEF Init, TypeOK, Valid
<1>5. \A m : m \in Copies <=> m = Public(Seed)
  BY CopiesMeans DEF Init, NoRequest
<1>6. CopiesAreOld /\ VersionNamesOneMenu
  BY <1>1, <1>5, PublicMenu, VersionsAreNumbers
  DEF Init, CopiesAreOld, VersionNamesOneMenu
<1>7. Valid(menu)
  BY SeedIsValid DEF Init
<1> QED BY <1>4, <1>6, <1>7 DEF Init, IInv, PublisherKnows, CustomerKnows,
                         NoPublication, NoRequest

-----------------------------------------------------------------------------
(* Steps of publishers. *)

\* The step of ViewsMoveForward.
Forward ==
  \A c \in Customers :
    customer[c].shown # None =>
      customer[c].shown.version <= customer'[c].shown.version

\* Where customers keep what they have, nobody is shown an older menu.
LEMMA NobodyLooks ==
  ASSUME IInv, customer' = customer
  PROVE  Forward
<1> SUFFICES ASSUME NEW c \in Customers, customer[c].shown # None
             PROVE  customer[c].shown.version <= customer[c].shown.version
  BY DEF Forward
<1>1. customer[c].shown \in Shown
  BY DEF IInv, TypeOK, Request
<1> QED BY <1>1, VersionsAreNumbers

\* A publisher that leaves the menu alone.
LEMMA PublisherStep ==
  ASSUME IInv, NEW p \in Publishers, NEW r \in Publication,
         PublisherKnows(r, menu), publisher' = [publisher EXCEPT ![p] = r],
         UNCHANGED <<menu, cache, customer>>
  PROVE  IInv' /\ Forward
<1>1. TypeOK'
  BY DEF IInv, TypeOK
<1>2. Copies' = Copies
  BY DEF Copies
<1>3. CopiesAreOld' /\ VersionNamesOneMenu'
  BY <1>2 DEF IInv, CopiesAreOld, VersionNamesOneMenu
<1>4. \A q \in Publishers : PublisherKnows(publisher[q], menu)'
  BY DEF IInv, TypeOK, PublisherKnows, Products, Valid
<1>5. \A c \in Customers : CustomerKnows(customer[c])'
  BY DEF IInv, CustomerKnows
<1>6. Valid(menu)'
  BY DEF IInv, Valid
<1> QED BY <1>1, <1>3, <1>4, <1>5, <1>6, NobodyLooks DEF IInv

\* A publisher that publishes a newer menu: all that was seen of the menu so far
\* becomes older than it.
LEMMA MenuStep ==
  ASSUME IInv, NEW p \in Publishers, NEW r \in Publication,
         publisher[p].phase = "save", ~Outdated(publisher[p].asked),
         menu' = publisher[p].asked, PublisherKnows(r, menu'),
         publisher' = [publisher EXCEPT ![p] = r],
         UNCHANGED <<cache, customer>>
  PROVE  IInv' /\ Forward
<1>1. menu' \in Menus /\ Valid(menu')
  BY DEF IInv, PublisherKnows
<1>2. menu.version < menu'.version
  BY <1>1, PublicMenu, VersionsAreNumbers DEF Outdated, IInv, TypeOK
<1>3. TypeOK'
  BY <1>1 DEF IInv, TypeOK, Valid
<1>4. \A m : m \in Copies' => m \in Copies \/ m = Public(menu')
  BY DEF Copies
<1>5. \A m \in Copies : m.version \in Nat
  <2>1. \A m \in Copies : m \in Shown
    BY CopiesMeans, PublicMenu DEF IInv, TypeOK, Request
  <2> QED BY <2>1, VersionsAreNumbers
<1>6. /\ Public(menu').version = menu'.version
      /\ menu.version \in Nat /\ menu'.version \in Nat
  BY <1>1, PublicMenu, VersionsAreNumbers DEF IInv, TypeOK
<1>7. \A m \in Copies : m.version < menu'.version
  BY <1>2, <1>5, <1>6 DEF IInv, CopiesAreOld
<1>8. CopiesAreOld'
  BY <1>4, <1>5, <1>6, <1>7 DEF CopiesAreOld
<1>9. VersionNamesOneMenu'
  BY <1>4, <1>6, <1>7 DEF IInv, VersionNamesOneMenu
<1>10. ASSUME NEW q \in Publishers PROVE PublisherKnows(publisher[q], menu)'
  <2>1. CASE q = p
    BY <2>1 DEF IInv, TypeOK, PublisherKnows, Products, Valid
  <2>2. CASE q # p
    <3>1. publisher'[q] = publisher[q] /\ PublisherKnows(publisher[q], menu)
      BY <2>2 DEF IInv, TypeOK
    <3>2. publisher[q].phase \in {"mappings", "done"}
            => /\ publisher[q].told \in Versions
               /\ publisher[q].told < menu'.version
      BY <1>2, <1>6, <3>1, VersionsAreNumbers DEF PublisherKnows
    <3> QED BY <1>6, <3>1, <3>2, VersionsAreNumbers DEF PublisherKnows, Valid
  <2> QED BY <2>1, <2>2
<1>11. \A c \in Customers : CustomerKnows(customer[c])'
  BY DEF IInv, CustomerKnows
<1>12. Valid(menu)'
  BY <1>1 DEF Valid
<1> QED BY <1>3, <1>8, <1>9, <1>10, <1>11, <1>12, NobodyLooks DEF IInv

-----------------------------------------------------------------------------
(* Steps of customers. *)

\* A customer that goes on, with copies that were there already; the cache may
\* lose some and be given some of them.
LEMMA CustomerStep ==
  ASSUME IInv, NEW c \in Customers, NEW r \in Request, CustomerKnows(r),
         customer' = [customer EXCEPT ![c] = r],
         r.held \in Copies \cup {None}, r.shown \in Copies \cup {None},
         customer[c].shown # None =>
           r.shown # None /\ customer[c].shown.version <= r.shown.version,
         cache' \subseteq Shown \cap Copies,
         UNCHANGED <<menu, publisher>>
  PROVE  IInv' /\ Forward
<1>1. TypeOK'
  BY DEF IInv, TypeOK
<1>2. /\ customer'[c] = r
      /\ \A d \in Customers \ {c} : customer'[d] = customer[d]
  BY DEF IInv, TypeOK
<1>3. \A m : m \in Copies' => m \in Copies
  <2>1. \A m : m \in Copies' =>
          \/ m = Public(menu) \/ m \in cache'
          \/ /\ m # None
             /\ \E d \in Customers : m = customer'[d].held \/ m = customer'[d].shown
    BY DEF Copies
  <2> QED BY <1>2, <2>1, CopiesMeans
<1>4. CopiesAreOld' /\ VersionNamesOneMenu'
  BY <1>3 DEF IInv, CopiesAreOld, VersionNamesOneMenu
<1>5. \A p \in Publishers : PublisherKnows(publisher[p], menu)'
  BY DEF IInv, PublisherKnows, Valid, Products
<1>6. \A d \in Customers : CustomerKnows(customer[d])'
  BY <1>2 DEF IInv, CustomerKnows
<1>7. Forward
  <2> SUFFICES ASSUME NEW d \in Customers, customer[d].shown # None
               PROVE  customer[d].shown.version <= customer'[d].shown.version
    BY DEF Forward
  <2>1. CASE d = c
    BY <1>2, <2>1
  <2>2. CASE d # c
    <3>1. customer[d].shown \in Shown /\ customer'[d].shown = customer[d].shown
      BY <1>2, <2>2 DEF IInv, TypeOK, Request
    <3> QED BY <3>1, VersionsAreNumbers
  <2> QED BY <2>1, <2>2
<1>8. Valid(menu)'
  BY DEF IInv, Valid
<1> QED BY <1>1, <1>4, <1>5, <1>6, <1>7, <1>8 DEF IInv

\* What a customer has in hand between two requests.
LEMMA RestMeans ==
  ASSUME IInv, NEW c \in Customers
  PROVE  /\ Rest(c) \in Request
         /\ Rest(c).phase = "idle" /\ Rest(c).held = None
         /\ Rest(c).shown = customer[c].shown
         /\ customer[c].shown \in Copies \cup {None}
         /\ customer[c].held \in Copies \cup {None}
         /\ customer[c].shown \in Shown \cup {None}
         /\ customer[c].shown # None =>
              /\ customer[c].shown.version \in Nat
              /\ customer[c].shown.version <= menu.version
         /\ Public(menu) \in Shown \cap Copies
         /\ Public(menu).version = menu.version /\ menu.version \in Versions
         /\ cache \subseteq Shown \cap Copies
<1>1. customer[c] \in Request
  BY DEF IInv, TypeOK
<1>2. Rest(c) \in Request /\ Rest(c).phase = "idle" /\ Rest(c).held = None
      /\ Rest(c).shown = customer[c].shown
  BY <1>1 DEF Request, Rest, NoRequest
<1>3. /\ customer[c].shown \in Copies \cup {None}
      /\ customer[c].held \in Copies \cup {None}
      /\ customer[c].shown \in Shown \cup {None}
      /\ Public(menu) \in Copies /\ cache \subseteq Copies
  BY <1>1, CopiesMeans DEF Request
<1>4. /\ Public(menu) \in Shown /\ cache \subseteq Shown
      /\ Public(menu).version = menu.version /\ menu.version \in Versions
  BY PublicMenu DEF IInv, TypeOK
<1>5. customer[c].shown # None =>
        /\ customer[c].shown.version \in Nat
        /\ customer[c].shown.version <= menu.version
  BY <1>3, VersionsAreNumbers DEF IInv, CopiesAreOld
<1> QED BY <1>2, <1>3, <1>4, <1>5

-----------------------------------------------------------------------------
(* Every step keeps the invariant, and nobody is shown an older menu. *)

\* Every statement of SyncPartnerMenu keeps the invariant.
LEMMA PublishingSteps ==
  ASSUME IInv, NEW p \in Publishers, SyncPartnerMenu(p)
  PROVE  IInv' /\ Forward
<1> DEFINE old == publisher[p]
<1>1. /\ old \in Publication /\ PublisherKnows(old, menu)
      /\ menu \in Menus /\ menu.version \in Versions /\ menu.version \in Nat
  BY PublicMenu, VersionsAreNumbers DEF IInv, TypeOK
<1>2. ASSUME NEW m \in Snapshots, Publish(p, m) PROVE IInv' /\ Forward
  <2> DEFINE r == [NoPublication EXCEPT !.phase = "current", !.asked = m]
  <2>1. m \in Menus
    BY DEF Menus
  <2>2. r \in Publication
    BY <2>1 DEF Publication, NoPublication
  <2>3. r.phase = "current" /\ r.asked = m
    BY DEF NoPublication
  <2> HIDE DEF r
  <2>4. PublisherKnows(r, menu)
    BY <1>2, <2>1, <2>3 DEF PublisherKnows, Publish
  <2>5. publisher' = [publisher EXCEPT ![p] = r] /\ UNCHANGED <<menu, cache, customer>>
    BY <1>2 DEF Publish, r
  <2> QED BY <2>2, <2>4, <2>5, PublisherStep
<1>3. ASSUME NEW phase \in {"mappings", "save"},
             publisher' = [publisher EXCEPT ![p] =
               [@ EXCEPT !.told = menu.version, !.phase = phase]],
             old.phase \in {"current", "reread"},
             UNCHANGED <<menu, cache, customer>>
      PROVE  IInv' /\ Forward
  <2> DEFINE r == [old EXCEPT !.told = menu.version, !.phase = phase]
  <2>1. r \in Publication /\ r.phase = phase /\ r.told = menu.version
        /\ r.asked = old.asked
    BY <1>1 DEF Publication
  <2>2. publisher' = [publisher EXCEPT ![p] = r]
    BY <1>3 DEF IInv, TypeOK
  <2> HIDE DEF r
  <2>3. PublisherKnows(r, menu)
    BY <1>1, <1>3, <2>1 DEF PublisherKnows
  <2> QED BY <1>3, <2>1, <2>2, <2>3, PublisherStep
<1>4. CASE FindCurrent(p)
  BY <1>3, <1>4 DEF FindCurrent
<1>5. CASE FindCurrentAgain(p)
  BY <1>3, <1>5 DEF FindCurrentAgain
<1>6. \A version \in Versions, m \in Menus :
        LET r == [NoPublication EXCEPT !.phase = "done", !.told = version,
                                       !.products = Products(m)]
        IN /\ r \in Publication /\ r.phase = "done" /\ r.told = version
           /\ r.products = Products(m)
  BY DEF Publication, NoPublication
<1>7. NoPublication \in Publication /\ \A m : PublisherKnows(NoPublication, m)
  BY DEF Publication, NoPublication, PublisherKnows
<1>8. CASE ProductMappings(p)
  <2> DEFINE r == [NoPublication EXCEPT !.phase = "done", !.told = old.told,
                                        !.products = Products(menu)]
  <2>1. old.told \in Versions /\ old.told <= menu.version
    BY <1>1, <1>8 DEF ProductMappings, PublisherKnows
  <2>2. /\ r \in Publication /\ r.phase = "done" /\ r.told = old.told
        /\ r.products = Products(menu)
    BY <1>1, <1>6, <2>1
  <2>3. publisher' = [publisher EXCEPT ![p] = r]
    BY <1>8 DEF ProductMappings, Reply
  <2> HIDE DEF r
  <2>4. PublisherKnows(r, menu)
    BY <2>1, <2>2 DEF PublisherKnows
  <2> QED BY <1>8, <2>2, <2>3, <2>4, PublisherStep DEF ProductMappings
<1>9. CASE PublicationFails(p)
  BY <1>7, <1>9, PublisherStep DEF PublicationFails
<1>10. CASE SaveUnacknowledged(p)
  BY <1>7, <1>10, MenuStep DEF SaveUnacknowledged
<1>11. CASE SaveMenuSnapshot(p) /\ Outdated(old.asked)
  <2> DEFINE r == [old EXCEPT !.phase = "reread"]
  <2>1. r \in Publication /\ r.phase = "reread" /\ r.asked = old.asked
    BY <1>1 DEF Publication
  <2>2. publisher' = [publisher EXCEPT ![p] = r] /\ UNCHANGED <<menu, cache, customer>>
    BY <1>11 DEF SaveMenuSnapshot, IInv, TypeOK
  <2> HIDE DEF r
  <2>3. PublisherKnows(r, menu)
    BY <1>1, <1>11, <2>1 DEF PublisherKnows, SaveMenuSnapshot
  <2> QED BY <2>1, <2>2, <2>3, PublisherStep
<1>12. CASE SaveMenuSnapshot(p) /\ ~Outdated(old.asked)
  <2> DEFINE r == [NoPublication EXCEPT !.phase = "done",
                                        !.told = old.asked.version,
                                        !.products = Products(old.asked)]
  <2>1. old.asked \in Menus /\ old.asked.version \in Versions
    BY <1>1, <1>12, PublicMenu DEF SaveMenuSnapshot, PublisherKnows
  <2>2. /\ r \in Publication /\ r.phase = "done"
        /\ r.told = old.asked.version /\ r.products = Products(old.asked)
    BY <1>6, <2>1
  <2>3. publisher' = [publisher EXCEPT ![p] = r] /\ menu' = old.asked
        /\ old.phase = "save" /\ UNCHANGED <<cache, customer>>
    BY <1>12 DEF SaveMenuSnapshot, Reply
  <2> HIDE DEF r
  <2>4. PublisherKnows(r, menu')
    BY <2>1, <2>2, <2>3, VersionsAreNumbers DEF PublisherKnows
  <2> QED BY <1>12, <2>2, <2>3, <2>4, MenuStep
<1> QED BY <1>2, <1>4, <1>5, <1>8, <1>9, <1>10, <1>11, <1>12 DEF SyncPartnerMenu

\* Every statement of GetMenu and CreateOrder keeps the invariant.
LEMMA CustomerSteps ==
  ASSUME IInv, NEW c \in Customers, GetMenu(c) \/ CreateOrder(c) \/ RequestFails(c)
  PROVE  IInv' /\ Forward
<1> DEFINE old == customer[c]
           rest == Rest(c)
<1>1. old \in Request /\ CustomerKnows(old) /\ menu \in Menus
  BY DEF IInv, TypeOK
<1>2. /\ rest \in Request /\ rest.phase = "idle" /\ rest.held = None
      /\ rest.shown = old.shown
      /\ old.shown \in Copies \cup {None} /\ old.held \in Copies \cup {None}
      /\ old.shown # None => /\ old.shown.version \in Nat
                             /\ old.shown.version <= menu.version
      /\ Public(menu) \in Shown \cap Copies
      /\ Public(menu).version = menu.version /\ menu.version \in Versions
      /\ cache \subseteq Shown \cap Copies
  BY RestMeans
<1> HIDE DEF rest
\* A customer who is not shown another menu and looks nothing up.
<1>3. ASSUME NEW r \in Request, r.phase \notin {"get", "put"},
             r.phase \in {"place", "ordered"}
               => r.bill = Bill(r.shown.lines, r.basket),
             r.held \in Copies \cup {None}, r.shown = old.shown,
             customer' = [customer EXCEPT ![c] = r],
             UNCHANGED <<menu, cache, publisher>>
      PROVE  IInv' /\ Forward
  <2>1. CustomerKnows(r)
    BY <1>3 DEF CustomerKnows
  <2>2. /\ old.shown # None => r.shown # None /\ old.shown.version <= r.shown.version
        /\ r.shown \in Copies \cup {None} /\ cache' \subseteq Shown \cap Copies
    BY <1>2, <1>3
  <2> QED BY <1>3, <2>1, <2>2, CustomerStep
\* A customer who is shown a menu.
<1>4. ASSUME NEW m \in Shown \cap Copies,
             old.shown # None => old.shown.version <= m.version,
             customer' = [customer EXCEPT ![c] = [rest EXCEPT !.shown = m]],
             cache' \subseteq Shown \cap Copies, UNCHANGED <<menu, publisher>>
      PROVE  IInv' /\ Forward
  <2> DEFINE r == [rest EXCEPT !.shown = m]
  <2>1. /\ r \in Request /\ r.phase = "idle" /\ r.held = None /\ r.shown = m
    BY <1>2 DEF Request
  <2>2. m # None
    BY VersionsAreNumbers
  <2> HIDE DEF r
  <2> QED BY <1>4, <2>1, <2>2, CustomerStep DEF CustomerKnows, r
<1>5. CASE FindVenue(c)
  <2> DEFINE r == [rest EXCEPT !.phase = "get", !.key = menu.version]
  <2>1. /\ r \in Request /\ r.phase = "get" /\ r.key = menu.version
        /\ r.held = None /\ r.shown = old.shown
    BY <1>2 DEF Request
  <2>2. customer' = [customer EXCEPT ![c] = r] /\ UNCHANGED <<menu, cache, publisher>>
    BY <1>5 DEF FindVenue, rest
  <2> HIDE DEF r
  <2>3. CustomerKnows(r)
    BY <1>2, <2>1 DEF CustomerKnows
  <2>4. /\ old.shown # None => r.shown # None /\ old.shown.version <= r.shown.version
        /\ r.shown \in Copies \cup {None} /\ r.held \in Copies \cup {None}
        /\ cache' \subseteq Shown \cap Copies
    BY <1>2, <2>1, <2>2
  <2> QED BY <2>1, <2>2, <2>3, <2>4, CustomerStep
<1>6. CASE GetCached(c)
  <2>1. /\ old.phase = "get" /\ UNCHANGED <<menu, cache, publisher>>
        /\ \/ \E m \in Cached(old.key) :
                customer' = [customer EXCEPT ![c] = [rest EXCEPT !.shown = m]]
           \/ customer' = [customer EXCEPT ![c] =
                [rest EXCEPT !.phase = "find", !.caching = TRUE]]
    BY <1>6 DEF GetCached, rest
  <2>2. ASSUME NEW m \in Cached(old.key),
               customer' = [customer EXCEPT ![c] = [rest EXCEPT !.shown = m]]
        PROVE  IInv' /\ Forward
    <3>1. m \in Shown \cap Copies /\ m.version = old.key
      BY <1>2 DEF Cached
    <3>2. old.shown # None => old.shown.version <= m.version
      BY <1>1, <2>1, <3>1 DEF CustomerKnows
    <3> QED BY <1>2, <1>4, <2>1, <2>2, <3>1, <3>2
  <2>3. CASE customer' = [customer EXCEPT ![c] =
               [rest EXCEPT !.phase = "find", !.caching = TRUE]]
    <3> DEFINE r == [rest EXCEPT !.phase = "find", !.caching = TRUE]
    <3>1. /\ r \in Request /\ r.phase = "find" /\ r.held = None
          /\ r.shown = old.shown
      BY <1>2 DEF Request
    <3>2. customer' = [customer EXCEPT ![c] = r]
      BY <2>3
    <3> HIDE DEF r
    <3> QED BY <1>3, <2>1, <3>1, <3>2
  <2> QED BY <2>1, <2>2, <2>3
<1>7. CASE GetFails(c)
  <2> DEFINE r == [rest EXCEPT !.phase = "find"]
  <2>1. r \in Request /\ r.phase = "find" /\ r.held = None /\ r.shown = old.shown
    BY <1>2 DEF Request
  <2>2. customer' = [customer EXCEPT ![c] = r] /\ UNCHANGED <<menu, cache, publisher>>
    BY <1>7 DEF GetFails, rest
  <2> HIDE DEF r
  <2> QED BY <1>3, <2>1, <2>2
<1>8. CASE FindMenu(c) /\ old.caching
  <2> DEFINE r == [rest EXCEPT !.phase = "put", !.held = Public(menu)]
  <2>1. /\ r \in Request /\ r.phase = "put" /\ r.held = Public(menu)
        /\ r.shown = old.shown
    BY <1>2 DEF Request
  <2>2. customer' = [customer EXCEPT ![c] = r] /\ UNCHANGED <<menu, cache, publisher>>
    BY <1>8 DEF FindMenu, rest
  <2> HIDE DEF r
  <2>3. CustomerKnows(r)
    BY <1>2, <2>1 DEF CustomerKnows
  <2>4. /\ old.shown # None => r.shown # None /\ old.shown.version <= r.shown.version
        /\ r.shown \in Copies \cup {None} /\ r.held \in Copies \cup {None}
        /\ cache' \subseteq Shown \cap Copies
    BY <1>2, <2>1, <2>2
  <2> QED BY <2>1, <2>2, <2>3, <2>4, CustomerStep
<1>9. CASE FindMenu(c) /\ ~old.caching
  <2>1. /\ customer' = [customer EXCEPT ![c] = [rest EXCEPT !.shown = Public(menu)]]
        /\ UNCHANGED <<menu, cache, publisher>>
    BY <1>9 DEF FindMenu, rest
  <2> QED BY <1>2, <1>4, <2>1
<1>10. CASE PutCached(c)
  <2>1. /\ old.phase = "put"
        /\ cache' \in {cache, (cache \ Cached(old.held.version)) \cup {old.held}}
        /\ customer' = [customer EXCEPT ![c] = [rest EXCEPT !.shown = old.held]]
        /\ UNCHANGED <<menu, publisher>>
    BY <1>10 DEF PutCached, rest
  <2>2. old.held \in Shown \cap Copies
    BY <1>1, <1>2, <2>1, VersionsAreNumbers DEF CustomerKnows
  <2>3. old.shown # None => old.shown.version <= old.held.version
    BY <1>1, <2>1 DEF CustomerKnows
  <2>4. cache' \subseteq Shown \cap Copies
    BY <1>2, <2>1, <2>2
  <2> QED BY <1>4, <2>1, <2>2, <2>3, <2>4
<1>11. ASSUME NEW basket \in Baskets, PriceOrder(c, basket)
       PROVE  IInv' /\ Forward
  <2> DEFINE bill == Bill(menu.lines, basket)
             r == [rest EXCEPT !.phase = "place", !.basket = basket, !.bill = bill]
  <2>1. bill \in Bills
    BY <1>1 DEF Bills
  <2>2. /\ UNCHANGED <<menu, cache, publisher>> /\ old.shown # None
        /\ \/ /\ customer' = [customer EXCEPT ![c] = r]
              /\ old.shown.version = menu.version /\ bill.code = "ok"
           \/ customer' = [customer EXCEPT ![c] = rest]
    BY <1>11 DEF PriceOrder, Shows, rest
  <2>3. CASE customer' = [customer EXCEPT ![c] = rest]
    BY <1>2, <1>3, <2>2, <2>3
  <2>4. CASE /\ customer' = [customer EXCEPT ![c] = r]
             /\ old.shown.version = menu.version /\ bill.code = "ok"
    <3>1. old.shown = Public(menu)
      BY <1>2, <2>2, <2>4 DEF IInv, VersionNamesOneMenu
    <3>2. LinesFit(menu.lines) /\ Public(menu).lines = PublicLines(menu.lines)
      BY <1>1, MenuLinesFit DEF IInv
    <3>3. bill = Bill(old.shown.lines, basket)
      BY <2>4, <3>1, <3>2, BasketsAreBaskets, PublicBill
    <3> HIDE DEF bill
    <3>4. /\ r \in Request /\ r.phase = "place" /\ r.held = None
          /\ r.shown = old.shown /\ r.basket = basket /\ r.bill = bill
      BY <1>2, <2>1 DEF Request
    <3> HIDE DEF r
    <3>5. r.bill = Bill(r.shown.lines, r.basket)
      BY <3>3, <3>4
    <3> QED BY <1>2, <1>3, <2>2, <2>4, <3>4, <3>5
  <2> QED BY <2>2, <2>3, <2>4
<1>12. CASE PlaceOrder(c)
  <2> DEFINE r == [old EXCEPT !.phase = "ordered"]
  <2>1. /\ r \in Request /\ r.phase = "ordered" /\ r.held = old.held
        /\ r.shown = old.shown /\ r.bill = old.bill /\ r.basket = old.basket
    BY <1>1 DEF Request
  <2>2. /\ UNCHANGED <<menu, cache, publisher>>
        /\ \/ customer' = [customer EXCEPT ![c] = r]
           \/ customer' = [customer EXCEPT ![c] = rest]
    BY <1>12 DEF PlaceOrder, rest
  <2> HIDE DEF r
  <2>3. r.bill = Bill(r.shown.lines, r.basket)
    BY <1>1, <1>12, <2>1 DEF CustomerKnows, PlaceOrder
  <2> QED BY <1>2, <1>3, <2>1, <2>2, <2>3
<1>13. CASE RequestFails(c)
  BY <1>2, <1>3, <1>13 DEF RequestFails, rest
<1> QED BY <1>5, <1>6, <1>7, <1>8, <1>9, <1>10, <1>11, <1>12, <1>13
        DEF GetMenu, CreateOrder

\* Every step does, the expiry of an entry of the cache included.
LEMMA StepKeepsIInv ==
  ASSUME IInv, [Next]_vars
  PROVE  IInv' /\ Forward
<1>1. CASE Expire
  <2>1. cache' \subseteq cache /\ UNCHANGED <<menu, publisher, customer>>
    BY <1>1 DEF Expire
  <2>2. TypeOK'
    BY <2>1 DEF IInv, TypeOK
  <2>3. \A m : m \in Copies' => m \in Copies
    BY <2>1 DEF Copies
  <2>4. CopiesAreOld' /\ VersionNamesOneMenu'
    BY <2>1, <2>3 DEF IInv, CopiesAreOld, VersionNamesOneMenu
  <2>5. /\ \A p \in Publishers : PublisherKnows(publisher[p], menu)'
        /\ \A c \in Customers : CustomerKnows(customer[c])'
        /\ Valid(menu)'
    BY <2>1 DEF IInv, PublisherKnows, CustomerKnows, Valid, Products
  <2> QED BY <2>1, <2>2, <2>4, <2>5, NobodyLooks DEF IInv
<1>2. CASE UNCHANGED vars
  <2>1. UNCHANGED <<menu, cache, publisher, customer>>
    BY <1>2 DEF vars
  <2>2. TypeOK' /\ Copies' = Copies
    BY <2>1 DEF IInv, TypeOK, Copies
  <2>3. CopiesAreOld' /\ VersionNamesOneMenu'
    BY <2>1, <2>2 DEF IInv, CopiesAreOld, VersionNamesOneMenu
  <2>4. /\ \A p \in Publishers : PublisherKnows(publisher[p], menu)'
        /\ \A c \in Customers : CustomerKnows(customer[c])'
        /\ Valid(menu)'
    BY <2>1 DEF IInv, PublisherKnows, CustomerKnows, Valid, Products
  <2> QED BY <2>1, <2>2, <2>3, <2>4, NobodyLooks DEF IInv
<1> QED BY <1>1, <1>2, PublishingSteps, CustomerSteps DEF Next

-----------------------------------------------------------------------------
(* The theorems. *)

\* The invariant holds in every state, whatever publishers and customers do.
THEOREM Inductive == Spec => []IInv
BY InitIInv, StepKeepsIInv, PTL DEF Spec

\* The variables have their types, and a price that cannot be charged is never
\* published.
THEOREM TypeCorrect == Spec => []TypeOK
<1>1. IInv => TypeOK
  BY DEF IInv
<1> QED BY <1>1, Inductive, PTL

\* A version is one menu, in the database, the cache and every customer's hands.
THEOREM OneMenuPerVersion == Spec => []VersionNamesOneMenu
<1>1. IInv => VersionNamesOneMenu
  BY DEF IInv
<1> QED BY <1>1, Inductive, PTL

\* A venue that was told the version which is published can translate all of it,
\* although version and mapping are read in two statements.
THEOREM VenueTranslatesMenu == Spec => []CurrentMenuIsTranslated
<1>1. IInv => CurrentMenuIsTranslated
  BY DEF IInv, PublisherKnows, CurrentMenuIsTranslated
<1> QED BY <1>1, Inductive, PTL

\* No customer is shown an older menu than before, whatever the cache holds.
THEOREM NoOlderMenuIsShown == Spec => ViewsMoveForward
<1>1. IInv /\ [Next]_vars => [Forward]_vars
  BY StepKeepsIInv
<1>2. Spec => [][Forward]_vars
  BY <1>1, Inductive, PTL DEF Spec
<1> QED BY <1>2 DEF ViewsMoveForward, Forward

\* Every basket is charged its exact total by the menu that is published, and
\* refused only where something cannot be ordered or the total is too large,
\* whatever the menu, the basket and the bound.
THEOREM PricesHold == Spec => []PricesAreExact
<1>1. ASSUME IInv PROVE PricesAreExact
  <2> SUFFICES ASSUME NEW basket \in Baskets PROVE Exact(menu.lines, basket)
    BY DEF PricesAreExact, Exact
  <2>1. LinesFit(menu.lines)
    BY <1>1, MenuLinesFit DEF IInv, TypeOK
  <2> QED BY <2>1, BasketsAreBaskets, BillIsExact
<1>2. IInv => PricesAreExact
  BY <1>1
<1> QED BY <1>2, Inductive, PTL

\* An order costs what the menu in the customer's hands says, whichever way that
\* menu came there and whatever was published since.
THEOREM OrdersCostWhatWasShown == Spec => []PaidAsShown
<1>1. IInv => PaidAsShown
  BY DEF IInv, CustomerKnows, PaidAsShown
<1> QED BY <1>1, Inductive, PTL
=============================================================================
