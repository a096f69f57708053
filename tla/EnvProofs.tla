----------------------------- MODULE EnvProofs ------------------------------
(***************************************************************************)
(* Proofs about Env for every set of variables, every size of the          *)
(* environment and of its image, every default environment and every bound.*)
(***************************************************************************)
EXTENDS Env, WellFoundedInduction, TLAPS

\* An environment that fits into ENV_SIZE and in which no name is defined twice
\* but those the default environment defines twice.
Good(data) ==
    /\ data \in Seq(Var)
    /\ Used(data) <= EnvSize
    /\ \A n \in Single : Once(data, n)

\* The bounds, and an image that has a first sector.
LEMMA Bounds ==
  /\ Sectors \in Nat \ {0} /\ 1 \in 1 .. Sectors
  /\ MaxPowerLoss \in Nat /\ MaxSets \in Nat
<1>1. Sectors \in Nat \ {0} /\ MaxPowerLoss \in Nat /\ MaxSets \in Nat
  BY EnvAssumption
<1> QED
  BY <1>1

-----------------------------------------------------------------------------
(* The room variables take.  Induction is done with least counterexamples. *)

\* f holds the running sums that Used computes.
Runs(d, f) == f[0] = 0 /\ \A i \in 1 .. Len(d) : f[i] = f[i - 1] + Weight[d[i].val]
SumOf(d, f) == f \in [0 .. Len(d) -> Nat] /\ Runs(d, f)

\* A nonempty set of numbers has a least element.
LEMMA Least == ASSUME NEW S, S \subseteq Nat, S # {} PROVE \E m \in S : \A n \in S : m <= n
<1>1. PICK x \in S : \A y \in S : ~(<<y, x>> \in OpToRel(<, Nat))
  BY NatLessThanWellFounded, WFMin
<1>2. \A y \in S : ~(y < x)
  BY <1>1 DEF OpToRel
<1> QED
  BY <1>2

\* The variables have weights.
LEMMA WeightType ==
  ASSUME NEW d \in Seq(Var), NEW i \in 1 .. Len(d)
  PROVE  Weight[d[i].val] \in Nat /\ Weight[d[i].val] >= 2 /\ d[i].val \in Vals
<1>1. d[i] \in Var
  OBVIOUS
<1>2. Weight \in [Vals -> Nat \ {0, 1}]
  BY EnvAssumption
<1> QED
  BY <1>1, <1>2 DEF Var

\* There are such sums for every sequence.
LEMMA SumExists == ASSUME NEW d \in Seq(Var) PROVE \E f : SumOf(d, f)
<1>0. Len(d) \in Nat
  OBVIOUS
<1> DEFINE P(k) == \E f : /\ f \in [0 .. k -> Nat] /\ f[0] = 0
                          /\ \A i \in 1 .. k : f[i] = f[i - 1] + Weight[d[i].val]
           S == {k \in 0 .. Len(d) : ~P(k)}
<1>1. S = {}
  <2> SUFFICES ASSUME S # {} PROVE FALSE
    OBVIOUS
  <2>1. PICK m \in S : \A n \in S : m <= n
    <3>1. S \subseteq Nat
      BY <1>0
    <3> HIDE DEF S
    <3> QED
      BY <3>1, Least
  <2>2. m \in 0 .. Len(d) /\ ~P(m)
    BY <2>1
  <2>3. m # 0
    <3>1. P(0)
      <4> WITNESS [i \in 0 .. 0 |-> 0]
      <4> QED
        OBVIOUS
    <3> HIDE DEF P
    <3> QED
      BY <2>2, <3>1
  <2>4. m - 1 \in 0 .. Len(d) /\ m - 1 \notin S
    <3> HIDE DEF S
    <3>1. m - 1 \in 0 .. Len(d) /\ ~(m <= m - 1)
      BY <1>0, <2>2, <2>3
    <3> QED
      BY <2>1, <3>1
  <2>5. P(m - 1)
    <3> HIDE DEF P
    <3> QED
      BY <2>4
  <2>6. PICK f : /\ f \in [0 .. m - 1 -> Nat] /\ f[0] = 0
                 /\ \A i \in 1 .. m - 1 : f[i] = f[i - 1] + Weight[d[i].val]
    BY <2>5
  <2> DEFINE g == [i \in 0 .. m |-> IF i = m THEN f[m - 1] + Weight[d[m].val] ELSE f[i]]
  <2>7. m \in 1 .. Len(d) /\ Weight[d[m].val] \in Nat
    BY <1>0, <2>2, <2>3, WeightType
  <2>8. g \in [0 .. m -> Nat] /\ g[0] = 0
    BY <2>6, <2>7
  <2>9. \A i \in 1 .. m : g[i] = g[i - 1] + Weight[d[i].val]
    BY <2>6, <2>7
  <2>10. P(m)
    <3> HIDE DEF g
    <3> QED
      BY <2>8, <2>9
  <2> HIDE DEF P
  <2> QED
    BY <2>2, <2>10
<1>2. P(Len(d))
  <2> HIDE DEF P
  <2> QED
    BY <1>0, <1>1
<1> QED
  BY <1>2 DEF SumOf, Runs

\* Sums over sequences that begin alike begin alike.
LEMMA SumPrefix ==
  ASSUME NEW d \in Seq(Var), NEW f, SumOf(d, f), NEW e \in Seq(Var), NEW g, Runs(e, g),
         NEW k \in Nat, k <= Len(d), k <= Len(e), \A i \in 1 .. k : e[i] = d[i]
  PROVE  g[k] = f[k]
<1>0. Len(d) \in Nat /\ Len(e) \in Nat
  OBVIOUS
<1> DEFINE S == {i \in 0 .. k : g[i] # f[i]}
<1>1. S = {}
  <2> SUFFICES ASSUME S # {} PROVE FALSE
    OBVIOUS
  <2>1. PICK m \in S : \A n \in S : m <= n
    <3>1. S \subseteq Nat
      BY <1>0
    <3> HIDE DEF S
    <3> QED
      BY <3>1, Least
  <2>2. m \in 1 .. k /\ m - 1 \in 0 .. k /\ m - 1 \notin S
    BY <1>0, <2>1 DEF SumOf, Runs
  <2>3. g[m - 1] = f[m - 1] /\ g[m] # f[m]
    BY <2>1, <2>2
  <2>4. m \in 1 .. Len(d) /\ m \in 1 .. Len(e)
    BY <1>0, <2>2
  <2>5. f[m] = f[m - 1] + Weight[d[m].val]
    BY <2>4 DEF SumOf, Runs
  <2>6. g[m] = g[m - 1] + Weight[e[m].val]
    BY <2>4 DEF Runs
  <2> QED
    BY <2>2, <2>3, <2>5, <2>6
<1> QED
  BY <1>1

\* Used is the last of the sums.
LEMMA UsedIsSum ==
  ASSUME NEW d \in Seq(Var), NEW f, SumOf(d, f)
  PROVE  Used(d) = f[Len(d)]
<1>0. Len(d) \in Nat
  OBVIOUS
<1> DEFINE Eq(h) == h = [i \in 0 .. Len(d) |->
                           IF i = 0 THEN 0 ELSE h[i - 1] + Weight[d[i].val]]
           h0 == CHOOSE h : Eq(h)
<1>1. Eq(f)
  BY <1>0 DEF SumOf, Runs
<1>2. Eq(h0)
  <2> HIDE DEF Eq
  <2> QED
    BY <1>1
<1>3. Used(d) = h0[Len(d)]
  BY DEF Used
<1> HIDE DEF h0
<1>4. h0[0] = 0 /\ \A i \in 1 .. Len(d) : h0[i] = h0[i - 1] + Weight[d[i].val]
  BY <1>0, <1>2
<1>5. h0[Len(d)] = f[Len(d)]
  <2>1. Runs(d, h0)
    BY <1>4 DEF Runs
  <2> QED
    BY <1>0, <2>1, SumPrefix
<1> QED
  BY <1>3, <1>5

\* Used is a number.
LEMMA UsedType == ASSUME NEW d \in Seq(Var) PROVE Used(d) \in Nat
<1>1. PICK f : SumOf(d, f)
  BY SumExists
<1> QED
  BY <1>1, UsedIsSum DEF SumOf, Runs

\* A variable appended takes its own room.
LEMMA UsedAppend ==
  ASSUME NEW w \in Seq(Var), NEW x \in Var
  PROVE  Used(Append(w, x)) = Used(w) + Weight[x.val]
<1> DEFINE a == Append(w, x)
<1>1. /\ a \in Seq(Var) /\ Len(a) = Len(w) + 1 /\ Len(w) \in Nat
      /\ a[Len(a)] = x /\ \A i \in 1 .. Len(w) : w[i] = a[i]
  OBVIOUS
<1> HIDE DEF a
<1>2. PICK f : SumOf(a, f)
  BY <1>1, SumExists
<1>3. PICK g : SumOf(w, g)
  BY SumExists
<1>4. g[Len(w)] = f[Len(w)]
  <2>1. Runs(w, g) /\ Len(w) <= Len(a) /\ Len(w) <= Len(w)
    BY <1>1, <1>3 DEF SumOf
  <2> QED
    BY <1>1, <1>2, <2>1, SumPrefix
<1>5. f[Len(a)] = f[Len(w)] + Weight[x.val]
  BY <1>1, <1>2 DEF SumOf, Runs
<1>6. Used(a) = f[Len(a)] /\ Used(w) = g[Len(w)]
  BY <1>1, <1>2, <1>3, UsedIsSum
<1> QED
  BY <1>4, <1>5, <1>6 DEF a

-----------------------------------------------------------------------------
(* Searching, deleting and appending.                                      *)

\* The search of _do_setenv and getenv finds the first definition if there is
\* one.
LEMMA FirstOfFinds ==
  ASSUME NEW d \in Seq(Var), NEW n, IndexOf(d, n) # {}
  PROVE  /\ FirstOf(d, n) \in 1 .. Len(d) /\ d[FirstOf(d, n)].name = n
         /\ \A i \in 1 .. Len(d) : d[i].name = n => FirstOf(d, n) <= i
<1>1. DOMAIN d = 1 .. Len(d) /\ Len(d) \in Nat
  OBVIOUS
<1>2. IndexOf(d, n) \subseteq Nat
  BY <1>1 DEF IndexOf
<1>3. \E i \in IndexOf(d, n) : \A j \in IndexOf(d, n) : i <= j
  BY <1>2, Least
<1>4. /\ FirstOf(d, n) \in IndexOf(d, n)
      /\ \A j \in IndexOf(d, n) : FirstOf(d, n) <= j
  BY <1>3 DEF FirstOf
<1> QED
  BY <1>1, <1>4 DEF IndexOf

\* A definition before which there is no other of its name is the one found.
LEMMA ValueIs ==
  ASSUME NEW d \in Seq(Var), NEW n, NEW i \in 1 .. Len(d), d[i].name = n,
         \A j \in 1 .. Len(d) : j < i => d[j].name # n
  PROVE  ValueOf(d, n, Nil) = d[i].val
<1>1. DOMAIN d = 1 .. Len(d) /\ Len(d) \in Nat
  OBVIOUS
<1>2. IndexOf(d, n) # {}
  BY <1>1 DEF IndexOf
<1>3. /\ FirstOf(d, n) \in 1 .. Len(d) /\ d[FirstOf(d, n)].name = n
      /\ FirstOf(d, n) <= i
  BY <1>2, FirstOfFinds
<1>4. FirstOf(d, n) = i
  BY <1>1, <1>3
<1> QED
  BY <1>2, <1>4 DEF ValueOf

\* What a deletion leaves.
LEMMA WithoutShape ==
  ASSUME NEW d \in Seq(Var), NEW n \in Names, IndexOf(d, n) # {}
  PROVE  LET p == FirstOf(d, n)
             w == Without(d, n)
         IN  /\ p \in 1 .. Len(d) /\ d[p].name = n
             /\ w \in Seq(Var) /\ Len(w) = Len(d) - 1 /\ DOMAIN w = 1 .. Len(d) - 1
             /\ \A k \in 1 .. Len(d) - 1 : w[k] = IF k < p THEN d[k] ELSE d[k + 1]
<1> DEFINE p == FirstOf(d, n)
           w == Without(d, n)
<1>1. Len(d) \in Nat /\ p \in 1 .. Len(d) /\ d[p].name = n
  BY FirstOfFinds
<1>2. w = [k \in 1 .. Len(d) - 1 |-> IF k < p THEN d[k] ELSE d[k + 1]]
  BY DEF Without
<1> HIDE DEF p, w
<1>3. \A k \in 1 .. Len(d) - 1 : w[k] \in Var
  BY <1>1, <1>2
<1>4. w \in Seq(Var) /\ Len(w) = Len(d) - 1 /\ DOMAIN w = 1 .. Len(d) - 1
  BY <1>1, <1>2, <1>3
<1> QED
  BY <1>1, <1>2, <1>4 DEF p, w

\* A deletion leaves a sequence of variables.
LEMMA WithoutSeq ==
  ASSUME NEW d \in Seq(Var), NEW n \in Names
  PROVE  Without(d, n) \in Seq(Var)
<1>1. CASE IndexOf(d, n) = {}
  BY <1>1 DEF Without
<1>2. CASE IndexOf(d, n) # {}
  BY <1>2, WithoutShape
<1> QED
  BY <1>1, <1>2

\* A name that was defined once is not defined after its deletion.
LEMMA WithoutClears ==
  ASSUME NEW d \in Seq(Var), NEW n \in Names, Once(d, n)
  PROVE  IndexOf(Without(d, n), n) = {}
<1>1. CASE IndexOf(d, n) = {}
  BY <1>1 DEF Without
<1>2. CASE IndexOf(d, n) # {}
  <2> DEFINE p == FirstOf(d, n)
             w == Without(d, n)
  <2>1. /\ p \in 1 .. Len(d) /\ d[p].name = n /\ DOMAIN w = 1 .. Len(d) - 1
        /\ \A k \in 1 .. Len(d) - 1 : w[k] = IF k < p THEN d[k] ELSE d[k + 1]
    BY <1>2, WithoutShape
  <2>2. Len(d) \in Nat /\ \A i \in 1 .. Len(d) : d[i].name = n => i = p
    BY <2>1 DEF Once, IndexOf
  <2> HIDE DEF p, w
  <2>3. ASSUME NEW k \in 1 .. Len(d) - 1 PROVE w[k].name # n
    <3>1. CASE k < p
      BY <2>1, <2>2, <3>1
    <3>2. CASE ~(k < p)
      <4>1. k + 1 \in 1 .. Len(d) /\ k + 1 # p
        BY <2>1, <2>2, <3>2
      <4> QED
        BY <2>1, <2>2, <3>2, <4>1
    <3> QED
      BY <3>1, <3>2
  <2>4. IndexOf(w, n) = {}
    BY <2>1, <2>3 DEF IndexOf
  <2> QED
    BY <2>4 DEF w
<1> QED
  BY <1>1, <1>2

\* A deletion defines no name twice.
LEMMA WithoutOnce ==
  ASSUME NEW d \in Seq(Var), NEW n \in Names, NEW m, Once(d, m)
  PROVE  Once(Without(d, n), m)
<1>1. CASE IndexOf(d, n) = {}
  BY <1>1 DEF Without
<1>2. CASE IndexOf(d, n) # {}
  <2> DEFINE p == FirstOf(d, n)
             w == Without(d, n)
             u(k) == IF k < p THEN k ELSE k + 1
  <2>1. /\ p \in 1 .. Len(d) /\ DOMAIN w = 1 .. Len(d) - 1
        /\ \A k \in 1 .. Len(d) - 1 : w[k] = IF k < p THEN d[k] ELSE d[k + 1]
    BY <1>2, WithoutShape
  <2>2. Len(d) \in Nat /\ DOMAIN d = 1 .. Len(d)
    OBVIOUS
  <2> HIDE DEF p, w
  <2>3. ASSUME NEW i \in 1 .. Len(d) - 1, NEW j \in 1 .. Len(d) - 1,
               w[i].name = m, w[j].name = m
        PROVE  i = j
    <3>1. u(i) \in 1 .. Len(d) /\ u(j) \in 1 .. Len(d) /\ w[i] = d[u(i)] /\ w[j] = d[u(j)]
      BY <2>1, <2>2
    <3>2. u(i) = u(j)
      BY <2>2, <2>3, <3>1 DEF Once, IndexOf
    <3> QED
      BY <2>1, <2>2, <3>2
  <2>4. Once(w, m)
    BY <2>1, <2>3 DEF Once, IndexOf
  <2> QED
    BY <2>4 DEF w
<1> QED
  BY <1>1, <1>2

\* A deletion leaves what getenv finds for the other names.
LEMMA WithoutValue ==
  ASSUME NEW d \in Seq(Var), NEW n \in Names, NEW m, m # n
  PROVE  ValueOf(Without(d, n), m, Nil) = ValueOf(d, m, Nil)
<1>1. CASE IndexOf(d, n) = {}
  BY <1>1 DEF Without
<1>2. CASE IndexOf(d, n) # {}
  <2> DEFINE p == FirstOf(d, n)
             w == Without(d, n)
             q == FirstOf(d, m)
  <2>1. /\ p \in 1 .. Len(d) /\ d[p].name = n
        /\ w \in Seq(Var) /\ Len(w) = Len(d) - 1 /\ DOMAIN w = 1 .. Len(d) - 1
        /\ \A k \in 1 .. Len(d) - 1 : w[k] = IF k < p THEN d[k] ELSE d[k + 1]
    BY <1>2, WithoutShape
  <2>2. Len(d) \in Nat /\ DOMAIN d = 1 .. Len(d)
    OBVIOUS
  <2> HIDE DEF p, w
  <2>3. CASE IndexOf(d, m) = {}
    <3>1. \A i \in 1 .. Len(d) : d[i].name # m
      BY <2>2, <2>3 DEF IndexOf
    <3>2. ASSUME NEW k \in 1 .. Len(d) - 1 PROVE w[k].name # m
      <4>1. k \in 1 .. Len(d) /\ k + 1 \in 1 .. Len(d)
        BY <2>2
      <4> QED
        BY <2>1, <3>1, <4>1
    <3>3. IndexOf(w, m) = {}
      BY <2>1, <3>2 DEF IndexOf
    <3> QED
      BY <2>3, <3>3 DEF ValueOf, w
  <2>4. CASE IndexOf(d, m) # {}
    <3>1. /\ q \in 1 .. Len(d) /\ d[q].name = m
          /\ \A i \in 1 .. Len(d) : d[i].name = m => q <= i
      BY <2>4, FirstOfFinds
    <3>2. ValueOf(d, m, Nil) = d[q].val
      BY <2>4 DEF ValueOf
    <3> HIDE DEF q
    <3> DEFINE r == IF q < p THEN q ELSE q - 1
    <3>3. q # p /\ r \in 1 .. Len(d) - 1 /\ w[r] = d[q]
      BY <2>1, <2>2, <3>1
    <3>4. ASSUME NEW j \in 1 .. Len(d) - 1, j < r PROVE w[j].name # m
      <4>1. CASE j < p
        BY <2>1, <2>2, <3>1, <3>3, <3>4, <4>1
      <4>2. CASE ~(j < p)
        <5>1. j + 1 \in 1 .. Len(d) /\ j + 1 < q
          BY <2>1, <2>2, <3>1, <3>3, <3>4, <4>2
        <5> QED
          BY <2>1, <2>2, <3>1, <4>2, <5>1
      <4> QED
        BY <4>1, <4>2
    <3> HIDE DEF r
    <3>5. ValueOf(w, m, Nil) = w[r].val
      <4>1. w \in Seq(Var) /\ r \in 1 .. Len(w) /\ w[r].name = m
        BY <2>1, <3>1, <3>3
      <4>2. \A j \in 1 .. Len(w) : j < r => w[j].name # m
        BY <2>1, <3>4
      <4> QED
        BY <4>1, <4>2, ValueIs
    <3> QED
      BY <3>2, <3>3, <3>5 DEF w
  <2> QED
    BY <2>3, <2>4
<1> QED
  BY <1>1, <1>2

\* A variable appended: getenv finds it if its name was not defined, the other
\* names keep what getenv finds, and no other name is defined again.
LEMMA AppendShape ==
  ASSUME NEW w \in Seq(Var), NEW n \in Names, NEW v \in Vals
  PROVE  LET a == Append(w, [name |-> n, val |-> v])
         IN  /\ a \in Seq(Var)
             /\ IndexOf(w, n) = {} => ValueOf(a, n, Nil) = v /\ Once(a, n)
             /\ \A m : m # n => ValueOf(a, m, Nil) = ValueOf(w, m, Nil)
             /\ \A m : m # n /\ Once(w, m) => Once(a, m)
<1> DEFINE x == [name |-> n, val |-> v]
           a == Append(w, x)
<1>1. DOMAIN w = 1 .. Len(w) /\ Len(w) \in Nat /\ x \in Var /\ x.name = n /\ x.val = v
  BY DEF Var
<1>2. /\ a \in Seq(Var) /\ Len(a) = Len(w) + 1 /\ DOMAIN a = 1 .. Len(w) + 1
      /\ a[Len(w) + 1] = x /\ \A i \in 1 .. Len(w) : a[i] = w[i]
  BY <1>1
<1> HIDE DEF a, x
<1>3. ASSUME IndexOf(w, n) = {} PROVE ValueOf(a, n, Nil) = v /\ Once(a, n)
  <2>1. \A i \in 1 .. Len(w) : a[i].name # n
    BY <1>1, <1>2, <1>3 DEF IndexOf
  <2>2. Len(w) + 1 \in 1 .. Len(a) /\ \A j \in 1 .. Len(a) : j < Len(w) + 1 => a[j].name # n
    BY <1>1, <1>2, <2>1
  <2>3. ValueOf(a, n, Nil) = a[Len(w) + 1].val
    BY <1>1, <1>2, <2>2, ValueIs
  <2>4. Once(a, n)
    BY <1>1, <1>2, <2>1 DEF Once, IndexOf
  <2> QED
    BY <1>1, <1>2, <2>3, <2>4
<1>4. ASSUME NEW m, m # n PROVE IndexOf(a, m) = IndexOf(w, m)
  BY <1>1, <1>2, <1>4 DEF IndexOf
<1>5. ASSUME NEW m, m # n PROVE ValueOf(a, m, Nil) = ValueOf(w, m, Nil)
  <2>1. IndexOf(a, m) = IndexOf(w, m)
    BY <1>4, <1>5
  <2>2. FirstOf(a, m) = FirstOf(w, m)
    BY <2>1 DEF FirstOf
  <2>3. CASE IndexOf(w, m) = {}
    BY <2>1, <2>3 DEF ValueOf
  <2>4. CASE IndexOf(w, m) # {}
    <3>1. FirstOf(w, m) \in 1 .. Len(w)
      BY <2>4, FirstOfFinds
    <3>2. a[FirstOf(w, m)] = w[FirstOf(w, m)]
      BY <1>2, <3>1
    <3> QED
      BY <2>1, <2>2, <2>4, <3>2 DEF ValueOf
  <2> QED
    BY <2>3, <2>4
<1>6. ASSUME NEW m, m # n, Once(w, m) PROVE Once(a, m)
  BY <1>4, <1>6 DEF Once
<1> QED
  BY <1>2, <1>3, <1>5, <1>6 DEF a, x

\* A variable deleted frees room.
LEMMA UsedWithout ==
  ASSUME NEW d \in Seq(Var), NEW n \in Names
  PROVE  Used(Without(d, n)) <= Used(d)
<1>1. d \in Seq(Var) /\ Len(d) \in Nat
  OBVIOUS
<1>2. CASE IndexOf(d, n) = {}
  BY <1>1, <1>2, UsedType DEF Without
<1>3. CASE IndexOf(d, n) # {}
  <2> DEFINE p == FirstOf(d, n)
             w == Without(d, n)
  <2>1. p \in 1 .. Len(d)
    BY <1>3, FirstOfFinds
  <2>2. w = [k \in 1 .. Len(d) - 1 |-> IF k < p THEN d[k] ELSE d[k + 1]]
    BY <1>3 DEF Without
  <2>3. w \in Seq(Var)
    BY WithoutSeq
  <2> HIDE DEF p, w
  <2>4. Len(w) = Len(d) - 1
    BY <1>1, <2>1, <2>2
  <2>5. PICK f : SumOf(d, f)
    BY <1>1, SumExists
  <2>6. PICK g : SumOf(w, g)
    BY <2>3, SumExists
  <2>7. /\ f \in [0 .. Len(d) -> Nat] /\ \A i \in 1 .. Len(d) : f[i] = f[i - 1] + Weight[d[i].val]
        /\ g \in [0 .. Len(d) - 1 -> Nat]
        /\ g[0] = 0 /\ \A i \in 1 .. Len(d) - 1 : g[i] = g[i - 1] + Weight[w[i].val]
    BY <2>4, <2>5, <2>6 DEF SumOf, Runs
  <2>8. g[p - 1] = f[p - 1]
    <3>1. p - 1 \in Nat /\ p - 1 <= Len(d) /\ p - 1 <= Len(w) /\ Runs(w, g)
      BY <1>1, <2>1, <2>4, <2>6 DEF SumOf
    <3>2. \A i \in 1 .. p - 1 : w[i] = d[i]
      BY <1>1, <2>1, <2>2
    <3> QED
      BY <1>1, <2>3, <2>5, <3>1, <3>2, SumPrefix
  <2> DEFINE S == {i \in p - 1 .. Len(d) - 1 : ~(g[i] <= f[i + 1])}
  <2>9. S = {}
    <3> SUFFICES ASSUME S # {} PROVE FALSE
      OBVIOUS
    <3>1. PICK m \in S : \A j \in S : m <= j
      <4>1. S \subseteq Nat
        BY <1>1, <2>1
      <4> HIDE DEF S
      <4> QED
        BY <4>1, Least
    <3>2. m \in p - 1 .. Len(d) - 1 /\ ~(g[m] <= f[m + 1])
      BY <3>1
    <3>3. m # p - 1
      <4>1. f[p] = f[p - 1] + Weight[d[p].val] /\ Weight[d[p].val] \in Nat
        BY <1>1, <2>1, <2>7, WeightType
      <4>2. f[p - 1] \in Nat
        BY <1>1, <2>1, <2>7
      <4>3. g[p - 1] <= f[p]
        BY <2>8, <4>1, <4>2
      <4> QED
        BY <2>1, <3>2, <4>3
    <3>4. m \in p .. Len(d) - 1 /\ m - 1 \in p - 1 .. Len(d) - 1 /\ m - 1 \notin S
      BY <1>1, <2>1, <3>1, <3>2, <3>3
    <3>5. g[m - 1] <= f[m]
      BY <1>1, <2>1, <3>4
    <3>6. w[m] = d[m + 1] /\ m + 1 \in 1 .. Len(d) /\ m \in 1 .. Len(d) - 1
      BY <1>1, <2>1, <2>2, <3>4
    <3>7. Weight[d[m + 1].val] \in Nat
      BY <1>1, <3>6, WeightType
    <3>8. g[m] = g[m - 1] + Weight[d[m + 1].val] /\ f[m + 1] = f[m] + Weight[d[m + 1].val]
      BY <1>1, <2>7, <3>6
    <3>9. g[m - 1] \in Nat /\ f[m] \in Nat
      <4>1. m - 1 \in 0 .. Len(d) - 1 /\ m \in 0 .. Len(d)
        BY <1>1, <3>6
      <4> QED
        BY <2>7, <4>1
    <3> QED
      BY <3>2, <3>5, <3>7, <3>8, <3>9
  <2>10. g[Len(d) - 1] <= f[Len(d)]
    BY <1>1, <2>1, <2>9
  <2>11. Used(w) = g[Len(w)] /\ Used(d) = f[Len(d)]
    BY <1>1, <2>3, <2>5, <2>6, UsedIsSum
  <2> QED
    BY <2>4, <2>10, <2>11 DEF w
<1> QED
  BY <1>2, <1>3

-----------------------------------------------------------------------------
(* Environments.                                                           *)

\* Every variable takes at least two units: i variables take at least 2i, and the
\* image holds every environment that fits.
LEMMA GoodLen == ASSUME NEW d, Good(d) PROVE Len(d) \in 0 .. Sectors
<1>0. d \in Seq(Var) /\ Len(d) \in Nat /\ Used(d) <= EnvSize
  BY DEF Good
<1>1. PICK f : SumOf(d, f)
  BY <1>0, SumExists
<1>2. /\ f \in [0 .. Len(d) -> Nat] /\ f[0] = 0
      /\ \A i \in 1 .. Len(d) : f[i] = f[i - 1] + Weight[d[i].val]
  BY <1>1 DEF SumOf, Runs
<1> DEFINE S == {i \in 0 .. Len(d) : ~(f[i] >= 2 * i)}
<1>3. S = {}
  <2> SUFFICES ASSUME S # {} PROVE FALSE
    OBVIOUS
  <2>1. PICK m \in S : \A n \in S : m <= n
    <3>1. S \subseteq Nat
      BY <1>0
    <3> HIDE DEF S
    <3> QED
      BY <3>1, Least
  <2>2. m \in 0 .. Len(d) /\ ~(f[m] >= 2 * m)
    BY <2>1
  <2>3. m # 0
    BY <1>2, <2>2
  <2>4. m \in 1 .. Len(d) /\ m - 1 \in 0 .. Len(d) /\ m - 1 \notin S
    BY <1>0, <2>1, <2>2, <2>3
  <2>5. f[m - 1] >= 2 * (m - 1) /\ f[m - 1] \in Nat
    BY <1>2, <2>4
  <2>6. f[m] = f[m - 1] + Weight[d[m].val] /\ Weight[d[m].val] \in Nat
        /\ Weight[d[m].val] >= 2
    BY <1>0, <1>2, <2>4, WeightType
  <2> QED
    BY <2>2, <2>4, <2>5, <2>6
<1>4. f[Len(d)] >= 2 * Len(d) /\ f[Len(d)] \in Nat
  BY <1>0, <1>2, <1>3
<1>5. f[Len(d)] <= EnvSize
  BY <1>0, <1>1, UsedIsSum
<1>6. EnvSize \in Nat /\ Sectors \in Nat /\ EnvSize <= 2 * Sectors + 1
  BY EnvAssumption, ImageHoldsAll
<1> QED
  BY <1>0, <1>4, <1>5, <1>6

\* Two environments whose images hold the same variables are the same.
LEMMA SameImage ==
  ASSUME NEW d, NEW e, Good(d), Good(e),
         \A s \in 1 .. Sectors : VarAt(d, s) = VarAt(e, s)
  PROVE  d = e
<1>1. /\ d \in Seq(Var) /\ DOMAIN d = 1 .. Len(d) /\ Len(d) \in 0 .. Sectors
      /\ e \in Seq(Var) /\ DOMAIN e = 1 .. Len(e) /\ Len(e) \in 0 .. Sectors
  BY GoodLen DEF Good
<1>2. \A i \in 1 .. Len(d) : d[i] # Nil
  BY <1>1, EnvAssumption
<1>3. \A i \in 1 .. Len(e) : e[i] # Nil
  BY <1>1, EnvAssumption
<1>4. ~(Len(d) < Len(e))
  <2> SUFFICES ASSUME Len(d) < Len(e) PROVE FALSE
    OBVIOUS
  <2>1. VarAt(d, Len(e)) = Nil /\ VarAt(e, Len(e)) = e[Len(e)]
    BY <1>1 DEF VarAt
  <2> QED
    BY <1>1, <1>3, <2>1, EnvAssumption
<1>5. ~(Len(e) < Len(d))
  <2> SUFFICES ASSUME Len(e) < Len(d) PROVE FALSE
    OBVIOUS
  <2>1. VarAt(e, Len(d)) = Nil /\ VarAt(d, Len(d)) = d[Len(d)]
    BY <1>1 DEF VarAt
  <2> QED
    BY <1>1, <1>2, <2>1, EnvAssumption
<1>a. Len(d) \in Nat /\ Len(e) \in Nat
  BY <1>1
<1>6. Len(d) = Len(e)
  BY <1>a, <1>4, <1>5
<1>7. \A i \in 1 .. Len(d) : d[i] = e[i]
  BY <1>1, <1>6, EnvAssumption DEF VarAt
<1> QED
  BY <1>1, <1>6, <1>7

\* setenv deletes a definition, and appends one only if it has room.
LEMMA EditsGood ==
  ASSUME NEW d, Good(d), NEW n \in Names, NEW v \in Vals
  PROVE  LET w == Without(d, n)
             a == Append(w, [name |-> n, val |-> v])
         IN  /\ Good(w) /\ (Used(w) + Weight[v] <= EnvSize => Good(a))
             /\ \A m \in Names \ {n} : /\ ValueOf(w, m, Nil) = ValueOf(d, m, Nil)
                                       /\ ValueOf(a, m, Nil) = ValueOf(d, m, Nil)
             /\ n \in Single => ValueOf(w, n, Nil) = Nil /\ ValueOf(a, n, Nil) = v
<1> DEFINE w == Without(d, n)
           x == [name |-> n, val |-> v]
           a == Append(w, x)
<1>1. /\ d \in Seq(Var) /\ Used(d) <= EnvSize /\ \A m \in Single : Once(d, m)
      /\ Single \subseteq Names
  BY DEF Good, Single
<1>2. w \in Seq(Var) /\ Used(w) <= Used(d) /\ x \in Var /\ x.val = v
  BY <1>1, WithoutSeq, UsedWithout DEF Var
<1>3. \A m \in Single : Once(w, m)
  BY <1>1, WithoutOnce
<1>4. n \in Single => IndexOf(w, n) = {}
  BY <1>1, WithoutClears
<1>5. \A m \in Names \ {n} : ValueOf(w, m, Nil) = ValueOf(d, m, Nil)
  BY <1>1, WithoutValue
<1> HIDE DEF w
<1>6. Good(w)
  <2>1. Used(w) \in Nat /\ Used(d) \in Nat /\ EnvSize \in Nat
    BY <1>1, <1>2, UsedType, EnvAssumption
  <2>2. Used(w) <= EnvSize
    BY <1>1, <1>2, <2>1
  <2> QED
    BY <1>2, <1>3, <2>2 DEF Good
<1>7. /\ a \in Seq(Var)
      /\ IndexOf(w, n) = {} => ValueOf(a, n, Nil) = v /\ Once(a, n)
      /\ \A m : m # n => ValueOf(a, m, Nil) = ValueOf(w, m, Nil)
      /\ \A m : m # n /\ Once(w, m) => Once(a, m)
  BY <1>2, AppendShape
<1>8. Used(a) = Used(w) + Weight[v]
  BY <1>2, UsedAppend
<1> HIDE DEF a
<1>9. \A m \in Single : Once(a, m)
  BY <1>3, <1>4, <1>7
<1>10. Used(w) + Weight[v] <= EnvSize => Good(a)
  BY <1>7, <1>8, <1>9 DEF Good
<1>11. n \in Single => ValueOf(w, n, Nil) = Nil
  BY <1>4 DEF ValueOf
<1> QED
  BY <1>4, <1>5, <1>6, <1>7, <1>10, <1>11 DEF a, w, x

-----------------------------------------------------------------------------
(* What boot reads.                                                        *)

\* What init_baudrate may see of an environment is a sequence of variables.
LEMMA ViewsSeq ==
  ASSUME NEW d \in Seq(Var), NEW view \in EarlyViews(d)
  PROVE  view \in Seq(Var)
<1>1. CASE d # <<>> /\ view = Tail(d)
  BY <1>1
<1>2. CASE view = <<>>
  BY <1>2
<1>4. CASE view = d
  BY <1>4
<1>3. view = d \/ view = <<>> \/ (d # <<>> /\ view = Tail(d))
  BY Zenon DEF EarlyViews
<1> QED
  BY <1>1, <1>2, <1>3, <1>4

\* getenv returns a value or the default.
LEMMA ValueOfType ==
  ASSUME NEW d \in Seq(Var), NEW n \in Names, NEW default \in Vals
  PROVE  ValueOf(d, n, default) \in Vals
<1>1. CASE IndexOf(d, n) = {}
  BY <1>1 DEF ValueOf
<1>2. CASE IndexOf(d, n) # {}
  <2>1. FirstOf(d, n) \in 1 .. Len(d)
    BY <1>2, FirstOfFinds
  <2>2. d[FirstOf(d, n)] \in Var
    BY <2>1
  <2> QED
    BY <1>2, <2>2 DEF ValueOf, Var
<1> QED
  BY <1>1, <1>2

\* When the CRC matches, what is read from the image is what it was computed
\* over.
LEMMA FlashDataIsCrc ==
  ASSUME CrcMatches, Good(flash[1].crc)
  PROVE  FlashData = flash[1].crc
<1> DEFINE c == flash[1].crc
<1>1. c \in Seq(Var) /\ DOMAIN c = 1 .. Len(c) /\ Len(c) \in 0 .. Sectors
  BY GoodLen DEF Good
<1>2. \A s \in 1 .. Sectors : VarIn(s) = VarAt(c, s)
  BY DEF CrcMatches, Intact, VarIn
<1> HIDE DEF c
<1>3. \A s \in 1 .. Sectors : VarIn(s) = Nil <=> s > Len(c)
  BY <1>1, <1>2, EnvAssumption DEF VarAt
<1> DEFINE End(k) == /\ \A s \in 1 .. k : VarIn(s) # Nil
                     /\ k < Sectors => VarIn(k + 1) = Nil
<1>4. End(Len(c))
  BY <1>1, <1>3, EnvAssumption
<1>5. ASSUME NEW k \in 0 .. Sectors, End(k) PROVE k = Len(c)
  <2>0. Sectors \in Nat /\ Len(c) \in Nat /\ Len(c) <= Sectors /\ k \in Nat /\ k <= Sectors
    BY <1>1, EnvAssumption
  <2>1. ~(k < Len(c))
    <3> SUFFICES ASSUME k < Len(c) PROVE FALSE
      OBVIOUS
    <3>1. k + 1 \in 1 .. Sectors /\ VarIn(k + 1) = Nil
      BY <1>5, <2>0
    <3> QED
      BY <1>3, <2>0, <3>1
  <2>2. ~(k > Len(c))
    <3> SUFFICES ASSUME k > Len(c) PROVE FALSE
      OBVIOUS
    <3>1. k \in 1 .. Sectors /\ k \in 1 .. k
      BY <2>0
    <3> QED
      BY <1>3, <1>5, <2>0, <3>1
  <2> QED
    BY <2>0, <2>1, <2>2
<1>6. FlashLen = Len(c)
  <2>1. FlashLen = CHOOSE k \in 0 .. Sectors : End(k)
    BY DEF FlashLen
  <2> HIDE DEF End
  <2> QED
    BY <1>1, <1>4, <1>5, <2>1
<1>7. FlashData = [s \in 1 .. Len(c) |-> VarIn(s)]
  BY <1>6 DEF FlashData
<1>8. \A s \in 1 .. Len(c) : VarIn(s) = c[s]
  BY <1>1, <1>2, EnvAssumption DEF VarAt
<1> QED
  BY <1>1, <1>7, <1>8 DEF c

-----------------------------------------------------------------------------
(* The inductive invariant.                                                *)

\* Every environment in RAM, remembered, or named by the CRC in flash fits and
\* defines no name twice that the default environment does not.
AllGood ==
    /\ Good(ram.crc) /\ Good(ram.data) /\ Good(saved)
    /\ Good(attempt.crc) /\ Good(attempt.data)
    /\ flash[1] # Torn => Good(flash[1].crc)

\* If the image is accepted, it holds what was saved or loaded last.
Kept == CrcMatches => FlashData = saved

\* While the image is not being replaced it is the one kept.  The CRC is in the
\* sector replaced first: from then on it is that of the environment being
\* saved, also after a power loss.
ImageInv ==
    /\ pc \in {"baud", "spi", "relocate"} => valid = CrcMatches
    /\ pc \in {"baud", "spi", "relocate", "run"} => Kept
    /\ pc = "save" =>
         /\ attempt = ram
         /\ \A s \in 1 .. Sectors : s < sect => flash[s] = Piece(ram, s)
         /\ sect = 1 => IF erased THEN flash[1] = Torn ELSE Kept
    /\ pc = "off" => Kept \/ (flash[1] # Torn /\ flash[1].crc = attempt.crc)

IInv == TypeOK /\ AllGood /\ CrcCoversData /\ ImageInv

\* The default environment, saved and in RAM.
LEMMA InitIInv == Init => IInv
<1> SUFFICES ASSUME Init PROVE IInv
  OBVIOUS
<1>0. Good(Default)
  BY EnvAssumption DEF Good, Single
<1>1. flash[1] = Piece(ram, 1) /\ ram = [crc |-> Default, data |-> Default]
  BY EnvAssumption DEF Init, ImageOf
<1>2. flash[1].crc = Default
  BY <1>1 DEF Piece
<1>a. Default \in Seq(Var) /\ ConfigBaudrate \in Vals
  BY EnvAssumption
<1>b. ram \in EnvRec
  BY <1>1, <1>a DEF EnvRec
<1>c. DOMAIN flash = 1 .. Sectors
  BY DEF Init, ImageOf
<1>d. sect \in 1 .. Sectors /\ cuts \in 0 .. MaxPowerLoss /\ sets \in 0 .. MaxSets
  BY Bounds DEF Init
<1>3. TypeOK
  BY <1>a, <1>b, <1>c, <1>d DEF Init, TypeOK
<1>4. AllGood
  BY <1>0, <1>1, <1>2 DEF Init, AllGood
<1>5. CrcCoversData
  BY DEF Init, CrcCoversData
<1>6. ImageInv
  BY <1>0, <1>2, FlashDataIsCrc DEF Init, ImageInv, Kept
<1> QED
  BY <1>3, <1>4, <1>5, <1>6 DEF IInv

\* A step that leaves the flash alone leaves what can be read from it alone.
LEMMA FlashKept ==
  ASSUME UNCHANGED flash
  PROVE  UNCHANGED <<FlashData, flash[1].crc>> /\ CrcMatches' = CrcMatches
<1>1. \A s : VarIn(s)' = VarIn(s)
  BY DEF VarIn
<1>2. FlashLen' = FlashLen
  BY <1>1 DEF FlashLen
<1> QED
  BY <1>1, <1>2 DEF FlashData, CrcMatches, Intact

\* A boot that found the CRC valid reads a good environment.
LEMMA ValidIsGood ==
  ASSUME AllGood, ImageInv, valid, pc \in {"baud", "relocate"}
  PROVE  Good(flash[1].crc) /\ FlashData = flash[1].crc /\ Good(FlashData)
<1>1. CrcMatches
  BY DEF ImageInv
<1>2. flash[1] # Torn
  BY <1>1, Bounds DEF CrcMatches, Intact
<1>3. Good(flash[1].crc)
  BY <1>2 DEF AllGood
<1> QED
  BY <1>1, <1>3, FlashDataIsCrc

\* env_init notes whether the CRC matches.
LEMMA env_initIInv == IInv /\ env_init => IInv'
<1> SUFFICES ASSUME IInv, env_init PROVE IInv'
  OBVIOUS
<1> USE DEF saving
<1>0. UNCHANGED <<FlashData, flash[1].crc>> /\ CrcMatches' = CrcMatches
  BY FlashKept DEF env_init
<1>1. CASE CrcMatches
  <2>1. flash[1] # Torn /\ FlashData = flash[1].crc /\ Good(flash[1].crc)
    BY <1>1, FlashDataIsCrc, EnvAssumption DEF CrcMatches, Intact, IInv, AllGood
  <2>2. saved' = FlashData /\ valid' = TRUE
    BY <1>1 DEF env_init, FlashEnv
  <2>3. TypeOK'
    BY <2>1, <2>2 DEF IInv, TypeOK, env_init, Good
  <2>4. AllGood'
    BY <2>1, <2>2 DEF IInv, AllGood, env_init
  <2>5. CrcCoversData' /\ ImageInv'
    BY <1>0, <1>1, <2>2 DEF CrcCoversData, ImageInv, Kept, env_init
  <2> QED
    BY <2>3, <2>4, <2>5 DEF IInv
<1>2. CASE ~CrcMatches
  <2>2. saved' = saved /\ valid' = FALSE
    BY <1>2 DEF env_init
  <2>3. TypeOK'
    BY <2>2 DEF IInv, TypeOK, env_init
  <2>4. AllGood'
    BY <2>2 DEF IInv, AllGood, env_init
  <2>5. CrcCoversData' /\ ImageInv'
    BY <1>0, <1>2, <2>2 DEF CrcCoversData, ImageInv, Kept, env_init
  <2> QED
    BY <2>3, <2>4, <2>5 DEF IInv
<1> QED
  BY <1>1, <1>2

\* init_baudrate and spi_init do not touch the environment.
LEMMA EarlyIInv == IInv /\ (init_baudrate \/ spi_init) => IInv'
<1> SUFFICES ASSUME IInv, init_baudrate \/ spi_init PROVE IInv'
  OBVIOUS
<1> USE DEF saving, history
<1>0. UNCHANGED <<FlashData, flash[1].crc>> /\ CrcMatches' = CrcMatches
  BY FlashKept DEF init_baudrate, spi_init
<1>1. TypeOK'
  <2>1. CASE spi_init
    BY <2>1 DEF IInv, TypeOK, spi_init
  <2>2. CASE init_baudrate
    <3>1. PICK view \in IF valid THEN EarlyViews(FlashEnv.data) ELSE {Default} :
             baud' = ValueOf(view, Baudrate, ConfigBaudrate)
      BY <2>2 DEF init_baudrate
    <3>2. view \in Seq(Var)
      <4>1. CASE ~valid
        BY <4>1, <3>1, EnvAssumption
      <4>2. CASE valid
        <5>1. FlashData \in Seq(Var)
          BY <4>2, <2>2, ValidIsGood DEF IInv, init_baudrate, Good
        <5>2. view \in EarlyViews(FlashData)
          BY <4>2, <3>1 DEF FlashEnv
        <5> QED
          BY <5>1, <5>2, ViewsSeq
      <4> QED
        BY <4>1, <4>2
    <3>3. baud' \in Vals
      BY <3>1, <3>2, ValueOfType, EnvAssumption
    <3> QED
      BY <2>2, <3>3 DEF IInv, TypeOK, init_baudrate
  <2> QED
    BY <2>1, <2>2
<1>2. AllGood'
  BY DEF IInv, AllGood, init_baudrate, spi_init
<1>3. CrcCoversData'
  BY DEF CrcCoversData, init_baudrate, spi_init
<1>4. ImageInv'
  BY <1>0 DEF IInv, ImageInv, Kept, init_baudrate, spi_init
<1> QED
  BY <1>1, <1>2, <1>3, <1>4 DEF IInv

\* env_relocate loads what the CRC covers, or the default environment.
LEMMA env_relocateIInv == IInv /\ env_relocate => IInv'
<1> SUFFICES ASSUME IInv, env_relocate PROVE IInv'
  OBVIOUS
<1> USE DEF saving, history
<1>0. UNCHANGED <<FlashData, flash[1].crc>> /\ CrcMatches' = CrcMatches
  BY FlashKept DEF env_relocate
<1>1. PICK d : ram' = [crc |-> d, data |-> d] /\ Good(d)
  <2>1. CASE valid
    <3>1. Good(flash[1].crc) /\ FlashData = flash[1].crc
      BY <2>1, ValidIsGood DEF IInv, env_relocate
    <3> QED
      BY <2>1, <3>1 DEF env_relocate, FlashEnv
  <2>2. CASE ~valid
    BY <2>2, EnvAssumption DEF env_relocate, Good, Single
  <2> QED
    BY <2>1, <2>2
<1>2. ram' \in EnvRec /\ ram'.crc = d /\ ram'.data = d
  BY <1>1 DEF EnvRec, Good
<1>3. TypeOK'
  BY <1>2 DEF IInv, TypeOK, env_relocate
<1>4. AllGood'
  BY <1>1, <1>2 DEF IInv, AllGood, env_relocate
<1>5. CrcCoversData'
  BY <1>2 DEF CrcCoversData, env_relocate
<1>6. ImageInv'
  BY <1>0 DEF IInv, ImageInv, Kept, env_relocate
<1> QED
  BY <1>3, <1>4, <1>5, <1>6 DEF IInv

\* What a setenv command does to the environment in RAM.
LEMMA SetenvShape ==
  ASSUME IInv, do_setenv
  PROVE  \/ UNCHANGED <<ram, baud, overflow>>
         \/ \E n \in Names, d \in Seq(Var) :
              /\ Good(d)
              /\ \A m \in Names \ {n} : ValueOf(d, m, Nil) = ValueOf(ram.data, m, Nil)
              /\ \/ ram' = [crc |-> d, data |-> d] /\ UNCHANGED overflow
                 \/ ram' = [ram EXCEPT !.data = d] /\ overflow' = TRUE
              /\ baud' \in Vals
<1>1. PICK n \in Names, v \in Vals, assigned \in BOOLEAN :
          \/ \E delete \in BOOLEAN : setenvRefused(n, delete, v, assigned)
          \/ setenvDelete(n, v, assigned)
          \/ setenvAppend(n, v, assigned)
          \/ setenvOverflow(n, v, assigned)
  BY DEF do_setenv
<1> DEFINE w == Without(ram.data, n)
           a == Append(w, [name |-> n, val |-> v])
           Others(d) == \A m \in Names \ {n} : ValueOf(d, m, Nil) = ValueOf(ram.data, m, Nil)
<1>2. Good(w) /\ Others(w) /\ (Used(w) + Weight[v] <= EnvSize => Good(a)) /\ Others(a)
  BY EditsGood DEF IInv, AllGood
<1>4. SetBaud(n, v) => baud' \in Vals
  BY DEF SetBaud, IInv, TypeOK
<1>5. CASE \E delete \in BOOLEAN : setenvRefused(n, delete, v, assigned)
  BY <1>5 DEF setenvRefused
<1>6. CASE setenvDelete(n, v, assigned)
  <2>1. /\ w \in Seq(Var) /\ Good(w) /\ Others(w)
        /\ ram' = [crc |-> w, data |-> w] /\ UNCHANGED overflow /\ baud' \in Vals
    BY <1>2, <1>4, <1>6 DEF Good, setenvDelete, env_crc_update
  <2> HIDE DEF w
  <2> QED
    BY <2>1
<1>7. CASE setenvAppend(n, v, assigned)
  <2>1. /\ a \in Seq(Var) /\ Good(a) /\ Others(a)
        /\ ram' = [crc |-> a, data |-> a] /\ UNCHANGED overflow /\ baud' \in Vals
    BY <1>2, <1>4, <1>7 DEF Good, setenvAppend, env_crc_update
  <2> HIDE DEF a
  <2> QED
    BY <2>1
<1>8. CASE setenvOverflow(n, v, assigned)
  <2>1. /\ w \in Seq(Var) /\ Good(w) /\ Others(w)
        /\ ram' = [ram EXCEPT !.data = w] /\ overflow' = TRUE /\ baud' \in Vals
    BY <1>2, <1>4, <1>8 DEF Good, setenvOverflow
  <2> HIDE DEF w
  <2> QED
    BY <2>1
<1> QED
  BY <1>1, <1>5, <1>6, <1>7, <1>8

\* setenv keeps environments good and the CRC up to date, or reports an overflow.
LEMMA do_setenvIInv == IInv /\ do_setenv => IInv'
<1> SUFFICES ASSUME IInv, do_setenv PROVE IInv'
  OBVIOUS
<1> USE DEF saving
<1>0. UNCHANGED <<FlashData, flash[1].crc>> /\ CrcMatches' = CrcMatches
  BY FlashKept DEF do_setenv
<1>1. /\ ram' \in EnvRec /\ Good(ram'.crc) /\ Good(ram'.data)
      /\ overflow' \in BOOLEAN /\ baud' \in Vals
      /\ ~overflow' => ram'.crc = ram'.data
  <2>1. CASE UNCHANGED <<ram, baud, overflow>>
    BY <2>1 DEF IInv, TypeOK, AllGood, CrcCoversData, do_setenv
  <2>2. CASE ~UNCHANGED <<ram, baud, overflow>>
    <3>1. PICK n \in Names, d \in Seq(Var) :
                 /\ Good(d)
                 /\ \/ ram' = [crc |-> d, data |-> d] /\ UNCHANGED overflow
                    \/ ram' = [ram EXCEPT !.data = d] /\ overflow' = TRUE
                 /\ baud' \in Vals
      BY <2>2, SetenvShape
    <3>2. ram \in EnvRec /\ Good(ram.crc) /\ overflow \in BOOLEAN
      BY DEF IInv, TypeOK, AllGood
    <3>3. CASE ram' = [crc |-> d, data |-> d] /\ UNCHANGED overflow
      BY <3>1, <3>2, <3>3 DEF EnvRec, Good
    <3>4. CASE ram' = [ram EXCEPT !.data = d] /\ overflow' = TRUE
      <4>1. ram' \in EnvRec /\ ram'.data = d /\ ram'.crc = ram.crc
        BY <3>1, <3>2, <3>4 DEF EnvRec, Good
      <4> QED
        BY <3>1, <3>2, <3>4, <4>1
    <3> QED
      BY <3>1, <3>3, <3>4
  <2> QED
    BY <2>1, <2>2
<1>2. TypeOK'
  BY <1>1, EnvAssumption DEF IInv, TypeOK, do_setenv
<1>3. AllGood'
  BY <1>1 DEF IInv, AllGood, do_setenv
<1>4. CrcCoversData'
  BY <1>1 DEF CrcCoversData
<1>5. ImageInv'
  BY <1>0 DEF IInv, ImageInv, Kept, do_setenv
<1> QED
  BY <1>2, <1>3, <1>4, <1>5 DEF IInv

\* saveenv starts with the sector of the CRC.
LEMMA saveenvIInv == IInv /\ saveenv => IInv'
<1> SUFFICES ASSUME IInv, saveenv PROVE IInv'
  OBVIOUS
<1>0. UNCHANGED <<FlashData, flash[1].crc>> /\ CrcMatches' = CrcMatches
  BY FlashKept DEF saveenv
<1>1. TypeOK'
  BY Bounds DEF IInv, TypeOK, saveenv
<1>2. AllGood'
  BY DEF IInv, AllGood, saveenv
<1>3. CrcCoversData'
  BY DEF IInv, CrcCoversData, saveenv
<1>4. ImageInv'
  BY <1>0 DEF IInv, ImageInv, Kept, saveenv
<1> QED
  BY <1>1, <1>2, <1>3, <1>4 DEF IInv

\* Erasing the first sector makes the image unreadable; the others come later.
LEMMA EraseSectorIInv == IInv /\ EraseSector => IInv'
<1> SUFFICES ASSUME IInv, EraseSector PROVE IInv'
  OBVIOUS
<1> USE DEF history
<1>0. /\ sect \in 1 .. Sectors /\ DOMAIN flash = 1 .. Sectors /\ Sectors \in Nat \ {0}
      /\ pc = "save" /\ flash' = [flash EXCEPT ![sect] = Torn]
  BY EnvAssumption DEF IInv, TypeOK, EraseSector
<1>1. TypeOK'
  BY <1>0 DEF IInv, TypeOK, EraseSector
<1>2. AllGood'
  BY <1>0 DEF IInv, AllGood, EraseSector
<1>3. CrcCoversData'
  BY DEF IInv, CrcCoversData, EraseSector
<1>4. ImageInv'
  BY <1>0 DEF IInv, ImageInv, EraseSector, Piece, VarAt
<1> QED
  BY <1>1, <1>2, <1>3, <1>4 DEF IInv

\* The last sector completes the image: it is accepted only if its CRC covers
\* its data.
LEMMA ProgramSectorIInv == IInv /\ ProgramSector => IInv'
<1> SUFFICES ASSUME IInv, ProgramSector PROVE IInv'
  OBVIOUS
<1>0. /\ sect \in 1 .. Sectors /\ DOMAIN flash = 1 .. Sectors /\ Sectors \in Nat \ {0}
      /\ pc = "save" /\ flash' = [flash EXCEPT ![sect] = Piece(ram, sect)]
      /\ ram' = ram /\ attempt' = attempt
  BY EnvAssumption DEF IInv, TypeOK, ProgramSector
<1>1. TypeOK'
  <2>1. saved' \in Seq(Var)
    <3>1. saved \in Seq(Var) /\ ram.data \in Seq(Var)
      BY DEF IInv, TypeOK, AllGood, Good
    <3> QED
      BY <3>1 DEF ProgramSector
  <2>2. sect' \in 1 .. Sectors /\ pc' \in {"run", "save"} /\ DOMAIN flash' = 1 .. Sectors
    BY <1>0 DEF ProgramSector
  <2> QED
    BY <2>1, <2>2 DEF IInv, TypeOK, ProgramSector
<1>2. flash'[1].crc = ram.crc
  <2>1. flash'[1] = Piece(ram, 1)
    BY <1>0 DEF IInv, ImageInv
  <2> QED
    BY <2>1 DEF Piece
<1>3. AllGood'
  BY <1>0, <1>2 DEF IInv, AllGood, ProgramSector
<1>4. CrcCoversData'
  BY DEF IInv, CrcCoversData, ProgramSector
<1>5. \A s \in 1 .. Sectors : s <= sect => flash'[s] = Piece(ram, s)
  BY <1>0 DEF IInv, ImageInv
<1>6. CASE sect < Sectors
  <2>1. pc' = "save" /\ sect' = sect + 1 /\ attempt = ram
    BY <1>0, <1>6 DEF ProgramSector, IInv, ImageInv
  <2>2. \A s \in 1 .. Sectors : s < sect' => flash'[s] = Piece(ram, s)
    BY <1>0, <1>5, <2>1
  <2>3. ImageInv'
    BY <1>0, <2>1, <2>2 DEF ImageInv, Piece, VarAt
  <2> QED
    BY <1>1, <1>3, <1>4, <2>3 DEF IInv
<1>7. CASE sect = Sectors
  <2>1. pc' = "run" /\ saved' = ram.data
    BY <1>0, <1>7 DEF ProgramSector
  <2>2. ASSUME CrcMatches' PROVE FlashData' = ram.data
    <3>1. Good(flash'[1].crc) /\ Good(ram.data)
      BY <1>2 DEF IInv, AllGood
    <3>2. FlashData' = ram.crc
      <4>1. (CrcMatches /\ Good(flash[1].crc) => FlashData = flash[1].crc)'
        BY FlashDataIsCrc, PTL
      <4> QED
        BY <1>2, <2>2, <3>1, <4>1
    <3>3. ASSUME NEW s \in 1 .. Sectors PROVE VarAt(ram.data, s) = VarAt(ram.crc, s)
      <4>1. flash'[s] = Piece(ram, s)
        BY <1>0, <1>5, <1>7
      <4>2. flash'[s].var = VarAt(flash'[1].crc, s)
        BY <2>2 DEF CrcMatches, VarAt
      <4>3. flash'[s].var = VarAt(ram.data, s)
        BY <4>1 DEF Piece
      <4> QED
        BY <1>2, <4>2, <4>3
    <3>4. ram.data = ram.crc
      BY <1>2, <3>1, <3>3, SameImage
    <3> QED
      BY <3>2, <3>4
  <2>3. ImageInv'
    BY <2>1, <2>2 DEF ImageInv, Kept
  <2> QED
    BY <1>1, <1>3, <1>4, <2>3 DEF IInv
<1> QED
  BY <1>0, <1>6, <1>7

\* After a power loss the CRC is still the old one, unreadable, or that of the
\* environment that was being saved.
LEMMA PowerOffIInv == IInv /\ PowerOff => IInv'
<1> SUFFICES ASSUME IInv, PowerOff PROVE IInv'
  OBVIOUS
<1> USE DEF saving
<1>0. UNCHANGED <<FlashData, flash[1].crc>> /\ CrcMatches' = CrcMatches
  BY FlashKept DEF PowerOff
<1>a. cuts' \in 0 .. MaxPowerLoss
  BY Bounds DEF IInv, TypeOK, PowerOff
<1>1. TypeOK'
  BY <1>a DEF IInv, TypeOK, PowerOff
<1>2. AllGood'
  BY DEF IInv, AllGood, PowerOff
<1>3. CrcCoversData'
  BY DEF CrcCoversData, PowerOff
<1>4. Kept \/ (flash[1] # Torn /\ flash[1].crc = attempt.crc)
  <2>1. CASE pc # "save"
    BY <2>1 DEF IInv, TypeOK, ImageInv, PowerOff
  <2>2. CASE pc = "save" /\ sect = 1
    BY <2>2, EnvAssumption DEF IInv, ImageInv, Kept, CrcMatches, Intact
  <2>3. CASE pc = "save" /\ sect # 1
    <3>1. flash[1] = Piece(attempt, 1)
      BY <2>3, EnvAssumption DEF IInv, TypeOK, ImageInv
    <3>2. flash[1].crc = attempt.crc
      BY <3>1 DEF Piece
    <3> QED
      BY <3>2, EnvAssumption DEF Kept, CrcMatches, Intact
  <2> QED
    BY <2>1, <2>2, <2>3
<1>5. ImageInv'
  BY <1>0, <1>4 DEF ImageInv, Kept, PowerOff
<1> QED
  BY <1>1, <1>2, <1>3, <1>5 DEF IInv

\* A step that changes nothing preserves the invariant.
LEMMA StutterIInv == IInv /\ UNCHANGED vars => IInv'
<1> SUFFICES ASSUME IInv, UNCHANGED vars PROVE IInv'
  OBVIOUS
<1> USE DEF vars
<1>0. UNCHANGED <<FlashData, flash[1].crc>> /\ CrcMatches' = CrcMatches
  BY FlashKept
<1>1. TypeOK'
  BY DEF IInv, TypeOK
<1>2. AllGood' /\ CrcCoversData'
  BY DEF IInv, AllGood, CrcCoversData
<1>3. ImageInv'
  BY <1>0 DEF IInv, ImageInv, Kept, Piece, VarAt
<1> QED
  BY <1>1, <1>2, <1>3 DEF IInv

\* IInv holds in every reachable state.
LEMMA Inductive == Spec => []IInv
<1>1. IInv /\ [Next]_vars => IInv'
  BY env_initIInv, EarlyIInv, env_relocateIInv, do_setenvIInv, saveenvIInv, EraseSectorIInv,
     ProgramSectorIInv, PowerOffIInv, StutterIInv
  DEF Next, Boot, Save
<1> QED
  BY <1>1, InitIInv, PTL DEF Spec

-----------------------------------------------------------------------------
(* The theorems.                                                           *)

\* The environment code stays within its types; saveenv within the image.
THEOREM TypeCorrect == Spec => []TypeOK
<1>1. IInv => TypeOK
  BY DEF IInv
<1> QED
  BY <1>1, Inductive, PTL

\* At every instant of every saveenv a power loss leaves an image that the next
\* boot refuses, or accepts as a whole: the old environment or the new one.
THEOREM NeverMixed == Spec => []NoMixedEnvironment
<1>1. ASSUME IInv PROVE NoMixedEnvironment
  <2> SUFFICES ASSUME CrcMatches PROVE FlashData \in {saved, attempt.data, attempt.crc}
    BY DEF NoMixedEnvironment, BootAccepts, FlashEnv
  <2>1. flash[1] # Torn /\ FlashData = flash[1].crc
    BY <1>1, FlashDataIsCrc, EnvAssumption DEF IInv, AllGood, CrcMatches, Intact
  <2>2. CASE pc # "save"
    BY <1>1, <2>1, <2>2 DEF IInv, TypeOK, ImageInv, Kept
  <2>3. CASE pc = "save" /\ sect = 1
    BY <1>1, <2>1, <2>3 DEF IInv, ImageInv, Kept
  <2>4. CASE pc = "save" /\ sect # 1
    <3>1. flash[1] = Piece(attempt, 1)
      BY <1>1, <2>4, EnvAssumption DEF IInv, TypeOK, ImageInv
    <3> QED
      BY <2>1, <3>1 DEF Piece
  <2> QED
    BY <2>2, <2>3, <2>4
<1> QED
  BY <1>1, Inductive, PTL

\* Through every sequence of sets, deletions, overflows, saves and reboots the
\* environment keeps within ENV_SIZE, and only names that default_environment
\* defines twice are ever defined twice.
THEOREM AlwaysWellFormed == Spec => []WellFormed
<1>1. IInv => WellFormed
  BY DEF IInv, AllGood, Good, WellFormed
<1> QED
  BY <1>1, Inductive, PTL

\* The CRC in RAM covers the data as long as no overflow was reported.
THEOREM CrcAlwaysCovers == Spec => []CrcCoversData
<1>1. IInv => CrcCoversData
  BY DEF IInv
<1> QED
  BY <1>1, Inductive, PTL

\* A setenv command changes what getenv finds for one name at most, also when it
\* overflows, and whatever names are defined twice.
THEOREM SetsOneVariable == Spec => OneVariableAtATime
<1> DEFINE Same(n) == \A m \in Names \ {n} : ValueOf(ram'.data, m, Nil) = ValueOf(ram.data, m, Nil)
           One == pc = "run" /\ pc' = "run" => \E n \in Names : Same(n)
<1>1. IInv /\ [Next]_vars => [One]_vars
  <2> SUFFICES ASSUME IInv, Next, pc = "run", pc' = "run"
               PROVE  \E n \in Names : Same(n)
    OBVIOUS
  <2>1. do_setenv
    BY DEF Next, Boot, Save, env_init, init_baudrate, spi_init, env_relocate, saveenv,
           EraseSector, ProgramSector, PowerOff
  <2>2. CASE UNCHANGED <<ram, baud, overflow>>
    BY <2>2, EnvAssumption
  <2>3. CASE ~UNCHANGED <<ram, baud, overflow>>
    <3>1. PICK n \in Names, d \in Seq(Var) :
                 /\ \A m \in Names \ {n} : ValueOf(d, m, Nil) = ValueOf(ram.data, m, Nil)
                 /\ \/ ram' = [crc |-> d, data |-> d]
                    \/ ram' = [ram EXCEPT !.data = d]
      BY <2>1, <2>3, SetenvShape
    <3>2. ram'.data = d
      BY <3>1 DEF IInv, TypeOK, EnvRec
    <3> QED
      BY <3>1, <3>2
  <2> QED
    BY <2>2, <2>3
<1> QED
  BY <1>1, Inductive, PTL DEF Spec, OneVariableAtATime

\* A setenv that is carried out takes effect: getenv finds the value set, and
\* nothing after a deletion, for every name default_environment does not define
\* twice.
THEOREM SetenvEffective == Spec => SetenvTakesEffect
<1>1. IInv /\ [Next]_vars => [Effective(Single)]_vars
  <2> SUFFICES ASSUME IInv, NEW n \in Single, NEW v \in Vals, NEW assigned \in BOOLEAN
               PROVE  /\ setenvDelete(n, v, assigned) => ValueOf(ram'.data, n, Nil) = Nil
                      /\ setenvAppend(n, v, assigned) => ValueOf(ram'.data, n, Nil) = v
    BY DEF Effective
  <2> DEFINE w == Without(ram.data, n)
             a == Append(w, [name |-> n, val |-> v])
  <2>1. ValueOf(w, n, Nil) = Nil /\ ValueOf(a, n, Nil) = v
    BY EditsGood DEF IInv, AllGood, Single
  <2>2. setenvDelete(n, v, assigned) => ram'.data = w
    BY DEF setenvDelete, env_crc_update
  <2>3. setenvAppend(n, v, assigned) => ram'.data = a
    BY DEF setenvAppend, env_crc_update
  <2> HIDE DEF w, a
  <2> QED
    BY <2>1, <2>2, <2>3
<1> QED
  BY <1>1, Inductive, PTL DEF Spec, SetenvTakesEffect
=============================================================================
