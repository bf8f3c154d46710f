---------------------------- MODULE PacketTotals ----------------------------
(***************************************************************************)
(* How the total of a set of packets changes when a packet enters or       *)
(* leaves it, and the sum of a function's values when one of them changes. *)
(* Total and SumOf count units, so no induction over a set is needed.      *)
(***************************************************************************)
EXTENDS Packets, FiniteSetTheorems, FunctionTheorems, TLAPS

(* What packet p contributes to the total in token t. *)
Share(p, t) == IF p.token = t THEN p.amount ELSE 0

FiniteUnits(S) == \A t \in Token : IsFiniteSet(Units(S, t))

(* One packet carries as many units as its amount says.                    *)
LEMMA UnitsOfOne ==
    ASSUME NEW p, NEW n \in Nat
    PROVE  /\ IsFiniteSet({p} \X (1 .. n))
           /\ Cardinality({p} \X (1 .. n)) = n
  <1> DEFINE f == [i \in 1 .. n |-> <<p, i>>]
  <1>1. f \in Bijection(1 .. n, {p} \X (1 .. n))
    <2>1. f \in [1 .. n -> {p} \X (1 .. n)]
      OBVIOUS
    <2>2. \A x \in {p} \X (1 .. n) : \E i \in 1 .. n : f[i] = x
      OBVIOUS
    <2>3. \A i, j \in 1 .. n : f[i] = f[j] => i = j
      OBVIOUS
    <2> QED
      BY <2>1, <2>2, <2>3, Fun_IsBij
  <1>2. ExistsBijection(1 .. n, {p} \X (1 .. n))
    BY <1>1 DEF ExistsBijection
  <1>3. 1 \in Int /\ n \in Int
    OBVIOUS
  <1>4. IsFiniteSet(1 .. n)
    BY <1>3, FS_Interval
  <1> QED
    BY <1>2, <1>4, FS_Bijection, FS_CountingElements

(* An empty set of packets carries nothing.                                *)
LEMMA TotalEmpty == FiniteUnits({}) /\ \A t \in Token : Total({}, t) = 0
  <1>1. \A t \in Token : Units({}, t) = {}
    BY DEF Units
  <1> QED
    BY <1>1, FS_EmptySet DEF FiniteUnits, Total

LEMMA TotalNat ==
    ASSUME NEW S, FiniteUnits(S), NEW t \in Token
    PROVE  Total(S, t) \in Nat
  BY FS_CardinalityType DEF FiniteUnits, Total

(* A packet that enters the set adds its amount, in its own token.         *)
LEMMA TotalAdd ==
    ASSUME NEW S, FiniteUnits(S), NEW p \in Packet, p \notin S
    PROVE  /\ FiniteUnits(S \cup {p})
           /\ \A t \in Token : Total(S \cup {p}, t) = Total(S, t) + Share(p, t)
  <1> SUFFICES ASSUME NEW t \in Token
               PROVE  /\ IsFiniteSet(Units(S \cup {p}, t))
                      /\ Total(S \cup {p}, t) = Total(S, t) + Share(p, t)
    BY DEF FiniteUnits
  <1> DEFINE new == {p} \X (1 .. p.amount)
  <1>1. IsFiniteSet(Units(S, t)) /\ Cardinality(Units(S, t)) \in Nat
    BY FS_CardinalityType DEF FiniteUnits
  <1>2. p.amount \in Nat
    BY DEF Packet
  <1>3. IsFiniteSet(new) /\ Cardinality(new) = p.amount
    BY <1>2, UnitsOfOne
  <1>4. CASE p.token = t
    <2>1. Units(S \cup {p}, t) = Units(S, t) \cup new
      BY <1>4 DEF Units
    <2>2. Units(S, t) \cap new = {}
      BY DEF Units
    <2>3. /\ IsFiniteSet(Units(S, t) \cup new)
          /\ Cardinality(Units(S, t) \cup new) = Cardinality(Units(S, t)) + p.amount
                                                  - Cardinality(Units(S, t) \cap new)
      BY <1>1, <1>3, FS_Union
    <2>4. Cardinality(Units(S, t) \cap new) = 0
      BY <2>2, FS_EmptySet
    <2>5. Share(p, t) = p.amount
      BY <1>4 DEF Share
    <2>6. Cardinality(Units(S, t) \cup new) = Cardinality(Units(S, t)) + p.amount
      BY <1>1, <1>2, <2>3, <2>4
    <2> QED
      BY <2>1, <2>3, <2>5, <2>6 DEF Total
  <1>5. CASE p.token # t
    <2>1. Units(S \cup {p}, t) = Units(S, t)
      BY <1>5 DEF Units
    <2> QED
      BY <1>1, <1>5, <2>1 DEF Total, Share
  <1> QED
    BY <1>4, <1>5

(* A packet that leaves the set takes its amount with it.                  *)
LEMMA TotalRemove ==
    ASSUME NEW S, FiniteUnits(S), NEW p \in Packet, p \in S
    PROVE  /\ FiniteUnits(S \ {p})
           /\ \A t \in Token : Total(S, t) = Total(S \ {p}, t) + Share(p, t)
  <1>1. FiniteUnits(S \ {p})
    <2> SUFFICES ASSUME NEW t \in Token PROVE IsFiniteSet(Units(S \ {p}, t))
      BY DEF FiniteUnits
    <2>1. Units(S \ {p}, t) \subseteq Units(S, t)
      BY DEF Units
    <2> QED
      BY <2>1, FS_Subset DEF FiniteUnits
  <1>2. S = (S \ {p}) \cup {p} /\ p \notin S \ {p}
    OBVIOUS
  <1>3. \A t \in Token : Total((S \ {p}) \cup {p}, t) = Total(S \ {p}, t) + Share(p, t)
    BY <1>1, <1>2, TotalAdd
  <1> QED
    BY <1>1, <1>2, <1>3

-----------------------------------------------------------------------------
(* The sum of a function that is zero everywhere is zero.                  *)
LEMMA SumZero ==
    ASSUME NEW f, \A x \in DOMAIN f : f[x] = 0
    PROVE  IsFiniteSet(UnitsOf(f)) /\ SumOf(f) = 0
  <1>1. UnitsOf(f) = {}
    BY DEF UnitsOf
  <1> QED
    BY <1>1, FS_EmptySet DEF SumOf

(* One value and the sum of the others make up the sum.                    *)
LEMMA SumSplit ==
    ASSUME NEW D, NEW f \in [D -> Nat], NEW a \in D,
           IsFiniteSet(UNION {{x} \X (1 .. f[x]) : x \in D \ {a}})
    PROVE  /\ IsFiniteSet(UnitsOf(f))
           /\ SumOf(f) = Cardinality(UNION {{x} \X (1 .. f[x]) : x \in D \ {a}}) + f[a]
  <1> DEFINE rest == UNION {{x} \X (1 .. f[x]) : x \in D \ {a}}
             one == {a} \X (1 .. f[a])
  <1>1. f[a] \in Nat
    OBVIOUS
  <1>2. IsFiniteSet(one) /\ Cardinality(one) = f[a]
    BY <1>1, UnitsOfOne
  <1>3. UnitsOf(f) = rest \cup one
    BY DEF UnitsOf
  <1>4. rest \cap one = {}
    OBVIOUS
  <1>5. Cardinality(rest \cap one) = 0
    BY <1>4, FS_EmptySet
  <1>6. /\ IsFiniteSet(rest \cup one)
        /\ Cardinality(rest \cup one) = Cardinality(rest) + Cardinality(one)
                                          - Cardinality(rest \cap one)
    BY <1>2, FS_Union
  <1>7. Cardinality(rest) \in Nat
    BY FS_CardinalityType
  <1>8. Cardinality(rest \cup one) = Cardinality(rest) + f[a]
    BY <1>1, <1>2, <1>5, <1>6, <1>7
  <1> QED
    BY <1>3, <1>6, <1>8 DEF SumOf

(* When one value changes, the sum changes by as much.                     *)
LEMMA SumChange ==
    ASSUME NEW D, NEW f \in [D -> Nat], NEW g \in [D -> Nat], NEW a \in D,
           \A x \in D \ {a} : g[x] = f[x],
           IsFiniteSet(UnitsOf(f))
    PROVE  /\ IsFiniteSet(UnitsOf(g))
           /\ SumOf(f) \in Nat /\ SumOf(g) \in Nat
           /\ f[a] <= SumOf(f)
           /\ SumOf(g) + f[a] = SumOf(f) + g[a]
  <1> DEFINE restF == UNION {{x} \X (1 .. f[x]) : x \in D \ {a}}
             restG == UNION {{x} \X (1 .. g[x]) : x \in D \ {a}}
  <1>1. restG = restF
    OBVIOUS
  <1>2. restF \subseteq UnitsOf(f)
    BY DEF UnitsOf
  <1>3. IsFiniteSet(restF)
    BY <1>2, FS_Subset
  <1>4. Cardinality(restF) \in Nat
    BY <1>3, FS_CardinalityType
  <1>5. SumOf(f) = Cardinality(restF) + f[a]
    BY <1>3, SumSplit
  <1>6. IsFiniteSet(UnitsOf(g)) /\ SumOf(g) = Cardinality(restG) + g[a]
    BY <1>1, <1>3, SumSplit
  <1>7. f[a] \in Nat /\ g[a] \in Nat
    OBVIOUS
  <1>8. SumOf(g) = Cardinality(restF) + g[a]
    BY <1>1, <1>6
  <1> HIDE DEF restF, restG
  <1> QED
    BY <1>4, <1>5, <1>6, <1>7, <1>8

(* A new value adds itself to the sum.                                     *)
LEMMA SumExtend ==
    ASSUME NEW D, NEW f \in [D -> Nat], NEW a, a \notin D,
           NEW E, E = D \cup {a}, NEW g \in [E -> Nat],
           \A x \in D : g[x] = f[x],
           IsFiniteSet(UnitsOf(f))
    PROVE  /\ IsFiniteSet(UnitsOf(g))
           /\ SumOf(f) \in Nat
           /\ SumOf(g) = SumOf(f) + g[a]
  <1> DEFINE rest == UNION {{x} \X (1 .. g[x]) : x \in E \ {a}}
  <1>1. rest = UnitsOf(f)
    <2>1. E \ {a} = D
      OBVIOUS
    <2>2. UNION {{x} \X (1 .. g[x]) : x \in D} = UNION {{x} \X (1 .. f[x]) : x \in D}
      OBVIOUS
    <2> QED
      BY <2>1, <2>2 DEF UnitsOf
  <1>2. a \in E /\ IsFiniteSet(rest)
    BY <1>1
  <1>3. IsFiniteSet(UnitsOf(g)) /\ SumOf(g) = Cardinality(rest) + g[a]
    BY <1>2, SumSplit
  <1> QED
    BY <1>1, <1>3, FS_CardinalityType DEF SumOf

(* g is f with n moved from its value at a to its value at b.              *)
Shifted(f, g, a, b, n) ==
    \A x \in DOMAIN f : g[x] = f[x] - (IF x = a THEN n ELSE 0) + (IF x = b THEN n ELSE 0)

(* Moving n from one value to another leaves the sum as it is.             *)
LEMMA SumMove ==
    ASSUME NEW D, NEW f \in [D -> Nat], NEW g \in [D -> Nat], NEW a \in D, NEW b \in D,
           NEW n \in Nat, n <= f[a],
           Shifted(f, g, a, b, n),
           IsFiniteSet(UnitsOf(f))
    PROVE  IsFiniteSet(UnitsOf(g)) /\ SumOf(g) = SumOf(f)
  <1>1. PICK m \in [D -> Nat] : m[a] = f[a] - n /\ \A x \in D \ {a} : m[x] = f[x]
    <2>1. /\ [f EXCEPT ![a] = @ - n] \in [D -> Nat]
          /\ [f EXCEPT ![a] = @ - n][a] = f[a] - n
          /\ \A x \in D \ {a} : [f EXCEPT ![a] = @ - n][x] = f[x]
      OBVIOUS
    <2> QED
      BY <2>1
  <1>2. /\ IsFiniteSet(UnitsOf(m)) /\ SumOf(f) \in Nat /\ SumOf(m) \in Nat
        /\ SumOf(m) + f[a] = SumOf(f) + m[a]
    BY <1>1, SumChange
  <1>3. g[b] = m[b] + n /\ \A x \in D \ {b} : g[x] = m[x]
    BY <1>1 DEF Shifted
  <1>4. /\ IsFiniteSet(UnitsOf(g)) /\ SumOf(g) \in Nat
        /\ SumOf(g) + m[b] = SumOf(m) + g[b]
    BY <1>2, <1>3, SumChange
  <1>5. f[a] \in Nat /\ m[a] \in Nat /\ m[b] \in Nat /\ g[b] \in Nat
    OBVIOUS
  <1> QED
    BY <1>1, <1>2, <1>3, <1>4, <1>5
=============================================================================
