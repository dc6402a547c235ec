------------------------- MODULE Sponsorship_proofs -------------------------
(***************************************************************************)
(* Proofs about Sponsorship: the books of the paymaster, the fees of a     *)
(* relay, the budgets of a sponsor and the promise of the preflight.  The  *)
(* argument: every state an exception may put back was in order itself,    *)
(* had reserved what it had paid and promised, and lies in one line with   *)
(* the others of its transaction, along which the counters only grow.  Of  *)
(* amounts, fees, policies and the depth of nested operations nothing is   *)
(* assumed but their types, and that sponsors are finitely many.           *)
(***************************************************************************)
EXTENDS Sponsorship, FiniteSetTheorems, WellFoundedInduction, TLAPS

(* Nothing is both missing and there.                                       *)
MissingAssumption ==
  /\ None \notin Policy
  /\ \A p, f, b : None # [sender |-> p, fee |-> f, saved |-> b]

(* What an exception puts back.                                             *)
Books ==
  [deposit : [Sponsor -> Nat],
   policy : [Sponsor -> [Scope -> Policy \cup {None}]],
   counters : [Sponsor -> [Scope -> Nat]] \X [Sponsor -> [Scope -> Nat]]
                \X [Sponsor -> [Scope -> Nat]] \X [Sponsor -> [Scope -> [Time -> Nat]]],
   gas : [Principal \cup {Paymaster} -> Nat],
   reservation : [hash : Nat, reserved : 0 .. VmMax],
   paid : Nat]

SponsoredFrame ==
  [account : Account, op : Operation, sponsor : Sponsor, amount : Nat \ {0}, saved : Books]

(* One sponsor's counters of one scope at time n: they hold what was paid,  *)
(* and nothing has been paid after the window, or in the future.            *)
Counted(n, day, reset, total, payments) ==
  /\ reset <= n
  /\ total = SumOver(payments, Time)
  /\ day = SumOver(payments, reset .. MaxTime)
  /\ \A t \in Time : t > n \/ t >= reset + Day => payments[t] = 0

InOrder(n, b) ==
  /\ b \in Books
  /\ b.gas[Paymaster] = SumOver(b.deposit, Sponsor)
  /\ \A s \in Sponsor, k \in Scope :
       Counted(n, b.counters[1][s][k], b.counters[2][s][k], b.counters[3][s][k],
               b.counters[4][s][k])

(* Within a transaction the counters of a scope only grow, unless they were *)
(* cleared; then everything they hold was paid today.                       *)
Grown(n, day, reset, total, day2, reset2, total2) ==
  \/ total2 = IF n >= reset2 + Day THEN 0 ELSE day2
  \/ total2 >= total /\ (total2 = total => day2 = day /\ reset2 = reset)

Since(n, b, c) ==
  /\ b.paid <= c.paid
  /\ \A s \in Sponsor, k \in Scope :
       Grown(n, b.counters[1][s][k], b.counters[2][s][k], b.counters[3][s][k],
             c.counters[1][s][k], c.counters[2][s][k], c.counters[3][s][k])

(* What the oldest n operations in progress were promised.                  *)
Promised(fs, n) == SumOver([i \in 1 .. n |-> fs[i].amount], 1 .. n)

ReservedIn(b, hash) ==
  IF b.reservation.hash = hash THEN b.reservation.reserved ELSE 0

(* What was paid and promised was reserved, and that is within the fee.     *)
Reserves(b, hash, fee, promised) ==
  /\ b.reservation.hash <= hash
  /\ b.paid + promised <= ReservedIn(b, hash)
  /\ fee > 0 => ReservedIn(b, hash) <= fee

Before(n, hash, t) ==
  /\ InOrder(n, t.saved) /\ t.saved.paid = 0 /\ t.saved.reservation.hash < hash

Nested(n, hash, t, fs, b) ==
  /\ \A i \in 1 .. Len(fs) :
       /\ InOrder(n, fs[i].saved)
       /\ Reserves(fs[i].saved, hash, t.fee, Promised(fs, i - 1))
       /\ Since(n, t.saved, fs[i].saved) /\ Since(n, fs[i].saved, b)
  /\ \A i, j \in 1 .. Len(fs) : i < j => Since(n, fs[i].saved, fs[j].saved)
  /\ Reserves(b, hash, t.fee, Promised(fs, Len(fs)))
  /\ Since(n, t.saved, b)

Inv ==
  /\ now \in Time /\ txCount \in Nat /\ InOrder(now, Snapshot)
  /\ frames \in Seq(SponsoredFrame)
  /\ tx = None => paid = 0 /\ frames = <<>> /\ reservation.hash <= txCount
  /\ tx # None =>
       /\ tx \in [sender : Principal, fee : Nat, saved : Books]
       /\ Before(now, txCount, tx) /\ Nested(now, txCount, tx, frames, Snapshot)

-----------------------------------------------------------------------------
(* Sums *)

(* Induction on the naturals, with a set in the place of a predicate.       *)
LEMMA SetInduction ==
  ASSUME NEW N, 0 \in N, \A n \in Nat : n \in N => n + 1 \in N
  PROVE  Nat \subseteq N
<1> SUFFICES ASSUME Nat \ N # {} PROVE FALSE
  OBVIOUS
<1>1. PICK m \in Nat \ N : \A k \in Nat \ N : <<k, m>> \notin OpToRel(<, Nat)
  BY NatLessThanWellFounded, WFMin
<1>2. \A k \in Nat \ N : ~(k < m)
  BY <1>1 DEF OpToRel
<1>3. m # 0 /\ m - 1 \in Nat /\ m - 1 < m /\ (m - 1) + 1 = m
  OBVIOUS
<1> QED BY <1>2, <1>3

-----------------------------------------------------------------------------
(* The function by which the fold of the community modules adds up f.       *)
Some(s) == CHOOSE x \in s : TRUE
Adds(f, g, T) ==
  g = [s \in T |-> IF s = {} THEN 0 ELSE f[Some(s)] + g[s \ {Some(s)}]]
Adder(f, S) == CHOOSE g : Adds(f, g, SUBSET S)

LEMMA SumOverAdder ==
  ASSUME NEW f, NEW S
  PROVE  SumOver(f, S) = Adder(f, S)[S]
BY DEF SumOver, MapThenSumSet, MapThenFoldSet, Adds, Adder, Some

LEMMA SomeElement ==
  ASSUME NEW s, s # {}
  PROVE  Some(s) \in s
BY DEF Some

(* There is such a function: it can be built up from the smaller sets.      *)
LEMMA AdderExists ==
  ASSUME NEW f, NEW S, IsFiniteSet(S)
  PROVE  Adds(f, Adder(f, S), SUBSET S)
<1> DEFINE Upto(n) == {s \in SUBSET S : Cardinality(s) <= n}
           N == {n \in Nat : \E g : Adds(f, g, Upto(n))}
<1>1. 0 \in N
  <2>1. Adds(f, [s \in Upto(0) |-> 0], Upto(0))
    <3>1. \A s \in Upto(0) : s = {}
      BY FS_Subset, FS_CardinalityType, FS_EmptySet
    <3> HIDE DEF Upto
    <3> QED BY <3>1 DEF Adds
  <2> QED BY <2>1
<1>2. ASSUME NEW n \in Nat, n \in N PROVE n + 1 \in N
  <2>1. PICK g : Adds(f, g, Upto(n))
    BY <1>2
  <2> DEFINE h == [s \in Upto(n + 1) |->
                     IF s \in Upto(n) THEN g[s] ELSE f[Some(s)] + g[s \ {Some(s)}]]
  <2>2. /\ \A s \in Upto(n) : s \in Upto(n + 1)
        /\ \A s \in Upto(n + 1) : s # {} => s \ {Some(s)} \in Upto(n)
        /\ {} \in Upto(n)
    <3>1. \A s \in SUBSET S : IsFiniteSet(s) /\ Cardinality(s) \in Nat
      BY FS_Subset, FS_CardinalityType
    <3>2. ASSUME NEW s \in SUBSET S, s # {}
          PROVE  Cardinality(s \ {Some(s)}) = Cardinality(s) - 1
      BY <3>1, <3>2, SomeElement, FS_RemoveElement
    <3> QED BY <3>1, <3>2, FS_EmptySet
  <2>3. Adds(f, h, Upto(n + 1))
    <3> SUFFICES ASSUME NEW s \in Upto(n + 1)
                 PROVE  h[s] = IF s = {} THEN 0 ELSE f[Some(s)] + h[s \ {Some(s)}]
      BY DEF Adds
    <3>1. CASE s \in Upto(n)
      <4> HIDE DEF Upto
      <4>1. g[s] = IF s = {} THEN 0 ELSE f[Some(s)] + g[s \ {Some(s)}]
        BY <2>1, <3>1 DEF Adds
      <4> QED BY <4>1, <2>2, <3>1
    <3>2. CASE s \notin Upto(n)
      <4> HIDE DEF Upto
      <4> QED BY <2>2, <3>2
    <3> QED BY <3>1, <3>2
  <2> HIDE DEF Upto, h
  <2> QED BY <2>3
<1>3. Cardinality(S) \in N
  <2> HIDE DEF N
  <2> QED BY <1>1, <1>2, SetInduction, FS_CardinalityType
<1>4. Upto(Cardinality(S)) = SUBSET S
  BY FS_Subset
<1> HIDE DEF Upto
<1> QED BY <1>3, <1>4 DEF Adder

(* Induction on the subsets of a finite set.                                *)
LEMMA SubsetInduction ==
  ASSUME NEW S, IsFiniteSet(S), NEW G,
         \A s \in SUBSET S : (\A t \in SUBSET s : t # s => t \in G) => s \in G
  PROVE  SUBSET S \subseteq G
<1> SUFFICES ASSUME (SUBSET S) \ G # {} PROVE FALSE
  OBVIOUS
<1>1. IsWellFoundedOn(StrictSubsetOrdering(S), SUBSET S)
  <2>1. IsWellFoundedOn(StrictSubsetOrdering(S), FiniteSubsetsOf(S))
    BY FS_StrictSubsetOrderingWellFounded
  <2>2. FiniteSubsetsOf(S) = SUBSET S
    BY FS_FiniteSubsetsOfFinite
  <2> QED BY <2>1, <2>2
<1> DEFINE T == (SUBSET S) \ G
<1>2. T \subseteq SUBSET S /\ T # {}
  OBVIOUS
<1> HIDE DEF T
<1>3. PICK s \in T : \A t \in T : <<t, s>> \notin StrictSubsetOrdering(S)
  BY <1>1, <1>2, WFMin
<1>4. \A t \in SUBSET s : t # s => t \in G
  BY <1>3 DEF T, StrictSubsetOrdering
<1> QED BY <1>3, <1>4 DEF T

(* The order in which elements are chosen does not matter.                  *)
LEMMA AdderRemoves ==
  ASSUME NEW f, NEW S, IsFiniteSet(S), \A x \in S : f[x] \in Nat, NEW s \in SUBSET S
  PROVE  /\ Adder(f, S)[s] \in Nat
         /\ \A x \in s : Adder(f, S)[s] = f[x] + Adder(f, S)[s \ {x}]
<1>a. PICK g : g = Adder(f, S)
  OBVIOUS
<1>b. Adds(f, g, SUBSET S)
  BY <1>a, AdderExists
<1> DEFINE G == {t \in SUBSET S : g[t] \in Nat /\ \A x \in t : g[t] = f[x] + g[t \ {x}]}
<1>1. \A t \in SUBSET S :
        g[t] = IF t = {} THEN 0 ELSE f[Some(t)] + g[t \ {Some(t)}]
  BY <1>b DEF Adds
<1>2. ASSUME NEW w \in SUBSET S, \A t \in SUBSET w : t # w => t \in G
      PROVE  w \in G
  <2>1. CASE w = {}
    <3>1. g[w] = 0
      BY <1>1, <2>1
    <3> QED BY <2>1, <3>1
  <2>2. CASE w # {}
    <3>1. PICK y \in w : y = Some(w)
      BY <2>2, SomeElement
    <3>2. g[w] = f[y] + g[w \ {y}]
      BY <1>1, <2>2, <3>1
    <3>3. ASSUME NEW x \in w PROVE w \ {x} \in G
      BY <1>2
    <3>4. ASSUME NEW x \in w PROVE g[w] = f[x] + g[w \ {x}]
      <4>1. CASE x = y
        BY <4>1, <3>2
      <4>2. CASE x # y
        <5>1. g[w \ {y}] = f[x] + g[(w \ {y}) \ {x}]
          BY <3>1, <3>3, <4>2
        <5>2. g[w \ {x}] = f[y] + g[(w \ {x}) \ {y}]
          BY <3>1, <3>3, <4>2
        <5>3. (w \ {x}) \ {y} = (w \ {y}) \ {x}
          OBVIOUS
        <5>4. (w \ {y}) \ {x} \in SUBSET w /\ (w \ {y}) \ {x} # w
          OBVIOUS
        <5>5. g[(w \ {y}) \ {x}] \in Nat
          BY <1>2, <5>4
        <5>6. f[x] \in Nat /\ f[y] \in Nat
          OBVIOUS
        <5>7. PICK r : r = g[(w \ {y}) \ {x}]
          OBVIOUS
        <5>8. r \in Nat /\ g[w \ {x}] = f[y] + r /\ g[w \ {y}] = f[x] + r
          BY <5>1, <5>2, <5>3, <5>5, <5>7
        <5> HIDE DEF G
        <5> QED BY <5>6, <5>8, <3>2
      <4> QED BY <4>1, <4>2
    <3>5. g[w] \in Nat
      <4>1. g[w \ {y}] \in Nat /\ f[y] \in Nat
        BY <3>3
      <4> HIDE DEF G
      <4> QED BY <4>1, <3>2
    <3> QED BY <3>4, <3>5
  <2> QED BY <2>1, <2>2
<1>3. SUBSET S \subseteq G
  <2> HIDE DEF G
  <2> QED BY <1>2, SubsetInduction
<1> QED BY <1>a, <1>3

(* Functions that agree on a set have one sum over it, whatever larger set  *)
(* the fold comes from.                                                     *)
LEMMA AddersAgree ==
  ASSUME NEW f, NEW S, IsFiniteSet(S), NEW h, NEW T, IsFiniteSet(T),
         NEW R, R \subseteq S, R \subseteq T, \A x \in R : f[x] = h[x]
  PROVE  Adder(f, S)[R] = Adder(h, T)[R]
<1>a. PICK g : g = Adder(f, S)
  OBVIOUS
<1>b. PICK k : k = Adder(h, T)
  OBVIOUS
<1>c. Adds(f, g, SUBSET S) /\ Adds(h, k, SUBSET T)
  BY <1>a, <1>b, AdderExists
<1> DEFINE G == {s \in SUBSET R : g[s] = k[s]}
<1>1. \A s \in SUBSET R :
        /\ g[s] = IF s = {} THEN 0 ELSE f[Some(s)] + g[s \ {Some(s)}]
        /\ k[s] = IF s = {} THEN 0 ELSE h[Some(s)] + k[s \ {Some(s)}]
  <2>1. \A s \in SUBSET R : s \in SUBSET S /\ s \in SUBSET T
    OBVIOUS
  <2> QED BY <1>c, <2>1 DEF Adds
<1>2. ASSUME NEW s \in SUBSET R, \A t \in SUBSET s : t # s => t \in G
      PROVE  s \in G
  <2>1. CASE s = {}
    BY <1>1, <2>1
  <2>2. CASE s # {}
    <3>1. Some(s) \in s
      BY <2>2, SomeElement
    <3>2. g[s \ {Some(s)}] = k[s \ {Some(s)}]
      BY <1>2, <3>1
    <3> QED BY <1>1, <2>2, <3>1, <3>2
  <2> QED BY <2>1, <2>2
<1>3. IsFiniteSet(R)
  BY FS_Subset
<1>4. SUBSET R \subseteq G
  <2> HIDE DEF G
  <2> QED BY <1>2, <1>3, SubsetInduction
<1> QED BY <1>a, <1>b, <1>4

-----------------------------------------------------------------------------
(* A sum depends on its terms only.                                         *)
LEMMA SumSame ==
  ASSUME NEW f, NEW h, NEW S, IsFiniteSet(S), \A x \in S : f[x] = h[x]
  PROVE  SumOver(f, S) = SumOver(h, S)
<1>1. Adder(f, S)[S] = Adder(h, S)[S]
  BY AddersAgree
<1> QED BY <1>1, SumOverAdder

(* Sums of naturals are naturals.                                           *)
LEMMA SumNat ==
  ASSUME NEW f, NEW S, IsFiniteSet(S), \A x \in S : f[x] \in Nat
  PROVE  SumOver(f, S) \in Nat
BY AdderExists, AdderRemoves, SumOverAdder

(* One term can be taken out.                                               *)
LEMMA SumSplit ==
  ASSUME NEW f, NEW S, IsFiniteSet(S), \A x \in S : f[x] \in Nat, NEW x \in S
  PROVE  SumOver(f, S) = f[x] + SumOver(f, S \ {x})
<1>1. IsFiniteSet(S \ {x})
  BY FS_RemoveElement
<1>2. Adder(f, S)[S \ {x}] = Adder(f, S \ {x})[S \ {x}]
  BY <1>1, AddersAgree
<1>3. Adder(f, S)[S] = f[x] + Adder(f, S)[S \ {x}]
  <2>1. S \in SUBSET S
    OBVIOUS
  <2>2. \A y \in S : Adder(f, S)[S] = f[y] + Adder(f, S)[S \ {y}]
    BY <2>1, AdderRemoves
  <2> QED BY <2>2
<1> QED BY <1>2, <1>3, SumOverAdder

(* Only one term changes.                                                   *)
LEMMA SumChange ==
  ASSUME NEW f, NEW h, NEW S, IsFiniteSet(S), NEW x \in S,
         \A y \in S : f[y] \in Nat /\ h[y] \in Nat,
         \A y \in S \ {x} : f[y] = h[y]
  PROVE  SumOver(h, S) + f[x] = SumOver(f, S) + h[x]
<1>1. IsFiniteSet(S \ {x})
  BY FS_RemoveElement
<1>2. SumOver(f, S \ {x}) = SumOver(h, S \ {x})
  BY <1>1, SumSame
<1>3. SumOver(f, S \ {x}) \in Nat
  BY <1>1, SumNat
<1> QED BY <1>2, <1>3, SumSplit

(* Nothing adds up to nothing.                                              *)
LEMMA SumZero ==
  ASSUME NEW f, NEW S, IsFiniteSet(S), \A x \in S : f[x] = 0
  PROVE  SumOver(f, S) = 0
<1> DEFINE G == {s \in SUBSET S : SumOver(f, s) = 0}
<1>1. ASSUME NEW s \in SUBSET S, \A t \in SUBSET s : t # s => t \in G
      PROVE  s \in G
  <2>1. CASE s = {}
    <3>1. PICK g : g = Adder(f, {})
      OBVIOUS
    <3>2. Adds(f, g, SUBSET {})
      BY <3>1, AdderExists, FS_EmptySet
    <3>3. SumOver(f, {}) = 0
      BY <3>1, <3>2, SumOverAdder DEF Adds
    <3> QED BY <2>1, <3>3
  <2>2. CASE s # {}
    <3>1. PICK x \in s : TRUE
      BY <2>2
    <3>2. SumOver(f, s \ {x}) = 0
      BY <1>1, <3>1
    <3>3. IsFiniteSet(s) /\ \A y \in s : f[y] \in Nat
      BY FS_Subset
    <3> QED BY <3>1, <3>2, <3>3, SumSplit
  <2> QED BY <2>1, <2>2
<1>2. SUBSET S \subseteq G
  <2> HIDE DEF G
  <2> QED BY <1>1, SubsetInduction
<1> QED BY <1>2

(* The sum over a part that holds all there is.                             *)
LEMMA SumPart ==
  ASSUME NEW f, NEW S, IsFiniteSet(S), \A x \in S : f[x] \in Nat,
         NEW R, R \subseteq S, \A x \in S \ R : f[x] = 0
  PROVE  SumOver(f, S) = SumOver(f, R)
<1> DEFINE G == {s \in SUBSET S : SumOver(f, s) = SumOver(f, s \cap R)}
<1>1. ASSUME NEW s \in SUBSET S, \A t \in SUBSET s : t # s => t \in G
      PROVE  s \in G
  <2>1. CASE s \subseteq R
    <3>1. s \cap R = s
      BY <2>1
    <3> QED BY <3>1
  <2>2. CASE ~(s \subseteq R)
    <3>1. PICK x \in s : x \notin R
      BY <2>2
    <3>2. (s \ {x}) \cap R = s \cap R
      BY <3>1
    <3>3. SumOver(f, s \ {x}) = SumOver(f, s \cap R)
      <4>1. s \ {x} \in G
        BY <1>1, <3>1
      <4> QED BY <3>2, <4>1
    <3>4. IsFiniteSet(s) /\ \A y \in s : f[y] \in Nat
      BY FS_Subset
    <3>5. SumOver(f, s) = f[x] + SumOver(f, s \ {x})
      BY <3>1, <3>4, SumSplit
    <3>6. IsFiniteSet(s \cap R) /\ SumOver(f, s \cap R) \in Nat /\ f[x] = 0
      BY <3>1, <3>4, FS_Subset, SumNat
    <3>7. SumOver(f, s) = SumOver(f, s \cap R)
      <4> HIDE DEF G
      <4> QED BY <3>3, <3>5, <3>6
    <3> QED BY <3>7
  <2> QED BY <2>1, <2>2
<1>2. SUBSET S \subseteq G
  <2> HIDE DEF G
  <2> QED BY <1>1, SubsetInduction
<1>3. SumOver(f, S) = SumOver(f, S \cap R) /\ S \cap R = R
  BY <1>2
<1> QED BY <1>3

(* A part is no more than the whole.                                        *)
LEMMA SumLess ==
  ASSUME NEW f, NEW S, IsFiniteSet(S), \A x \in S : f[x] \in Nat,
         NEW R, R \subseteq S
  PROVE  SumOver(f, R) <= SumOver(f, S)
<1> DEFINE G == {s \in SUBSET S : SumOver(f, s \cap R) <= SumOver(f, s)}
<1>1. ASSUME NEW s \in SUBSET S, \A t \in SUBSET s : t # s => t \in G
      PROVE  s \in G
  <2>0. IsFiniteSet(s) /\ \A y \in s : f[y] \in Nat
    BY FS_Subset
  <2>1. CASE s \subseteq R
    <3>1. s \cap R = s
      BY <2>1
    <3>2. SumOver(f, s) \in Nat
      BY <2>0, SumNat
    <3> QED BY <3>1, <3>2
  <2>2. CASE ~(s \subseteq R)
    <3>1. PICK x \in s : x \notin R
      BY <2>2
    <3>2. (s \ {x}) \cap R = s \cap R
      BY <3>1
    <3>3. SumOver(f, s \cap R) <= SumOver(f, s \ {x})
      <4>1. s \ {x} \in G
        BY <1>1, <3>1
      <4> QED BY <3>2, <4>1
    <3>4. SumOver(f, s) = f[x] + SumOver(f, s \ {x})
      BY <2>0, <3>1, SumSplit
    <3>5. /\ SumOver(f, s \cap R) \in Nat /\ SumOver(f, s \ {x}) \in Nat
          /\ f[x] \in Nat
      <4>1. IsFiniteSet(s \cap R) /\ IsFiniteSet(s \ {x})
        BY <2>0, FS_Subset
      <4> QED BY <2>0, <4>1, <3>1, SumNat
    <3>6. SumOver(f, s \cap R) <= SumOver(f, s)
      <4> HIDE DEF G
      <4> QED BY <3>3, <3>4, <3>5
    <3> QED BY <3>6
  <2> QED BY <2>1, <2>2
<1>2. SUBSET S \subseteq G
  <2> HIDE DEF G
  <2> QED BY <1>1, SubsetInduction
<1>3. SumOver(f, S \cap R) <= SumOver(f, S) /\ S \cap R = R
  BY <1>2
<1> QED BY <1>3

-----------------------------------------------------------------------------
(* What operations were promised *)

LEMMA PromisedNat ==
  ASSUME NEW fs, NEW n \in Nat, \A i \in 1 .. n : fs[i].amount \in Nat
  PROVE  Promised(fs, n) \in Nat
<1> DEFINE f == [i \in 1 .. n |-> fs[i].amount]
<1>1. IsFiniteSet(1 .. n) /\ \A i \in 1 .. n : f[i] \in Nat
  BY FS_Interval
<1> HIDE DEF f
<1>2. SumOver(f, 1 .. n) \in Nat
  BY <1>1, SumNat
<1> QED BY <1>2 DEF Promised, f

LEMMA PromisedNothing ==
  ASSUME NEW fs
  PROVE  Promised(fs, 0) = 0
<1> DEFINE f == [i \in 1 .. 0 |-> fs[i].amount]
<1>1. IsFiniteSet(1 .. 0) /\ \A i \in 1 .. 0 : f[i] = 0
  BY FS_Interval
<1> HIDE DEF f
<1>2. SumOver(f, 1 .. 0) = 0
  BY <1>1, SumZero
<1> QED BY <1>2 DEF Promised, f

LEMMA PromisedSame ==
  ASSUME NEW fs, NEW gs, NEW n \in Nat, \A i \in 1 .. n : fs[i] = gs[i]
  PROVE  Promised(fs, n) = Promised(gs, n)
<1>1. [i \in 1 .. n |-> fs[i].amount] = [i \in 1 .. n |-> gs[i].amount]
  OBVIOUS
<1> QED BY <1>1 DEF Promised

LEMMA PromisedNext ==
  ASSUME NEW fs, NEW n \in Nat, \A i \in 1 .. n + 1 : fs[i].amount \in Nat
  PROVE  Promised(fs, n + 1) = Promised(fs, n) + fs[n + 1].amount
<1> DEFINE f == [i \in 1 .. n |-> fs[i].amount]
           g == [i \in 1 .. n + 1 |-> fs[i].amount]
<1>1. PICK S : S = 1 .. n
  OBVIOUS
<1>2. PICK T : T = 1 .. n + 1
  OBVIOUS
<1>3. IsFiniteSet(S) /\ IsFiniteSet(T) /\ n + 1 \in T /\ T \ {n + 1} = S
  <2>1. IsFiniteSet(1 .. n) /\ IsFiniteSet(1 .. n + 1)
    BY FS_Interval
  <2>2. \A i : i \in T \ {n + 1} <=> i \in S
    BY <1>1, <1>2
  <2> QED BY <1>1, <1>2, <2>1, <2>2
<1>4. /\ \A i \in T : g[i] \in Nat
      /\ \A i \in S : f[i] = g[i] /\ f[i] \in Nat
      /\ g[n + 1] = fs[n + 1].amount
  BY <1>1, <1>2
<1> HIDE DEF f, g
<1>5. SumOver(g, T) = g[n + 1] + SumOver(g, S)
  BY <1>3, <1>4, SumSplit
<1>6. SumOver(f, S) = SumOver(g, S) /\ SumOver(f, S) \in Nat
  BY <1>3, <1>4, SumSame, SumNat
<1>7. g[n + 1] \in Nat
  BY <1>3, <1>4
<1>8. SumOver(g, T) = SumOver(f, S) + g[n + 1]
  BY ONLY <1>5, <1>6, <1>7
<1> QED BY <1>1, <1>2, <1>4, <1>8 DEF Promised, f, g

-----------------------------------------------------------------------------
(* The counters of one scope *)

LEMMA CountedNothing ==
  ASSUME NEW n \in Nat
  PROVE  Counted(n, 0, 0, 0, [t \in Time |-> 0])
<1>1. PICK f : f = [t \in Time |-> 0]
  OBVIOUS
<1>2. IsFiniteSet(Time) /\ Time = 0 .. MaxTime /\ \A t \in Time : f[t] = 0
  BY <1>1, SponsorshipAssumption, FS_Interval DEF Time
<1>3. SumOver(f, Time) = 0
  BY <1>2, SumZero
<1> QED BY <1>1, <1>2, <1>3 DEF Counted

LEMMA CountedLater ==
  ASSUME NEW n \in Nat, NEW day, NEW reset \in Nat, NEW total, NEW payments,
         Counted(n, day, reset, total, payments)
  PROVE  Counted(n + 1, day, reset, total, payments)
BY DEF Counted, Time

(* A payment at time n opens a window or goes into the present one.         *)
LEMMA CountedPayment ==
  ASSUME NEW n \in Time, NEW day \in Nat, NEW reset \in Nat, NEW total \in Nat,
         NEW payments \in [Time -> Nat], Counted(n, day, reset, total, payments),
         NEW amount \in Nat
  PROVE  Counted(n, (IF n >= reset + Day THEN 0 ELSE day) + amount,
                 IF n >= reset + Day THEN n ELSE reset, total + amount,
                 [payments EXCEPT ![n] = @ + amount])
<1> DEFINE q == [payments EXCEPT ![n] = @ + amount]
<1>0. MaxTime \in Nat /\ Day \in Nat \ {0} /\ n \in Nat /\ n <= MaxTime
  BY SponsorshipAssumption DEF Time
<1>1. /\ q \in [Time -> Nat] /\ q[n] = payments[n] + amount
      /\ \A t \in Time \ {n} : q[t] = payments[t]
  OBVIOUS
<1>2. /\ \A t \in Time : payments[t] \in Nat /\ q[t] \in Nat
      /\ payments[n] \in Nat
  BY <1>1
<1> HIDE DEF q
<1>3. IsFiniteSet(Time)
  BY <1>0, FS_Interval DEF Time
<1>4. SumOver(q, Time) + payments[n] = SumOver(payments, Time) + q[n]
  BY <1>1, <1>2, <1>3, SumChange
<1>5. SumOver(q, Time) \in Nat /\ SumOver(payments, Time) \in Nat
  BY <1>2, <1>3, SumNat
<1>6. SumOver(q, Time) = total + amount
  BY <1>1, <1>2, <1>4, <1>5, SMTT(90) DEF Counted
<1>7. CASE n >= reset + Day
  <2> DEFINE S == n .. MaxTime
  <2>1. IsFiniteSet(S) /\ S \subseteq Time /\ n \in S
    BY <1>0, FS_Interval DEF Time
  <2>2. \A t \in S : payments[t] = 0
    BY <1>0, <1>7, <2>1 DEF Counted, Time
  <2> HIDE DEF S
  <2>3. SumOver(payments, S) = 0
    BY <2>1, <2>2, SumZero
  <2>4. /\ \A t \in S : payments[t] \in Nat /\ q[t] \in Nat
        /\ \A t \in S \ {n} : payments[t] = q[t]
    BY <1>1, <1>2, <2>1
  <2>5. SumOver(q, S) + payments[n] = SumOver(payments, S) + q[n]
    BY <2>1, <2>4, SumChange
  <2>6. SumOver(q, S) \in Nat /\ payments[n] = 0
    BY <2>1, <2>2, <2>4, SumNat
  <2>7. SumOver(q, S) = amount
    BY <1>1, <2>3, <2>5, <2>6
  <2>8. \A t \in Time : t > n \/ t >= n + Day => q[t] = 0
    <3> SUFFICES ASSUME NEW t \in Time, t > n \/ t >= n + Day PROVE q[t] = 0
      OBVIOUS
    <3>1. t > n /\ t # n
      BY <1>0 DEF Time
    <3> QED BY <1>1, <3>1 DEF Counted
  <2>9. SumOver(q, n .. MaxTime) = amount
    BY <2>7 DEF S
  <2> QED BY <1>0, <1>6, <1>7, <2>8, <2>9 DEF Counted, q
<1>8. CASE ~(n >= reset + Day)
  <2> DEFINE S == reset .. MaxTime
  <2>1. IsFiniteSet(S) /\ S \subseteq Time /\ n \in S
    BY <1>0, FS_Interval DEF Time, Counted
  <2> HIDE DEF S
  <2>2. /\ \A t \in S : payments[t] \in Nat /\ q[t] \in Nat
        /\ \A t \in S \ {n} : payments[t] = q[t]
    BY <1>1, <1>2, <2>1
  <2>3. SumOver(q, S) + payments[n] = SumOver(payments, S) + q[n]
    BY <2>1, <2>2, SumChange
  <2>4. SumOver(q, S) \in Nat /\ SumOver(payments, S) \in Nat
    BY <2>1, <2>2, SumNat
  <2>5. SumOver(payments, S) = day
    BY DEF Counted, S
  <2>6. SumOver(q, S) = day + amount
    BY <1>1, <1>2, <2>3, <2>4, <2>5
  <2>7. \A t \in Time : t > n \/ t >= reset + Day => q[t] = 0
    <3> SUFFICES ASSUME NEW t \in Time, t > n \/ t >= reset + Day PROVE q[t] = 0
      OBVIOUS
    <3>1. t # n
      BY <1>0, <1>8 DEF Time
    <3> QED BY <1>1, <3>1 DEF Counted
  <2>8. SumOver(q, reset .. MaxTime) = day + amount
    BY <2>6 DEF S
  <2> QED BY <1>0, <1>6, <1>8, <2>7, <2>8 DEF Counted, q
<1> QED BY <1>7, <1>8

(* What was paid since the window opened was paid by now, and is no more    *)
(* than what was paid in total.                                             *)
LEMMA CountedWithin ==
  ASSUME NEW n \in Time, NEW day, NEW reset \in Nat, NEW total,
         NEW payments \in [Time -> Nat], Counted(n, day, reset, total, payments)
  PROVE  /\ SumOver(payments, Time) = total /\ SumOver(payments, reset .. n) = day
         /\ day <= total
<1>0. MaxTime \in Nat /\ n \in Nat /\ n <= MaxTime
  BY SponsorshipAssumption DEF Time
<1>1. PICK S : S = reset .. MaxTime
  OBVIOUS
<1>2. PICK R : R = reset .. n
  OBVIOUS
<1>3. IsFiniteSet(S) /\ R \subseteq S /\ S \subseteq Time /\ IsFiniteSet(Time)
  <2>1. reset \in Int /\ MaxTime \in Int /\ 0 \in Int
    BY <1>0
  <2>2. IsFiniteSet(reset .. MaxTime) /\ IsFiniteSet(0 .. MaxTime)
    BY ONLY <2>1, FS_Interval
  <2> QED BY <1>0, <1>1, <1>2, <2>2 DEF Time
<1>4. \A t \in S \ R : payments[t] = 0
  BY <1>0, <1>1, <1>2, <1>3 DEF Counted
<1>5. (\A t \in S : payments[t] \in Nat) /\ (\A t \in Time : payments[t] \in Nat)
  BY <1>3
<1>6. SumOver(payments, S) = SumOver(payments, R)
  BY <1>3, <1>4, <1>5, SumPart
<1>7. SumOver(payments, S) <= SumOver(payments, Time)
  BY <1>3, <1>5, SumLess
<1> QED BY <1>1, <1>2, <1>6, <1>7 DEF Counted

-----------------------------------------------------------------------------
(* What happens within a transaction *)

LEMMA GrownPayment ==
  ASSUME NEW n \in Nat, NEW day, NEW reset, NEW total \in Nat,
         NEW day2 \in Nat, NEW reset2 \in Nat, NEW total2 \in Nat,
         Grown(n, day, reset, total, day2, reset2, total2), NEW amount \in Nat \ {0}
  PROVE  Grown(n, day, reset, total,
               (IF n >= reset2 + Day THEN 0 ELSE day2) + amount,
               IF n >= reset2 + Day THEN n ELSE reset2, total2 + amount)
BY SponsorshipAssumption DEF Grown

(* Every state of a transaction follows itself.                             *)
LEMMA SinceItself ==
  ASSUME NEW n, NEW b \in Books
  PROVE  Since(n, b, b)
<1>1. b.paid \in Nat
  BY DEF Books
<1>2. /\ b.counters[3] \in [Sponsor -> [Scope -> Nat]]
  BY DEF Books
<1>3. \A s \in Sponsor, k \in Scope : b.counters[3][s][k] \in Nat
  BY <1>2
<1> QED BY <1>1, <1>3 DEF Since, Grown

LEMMA FramesTyped ==
  ASSUME NEW fs \in Seq(SponsoredFrame), NEW i \in 1 .. Len(fs)
  PROVE  /\ fs[i] \in SponsoredFrame
         /\ fs[i].account \in Account /\ fs[i].sponsor \in Sponsor
         /\ fs[i].amount \in Nat /\ fs[i].amount > 0 /\ fs[i].saved \in Books
<1>1. fs[i] \in SponsoredFrame
  OBVIOUS
<1>2. PICK f \in SponsoredFrame : f = fs[i]
  BY <1>1
<1>3. /\ f.account \in Account /\ f.sponsor \in Sponsor
      /\ f.amount \in Nat /\ f.amount > 0 /\ f.saved \in Books
  BY DEF SponsoredFrame
<1> QED BY <1>2, <1>3

(* What an operation does to what is paid and counted, and to the frames:   *)
(* nothing, or as follows.                                                  *)
LEMMA NestedSame ==
  ASSUME NEW n, NEW hash, NEW t, NEW fs \in Seq(SponsoredFrame), NEW b, NEW c,
         t.saved \in Books, Nested(n, hash, t, fs, b),
         c.paid = b.paid, c.reservation = b.reservation,
         \A e \in Books : Since(n, e, b) => Since(n, e, c)
  PROVE  Nested(n, hash, t, fs, c)
<1>1. \A i \in 1 .. Len(fs) : fs[i].saved \in Books
  BY FramesTyped
<1>2. Reserves(c, hash, t.fee, Promised(fs, Len(fs)))
  BY DEF Nested, Reserves, ReservedIn
<1> QED BY <1>1, <1>2 DEF Nested

(* An operation begins.                                                     *)
LEMMA NestedMore ==
  ASSUME NEW n, NEW hash \in Nat, NEW t, NEW fs \in Seq(SponsoredFrame), NEW b \in Books,
         InOrder(n, b), t.saved \in Books, t.fee \in Nat, Nested(n, hash, t, fs, b),
         NEW f \in SponsoredFrame, f.saved = b,
         NEW c \in Books, c.paid = b.paid, c.counters = b.counters,
         c.reservation = [hash |-> hash, reserved |-> ReservedIn(b, hash) + f.amount],
         t.fee > 0 => ReservedIn(b, hash) + f.amount <= t.fee
  PROVE  Nested(n, hash, t, Append(fs, f), c)
<1>1. PICK gs : gs = Append(fs, f)
  OBVIOUS
<1>2. PICK m : m = Len(fs)
  OBVIOUS
<1>3. /\ m \in Nat /\ Len(gs) = m + 1 /\ gs[m + 1] = f
      /\ \A i \in 1 .. m : gs[i] = fs[i]
  BY <1>1, <1>2
<1>4. \A i \in 1 .. m : fs[i].amount \in Nat
  BY <1>2, FramesTyped
<1>5. f.amount \in Nat
  BY DEF SponsoredFrame
<1>6. \A i \in 0 .. m : Promised(gs, i) = Promised(fs, i)
  <2> SUFFICES ASSUME NEW i \in 0 .. m PROVE Promised(gs, i) = Promised(fs, i)
    OBVIOUS
  <2>1. i \in Nat /\ \A j \in 1 .. i : gs[j] = fs[j]
    BY <1>3
  <2> QED BY <2>1, PromisedSame
<1>7. Promised(gs, m + 1) = Promised(fs, m) + f.amount /\ Promised(fs, m) \in Nat
  <2>1. \A i \in 1 .. m + 1 : gs[i].amount \in Nat
    BY <1>3, <1>4, <1>5
  <2>2. Promised(gs, m + 1) = Promised(gs, m) + gs[m + 1].amount
    BY <1>3, <2>1, PromisedNext
  <2>3. Promised(fs, m) \in Nat
    BY <1>3, <1>4, PromisedNat
  <2> QED BY <1>3, <1>6, <2>2, <2>3
<1>8. \A e : Since(n, e, b) => Since(n, e, c)
  BY DEF Since
<1>9. Reserves(b, hash, t.fee, Promised(fs, m)) /\ Since(n, t.saved, b)
  BY <1>2 DEF Nested
<1>10. b.paid \in Nat /\ ReservedIn(b, hash) \in Nat
  BY DEF Books, ReservedIn
<1>11. Reserves(c, hash, t.fee, Promised(gs, m + 1))
  <2>1. c.reservation.hash = hash /\ ReservedIn(c, hash) = ReservedIn(b, hash) + f.amount
    BY DEF ReservedIn
  <2>2. b.paid + Promised(fs, m) <= ReservedIn(b, hash)
    BY <1>9 DEF Reserves
  <2>3. c.paid + Promised(gs, m + 1) <= ReservedIn(c, hash)
    BY <1>5, <1>7, <1>10, <2>1, <2>2
  <2> QED BY <2>1, <2>3 DEF Reserves
<1>12. \A i \in 1 .. m + 1 :
         /\ InOrder(n, gs[i].saved)
         /\ Reserves(gs[i].saved, hash, t.fee, Promised(gs, i - 1))
         /\ Since(n, t.saved, gs[i].saved) /\ Since(n, gs[i].saved, c)
  <2> SUFFICES ASSUME NEW i \in 1 .. m + 1
               PROVE  /\ InOrder(n, gs[i].saved)
                      /\ Reserves(gs[i].saved, hash, t.fee, Promised(gs, i - 1))
                      /\ Since(n, t.saved, gs[i].saved) /\ Since(n, gs[i].saved, c)
    OBVIOUS
  <2>1. CASE i \in 1 .. m
    <3>1. gs[i] = fs[i] /\ Promised(gs, i - 1) = Promised(fs, i - 1)
      BY <1>3, <1>6, <2>1
    <3>2. /\ InOrder(n, fs[i].saved)
          /\ Reserves(fs[i].saved, hash, t.fee, Promised(fs, i - 1))
          /\ Since(n, t.saved, fs[i].saved) /\ Since(n, fs[i].saved, b)
      BY <1>2, <2>1 DEF Nested
    <3> QED BY <1>8, <3>1, <3>2
  <2>2. CASE i = m + 1
    <3>1. gs[i].saved = b /\ i - 1 = m /\ Promised(gs, i - 1) = Promised(fs, m)
      BY <1>3, <1>6, <2>2, SMTT(60)
    <3>2. Since(n, b, c)
      BY <1>8, SinceItself
    <3> QED BY <1>9, <3>1, <3>2
  <2> QED BY <1>3, <2>1, <2>2
<1>13. \A i, j \in 1 .. m + 1 : i < j => Since(n, gs[i].saved, gs[j].saved)
  <2> SUFFICES ASSUME NEW i \in 1 .. m + 1, NEW j \in 1 .. m + 1, i < j
               PROVE  Since(n, gs[i].saved, gs[j].saved)
    OBVIOUS
  <2>1. i \in 1 .. m /\ gs[i] = fs[i]
    BY <1>3
  <2>2. CASE j = m + 1
    BY <1>2, <1>3, <2>1, <2>2 DEF Nested
  <2>3. CASE j \in 1 .. m
    <3>1. gs[j] = fs[j]
      BY <1>3, <2>3
    <3> QED BY <1>2, <2>1, <2>3, <3>1 DEF Nested
  <2> QED BY <1>3, <2>2, <2>3
<1> QED BY <1>1, <1>3, <1>8, <1>9, <1>11, <1>12, <1>13 DEF Nested

(* What is left when only the oldest m operations remain.                   *)
LEMMA NestedFewer ==
  ASSUME NEW n, NEW hash, NEW t, NEW fs \in Seq(SponsoredFrame), NEW b, NEW c,
         Nested(n, hash, t, fs, b), NEW m \in 0 .. Len(fs),
         NEW gs, gs = SubSeq(fs, 1, m),
         Reserves(c, hash, t.fee, Promised(fs, m)), Since(n, t.saved, c),
         \A i \in 1 .. m : Since(n, fs[i].saved, c)
  PROVE  gs \in Seq(SponsoredFrame) /\ Nested(n, hash, t, gs, c)
<1>1. /\ gs \in Seq(SponsoredFrame) /\ Len(gs) = m
      /\ \A i \in 1 .. m : gs[i] = fs[i] /\ i \in 1 .. Len(fs)
  OBVIOUS
<1>2. \A i \in 0 .. m : Promised(gs, i) = Promised(fs, i)
  <2> SUFFICES ASSUME NEW i \in 0 .. m PROVE Promised(gs, i) = Promised(fs, i)
    OBVIOUS
  <2>1. i \in Nat /\ \A j \in 1 .. i : gs[j] = fs[j]
    BY <1>1
  <2> QED BY <2>1, PromisedSame
<1>3. \A i \in 1 .. m : i - 1 \in 0 .. m /\ Promised(gs, i - 1) = Promised(fs, i - 1)
  BY <1>2
<1> QED BY <1>1, <1>2, <1>3 DEF Nested

-----------------------------------------------------------------------------
(* The present state *)

LEMMA InOrderMade ==
  ASSUME NEW d, NEW p, NEW day, NEW reset, NEW total, NEW payments, NEW g, NEW r, NEW x,
         NEW b, b = [deposit |-> d, policy |-> p, counters |-> <<day, reset, total, payments>>,
                     gas |-> g, reservation |-> r, paid |-> x],
         NEW n
  PROVE  InOrder(n, b) <=>
           /\ b \in Books
           /\ g[Paymaster] = SumOver(d, Sponsor)
           /\ \A s \in Sponsor, k \in Scope :
                Counted(n, day[s][k], reset[s][k], total[s][k], payments[s][k])
BY DEF InOrder

(* The same of the variables.                                               *)
Typed ==
  /\ deposit \in [Sponsor -> Nat] /\ policy \in [Sponsor -> [Scope -> Policy \cup {None}]]
  /\ dailySpent \in [Sponsor -> [Scope -> Nat]] /\ dailyReset \in [Sponsor -> [Scope -> Nat]]
  /\ totalSpent \in [Sponsor -> [Scope -> Nat]]
  /\ spent \in [Sponsor -> [Scope -> [Time -> Nat]]]
  /\ gas \in [Principal \cup {Paymaster} -> Nat]
  /\ reservation \in [hash : Nat, reserved : 0 .. VmMax] /\ paid \in Nat

AllCounted ==
  \A s \in Sponsor, k \in Scope :
    Counted(now, dailySpent[s][k], dailyReset[s][k], totalSpent[s][k], spent[s][k])

LEMMA OrderedNow ==
  InOrder(now, Snapshot) <=> Typed /\ DepositsBacked /\ AllCounted
<1>1. Snapshot \in Books <=> Typed
  BY DEF Books, Snapshot, counters, Typed
<1>2. InOrder(now, Snapshot) <=>
        /\ Snapshot \in Books
        /\ gas[Paymaster] = SumOver(deposit, Sponsor)
        /\ AllCounted
  BY InOrderMade DEF Snapshot, counters, AllCounted
<1> QED BY <1>1, <1>2 DEF DepositsBacked

LEMMA OrderedNext ==
  InOrder(now, Snapshot)' <=> Typed' /\ DepositsBacked' /\ AllCounted'
<1>1. Snapshot' \in Books <=> Typed'
  BY DEF Books, Snapshot, counters, Typed
<1>2. InOrder(now, Snapshot)' <=>
        /\ Snapshot' \in Books
        /\ gas'[Paymaster] = SumOver(deposit', Sponsor)
        /\ AllCounted'
  BY InOrderMade DEF Snapshot, counters, AllCounted
<1> QED BY <1>1, <1>2 DEF DepositsBacked

(* A call within a transaction that neither begins nor ends an operation.   *)
LEMMA Advance ==
  ASSUME Inv, tx # None, UNCHANGED <<now, coreVars, tx, txCount>>,
         InOrder(now, Snapshot)',
         \A e \in Books : Since(now, e, Snapshot) => Since(now, e, Snapshot)'
  PROVE  Inv'
<1>1. PICK b : b = Snapshot
  OBVIOUS
<1>2. PICK c : c = Snapshot'
  OBVIOUS
<1>3. PICK n : n = now
  OBVIOUS
<1>4. c.paid = b.paid /\ c.reservation = b.reservation
  BY <1>1, <1>2 DEF Snapshot, coreVars
<1>5. \A e \in Books : Since(n, e, b) => Since(n, e, c)
  BY <1>1, <1>2, <1>3
<1>6. /\ frames \in Seq(SponsoredFrame) /\ tx.saved \in Books
      /\ Before(n, txCount, tx) /\ Nested(n, txCount, tx, frames, b)
  BY <1>1, <1>3 DEF Inv
<1>7. Nested(n, txCount, tx, frames, c)
  BY <1>4, <1>5, <1>6, NestedSame
<1> QED BY <1>2, <1>3, <1>6, <1>7 DEF Inv, coreVars

-----------------------------------------------------------------------------
(* Deposits and policies *)

LEMMA GasMoves ==
  ASSUME NEW P, NEW g \in [P -> Nat], NEW p \in P, NEW q \in P, p # q, NEW x \in Nat,
         g[p] >= x, NEW h, h = [g EXCEPT ![p] = @ - x, ![q] = @ + x]
  PROVE  h \in [P -> Nat] /\ h[p] = g[p] - x /\ h[q] = g[q] + x
<1>1. g[p] \in Nat /\ g[q] \in Nat /\ g[p] - x \in Nat /\ g[q] + x \in Nat
  OBVIOUS
<1> QED BY <1>1

(* One sponsor's deposit changes by as much as the paymaster's GAS.         *)
LEMMA MoneyMoves ==
  ASSUME Inv, NEW s \in Sponsor, NEW x \in Nat,
         deposit' = [deposit EXCEPT ![s] = x], gas' \in [Principal \cup {Paymaster} -> Nat],
         gas'[Paymaster] + deposit[s] = gas[Paymaster] + x
  PROVE  deposit' \in [Sponsor -> Nat] /\ DepositsBacked'
<1>1. Typed /\ DepositsBacked
  BY OrderedNow DEF Inv
<1>2. PICK d : d = deposit
  OBVIOUS
<1>3. PICK e : e = deposit'
  OBVIOUS
<1>4. /\ d \in [Sponsor -> Nat] /\ e \in [Sponsor -> Nat] /\ e[s] = x
      /\ \A y \in Sponsor \ {s} : d[y] = e[y]
  BY <1>1, <1>2, <1>3 DEF Typed
<1>5. IsFiniteSet(Sponsor) /\ \A y \in Sponsor : d[y] \in Nat /\ e[y] \in Nat
  BY <1>4, SponsorshipAssumption
<1>6. SumOver(e, Sponsor) + d[s] = SumOver(d, Sponsor) + e[s]
  BY <1>4, <1>5, SumChange
<1>7. SumOver(e, Sponsor) \in Nat /\ SumOver(d, Sponsor) \in Nat
  BY <1>5, SumNat
<1>8. gas'[Paymaster] \in Nat /\ gas[Paymaster] = SumOver(d, Sponsor)
  BY <1>1, <1>2 DEF DepositsBacked
<1>9. gas'[Paymaster] + d[s] = SumOver(d, Sponsor) + e[s]
  BY <1>2, <1>4, <1>8
<1>10. gas'[Paymaster] = SumOver(e, Sponsor)
  BY <1>4, <1>5, <1>6, <1>7, <1>8, <1>9
<1> QED BY <1>3, <1>4, <1>10 DEF DepositsBacked

LEMMA DepositStep ==
  ASSUME Inv, NEW from \in Sponsor, NEW x \in Amount, OnNEP17Payment(from, x)
  PROVE  Inv'
<1>1. Typed /\ DepositsBacked /\ AllCounted
  BY OrderedNow DEF Inv
<1>2. /\ from \in Principal \cup {Paymaster} /\ from # Paymaster
      /\ Paymaster \in Principal \cup {Paymaster} /\ x \in Nat
  BY SponsorshipAssumption DEF Principal
<1>3. /\ gas' \in [Principal \cup {Paymaster} -> Nat]
      /\ gas'[Paymaster] = gas[Paymaster] + x
  <2>1. gas \in [Principal \cup {Paymaster} -> Nat]
    BY <1>1 DEF Typed
  <2>2. gas[from] >= x /\ gas' = [gas EXCEPT ![from] = @ - x, ![Paymaster] = @ + x]
    BY DEF OnNEP17Payment, Transfer
  <2> QED BY <1>2, <2>1, <2>2, GasMoves
<1>4. /\ deposit[from] \in Nat /\ gas[Paymaster] \in Nat
      /\ deposit' = [deposit EXCEPT ![from] = deposit[from] + x]
  BY <1>1, <1>2 DEF Typed, OnNEP17Payment
<1>5. deposit[from] + x \in Nat /\ gas'[Paymaster] + deposit[from] = gas[Paymaster] + (deposit[from] + x)
  BY <1>2, <1>3, <1>4
<1>6. deposit' \in [Sponsor -> Nat] /\ DepositsBacked'
  BY <1>3, <1>4, <1>5, MoneyMoves
<1>7. /\ tx # None /\ UNCHANGED <<now, policy, coreVars, tx, txCount>>
      /\ UNCHANGED <<dailySpent, dailyReset, totalSpent, spent>>
  BY DEF OnNEP17Payment, counters, Idle
<1>8. Typed' /\ AllCounted'
  BY <1>1, <1>3, <1>6, <1>7 DEF Typed, AllCounted, coreVars
<1>9. \A e \in Books : Since(now, e, Snapshot) => Since(now, e, Snapshot)'
  BY <1>7 DEF Since, Snapshot, counters, coreVars
<1> QED BY <1>6, <1>7, <1>8, <1>9, OrderedNext, Advance

LEMMA WithdrawStep ==
  ASSUME Inv, NEW x \in Amount, WithdrawDeposit(x)
  PROVE  Inv'
<1>1. Typed /\ DepositsBacked /\ AllCounted
  BY OrderedNow DEF Inv
<1>2. PICK s : s = tx.sender
  OBVIOUS
<1>3. /\ s \in Sponsor /\ s \in Principal \cup {Paymaster} /\ s # Paymaster
      /\ Paymaster \in Principal \cup {Paymaster} /\ x \in Nat /\ x <= deposit[s]
      /\ gas[Paymaster] >= x
  BY <1>2, SponsorshipAssumption DEF Principal, WithdrawDeposit, Transfer
<1>4. /\ gas' \in [Principal \cup {Paymaster} -> Nat]
      /\ gas'[Paymaster] = gas[Paymaster] - x
  BY <1>1, <1>2, <1>3, GasMoves DEF Typed, WithdrawDeposit, Transfer
<1>5. /\ deposit[s] \in Nat /\ gas[Paymaster] \in Nat
      /\ deposit' = [deposit EXCEPT ![s] = deposit[s] - x]
  BY <1>1, <1>2, <1>3 DEF Typed, WithdrawDeposit
<1>6. deposit[s] - x \in Nat /\ gas'[Paymaster] + deposit[s] = gas[Paymaster] + (deposit[s] - x)
  BY <1>3, <1>4, <1>5
<1>7. deposit' \in [Sponsor -> Nat] /\ DepositsBacked'
  BY <1>3, <1>4, <1>5, <1>6, MoneyMoves
<1>8. /\ tx # None /\ UNCHANGED <<now, policy, coreVars, tx, txCount>>
      /\ UNCHANGED <<dailySpent, dailyReset, totalSpent, spent>>
  BY DEF WithdrawDeposit, counters, Idle
<1>9. Typed' /\ AllCounted'
  BY <1>1, <1>4, <1>7, <1>8 DEF Typed, AllCounted, coreVars
<1>10. \A e \in Books : Since(now, e, Snapshot) => Since(now, e, Snapshot)'
  BY <1>8 DEF Since, Snapshot, counters, coreVars
<1> QED BY <1>7, <1>8, <1>9, <1>10, OrderedNext, Advance

LEMMA SetPolicyStep ==
  ASSUME Inv, NEW k \in Scope, NEW p \in Policy, SetPolicy(k, p)
  PROVE  Inv'
<1>1. Typed /\ DepositsBacked /\ AllCounted
  BY OrderedNow DEF Inv
<1>2. policy' \in [Sponsor -> [Scope -> Policy \cup {None}]]
  BY <1>1 DEF Typed, SetPolicy
<1>3. /\ tx # None /\ UNCHANGED <<now, deposit, gas, coreVars, tx, txCount>>
      /\ UNCHANGED <<dailySpent, dailyReset, totalSpent, spent>>
  BY DEF SetPolicy, counters, Idle
<1>4. Typed' /\ AllCounted' /\ DepositsBacked'
  BY <1>1, <1>2, <1>3 DEF Typed, AllCounted, DepositsBacked, coreVars
<1>5. \A e \in Books : Since(now, e, Snapshot) => Since(now, e, Snapshot)'
  BY <1>3 DEF Since, Snapshot, counters, coreVars
<1> QED BY <1>3, <1>4, <1>5, OrderedNext, Advance

LEMMA EntryChanges ==
  ASSUME NEW A, NEW B, NEW V, NEW f \in [A -> [B -> V]], NEW s \in A, NEW k \in B,
         NEW v \in V, NEW g, g = [f EXCEPT ![s][k] = v]
  PROVE  /\ g \in [A -> [B -> V]] /\ g[s][k] = v
         /\ \A a \in A, b \in B : a # s \/ b # k => g[a][b] = f[a][b]
<1>1. g = [f EXCEPT ![s] = [f[s] EXCEPT ![k] = v]]
  OBVIOUS
<1>2. f[s] \in [B -> V] /\ [f[s] EXCEPT ![k] = v] \in [B -> V]
  OBVIOUS
<1>3. PICK h \in [B -> V] : h = [f[s] EXCEPT ![k] = v]
  BY <1>2
<1>4. g \in [A -> [B -> V]] /\ g[s] = h /\ \A a \in A \ {s} : g[a] = f[a]
  BY <1>1, <1>3
<1>5. h[k] = v /\ \A b \in B \ {k} : h[b] = f[s][b]
  BY <1>2, <1>3
<1> QED BY <1>4, <1>5

LEMMA RevokeStep ==
  ASSUME Inv, NEW k \in Scope, RevokePolicy(k)
  PROVE  Inv'
<1>1. Typed /\ DepositsBacked /\ AllCounted /\ now \in Nat
  BY OrderedNow DEF Inv, Time
<1>2. PICK s : s = tx.sender
  OBVIOUS
<1>3. PICK none : none = [t \in Time |-> 0]
  OBVIOUS
<1>4. s \in Sponsor /\ none \in [Time -> Nat] /\ 0 \in Nat
  BY <1>2, <1>3 DEF RevokePolicy
<1>5. /\ dailySpent' \in [Sponsor -> [Scope -> Nat]] /\ dailySpent'[s][k] = 0
      /\ \A a \in Sponsor, b \in Scope : a # s \/ b # k => dailySpent'[a][b] = dailySpent[a][b]
  <2>1. dailySpent' = [dailySpent EXCEPT ![s][k] = 0]
    BY <1>2 DEF RevokePolicy, ClearSpendingCounters
  <2> QED BY <1>1, <1>4, <2>1, EntryChanges DEF Typed
<1>6. /\ dailyReset' \in [Sponsor -> [Scope -> Nat]] /\ dailyReset'[s][k] = 0
      /\ \A a \in Sponsor, b \in Scope : a # s \/ b # k => dailyReset'[a][b] = dailyReset[a][b]
  <2>1. dailyReset' = [dailyReset EXCEPT ![s][k] = 0]
    BY <1>2 DEF RevokePolicy, ClearSpendingCounters
  <2> QED BY <1>1, <1>4, <2>1, EntryChanges DEF Typed
<1>7. /\ totalSpent' \in [Sponsor -> [Scope -> Nat]] /\ totalSpent'[s][k] = 0
      /\ \A a \in Sponsor, b \in Scope : a # s \/ b # k => totalSpent'[a][b] = totalSpent[a][b]
  <2>1. totalSpent' = [totalSpent EXCEPT ![s][k] = 0]
    BY <1>2 DEF RevokePolicy, ClearSpendingCounters
  <2> QED BY <1>1, <1>4, <2>1, EntryChanges DEF Typed
<1>8. /\ spent' \in [Sponsor -> [Scope -> [Time -> Nat]]] /\ spent'[s][k] = none
      /\ \A a \in Sponsor, b \in Scope : a # s \/ b # k => spent'[a][b] = spent[a][b]
  <2>1. spent' = [spent EXCEPT ![s][k] = none]
    BY <1>2, <1>3 DEF RevokePolicy, ClearSpendingCounters
  <2> QED BY <1>1, <1>4, <2>1, EntryChanges DEF Typed
<1>9. policy' \in [Sponsor -> [Scope -> Policy \cup {None}]]
  <2>1. policy' = [policy EXCEPT ![s][k] = None]
    BY <1>2 DEF RevokePolicy
  <2> QED BY <1>1, <1>4, <2>1, EntryChanges DEF Typed
<1>10. tx # None /\ UNCHANGED <<now, deposit, gas, coreVars, tx, txCount>>
  BY DEF RevokePolicy, Idle
<1>11. Typed' /\ DepositsBacked'
  BY <1>1, <1>5, <1>6, <1>7, <1>8, <1>9, <1>10 DEF Typed, DepositsBacked, coreVars
<1>12. AllCounted'
  <2> SUFFICES ASSUME NEW a \in Sponsor, NEW b \in Scope
               PROVE  Counted(now, dailySpent'[a][b], dailyReset'[a][b], totalSpent'[a][b],
                              spent'[a][b])
    BY <1>10 DEF AllCounted
  <2>1. CASE a = s /\ b = k
    <3>1. Counted(now, 0, 0, 0, none)
      BY <1>1, <1>3, CountedNothing
    <3> QED BY <1>5, <1>6, <1>7, <1>8, <2>1, <3>1
  <2>2. CASE a # s \/ b # k
    <3>1. Counted(now, dailySpent[a][b], dailyReset[a][b], totalSpent[a][b], spent[a][b])
      BY <1>1 DEF AllCounted
    <3> QED BY <1>5, <1>6, <1>7, <1>8, <2>2, <3>1
  <2> QED BY <2>1, <2>2
<1>13. ASSUME NEW e \in Books, Since(now, e, Snapshot) PROVE Since(now, e, Snapshot)'
  <2>1. e.paid <= paid /\ \A a \in Sponsor, b \in Scope :
          Grown(now, e.counters[1][a][b], e.counters[2][a][b], e.counters[3][a][b],
                dailySpent[a][b], dailyReset[a][b], totalSpent[a][b])
    BY <1>13 DEF Since, Snapshot, counters
  <2>2. ASSUME NEW a \in Sponsor, NEW b \in Scope
        PROVE  Grown(now, e.counters[1][a][b], e.counters[2][a][b], e.counters[3][a][b],
                     dailySpent'[a][b], dailyReset'[a][b], totalSpent'[a][b])
    <3>1. CASE a = s /\ b = k
      BY <1>5, <1>7, <3>1 DEF Grown
    <3>2. CASE a # s \/ b # k
      BY <1>5, <1>6, <1>7, <2>1, <3>2
    <3> QED BY <3>1, <3>2
  <2> QED BY <1>10, <2>1, <2>2 DEF Since, Snapshot, counters, coreVars
<1> QED BY <1>10, <1>11, <1>12, <1>13, OrderedNext, Advance

-----------------------------------------------------------------------------
(* Operations *)

(* An operation is accepted only for what its transaction has reserved.     *)
LEMMA ExecuteStep ==
  ASSUME Inv, NEW a \in Account, NEW op \in Operation, NEW s \in Sponsor, NEW x \in Amount,
         ExecuteSponsoredUserOp(a, op, s, x)
  PROVE  Inv'
<1>1. Typed /\ DepositsBacked /\ AllCounted /\ Snapshot \in Books
  BY OrderedNow DEF Inv, InOrder
<1>2. PICK amount : amount = Settled(x)
  OBVIOUS
<1>3. /\ tx # None /\ amount > 0 /\ Reserve(amount)
      /\ UNCHANGED <<now, paymasterVars, tx, txCount, paid>>
  BY <1>2 DEF ExecuteSponsoredUserOp, Idle
<1>4. PICK b \in Books : b = Snapshot
  BY <1>1
<1>5. PICK f : f = [account |-> a, op |-> op, sponsor |-> s, amount |-> amount, saved |-> b]
  OBVIOUS
<1>6. frames' = Append(frames, f)
  BY <1>2, <1>4, <1>5 DEF ExecuteSponsoredUserOp
<1>7. /\ frames \in Seq(SponsoredFrame) /\ tx \in [sender : Principal, fee : Nat, saved : Books]
      /\ now \in Time /\ txCount \in Nat
      /\ Before(now, txCount, tx) /\ Nested(now, txCount, tx, frames, b) /\ InOrder(now, b)
  BY <1>3, <1>4 DEF Inv
<1>8. /\ b.reservation = reservation /\ b.paid = paid /\ b.counters = counters
      /\ ReservedIn(b, txCount) = Reserved
  BY <1>4 DEF Snapshot, ReservedIn, Reserved
<1>9. Reserved \in Nat /\ x \in Nat /\ tx.fee \in Nat /\ VmMax \in Nat
  BY <1>1, <1>7, SponsorshipAssumption DEF Typed, Reserved
<1>10. tx.fee > 0 => Reserved <= tx.fee
  BY <1>7, <1>8 DEF Nested, Reserves
<1>11. amount \in Nat \ {0} /\ (tx.fee > 0 => Reserved + amount <= tx.fee)
  <2>1. CASE tx.fee > 0
    <3>1. PICK c : c = Greater(tx.fee - Reserved, 0)
      OBVIOUS
    <3>2. c = tx.fee - Reserved /\ c \in Nat
      BY <1>9, <1>10, <2>1, <3>1 DEF Greater
    <3>3. 1 - Lesser(tx.fee, 1) = 0
      BY <1>9, <2>1 DEF Lesser
    <3>4. (1 - Lesser(tx.fee, 1)) * x = 0
      BY <1>9, <3>3
    <3>5. amount = Lesser(x, c)
      BY <1>2, <3>1, <3>2, <3>4 DEF Settled
    <3> QED BY <1>3, <1>9, <3>2, <3>5 DEF Lesser
  <2>2. CASE tx.fee = 0
    <3>1. PICK c : c = Greater(tx.fee - Reserved, 0)
      OBVIOUS
    <3>2. c \in Nat
      BY <1>9, <3>1 DEF Greater
    <3>3. (1 - Lesser(tx.fee, 1)) * x = x
      BY <1>9, <2>2 DEF Lesser
    <3>4. amount = Lesser(x, c + x)
      BY <1>2, <3>1, <3>3 DEF Settled
    <3> QED BY <1>3, <1>9, <2>2, <3>2, <3>4 DEF Lesser
  <2> QED BY <1>9, <2>1, <2>2
<1>12. f \in SponsoredFrame /\ f.saved = b /\ f.amount = amount
  BY <1>5, <1>11 DEF SponsoredFrame
<1>13. PICK c : c = Snapshot'
  OBVIOUS
<1>14. /\ reservation' = [hash |-> txCount, reserved |-> Reserved + amount]
       /\ Reserved + amount \in 0 .. VmMax
  BY <1>3, <1>9, <1>11 DEF Reserve
<1>15. Typed' /\ DepositsBacked' /\ AllCounted'
  BY <1>1, <1>3, <1>7, <1>14
     DEF Typed, DepositsBacked, AllCounted, paymasterVars, counters
<1>16. InOrder(now, Snapshot)' /\ c \in Books
  BY <1>13, <1>15, OrderedNext DEF InOrder
<1>17. /\ c.paid = b.paid /\ c.counters = b.counters
       /\ c.reservation = [hash |-> txCount, reserved |-> ReservedIn(b, txCount) + f.amount]
  BY <1>3, <1>8, <1>12, <1>13, <1>14 DEF Snapshot, paymasterVars, counters
<1>18. tx.saved \in Books
  BY <1>7
<1>19. tx.fee > 0 => ReservedIn(b, txCount) + f.amount <= tx.fee
  BY <1>8, <1>11, <1>12
<1>20. Nested(now, txCount, tx, Append(frames, f), c)
  BY <1>7, <1>9, <1>12, <1>16, <1>17, <1>18, <1>19, NestedMore
<1>21. Append(frames, f) \in Seq(SponsoredFrame)
  BY <1>7, <1>12
<1> QED BY <1>3, <1>6, <1>7, <1>13, <1>16, <1>20, <1>21 DEF Inv

(* The payment of an operation, in the counters it counts against.          *)
Pays(s, k, amount) ==
  /\ dailySpent' \in [Sponsor -> [Scope -> Nat]]
  /\ dailyReset' \in [Sponsor -> [Scope -> Nat]]
  /\ totalSpent' \in [Sponsor -> [Scope -> Nat]]
  /\ spent' \in [Sponsor -> [Scope -> [Time -> Nat]]]
  /\ dailySpent'[s][k] = (IF now >= dailyReset[s][k] + Day THEN 0 ELSE dailySpent[s][k]) + amount
  /\ dailyReset'[s][k] = IF now >= dailyReset[s][k] + Day THEN now ELSE dailyReset[s][k]
  /\ totalSpent'[s][k] = totalSpent[s][k] + amount
  /\ spent'[s][k] = [spent[s][k] EXCEPT ![now] = @ + amount]
  /\ \A a \in Sponsor, b \in Scope : a # s \/ b # k =>
       /\ dailySpent'[a][b] = dailySpent[a][b] /\ dailyReset'[a][b] = dailyReset[a][b]
       /\ totalSpent'[a][b] = totalSpent[a][b] /\ spent'[a][b] = spent[a][b]

LEMMA PaymentCells ==
  ASSUME Typed, now \in Time, NEW s \in Sponsor, NEW k \in Scope, NEW amount \in Nat,
         UpdateDailySpent(s, k, amount), UpdateTotalSpent(s, k, amount),
         spent' = [spent EXCEPT ![s][k][now] = @ + amount]
  PROVE  Pays(s, k, amount)
<1>0. now \in Nat
  BY DEF Time
<1>1. /\ dailySpent[s][k] \in Nat /\ dailyReset[s][k] \in Nat /\ totalSpent[s][k] \in Nat
      /\ spent[s][k] \in [Time -> Nat]
  BY DEF Typed
<1>2. PICK day \in Nat :
        day = (IF now >= dailyReset[s][k] + Day THEN 0 ELSE dailySpent[s][k]) + amount
  BY <1>1
<1>3. PICK reset \in Nat :
        reset = IF now >= dailyReset[s][k] + Day THEN now ELSE dailyReset[s][k]
  BY <1>0, <1>1
<1>4. PICK total \in Nat : total = totalSpent[s][k] + amount
  BY <1>1
<1>5. PICK payments \in [Time -> Nat] : payments = [spent[s][k] EXCEPT ![now] = @ + amount]
  <2>1. spent[s][k][now] + amount \in Nat
    BY <1>1
  <2> QED BY <1>1, <2>1
<1>6. /\ dailySpent' \in [Sponsor -> [Scope -> Nat]] /\ dailySpent'[s][k] = day
      /\ \A a \in Sponsor, b \in Scope : a # s \/ b # k => dailySpent'[a][b] = dailySpent[a][b]
  <2>1. dailySpent' = [dailySpent EXCEPT ![s][k] = day]
    BY <1>2 DEF UpdateDailySpent, WindowOver, Typed
  <2> QED BY <2>1, EntryChanges DEF Typed
<1>7. /\ dailyReset' \in [Sponsor -> [Scope -> Nat]] /\ dailyReset'[s][k] = reset
      /\ \A a \in Sponsor, b \in Scope : a # s \/ b # k => dailyReset'[a][b] = dailyReset[a][b]
  <2>1. CASE now >= dailyReset[s][k] + Day
    <3>1. dailyReset' = [dailyReset EXCEPT ![s][k] = reset]
      BY <1>3, <2>1 DEF UpdateDailySpent, WindowOver
    <3> QED BY <3>1, EntryChanges DEF Typed
  <2>2. CASE ~(now >= dailyReset[s][k] + Day)
    BY <1>3, <2>2 DEF UpdateDailySpent, WindowOver, Typed
  <2> QED BY <2>1, <2>2
<1>8. /\ totalSpent' \in [Sponsor -> [Scope -> Nat]] /\ totalSpent'[s][k] = total
      /\ \A a \in Sponsor, b \in Scope : a # s \/ b # k => totalSpent'[a][b] = totalSpent[a][b]
  <2>1. totalSpent' = [totalSpent EXCEPT ![s][k] = total]
    BY <1>4 DEF UpdateTotalSpent, Typed
  <2> QED BY <2>1, EntryChanges DEF Typed
<1>9. /\ spent' \in [Sponsor -> [Scope -> [Time -> Nat]]] /\ spent'[s][k] = payments
      /\ \A a \in Sponsor, b \in Scope : a # s \/ b # k => spent'[a][b] = spent[a][b]
  <2>1. spent' = [spent EXCEPT ![s][k] = payments]
    BY <1>5 DEF Typed
  <2> QED BY <2>1, EntryChanges DEF Typed
<1> QED BY <1>2, <1>3, <1>4, <1>5, <1>6, <1>7, <1>8, <1>9 DEF Pays

(* What a settlement does to the books.                                     *)
LEMMA Settlement ==
  ASSUME Inv, NEW s \in Sponsor, NEW a \in Account, NEW op, NEW relay \in Principal,
         NEW amount \in Nat \ {0}, SettleReimbursement(s, a, op, relay, amount),
         UNCHANGED <<now, reservation>>, paid' = paid + amount
  PROVE  /\ InOrder(now, Snapshot)'
         /\ \A e \in Books : Since(now, e, Snapshot) => Since(now, e, Snapshot)'
<1>1. Typed /\ DepositsBacked /\ AllCounted /\ now \in Time /\ now \in Nat
  BY OrderedNow DEF Inv, Time
<1>2. PICK k : k = SpendingKey(s, a)
  OBVIOUS
<1>3. k \in Scope
  BY <1>2 DEF SpendingKey, Scope
<1>4. /\ UpdateDailySpent(s, k, amount) /\ UpdateTotalSpent(s, k, amount)
      /\ spent' = [spent EXCEPT ![s][k][now] = @ + amount]
      /\ deposit' = [deposit EXCEPT ![s] = @ - amount] /\ amount <= deposit[s]
      /\ Transfer(Paymaster, relay, amount) /\ UNCHANGED policy
  BY <1>2 DEF SettleReimbursement, SettlementAccepted
<1>5. Pays(s, k, amount)
  <2>1. amount \in Nat
    OBVIOUS
  <2> QED BY <1>1, <1>3, <1>4, <2>1, PaymentCells
<1>6. /\ gas' \in [Principal \cup {Paymaster} -> Nat]
      /\ gas'[Paymaster] = gas[Paymaster] - amount
  <2>1. gas \in [Principal \cup {Paymaster} -> Nat]
    BY <1>1 DEF Typed
  <2>2. gas[Paymaster] >= amount /\ gas' = [gas EXCEPT ![Paymaster] = @ - amount, ![relay] = @ + amount]
    BY <1>4 DEF Transfer
  <2>3. /\ relay \in Principal \cup {Paymaster} /\ Paymaster \in Principal \cup {Paymaster}
        /\ relay # Paymaster
    BY SponsorshipAssumption DEF Principal
  <2> QED BY <2>1, <2>2, <2>3, GasMoves
<1>7. deposit' \in [Sponsor -> Nat] /\ DepositsBacked'
  <2>1. /\ deposit[s] \in Nat /\ gas[Paymaster] \in Nat
        /\ deposit' = [deposit EXCEPT ![s] = deposit[s] - amount]
    BY <1>1, <1>4 DEF Typed
  <2>2. /\ deposit[s] - amount \in Nat
        /\ gas'[Paymaster] + deposit[s] = gas[Paymaster] + (deposit[s] - amount)
    BY <1>4, <1>6, <2>1
  <2> QED BY <1>6, <2>1, <2>2, MoneyMoves
<1>8. Typed'
  BY <1>1, <1>4, <1>5, <1>6, <1>7 DEF Typed, Pays
<1>9. /\ dailySpent[s][k] \in Nat /\ dailyReset[s][k] \in Nat /\ totalSpent[s][k] \in Nat
      /\ spent[s][k] \in [Time -> Nat]
  BY <1>1, <1>3 DEF Typed
<1>10. AllCounted'
  <2> SUFFICES ASSUME NEW c \in Sponsor, NEW b \in Scope
               PROVE  Counted(now, dailySpent'[c][b], dailyReset'[c][b], totalSpent'[c][b],
                              spent'[c][b])
    BY DEF AllCounted
  <2>1. Counted(now, dailySpent[c][b], dailyReset[c][b], totalSpent[c][b], spent[c][b])
    BY <1>1 DEF AllCounted
  <2>2. CASE c = s /\ b = k
    <3>1. Counted(now, (IF now >= dailyReset[s][k] + Day THEN 0 ELSE dailySpent[s][k]) + amount,
                  IF now >= dailyReset[s][k] + Day THEN now ELSE dailyReset[s][k],
                  totalSpent[s][k] + amount, [spent[s][k] EXCEPT ![now] = @ + amount])
      BY <1>1, <1>9, <2>1, <2>2, CountedPayment
    <3> QED BY <1>5, <2>2, <3>1 DEF Pays
  <2>3. CASE c # s \/ b # k
    BY <1>5, <2>1, <2>3 DEF Pays
  <2> QED BY <2>2, <2>3
<1>11. ASSUME NEW e \in Books, Since(now, e, Snapshot) PROVE Since(now, e, Snapshot)'
  <2>1. e.paid <= paid /\ \A c \in Sponsor, b \in Scope :
          Grown(now, e.counters[1][c][b], e.counters[2][c][b], e.counters[3][c][b],
                dailySpent[c][b], dailyReset[c][b], totalSpent[c][b])
    BY <1>11 DEF Since, Snapshot, counters
  <2>2. ASSUME NEW c \in Sponsor, NEW b \in Scope
        PROVE  Grown(now, e.counters[1][c][b], e.counters[2][c][b], e.counters[3][c][b],
                     dailySpent'[c][b], dailyReset'[c][b], totalSpent'[c][b])
    <3>1. CASE c = s /\ b = k
      <4>1. e.counters[3] \in [Sponsor -> [Scope -> Nat]]
        BY DEF Books
      <4>2. PICK x \in Nat : x = e.counters[3][s][k]
        BY <1>3, <4>1
      <4>3. Grown(now, e.counters[1][s][k], e.counters[2][s][k], x,
                  dailySpent[s][k], dailyReset[s][k], totalSpent[s][k])
        BY <1>3, <2>1, <4>2
      <4>4. Grown(now, e.counters[1][s][k], e.counters[2][s][k], x,
                  (IF now >= dailyReset[s][k] + Day THEN 0 ELSE dailySpent[s][k]) + amount,
                  IF now >= dailyReset[s][k] + Day THEN now ELSE dailyReset[s][k],
                  totalSpent[s][k] + amount)
        BY <1>1, <1>9, <4>3, GrownPayment
      <4> QED BY <1>5, <3>1, <4>2, <4>4 DEF Pays
    <3>2. CASE c # s \/ b # k
      BY <1>5, <2>1, <3>2 DEF Pays
    <3> QED BY <3>1, <3>2
  <2>3. e.paid <= paid + amount
    BY <1>1, <2>1 DEF Books, Typed
  <2> QED BY <2>2, <2>3 DEF Since, Snapshot, counters
<1> QED BY <1>7, <1>8, <1>10, <1>11, OrderedNext

(* The operation is done, and what it was promised is paid.                 *)
LEMMA SettleStep ==
  ASSUME Inv, SettleSponsoredUserOp
  PROVE  Inv'
<1>1. PICK m : m = Len(frames)
  OBVIOUS
<1>2. PICK f : f = frames[m]
  OBVIOUS
<1>3. /\ tx # None /\ frames # <<>> /\ paid' = paid + f.amount
      /\ SettleReimbursement(f.sponsor, f.account, f.op, tx.sender, f.amount)
      /\ frames' = SubSeq(frames, 1, m - 1) /\ UNCHANGED <<now, reservation, tx, txCount>>
  BY <1>1, <1>2 DEF SettleSponsoredUserOp, Idle
<1>4. /\ frames \in Seq(SponsoredFrame) /\ tx \in [sender : Principal, fee : Nat, saved : Books]
      /\ now \in Time /\ txCount \in Nat
      /\ Before(now, txCount, tx) /\ Nested(now, txCount, tx, frames, Snapshot)
  BY <1>3 DEF Inv
<1>5. m \in Nat /\ m > 0 /\ m \in 1 .. Len(frames) /\ m - 1 \in 0 .. Len(frames)
  BY <1>1, <1>3, <1>4
<1>6. f.account \in Account /\ f.sponsor \in Sponsor /\ f.amount \in Nat /\ f.amount > 0
  BY <1>2, <1>4, <1>5, FramesTyped
<1>7. /\ InOrder(now, Snapshot)'
      /\ \A e \in Books : Since(now, e, Snapshot) => Since(now, e, Snapshot)'
  <2>1. f.amount \in Nat \ {0} /\ tx.sender \in Principal
    BY <1>4, <1>6
  <2> QED BY <1>3, <1>6, <2>1, Settlement
<1>8. PICK b : b = Snapshot
  OBVIOUS
<1>9. PICK c : c = Snapshot'
  OBVIOUS
<1>10. PICK n : n = now
  OBVIOUS
<1>11. \A e \in Books : Since(n, e, b) => Since(n, e, c)
  BY <1>3, <1>7, <1>8, <1>9, <1>10
<1>12. c.paid = b.paid + f.amount /\ c.reservation = b.reservation /\ b.paid \in Nat
  <2>1. paid \in Nat
    BY OrderedNow DEF Inv, Typed
  <2> QED BY <1>3, <1>8, <1>9, <2>1 DEF Snapshot
<1>13. /\ Promised(frames, m) = Promised(frames, m - 1) + f.amount
       /\ Promised(frames, m - 1) \in Nat
  <2>1. \A i \in 1 .. m : frames[i].amount \in Nat
    BY <1>1, <1>4, FramesTyped
  <2>2. PICK l \in Nat : m = l + 1
    <3>1. m - 1 \in Nat /\ m = (m - 1) + 1
      BY <1>5
    <3> QED BY <3>1
  <2>3. Promised(frames, l + 1) = Promised(frames, l) + frames[l + 1].amount
    BY <2>1, <2>2, PromisedNext
  <2>4. Promised(frames, l) \in Nat /\ l = m - 1
    BY <2>1, <2>2, PromisedNat
  <2> QED BY <1>2, <2>2, <2>3, <2>4
<1>14. Reserves(b, txCount, tx.fee, Promised(frames, m))
  BY <1>1, <1>4, <1>8 DEF Nested
<1>15. Reserves(c, txCount, tx.fee, Promised(frames, m - 1))
  <2>1. b.paid + Promised(frames, m) = c.paid + Promised(frames, m - 1)
    BY <1>6, <1>12, <1>13
  <2>2. ReservedIn(b, txCount) = ReservedIn(c, txCount)
    BY <1>12 DEF ReservedIn
  <2> QED BY <1>12, <1>14, <2>1, <2>2 DEF Reserves
<1>16. tx.saved \in Books /\ \A i \in 1 .. m - 1 : frames[i].saved \in Books /\ i \in 1 .. Len(frames)
  BY <1>1, <1>4, <1>5, FramesTyped
<1>17. Since(n, tx.saved, c) /\ \A i \in 1 .. m - 1 : Since(n, frames[i].saved, c)
  BY <1>4, <1>8, <1>10, <1>11, <1>16 DEF Nested
<1>18. frames' \in Seq(SponsoredFrame) /\ Nested(n, txCount, tx, frames', c)
  <2>1. PICK gs : gs = SubSeq(frames, 1, m - 1)
    OBVIOUS
  <2>2. Nested(n, txCount, tx, frames, b)
    BY <1>4, <1>8, <1>10
  <2>3. gs \in Seq(SponsoredFrame) /\ Nested(n, txCount, tx, gs, c)
    BY <1>4, <1>5, <1>15, <1>17, <2>1, <2>2, NestedFewer
  <2> QED BY <1>3, <2>1, <2>3
<1> QED BY <1>3, <1>4, <1>7, <1>9, <1>10, <1>18 DEF Inv

-----------------------------------------------------------------------------
(* Transactions *)

LEMMA Restored ==
  ASSUME NEW e \in Books, Restore(e)
  PROVE  Snapshot' = e
<1>1. /\ e = [deposit |-> e.deposit, policy |-> e.policy, counters |-> e.counters, gas |-> e.gas,
              reservation |-> e.reservation, paid |-> e.paid]
      /\ e.counters = <<e.counters[1], e.counters[2], e.counters[3], e.counters[4]>>
  BY DEF Books
<1> QED BY <1>1 DEF Restore, Snapshot, counters

LEMMA ThrowStep ==
  ASSUME Inv, NEW i \in DOMAIN frames, Throw(i)
  PROVE  Inv'
<1>1. /\ frames \in Seq(SponsoredFrame) /\ tx \in [sender : Principal, fee : Nat, saved : Books]
      /\ now \in Time /\ txCount \in Nat /\ tx # None
      /\ Before(now, txCount, tx) /\ Nested(now, txCount, tx, frames, Snapshot)
  BY DEF Inv, Throw, Idle
<1>2. i \in 1 .. Len(frames) /\ i - 1 \in 0 .. Len(frames)
  BY <1>1
<1>3. PICK c : c = frames[i].saved
  OBVIOUS
<1>4. c \in Books
  BY <1>1, <1>2, <1>3, FramesTyped
<1>5. /\ Snapshot' = c /\ frames' = SubSeq(frames, 1, i - 1)
      /\ UNCHANGED <<now, tx, txCount>>
  BY <1>3, <1>4, Restored DEF Throw
<1>6. PICK n : n = now
  OBVIOUS
<1>7. /\ InOrder(n, c) /\ Reserves(c, txCount, tx.fee, Promised(frames, i - 1))
      /\ Since(n, tx.saved, c) /\ \A j \in 1 .. i - 1 : Since(n, frames[j].saved, c)
  <2>1. \A j \in 1 .. i - 1 : j \in 1 .. Len(frames) /\ j < i
    BY <1>2
  <2> QED BY <1>1, <1>2, <1>3, <1>6, <2>1 DEF Nested
<1>8. PICK gs : gs = SubSeq(frames, 1, i - 1)
  OBVIOUS
<1>9. PICK b : b = Snapshot
  OBVIOUS
<1>10. Nested(n, txCount, tx, frames, b)
  BY <1>1, <1>6, <1>9
<1>11. gs \in Seq(SponsoredFrame) /\ Nested(n, txCount, tx, gs, c)
  BY <1>1, <1>2, <1>7, <1>8, <1>10, NestedFewer
<1> QED BY <1>1, <1>5, <1>6, <1>7, <1>8, <1>11 DEF Inv

LEMMA AbortStep ==
  ASSUME Inv, Abort
  PROVE  Inv'
<1>1. PICK c : c = tx.saved
  OBVIOUS
<1>2. /\ now \in Time /\ txCount \in Nat /\ c \in Books /\ InOrder(now, c)
      /\ c.paid = 0 /\ c.reservation.hash < txCount
  BY <1>1 DEF Inv, Abort, Idle, Before
<1>3. /\ Snapshot' = c /\ frames' = <<>> /\ tx' = None /\ UNCHANGED <<now, txCount>>
  BY <1>1, <1>2, Restored DEF Abort
<1>4. paid' = 0 /\ reservation'.hash < txCount /\ reservation'.hash \in Nat
  BY <1>1, <1>2 DEF Abort, Restore, Books
<1>5. frames' \in Seq(SponsoredFrame)
  BY <1>3
<1> QED BY <1>2, <1>3, <1>4, <1>5 DEF Inv

LEMMA CommitStep ==
  ASSUME Inv, Commit
  PROVE  Inv'
<1>1. Typed /\ DepositsBacked /\ AllCounted
  BY OrderedNow DEF Inv
<1>2. /\ tx # None /\ tx' = None /\ paid' = 0 /\ frames = <<>>
      /\ UNCHANGED <<now, deposit, policy, gas, reservation, frames, txCount>>
      /\ UNCHANGED <<dailySpent, dailyReset, totalSpent, spent>>
  BY DEF Commit, Idle, paymasterVars, counters
<1>3. InOrder(now, Snapshot)'
  BY <1>1, <1>2, OrderedNext DEF Typed, DepositsBacked, AllCounted
<1>4. reservation.hash <= txCount
  BY <1>2 DEF Inv, Nested, Reserves, Snapshot
<1> QED BY <1>2, <1>3, <1>4 DEF Inv

LEMMA BeginStep ==
  ASSUME MissingAssumption, Inv, NEW sender \in Principal, NEW fee \in Fee, Begin(sender, fee)
  PROVE  Inv'
<1>1. /\ tx = None /\ txCount' = txCount + 1 /\ UNCHANGED <<now, paymasterVars, coreVars>>
      /\ paid = 0 /\ frames = <<>> /\ reservation.hash <= txCount
      /\ now \in Time /\ txCount \in Nat
  BY DEF Begin, Idle, Inv
<1>2. PICK b : b = Snapshot
  OBVIOUS
<1>3. InOrder(now, b) /\ b \in Books /\ b.paid = 0 /\ b.reservation = reservation
  BY <1>1, <1>2 DEF Inv, InOrder, Snapshot
<1>4. PICK t : t = [sender |-> sender, fee |-> fee, saved |-> b]
  OBVIOUS
<1>5. /\ tx' = t /\ t # None /\ t.saved = b /\ t.fee = fee
      /\ t \in [sender : Principal, fee : Nat, saved : Books]
  <2>1. fee \in Nat
    BY SponsorshipAssumption
  <2> QED BY <1>2, <1>3, <1>4, <2>1 DEF Begin, MissingAssumption
<1>6. Snapshot' = b
  BY <1>1, <1>2 DEF Snapshot, paymasterVars, counters, coreVars
<1>7. b.reservation.hash \in Nat /\ b.reservation.hash <= txCount
  BY <1>1, <1>3 DEF Books
<1>8. Before(now, txCount + 1, t)
  BY <1>1, <1>3, <1>5, <1>7 DEF Before
<1>9. PICK fs : fs = <<>>
  OBVIOUS
<1>10. Len(fs) = 0 /\ fs \in Seq(SponsoredFrame)
  BY <1>9
<1>11. Nested(now, txCount + 1, t, fs, b)
  <2>1. Promised(fs, 0) = 0
    BY PromisedNothing
  <2>2. ReservedIn(b, txCount + 1) = 0
    BY <1>1, <1>7 DEF ReservedIn
  <2>3. Reserves(b, txCount + 1, t.fee, Promised(fs, Len(fs)))
    BY <1>1, <1>3, <1>5, <1>7, <1>10, <2>1, <2>2 DEF Reserves
  <2>4. Since(now, t.saved, b)
    BY <1>3, <1>5, SinceItself
  <2> QED BY <1>10, <2>3, <2>4 DEF Nested
<1>12. frames' = fs
  BY <1>1, <1>9 DEF coreVars
<1> QED BY <1>1, <1>3, <1>5, <1>6, <1>8, <1>10, <1>11, <1>12 DEF Inv

LEMMA TickStep ==
  ASSUME Inv, Tick
  PROVE  Inv'
<1>1. Typed /\ DepositsBacked /\ AllCounted
  BY OrderedNow DEF Inv
<1>2. /\ tx = None /\ now' = now + 1 /\ UNCHANGED <<paymasterVars, coreVars, tx, txCount>>
      /\ now \in Nat /\ now' \in Time
      /\ UNCHANGED <<dailySpent, dailyReset, totalSpent, spent>>
  BY SponsorshipAssumption DEF Tick, Idle, Inv, Time, paymasterVars, counters
<1>3. AllCounted'
  <2> SUFFICES ASSUME NEW s \in Sponsor, NEW k \in Scope
               PROVE  Counted(now + 1, dailySpent[s][k], dailyReset[s][k], totalSpent[s][k],
                              spent[s][k])
    BY <1>2 DEF AllCounted
  <2>1. Counted(now, dailySpent[s][k], dailyReset[s][k], totalSpent[s][k], spent[s][k])
    BY <1>1 DEF AllCounted
  <2>2. dailyReset[s][k] \in Nat
    BY <1>1 DEF Typed
  <2> QED BY <1>2, <2>1, <2>2, CountedLater
<1>4. Typed' /\ DepositsBacked'
  BY <1>1, <1>2 DEF Typed, DepositsBacked, paymasterVars, counters, coreVars
<1>5. InOrder(now, Snapshot)'
  BY <1>3, <1>4, OrderedNext
<1> QED BY <1>2, <1>5 DEF Inv, coreVars

LEMMA InitInv ==
  ASSUME Init
  PROVE  Inv
<1>1. now \in Time /\ now \in Nat /\ txCount \in Nat /\ tx = None /\ paid = 0
  BY SponsorshipAssumption DEF Init, Time
<1>2. Typed
  <2>1. PICK none \in [Time -> Nat] : none = [t \in Time |-> 0]
    OBVIOUS
  <2>2. spent = PerScope(none)
    BY <2>1 DEF Init
  <2>3. /\ dailySpent \in [Sponsor -> [Scope -> Nat]] /\ dailyReset \in [Sponsor -> [Scope -> Nat]]
        /\ totalSpent \in [Sponsor -> [Scope -> Nat]]
        /\ policy \in [Sponsor -> [Scope -> Policy \cup {None}]]
    BY DEF Init, PerScope
  <2>4. spent \in [Sponsor -> [Scope -> [Time -> Nat]]]
    BY <2>2 DEF PerScope
  <2>5. /\ deposit \in [Sponsor -> Nat] /\ gas \in [Principal \cup {Paymaster} -> Nat]
        /\ reservation \in [hash : Nat, reserved : 0 .. VmMax]
    BY SponsorshipAssumption DEF Init
  <2> QED BY <1>1, <2>3, <2>4, <2>5 DEF Typed
<1>3. DepositsBacked
  <2>1. IsFiniteSet(Sponsor) /\ \A s \in Sponsor : deposit[s] = 0
    BY SponsorshipAssumption DEF Init
  <2>2. SumOver(deposit, Sponsor) = 0
    BY <2>1, SumZero
  <2> QED BY <2>2 DEF Init, DepositsBacked
<1>4. AllCounted
  <2>1. PICK none : none = [t \in Time |-> 0]
    OBVIOUS
  <2>2. Counted(now, 0, 0, 0, none)
    BY <1>1, <2>1, CountedNothing
  <2>3. \A s \in Sponsor, k \in Scope :
          /\ dailySpent[s][k] = 0 /\ dailyReset[s][k] = 0 /\ totalSpent[s][k] = 0
          /\ spent[s][k] = none
    BY <2>1 DEF Init, PerScope
  <2> QED BY <2>2, <2>3 DEF AllCounted
<1>5. InOrder(now, Snapshot)
  BY <1>2, <1>3, <1>4, OrderedNow
<1>6. reservation.hash <= txCount /\ frames = <<>> /\ frames \in Seq(SponsoredFrame)
  BY DEF Init
<1> QED BY <1>1, <1>5, <1>6 DEF Inv

LEMMA InvStep ==
  ASSUME MissingAssumption, Inv, [Next]_vars
  PROVE  Inv'
<1>1. CASE UNCHANGED vars
  <2>1. UNCHANGED <<now, deposit, policy, dailySpent, dailyReset, totalSpent, spent, gas,
                    reservation, frames, paid, tx, txCount>>
    BY <1>1 DEF vars, paymasterVars, coreVars, counters
  <2>2. Snapshot' = Snapshot
    BY <2>1 DEF Snapshot, counters
  <2> QED BY <2>1, <2>2 DEF Inv
<1> QED
  BY <1>1, TickStep, CommitStep, AbortStep, BeginStep, DepositStep, WithdrawStep, RevokeStep,
     SetPolicyStep, ExecuteStep, SettleStep, ThrowStep DEF Next

-----------------------------------------------------------------------------
(* What follows *)

LEMMA BooksInOrder == Inv => BooksBalance
<1> SUFFICES ASSUME Inv PROVE BooksBalance
  OBVIOUS
<1>1. Typed /\ DepositsBacked /\ AllCounted
  BY OrderedNow DEF Inv
<1>2. now \in Time /\ now \in Nat /\ txCount \in Nat
  BY DEF Inv, Time
<1>3. CountersMatchHistory
  BY <1>1 DEF CountersMatchHistory, AllCounted, Counted
<1>4. dailyReset \in [Sponsor -> [Scope -> Time]]
  <2>1. \A s \in Sponsor, k \in Scope : dailyReset[s][k] \in Time
    BY <1>1, <1>2, SponsorshipAssumption DEF Typed, AllCounted, Counted, Time
  <2> QED BY <1>1, <2>1 DEF Typed
<1>5. reservation \in [hash : 0 .. txCount, reserved : 0 .. VmMax]
  <2>1. reservation.hash <= txCount
    BY DEF Inv, Nested, Reserves, Snapshot
  <2> QED BY <1>1, <1>2, <2>1 DEF Typed
<1> QED BY <1>1, <1>2, <1>3, <1>4, <1>5 DEF BooksBalance, SponsorshipTypeOK, Typed

LEMMA FeesInOrder == Inv => ReimbursedAtMostFees
<1> SUFFICES ASSUME Inv, tx # None, tx.fee > 0
             PROVE  paid + SumOver([i \in DOMAIN frames |-> frames[i].amount], DOMAIN frames) <= tx.fee
  BY DEF ReimbursedAtMostFees, Idle
<1>1. /\ frames \in Seq(SponsoredFrame) /\ tx \in [sender : Principal, fee : Nat, saved : Books]
      /\ Reserves(Snapshot, txCount, tx.fee, Promised(frames, Len(frames)))
  BY DEF Inv, Nested
<1>2. PICK m \in Nat : m = Len(frames)
  BY <1>1
<1>3. DOMAIN frames = 1 .. m
  BY <1>1, <1>2
<1>4. Promised(frames, m) = SumOver([i \in DOMAIN frames |-> frames[i].amount], DOMAIN frames)
  BY <1>3 DEF Promised
<1>5. Promised(frames, m) \in Nat
  <2>1. \A i \in 1 .. m : frames[i].amount \in Nat
    BY <1>1, <1>2, FramesTyped
  <2> QED BY <2>1, PromisedNat
<1>6. paid \in Nat /\ Reserved \in Nat /\ Snapshot.paid = paid /\ ReservedIn(Snapshot, txCount) = Reserved
  BY OrderedNow DEF Inv, Typed, Reserved, ReservedIn, Snapshot
<1>7. paid + Promised(frames, m) <= Reserved /\ Reserved <= tx.fee
  BY <1>1, <1>2, <1>6 DEF Reserves
<1>8. tx.fee \in Nat
  BY <1>1
<1>9. paid + Promised(frames, m) <= tx.fee
  BY <1>5, <1>6, <1>7, <1>8
<1> QED BY <1>4, <1>9

(* The last operation settles in the scope of the policy that applies.      *)
LEMMA Settles ==
  ASSUME Inv, SettleSponsoredUserOp, NEW f, f = frames[Len(frames)],
         NEW k, k = SpendingKey(f.sponsor, f.account)
  PROVE  /\ f.sponsor \in Sponsor /\ f.amount \in Nat /\ f.amount > 0 /\ k \in Scope
         /\ SettlementAccepted(f.sponsor, f.account, f.op, f.amount)
         /\ Pays(f.sponsor, k, f.amount) /\ UNCHANGED <<now, policy>>
<1>1. /\ frames # <<>> /\ UNCHANGED <<now, policy>>
      /\ SettleReimbursement(f.sponsor, f.account, f.op, tx.sender, f.amount)
  BY DEF SettleSponsoredUserOp, SettleReimbursement
<1>2. frames \in Seq(SponsoredFrame) /\ now \in Time
  BY DEF Inv
<1>3. Len(frames) \in 1 .. Len(frames)
  BY <1>1, <1>2
<1>4. f.account \in Account /\ f.sponsor \in Sponsor /\ f.amount \in Nat /\ f.amount > 0
  BY <1>2, <1>3, FramesTyped
<1>5. k \in Scope
  BY <1>4 DEF SpendingKey, Scope
<1>6. /\ SettlementAccepted(f.sponsor, f.account, f.op, f.amount)
      /\ UpdateDailySpent(f.sponsor, k, f.amount) /\ UpdateTotalSpent(f.sponsor, k, f.amount)
      /\ spent' = [spent EXCEPT ![f.sponsor][k][now] = @ + f.amount]
  BY <1>1 DEF SettleReimbursement
<1>7. Typed
  BY OrderedNow DEF Inv
<1>8. Pays(f.sponsor, k, f.amount)
  BY <1>2, <1>4, <1>5, <1>6, <1>7, PaymentCells
<1> QED BY <1>1, <1>4, <1>5, <1>6, <1>8

(* Nothing else pays: what an exception undoes was paid.                    *)
LEMMA WhoPays ==
  ASSUME Inv, [Next]_vars, paid' > paid
  PROVE  SettleSponsoredUserOp
<1>0. paid \in Nat /\ paid' # paid
  BY OrderedNow DEF Inv, Typed
<1>1. CASE UNCHANGED vars
  BY <1>0, <1>1 DEF vars, coreVars
<1>2. CASE Tick \/ Commit
  BY <1>0, <1>2 DEF Tick, Commit, coreVars
<1>3. CASE Abort
  <2>1. paid' = 0
    BY <1>3 DEF Abort, Restore, Inv, Before, Idle
  <2> QED BY <1>0, <2>1
<1>4. ASSUME NEW i \in DOMAIN frames, Throw(i) PROVE FALSE
  <2>1. tx # None /\ paid' = frames[i].saved.paid
    BY <1>4 DEF Throw, Restore, Idle
  <2>2. frames \in Seq(SponsoredFrame) /\ Nested(now, txCount, tx, frames, Snapshot)
    BY <2>1 DEF Inv
  <2>3. i \in 1 .. Len(frames)
    BY <2>2
  <2>4. frames[i].saved \in Books /\ Since(now, frames[i].saved, Snapshot)
    BY <2>2, <2>3, FramesTyped DEF Nested
  <2>5. frames[i].saved.paid \in Nat /\ frames[i].saved.paid <= paid
    BY <2>4 DEF Books, Since, Snapshot
  <2> QED BY <1>0, <2>1, <2>5
<1>5. CASE \/ \E p \in Principal, fee \in Fee : Begin(p, fee)
           \/ \E p \in Sponsor, x \in Amount : OnNEP17Payment(p, x)
           \/ \E x \in Amount : WithdrawDeposit(x)
           \/ \E k \in Scope : RevokePolicy(k) \/ \E p \in Policy : SetPolicy(k, p)
           \/ \E a \in Account, op \in Operation, s \in Sponsor, x \in Amount :
                ExecuteSponsoredUserOp(a, op, s, x)
  BY <1>0, <1>5 DEF Begin, OnNEP17Payment, WithdrawDeposit, RevokePolicy, SetPolicy,
     ExecuteSponsoredUserOp, coreVars
<1> QED BY <1>1, <1>2, <1>3, <1>4, <1>5 DEF Next

LEMMA BudgetStep ==
  ASSUME Inv, Inv', [Next]_vars
  PROVE  BudgetKept
<1> SUFFICES ASSUME NEW s \in Sponsor, NEW k \in Scope, Paying(s, k), NEW p, p = policy[s][k],
                    NEW opened, opened = dailyReset'[s][k]
             PROVE  /\ p.totalBudget > 0 => SumOver(spent'[s][k], Time) <= p.totalBudget
                    /\ p.dailyBudget > 0 => SumOver(spent'[s][k], opened .. now) <= p.dailyBudget
                    /\ opened # dailyReset[s][k] => opened >= dailyReset[s][k] + Day
                    /\ opened > now - Day
  BY DEF BudgetKept
<1>1. SettleSponsoredUserOp /\ spent'[s][k][now] > spent[s][k][now]
  BY WhoPays DEF Paying
<1>2. PICK f : f = frames[Len(frames)]
  OBVIOUS
<1>3. PICK key : key = SpendingKey(f.sponsor, f.account)
  OBVIOUS
<1>4. /\ f.sponsor \in Sponsor /\ f.amount \in Nat /\ f.amount > 0 /\ key \in Scope
      /\ SettlementAccepted(f.sponsor, f.account, f.op, f.amount)
      /\ Pays(f.sponsor, key, f.amount) /\ UNCHANGED <<now, policy>>
  BY <1>1, <1>2, <1>3, Settles
<1>5. /\ Typed /\ Typed' /\ AllCounted' /\ now \in Time /\ now \in Nat
      /\ Day \in Nat /\ Day > 0
  BY OrderedNow, OrderedNext, SponsorshipAssumption DEF Inv, Time
<1>6. /\ dailySpent[s][k] \in Nat /\ dailyReset[s][k] \in Nat /\ totalSpent[s][k] \in Nat
      /\ spent[s][k] \in [Time -> Nat]
  BY <1>5 DEF Typed
<1>7. /\ dailySpent'[s][k] \in Nat /\ dailyReset'[s][k] \in Nat /\ totalSpent'[s][k] \in Nat
      /\ spent'[s][k] \in [Time -> Nat]
  BY <1>5 DEF Typed
<1>8. s = f.sponsor /\ k = key
  <2>1. spent'[s][k] # spent[s][k]
    BY <1>1, <1>5, <1>6
  <2> QED BY <1>4, <2>1 DEF Pays
<1>9. /\ dailySpent'[s][k] =
            (IF now >= dailyReset[s][k] + Day THEN 0 ELSE dailySpent[s][k]) + f.amount
      /\ dailyReset'[s][k] = IF now >= dailyReset[s][k] + Day THEN now ELSE dailyReset[s][k]
      /\ totalSpent'[s][k] = totalSpent[s][k] + f.amount
  BY <1>4, <1>8 DEF Pays
<1>10. Counted(now, dailySpent'[s][k], dailyReset'[s][k], totalSpent'[s][k], spent'[s][k])
  BY <1>4, <1>5 DEF AllCounted
<1>11. /\ SumOver(spent'[s][k], Time) = totalSpent'[s][k]
       /\ SumOver(spent'[s][k], opened .. now) = dailySpent'[s][k]
  BY <1>5, <1>7, <1>10, CountedWithin
<1>12. p # None /\ p \in SponsorshipPolicy
  <2>1. p # None
    BY <1>3, <1>4, <1>8 DEF SettlementAccepted, ResolvePolicy
  <2> QED BY <1>5, <2>1, SponsorshipAssumption DEF Typed
<1>13. p.dailyBudget \in Nat /\ p.totalBudget \in Nat
  BY <1>12 DEF SponsorshipPolicy
<1>14. /\ p.dailyBudget = 0 \/ (IF now >= dailyReset[s][k] + Day THEN 0 ELSE dailySpent[s][k]) + f.amount
                                <= p.dailyBudget
       /\ p.totalBudget = 0 \/ totalSpent[s][k] + f.amount <= p.totalBudget
  BY <1>3, <1>4, <1>8 DEF SettlementAccepted, ResolvePolicy, GetDailySpent, WindowOver
<1> QED BY <1>5, <1>6, <1>9, <1>11, <1>13, <1>14

(* The spending of a window, at a time and for what the books say.          *)
SpentToday(n, day, reset) == IF n >= reset + Day THEN 0 ELSE day

(* What an exception puts back is, of one scope, what there is already, or  *)
(* its total would differ; or it was spent before the counters were cleared.*)
LEMMA RestoredSpending ==
  ASSUME NEW n \in Time, NEW day \in Nat, NEW reset \in Nat, NEW total \in Nat,
         NEW payments \in [Time -> Nat], Counted(n, day, reset, total, payments),
         NEW day2 \in Nat, NEW reset2 \in Nat, NEW total2,
         Grown(n, day, reset, total, day2, reset2, total2), total = total2
  PROVE  SpentToday(n, day, reset) <= SpentToday(n, day2, reset2)
<1>1. day <= total
  BY CountedWithin
<1> QED BY <1>1 DEF Grown, SpentToday

LEMMA RestoredToday ==
  ASSUME Inv, NEW e \in Books, InOrder(now, e), Since(now, e, Snapshot), Restore(e),
         UNCHANGED now, NEW s \in Sponsor, NEW k \in Scope, totalSpent'[s][k] = totalSpent[s][k]
  PROVE  GetDailySpent(s, k)' <= GetDailySpent(s, k)
<1>1. Typed /\ now \in Time
  BY OrderedNow DEF Inv
<1>2. /\ e.counters[1] \in [Sponsor -> [Scope -> Nat]]
      /\ e.counters[2] \in [Sponsor -> [Scope -> Nat]]
      /\ e.counters[3] \in [Sponsor -> [Scope -> Nat]]
      /\ e.counters[4] \in [Sponsor -> [Scope -> [Time -> Nat]]]
  BY DEF Books
<1>3. /\ Counted(now, e.counters[1][s][k], e.counters[2][s][k], e.counters[3][s][k],
                 e.counters[4][s][k])
      /\ Grown(now, e.counters[1][s][k], e.counters[2][s][k], e.counters[3][s][k],
               dailySpent[s][k], dailyReset[s][k], totalSpent[s][k])
  BY DEF InOrder, Since, Snapshot, counters
<1>4. /\ dailySpent'[s][k] = e.counters[1][s][k] /\ dailyReset'[s][k] = e.counters[2][s][k]
      /\ totalSpent'[s][k] = e.counters[3][s][k]
  BY DEF Restore
<1>5. dailySpent[s][k] \in Nat /\ dailyReset[s][k] \in Nat
  BY <1>1 DEF Typed
<1>6. /\ e.counters[1][s][k] \in Nat /\ e.counters[2][s][k] \in Nat
      /\ e.counters[3][s][k] \in Nat /\ e.counters[4][s][k] \in [Time -> Nat]
  BY <1>2
<1>7. e.counters[3][s][k] = totalSpent[s][k]
  BY <1>4
<1>8. SpentToday(now, e.counters[1][s][k], e.counters[2][s][k])
        <= SpentToday(now, dailySpent[s][k], dailyReset[s][k])
  BY <1>1, <1>3, <1>5, <1>6, <1>7, RestoredSpending
<1> QED BY <1>4, <1>8 DEF SpentToday, GetDailySpent, WindowOver

(* Without a payment or a clearing in a scope, no step adds to the spending *)
(* of its window.                                                           *)
LEMMA TodayStep ==
  ASSUME Inv, [Next]_vars, NEW s \in Sponsor, NEW k \in Scope,
         totalSpent'[s][k] = totalSpent[s][k]
  PROVE  GetDailySpent(s, k)' <= GetDailySpent(s, k)
<1>0. /\ Typed /\ now \in Nat /\ Day \in Nat
      /\ dailySpent[s][k] \in Nat /\ dailyReset[s][k] \in Nat /\ totalSpent[s][k] \in Nat
  <2>1. Typed /\ now \in Nat /\ Day \in Nat
    BY OrderedNow, SponsorshipAssumption DEF Inv, Time
  <2> QED BY <2>1 DEF Typed
<1>1. CASE UNCHANGED <<dailySpent, dailyReset>> /\ now' \in {now, now + 1}
  BY <1>0, <1>1 DEF GetDailySpent, WindowOver
<1>2. CASE UNCHANGED vars
  BY <1>1, <1>2 DEF vars, paymasterVars, counters
<1>3. CASE Tick \/ Commit
  BY <1>1, <1>3 DEF Tick, Commit, paymasterVars, counters
<1>4. CASE \/ \E p \in Principal, fee \in Fee : Begin(p, fee)
           \/ \E p \in Sponsor, x \in Amount : OnNEP17Payment(p, x)
           \/ \E x \in Amount : WithdrawDeposit(x)
           \/ \E b \in Scope, p \in Policy : SetPolicy(b, p)
           \/ \E a \in Account, op \in Operation, q \in Sponsor, x \in Amount :
                ExecuteSponsoredUserOp(a, op, q, x)
  BY <1>1, <1>4 DEF Begin, OnNEP17Payment, WithdrawDeposit, SetPolicy,
     ExecuteSponsoredUserOp, paymasterVars, counters
<1>5. ASSUME NEW b \in Scope, RevokePolicy(b)
      PROVE  GetDailySpent(s, k)' <= GetDailySpent(s, k)
  <2>1. PICK t \in Sponsor : t = tx.sender
    BY <1>5 DEF RevokePolicy
  <2>2. /\ dailySpent' = [dailySpent EXCEPT ![t][b] = 0]
        /\ dailyReset' = [dailyReset EXCEPT ![t][b] = 0] /\ now' = now
    BY <1>5, <2>1 DEF RevokePolicy, ClearSpendingCounters
  <2>3. CASE s = t /\ k = b
    <3>1. dailySpent'[s][k] = 0
      BY <1>0, <2>2, <2>3 DEF Typed
    <3> QED BY <1>0, <3>1 DEF GetDailySpent
  <2>4. CASE s # t \/ k # b
    <3>1. dailySpent'[s][k] = dailySpent[s][k] /\ dailyReset'[s][k] = dailyReset[s][k]
      BY <1>0, <2>1, <2>2, <2>4, EntryChanges DEF Typed
    <3> QED BY <1>0, <2>2, <3>1 DEF GetDailySpent, WindowOver
  <2> QED BY <2>3, <2>4
<1>6. CASE SettleSponsoredUserOp
  <2>1. PICK f : f = frames[Len(frames)]
    OBVIOUS
  <2>2. PICK key : key = SpendingKey(f.sponsor, f.account)
    OBVIOUS
  <2>3. /\ f.amount \in Nat /\ f.amount > 0 /\ Pays(f.sponsor, key, f.amount) /\ now' = now
    BY <1>6, <2>1, <2>2, Settles
  <2>4. s # f.sponsor \/ k # key
    BY <1>0, <2>3 DEF Pays
  <2>5. dailySpent'[s][k] = dailySpent[s][k] /\ dailyReset'[s][k] = dailyReset[s][k]
    BY <2>3, <2>4 DEF Pays
  <2> QED BY <1>0, <2>3, <2>5 DEF GetDailySpent, WindowOver
<1>7. CASE Abort
  <2>1. PICK e \in Books : e = tx.saved
    BY <1>7 DEF Abort, Idle, Inv
  <2>2. InOrder(now, e) /\ Since(now, e, Snapshot) /\ Restore(e) /\ UNCHANGED now
    BY <1>7, <2>1 DEF Abort, Idle, Inv, Before, Nested
  <2> QED BY <2>2, RestoredToday
<1>8. ASSUME NEW i \in DOMAIN frames, Throw(i)
      PROVE  GetDailySpent(s, k)' <= GetDailySpent(s, k)
  <2>1. frames \in Seq(SponsoredFrame) /\ Nested(now, txCount, tx, frames, Snapshot)
    BY <1>8 DEF Throw, Idle, Inv
  <2>2. i \in 1 .. Len(frames)
    BY <2>1
  <2>3. PICK e \in Books : e = frames[i].saved
    BY <2>1, <2>2, FramesTyped
  <2>4. InOrder(now, e) /\ Since(now, e, Snapshot) /\ Restore(e) /\ UNCHANGED now
    BY <1>8, <2>1, <2>2, <2>3 DEF Throw, Nested
  <2> QED BY <2>4, RestoredToday
<1> QED BY <1>2, <1>3, <1>4, <1>5, <1>6, <1>7, <1>8 DEF Next

LEMMA PromiseStep ==
  ASSUME Inv, Inv', [Next]_vars
  PROVE  PromiseStands
<1> SUFFICES ASSUME NEW s \in Sponsor, NEW a \in Account, NEW op \in Operation, NEW x \in Amount,
                    ValidatePaymasterOp(s, a, op, x),
                    ~(deposit'[s] < deposit[s]), policy'[s] = policy[s],
                    totalSpent'[s] = totalSpent[s],
                    ResolvePolicy(s, a).validUntil \notin now .. now' - 1
             PROVE  SettlementAccepted(s, a, op, x)'
  BY DEF PromiseStands
<1>1. PICK key : key = SpendingKey(s, a)
  OBVIOUS
<1>2. PICK p : p = policy[s][key]
  OBVIOUS
<1>3. /\ Typed /\ Typed' /\ now \in Nat /\ x \in Nat /\ key \in Scope
  BY <1>1, OrderedNow, OrderedNext, SponsorshipAssumption DEF Inv, Time, SpendingKey, Scope
<1>4. now' \in {now, now + 1}
  BY <1>3 DEF Next, vars, Tick, Commit, Abort, Begin, OnNEP17Payment, WithdrawDeposit,
     RevokePolicy, SetPolicy, ExecuteSponsoredUserOp, SettleSponsoredUserOp, Throw
<1>5. /\ x > 0 /\ p # None /\ (p.validUntil > 0 => now <= p.validUntil) /\ op \in p.allows
      /\ x <= p.maxPerOp
      /\ p.dailyBudget > 0 => GetDailySpent(s, key) + x <= p.dailyBudget
      /\ p.totalBudget > 0 => totalSpent[s][key] + x <= p.totalBudget
      /\ deposit[s] >= x
  BY <1>1, <1>2 DEF ValidatePaymasterOp, ResolvePolicy
<1>6. /\ p.maxPerOp \in Nat /\ p.dailyBudget \in Nat /\ p.totalBudget \in Nat
      /\ p.validUntil \in Nat
  <2>1. p \in Policy
    BY <1>2, <1>3, <1>5 DEF Typed
  <2> QED BY <2>1, SponsorshipAssumption DEF SponsorshipPolicy
<1>7. SpendingKey(s, a)' = key /\ ResolvePolicy(s, a)' = p
  <2>1. SpendingKey(s, a)' = key
    BY <1>1 DEF SpendingKey
  <2> QED BY <1>2, <2>1 DEF ResolvePolicy
<1>8. ~(p.validUntil > 0 /\ now' > p.validUntil)
  BY <1>1, <1>2, <1>3, <1>4, <1>5, <1>6 DEF ResolvePolicy
<1>9. /\ deposit[s] \in Nat /\ deposit'[s] \in Nat /\ dailySpent[s][key] \in Nat
      /\ dailySpent'[s][key] \in Nat /\ totalSpent[s][key] \in Nat
  BY <1>3 DEF Typed
<1>10. x <= deposit'[s]
  BY <1>3, <1>5, <1>9
<1>11. GetDailySpent(s, key)' <= GetDailySpent(s, key)
  BY <1>3, TodayStep
<1>12. GetDailySpent(s, key) \in Nat /\ GetDailySpent(s, key)' \in Nat
  BY <1>9 DEF GetDailySpent
<1>13. PICK today : today = GetDailySpent(s, key)'
  OBVIOUS
<1>14. p.dailyBudget = 0 \/ today + x <= p.dailyBudget
  BY <1>3, <1>5, <1>6, <1>11, <1>12, <1>13
<1>15. p.totalBudget = 0 \/ totalSpent'[s][key] + x <= p.totalBudget
  BY <1>5, <1>6
<1>16. today = IF now' >= dailyReset'[s][key] + Day THEN 0 ELSE dailySpent'[s][key]
  BY <1>13 DEF GetDailySpent, WindowOver
<1>17. /\ policy'[s][key] = p
       /\ key = IF policy'[s][a] # None THEN a ELSE Global
  BY <1>7 DEF SpendingKey, ResolvePolicy
<1> QED BY <1>5, <1>8, <1>10, <1>14, <1>15, <1>16, <1>17
        DEF SettlementAccepted, ResolvePolicy, SpendingKey, GetDailySpent, WindowOver

(* The paymaster's GAS is what its sponsors have left, and its counters are *)
(* what it has paid, at every moment of every transaction                   *)
(* (AAPaymaster.SettleReimbursement).                                       *)
THEOREM BooksAgree ==
  ASSUME MissingAssumption
  PROVE  Spec => []BooksBalance
<1> QED BY InitInv, InvStep, BooksInOrder, PTL DEF Spec

(* However operations nest, throw and are sponsored, a relay is not         *)
(* reimbursed more than the fees of its transaction                         *)
(* (UnifiedSmartWallet.ReserveTransactionReimbursement).                    *)
THEOREM FeesBound ==
  ASSUME MissingAssumption
  PROVE  Spec => []ReimbursedAtMostFees
<1> QED BY InitInv, InvStep, FeesInOrder, PTL DEF Spec
(* A payment leaves everything paid in its scope within the budgets of the  *)
(* policy in force, and opens a window only when the last one is a day old  *)
(* (AAPaymaster.SettleReimbursement, UpdateDailySpent, UpdateTotalSpent).   *)
THEOREM BudgetsKept ==
  ASSUME MissingAssumption
  PROVE  Spec => PaymentsWithinBudget
<1> QED BY InitInv, InvStep, BudgetStep, PTL DEF Spec, PaymentsWithinBudget
(* A relay that the preflight told yes is told yes by the settlement, until *)
(* the sponsor's deposit, policies or spending change or the policy expires *)
(* (AAPaymaster.ValidatePaymasterOp, SettleReimbursement).                  *)
THEOREM PreflightHeld ==
  ASSUME MissingAssumption
  PROVE  Spec => PreflightHolds
<1> QED BY InitInv, InvStep, PromiseStep, PTL DEF Spec, PreflightHolds

=============================================================================
