----------------------------- MODULE SumTheorems -----------------------------
(***************************************************************************)
(* What the sum over a finite set (SumFunctionOnSet of Functions) is, for  *)
(* every set and every function: the totals of OrderService and the count  *)
(* of errors of Telemetry rest on it.                                      *)
(*                                                                         *)
(* The sum is a recursive function over the subsets of the set.  Facts     *)
(* about it need an induction, and the one used here is first order: a set *)
(* of numbers that is not empty has a smallest element (WFMin), so a set   *)
(* with 0 that is closed under successor is all of Nat.                    *)
(***************************************************************************)
EXTENDS Integers, FiniteSets, Functions, FiniteSetTheorems, WellFoundedInduction, TLAPS

(* A set of numbers has a smallest element.                                *)
LEMMA Smallest ==
    ASSUME NEW T \in SUBSET Nat, T # {}
    PROVE  \E x \in T : \A y \in T : x <= y
<1>1. PICK R : R = OpToRel(<, Nat)
  OBVIOUS
<1>2. IsWellFoundedOn(R, Nat)
  BY <1>1, NatLessThanWellFounded
<1>3. \A y, x \in Nat : y < x => <<y, x>> \in R
  BY <1>1 DEF OpToRel
<1>4. PICK x \in T : \A y \in T : ~ (<<y, x>> \in R)
  BY <1>2, WFMin
<1>5. \A y \in T : y \in Nat /\ ~ (y < x)
  BY <1>3, <1>4
<1>6. QED
  BY <1>5

(* Induction over the natural numbers, of a set instead of a predicate.    *)
LEMMA SetInduction ==
    ASSUME NEW T, 0 \in T, \A n \in Nat : n \in T => n + 1 \in T
    PROVE  Nat \subseteq T
<1> SUFFICES ASSUME Nat \ T # {} PROVE FALSE
  OBVIOUS
<1>1. PICK x \in Nat \ T : \A y \in Nat \ T : x <= y
  BY Smallest
<1>2. x # 0 /\ x - 1 \in Nat /\ x - 1 \in T
  BY <1>1
<1>3. QED
  BY <1>2

-----------------------------------------------------------------------------
(* The recursion.                                                          *)

(* The element the sum takes out of s first, and one step of the sum.      *)
First(s) == CHOOSE x \in s : TRUE
SumStep(fun, g, s) == IF s = {} THEN 0 ELSE fun[First(s)] + g[s \ {First(s)}]

(* Subsets of S with at most k elements.                                   *)
UpTo(S, k) == {s \in SUBSET S : Cardinality(s) <= k}

LEMMA Smaller ==
    ASSUME NEW S, IsFiniteSet(S), NEW k \in Nat, NEW s \in UpTo(S, k + 1), s # {}
    PROVE  /\ First(s) \in s
           /\ s \ {First(s)} \in UpTo(S, k)
<1>1. First(s) \in s
  BY DEF First
<1>2. IsFiniteSet(s) /\ s \in SUBSET S /\ Cardinality(s) <= k + 1
  BY FS_Subset DEF UpTo
<1>3. Cardinality(s \ {First(s)}) = Cardinality(s) - 1 /\ Cardinality(s) \in Nat
  BY <1>1, <1>2, FS_RemoveElement, FS_CardinalityType
<1>4. QED
  BY <1>1, <1>2, <1>3 DEF UpTo

LEMMA UpToAll ==
    ASSUME NEW S, IsFiniteSet(S)
    PROVE  Cardinality(S) \in Nat /\ UpTo(S, Cardinality(S)) = SUBSET S
  BY FS_Subset, FS_CardinalityType DEF UpTo

LEMMA UpToZero ==
    ASSUME NEW S, IsFiniteSet(S)
    PROVE  UpTo(S, 0) = {{}}
<1>1. ASSUME NEW s \in SUBSET S, Cardinality(s) <= 0 PROVE s = {}
  <2>1. IsFiniteSet(s) /\ Cardinality(s) \in Nat
    BY FS_Subset, FS_CardinalityType
  <2>2. Cardinality(s) = 0
    BY <1>1, <2>1
  <2>3. QED
    BY <2>1, <2>2, FS_EmptySet
<1>2. Cardinality({}) = 0
  BY FS_EmptySet
<1>3. QED
  BY <1>1, <1>2 DEF UpTo

(* A function with the equation of the recursion exists.                   *)
LEMMA SumExists ==
    ASSUME NEW S, IsFiniteSet(S), NEW fun
    PROVE  \E g : g = [s \in SUBSET S |-> SumStep(fun, g, s)]
<1> DEFINE Solved == {k \in Nat : \E g : g = [s \in UpTo(S, k) |-> SumStep(fun, g, s)]}
<1>1. 0 \in Solved
  <2>1. PICK g : g = [s \in UpTo(S, 0) |-> 0]
    OBVIOUS
  <2>2. \A s \in UpTo(S, 0) : SumStep(fun, g, s) = 0
    BY UpToZero DEF SumStep
  <2>3. g = [s \in UpTo(S, 0) |-> SumStep(fun, g, s)]
    BY <2>1, <2>2
  <2>4. QED
    BY <2>3
<1>2. ASSUME NEW k \in Nat, k \in Solved PROVE k + 1 \in Solved
  <2>1. PICK g : g = [s \in UpTo(S, k) |-> SumStep(fun, g, s)]
    BY <1>2
  <2>2. PICK h : h = [s \in UpTo(S, k + 1) |-> SumStep(fun, g, s)]
    OBVIOUS
  <2>3. \A s \in UpTo(S, k) : s \in UpTo(S, k + 1) /\ h[s] = g[s]
    <3>1. \A s \in UpTo(S, k) : s \in UpTo(S, k + 1)
      BY FS_Subset, FS_CardinalityType DEF UpTo
    <3>2. \A s \in UpTo(S, k) : g[s] = SumStep(fun, g, s)
      BY <2>1
    <3>3. QED
      BY <2>2, <3>1, <3>2
  <2>4. \A s \in UpTo(S, k + 1) : SumStep(fun, h, s) = SumStep(fun, g, s)
    BY <2>3, Smaller DEF SumStep
  <2>5. h = [s \in UpTo(S, k + 1) |-> SumStep(fun, h, s)]
    BY <2>2, <2>4
  <2>6. QED
    BY <2>5
<1>3. Cardinality(S) \in Solved
  <2>1. Nat \subseteq Solved
    BY <1>1, <1>2, SetInduction
  <2>2. QED
    BY <2>1, UpToAll
<1>4. QED
  BY <1>3, UpToAll

(* So the sum is the value of such a function.                             *)
LEMMA SumEquation ==
    ASSUME NEW S, IsFiniteSet(S), NEW fun
    PROVE  \E g : /\ g = [s \in SUBSET S |-> SumStep(fun, g, s)]
                  /\ SumFunctionOnSet(fun, S) = g[S]
<1> DEFINE Solution == CHOOSE g : g = [s \in SUBSET S |-> SumStep(fun, g, s)]
<1>1. Solution = [s \in SUBSET S |-> SumStep(fun, Solution, s)]
  BY SumExists
<1>2. SumFunctionOnSet(fun, S) = Solution[S]
  BY DEF SumFunctionOnSet, FoldFunctionOnSet, MapThenFoldSet, SumStep, First
<1>3. QED
  BY <1>1, <1>2

-----------------------------------------------------------------------------
(* What follows.                                                           *)

(* A sum of natural numbers is one.                                        *)
THEOREM SumType ==
    ASSUME NEW S, IsFiniteSet(S), NEW fun, \A x \in S : fun[x] \in Nat
    PROVE  SumFunctionOnSet(fun, S) \in Nat
<1>1. PICK g : /\ g = [s \in SUBSET S |-> SumStep(fun, g, s)]
               /\ SumFunctionOnSet(fun, S) = g[S]
  BY SumEquation
<1>2. \A s \in SUBSET S : g[s] = SumStep(fun, g, s)
  BY <1>1
<1> DEFINE Natural == {k \in Nat : \A s \in UpTo(S, k) : g[s] \in Nat}
<1>3. 0 \in Natural
  BY <1>2, UpToZero DEF SumStep
<1>4. ASSUME NEW k \in Nat, k \in Natural PROVE k + 1 \in Natural
  <2>1. ASSUME NEW s \in UpTo(S, k + 1), s # {} PROVE g[s] \in Nat
    <3>1. First(s) \in S /\ s \ {First(s)} \in UpTo(S, k)
      BY <2>1, Smaller DEF UpTo
    <3>2. g[s] = fun[First(s)] + g[s \ {First(s)}]
      BY <1>2, <2>1 DEF SumStep, UpTo
    <3>3. QED
      BY <1>4, <3>1, <3>2
  <2>2. g[{}] \in Nat
    BY <1>2 DEF SumStep
  <2>3. \A s \in UpTo(S, k + 1) : g[s] \in Nat
    BY <2>1, <2>2
  <2>4. QED
    BY <2>3
<1>5. Cardinality(S) \in Natural
  <2>1. Nat \subseteq Natural
    BY <1>3, <1>4, SetInduction
  <2>2. QED
    BY <2>1, UpToAll
<1>6. QED
  BY <1>1, <1>5, UpToAll

(* A change of one term changes the sum by as much.                        *)
THEOREM SumChange ==
    ASSUME NEW S, IsFiniteSet(S), NEW fun, \A x \in S : fun[x] \in Nat,
           NEW new, \A x \in S : new[x] \in Nat,
           NEW z \in S, \A x \in S \ {z} : new[x] = fun[x]
    PROVE  SumFunctionOnSet(new, S) = SumFunctionOnSet(fun, S) + new[z] - fun[z]
<1>1. PICK f : /\ f = [s \in SUBSET S |-> SumStep(fun, f, s)]
               /\ SumFunctionOnSet(fun, S) = f[S]
  BY SumEquation
<1>2. PICK g : /\ g = [s \in SUBSET S |-> SumStep(new, g, s)]
               /\ SumFunctionOnSet(new, S) = g[S]
  BY SumEquation
<1>3. \A s \in SUBSET S : f[s] = SumStep(fun, f, s) /\ g[s] = SumStep(new, g, s)
  BY <1>1, <1>2
<1> DEFINE Differ(s) == /\ f[s] \in Int /\ g[s] \in Int
                        /\ z \in s => g[s] = f[s] + new[z] - fun[z]
                        /\ z \notin s => g[s] = f[s]
           Related == {k \in Nat : \A s \in UpTo(S, k) : Differ(s)}
<1>4. Differ({})
  BY <1>3 DEF SumStep
<1>5. 0 \in Related
  BY <1>4, UpToZero
<1>6. ASSUME NEW k \in Nat, k \in Related PROVE k + 1 \in Related
  <2>1. ASSUME NEW s \in UpTo(S, k + 1), s # {} PROVE Differ(s)
    <3>1. First(s) \in S /\ First(s) \in s /\ s \ {First(s)} \in UpTo(S, k)
      BY <2>1, Smaller DEF UpTo
    <3>2. /\ f[s] = fun[First(s)] + f[s \ {First(s)}]
          /\ g[s] = new[First(s)] + g[s \ {First(s)}]
      BY <1>3, <2>1 DEF SumStep, UpTo
    <3>3. Differ(s \ {First(s)})
      BY <1>6, <3>1
    <3>4. fun[First(s)] \in Int /\ new[First(s)] \in Int /\ fun[z] \in Int /\ new[z] \in Int
      BY <3>1
    <3>5. CASE First(s) = z
      BY <3>1, <3>2, <3>3, <3>4, <3>5
    <3>6. CASE First(s) # z
      <4>1. new[First(s)] = fun[First(s)] /\ (z \in s <=> z \in s \ {First(s)})
        BY <3>1, <3>6
      <4>2. QED
        BY <3>2, <3>3, <3>4, <4>1
    <3>7. QED
      BY <3>5, <3>6
  <2>2. \A s \in UpTo(S, k + 1) : Differ(s)
    BY <1>4, <2>1
  <2>3. QED
    BY <2>2
<1>7. Differ(S)
  <2>1. Nat \subseteq Related
    BY <1>5, <1>6, SetInduction
  <2>2. QED
    BY <2>1, UpToAll
<1>8. QED
  BY <1>1, <1>2, <1>7

(* A sum of zeros is zero.                                                 *)
THEOREM SumOfZeros ==
    ASSUME NEW S, IsFiniteSet(S), NEW fun, \A x \in S : fun[x] = 0
    PROVE  SumFunctionOnSet(fun, S) = 0
<1>1. PICK g : /\ g = [s \in SUBSET S |-> SumStep(fun, g, s)]
               /\ SumFunctionOnSet(fun, S) = g[S]
  BY SumEquation
<1>2. \A s \in SUBSET S : g[s] = SumStep(fun, g, s)
  BY <1>1
<1> DEFINE Zeros == {k \in Nat : \A s \in UpTo(S, k) : g[s] = 0}
<1>3. 0 \in Zeros
  BY <1>2, UpToZero DEF SumStep
<1>4. ASSUME NEW k \in Nat, k \in Zeros PROVE k + 1 \in Zeros
  <2>1. ASSUME NEW s \in UpTo(S, k + 1), s # {} PROVE g[s] = 0
    <3>1. First(s) \in S /\ s \ {First(s)} \in UpTo(S, k)
      BY <2>1, Smaller DEF UpTo
    <3>2. g[s] = fun[First(s)] + g[s \ {First(s)}]
      BY <1>2, <2>1 DEF SumStep, UpTo
    <3>3. QED
      BY <1>4, <3>1, <3>2
  <2>2. g[{}] = 0
    BY <1>2 DEF SumStep
  <2>3. QED
    BY <2>1, <2>2
<1>5. Cardinality(S) \in Zeros
  <2>1. Nat \subseteq Zeros
    BY <1>3, <1>4, SetInduction
  <2>2. QED
    BY <2>1, UpToAll
<1>6. QED
  BY <1>1, <1>5, UpToAll
=============================================================================
