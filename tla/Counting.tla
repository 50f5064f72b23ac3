------------------------------ MODULE Counting ------------------------------
(***************************************************************************)
(* How the sizes of finite sets change: what the proofs that count         *)
(* workers, requests or entries of a window have in common.                *)
(***************************************************************************)
EXTENDS Integers, Sequences, FiniteSetTheorems, TLAPS

(* A set that changes by at most one element grows or shrinks by at most   *)
(* one.                                                                    *)
LEMMA CountMoves ==
    ASSUME NEW S, NEW T, NEW x, IsFiniteSet(S), T \ {x} = S \ {x}
    PROVE  /\ IsFiniteSet(T)
           /\ Cardinality(S) \in Nat /\ Cardinality(T) \in Nat
           /\ Cardinality(T) = Cardinality(S) + (IF x \in T THEN 1 ELSE 0)
                                              - (IF x \in S THEN 1 ELSE 0)
<1>. DEFINE R == S \ {x}
<1>1. /\ IsFiniteSet(R) /\ Cardinality(S) \in Nat /\ Cardinality(R) \in Nat
      /\ Cardinality(R) = IF x \in S THEN Cardinality(S) - 1
                                     ELSE Cardinality(S)
  BY FS_RemoveElement, FS_CardinalityType
<1>2. IsFiniteSet(R \cup {x}) /\ x \notin R
      /\ Cardinality(R \cup {x}) = Cardinality(R) + 1
  BY <1>1, FS_AddElement
<1>3. x \in T => T = R \cup {x}
  OBVIOUS
<1>4. x \notin T => T = R
  OBVIOUS
<1>. HIDE DEF R
<1>5. CASE x \in T
  <2>1. IsFiniteSet(T) /\ Cardinality(T) = Cardinality(R) + 1
    BY <1>2, <1>3, <1>5
  <2>. QED  BY <1>1, <1>5, <2>1
<1>6. CASE x \notin T
  <2>1. IsFiniteSet(T) /\ Cardinality(T) = Cardinality(R)
    BY <1>1, <1>4, <1>6
  <2>. QED  BY <1>1, <1>6, <2>1
<1>. QED  BY <1>5, <1>6

(* A set of numbers is not larger when each of its members plus k is in    *)
(* the other one.                                                          *)
LEMMA ShiftCount ==
    ASSUME NEW S \in SUBSET Int, NEW T \in SUBSET Int, NEW k \in Int,
           IsFiniteSet(T), \A i \in S : i + k \in T
    PROVE  IsFiniteSet(S) /\ Cardinality(S) <= Cardinality(T)
<1>. DEFINE f == [i \in S |-> i + k]
<1>1. f \in [S -> T]
  OBVIOUS
<1>2. \A a, b \in S : f[a] = f[b] => a = b
  OBVIOUS
<1>3. f \in Injection(S, T)
  BY <1>1, <1>2 DEF Injection, IsInjective
<1>. QED  BY <1>3, FS_Injection

=============================================================================
