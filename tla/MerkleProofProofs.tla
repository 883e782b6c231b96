------------------------- MODULE MerkleProofProofs -------------------------
(***************************************************************************)
(* Lemmas about the hashing vocabulary of MerkleProof: an induction rule   *)
(* over intervals of naturals, the arithmetic of powers of two and of the  *)
(* bits of a number, and the equations that the recursive functions       *)
(* PristineHash and ProofRoot satisfy.                                     *)
(*                                                                         *)
(* Induction is by a least counterexample: the naturals are well founded  *)
(* (NatLessThanWellFounded), so a nonempty set of them has a least member  *)
(* (WFMin).  A recursive function definition f[i \in m..n] == ... is a     *)
(* CHOOSE; FiniteNatInductiveDef shows that the chosen function satisfies  *)
(* its equation, given the step of the recursion as a named operator.      *)
(***************************************************************************)
EXTENDS MerkleProof, NaturalsInduction, WellFoundedInduction, TLAPS

(* A nonempty set of naturals has a least member.                         *)
LEMMA LeastNat ==
    ASSUME NEW T \in SUBSET Nat, T # {}
    PROVE  \E x \in T : \A y \in T : ~(y < x)
<1>1. \E x \in T : \A y \in T : ~(<<y, x>> \in OpToRel(<, Nat))
  BY WFMin, NatLessThanWellFounded
<1>. QED BY <1>1 DEF OpToRel

(***************************************************************************)
(* Induction over an interval of naturals: a set that holds a and holds    *)
(* i + 1 whenever it holds i < b holds every number from a to b.           *)
(***************************************************************************)
InductiveOn(S, a, b) ==
    a \in S /\ \A i \in a..(b - 1) : i \in S => i + 1 \in S

LEMMA IntervalInduction ==
    ASSUME NEW a \in Nat, NEW b \in Int, NEW S, InductiveOn(S, a, b)
    PROVE  a..b \subseteq S
<1> USE DEF InductiveOn
<1> DEFINE T == {i \in a..b : i \notin S}
<1> SUFFICES ASSUME T # {} PROVE FALSE
  OBVIOUS
<1>1. T \in SUBSET Nat
  OBVIOUS
<1>2. PICK x \in T : \A y \in T : ~(y < x)
  BY <1>1, LeastNat
<1>3. x # a /\ x - 1 \in a..(b - 1)
  BY <1>2
<1>4. x - 1 \in S
  BY <1>2, <1>3
<1>. QED BY <1>2, <1>3, <1>4

-----------------------------------------------------------------------------
(* Every power of two up to one above the root size is a positive natural. *)
LEMMA PowPos ==
    \A a \in 0..(LOG2_ROOT_SIZE + 1) : 2^a \in Nat \ {0}
<1> DEFINE S == {a \in Nat : 2^a \in Nat \ {0}}
<1>1. InductiveOn(S, 0, LOG2_ROOT_SIZE + 1)
  BY PowerAssumption, SizesAssumption DEF InductiveOn
<1>2. 0..(LOG2_ROOT_SIZE + 1) \subseteq S
  BY <1>1, SizesAssumption, IntervalInduction
<1>. QED BY <1>2

(* The quotient is bounded by the divisor: d * (n \div d) <= n < d * (n \div d) + d. *)
LEMMA DivBounds ==
    ASSUME NEW n \in Int, NEW d \in Nat \ {0}
    PROVE  /\ n \div d \in Int
           /\ d * (n \div d) <= n
           /\ n < d * (n \div d) + d
           /\ n % d = n - d * (n \div d)
BY SMT

(* The quotient is the unique q with d * q <= n < d * q + d.             *)
LEMMA DivUnique ==
    ASSUME NEW n \in Int, NEW d \in Nat \ {0}, NEW q \in Int,
           d * q <= n, n < d * q + d
    PROVE  n \div d = q
<1> DEFINE q1 == n \div d
<1>1. q1 \in Int /\ d * q1 <= n /\ n < d * q1 + d
  BY DivBounds
<1>2. CASE q1 < q
  <2>1. d * q1 + d <= d * q
    BY <1>1, <1>2, SMT
  <2>. QED BY <1>1, <2>1, SMT
<1>3. CASE q < q1
  <2>1. d * q + d <= d * q1
    BY <1>1, <1>3, SMT
  <2>. QED BY <1>1, <2>1, SMT
<1>. QED BY <1>1, <1>2, <1>3, SMT

(* Dividing by 2x is dividing by x, then by 2.                              *)
LEMMA DivTwice ==
    ASSUME NEW n \in Nat, NEW x \in Nat \ {0}
    PROVE  n \div (2 * x) = (n \div x) \div 2
<1> DEFINE q == n \div x   q2 == q \div 2
<1>1. q \in Int /\ x * q <= n /\ n < x * q + x
  BY DivBounds
<1>2. q2 \in Int /\ 2 * q2 <= q /\ q < 2 * q2 + 2
  BY <1>1, DivBounds
<1>3. x * (2 * q2) <= x * q /\ x * q + x <= x * (2 * q2) + 2 * x
  BY <1>1, <1>2, SMT
<1> DEFINE d == 2 * x
<1>4. d \in Nat \ {0} /\ d * q2 <= n /\ n < d * q2 + d
  BY <1>1, <1>3, SMT
<1> HIDE DEF d, q, q2
<1>5. n \div d = q2
  BY <1>2, <1>4, DivUnique
<1>. QED BY <1>5 DEF d, q, q2

(* The quotient by 2^(i+1) is the quotient by 2^i halved.                *)
LEMMA DivPowStep ==
    ASSUME NEW n \in Nat, NEW i \in 0..LOG2_ROOT_SIZE
    PROVE  /\ n \div 2^(i + 1) = (n \div 2^i) \div 2
           /\ n \div 2^i = 2 * (n \div 2^(i + 1)) + (IF Bit(n, i) THEN 1 ELSE 0)
<1> DEFINE x == 2^i  y == 2^(i + 1)  t == n \div x
<1>1. x \in Nat \ {0} /\ y = 2 * x
  BY PowPos, PowerAssumption, SizesAssumption
<1> HIDE DEF x, y
<1>2. n \div y = t \div 2
  BY <1>1, DivTwice
<1>3. t \in Nat
  BY <1>1
<1> HIDE DEF t
<1>4. t = 2 * (t \div 2) + (t % 2) /\ (t % 2) \in 0..1
  BY <1>3
<1>. QED BY <1>2, <1>4 DEF Bit, x, y, t

(***************************************************************************)
(* pristine_merkle_tree::get_hash: the table satisfies its defining        *)
(* equation, the zero word's hash at the bottom and equal-child doubling   *)
(* above it.                                                               *)
(***************************************************************************)
PristineStep(v, h) == GetConcatHash(v, v)

LEMMA PristineHashDef ==
    PristineHash = [h \in LOG2_WORD_SIZE..LOG2_ROOT_SIZE |->
                      IF h = LOG2_WORD_SIZE
                      THEN ZeroWordHash
                      ELSE GetConcatHash(PristineHash[h - 1], PristineHash[h - 1])]
<1>1. FiniteNatInductiveDefHypothesis(PristineHash, ZeroWordHash, PristineStep,
                                      LOG2_WORD_SIZE, LOG2_ROOT_SIZE)
  BY DEF FiniteNatInductiveDefHypothesis, PristineHash, PristineStep
<1>2. FiniteNatInductiveDefConclusion(PristineHash, ZeroWordHash, PristineStep,
                                      LOG2_WORD_SIZE, LOG2_ROOT_SIZE)
  BY <1>1, SizesAssumption, FiniteNatInductiveDef
<1>. QED BY <1>2 DEF FiniteNatInductiveDefConclusion, PristineStep

(* Above the word size, a pristine subtree is two equal pristine halves.  *)
LEMMA PristineUp ==
    ASSUME NEW h \in (LOG2_WORD_SIZE + 1)..LOG2_ROOT_SIZE
    PROVE  PristineHash[h] = GetConcatHash(PristineHash[h - 1], PristineHash[h - 1])
<1>1. h \in LOG2_WORD_SIZE..LOG2_ROOT_SIZE /\ h # LOG2_WORD_SIZE
  BY SizesAssumption
<1>. QED BY <1>1, PristineHashDef

(***************************************************************************)
(* Shifting a number left by a bits moves its bits up by a: the quotient  *)
(* of n * 2^a by 2^(a+i) is the quotient of n by 2^i, so bit a + i of the *)
(* shifted number is bit i of n.                                           *)
(***************************************************************************)
LEMMA ShiftQuotient ==
    ASSUME NEW n \in Nat, NEW a \in 0..LOG2_ROOT_SIZE
    PROVE  \A i \in 0..(LOG2_ROOT_SIZE - a) :
               (n * 2^a) \div 2^(a + i) = n \div 2^i
<1> DEFINE S == {i \in Nat : (n * 2^a) \div 2^(a + i) = n \div 2^i}
<1>1. 0 \in S
  <2> DEFINE x == 2^a
  <2>1. x \in Nat \ {0} /\ 2^(a + 0) = x /\ 2^0 = 1
    BY PowPos, PowerAssumption, SizesAssumption
  <2> HIDE DEF x
  <2>2. (n * x) \div x = n /\ n \div 1 = n
    BY <2>1, DivUnique
  <2>. QED BY <2>1, <2>2
<1>2. \A i \in 0..(LOG2_ROOT_SIZE - a - 1) : i \in S => i + 1 \in S
  <2> SUFFICES ASSUME NEW i \in 0..(LOG2_ROOT_SIZE - a - 1), i \in S
               PROVE  i + 1 \in S
    OBVIOUS
  <2>1. n * 2^a \in Nat
    BY PowPos, SizesAssumption
  <2>2. a + i \in 0..LOG2_ROOT_SIZE /\ i \in 0..LOG2_ROOT_SIZE /\ a + i + 1 = a + (i + 1)
    BY SizesAssumption
  <2>3. (n * 2^a) \div 2^(a + i + 1) = ((n * 2^a) \div 2^(a + i)) \div 2
    BY <2>1, <2>2, DivPowStep, Zenon
  <2>4. n \div 2^(i + 1) = (n \div 2^i) \div 2
    BY <2>2, DivPowStep, Zenon
  <2>5. (n * 2^a) \div 2^(a + i) = n \div 2^i
    BY DEF S
  <2>6. (n * 2^a) \div 2^(a + (i + 1)) = n \div 2^(i + 1)
    BY <2>2, <2>3, <2>4, <2>5
  <2>. QED BY <2>6 DEF S
<1>3. 0..(LOG2_ROOT_SIZE - a) \subseteq S
  <2>1. InductiveOn(S, 0, LOG2_ROOT_SIZE - a)
    BY <1>1, <1>2 DEF InductiveOn
  <2>2. 0 \in Nat /\ LOG2_ROOT_SIZE - a \in Int
    BY SizesAssumption
  <2> HIDE DEF S
  <2>. QED BY <2>1, <2>2, IntervalInduction
<1>. QED BY <1>3

(* merkle_tree_proof::bubble_up as a function of the log2 size reached.   *)
ProofFold(p) ==
    LET fold[s \in p.log2_target_size..p.log2_root_size] ==
            IF s = p.log2_target_size
            THEN p.target_hash
            ELSE IF Bit(p.target_address, s - 1)
                 THEN GetConcatHash(p.siblings[s - 1], fold[s - 1])
                 ELSE GetConcatHash(fold[s - 1], p.siblings[s - 1])
    IN  fold

(***************************************************************************)
(* The root a proof folds up to: the target hash at the target size, and   *)
(* above it the sibling combined on the side the target address names.     *)
(***************************************************************************)
LEMMA ProofFoldDef ==
    ASSUME NEW p, p.log2_target_size \in Nat, p.log2_root_size \in Nat
    PROVE  /\ ProofRoot(p) = ProofFold(p)[p.log2_root_size]
           /\ ProofFold(p) =
                [s \in p.log2_target_size..p.log2_root_size |->
                    IF s = p.log2_target_size
                    THEN p.target_hash
                    ELSE IF Bit(p.target_address, s - 1)
                         THEN GetConcatHash(p.siblings[s - 1], ProofFold(p)[s - 1])
                         ELSE GetConcatHash(ProofFold(p)[s - 1], p.siblings[s - 1])]
<1> DEFINE Step(v, s) ==
        IF Bit(p.target_address, s - 1)
        THEN GetConcatHash(p.siblings[s - 1], v)
        ELSE GetConcatHash(v, p.siblings[s - 1])
<1>1. ProofRoot(p) = ProofFold(p)[p.log2_root_size]
  BY DEF ProofRoot, ProofFold
<1>2. FiniteNatInductiveDefHypothesis(ProofFold(p), p.target_hash, Step,
                                      p.log2_target_size, p.log2_root_size)
  BY DEF FiniteNatInductiveDefHypothesis, ProofFold
<1>3. FiniteNatInductiveDefConclusion(ProofFold(p), p.target_hash, Step,
                                      p.log2_target_size, p.log2_root_size)
  BY <1>2, FiniteNatInductiveDef
<1>. QED BY <1>1, <1>3 DEF FiniteNatInductiveDefConclusion

=============================================================================
