---------------------------- MODULE GoInt_proofs ----------------------------
(***************************************************************************)
(* Facts about Go's integers, for any width, and the least-number          *)
(* principle that the other proofs use in place of induction.              *)
(***************************************************************************)
EXTENDS GoInt, WellFoundedInduction, TLAPS

(***************************************************************************)
(* A non-empty set of naturals has a least element: the first max-age of a *)
(* header (client/metadata.go:139-156), the first attempt of a retry       *)
(* (client/doer.go:204-217).                                               *)
(***************************************************************************)
LEMMA LeastNat ==
  ASSUME NEW T, T \subseteq Nat, T # {}
  PROVE  \E x \in T : \A y \in T : x <= y
<1> DEFINE R == {ss \in Nat \X Nat : ss[1] < ss[2]}
<1>1. IsWellFoundedOn(R, Nat)
  BY NatLessThanWellFounded DEF OpToRel
<1>2. PICK x \in T : \A y \in T : ~ (<<y, x>> \in R)
  <2> HIDE DEF R
  <2> QED BY <1>1, WFMin
<1>3. ASSUME NEW y \in T PROVE x <= y
  <2>1. y < x => <<y, x>> \in R
    OBVIOUS
  <2> QED
    <3> HIDE DEF R
    <3> QED BY <1>2, <2>1
<1> QED
  BY <1>3

(* int64 arithmetic on an integer yields an int64 (time.Duration).         *)
LEMMA WrapInt == ASSUME NEW x \in Int PROVE Wrap(x) \in Int
  BY HalfRangeAssumption DEF Wrap

LEMMA WrapInRange == ASSUME NEW x \in Int PROVE Wrap(x) \in GoInts
<1>1. (x + HalfRange) % (2 * HalfRange) \in 0 .. 2 * HalfRange - 1
  BY HalfRangeAssumption
<1> QED
  BY <1>1, HalfRangeAssumption DEF Wrap, GoInts, MinInt, MaxInt

(* And exactly that integer, when an int64 can hold it.                    *)
LEMMA WrapFits == ASSUME NEW x \in GoInts PROVE Wrap(x) = x
<1>1. \A a, b \in Nat : a < b => a % b = a
  OBVIOUS
<1>2. x + HalfRange \in Nat /\ 2 * HalfRange \in Nat /\ x + HalfRange < 2 * HalfRange
  BY HalfRangeAssumption DEF GoInts, MinInt, MaxInt
<1>3. (x + HalfRange) % (2 * HalfRange) = x + HalfRange
  BY <1>1, <1>2
<1> QED
  BY <1>3, HalfRangeAssumption DEF Wrap, GoInts, MinInt, MaxInt
=============================================================================
