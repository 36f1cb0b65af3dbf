------------------------------- MODULE GoInt -------------------------------
(***************************************************************************)
(* Fixed-width signed integers, as Go's int64 (time.Duration, int) behaves *)
(* on a 64-bit build: arithmetic wraps, strconv.Atoi rejects what does not *)
(* fit.  The width is a parameter so that TLC can reach the wrap-around    *)
(* with small numbers.                                                     *)
(***************************************************************************)
EXTENDS Integers

CONSTANT HalfRange  (* The number of non-negative values: 2^63 in the code. *)

ASSUME HalfRangeAssumption == HalfRange \in Nat \ {0}

MaxInt == HalfRange - 1
MinInt == -HalfRange

(* The values an int64 can hold.                                           *)
GoInts == MinInt .. MaxInt

(* Two's complement result of an int64 operation whose exact value is x.   *)
Wrap(x) == ((x + HalfRange) % (2 * HalfRange)) - HalfRange
=============================================================================
