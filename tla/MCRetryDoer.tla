---------------------------- MODULE MCRetryDoer ----------------------------
(* Options for RetryDoer: attempts below, at and above the clamp; base and *)
(* maximum delays that are defaulted, ordered either way, or equal.        *)
EXTENDS RetryDoer

MCAttemptOptions == {-1, 0, 1, 2, 4}
MCDelayOptions   == {-1, 0, 1, 3, 7}
=============================================================================
