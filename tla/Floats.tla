------------------------------- MODULE Floats -------------------------------
(***************************************************************************)
(* The part of Go's float64 the operator's decisions depend on.  A value   *)
(* is an integer in the unit its user chooses, or NaN; from Infinity on it *)
(* stands for +Inf.                                                        *)
(***************************************************************************)
EXTENDS Integers

CONSTANT NaN        \* what 0/0 evaluates to in Prometheus and in Go

ASSUME NaNAssumption == NaN \notin Int

Infinity == 1000000

\* IEEE comparisons with a number t: both are false of NaN.
Above(v, t)  == v # NaN /\ v > t
AtMost(v, t) == v # NaN /\ v <= t

\* encoding/json refuses NaN and the infinities.
Encodable(v) == v # NaN /\ v < Infinity
=============================================================================
