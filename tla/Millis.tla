------------------------------- MODULE Millis -------------------------------
(***************************************************************************)
(* The two ways main/ measures time with millis(), which counts modulo     *)
(* 2^32: the unsigned difference of two readings, and the sign of their    *)
(* difference as an int32_t.                                               *)
(***************************************************************************)
EXTENDS Integers

CONSTANT Wrap   \* 2^32 in the source; any even number does

ASSUME WrapAssumption == Wrap \in Nat \ {0} /\ Wrap % 2 = 0

Clock == 0 .. Wrap - 1

Later(t, ticks) == (t + ticks) % Wrap

(* now - t in uint32_t *)
Since(now, t) == (now - t) % Wrap

(* static_cast<int32_t>(millis() - deadlineMs) >= 0 *)
deadlinePassed(now, deadline) == Since(now, deadline) < Wrap \div 2

(* A count that goes no further than its bound. *)
Upto(n, top) == IF n > top THEN top ELSE n
=============================================================================
