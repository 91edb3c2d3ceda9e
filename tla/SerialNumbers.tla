---------------------------- MODULE SerialNumbers ----------------------------
(***************************************************************************)
(* The unsigned integers of the wire format: group ids are uint8, sequence *)
(* numbers uint16.  An unsigned type is named by half the size of its ring *)
(* (128 for uint8), so that every definition is linear arithmetic.         *)
(***************************************************************************)
EXTENDS Integers

\* The values of an unsigned type with 2 * half values.
Unsigned(half) == 0 .. 2 * half - 1

\* The conversion T(x) of an int that is at most one ring away from T.
Wrap(x, half) == IF x < 0 THEN x + 2 * half
                 ELSE IF x >= 2 * half THEN x - 2 * half
                 ELSE x

(***************************************************************************)
(* utils.IsBefore(a, b, max): T(int(a) - int(b)) > max / 2.  The maximum   *)
(* of T is 2 * half - 1, so the integer max / 2 is half - 1.               *)
(***************************************************************************)
IsBefore(a, b, half) == Wrap(a - b, half) > half - 1

=============================================================================
