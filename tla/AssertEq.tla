------------------------------ MODULE AssertEq ------------------------------
(***************************************************************************)
(* U7_ASSERT_EQ (testing.c, public/testing.h): the comparison of two       *)
(* operands of possibly different types.                                   *)
(*                                                                         *)
(* The widest integers have a width of W bits and doubles a significand of *)
(* P bits, in place of 64 and 53.  A double is represented by twice its    *)
(* value, so that there are some with a fraction; NaN is a value of its    *)
(* own.  A float, which is converted to the double of the same value, is   *)
(* not told apart from it.  A string is represented by its contents.       *)
(***************************************************************************)
EXTENDS Integers

CONSTANTS
  W,         (* the width of int64_t and uint64_t                         *)
  N,         (* the width of char and of the other narrow integers        *)
  P,         (* the width of the significand of a double                  *)
  Pow2,      (* the powers of two: Pow2[e] = 2^e                          *)
  Contents,  (* contents of strings                                       *)
  NullStr,   (* the NULL pointer as a string                              *)
  NaN        (* not a number                                              *)

ASSUME WidthAssumption ==
  /\ W \in Nat /\ N \in Nat \ {0} /\ N < W
  /\ P \in Nat \ {0} /\ P =< W

ASSUME PowerAssumption ==
  /\ Pow2 \in [0 .. 2 * W -> Nat]
  /\ Pow2[0] = 1 /\ \A e \in 1 .. 2 * W : Pow2[e] = 2 * Pow2[e - 1]

Signed(w) == -Pow2[w - 1] .. Pow2[w - 1] - 1
Unsigned(w) == 0 .. Pow2[w] - 1

Magnitude(n) == IF n < 0 THEN -n ELSE n

(* The conversion of the integer n to double: rounded to a multiple of the *)
(* unit in the last place, a tie to the even multiple.                     *)
Unit(n) ==
  Pow2[CHOOSE e \in 0 .. W :
         /\ Magnitude(n) < Pow2[P + e]
         /\ e = 0 \/ Magnitude(n) >= Pow2[P + e - 1]]

ToDouble(n) ==
  LET u == Unit(n)
      q == n \div u
      rest == 2 * (n % u)
  IN  2 * u * IF rest > u \/ (rest = u /\ q % 2 = 1) THEN q + 1 ELSE q

Double ==
  {ToDouble(n) : n \in Signed(W) \cup Unsigned(W)}
    \cup {2 * n + 1 : n \in -Pow2[P - 1] .. Pow2[P - 1] - 1}

(* An operand: its type, one standing for all those of its signedness and *)
(* width, and its value.  char may be of either signedness.                *)
Operand ==
  [type : {"char"}, as : Signed(N) \cup Unsigned(N)]
    \cup [type : {"signed char"}, as : Signed(N)]
    \cup [type : {"unsigned char"}, as : Unsigned(N)]
    \cup [type : {"int64_t"}, as : Signed(W)]
    \cup [type : {"uint64_t"}, as : Unsigned(W)]
    \cup [type : {"double"}, as : Double \cup {NaN}]
    \cup [type : {"char*"}, as : Contents \cup {NullStr}]

VARIABLES
  actual, expected,  (* the operands                                      *)
  outcome            (* what u7_testing_assert_eq did                     *)

vars == <<actual, expected, outcome>>

-----------------------------------------------------------------------------
Modulo(n) == n % Pow2[W]

(* The tag that the operand's type selects.                                *)
Kind(o) ==
  CASE o.type \in {"char", "signed char", "int64_t"} -> "I64"
    [] o.type \in {"unsigned char", "uint64_t"} -> "U64"
    [] o.type = "double" -> "F64"
    [] o.type = "char*" -> "STR"

(* U7_TESTING_VALUE: the tag, and the operand converted to that type.      *)
Value(o) ==
  [kind |-> Kind(o),
   as |-> CASE Kind(o) = "I64" -> Modulo(o.as + Pow2[W - 1]) - Pow2[W - 1]
            [] Kind(o) = "U64" -> Modulo(o.as)
            [] OTHER -> o.as]

IsInt(v) == v.kind \in {"I64", "U64"}

(* Mutant of MixedEqual: C's usual arithmetic conversions.                 *)
MixedEqualConverted(i, u) == Modulo(i) = u

(* A signed against an unsigned operand.                                   *)
MixedEqual(i, u) == i >= 0 /\ Modulo(i) = u

(* Mutant of AsDouble: an unsigned operand is first converted to signed.   *)
AsDoubleSigned(v) ==
  IF v.kind = "U64" /\ v.as >= Pow2[W - 1] THEN ToDouble(v.as - Pow2[W])
  ELSE IF IsInt(v) THEN ToDouble(v.as)
  ELSE v.as

AsDouble(v) == IF IsInt(v) THEN ToDouble(v.as) ELSE v.as

DoubleEqual(x, y) == x # NaN /\ y # NaN /\ x = y

(* u7_testing_values_equal.                                                *)
ValuesEqual(a, e) ==
  \/ a.kind = e.kind /\ IsInt(a) /\ a.as = e.as
  \/ a.kind = "I64" /\ e.kind = "U64" /\ MixedEqual(a.as, e.as)
  \/ a.kind = "U64" /\ e.kind = "I64" /\ MixedEqual(e.as, a.as)
  \/ "F64" \in {a.kind, e.kind} /\ DoubleEqual(AsDouble(a), AsDouble(e))

StrEqual(a, e) ==
  /\ (a.as = NullStr) <=> (e.as = NullStr)
  /\ a.as = NullStr \/ a.as = e.as

-----------------------------------------------------------------------------
Init ==
  /\ actual \in Operand /\ expected \in Operand
  /\ outcome = "none"

(* A string against anything else cannot be compared.                      *)
Incomparable ==
  /\ outcome = "none" /\ (Kind(actual) = "STR") # (Kind(expected) = "STR")
  /\ outcome' = "incomparable"
  /\ UNCHANGED <<actual, expected>>

Compare ==
  /\ outcome = "none" /\ (Kind(actual) = "STR") = (Kind(expected) = "STR")
  /\ outcome' =
       IF IF Kind(actual) = "STR" THEN StrEqual(actual, expected)
          ELSE ValuesEqual(Value(actual), Value(expected))
       THEN "equal" ELSE "different"
  /\ UNCHANGED <<actual, expected>>

(* The assertion has returned or aborted.                                  *)
Done == outcome # "none" /\ UNCHANGED vars

Next == Incomparable \/ Compare \/ Done

Spec == Init /\ [][Next]_vars

-----------------------------------------------------------------------------
(* Properties.                                                             *)

Compared == outcome \in {"equal", "different"}

(* The number an operand stands for, doubled.                              *)
Number(o) == IF o.type = "double" THEN o.as ELSE 2 * o.as

(* Integers of any two types are equal exactly when they are the same      *)
(* number, whatever a conversion on the way would make of them.            *)
IntegersExact ==
  Compared /\ {Kind(actual), Kind(expected)} \subseteq {"I64", "U64"} =>
    (outcome = "equal" <=> actual.as = expected.as)

(* No assertion fails although both operands are the same number, one of   *)
(* them being a double.                                                    *)
SameNumberPasses ==
  Compared /\ "F64" \in {Kind(actual), Kind(expected)}
    /\ NaN \notin {actual.as, expected.as} /\ Number(actual) = Number(expected)
    => outcome = "equal"
=============================================================================
