---------------------------- MODULE CheckedMath ----------------------------
(***************************************************************************)
(* The checked arithmetic of public/math.h: chains of U7_ADD, SUB and      *)
(* MUL_OVERFLOW_<type> that share one overflow flag, expanded as C and as  *)
(* C++.                                                                    *)
(*                                                                         *)
(* Integer types are given by their signedness and size; char, which may   *)
(* be signed or not, is one of its own.  All operations of the header come *)
(* from one macro each in C and in C++, with the operation and the         *)
(* destination type as parameters; so they do here.                        *)
(***************************************************************************)
EXTENDS Integers

CONSTANTS
  Half64,  (* 2^63: half the number of values of the widest integers      *)
  Half32,  (* 2^31: the same of the narrower destinations                 *)
  Half8    (* 2^7: the same of char and of the other narrow operands      *)

ASSUME WidthAssumption ==
  /\ Half8 \in Nat \ {0} /\ Half32 \in Nat /\ Half64 \in Nat
  /\ 2 * Half8 =< Half32 /\ Half32 =< Half64

Op == {"add", "sub", "mul"}
Type(s, h) == [char |-> FALSE, signed |-> s, half |-> h]
Char(s) == [char |-> TRUE, signed |-> s, half |-> Half8]
Operand ==
  {Type(s, h) : s \in BOOLEAN, h \in {Half8, Half32, Half64}} \cup {Char(s) : s \in BOOLEAN}
Destination == {Type(s, h) : s \in BOOLEAN, h \in {Half32, Half64}}

Least(t) == IF t.signed THEN -t.half ELSE 0
Greatest(t) == IF t.signed THEN t.half - 1 ELSE 2 * t.half - 1
Values(t) == Least(t) .. Greatest(t)

(* Conversion of an integer to type t, modulo the number of its values.    *)
Convert(n, t) == Least(t) + ((n - Least(t)) % (2 * t.half))

Exact(op, l, r) ==
  CASE op = "add" -> l + r
    [] op = "sub" -> l - r
    [] op = "mul" -> l * r

(* __builtin_<op>_overflow: the exact result, converted to the type of     *)
(* *result, and whether the conversion changed it.                         *)
Builtin(op, l, r, dest) ==
  [result |-> Convert(Exact(op, l, r), dest),
   overflow |-> Exact(op, l, r) \notin Values(dest)]

VARIABLES
  type,      (* the type of the value at the end of the chain             *)
  value,     (* that value, in C                                          *)
  overflow,  (* the flag, in C                                            *)
  cpp,       (* value and flag of the same chain in C++                   *)
  exact,     (* what the chain yields if nothing is ever converted; of no *)
             (* interest, and 0, once some result did not fit             *)
  changed    (* some result was not representable in its destination      *)

vars == <<type, value, overflow, cpp, exact, changed>>

-----------------------------------------------------------------------------
(* The _Generic dispatch on an operand's type: int64_t or uint64_t.  A     *)
(* char is a case of its own, whether or not it is signed.                 *)
Representation(t) == Type(t.signed \/ t.char, Half64)

(* Mutant of Dispatch: selects on the type of lhs only.                    *)
DispatchLhsTwice(op, dest, l, lt, r, rt) ==
  Builtin(op, Convert(l, Representation(lt)), Convert(r, Representation(lt)), dest)

(* The C expansion: the function for the representations of both operands. *)
Dispatch(op, dest, l, lt, r, rt) ==
  Builtin(op, Convert(l, Representation(lt)), Convert(r, Representation(rt)), dest)

(* The C++ expansion: a generic lambda on the operands as they are.        *)
Lambda(op, dest, l, r) == Builtin(op, l, r, dest)

(* A chain starts from a variable of some type, with the flag initialised. *)
Init ==
  /\ type \in Operand
  /\ value \in Values(type)
  /\ overflow = FALSE
  /\ cpp = [value |-> value, overflow |-> FALSE]
  /\ exact = value
  /\ changed = FALSE

(* The exact results, for comparison.                                      *)
Follow(op, dest, l, r) ==
  /\ changed' = (changed \/ Exact(op, l, r) \notin Values(dest))
  /\ exact' = IF changed' THEN 0 ELSE Exact(op, l, r)

(* Mutant of SetFlag: the flag is assigned.                                *)
SetFlagAssign(flag, lost) == lost

(* overflow |= ...: the flag is set, and never reset.                      *)
SetFlag(flag, lost) == flag \/ lost

(* The two operands when x, of the chain, is on the given side of the      *)
(* operation, and y on the other.                                          *)
Lhs(side, x, y) == IF side = "lhs" THEN x ELSE y
Rhs(side, x, y) == IF side = "lhs" THEN y ELSE x

(* The next operation of the chain: with n, of type t, as other operand.   *)
Step(op, dest, side, n, t) ==
  LET c == Dispatch(op, dest, Lhs(side, value, n), Lhs(side, type, t),
                    Rhs(side, value, n), Rhs(side, type, t))
      p == Lambda(op, dest, Lhs(side, cpp.value, n), Rhs(side, cpp.value, n)) IN
  /\ type' = dest
  /\ value' = c.result
  /\ overflow' = SetFlag(overflow, c.overflow)
  /\ cpp' = [value |-> p.result, overflow |-> SetFlag(cpp.overflow, p.overflow)]
  /\ Follow(op, dest, Lhs(side, exact, n), Rhs(side, exact, n))

(* The chain ends, and another starts.                                     *)
Restart ==
  /\ overflow' = FALSE
  /\ cpp' = [value |-> value, overflow |-> FALSE]
  /\ exact' = value
  /\ changed' = FALSE
  /\ UNCHANGED <<type, value>>

Next ==
  \/ \E op \in Op, dest \in Destination, side \in {"lhs", "rhs"}, t \in Operand :
       \E n \in Values(t) : Step(op, dest, side, n, t)
  \/ Restart

Spec == Init /\ [][Next]_vars

-----------------------------------------------------------------------------
(* Properties.                                                             *)

(* The one check at the end of a chain: the flag is set exactly when some  *)
(* result of the chain, computed without any conversion, did not fit its   *)
(* destination; otherwise the value is the exact one.                      *)
FlagTellsAll ==
  /\ overflow <=> changed
  /\ ~overflow => value = exact

(* The C and the C++ expansion of the same chain agree on value and flag.  *)
LanguagesAgree == cpp = [value |-> value, overflow |-> overflow]
=============================================================================
