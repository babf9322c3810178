------------------------- MODULE CheckedMathProofs -------------------------
(***************************************************************************)
(* Proofs about CheckedMath, for types of any size: the facts about        *)
(* conversions that both expansions rest on, and the two invariants.       *)
(***************************************************************************)
EXTENDS CheckedMath, TLAPS

IntegerType == Operand \cup Destination

(* A type has 2 * half values, from Least to Greatest.                     *)
LEMMA TypeRange ==
  ASSUME NEW t \in IntegerType
  PROVE  /\ t.half \in Nat \ {0}
         /\ Least(t) \in Int /\ Greatest(t) = Least(t) + 2 * t.half - 1
<1>1. t.half \in {Half8, Half32, Half64}
  BY DEF IntegerType, Operand, Destination, Type, Char
<1>2. t.half \in Nat \ {0}
  BY <1>1, WidthAssumption
<1> QED
  BY <1>2 DEF Least, Greatest

LEMMA Remainder ==
  ASSUME NEW m \in Nat \ {0}, NEW n \in Int
  PROVE  n % m \in 0 .. m - 1 /\ (n \in 0 .. m - 1 => n % m = n)
OBVIOUS

(* A conversion yields a value of the type, and leaves those as they are.  *)
LEMMA Conversion ==
  ASSUME NEW t \in IntegerType, NEW n \in Int
  PROVE  Convert(n, t) \in Values(t) /\ (n \in Values(t) => Convert(n, t) = n)
<1> DEFINE m == 2 * t.half
           k == n - Least(t)
<1>1. m \in Nat \ {0} /\ k \in Int /\ Least(t) \in Int
  BY TypeRange
<1>2. Values(t) = Least(t) .. Least(t) + m - 1
  BY TypeRange DEF Values
<1>3. Convert(n, t) = Least(t) + (k % m)
  BY DEF Convert
<1> HIDE DEF m, k
<1>4. k % m \in 0 .. m - 1 /\ (k \in 0 .. m - 1 => k % m = k)
  BY <1>1, Remainder
<1>5. n \in Values(t) => k \in 0 .. m - 1 /\ Least(t) + k = n
  BY <1>1, <1>2 DEF k
<1> QED
  BY <1>1, <1>2, <1>3, <1>4, <1>5

(* The representation that the C dispatch picks for an operand holds every *)
(* value of the operand's type, also of a char of either signedness.       *)
LEMMA Lossless ==
  ASSUME NEW t \in Operand, NEW n \in Values(t)
  PROVE  Convert(n, Representation(t)) = n
<1>1. Representation(t) \in IntegerType
  <2>1. (t.signed \/ t.char) \in BOOLEAN
    OBVIOUS
  <2>2. \A s \in BOOLEAN : Type(s, Half64) \in Operand
    BY DEF Operand
  <2> QED
    BY <2>1, <2>2 DEF Representation, IntegerType
<1>2. n \in Values(Representation(t))
  <2>1. CASE \E s \in BOOLEAN : \E h \in {Half8, Half32, Half64} : t = Type(s, h)
    <3>1. PICK s \in BOOLEAN, h \in {Half8, Half32, Half64} : t = Type(s, h)
      BY <2>1
    <3> QED
      BY <3>1, WidthAssumption DEF Representation, Type, Values, Least, Greatest
  <2>2. CASE \E s \in BOOLEAN : t = Char(s)
    <3>1. PICK s \in BOOLEAN : t = Char(s)
      BY <2>2
    <3> QED
      BY <3>1, WidthAssumption
      DEF Representation, Type, Char, Values, Least, Greatest
  <2> QED
    BY <2>1, <2>2 DEF Operand
<1>3. n \in Int
  BY TypeRange DEF Values, IntegerType
<1> QED
  BY <1>1, <1>2, <1>3, Conversion

-----------------------------------------------------------------------------
Types ==
  /\ type \in Operand
  /\ value \in Values(type)
  /\ overflow \in BOOLEAN /\ changed \in BOOLEAN
  /\ exact \in Int

MathInv == Types /\ FlagTellsAll /\ LanguagesAgree

LEMMA InitMathInv == Init => MathInv
<1> SUFFICES ASSUME Init PROVE MathInv
  OBVIOUS
<1>1. Types
  <2>1. value \in Int
    BY TypeRange DEF Init, Values, IntegerType
  <2> QED
    BY <2>1 DEF Init, Types
<1> QED
  BY <1>1 DEF Init, MathInv, FlagTellsAll, LanguagesAgree

(* One operation of the chain.                                             *)
LEMMA StepMathInv ==
  ASSUME MathInv, NEW op \in Op, NEW dest \in Destination,
         NEW side \in {"lhs", "rhs"}, NEW t \in Operand, NEW n \in Values(t),
         Step(op, dest, side, n, t)
  PROVE  MathInv'
<1> DEFINE l == Lhs(side, value, n)
           lt == Lhs(side, type, t)
           r == Rhs(side, value, n)
           rt == Rhs(side, type, t)
           c == Dispatch(op, dest, l, lt, r, rt)
           p == Lambda(op, dest, Lhs(side, cpp.value, n), Rhs(side, cpp.value, n))
           e == Exact(op, l, r)
           x == Exact(op, Lhs(side, exact, n), Rhs(side, exact, n))
<1>1. dest \in IntegerType /\ dest \in Operand
  BY DEF IntegerType, Destination, Operand
<1>2. /\ l \in Int /\ r \in Int
      /\ Lhs(side, exact, n) \in Int /\ Rhs(side, exact, n) \in Int
  <2>1. value \in Int /\ n \in Int /\ exact \in Int
    BY TypeRange DEF MathInv, Types, Values, IntegerType
  <2> QED
    BY <2>1 DEF Lhs, Rhs
<1>3. e \in Int /\ x \in Int
  BY <1>2 DEF Exact, Op
<1>4. c = Builtin(op, l, r, dest)
  <2>1. lt \in Operand /\ l \in Values(lt) /\ rt \in Operand /\ r \in Values(rt)
    BY DEF MathInv, Types, Lhs, Rhs
  <2> HIDE DEF l, lt, r, rt
  <2> QED
    BY <2>1, Lossless DEF Dispatch
<1>5. p = Builtin(op, l, r, dest)
  BY DEF Lambda, MathInv, LanguagesAgree
<1>6. c.result = Convert(e, dest) /\ c.overflow = (e \notin Values(dest))
  BY <1>4 DEF Builtin
<1>7. /\ type' = dest /\ value' = c.result
      /\ overflow' = (overflow \/ c.overflow)
      /\ cpp' = [value |-> p.result, overflow |-> cpp.overflow \/ p.overflow]
  BY DEF Step, SetFlag
<1>8. /\ changed' = (changed \/ x \notin Values(dest))
      /\ exact' = IF changed' THEN 0 ELSE x
  BY DEF Step, Follow
<1>12. ~overflow => e = x
  BY DEF MathInv, FlagTellsAll
<1> HIDE DEF c, p, e, x, l, r, lt, rt
<1>9. Types'
  <2>1. value' \in Values(dest)
    BY <1>1, <1>3, <1>6, <1>7, Conversion
  <2>2. Values(type)' = Values(type')
    BY DEF Values, Least, Greatest
  <2> QED
    BY <1>1, <1>3, <1>7, <1>8, <2>1, <2>2 DEF Types
<1>10. LanguagesAgree'
  BY <1>4, <1>5, <1>7 DEF LanguagesAgree, MathInv
<1>11. FlagTellsAll'
  <2>2. overflow' <=> changed'
    BY <1>6, <1>7, <1>8, <1>12 DEF MathInv, FlagTellsAll
  <2>3. ~overflow' => value' = exact'
    <3> SUFFICES ASSUME ~overflow' PROVE value' = exact'
      OBVIOUS
    <3>1. ~overflow /\ e \in Values(dest) /\ ~changed'
      BY <1>6, <1>7, <2>2
    <3> QED
      BY <1>1, <1>3, <1>6, <1>7, <1>8, <1>12, <3>1, Conversion
  <2> QED
    BY <2>2, <2>3 DEF FlagTellsAll
<1> QED
  BY <1>9, <1>10, <1>11 DEF MathInv

LEMMA NextMathInv == MathInv /\ [Next]_vars => MathInv'
<1> SUFFICES ASSUME MathInv, [Next]_vars PROVE MathInv'
  OBVIOUS
<1>1. ASSUME NEW op \in Op, NEW dest \in Destination, NEW side \in {"lhs", "rhs"},
             NEW t \in Operand, NEW n \in Values(t), Step(op, dest, side, n, t)
      PROVE  MathInv'
  BY <1>1, StepMathInv
<1>2. CASE Restart
  <2>1. Values(type)' = Values(type) /\ value \in Int
    BY <1>2, TypeRange DEF Restart, Values, Least, Greatest, MathInv, Types, IntegerType
  <2> QED
    BY <1>2, <2>1 DEF Restart, MathInv, Types, FlagTellsAll, LanguagesAgree
<1>3. CASE UNCHANGED vars
  BY <1>3 DEF vars, MathInv, Types, FlagTellsAll, LanguagesAgree, Values, Least, Greatest
<1> QED
  BY <1>1, <1>2, <1>3 DEF Next

LEMMA MathInvariant == Spec => []MathInv
BY InitMathInv, NextMathInv, PTL DEF Spec

(* The sticky flag of public/math.h, checked once at the end of a chain of *)
(* any length over types of any size, is set exactly when some result did  *)
(* not fit; otherwise the value is the exact one.                          *)
THEOREM OneCheckSuffices == Spec => []FlagTellsAll
BY MathInvariant, PTL DEF MathInv

(* The C dispatch and the C++ lambda compute the same value and flag, for  *)
(* operands of every type.                                                 *)
THEOREM ExpansionsAgree == Spec => []LanguagesAgree
BY MathInvariant, PTL DEF MathInv
=============================================================================
