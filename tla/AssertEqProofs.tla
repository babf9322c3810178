--------------------------- MODULE AssertEqProofs ---------------------------
(***************************************************************************)
(* Proofs about AssertEq, for integers of any widths and doubles with a    *)
(* significand of any width up to that of the widest integer.              *)
(***************************************************************************)
EXTENDS AssertEq, NaturalsInduction, WellFoundedInduction, TLAPS

-----------------------------------------------------------------------------
(* Powers of two.                                                          *)

LEMMA LeastNat ==
  ASSUME NEW T \in SUBSET Nat, T # {} PROVE \E x \in T : \A y \in T : x =< y
<1> DEFINE R == {p \in Nat \X Nat : p[1] < p[2]}
<1>1. IsWellFoundedOn(R, Nat)
  BY NatLessThanWellFounded DEF OpToRel
<1> HIDE DEF R
<1>2. \E x \in T : \A y \in T : ~(<<y, x>> \in R)
  BY <1>1, WFMin
<1>3. ASSUME NEW x \in T, NEW y \in T, ~(<<y, x>> \in R) PROVE x =< y
  <2>1. <<y, x>> \in Nat \X Nat /\ <<y, x>>[1] = y /\ <<y, x>>[2] = x
    OBVIOUS
  <2>2. ~(y < x)
    BY <1>3, <2>1 DEF R
  <2> QED
    BY <2>2
<1> QED
  BY <1>2, <1>3

LEMMA Exponents ==
  /\ W \in Nat \ {0} /\ N \in 1 .. W - 1 /\ P \in 1 .. W /\ 2 * W \in Nat
  /\ \A e \in 0 .. 2 * W : Pow2[e] \in Nat
  /\ \A e \in 0 .. 2 * W - 1 : Pow2[e + 1] = 2 * Pow2[e]
<1>1. W \in Nat \ {0} /\ N \in 1 .. W - 1 /\ P \in 1 .. W /\ 2 * W \in Nat
  BY WidthAssumption
<1>2. \A e \in 0 .. 2 * W : Pow2[e] \in Nat
  BY PowerAssumption
<1>3. ASSUME NEW e \in 0 .. 2 * W - 1 PROVE Pow2[e + 1] = 2 * Pow2[e]
  <2>1. e + 1 \in 1 .. 2 * W /\ (e + 1) - 1 = e
    BY <1>1
  <2> QED
    BY <2>1, PowerAssumption
<1> QED
  BY <1>1, <1>2, <1>3

(* Each is a multiple of those before it, by a factor that is one itself.  *)
LEMMA PowerProduct ==
  ASSUME NEW d \in Nat, NEW e \in Nat, d + e =< 2 * W
  PROVE  Pow2[d + e] = Pow2[d] * Pow2[e]
<1> DEFINE T == {k \in Nat : d + k =< 2 * W /\ Pow2[d + k] # Pow2[d] * Pow2[k]}
<1>1. ASSUME T # {} PROVE FALSE
  <2>1. PICK k \in T : \A y \in T : k =< y
    BY <1>1, LeastNat
  <2>2. k \in Nat /\ d + k =< 2 * W /\ Pow2[d + k] # Pow2[d] * Pow2[k]
    BY <2>1
  <2>3. d \in 0 .. 2 * W /\ Pow2[d] \in Nat
    BY Exponents
  <2>4. k # 0
    <3>1. d + 0 = d /\ Pow2[d] * 1 = Pow2[d]
      BY <2>3
    <3> QED
      BY <2>2, <3>1, PowerAssumption
  <2>5. k - 1 \in Nat /\ d + (k - 1) =< 2 * W /\ ~(k - 1 >= k)
    BY <2>2, <2>4, Exponents
  <2>6. k - 1 \notin T
    BY <2>1, <2>5
  <2> HIDE DEF T
  <2>7. Pow2[d + (k - 1)] = Pow2[d] * Pow2[k - 1]
    BY <2>5, <2>6 DEF T
  <2>8. /\ Pow2[d + k] = 2 * Pow2[d + (k - 1)]
        /\ Pow2[k] = 2 * Pow2[k - 1] /\ Pow2[k - 1] \in Nat
    <3>1. /\ k - 1 \in 0 .. 2 * W - 1 /\ (k - 1) + 1 = k
          /\ d + (k - 1) \in 0 .. 2 * W - 1 /\ (d + (k - 1)) + 1 = d + k
          /\ k - 1 \in 0 .. 2 * W
      BY <2>2, <2>4, Exponents
    <3> QED
      BY <3>1, Exponents
  <2>9. \A a, b \in Nat : 2 * (a * b) = a * (2 * b)
    OBVIOUS
  <2> QED
    BY <2>2, <2>3, <2>7, <2>8, <2>9
<1>2. e \notin T
  BY <1>1
<1> HIDE DEF T
<1> QED
  BY <1>2 DEF T

LEMMA PowerPositive == \A e \in 0 .. 2 * W : Pow2[e] \in Nat \ {0}
<1>1. ASSUME NEW e \in 0 .. 2 * W, Pow2[e] = 0 PROVE FALSE
  <2> DEFINE T == {k \in 0 .. 2 * W : Pow2[k] = 0}
  <2>1. T \in SUBSET Nat /\ T # {}
    BY <1>1
  <2>2. PICK k \in T : \A y \in T : k =< y
    BY <2>1, LeastNat
  <2>3. k # 0 /\ k \in 0 .. 2 * W /\ Pow2[k] = 0
    BY <2>2, PowerAssumption
  <2>4. k - 1 \in 0 .. 2 * W - 1 /\ k - 1 \in 0 .. 2 * W /\ (k - 1) + 1 = k
    BY <2>3, Exponents
  <2>5. Pow2[k] = 2 * Pow2[k - 1] /\ Pow2[k - 1] \in Nat
    BY <2>4, Exponents
  <2>6. k - 1 \in T
    BY <2>3, <2>4, <2>5
  <2> QED
    BY <2>2, <2>3, <2>6
<1> QED
  BY <1>1, Exponents

LEMMA PowerMonotonic ==
  ASSUME NEW d \in Nat, NEW e \in Nat, d =< e, e =< 2 * W
  PROVE  /\ \E k \in Nat \ {0} : Pow2[e] = k * Pow2[d]
         /\ Pow2[d] =< Pow2[e]
<1>1. /\ d \in 0 .. 2 * W /\ e - d \in 0 .. 2 * W /\ e - d \in Nat
      /\ (e - d) + d = e
  BY Exponents
<1>2. Pow2[e] = Pow2[e - d] * Pow2[d]
  BY <1>1, PowerProduct
<1>3. Pow2[e - d] \in Nat \ {0} /\ Pow2[d] \in Nat \ {0}
  BY <1>1, PowerPositive
<1>4. \A k, u \in Nat \ {0} : u =< k * u
  OBVIOUS
<1> QED
  BY <1>2, <1>3, <1>4

-----------------------------------------------------------------------------
(* Conversions to double.                                                  *)

Wide == Signed(W) \cup Unsigned(W)

LEMMA WideType ==
  ASSUME NEW n \in Wide
  PROVE  n \in Int /\ Magnitude(n) \in Nat /\ Magnitude(n) < Pow2[P + W]
<1>1. W - 1 \in Nat /\ W \in Nat /\ P + W \in Nat /\ W - 1 =< W /\ W =< P + W /\ P + W =< 2 * W
  BY Exponents
<1>2. /\ Pow2[W - 1] \in Nat /\ Pow2[W] \in Nat /\ Pow2[P + W] \in Nat
      /\ Pow2[W - 1] =< Pow2[W] /\ Pow2[W] =< Pow2[P + W]
  <2>1. W - 1 \in 0 .. 2 * W /\ W \in 0 .. 2 * W /\ P + W \in 0 .. 2 * W
    BY <1>1
  <2>2. Pow2[W - 1] \in Nat /\ Pow2[W] \in Nat /\ Pow2[P + W] \in Nat
    BY <2>1, Exponents
  <2>3. W =< 2 * W
    BY <1>1
  <2>4. Pow2[W - 1] =< Pow2[W]
    BY <1>1, <2>3, PowerMonotonic
  <2>5. Pow2[W] =< Pow2[P + W]
    BY <1>1, PowerMonotonic
  <2> QED
    BY <2>2, <2>4, <2>5
<1>3. Pow2[W - 1] < Pow2[W]
  <2>1. W - 1 \in 0 .. 2 * W - 1 /\ (W - 1) + 1 = W /\ W - 1 \in 0 .. 2 * W
    BY Exponents
  <2>2. Pow2[W] = 2 * Pow2[W - 1] /\ Pow2[W - 1] # 0
    BY <2>1, Exponents, PowerPositive
  <2> QED
    BY <1>2, <2>2
<1> QED
  BY <1>2, <1>3 DEF Wide, Signed, Unsigned, Magnitude

(* The exponent of the unit in the last place of n.                        *)
Exponent(n) ==
  CHOOSE e \in 0 .. W :
    /\ Magnitude(n) < Pow2[P + e]
    /\ e = 0 \/ Magnitude(n) >= Pow2[P + e - 1]

LEMMA ExponentFacts ==
  ASSUME NEW n \in Wide
  PROVE  /\ Exponent(n) \in 0 .. W /\ Unit(n) = Pow2[Exponent(n)]
         /\ Magnitude(n) < Pow2[P + Exponent(n)]
         /\ Exponent(n) = 0 \/ Magnitude(n) >= Pow2[P + Exponent(n) - 1]
<1> DEFINE T == {e \in 0 .. W : Magnitude(n) < Pow2[P + e]}
<1>1. W \in T /\ T \in SUBSET Nat
  BY WideType, Exponents
<1>2. PICK e \in T : \A y \in T : e =< y
  BY <1>1, LeastNat
<1>3. e = 0 \/ Magnitude(n) >= Pow2[P + e - 1]
  <2> SUFFICES ASSUME e # 0 PROVE Magnitude(n) >= Pow2[P + e - 1]
    OBVIOUS
  <2>1. e - 1 \in 0 .. W /\ ~(e =< e - 1) /\ P + (e - 1) = P + e - 1
    BY <1>2, Exponents
  <2>2. ~(Magnitude(n) < Pow2[P + (e - 1)])
    BY <1>2, <2>1
  <2>3. P + e - 1 \in 0 .. 2 * W
    BY <2>1, Exponents
  <2>4. Pow2[P + e - 1] \in Nat
    BY <2>3, Exponents
  <2> QED
    BY <2>1, <2>2, <2>4, WideType
<1>4. \E x \in 0 .. W :
        /\ Magnitude(n) < Pow2[P + x]
        /\ x = 0 \/ Magnitude(n) >= Pow2[P + x - 1]
  BY <1>2, <1>3
<1> QED
  BY <1>4 DEF Exponent, Unit

(* A smaller number has no coarser unit.                                   *)
LEMMA ExponentLeast ==
  ASSUME NEW n \in Wide, NEW f \in 0 .. W, Magnitude(n) < Pow2[P + f]
  PROVE  Exponent(n) =< f
<1> DEFINE e == Exponent(n)
<1>1. /\ e \in 0 .. W /\ (e = 0 \/ Magnitude(n) >= Pow2[P + e - 1])
  BY ExponentFacts
<1> HIDE DEF e
<1>2. ASSUME e > f PROVE FALSE
  <2>1. P + f \in Nat /\ P + e - 1 \in Nat /\ P + f =< P + e - 1 /\ P + e - 1 =< 2 * W
    BY <1>1, <1>2, Exponents
  <2>2. Pow2[P + f] =< Pow2[P + e - 1]
    BY <2>1, PowerMonotonic
  <2>3. P + f \in 0 .. 2 * W /\ P + e - 1 \in 0 .. 2 * W
    BY <2>1, Exponents
  <2>4. Pow2[P + f] \in Nat /\ Pow2[P + e - 1] \in Nat
    BY <2>3, Exponents
  <2> QED
    BY <1>1, <1>2, <2>2, <2>4, WideType
<1> QED
  BY <1>1, <1>2 DEF e

LEMMA Division ==
  ASSUME NEW n \in Int, NEW u \in Nat \ {0}
  PROVE  /\ n \div u \in Int /\ n % u \in 0 .. u - 1
         /\ n = u * (n \div u) + (n % u)
OBVIOUS

LEMMA NoRemainder ==
  ASSUME NEW u \in Nat \ {0}, NEW k \in Int
  PROVE  (k * u) % u = 0 /\ (k * u) \div u = k
<1> DEFINE q == (k * u) \div u
           r == (k * u) % u
<1>1. k * u \in Int
  OBVIOUS
<1>2. q \in Int /\ r \in 0 .. u - 1 /\ k * u = u * q + r
  BY <1>1, Division
<1> HIDE DEF q, r
<1>3. \A x, y \in Int : x * y = y * x
  OBVIOUS
<1>4. r = u * (k - q)
  <2>1. u * (k - q) = u * k - u * q
    BY <1>2
  <2>2. u * k = k * u
    BY <1>3
  <2> QED
    BY <1>2, <2>1, <2>2
<1>5. ~(k - q >= 1)
  <2>1. \A d \in Nat \ {0} : u * d >= u
    OBVIOUS
  <2> QED
    BY <1>2, <1>4, <2>1
<1>6. ~(k - q =< -1)
  <2>1. ASSUME NEW d \in Int, d =< -1 PROVE u * d < 0
    <3>1. -d \in Nat \ {0}
      BY <2>1
    <3>2. u * (-d) > 0
      BY <3>1
    <3>3. u * d = -(u * (-d))
      OBVIOUS
    <3> QED
      BY <3>2, <3>3
  <2> QED
    BY <1>2, <1>4, <2>1
<1>7. k = q
  BY <1>2, <1>5, <1>6
<1>8. r = 0
  BY <1>2, <1>4, <1>7
<1> QED
  BY <1>7, <1>8 DEF q, r

(* A multiple of its unit in the last place is converted exactly.          *)
LEMMA ExactConversion ==
  ASSUME NEW n \in Wide, NEW k \in Int, n = k * Unit(n), Unit(n) \in Nat \ {0}
  PROVE  ToDouble(n) = 2 * n
<1> DEFINE u == Unit(n)
<1>1. n % u = 0 /\ n \div u = k /\ u \in Nat \ {0}
  BY NoRemainder
<1> HIDE DEF u
<1>2. ~(2 * (n % u) > u \/ (2 * (n % u) = u /\ (n \div u) % 2 = 1))
  BY <1>1
<1>3. ToDouble(n) = 2 * u * k
  BY <1>1, <1>2 DEF ToDouble, u
<1>4. 2 * u * k = 2 * (k * u)
  BY <1>1
<1> QED
  BY <1>3, <1>4 DEF u

(* What a conversion yields is a multiple of the unit, of no more bits     *)
(* than the significand has.                                               *)
LEMMA Rounded ==
  ASSUME NEW m \in Wide
  PROVE  \E k \in -Pow2[P] .. Pow2[P] : ToDouble(m) = 2 * (k * Unit(m))
<1> DEFINE u == Unit(m)
           b == Pow2[P]
           q == m \div u
           up == 2 * (m % u) > u \/ (2 * (m % u) = u /\ q % 2 = 1)
           k == IF up THEN q + 1 ELSE q
<1>1. u \in Nat \ {0} /\ b \in Nat \ {0} /\ Magnitude(m) < b * u
  <2>1. Exponent(m) \in 0 .. W /\ u = Pow2[Exponent(m)] /\ Magnitude(m) < Pow2[P + Exponent(m)]
    BY ExponentFacts
  <2>2. Exponent(m) \in Nat /\ P \in Nat /\ P + Exponent(m) =< 2 * W
    BY <2>1, Exponents
  <2>3. Pow2[P + Exponent(m)] = b * u
    BY <2>1, <2>2, PowerProduct
  <2>4. Exponent(m) \in 0 .. 2 * W /\ P \in 0 .. 2 * W
    BY <2>1, Exponents
  <2> QED
    BY <2>1, <2>3, <2>4, PowerPositive
<1>2. ToDouble(m) = 2 * u * k
  BY DEF ToDouble
<1> HIDE DEF u, b
<1>3. q \in Int /\ m % u \in 0 .. u - 1 /\ m = u * q + (m % u) /\ m \in Int
  BY <1>1, Division, WideType
<1>4. -(b * u) < m /\ m < b * u /\ b * u \in Nat
  BY <1>1, <1>3 DEF Magnitude
<1> DEFINE r == m % u
<1> HIDE DEF q, r
<1>5. q < b
  <2>1. ASSUME q >= b PROVE FALSE
    <3>1. q - b \in Nat /\ u * (q - b) >= 0
      BY <1>1, <1>3, <2>1
    <3>2. u * (q - b) = u * q - b * u
      BY <1>1, <1>3
    <3> QED
      BY <1>1, <1>3, <1>4, <3>1, <3>2
  <2> QED
    BY <1>1, <1>3, <2>1
<1>6. q >= -b
  <2>1. ASSUME q < -b PROVE FALSE
    <3>1. -b - q \in Nat \ {0} /\ -b - q >= 1
      BY <1>1, <1>3, <2>1
    <3>2. \A d \in Nat \ {0} : u * d >= u
      BY <1>1
    <3>3. u * (-b - q) >= u
      BY <3>1, <3>2
    <3>4. u * (-b - q) = -(b * u) - u * q
      BY <1>1, <1>3
    <3> QED
      BY <1>1, <1>3, <1>4, <3>3, <3>4
  <2> QED
    BY <1>1, <1>3, <2>1
<1>7. k \in -b .. b
  BY <1>1, <1>3, <1>5, <1>6
<1>8. 2 * u * k = 2 * (k * u)
  <2>1. k \in Int
    BY <1>1, <1>7
  <2> HIDE DEF k
  <2> QED
    BY <1>1, <2>1
<1> QED
  BY <1>2, <1>7, <1>8 DEF u, b

(* An integer that a conversion yields is converted to itself.             *)
LEMMA ConvertedTwice ==
  ASSUME NEW m \in Wide, NEW n \in Wide, ToDouble(m) = 2 * n
  PROVE  ToDouble(n) = 2 * n
<1> DEFINE e == Exponent(m)
           f == Exponent(n)
           u == Pow2[e]
           v == Pow2[f]
<1>1. /\ e \in 0 .. W /\ Unit(m) = u /\ f \in 0 .. W /\ Unit(n) = v
      /\ Magnitude(n) < Pow2[P + f]
  BY ExponentFacts
<1>2. PICK k \in -Pow2[P] .. Pow2[P] : 2 * n = 2 * (k * u)
  BY <1>1, Rounded
<1>3. /\ W \in Nat \ {0} /\ P \in 1 .. W /\ e \in Nat /\ f \in Nat
      /\ e \in 0 .. 2 * W /\ f \in 0 .. 2 * W /\ P \in 0 .. 2 * W /\ P + e \in 0 .. 2 * W
  BY <1>1, Exponents
<1>4. /\ u \in Nat \ {0} /\ v \in Nat \ {0} /\ Pow2[P] \in Nat \ {0}
      /\ Pow2[P + e] \in Nat \ {0} /\ Pow2[P + e] = Pow2[P] * u
  <2>1. P + e =< 2 * W /\ P \in Nat
    BY <1>3
  <2> QED
    BY <1>3, <2>1, PowerPositive, PowerProduct
<1>5. n \in Int /\ k \in Int /\ n = k * u
  BY <1>2, <1>4, WideType
<1> SUFFICES \E j \in Int : n = j * v
  BY <1>1, <1>4, ExactConversion
<1>6. CASE Magnitude(n) < Pow2[P + e]
  <2>1. f =< e
    BY <1>1, <1>6, ExponentLeast
  <2>2. e =< 2 * W
    BY <1>3
  <2>3. PICK j \in Nat \ {0} : u = j * v
    BY <1>3, <2>1, <2>2, PowerMonotonic
  <2> HIDE DEF u, v
  <2>4. k * (j * v) = (k * j) * v /\ k * j \in Int
    BY <1>4, <1>5
  <2> QED
    BY <1>5, <2>3, <2>4
<1>7. CASE ~(Magnitude(n) < Pow2[P + e])
  <2>1. Magnitude(n) = Pow2[P + e]
    <3> DEFINE b == Pow2[P]
    <3> HIDE DEF b, u
    <3>1. b \in Nat /\ u \in Nat /\ k \in -b .. b
      BY <1>2, <1>4 DEF b
    <3>2. (b - k) * u >= 0 /\ (b + k) * u >= 0
      BY <3>1
    <3>3. (b - k) * u = b * u - k * u /\ (b + k) * u = b * u + k * u
      BY <3>1
    <3>4. n =< b * u /\ -n =< b * u /\ b * u \in Int
      BY <1>5, <3>1, <3>2, <3>3
    <3>5. Pow2[P + e] = b * u
      BY <1>4 DEF b
    <3> QED
      BY <1>4, <1>5, <1>7, <3>4, <3>5 DEF Magnitude
  <2>2. e < W
    <3>1. Magnitude(n) < Pow2[P + W]
      BY WideType
    <3>2. e # W
      BY <1>4, <2>1, <3>1
    <3> QED
      BY <1>1, <1>3, <3>2
  <2>3. Magnitude(n) < Pow2[P + (e + 1)] /\ e + 1 \in 0 .. W
    <3>1. P + e \in 0 .. 2 * W - 1 /\ (P + e) + 1 = P + (e + 1) /\ e + 1 \in 0 .. W
      BY <1>1, <1>3, <2>2
    <3>2. Pow2[(P + e) + 1] = 2 * Pow2[P + e]
      BY <3>1, Exponents
    <3> QED
      BY <1>4, <2>1, <3>1, <3>2
  <2>4. f =< e + 1
    BY <2>3, ExponentLeast
  <2>5. f =< P + e /\ P + e \in Nat /\ P + e =< 2 * W
    BY <1>3, <2>4
  <2>6. PICK j \in Nat \ {0} : Pow2[P + e] = j * v
    BY <1>3, <2>5, PowerMonotonic
  <2> HIDE DEF v
  <2>7. (-j) * v = -(j * v) /\ -j \in Int /\ j \in Int
    BY <1>4
  <2>8. n = j * v \/ n = -(j * v)
    BY <1>4, <1>5, <2>1, <2>6 DEF Magnitude
  <2> QED
    BY <2>7, <2>8
<1> QED
  BY <1>6, <1>7

-----------------------------------------------------------------------------
(* Operands.                                                               *)

(* U7_TESTING_VALUE changes no integer: the type that the tag stands for   *)
(* holds every value of the operand's, also of a char of either signedness.*)
LEMMA ValueKept ==
  ASSUME NEW o \in Operand, Kind(o) \in {"I64", "U64"}
  PROVE  /\ Value(o) = [kind |-> Kind(o), as |-> o.as]
         /\ o.as \in Wide /\ o.as \in Int
         /\ Kind(o) = "U64" => o.as \in Unsigned(W)
         /\ Kind(o) = "I64" => o.as \in Signed(W)
<1> DEFINE h == Pow2[W - 1]
<1>1. h \in Nat \ {0} /\ Pow2[W] = 2 * h
  <2>1. W - 1 \in 0 .. 2 * W - 1 /\ W - 1 \in 0 .. 2 * W /\ (W - 1) + 1 = W
    BY Exponents
  <2> QED
    BY <2>1, Exponents, PowerPositive
<1>2. Pow2[N - 1] \in Nat /\ Pow2[N] \in Nat /\ Pow2[N - 1] =< h /\ Pow2[N] =< h
  <2>1. /\ N - 1 \in Nat /\ N \in Nat /\ W - 1 \in Nat /\ N =< W - 1 /\ N - 1 =< W - 1
        /\ W - 1 =< 2 * W /\ N - 1 \in 0 .. 2 * W /\ N \in 0 .. 2 * W
    BY Exponents
  <2>2. Pow2[N - 1] =< h /\ Pow2[N] =< h
    BY <2>1, PowerMonotonic
  <2> QED
    BY <2>1, <2>2, Exponents
<1> HIDE DEF h
<1>3. Signed(W) = -h .. h - 1 /\ Unsigned(W) = 0 .. 2 * h - 1
  BY <1>1 DEF Signed, Unsigned, h
<1>4. /\ Signed(N) \subseteq Signed(W) /\ Unsigned(N) \subseteq Signed(W)
      /\ Unsigned(N) \subseteq Unsigned(W)
  <2>1. Signed(N) = -Pow2[N - 1] .. Pow2[N - 1] - 1 /\ Unsigned(N) = 0 .. Pow2[N] - 1
    BY DEF Signed, Unsigned
  <2> QED
    BY <1>1, <1>2, <1>3, <2>1
<1>5. CASE Kind(o) = "I64"
  <2>1. o.type \in {"char", "signed char", "int64_t"}
    BY <1>5 DEF Kind, Operand
  <2>2. o.as \in Signed(W)
    BY <1>4, <2>1 DEF Operand
  <2>3. Modulo(o.as + h) = o.as + h
    BY <1>1, <1>3, <2>2 DEF Modulo
  <2>4. Value(o) = [kind |-> Kind(o), as |-> Modulo(o.as + h) - h]
    BY <1>5 DEF Value, h
  <2>5. Modulo(o.as + h) - h = o.as /\ o.as \in Int
    BY <1>1, <1>3, <2>2, <2>3
  <2> QED
    BY <1>5, <2>2, <2>4, <2>5 DEF Wide
<1>6. CASE Kind(o) = "U64"
  <2>1. o.type \in {"unsigned char", "uint64_t"}
    BY <1>6 DEF Kind, Operand
  <2>2. o.as \in Unsigned(W)
    BY <1>4, <2>1 DEF Operand
  <2>3. Modulo(o.as) = o.as
    BY <1>1, <1>3, <2>2 DEF Modulo
  <2>4. Value(o) = [kind |-> Kind(o), as |-> Modulo(o.as)]
    BY <1>6 DEF Value
  <2>5. o.as \in Int
    BY <1>3, <2>2
  <2> QED
    BY <1>6, <2>2, <2>3, <2>4, <2>5 DEF Wide
<1> QED
  BY <1>5, <1>6

LEMMA Kinds ==
  ASSUME NEW o \in Operand
  PROVE  /\ Kind(o) \in {"I64", "U64", "F64", "STR"}
         /\ Kind(o) = "F64" <=> o.type = "double"
         /\ Kind(o) = "F64" =>
              /\ Value(o) = [kind |-> "F64", as |-> o.as]
              /\ o.as \in Double \cup {NaN}
<1>1. o.type \in {"char", "signed char", "unsigned char", "int64_t", "uint64_t",
                  "double", "char*"}
  BY DEF Operand
<1>2. Kind(o) \in {"I64", "U64", "F64", "STR"} /\ (Kind(o) = "F64" <=> o.type = "double")
  BY <1>1 DEF Kind
<1>3. o.type = "double" => o.as \in Double \cup {NaN}
  BY DEF Operand
<1>4. Kind(o) = "F64" => Value(o) = [kind |-> "F64", as |-> o.as]
  BY DEF Value
<1> QED
  BY <1>2, <1>3, <1>4

(* A double that is twice an integer has been converted from one.          *)
LEMMA EvenDouble ==
  ASSUME NEW n \in Wide, 2 * n \in Double
  PROVE  ToDouble(n) = 2 * n
<1>1. n \in Int
  BY WideType
<1>2. 2 * n \notin {2 * x + 1 : x \in -Pow2[P - 1] .. Pow2[P - 1] - 1}
  <2>1. P - 1 \in 0 .. 2 * W
    BY Exponents
  <2>2. Pow2[P - 1] \in Nat
    BY <2>1, Exponents
  <2> QED
    BY <1>1, <2>2
<1>3. PICK m \in Wide : ToDouble(m) = 2 * n
  BY <1>2 DEF Double, Wide
<1> QED
  BY <1>3, ConvertedTwice

-----------------------------------------------------------------------------
(* The comparison.                                                         *)

(* The operands stay as they are; the outcome is that of the comparison.   *)
EqInv ==
  /\ actual \in Operand /\ expected \in Operand
  /\ Compared =>
       /\ (Kind(actual) = "STR") = (Kind(expected) = "STR")
       /\ outcome = "equal" <=>
            IF Kind(actual) = "STR" THEN StrEqual(actual, expected)
            ELSE ValuesEqual(Value(actual), Value(expected))

LEMMA EqInvariant == Spec => []EqInv
<1>1. Init => EqInv
  BY DEF Init, EqInv, Compared
<1>2. EqInv /\ [Next]_vars => EqInv'
  BY DEF EqInv, Compared, Next, Incomparable, Compare, Done, vars
<1> QED
  BY <1>1, <1>2, PTL DEF Spec

(* U7_ASSERT_EQ of two integers of any types compares their values: no     *)
(* negative number equals a large unsigned one.                            *)
THEOREM IntegersCompareExactly == Spec => []IntegersExact
<1>1. ASSUME EqInv PROVE IntegersExact
  <2> SUFFICES ASSUME Compared, {Kind(actual), Kind(expected)} \subseteq {"I64", "U64"}
               PROVE  outcome = "equal" <=> actual.as = expected.as
    BY DEF IntegersExact
  <2> DEFINE a == Value(actual)
             e == Value(expected)
  <2>1. /\ actual \in Operand /\ expected \in Operand
        /\ Kind(actual) \in {"I64", "U64"} /\ Kind(expected) \in {"I64", "U64"}
        /\ outcome = "equal" <=> ValuesEqual(a, e)
    BY <1>1 DEF EqInv
  <2>2. /\ a.kind = Kind(actual) /\ a.as = actual.as
        /\ a.as \in Int /\ (a.kind = "U64" => a.as \in Unsigned(W))
        /\ a.kind = "I64" => a.as \in Signed(W)
    BY <2>1, ValueKept
  <2>3. /\ e.kind = Kind(expected) /\ e.as = expected.as
        /\ e.as \in Int /\ (e.kind = "U64" => e.as \in Unsigned(W))
        /\ e.kind = "I64" => e.as \in Signed(W)
    BY <2>1, ValueKept
  <2> HIDE DEF a, e
  <2>4. ASSUME NEW i \in Signed(W), NEW u \in Unsigned(W)
        PROVE  MixedEqual(i, u) <=> i = u
    <3>1. /\ W - 1 \in 0 .. 2 * W /\ W - 1 \in 0 .. 2 * W - 1 /\ (W - 1) + 1 = W
      BY Exponents
    <3>2. Pow2[W - 1] \in Nat /\ Pow2[W] = 2 * Pow2[W - 1]
      BY <3>1, Exponents
    <3>3. i \in Int /\ u \in Nat /\ i < Pow2[W] /\ u < Pow2[W] /\ Pow2[W] \in Nat
      BY <3>2 DEF Signed, Unsigned
    <3>4. i >= 0 => Modulo(i) = i
      BY <3>3 DEF Modulo
    <3> QED
      BY <3>3, <3>4 DEF MixedEqual
  <2>5. ValuesEqual(a, e) <=> a.as = e.as
    <3>1. CASE a.kind = e.kind
      BY <2>1, <2>2, <2>3, <3>1 DEF ValuesEqual, IsInt
    <3>2. CASE a.kind = "I64" /\ e.kind = "U64"
      <4>1. MixedEqual(a.as, e.as) <=> a.as = e.as
        BY <2>2, <2>3, <2>4, <3>2
      <4> QED
        BY <3>2, <4>1 DEF ValuesEqual, IsInt
    <3>3. CASE a.kind = "U64" /\ e.kind = "I64"
      <4>1. MixedEqual(e.as, a.as) <=> e.as = a.as
        BY <2>2, <2>3, <2>4, <3>3
      <4> QED
        BY <3>3, <4>1 DEF ValuesEqual, IsInt
    <3> QED
      BY <2>1, <2>2, <2>3, <3>1, <3>2, <3>3
  <2> QED
    BY <2>1, <2>2, <2>3, <2>5
<1> QED
  BY <1>1, EqInvariant, PTL

(* U7_ASSERT_EQ never fails because of the rounding of a conversion to     *)
(* double: if an integer and a double are the same number, they compare    *)
(* equal.                                                                  *)
THEOREM NoFalseFailure == Spec => []SameNumberPasses
<1>1. ASSUME EqInv PROVE SameNumberPasses
  <2> SUFFICES ASSUME Compared, "F64" \in {Kind(actual), Kind(expected)},
                      NaN \notin {actual.as, expected.as},
                      Number(actual) = Number(expected)
               PROVE  outcome = "equal"
    BY DEF SameNumberPasses
  <2> DEFINE a == Value(actual)
             e == Value(expected)
  <2>1. /\ actual \in Operand /\ expected \in Operand
        /\ (Kind(actual) = "STR") = (Kind(expected) = "STR")
        /\ Kind(actual) # "STR" => (outcome = "equal" <=> ValuesEqual(a, e))
    BY <1>1 DEF EqInv
  <2>2. Kind(actual) # "STR" /\ Kind(expected) # "STR"
    BY <2>1
  <2>3. ASSUME NEW o \in Operand, Kind(o) # "STR",
               NEW d \in Double, Number(o) = d
        PROVE  AsDouble(Value(o)) = d
    <3>1. CASE Kind(o) = "F64"
      BY <2>3, <3>1, Kinds DEF AsDouble, IsInt, Number
    <3>2. CASE Kind(o) \in {"I64", "U64"}
      <4>1. /\ Value(o) = [kind |-> Kind(o), as |-> o.as] /\ o.as \in Wide
            /\ o.type # "double"
        BY <3>2, ValueKept, Kinds
      <4>2. 2 * o.as = d
        BY <2>3, <4>1 DEF Number
      <4>3. ToDouble(o.as) = d
        BY <4>1, <4>2, EvenDouble
      <4> QED
        BY <3>2, <4>1, <4>3 DEF AsDouble, IsInt
    <3> QED
      BY <2>3, <3>1, <3>2, Kinds
  <2>4. \E d \in Double : d # NaN /\ Number(actual) = d /\ Number(expected) = d
    <3>1. CASE Kind(actual) = "F64"
      BY <2>1, <3>1, Kinds DEF Number
    <3>2. CASE Kind(expected) = "F64"
      BY <2>1, <3>2, Kinds DEF Number
    <3> QED
      BY <3>1, <3>2
  <2>5. DoubleEqual(AsDouble(a), AsDouble(e))
    BY <2>1, <2>2, <2>3, <2>4 DEF DoubleEqual
  <2>6. "F64" \in {a.kind, e.kind}
    BY DEF Value
  <2> HIDE DEF a, e
  <2> QED
    BY <2>1, <2>2, <2>5, <2>6 DEF ValuesEqual
<1> QED
  BY <1>1, EqInvariant, PTL
=============================================================================
