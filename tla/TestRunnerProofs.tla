-------------------------- MODULE TestRunnerProofs --------------------------
(***************************************************************************)
(* Proofs about TestRunner, for any tests with any names, command lines    *)
(* and lists of any length, and any depth of nested runs.                  *)
(***************************************************************************)
EXTENDS TestRunner, FiniteSetTheorems, SequenceTheorems, TLAPS

-----------------------------------------------------------------------------
(* The command line.                                                       *)

(* The arguments before the i-th have been parsed, with these results; the *)
(* i-th is not the value of a --filter.                                    *)
FilterSoFar(argv, i, filter) ==
  \/ filter = NoFilter /\ \A n \in Filters(argv) : n >= i
  \/ \E n \in Filters(argv) :
       /\ n < i /\ \A m \in Filters(argv) : m < i => m =< n
       /\ filter = IF IsValue(argv, n) THEN argv[n]
                   ELSE [kind |-> "word", word |-> argv[n].word]

ListSoFar(argv, i) == \E n \in DOMAIN argv : n < i /\ IsOption(argv, n, "--list")

ParsedTo(argv, i, list, filter) ==
  /\ ~IsValue(argv, i)
  /\ \A n \in DOMAIN argv : n < i =>
       /\ ~IsOption(argv, n, "word")
       /\ IsOption(argv, n, "--filter") => n < Len(argv)
  /\ list = ListSoFar(argv, i)
  /\ FilterSoFar(argv, i, filter)

LEMMA LeastNat ==
  ASSUME NEW T \in SUBSET Nat, T # {} PROVE \E x \in T : \A y \in T : x =< y
<1> DEFINE R == {p \in Nat \X Nat : p[1] < p[2]}
<1>1. IsWellFoundedOn(R, Nat)
  BY NatLessThanWellFounded DEF OpToRel
<1> HIDE DEF R
<1>2. \E x \in T : \A y \in T : ~(<<y, x>> \in R)
  BY <1>1, WFMin
<1>3. ASSUME NEW x \in T, NEW y \in T, ~(<<y, x>> \in R) PROVE x =< y
  <2>1. <<y, x>> \in Nat \X Nat /\ <<y, x>>[1] = y /\ <<y, x>>[2] = x
    OBVIOUS
  <2>2. ~(y < x)
    BY <1>3, <2>1 DEF R
  <2> QED
    BY <2>2
<1> QED
  BY <1>2, <1>3

LEMMA ArgumentTypes ==
  ASSUME NEW argv \in Seq(Argument)
  PROVE  /\ Len(argv) \in Nat /\ DOMAIN argv = 1 .. Len(argv)
         /\ \A n \in 1 .. Len(argv) :
              /\ argv[n] \in Argument
              /\ argv[n].kind \in {"--list", "--filter", "--filter=", "word"}
              /\ argv[n].kind \in {"--filter=", "word"} => argv[n].word \in Pattern
BY LenProperties, ElementOfSeq DEF Argument

(* Where the --filter arguments before place n begin.                      *)
RunFrom(argv, m, n) ==
  /\ \A x \in m + 1 .. n - 1 : argv[x].kind = "--filter"
  /\ m = 0 \/ argv[m].kind # "--filter"

LEMMA RunExists ==
  ASSUME NEW argv, NEW n \in Nat \ {0}
  PROVE  \E m \in 0 .. n - 1 : RunFrom(argv, m, n)
<1> DEFINE T == {k \in 0 .. n - 1 : n - 1 - k = 0 \/ argv[n - 1 - k].kind # "--filter"}
<1>1. n - 1 \in T /\ T \in SUBSET Nat
  OBVIOUS
<1>2. PICK k \in T : \A y \in T : k =< y
  BY <1>1, LeastNat
<1>3. ASSUME NEW x \in (n - 1 - k) + 1 .. n - 1 PROVE argv[x].kind = "--filter"
  <2>1. n - 1 - x \in 0 .. n - 1 /\ n - 1 - (n - 1 - x) = x /\ n - 1 - x < k
    BY <1>2, <1>3
  <2> QED
    BY <1>2, <2>1
<1>4. n - 1 - k \in 0 .. n - 1 /\ (n - 1 - k = 0 \/ argv[n - 1 - k].kind # "--filter")
  BY <1>2
<1> QED
  BY <1>3, <1>4 DEF RunFrom

LEMMA RunUnique ==
  ASSUME NEW argv, NEW n \in Nat, NEW l \in 0 .. n - 1, NEW m \in 0 .. n - 1,
         RunFrom(argv, l, n), RunFrom(argv, m, n)
  PROVE  l = m
<1>1. ~(l < m) /\ ~(m < l)
  BY DEF RunFrom
<1> QED
  BY <1>1

(* An argument is a value if and only if it follows a --filter that is not *)
(* a value itself.                                                         *)
LEMMA FirstIsNoValue == ASSUME NEW argv PROVE ~IsValue(argv, 1)
BY DEF IsValue

LEMMA NextIsValue ==
  ASSUME NEW argv, NEW n \in Nat \ {0}
  PROVE  IsValue(argv, n + 1) <=> argv[n].kind = "--filter" /\ ~IsValue(argv, n)
<1>1. PICK m \in 0 .. n - 1 : RunFrom(argv, m, n)
  BY RunExists
<1>2. IsValue(argv, n) <=> (n - 1 - m) % 2 = 1
  BY <1>1, RunUnique DEF IsValue, RunFrom
<1>3. (n - m) % 2 = 1 <=> (n - 1 - m) % 2 = 0
  BY <1>1
<1>4. (n - 1 - m) % 2 \in {0, 1}
  BY <1>1
<1>5. CASE argv[n].kind = "--filter"
  <2>1. RunFrom(argv, m, n + 1) /\ m \in 0 .. (n + 1) - 1
    BY <1>1, <1>5 DEF RunFrom
  <2>2. IsValue(argv, n + 1) <=> (n - m) % 2 = 1
    BY <2>1, RunUnique DEF IsValue, RunFrom
  <2> QED
    BY <1>2, <1>3, <1>4, <1>5, <2>2
<1>6. CASE argv[n].kind # "--filter"
  <2>1. ASSUME NEW l \in 0 .. n, (n - l) % 2 = 1,
               \A x \in l + 1 .. n : argv[x].kind = "--filter"
        PROVE  FALSE
    <3>1. l = n
      BY <1>6, <2>1
    <3> QED
      BY <2>1, <3>1
  <2>2. ~IsValue(argv, n + 1)
    BY <2>1 DEF IsValue
  <2> QED
    BY <1>6, <2>2
<1> QED
  BY <1>5, <1>6

LEMMA ParseStart == ASSUME NEW argv \in Seq(Argument) PROVE ParsedTo(argv, 1, FALSE, NoFilter)
<1>1. /\ \A n \in DOMAIN argv : ~(n < 1) /\ n >= 1
      /\ \A n \in Filters(argv) : n >= 1
  BY ArgumentTypes DEF Filters
<1>2. ~ListSoFar(argv, 1)
  BY <1>1 DEF ListSoFar
<1>3. FilterSoFar(argv, 1, NoFilter)
  BY <1>1 DEF FilterSoFar
<1>4. (FALSE = ListSoFar(argv, 1)) <=> ~ListSoFar(argv, 1)
  BY DEF ListSoFar
<1> QED
  BY <1>1, <1>2, <1>3, <1>4, FirstIsNoValue DEF ParsedTo

(* A step over an option that takes one argument and is no filter.         *)
LEMMA ParseList ==
  ASSUME NEW argv \in Seq(Argument), NEW i \in DOMAIN argv,
         NEW list \in BOOLEAN, NEW filter, ParsedTo(argv, i, list, filter),
         argv[i].kind = "--list"
  PROVE  ParsedTo(argv, i + 1, TRUE, filter)
<1>1. /\ i \in Nat \ {0} /\ DOMAIN argv \subseteq Nat
      /\ ~IsValue(argv, i) /\ ~IsValue(argv, i + 1)
  <2>1. i \in Nat \ {0} /\ DOMAIN argv \subseteq Nat /\ ~IsValue(argv, i)
    BY ArgumentTypes DEF ParsedTo
  <2> QED
    BY <2>1, NextIsValue
<1>2. ListSoFar(argv, i + 1)
  BY <1>1 DEF ListSoFar, IsOption
<1>3. (TRUE = ListSoFar(argv, i + 1)) <=> ListSoFar(argv, i + 1)
  BY DEF ListSoFar
<1>4. i \notin Filters(argv) /\ Filters(argv) \subseteq DOMAIN argv
  BY <1>1 DEF Filters
<1>5. FilterSoFar(argv, i + 1, filter)
  <2>1. \A n \in Filters(argv) : (n >= i <=> n >= i + 1) /\ (n < i <=> n < i + 1)
    BY <1>1, <1>4
  <2> QED
    BY <2>1 DEF ParsedTo, FilterSoFar
<1>6. ASSUME NEW n \in DOMAIN argv, n < i + 1
      PROVE  /\ ~IsOption(argv, n, "word")
             /\ IsOption(argv, n, "--filter") => n < Len(argv)
  BY <1>1, <1>6 DEF ParsedTo, IsOption
<1> QED
  BY <1>1, <1>2, <1>3, <1>5, <1>6 DEF ParsedTo

(* --filter= sets the filter.                                              *)
LEMMA ParseFilterEq ==
  ASSUME NEW argv \in Seq(Argument), NEW i \in DOMAIN argv,
         NEW list, NEW filter, ParsedTo(argv, i, list, filter),
         argv[i].kind = "--filter="
  PROVE  ParsedTo(argv, i + 1, list, [kind |-> "word", word |-> argv[i].word])
<1>1. /\ i \in Nat \ {0} /\ DOMAIN argv \subseteq Nat
      /\ ~IsValue(argv, i) /\ ~IsValue(argv, i + 1)
  <2>1. i \in Nat \ {0} /\ DOMAIN argv \subseteq Nat /\ ~IsValue(argv, i)
    BY ArgumentTypes DEF ParsedTo
  <2> QED
    BY <2>1, NextIsValue
<1>2. ListSoFar(argv, i + 1) = ListSoFar(argv, i)
  <2>1. \A n \in DOMAIN argv :
          (n < i + 1 /\ IsOption(argv, n, "--list")) <=> (n < i /\ IsOption(argv, n, "--list"))
    BY <1>1 DEF IsOption
  <2> QED
    BY <2>1 DEF ListSoFar
<1>3. i \in Filters(argv) /\ Filters(argv) \subseteq DOMAIN argv
  BY DEF Filters
<1>4. FilterSoFar(argv, i + 1, [kind |-> "word", word |-> argv[i].word])
  BY <1>1, <1>3 DEF FilterSoFar
<1>5. ASSUME NEW n \in DOMAIN argv, n < i + 1
      PROVE  /\ ~IsOption(argv, n, "word")
             /\ IsOption(argv, n, "--filter") => n < Len(argv)
  BY <1>1, <1>5 DEF ParsedTo, IsOption
<1> QED
  BY <1>1, <1>2, <1>4, <1>5 DEF ParsedTo

(* --filter takes the next argument, whatever it is, for its value.        *)
LEMMA ParseFilter ==
  ASSUME NEW argv \in Seq(Argument), NEW i \in DOMAIN argv, i + 1 =< Len(argv),
         NEW list, NEW filter, ParsedTo(argv, i, list, filter),
         argv[i].kind = "--filter"
  PROVE  ParsedTo(argv, i + 2, list, argv[i + 1])
<1>1. /\ i \in Nat \ {0} /\ i + 1 \in Nat \ {0} /\ DOMAIN argv = 1 .. Len(argv)
      /\ DOMAIN argv \subseteq Nat /\ ~IsValue(argv, i) /\ Len(argv) \in Nat
  BY ArgumentTypes DEF ParsedTo
<1>2. IsValue(argv, i + 1)
  BY <1>1, NextIsValue
<1>3. ~IsValue(argv, i + 2)
  <2>1. (i + 1) + 1 = i + 2
    BY <1>1
  <2>2. IsValue(argv, (i + 1) + 1) <=>
          argv[i + 1].kind = "--filter" /\ ~IsValue(argv, i + 1)
    BY <1>1, NextIsValue
  <2> QED
    BY <1>2, <2>1, <2>2
<1>4. ListSoFar(argv, i + 2) = ListSoFar(argv, i)
  <2>1. \A n \in DOMAIN argv :
          (n < i + 2 /\ IsOption(argv, n, "--list")) <=> (n < i /\ IsOption(argv, n, "--list"))
    BY <1>1, <1>2 DEF IsOption
  <2> QED
    BY <2>1 DEF ListSoFar
<1>5. i + 1 \in Filters(argv) /\ Filters(argv) \subseteq DOMAIN argv
  BY <1>1, <1>2 DEF Filters
<1>6. FilterSoFar(argv, i + 2, argv[i + 1])
  BY <1>1, <1>2, <1>5 DEF FilterSoFar
<1>7. ASSUME NEW n \in DOMAIN argv, n < i + 2
      PROVE  /\ ~IsOption(argv, n, "word")
             /\ IsOption(argv, n, "--filter") => n < Len(argv)
  BY <1>1, <1>2, <1>7 DEF ParsedTo, IsOption
<1> QED
  BY <1>3, <1>4, <1>6, <1>7 DEF ParsedTo

(* When all has been parsed, the results are what the command line asks    *)
(* for.                                                                    *)
LEMMA Parsed ==
  ASSUME NEW argv \in Seq(Argument), NEW list \in BOOLEAN,
         NEW filter, ParsedTo(argv, Len(argv) + 1, list, filter)
  PROVE  /\ Valid(argv)
         /\ list <=> \E n \in DOMAIN argv : IsOption(argv, n, "--list")
         /\ filter = NoFilter <=> Filters(argv) = {}
         /\ \A t : Selects(filter, t) <=> Wanted(argv, t)
<1>1. /\ Len(argv) \in Nat /\ DOMAIN argv = 1 .. Len(argv)
      /\ Filters(argv) \subseteq DOMAIN argv
      /\ \A n \in DOMAIN argv : n < Len(argv) + 1 /\ ~(n >= Len(argv) + 1)
  BY ArgumentTypes DEF Filters
<1>2. Valid(argv)
  BY <1>1 DEF ParsedTo, Valid
<1>3. list <=> \E n \in DOMAIN argv : IsOption(argv, n, "--list")
  <2>1. list <=> ListSoFar(argv, Len(argv) + 1)
    BY DEF ParsedTo
  <2> QED
    BY <1>1, <2>1 DEF ListSoFar
<1>4. CASE filter = NoFilter /\ Filters(argv) = {}
  BY <1>2, <1>3, <1>4 DEF Selects, Wanted
<1>5. CASE Filters(argv) # {}
  <2>1. PICK n \in Filters(argv) :
          /\ \A m \in Filters(argv) : m =< n
          /\ filter = IF IsValue(argv, n) THEN argv[n]
                      ELSE [kind |-> "word", word |-> argv[n].word]
    BY <1>1, <1>5 DEF ParsedTo, FilterSoFar
  <2>2. n = CHOOSE x \in Filters(argv) : \A m \in Filters(argv) : m =< x
    <3>1. \A x \in Filters(argv) : (\A m \in Filters(argv) : m =< x) => x = n
      BY <1>1, <2>1
    <3> QED
      BY <2>1, <3>1
  <2>3. filter # NoFilter
    BY <1>1, <2>1, ArgumentTypes DEF NoFilter
  <2>4. ASSUME NEW t
        PROVE  Wanted(argv, t) <=>
                 /\ argv[n].kind = IF IsValue(argv, n) THEN "word" ELSE "--filter="
                 /\ t \in Contains[argv[n].word]
    BY <1>5, <2>2 DEF Wanted
  <2>5. ~IsValue(argv, n) => argv[n].kind = "--filter="
    BY <2>1 DEF Filters
  <2>6. \A t : Selects(filter, t) <=> Wanted(argv, t)
    BY <2>1, <2>3, <2>4, <2>5 DEF Selects
  <2> QED
    BY <1>2, <1>3, <1>5, <2>3, <2>6
<1>6. Filters(argv) = {} => filter = NoFilter
  BY DEF ParsedTo, FilterSoFar
<1> QED
  BY <1>4, <1>5, <1>6

-----------------------------------------------------------------------------
(* The tests of a list.                                                    *)

ChosenBefore(tests, filter, i) ==
  {n \in DOMAIN tests : n < i /\ Selects(filter, tests[n])}

LEMMA NoneAt == ASSUME NEW list PROVE AreAt(<<>>, list, {})
<1> DEFINE at == [m \in {} |-> 0]
<1>1. at \in [DOMAIN <<>> -> {}] /\ DOMAIN <<>> = {}
  OBVIOUS
<1> QED
  BY <1>1 DEF AreAt

(* One more element, from a later place.                                   *)
LEMMA OneMoreAt ==
  ASSUME NEW A, NEW s \in Seq(A), NEW list, NEW S, AreAt(s, list, S),
         NEW n \in Nat, \A m \in S : m \in Nat /\ m < n, list[n] \in A
  PROVE  AreAt(Append(s, list[n]), list, S \cup {n})
<1> DEFINE t == Append(s, list[n])
<1>1. /\ Len(s) \in Nat /\ DOMAIN s = 1 .. Len(s) /\ DOMAIN t = 1 .. Len(s) + 1
      /\ \A m \in 1 .. Len(s) : t[m] = s[m]
      /\ t[Len(s) + 1] = list[n]
  BY AppendProperties, LenProperties
<1>2. PICK at \in [DOMAIN s -> S] :
        /\ \A l, m \in DOMAIN s : l < m => at[l] < at[m]
        /\ \A l \in S : \E m \in DOMAIN s : at[m] = l
        /\ \A m \in DOMAIN s : s[m] = list[at[m]]
  BY DEF AreAt
<1> DEFINE bt == [m \in 1 .. Len(s) + 1 |-> IF m = Len(s) + 1 THEN n ELSE at[m]]
<1> HIDE DEF t
<1>3. bt \in [DOMAIN t -> S \cup {n}]
  BY <1>1, <1>2
<1>4. /\ \A m \in 1 .. Len(s) : bt[m] = at[m] /\ at[m] \in S
      /\ bt[Len(s) + 1] = n
  BY <1>1, <1>2
<1> HIDE DEF bt
<1>5. ASSUME NEW l \in DOMAIN t, NEW m \in DOMAIN t, l < m PROVE bt[l] < bt[m]
  <2>1. l \in 1 .. Len(s)
    BY <1>1, <1>5
  <2>2. CASE m = Len(s) + 1
    BY <1>4, <2>1, <2>2
  <2>3. CASE m \in 1 .. Len(s)
    BY <1>1, <1>2, <1>4, <1>5, <2>1, <2>3
  <2> QED
    BY <1>1, <2>2, <2>3
<1>6. ASSUME NEW l \in S \cup {n} PROVE \E m \in DOMAIN t : bt[m] = l
  <2>1. CASE l \in S
    BY <1>1, <1>2, <1>4, <2>1
  <2>2. CASE l = n
    <3>1. Len(s) + 1 \in DOMAIN t
      BY <1>1
    <3> QED
      BY <1>4, <2>2, <3>1
  <2> QED
    BY <2>1, <2>2
<1>7. ASSUME NEW m \in DOMAIN t PROVE t[m] = list[bt[m]]
  <2>1. CASE m = Len(s) + 1
    BY <1>1, <1>4, <2>1
  <2>2. CASE m \in 1 .. Len(s)
    BY <1>1, <1>2, <1>4, <2>2
  <2> QED
    BY <1>1, <2>1, <2>2
<1>8. AreAt(t, list, S \cup {n})
  BY <1>3, <1>5, <1>6, <1>7 DEF AreAt
<1> QED
  BY <1>8 DEF t

LEMMA ChosenSteps ==
  ASSUME NEW A, NEW tests \in Seq(A), NEW filter, NEW i \in DOMAIN tests
  PROVE  ChosenBefore(tests, filter, i + 1) =
           IF Selects(filter, tests[i]) THEN ChosenBefore(tests, filter, i) \cup {i}
           ELSE ChosenBefore(tests, filter, i)
<1>1. Len(tests) \in Nat /\ DOMAIN tests = 1 .. Len(tests)
  BY LenProperties
<1>2. \A n \in DOMAIN tests : n < i + 1 <=> n < i \/ n = i
  BY <1>1
<1> QED
  BY <1>2 DEF ChosenBefore

(* What has been chosen from a list in order of the names is in order.     *)
LEMMA OrderKept ==
  ASSUME NEW s, NEW list, NEW S \in SUBSET DOMAIN list, AreAt(s, list, S),
         InOrder(list)
  PROVE  InOrder(s)
BY DEF AreAt, InOrder

-----------------------------------------------------------------------------
(* A call of u7_testing_run.                                               *)

Frame ==
  [argv : Seq(Argument), tests : Seq(Test \cup OwnTest),
   pc : {"arguments", "tests", "inside"}, i : Nat,
   list : BOOLEAN, filter : Argument \cup {NoFilter},
   selected : Nat, passed : Seq(Test \cup OwnTest)]

(* In the first loop nothing has been run; in the second, the tests chosen *)
(* from those before the i-th have passed, or have only been listed.       *)
Parsing(f) ==
  /\ f.pc = "arguments"
  /\ f.i \in 1 .. Len(f.argv) + 1
  /\ ParsedTo(f.argv, f.i, f.list, f.filter)
  /\ f.selected = 0 /\ f.passed = <<>>

Testing(f) ==
  /\ f.pc \in {"tests", "inside"}
  /\ f.i \in 1 .. Len(f.tests) + 1
  /\ ParsedTo(f.argv, Len(f.argv) + 1, f.list, f.filter)
  /\ f.list => f.passed = <<>>
  /\ ~f.list => AreAt(f.passed, f.tests, ChosenBefore(f.tests, f.filter, f.i))
  /\ f.selected > 0 => \E n \in DOMAIN f.tests : Selects(f.filter, f.tests[n])
  /\ f.selected =< f.i
  /\ f.pc = "tests" => f.selected < f.i
  /\ f.pc = "inside" =>
       f.i =< Len(f.tests) /\ ~f.list /\ Selects(f.filter, f.tests[f.i])

(* The list is the program's own, or one of registered tests in order.     *)
ListOk(tests) ==
  \/ Elements(tests) \subseteq OwnTest
  \/ Elements(tests) \subseteq Test /\ InOrder(tests)

FrameOk(f) == (Parsing(f) \/ Testing(f)) /\ ListOk(f.tests)

LEMMA FrameType ==
  ASSUME NEW f \in Frame
  PROVE  /\ f.argv \in Seq(Argument) /\ Len(f.argv) \in Nat
         /\ DOMAIN f.argv = 1 .. Len(f.argv)
         /\ f.tests \in Seq(Test \cup OwnTest) /\ Len(f.tests) \in Nat
         /\ DOMAIN f.tests = 1 .. Len(f.tests)
         /\ \A n \in DOMAIN f.tests : f.tests[n] \in Test \cup OwnTest
         /\ f.passed \in Seq(Test \cup OwnTest)
         /\ f.i \in Nat /\ f.selected \in Nat /\ f.list \in BOOLEAN
<1>1. /\ f.argv \in Seq(Argument) /\ f.tests \in Seq(Test \cup OwnTest)
      /\ f.passed \in Seq(Test \cup OwnTest)
      /\ f.i \in Nat /\ f.selected \in Nat /\ f.list \in BOOLEAN
  BY DEF Frame
<1> QED
  BY <1>1, LenProperties, ElementOfSeq

(* A frame stays one when a field is assigned a value of its type.         *)
LEMMA Assigned ==
  ASSUME NEW f \in Frame
  PROVE  /\ \A x \in {"arguments", "tests", "inside"} : [f EXCEPT !.pc = x] \in Frame
         /\ \A x \in Nat : [f EXCEPT !.i = x] \in Frame
         /\ [f EXCEPT !.list = TRUE] \in Frame
         /\ \A x \in Argument \cup {NoFilter} : [f EXCEPT !.filter = x] \in Frame
         /\ \A x \in Nat : [f EXCEPT !.selected = x] \in Frame
         /\ \A x \in Seq(Test \cup OwnTest) : [f EXCEPT !.passed = x] \in Frame
<1>1. \A x \in {"arguments", "tests", "inside"} : [f EXCEPT !.pc = x] \in Frame
  BY DEF Frame
<1>2. \A x \in Nat : [f EXCEPT !.i = x] \in Frame
  BY DEF Frame
<1>3. [f EXCEPT !.list = TRUE] \in Frame
  BY DEF Frame
<1>4. \A x \in Argument \cup {NoFilter} : [f EXCEPT !.filter = x] \in Frame
  BY DEF Frame
<1>5. \A x \in Nat : [f EXCEPT !.selected = x] \in Frame
  BY DEF Frame
<1>6. \A x \in Seq(Test \cup OwnTest) : [f EXCEPT !.passed = x] \in Frame
  BY DEF Frame
<1> QED
  BY <1>1, <1>2, <1>3, <1>4, <1>5, <1>6

LEMMA AssignedMore ==
  ASSUME NEW f \in Frame, NEW n \in Nat
  PROVE  /\ [f EXCEPT !.list = TRUE, !.i = n] \in Frame
         /\ \A x \in Argument : [f EXCEPT !.filter = x, !.i = n] \in Frame
         /\ [f EXCEPT !.pc = "tests", !.i = n] \in Frame
         /\ \A x \in Nat : [f EXCEPT !.selected = x, !.i = n] \in Frame
         /\ [f EXCEPT !.selected = n, !.pc = "inside"] \in Frame
         /\ \A x \in Seq(Test \cup OwnTest) :
              [f EXCEPT !.passed = x, !.pc = "tests", !.i = n] \in Frame
<1>1. [f EXCEPT !.list = TRUE, !.i = n] \in Frame
  <2>1. [f EXCEPT !.list = TRUE] \in Frame
    BY Assigned
  <2> QED
    BY <2>1, Assigned
<1>2. ASSUME NEW x \in Argument PROVE [f EXCEPT !.filter = x, !.i = n] \in Frame
  <2>1. [f EXCEPT !.filter = x] \in Frame
    BY Assigned
  <2> QED
    BY <2>1, Assigned
<1>3. [f EXCEPT !.pc = "tests", !.i = n] \in Frame
  <2>1. [f EXCEPT !.pc = "tests"] \in Frame
    BY Assigned
  <2> QED
    BY <2>1, Assigned
<1>4. ASSUME NEW x \in Nat PROVE [f EXCEPT !.selected = x, !.i = n] \in Frame
  <2>1. [f EXCEPT !.selected = x] \in Frame
    BY Assigned
  <2> QED
    BY <2>1, Assigned
<1>5. [f EXCEPT !.selected = n, !.pc = "inside"] \in Frame
  <2>1. [f EXCEPT !.selected = n] \in Frame
    BY Assigned
  <2> QED
    BY <2>1, Assigned
<1>6. ASSUME NEW x \in Seq(Test \cup OwnTest)
      PROVE  [f EXCEPT !.passed = x, !.pc = "tests", !.i = n] \in Frame
  <2>1. [f EXCEPT !.passed = x] \in Frame
    BY Assigned
  <2>2. [[f EXCEPT !.passed = x] EXCEPT !.pc = "tests"] \in Frame
    BY <2>1, Assigned
  <2> QED
    BY <2>2, Assigned
<1> QED
  BY <1>1, <1>2, <1>3, <1>4, <1>5, <1>6

(* The frame of a call that begins.                                        *)
LEMMA CallFrame ==
  ASSUME NEW args \in Seq(Argument), NEW cases \in Seq(Test \cup OwnTest)
  PROVE  LET f == [argv |-> args, tests |-> cases, pc |-> "arguments", i |-> 1,
                   list |-> FALSE, filter |-> NoFilter, selected |-> 0, passed |-> <<>>]
         IN  f \in Frame /\ Parsing(f) /\ f.tests = cases
<1> DEFINE f == [argv |-> args, tests |-> cases, pc |-> "arguments", i |-> 1,
                 list |-> FALSE, filter |-> NoFilter, selected |-> 0, passed |-> <<>>]
<1>1. f \in Frame
  BY DEF Frame
<1>2. /\ f.argv = args /\ f.pc = "arguments" /\ f.i = 1 /\ f.list = FALSE
      /\ f.filter = NoFilter /\ f.selected = 0 /\ f.passed = <<>> /\ f.tests = cases
  OBVIOUS
<1> HIDE DEF f
<1>3. 1 \in 1 .. Len(args) + 1
  BY LenProperties
<1>4. ParsedTo(f.argv, f.i, f.list, f.filter)
  BY <1>2, ParseStart
<1> QED
  BY <1>1, <1>2, <1>3, <1>4 DEF Parsing, f

(* The frame after each step of the first loop.                            *)
LEMMA ListFrame ==
  ASSUME NEW f \in Frame, Parsing(f), f.i =< Len(f.argv), f.argv[f.i].kind = "--list"
  PROVE  LET g == [f EXCEPT !.list = TRUE, !.i = @ + 1]
         IN  g \in Frame /\ Parsing(g) /\ g.tests = f.tests
<1> DEFINE g == [f EXCEPT !.list = TRUE, !.i = @ + 1]
<1>1. g \in Frame
  <2>1. f.i + 1 \in Nat
    BY FrameType
  <2> QED
    BY <2>1, AssignedMore
<1>2. /\ g.argv = f.argv /\ g.tests = f.tests /\ g.pc = f.pc /\ g.i = f.i + 1
      /\ g.list = TRUE /\ g.filter = f.filter /\ g.selected = f.selected
      /\ g.passed = f.passed
  BY DEF Frame
<1> HIDE DEF g
<1>3. f.i \in DOMAIN f.argv /\ f.i + 1 \in 1 .. Len(f.argv) + 1
  BY FrameType DEF Parsing
<1>4. ParsedTo(g.argv, g.i, g.list, g.filter)
  BY <1>2, <1>3, ParseList, FrameType DEF Parsing
<1> QED
  BY <1>1, <1>2, <1>3, <1>4 DEF Parsing, g

LEMMA FilterFrame ==
  ASSUME NEW f \in Frame, Parsing(f), f.i + 1 =< Len(f.argv),
         f.argv[f.i].kind = "--filter"
  PROVE  LET g == [f EXCEPT !.filter = f.argv[f.i + 1], !.i = @ + 2]
         IN  g \in Frame /\ Parsing(g) /\ g.tests = f.tests
<1> DEFINE g == [f EXCEPT !.filter = f.argv[f.i + 1], !.i = @ + 2]
<1>0. /\ f.i \in DOMAIN f.argv /\ f.i + 1 \in DOMAIN f.argv
      /\ f.i + 2 \in 1 .. Len(f.argv) + 1
  BY FrameType DEF Parsing
<1>1. f.argv[f.i + 1] \in Argument
  BY <1>0, FrameType, ArgumentTypes
<1>2. g \in Frame
  <2>1. f.i + 2 \in Nat
    BY <1>1, FrameType
  <2> QED
    BY <2>1, <1>1, AssignedMore
<1>3. /\ g.argv = f.argv /\ g.tests = f.tests /\ g.pc = f.pc /\ g.i = f.i + 2
      /\ g.list = f.list /\ g.filter = f.argv[f.i + 1] /\ g.selected = f.selected
      /\ g.passed = f.passed
  BY DEF Frame
<1> HIDE DEF g
<1>4. ParsedTo(g.argv, g.i, g.list, g.filter)
  BY <1>0, <1>3, ParseFilter, FrameType DEF Parsing
<1> QED
  BY <1>0, <1>2, <1>3, <1>4 DEF Parsing, g

LEMMA FilterEqFrame ==
  ASSUME NEW f \in Frame, Parsing(f), f.i =< Len(f.argv),
         f.argv[f.i].kind = "--filter="
  PROVE  LET g == [f EXCEPT !.filter = [kind |-> "word", word |-> f.argv[f.i].word],
                            !.i = @ + 1]
         IN  g \in Frame /\ Parsing(g) /\ g.tests = f.tests
<1> DEFINE w == [kind |-> "word", word |-> f.argv[f.i].word]
           g == [f EXCEPT !.filter = w, !.i = @ + 1]
<1>0. f.i \in DOMAIN f.argv /\ f.i + 1 \in 1 .. Len(f.argv) + 1
  BY FrameType DEF Parsing
<1>1. w \in Argument
  BY <1>0, FrameType, ArgumentTypes DEF Argument
<1>2. ParsedTo(f.argv, f.i + 1, f.list, w)
  BY <1>0, ParseFilterEq, FrameType DEF Parsing
<1> HIDE DEF w
<1>3. g \in Frame
  <2>1. f.i + 1 \in Nat
    BY <1>1, FrameType
  <2> QED
    BY <2>1, <1>1, AssignedMore
<1>4. /\ g.argv = f.argv /\ g.tests = f.tests /\ g.pc = f.pc /\ g.i = f.i + 1
      /\ g.list = f.list /\ g.filter = w /\ g.selected = f.selected
      /\ g.passed = f.passed
  BY DEF Frame
<1> HIDE DEF g
<1> QED
  BY <1>0, <1>2, <1>3, <1>4 DEF Parsing, g, w

LEMMA EndFrame ==
  ASSUME NEW f \in Frame, Parsing(f), f.i > Len(f.argv)
  PROVE  LET g == [f EXCEPT !.pc = "tests", !.i = 1]
         IN  g \in Frame /\ Testing(g) /\ g.tests = f.tests
<1> DEFINE g == [f EXCEPT !.pc = "tests", !.i = 1]
<1>1. g \in Frame
  BY AssignedMore
<1>2. /\ g.argv = f.argv /\ g.tests = f.tests /\ g.pc = "tests" /\ g.i = 1
      /\ g.list = f.list /\ g.filter = f.filter /\ g.selected = f.selected
      /\ g.passed = f.passed
  BY DEF Frame
<1> HIDE DEF g
<1>3. f.i = Len(f.argv) + 1 /\ 1 \in 1 .. Len(f.tests) + 1
  BY FrameType DEF Parsing
<1>4. ChosenBefore(f.tests, f.filter, 1) = {}
  BY FrameType DEF ChosenBefore
<1>5. AreAt(g.passed, g.tests, ChosenBefore(g.tests, g.filter, g.i))
  BY <1>2, <1>4, NoneAt DEF Parsing
<1>6. ParsedTo(g.argv, Len(g.argv) + 1, g.list, g.filter)
  BY <1>2, <1>3 DEF Parsing
<1> QED
  BY <1>1, <1>2, <1>3, <1>5, <1>6 DEF Parsing, Testing, g

(* The frame after each step of the second loop.                           *)
LEMMA SkipFrame ==
  ASSUME NEW f \in Frame, Testing(f), f.pc = "tests", f.i =< Len(f.tests),
         f.list \/ ~Selects(f.filter, f.tests[f.i])
  PROVE  LET g == [f EXCEPT !.selected =
                              @ + IF Selects(f.filter, f.tests[f.i]) THEN 1 ELSE 0,
                            !.i = @ + 1]
         IN  g \in Frame /\ Testing(g) /\ g.tests = f.tests
<1> DEFINE e == IF Selects(f.filter, f.tests[f.i]) THEN 1 ELSE 0
           g == [f EXCEPT !.selected = @ + e, !.i = @ + 1]
<1>0. e \in Nat /\ e =< 1 /\ (e > 0 => Selects(f.filter, f.tests[f.i]))
  OBVIOUS
<1> HIDE DEF e
<1>1. g \in Frame
  <2>1. f.i + 1 \in Nat /\ f.selected + e \in Nat
    BY <1>0, FrameType
  <2> QED
    BY <2>1, <1>0, AssignedMore
<1>2. /\ g.argv = f.argv /\ g.tests = f.tests /\ g.pc = f.pc /\ g.i = f.i + 1
      /\ g.list = f.list /\ g.filter = f.filter /\ g.selected = f.selected + e
      /\ g.passed = f.passed
  BY DEF Frame
<1> HIDE DEF g
<1>3. f.i \in DOMAIN f.tests /\ f.i + 1 \in 1 .. Len(f.tests) + 1
  BY FrameType DEF Testing
<1>4. ~f.list => ChosenBefore(f.tests, f.filter, f.i + 1) = ChosenBefore(f.tests, f.filter, f.i)
  BY <1>3, ChosenSteps, FrameType
<1>5. g.selected > 0 => \E n \in DOMAIN g.tests : Selects(g.filter, g.tests[n])
  BY <1>0, <1>2, <1>3, FrameType DEF Testing
<1>6. g.selected < g.i /\ g.selected =< g.i
  BY <1>0, <1>2, FrameType DEF Testing
<1> QED
  BY <1>1, <1>2, <1>3, <1>4, <1>5, <1>6 DEF Testing, g, e

LEMMA TestFrame ==
  ASSUME NEW f \in Frame, Testing(f), f.pc = "tests", f.i =< Len(f.tests),
         ~f.list, Selects(f.filter, f.tests[f.i])
  PROVE  LET g == [f EXCEPT !.selected = @ + 1, !.pc = "inside"]
         IN  /\ g \in Frame /\ Testing(g) /\ g.tests = f.tests
             /\ g.pc = "inside" /\ g.i = f.i
<1> DEFINE g == [f EXCEPT !.selected = @ + 1, !.pc = "inside"]
<1>1. g \in Frame
  <2>1. f.selected + 1 \in Nat
    BY FrameType
  <2> QED
    BY <2>1, AssignedMore
<1>2. /\ g.argv = f.argv /\ g.tests = f.tests /\ g.pc = "inside" /\ g.i = f.i
      /\ g.list = f.list /\ g.filter = f.filter /\ g.selected = f.selected + 1
      /\ g.passed = f.passed
  BY DEF Frame
<1> HIDE DEF g
<1>3. f.i \in DOMAIN f.tests
  BY FrameType DEF Testing
<1>4. g.selected =< g.i
  BY <1>2, FrameType DEF Testing
<1> QED
  BY <1>1, <1>2, <1>3, <1>4 DEF Testing, g

LEMMA PassFrame ==
  ASSUME NEW f \in Frame, Testing(f), f.pc = "inside"
  PROVE  LET g == [f EXCEPT !.passed = Append(@, f.tests[f.i]), !.pc = "tests",
                            !.i = f.i + 1]
         IN  g \in Frame /\ Testing(g) /\ g.tests = f.tests
<1> DEFINE p == Append(f.passed, f.tests[f.i])
           g == [f EXCEPT !.passed = p, !.pc = "tests", !.i = f.i + 1]
<1>1. /\ f.i \in DOMAIN f.tests /\ f.tests[f.i] \in Test \cup OwnTest
      /\ f.i + 1 \in 1 .. Len(f.tests) + 1
  BY FrameType DEF Testing
<1>2. p \in Seq(Test \cup OwnTest)
  BY <1>1, FrameType, AppendProperties
<1>3. AreAt(p, f.tests, ChosenBefore(f.tests, f.filter, f.i + 1))
  <2>1. AreAt(f.passed, f.tests, ChosenBefore(f.tests, f.filter, f.i))
    BY DEF Testing
  <2>2. \A m \in ChosenBefore(f.tests, f.filter, f.i) : m \in Nat /\ m < f.i
    BY FrameType DEF ChosenBefore
  <2>3. AreAt(p, f.tests, ChosenBefore(f.tests, f.filter, f.i) \cup {f.i})
    BY <1>1, <2>1, <2>2, OneMoreAt, FrameType
  <2>4. ChosenBefore(f.tests, f.filter, f.i + 1)
          = ChosenBefore(f.tests, f.filter, f.i) \cup {f.i}
    BY <1>1, ChosenSteps, FrameType DEF Testing
  <2> QED
    BY <2>3, <2>4
<1> HIDE DEF p
<1>4. g \in Frame
  <2>1. f.i + 1 \in Nat
    BY <1>2, FrameType
  <2> QED
    BY <2>1, <1>2, AssignedMore
<1>5. /\ g.argv = f.argv /\ g.tests = f.tests /\ g.pc = "tests" /\ g.i = f.i + 1
      /\ g.list = f.list /\ g.filter = f.filter /\ g.selected = f.selected
      /\ g.passed = p
  BY DEF Frame
<1>6. g = [f EXCEPT !.passed = Append(@, f.tests[f.i]), !.pc = "tests", !.i = f.i + 1]
  BY DEF p
<1> HIDE DEF g
<1>7. g.selected < g.i /\ g.selected =< g.i
  BY <1>5, FrameType DEF Testing
<1> QED
  BY <1>1, <1>3, <1>4, <1>5, <1>6, <1>7 DEF Testing

-----------------------------------------------------------------------------
(* The state of the runner.                                                *)

(* The calls in progress; all but the innermost are inside a test.         *)
Frames ==
  \A k \in 1 .. Len(stack) :
    /\ FrameOk(stack[k])
    /\ k < Len(stack) => stack[k].pc = "inside"

TestAt(f) == f.tests[f.i]

(* The test that the innermost of the calls s was made in, if any.         *)
CallerTest(s) == IF Len(s) > 1 THEN TestAt(s[Len(s) - 1]) ELSE NoTest

(* x is the name of the test that runs, or has been lost in a nested run;  *)
(* a call that is still at its options has the name of its caller.         *)
NameOk(s, x, r) ==
  /\ Len(s) = 0 /\ r # "abort" => x = NoTest
  /\ Len(s) > 0 /\ s[Len(s)].pc = "arguments" => x \in {CallerTest(s), NoTest}
  /\ Len(s) > 0 /\ s[Len(s)].pc = "inside" => x \in {TestAt(s[Len(s)]), NoTest}

Types ==
  /\ registered \in Seq(Test)
  /\ \A m, n \in DOMAIN registered : registered[m] = registered[n] => m = n
  /\ stack \in Seq(Frame)
  /\ name \in Test \cup OwnTest \cup {NoTest}
  /\ result \in {"0", "2", "abort", "none"}

RunnerInv == Types /\ Frames /\ NameOk(stack, name, result)

LEMMA ElementsOfSeq ==
  ASSUME NEW S, NEW s \in Seq(S)
  PROVE  /\ Len(s) \in Nat /\ DOMAIN s = 1 .. Len(s)
         /\ Elements(s) = {s[n] : n \in 1 .. Len(s)} /\ Elements(s) \subseteq S
BY LenProperties, ElementOfSeq DEF Elements

LEMMA SeqOfIsSeq == ASSUME NEW S, NEW n \in Nat PROVE SeqOf(S, n) \subseteq Seq(S)
BY SeqDef DEF SeqOf

LEMMA StackTop ==
  ASSUME Types
  PROVE  /\ Depth \in Nat /\ Depth = Len(stack)
         /\ \A k \in 1 .. Depth : stack[k] \in Frame
         /\ Depth > 0 => Top = stack[Depth] /\ Top \in Frame /\ Depth \in 1 .. Len(stack)
BY ElementsOfSeq, ElementOfSeq DEF Types, Depth, Top

LEMMA TopOk ==
  ASSUME RunnerInv, Depth > 0
  PROVE  /\ Top \in Frame /\ FrameOk(Top)
         /\ Top.pc = "arguments" => Parsing(Top)
         /\ Top.pc \in {"tests", "inside"} => Testing(Top)
<1>1. Top \in Frame /\ FrameOk(Top)
  BY StackTop DEF RunnerInv, Frames
<1> QED
  BY <1>1 DEF FrameOk, Parsing, Testing

LEMMA InitRunnerInv == Init => RunnerInv
<1> SUFFICES ASSUME Init PROVE RunnerInv
  OBVIOUS
<1>1. <<>> \in Seq(Test) /\ <<>> \in Seq(Frame) /\ Len(<<>>) = 0 /\ DOMAIN <<>> = {}
  OBVIOUS
<1>2. Types
  BY <1>1 DEF Init, Types
<1>3. Frames /\ NameOk(stack, name, result)
  BY <1>1 DEF Init, Frames, NameOk
<1> QED
  BY <1>2, <1>3 DEF RunnerInv

(* A test is registered.                                                   *)
LEMMA RegisterStep ==
  ASSUME RunnerInv, NEW t \in Test, Construct(t) PROVE RunnerInv'
<1>1. /\ UserCode /\ t \notin Elements(registered) /\ Types
      /\ registered' = <<t>> \o registered /\ UNCHANGED <<stack, name>>
      /\ result' = "none"
  BY DEF Construct, Register, RunnerInv
<1>2. <<t>> \in Seq(Test) /\ Len(<<t>>) = 1 /\ <<t>>[1] = t
  OBVIOUS
<1>3. /\ registered' \in Seq(Test) /\ Len(registered') = 1 + Len(registered)
      /\ \A n \in 1 .. 1 + Len(registered) :
           registered'[n] = IF n =< 1 THEN t ELSE registered[n - 1]
  <2>1. registered \in Seq(Test)
    BY <1>1 DEF Types
  <2>2. /\ <<t>> \o registered \in Seq(Test)
        /\ Len(<<t>> \o registered) = Len(<<t>>) + Len(registered)
        /\ \A n \in 1 .. Len(<<t>>) + Len(registered) :
             (<<t>> \o registered)[n] =
               IF n =< Len(<<t>>) THEN <<t>>[n] ELSE registered[n - Len(<<t>>)]
    BY <1>2, <2>1, ConcatProperties
  <2> QED
    BY <1>1, <1>2, <2>2
<1>4. /\ Len(registered) \in Nat /\ DOMAIN registered = 1 .. Len(registered)
      /\ DOMAIN registered' = 1 .. 1 + Len(registered)
      /\ \A n \in 1 .. Len(registered) : registered[n] # t
  BY <1>1, <1>3, LenProperties DEF Types, Elements
<1>5. ASSUME NEW m \in DOMAIN registered', NEW n \in DOMAIN registered',
             registered'[m] = registered'[n]
      PROVE  m = n
  <2>1. CASE m = 1 \/ n = 1
    BY <1>3, <1>4, <1>5, <2>1
  <2>2. CASE m # 1 /\ n # 1
    <3>1. m - 1 \in DOMAIN registered /\ n - 1 \in DOMAIN registered
      BY <1>4, <2>2
    <3>2. registered[m - 1] = registered[n - 1]
      BY <1>3, <1>4, <1>5, <2>2
    <3> QED
      BY <1>1, <1>4, <3>1, <3>2 DEF Types
  <2> QED
    BY <2>1, <2>2
<1>6. Types'
  BY <1>1, <1>3, <1>5 DEF Types
<1>7. Frames'
  BY <1>1 DEF RunnerInv, Frames
<1>8. NameOk(stack', name', result')
  <2>1. Len(stack) = 0 => result # "abort"
    BY <1>1 DEF UserCode, InMain, InTest, Depth
  <2> QED
    BY <1>1, <2>1 DEF RunnerInv, NameOk
<1> QED
  BY <1>6, <1>7, <1>8 DEF RunnerInv

-----------------------------------------------------------------------------
(* Calls of u7_testing_run.                                                *)

(* The array that u7_testing_run_registered passes holds every registered  *)
(* test: it has their number, and qsort leaves no name twice.              *)
LEMMA AllSorted ==
  ASSUME Types, NEW a \in [DOMAIN registered -> Elements(registered)], InOrder(a)
  PROVE  a \in Seq(Test \cup OwnTest) /\ Elements(a) = Elements(registered)
<1> DEFINE L == 1 .. Len(registered)
           E == Elements(registered)
<1>1. /\ Len(registered) \in Nat /\ DOMAIN registered = L /\ E \subseteq Test
      /\ E = {registered[n] : n \in L}
  BY ElementsOfSeq DEF Types
<1>2. registered \in Bijection(L, E)
  <2>1. registered \in [L -> E]
    BY <1>1, ElementOfSeq DEF Types
  <2> QED
    BY <1>1, <2>1 DEF Types, Bijection, Injection, Surjection, IsInjective
<1>3. IsFiniteSet(L)
  BY <1>1, FS_Interval
<1>4. IsFiniteSet(E) /\ Cardinality(L) = Cardinality(E)
  BY <1>2, <1>3, FS_Bijection DEF ExistsBijection
<1>5. ASSUME NEW m \in L, NEW n \in L, a[m] = a[n] PROVE m = n
  <2>1. Name[a[m]] \in Int /\ DOMAIN a = L
    BY <1>1, TestAssumption
  <2>2. ~(m < n) /\ ~(n < m)
    BY <1>5, <2>1 DEF InOrder
  <2> QED
    BY <2>2
<1>6. a \in Injection(L, E)
  BY <1>1, <1>5 DEF Injection, IsInjective
<1>7. a \in Surjection(L, E)
  BY <1>4, <1>6, FS_Injection
<1>8. Elements(a) = E
  BY <1>1, <1>7 DEF Surjection, Elements
<1>9. a \in Seq(Test \cup OwnTest)
  <2>1. a \in [1 .. Len(registered) -> Test \cup OwnTest]
    BY <1>1
  <2> QED
    BY <1>1, <2>1, SeqDef
<1> QED
  BY <1>8, <1>9

LEMMA Called ==
  ASSUME Types, NEW args \in Seq(Argument), NEW cases \in Seq(Test \cup OwnTest),
         Call(args, cases)
  PROVE  stack'[Len(stack')].tests = cases
<1> DEFINE f == [argv |-> args, tests |-> cases, pc |-> "arguments", i |-> 1,
                 list |-> FALSE, filter |-> NoFilter, selected |-> 0, passed |-> <<>>]
<1>1. stack' = Append(stack, f) /\ stack \in Seq(Frame)
  BY DEF Call, Types
<1>2. f \in Frame /\ f.tests = cases
  BY CallFrame
<1> HIDE DEF f
<1>3. Len(stack') = Len(stack) + 1 /\ stack'[Len(stack) + 1] = f
  BY <1>1, <1>2, AppendProperties
<1> QED
  BY <1>2, <1>3

LEMMA CallStep ==
  ASSUME RunnerInv, NEW args \in Seq(Argument), NEW cases \in Seq(Test \cup OwnTest),
         ListOk(cases), UserCode, Call(args, cases)
  PROVE  RunnerInv'
<1> DEFINE f == [argv |-> args, tests |-> cases, pc |-> "arguments", i |-> 1,
                 list |-> FALSE, filter |-> NoFilter, selected |-> 0, passed |-> <<>>]
<1>1. f \in Frame /\ Parsing(f) /\ f.tests = cases
  BY CallFrame
<1>2. /\ stack' = Append(stack, f) /\ result' = "none" /\ UNCHANGED <<registered, name>>
      /\ Types /\ Frames
  BY DEF Call, RunnerInv
<1>3. FrameOk(f) /\ f.pc = "arguments"
  BY <1>1 DEF FrameOk, Parsing
<1> HIDE DEF f
<1>4. /\ stack' \in Seq(Frame) /\ Len(stack') = Len(stack) + 1 /\ Len(stack) \in Nat
      /\ \A k \in 1 .. Len(stack) : stack'[k] = stack[k]
      /\ stack'[Len(stack) + 1] = f
  BY <1>1, <1>2, AppendProperties, StackTop DEF Types
<1>5. Types'
  BY <1>2, <1>4 DEF Types
<1>6. ASSUME NEW k \in 1 .. Len(stack')
      PROVE  FrameOk(stack'[k]) /\ (k < Len(stack') => stack'[k].pc = "inside")
  <2>1. CASE k = Len(stack) + 1
    BY <1>2, <1>3, <1>4, <2>1
  <2>2. CASE k \in 1 .. Len(stack)
    <3>1. FrameOk(stack[k]) /\ (k < Len(stack) => stack[k].pc = "inside")
      BY <1>2, <2>2 DEF Frames
    <3>2. k = Len(stack) => stack[k].pc = "inside"
      BY <2>2, StackTop, <1>2 DEF UserCode, InMain, InTest, Depth
    <3> QED
      BY <1>2, <1>4, <2>2, <3>1, <3>2
  <2> QED
    BY <1>4, <2>1, <2>2
<1>7. name \in {CallerTest(stack'), NoTest}
  <2>1. CASE InMain
    BY <2>1 DEF RunnerInv, NameOk, InMain, Depth
  <2>2. CASE InTest
    <3>1. name \in {TestAt(stack[Len(stack)]), NoTest} /\ Len(stack) \in 1 .. Len(stack)
      BY <1>4, <2>2 DEF RunnerInv, NameOk, InTest, Top, Depth
    <3>2. CallerTest(stack') = TestAt(stack[Len(stack)])
      BY <1>4, <3>1 DEF CallerTest
    <3> QED
      BY <3>1, <3>2
  <2> QED
    BY <2>1, <2>2 DEF UserCode
<1>8. NameOk(stack', name', result')
  BY <1>2, <1>3, <1>4, <1>7 DEF NameOk
<1> QED
  BY <1>5, <1>6, <1>8 DEF RunnerInv, Frames

LEMMA CommandLinesAreSeqs == CommandLines \subseteq Seq(Argument)
BY SeqOfIsSeq, BoundAssumption DEF CommandLines

LEMMA RunRegisteredStep ==
  ASSUME RunnerInv, RunRegistered
  PROVE  RunnerInv' /\ Elements(stack'[Len(stack')].tests) = Elements(registered)
<1>1. PICK a \in [DOMAIN registered -> Elements(registered)], args \in CommandLines :
        InOrder(a) /\ Call(args, a)
  BY DEF RunRegistered
<1>2. args \in Seq(Argument)
  BY <1>1, CommandLinesAreSeqs
<1>3. a \in Seq(Test \cup OwnTest) /\ Elements(a) = Elements(registered)
  BY <1>1, AllSorted DEF RunnerInv
<1>4. UserCode /\ ListOk(a)
  BY <1>1, <1>3, ElementsOfSeq DEF ListOk, RunRegistered, RunnerInv, Types
<1>5. stack'[Len(stack')].tests = a
  BY <1>1, <1>2, <1>3, Called DEF RunnerInv
<1>6. RunnerInv'
  BY <1>1, <1>2, <1>3, <1>4, CallStep
<1> QED
  BY <1>3, <1>5, <1>6

LEMMA RunOwnStep ==
  ASSUME RunnerInv, RunOwn
  PROVE  RunnerInv' /\ Elements(stack'[Len(stack')].tests) \subseteq OwnTest
<1>1. PICK cases \in SeqOf(OwnTest, MaxOwnList), args \in CommandLines :
        Call(args, cases)
  BY DEF RunOwn
<1>2. args \in Seq(Argument) /\ cases \in Seq(OwnTest)
  BY <1>1, SeqOfIsSeq, CommandLinesAreSeqs, BoundAssumption
<1>3. cases \in Seq(Test \cup OwnTest) /\ Elements(cases) \subseteq OwnTest
  <2>1. \A n \in 1 .. Len(cases) : cases[n] \in OwnTest
    BY <1>2, ElementOfSeq
  <2>2. cases \in [1 .. Len(cases) -> Test \cup OwnTest] /\ Len(cases) \in Nat
    BY <1>2, <2>1, LenProperties
  <2>3. cases \in Seq(Test \cup OwnTest)
    BY <2>2, SeqDef
  <2> QED
    BY <1>2, <2>3, ElementsOfSeq
<1>4. UserCode /\ ListOk(cases)
  BY <1>3 DEF RunOwn, ListOk
<1>5. stack'[Len(stack')].tests = cases
  BY <1>1, <1>2, <1>3, Called DEF RunnerInv
<1>6. RunnerInv'
  BY <1>1, <1>2, <1>3, <1>4, CallStep
<1> QED
  BY <1>3, <1>5, <1>6

-----------------------------------------------------------------------------
(* Steps of the innermost call.                                            *)

LEMMA FrameStep ==
  ASSUME RunnerInv, Depth > 0, NEW f \in Frame, Set(f), FrameOk(f),
         UNCHANGED registered, result' = "none",
         name' \in Test \cup OwnTest \cup {NoTest},
         f.pc = "arguments" => name' \in {CallerTest(stack), NoTest},
         f.pc = "inside" => name' \in {TestAt(f), NoTest}
  PROVE  RunnerInv'
<1>1. Types /\ Frames /\ Depth = Len(stack) /\ Depth \in 1 .. Len(stack) /\ Depth \in Nat
  BY StackTop DEF RunnerInv
<1>2. /\ stack' \in Seq(Frame) /\ Len(stack') = Len(stack)
      /\ \A k \in 1 .. Len(stack) : stack'[k] = IF k = Depth THEN f ELSE stack[k]
  BY <1>1, ExceptSeq DEF Types, Set
<1>3. Types'
  BY <1>1, <1>2 DEF Types
<1>4. ASSUME NEW k \in 1 .. Len(stack')
      PROVE  FrameOk(stack'[k]) /\ (k < Len(stack') => stack'[k].pc = "inside")
  BY <1>1, <1>2 DEF Frames
<1>5. CallerTest(stack') = CallerTest(stack)
  <2>1. CASE Len(stack) > 1
    BY <1>1, <1>2, <2>1 DEF CallerTest
  <2>2. CASE ~(Len(stack) > 1)
    BY <1>2, <2>2 DEF CallerTest
  <2> QED
    BY <2>1, <2>2
<1>6. stack'[Len(stack')] = f /\ Len(stack') # 0
  BY <1>1, <1>2
<1>7. NameOk(stack', name', result')
  BY <1>5, <1>6 DEF NameOk
<1> QED
  BY <1>3, <1>4, <1>7 DEF RunnerInv, Frames

(* The name is known when the call is at its options.                      *)
LEMMA NameAtArguments ==
  ASSUME RunnerInv, Depth > 0, Top.pc = "arguments"
  PROVE  name \in {CallerTest(stack), NoTest} /\ name \in Test \cup OwnTest \cup {NoTest}
BY DEF RunnerInv, NameOk, Types, Depth, Top

LEMMA TakeListStep == ASSUME RunnerInv, TakeList PROVE RunnerInv'
<1> DEFINE f == [Top EXCEPT !.list = TRUE, !.i = @ + 1]
<1>1. /\ Depth > 0 /\ Top.pc = "arguments" /\ Top.i =< Len(Top.argv)
      /\ Top.argv[Top.i].kind = "--list"
      /\ Set(f) /\ result' = "none" /\ UNCHANGED <<registered, name>>
  BY DEF TakeList, AtArgument, Arg, Step
<1>2. Top \in Frame /\ Parsing(Top) /\ FrameOk(Top)
  BY <1>1, TopOk
<1>3. f \in Frame /\ Parsing(f) /\ f.tests = Top.tests
  BY <1>1, <1>2, ListFrame
<1> HIDE DEF f
<1>4. FrameOk(f) /\ f.pc = "arguments"
  BY <1>2, <1>3 DEF FrameOk, Parsing
<1> QED
  BY <1>1, <1>3, <1>4, NameAtArguments, FrameStep

LEMMA TakeFilterStep == ASSUME RunnerInv, TakeFilter PROVE RunnerInv'
<1>1. /\ Depth > 0 /\ Top.pc = "arguments" /\ Top.i =< Len(Top.argv)
      /\ result' = "none" /\ UNCHANGED <<registered, name>>
  BY DEF TakeFilter, AtArgument, Step
<1>2. Top \in Frame /\ Parsing(Top) /\ FrameOk(Top)
  BY <1>1, TopOk
<1>3. \E f \in Frame : Set(f) /\ Parsing(f) /\ f.tests = Top.tests
  <2>1. CASE /\ Top.argv[Top.i].kind = "--filter" /\ Top.i + 1 =< Len(Top.argv)
             /\ Set([Top EXCEPT !.filter = Top.argv[Top.i + 1], !.i = @ + 2])
    BY <1>2, <2>1, FilterFrame
  <2>2. CASE /\ Top.argv[Top.i].kind = "--filter="
             /\ Set([Top EXCEPT
                       !.filter = [kind |-> "word", word |-> Top.argv[Top.i].word],
                       !.i = @ + 1])
    BY <1>1, <1>2, <2>2, FilterEqFrame
  <2> QED
    BY <2>1, <2>2 DEF TakeFilter, Arg, Step
<1>4. PICK f \in Frame : Set(f) /\ Parsing(f) /\ f.tests = Top.tests
  BY <1>3
<1>5. FrameOk(f) /\ f.pc = "arguments"
  BY <1>2, <1>4 DEF FrameOk, Parsing
<1> QED
  BY <1>1, <1>4, <1>5, NameAtArguments, FrameStep

LEMMA ArgumentsEndStep == ASSUME RunnerInv, ArgumentsEnd PROVE RunnerInv'
<1> DEFINE f == [Top EXCEPT !.pc = "tests", !.i = 1]
<1>1. /\ Depth > 0 /\ Top.pc = "arguments" /\ Top.i > Len(Top.argv)
      /\ Set(f) /\ result' = "none" /\ UNCHANGED <<registered, name>>
  BY DEF ArgumentsEnd, Step
<1>2. Top \in Frame /\ Parsing(Top) /\ FrameOk(Top)
  BY <1>1, TopOk
<1>3. f \in Frame /\ Testing(f) /\ f.tests = Top.tests
  BY <1>1, <1>2, EndFrame
<1>4. f.pc = "tests"
  BY <1>2 DEF Frame
<1> HIDE DEF f
<1>5. FrameOk(f)
  BY <1>2, <1>3 DEF FrameOk
<1> QED
  BY <1>1, <1>3, <1>4, <1>5, NameAtArguments, FrameStep

LEMMA SkipStep == ASSUME RunnerInv, Skip PROVE RunnerInv'
<1> DEFINE f == [Top EXCEPT !.selected =
                              @ + IF Selects(Top.filter, Top.tests[Top.i]) THEN 1 ELSE 0,
                            !.i = @ + 1]
<1>1. /\ Depth > 0 /\ Top.pc = "tests" /\ Top.i =< Len(Top.tests)
      /\ Top.list \/ ~Selects(Top.filter, Top.tests[Top.i])
      /\ Set(f) /\ result' = "none" /\ UNCHANGED <<registered, name>>
  BY DEF Skip, AtTest, MoreTests, Chosen, Running, Step
<1>2. Top \in Frame /\ Testing(Top) /\ FrameOk(Top)
  BY <1>1, TopOk
<1>3. f \in Frame /\ Testing(f) /\ f.tests = Top.tests
  BY <1>1, <1>2, SkipFrame
<1>4. f.pc = "tests"
  BY <1>1, <1>2 DEF Frame
<1> HIDE DEF f
<1>5. FrameOk(f) /\ name' \in Test \cup OwnTest \cup {NoTest}
  BY <1>1, <1>2, <1>3 DEF FrameOk, RunnerInv, Types
<1> QED
  BY <1>1, <1>3, <1>4, <1>5, FrameStep

LEMMA CallTestStep == ASSUME RunnerInv, CallTest PROVE RunnerInv'
<1> DEFINE f == [Top EXCEPT !.selected = @ + 1, !.pc = "inside"]
<1>1. /\ Depth > 0 /\ Top.pc = "tests" /\ Top.i =< Len(Top.tests)
      /\ ~Top.list /\ Selects(Top.filter, Top.tests[Top.i])
      /\ Set(f) /\ result' = "none" /\ UNCHANGED registered
      /\ name' = TestAt(Top)
  BY DEF CallTest, AtTest, MoreTests, Chosen, Running, TestAt
<1>2. Top \in Frame /\ Testing(Top) /\ FrameOk(Top)
  BY <1>1, TopOk
<1>3. /\ f \in Frame /\ Testing(f) /\ f.tests = Top.tests
      /\ f.pc = "inside" /\ f.i = Top.i
  BY <1>1, <1>2, TestFrame
<1> HIDE DEF f
<1>4. FrameOk(f) /\ TestAt(f) = TestAt(Top)
  BY <1>2, <1>3 DEF FrameOk, TestAt
<1>5. TestAt(Top) \in Test \cup OwnTest
  BY <1>1, <1>2, FrameType DEF TestAt, Testing
<1> QED
  BY <1>1, <1>3, <1>4, <1>5, FrameStep

LEMMA PassStep == ASSUME RunnerInv, Pass PROVE RunnerInv'
<1> DEFINE f == [Top EXCEPT !.passed = Append(@, Top.tests[Top.i]), !.pc = "tests",
                            !.i = Top.i + 1]
<1>1. /\ Depth > 0 /\ Top.pc = "inside"
      /\ Set(f) /\ result' = "none" /\ UNCHANGED <<registered, name>>
  BY DEF Pass, InTest, Running, Following, Step
<1>2. Top \in Frame /\ Testing(Top) /\ FrameOk(Top)
  BY <1>1, TopOk
<1>3. f \in Frame /\ Testing(f) /\ f.tests = Top.tests
  BY <1>1, <1>2, PassFrame
<1>4. f.pc = "tests"
  BY <1>2 DEF Frame
<1> HIDE DEF f
<1>5. FrameOk(f) /\ name' \in Test \cup OwnTest \cup {NoTest}
  BY <1>1, <1>2, <1>3 DEF FrameOk, RunnerInv, Types
<1> QED
  BY <1>1, <1>3, <1>4, <1>5, FrameStep

-----------------------------------------------------------------------------
(* The end of a call, and of the process.                                  *)

LEMMA ReturnStep ==
  ASSUME RunnerInv, Depth > 0, NEW status \in {"0", "2"}, Return(status),
         name' = NoTest \/ (name' = name /\ Top.pc = "arguments")
  PROVE  RunnerInv'
<1>1. /\ Types /\ Frames /\ Depth = Len(stack) /\ Depth \in Nat
      /\ \A k \in 1 .. Depth - 1 : stack[k] \in Frame
  BY StackTop DEF RunnerInv
<1>2. /\ stack' = SubSeq(stack, 1, Depth - 1) /\ result' = status
      /\ UNCHANGED registered
  BY DEF Return
<1>3. /\ stack' \in Seq(Frame)
      /\ Len(stack') = IF 1 =< Depth - 1 THEN (Depth - 1) - 1 + 1 ELSE 0
      /\ \A k \in 1 .. (Depth - 1) - 1 + 1 : stack'[k] = stack[1 + k - 1]
  BY <1>1, <1>2, SubSeqProperties
<1>4. Len(stack') = Len(stack) - 1 /\ \A k \in 1 .. Len(stack) - 1 : stack'[k] = stack[k]
  BY <1>1, <1>3
<1>5. Types'
  BY <1>1, <1>2, <1>3 DEF Types
<1>6. ASSUME NEW k \in 1 .. Len(stack')
      PROVE  FrameOk(stack'[k]) /\ stack'[k].pc = "inside"
  BY <1>1, <1>2, <1>4 DEF Frames
<1>7. NameOk(stack', name', result')
  <2>1. CASE name' = NoTest
    BY <2>1 DEF NameOk
  <2>2. CASE name' = name /\ Top.pc = "arguments"
    <3>1. name' \in {CallerTest(stack), NoTest}
      BY <2>2, NameAtArguments
    <3>2. CASE Len(stack) > 1
      <4>1. Len(stack') \in 1 .. Len(stack') /\ stack'[Len(stack')] = stack[Len(stack) - 1]
        BY <1>1, <1>4, <3>2
      <4>2. name' \in {TestAt(stack'[Len(stack')]), NoTest}
        BY <3>1, <3>2, <4>1 DEF CallerTest
      <4>3. stack'[Len(stack')].pc = "inside" /\ Len(stack') # 0
        BY <1>6, <4>1
      <4> QED
        BY <4>2, <4>3 DEF NameOk
    <3>3. CASE ~(Len(stack) > 1)
      <4>1. name' = NoTest
        BY <3>1, <3>3 DEF CallerTest
      <4> QED
        BY <4>1 DEF NameOk
    <3> QED
      BY <3>2, <3>3
  <2> QED
    BY <2>1, <2>2
<1> QED
  BY <1>5, <1>6, <1>7 DEF RunnerInv, Frames

LEMMA FailStep == ASSUME RunnerInv, Fail PROVE RunnerInv'
<1>1. /\ stack' = <<>> /\ result' = "abort" /\ UNCHANGED <<registered, name>> /\ Types
  BY DEF Fail, Abort, RunnerInv
<1>2. <<>> \in Seq(Frame) /\ Len(<<>>) = 0
  OBVIOUS
<1>3. Types'
  BY <1>1, <1>2 DEF Types
<1>4. Frames' /\ NameOk(stack', name', result')
  BY <1>1, <1>2 DEF Frames, NameOk
<1> QED
  BY <1>3, <1>4 DEF RunnerInv

LEMMA NextRunnerInv == RunnerInv /\ [Next]_vars => RunnerInv'
<1> SUFFICES ASSUME RunnerInv, [Next]_vars PROVE RunnerInv'
  OBVIOUS
<1>1. CASE UNCHANGED vars \/ Exited
  <2>1. UNCHANGED <<registered, stack, name, result>>
    BY <1>1 DEF vars, Exited
  <2> QED
    BY <2>1 DEF RunnerInv, Types, Frames
<1>2. CASE Refuse
  <2>1. UNCHANGED <<registered, stack, name>> /\ result' = "2" /\ UserCode
    BY <1>2 DEF Refuse
  <2>2. NameOk(stack, name, "2")
    BY <2>1 DEF RunnerInv, NameOk, UserCode, InMain, InTest, Depth
  <2> QED
    BY <2>1, <2>2 DEF RunnerInv, Types, Frames
<1>3. CASE BadArgument
  BY <1>3, ReturnStep DEF BadArgument, AtArgument
<1>4. CASE Finish
  BY <1>4, ReturnStep DEF Finish, NameAfterRun
<1> QED
  BY <1>1, <1>2, <1>3, <1>4, RegisterStep, RunRegisteredStep, RunOwnStep,
     TakeListStep, TakeFilterStep, ArgumentsEndStep, SkipStep, CallTestStep,
     PassStep, FailStep DEF Next

LEMMA RunnerInvariant == Spec => []RunnerInv
BY InitRunnerInv, NextRunnerInv, PTL DEF Spec

-----------------------------------------------------------------------------
(* The theorems.                                                           *)

(* Both loops of u7_testing_run stay inside their arrays; nothing but the  *)
(* tests of its list is counted.                                           *)
THEOREM TypeCorrect == Spec => []TypeOK
<1>1. ASSUME RunnerInv PROVE TypeOK
  <2>1. Elements(registered) \subseteq Test
    BY <1>1, ElementsOfSeq DEF RunnerInv, Types
  <2>2. ASSUME NEW f \in Elements(stack)
        PROVE  /\ Elements(f.tests) \subseteq Test \/ Elements(f.tests) \subseteq OwnTest
               /\ f.list \in BOOLEAN /\ f.filter \in Argument \cup {NoFilter}
               /\ f.pc = "arguments" => f.i \in 1 .. Len(f.argv) + 1
               /\ f.pc = "tests" => f.i \in 1 .. Len(f.tests) + 1
               /\ f.pc = "inside" => f.i \in DOMAIN f.tests
               /\ f.selected \in 0 .. Len(f.tests)
    <3>1. f \in Frame /\ FrameOk(f)
      <4>1. PICK k \in 1 .. Len(stack) : f = stack[k]
        BY <1>1, ElementsOfSeq DEF RunnerInv, Types
      <4> QED
        BY <1>1, <4>1, ElementOfSeq DEF RunnerInv, Types, Frames
    <3>2. f.filter \in Argument \cup {NoFilter}
      BY <3>1 DEF Frame
    <3>3. Elements(f.tests) \subseteq Test \/ Elements(f.tests) \subseteq OwnTest
      BY <2>1, <3>1 DEF FrameOk, ListOk
    <3>4. CASE Parsing(f)
      BY <3>1, <3>2, <3>3, <3>4, FrameType DEF Parsing
    <3>5. CASE Testing(f)
      BY <3>1, <3>2, <3>3, <3>5, FrameType DEF Testing
    <3> QED
      BY <3>1, <3>4, <3>5 DEF FrameOk
  <2> QED
    BY <1>1, <2>1, <2>2 DEF RunnerInv, Types, TypeOK
<1> QED
  BY <1>1, RunnerInvariant, PTL

(* u7_testing_run_registered runs the tests that are registered when it is *)
(* called, in the order of their names, whatever the order of the          *)
(* constructors.                                                           *)
THEOREM InNameOrder == Spec => RunInNameOrder
<1> DEFINE Begins ==
             Len(stack') > Len(stack) =>
               LET cases == stack'[Len(stack')].tests
               IN  Elements(cases) \cap Test # {} =>
                     Elements(cases) = Elements(registered)
           Ordered ==
             \A f \in Elements(stack) :
               Elements(f.tests) \cap Test # {} =>
                 \A m, n \in DOMAIN f.passed :
                   m < n => Name[f.passed[m]] < Name[f.passed[n]]
<1>1. RunnerInv => Ordered
  <2> SUFFICES ASSUME RunnerInv, NEW f \in Elements(stack),
                      Elements(f.tests) \cap Test # {}
               PROVE  \A m, n \in DOMAIN f.passed :
                        m < n => Name[f.passed[m]] < Name[f.passed[n]]
    OBVIOUS
  <2>1. f \in Frame /\ FrameOk(f)
    <3>1. PICK k \in 1 .. Len(stack) : f = stack[k]
      BY ElementsOfSeq DEF RunnerInv, Types
    <3> QED
      BY <3>1, ElementOfSeq DEF RunnerInv, Types, Frames
  <2>2. InOrder(f.tests)
    BY <2>1, TestAssumption DEF FrameOk, ListOk
  <2>3. CASE f.passed = <<>>
    BY <2>3
  <2>4. CASE AreAt(f.passed, f.tests, ChosenBefore(f.tests, f.filter, f.i))
    <3>1. ChosenBefore(f.tests, f.filter, f.i) \in SUBSET DOMAIN f.tests
      BY DEF ChosenBefore
    <3>2. InOrder(f.passed)
      BY <2>2, <2>4, <3>1, OrderKept
    <3> QED
      BY <3>2 DEF InOrder
  <2> QED
    BY <2>1, <2>3, <2>4 DEF FrameOk, Parsing, Testing
<1>2. RunnerInv /\ [Next]_vars => Begins
  <2> SUFFICES ASSUME RunnerInv, [Next]_vars, Len(stack') > Len(stack) PROVE Begins
    OBVIOUS
  <2>1. Len(stack) \in Nat /\ stack \in Seq(Frame)
    BY StackTop DEF RunnerInv, Types
  <2>2. ASSUME NEW f PROVE ~Set(f)
    BY <2>1 DEF Set
  <2>3. ASSUME NEW status, Return(status) PROVE FALSE
    <3>1. CASE Depth > 0
      <4>1. Depth = Len(stack) /\ Depth - 1 \in Nat
        BY <2>1, <3>1 DEF Depth
      <4>2. Len(SubSeq(stack, 1, Depth - 1)) = Depth - 1
        BY <2>1, <4>1, SubSeqProperties
      <4> QED
        BY <2>3, <4>1, <4>2 DEF Return
    <3>2. CASE ~(Depth > 0)
      BY <2>1, <2>3, <3>2, SubSeqProperties DEF Return, Depth
    <3> QED
      BY <3>1, <3>2
  <2>4. CASE RunRegistered
    BY <2>4, RunRegisteredStep
  <2>5. CASE RunOwn
    <3>1. Elements(stack'[Len(stack')].tests) \cap Test = {}
      BY <2>5, RunOwnStep, TestAssumption
    <3> QED
      BY <3>1
  <2>6. stack' # stack /\ stack' # <<>>
    BY <2>1
  <2> QED
    BY <2>2, <2>3, <2>4, <2>5, <2>6 DEF Next, vars, Construct, Register, Refuse,
       TakeList, TakeFilter, BadArgument, ArgumentsEnd, Skip, CallTest, Pass, Step,
       Fail, Abort, Finish, Exited
<1> QED
  BY <1>1, <1>2, RunnerInvariant, PTL DEF Spec, RunInNameOrder

(* u7_testing_fail never reports the name of another test than the one it  *)
(* is called in, and no name is left when the runner has returned.         *)
THEOREM FailuresAreAttributed == Spec => []NeverMisattributed
<1>1. ASSUME RunnerInv PROVE NeverMisattributed
  BY <1>1 DEF RunnerInv, NameOk, NeverMisattributed, InTest, Running, TestAt, Top, Depth
<1> QED
  BY <1>1, RunnerInvariant, PTL

(* u7_testing_run returns 0 only when every test that its command line     *)
(* asks for has run and passed.                                            *)
THEOREM ZeroIsHonest == Spec => ZeroMeansAllPassed
<1> DEFINE Shrinks == Len(stack') < Len(stack) /\ result' = "0"
           wanted == {n \in DOMAIN Top.tests : Wanted(Top.argv, Top.tests[n])}
           Honest == /\ Valid(Top.argv)
                     /\ Filters(Top.argv) # {} => wanted # {}
                     /\ IF \E n \in DOMAIN Top.argv : IsOption(Top.argv, n, "--list")
                        THEN Top.passed = <<>>
                        ELSE AreAt(Top.passed, Top.tests, wanted)
<1>1. ASSUME RunnerInv, [Next]_vars, Shrinks PROVE Finish
  <2>1. Len(stack) \in Nat /\ stack \in Seq(Frame)
    BY <1>1, StackTop DEF RunnerInv, Types
  <2>2. ASSUME NEW f PROVE ~Set(f)
    BY <1>1, <2>1 DEF Set, Shrinks
  <2>3. ASSUME NEW args, NEW cases, Call(args, cases) PROVE FALSE
    BY <1>1, <2>1, <2>3 DEF Call, Shrinks
  <2>4. stack' # stack
    BY <1>1, <2>1 DEF Shrinks
  <2>5. result' # "2" /\ result' # "abort"
    BY <1>1 DEF Shrinks
  <2> QED
    BY <1>1, <2>2, <2>3, <2>4, <2>5 DEF Next, vars, Construct, Register, Refuse, RunRegistered,
       RunOwn, TakeList, TakeFilter, BadArgument, Return, ArgumentsEnd, Skip,
       CallTest, Pass, Step, Fail, Abort, Exited
<1>2. ASSUME RunnerInv, Finish, Shrinks PROVE Honest
  <2>1. /\ Depth > 0 /\ Top.pc = "tests" /\ ~(Top.i =< Len(Top.tests))
        /\ Top.selected = 0 => Top.filter = NoFilter
    BY <1>2 DEF Finish, MoreTests, Return, Shrinks
  <2>2. Top \in Frame /\ Testing(Top)
    BY <1>2, <2>1, TopOk
  <2>3. ParsedTo(Top.argv, Len(Top.argv) + 1, Top.list, Top.filter)
    BY <2>2 DEF Testing
  <2>4. Top.argv \in Seq(Argument) /\ Top.list \in BOOLEAN
    BY <2>2, FrameType
  <2>5. /\ Valid(Top.argv)
        /\ Top.list <=> \E n \in DOMAIN Top.argv : IsOption(Top.argv, n, "--list")
        /\ Top.filter = NoFilter <=> Filters(Top.argv) = {}
        /\ \A t : Selects(Top.filter, t) <=> Wanted(Top.argv, t)
    BY <2>3, <2>4, Parsed
  <2>6. ChosenBefore(Top.tests, Top.filter, Top.i) = wanted
    BY <2>1, <2>2, <2>5, FrameType DEF ChosenBefore
  <2>7. Filters(Top.argv) # {} => wanted # {}
    <3>1. Filters(Top.argv) # {} => Top.selected > 0
      BY <2>1, <2>2, <2>5, FrameType
    <3>2. Top.selected > 0 => \E n \in DOMAIN Top.tests : Wanted(Top.argv, Top.tests[n])
      BY <2>2, <2>5 DEF Testing
    <3> QED
      BY <3>1, <3>2
  <2>8. Top.list => Top.passed = <<>>
    BY <2>2 DEF Testing
  <2>9. ~Top.list => AreAt(Top.passed, Top.tests, wanted)
    BY <2>2, <2>6 DEF Testing
  <2> QED
    BY <2>5, <2>7, <2>8, <2>9
<1>3. RunnerInv /\ [Next]_vars => (Shrinks => Honest)
  BY <1>1, <1>2
<1> QED
  BY <1>3, RunnerInvariant, PTL DEF Spec, ZeroMeansAllPassed
=============================================================================
