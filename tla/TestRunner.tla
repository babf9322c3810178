----------------------------- MODULE TestRunner -----------------------------
(***************************************************************************)
(* The test runner of testing.c.  Constructors register test cases, before *)
(* main and whenever a shared object is loaded.  The code of the program   *)
(* calls u7_testing_run_registered, which sorts them and passes them to    *)
(* u7_testing_run, or u7_testing_run with a list of its own: main does,    *)
(* any number of times, and so may a test (those of the runner do), so     *)
(* that calls nest; stack holds those in progress.                         *)
(*                                                                         *)
(* Names are numbers that compare as strcmp does.  Which of them contain a *)
(* word of the command line is a constant; none contains an option.        *)
(***************************************************************************)
EXTENDS Integers, Sequences, FiniteSets

CONSTANTS
  Test,       (* the registered test cases of the binary                  *)
  OwnTest,    (* those of lists that main or a test passes itself         *)
  Name,       (* the name of each                                         *)
  Pattern,    (* words of the command line that are no option             *)
  Contains,   (* Contains[w]: the tests whose name has the substring w    *)
  NoTest,     (* the NULL pointer as a name                               *)
  MaxArgs,    (* bound: arguments of a call by main                       *)
  MaxOwnArgs, (* bound: arguments of a call by a test                     *)
  MaxOwnList, (* bound: length of a list that main or a test passes       *)
  MaxDepth    (* bound: nested calls of u7_testing_run                    *)

ASSUME TestAssumption ==
  /\ Test \cap OwnTest = {} /\ NoTest \notin Test \cup OwnTest
  /\ Name \in [Test \cup OwnTest -> Int]
  /\ Contains \in [Pattern -> SUBSET (Test \cup OwnTest)]

ASSUME BoundAssumption == {MaxArgs, MaxOwnArgs, MaxOwnList, MaxDepth} \subseteq Nat

(* --list, --filter, --filter=<word>, and words that are no option.        *)
Argument ==
  [kind : {"--list", "--filter"}] \cup [kind : {"--filter=", "word"}, word : Pattern]

NoFilter == [kind |-> "none"]

SeqOf(S, n) == UNION {[1 .. m -> S] : m \in 0 .. n}

VARIABLES
  registered,  (* the list at u7_testing_registered_tests                 *)
  stack,       (* the calls of u7_testing_run in progress                 *)
  name,        (* the test whose name u7_testing_current_name is          *)
  result       (* what the call that has just ended returned, "abort" if  *)
               (* the process has ended, or "none"                        *)

vars == <<registered, stack, name, result>>

Elements(s) == {s[n] : n \in DOMAIN s}

Depth == Len(stack)
Top == stack[Depth]
Set(frame) == stack' = [stack EXCEPT ![Depth] = frame]

InTest == Depth > 0 /\ Top.pc = "inside"
Running == Top.tests[Top.i]
InMain == Depth = 0 /\ result # "abort"

(* The program's own code runs: main, a constructor or a test.             *)
UserCode == InMain \/ InTest

-----------------------------------------------------------------------------
Init ==
  /\ registered = <<>>
  /\ stack = <<>>
  /\ name = NoTest
  /\ result = "none"

(* u7_testing_register.                                                    *)
Register(t) ==
  /\ registered' = <<t>> \o registered
  /\ result' = "none"
  /\ UNCHANGED <<stack, name>>

(* The constructor that U7_TEST makes for a test; it runs once.            *)
Construct(t) == UserCode /\ t \notin Elements(registered) /\ Register(t)

NamesUnique(S) == \A t, u \in S : Name[t] = Name[u] => t = u

(* Mutant of InOrder: the array keeps the order of registration.           *)
InOrderOfRegistration(a) == a = registered

(* What qsort leaves.                                                      *)
InOrder(a) == \A m, n \in DOMAIN a : m < n => Name[a[m]] < Name[a[n]]

CommandLines == SeqOf(Argument, IF InMain THEN MaxArgs ELSE MaxOwnArgs)

(* u7_testing_run is called.                                               *)
Call(args, cases) ==
  /\ Depth < MaxDepth
  /\ stack' = Append(stack,
       [argv |-> args, tests |-> cases, pc |-> "arguments", i |-> 1,
        list |-> FALSE, filter |-> NoFilter, selected |-> 0, passed |-> <<>>])
  /\ result' = "none"
  /\ UNCHANGED <<registered, name>>

(* Refused by u7_testing_run_registered: nothing registered, no memory, or *)
(* a duplicate name.                                                       *)
Refuse ==
  /\ UserCode
  /\ result' = "2"
  /\ UNCHANGED <<registered, stack, name>>

(* u7_testing_run_registered up to the call of u7_testing_run.             *)
RunRegistered ==
  /\ UserCode /\ registered # <<>>
  /\ NamesUnique(Elements(registered))
  /\ \E a \in [DOMAIN registered -> Elements(registered)] :
       InOrder(a) /\ \E args \in CommandLines : Call(args, a)

(* A direct call of u7_testing_run.                                        *)
RunOwn ==
  /\ UserCode
  /\ \E cases \in SeqOf(OwnTest, MaxOwnList) :
       \E args \in CommandLines : Call(args, cases)

Return(status) ==
  /\ stack' = SubSeq(stack, 1, Depth - 1)
  /\ result' = status
  /\ UNCHANGED registered

(* A step of the innermost call that calls nothing and does not end it.    *)
Step(frame) ==
  /\ Set(frame)
  /\ result' = "none"
  /\ UNCHANGED <<registered, name>>

-----------------------------------------------------------------------------
(* The first loop of u7_testing_run: the options, the last filter winning. *)
AtArgument == Depth > 0 /\ Top.pc = "arguments" /\ Top.i =< Len(Top.argv)
Arg == Top.argv[Top.i]

TakeList ==
  /\ AtArgument /\ Arg.kind = "--list"
  /\ Step([Top EXCEPT !.list = TRUE, !.i = @ + 1])

TakeFilter ==
  /\ AtArgument
  /\ \/ /\ Arg.kind = "--filter" /\ Top.i + 1 =< Len(Top.argv)
        /\ Step([Top EXCEPT !.filter = Top.argv[Top.i + 1], !.i = @ + 2])
     \/ /\ Arg.kind = "--filter="
        /\ Step([Top EXCEPT !.filter = [kind |-> "word", word |-> Arg.word],
                            !.i = @ + 1])

BadArgument ==
  /\ AtArgument
  /\ Arg.kind = "word" \/ (Arg.kind = "--filter" /\ Top.i = Len(Top.argv))
  /\ Return("2")
  /\ UNCHANGED name

ArgumentsEnd ==
  /\ Depth > 0 /\ Top.pc = "arguments" /\ Top.i > Len(Top.argv)
  /\ Step([Top EXCEPT !.pc = "tests", !.i = 1])

-----------------------------------------------------------------------------
(* The second loop: the tests.                                             *)

(* An option taken for the word after --filter selects nothing.            *)
Selects(f, t) ==
  f = NoFilter \/ (f.kind = "word" /\ t \in Contains[f.word])

Chosen == Selects(Top.filter, Running)

MoreTests == Top.i =< Len(Top.tests)

AtTest == Depth > 0 /\ Top.pc = "tests" /\ MoreTests

(* A test that is not chosen or only listed.                               *)
Skip ==
  /\ AtTest /\ (Top.list \/ ~Chosen)
  /\ Step([Top EXCEPT !.selected = @ + IF Chosen THEN 1 ELSE 0, !.i = @ + 1])

CallTest ==
  /\ AtTest /\ ~Top.list /\ Chosen
  /\ name' = Running
  /\ Set([Top EXCEPT !.selected = @ + 1, !.pc = "inside"])
  /\ result' = "none"
  /\ UNCHANGED registered

(* Mutant of Following: the loop repeats a test that passed.               *)
FollowingSame == Top.i

Following == Top.i + 1

(* The test returns ...                                                    *)
Pass ==
  /\ InTest
  /\ Step([Top EXCEPT !.passed = Append(@, Running), !.pc = "tests",
                      !.i = Following])

(* Mutant of Abort: the failure is reported and the next test runs.        *)
AbortNot ==
  /\ Set([Top EXCEPT !.pc = "tests", !.i = @ + 1])
  /\ result' = "none"

Abort == stack' = <<>> /\ result' = "abort"

(* ... or an assertion fails: the process reports name and ends.           *)
Fail ==
  /\ InTest
  /\ Abort
  /\ UNCHANGED <<registered, name>>

(* Mutant of NameAfterRun: it stays that of the last test.                 *)
NameAfterRunKept == name

NameAfterRun == NoTest

Finish ==
  /\ Depth > 0 /\ Top.pc = "tests" /\ ~MoreTests
  /\ Return(IF Top.selected = 0 /\ Top.filter # NoFilter THEN "2" ELSE "0")
  /\ name' = NameAfterRun

(* The process has ended.                                                  *)
Exited == result = "abort" /\ UNCHANGED vars

Next ==
  \/ \E t \in Test : Construct(t)
  \/ Refuse \/ RunRegistered \/ RunOwn
  \/ TakeList \/ TakeFilter \/ BadArgument \/ ArgumentsEnd
  \/ Skip \/ CallTest \/ Pass \/ Fail \/ Finish
  \/ Exited

Spec == Init /\ [][Next]_vars

-----------------------------------------------------------------------------
(* Properties.                                                             *)

(* Every variable has its type; both loops of u7_testing_run stay inside   *)
(* their arrays.                                                           *)
TypeOK ==
  /\ Elements(registered) \subseteq Test
  /\ name \in Test \cup OwnTest \cup {NoTest}
  /\ result \in {"0", "2", "abort", "none"}
  /\ \A f \in Elements(stack) :
       /\ Elements(f.tests) \subseteq Test \/ Elements(f.tests) \subseteq OwnTest
       /\ f.list \in BOOLEAN /\ f.filter \in Argument \cup {NoFilter}
       /\ f.pc = "arguments" => f.i \in 1 .. Len(f.argv) + 1
       /\ f.pc = "tests" => f.i \in 1 .. Len(f.tests) + 1
       /\ f.pc = "inside" => f.i \in DOMAIN f.tests
       /\ f.selected \in 0 .. Len(f.tests)

(* What a command line asks for, not following how it is parsed: an        *)
(* argument is the value of --filter when it ends an odd number of         *)
(* --filter before it.                                                     *)
IsValue(argv, n) ==
  \E m \in 0 .. n - 1 :
    /\ (n - 1 - m) % 2 = 1
    /\ \A x \in m + 1 .. n - 1 : argv[x].kind = "--filter"
    /\ m = 0 \/ argv[m].kind # "--filter"

IsOption(argv, n, kind) == argv[n].kind = kind /\ ~IsValue(argv, n)

Valid(argv) ==
  \A n \in DOMAIN argv :
    /\ ~IsOption(argv, n, "word")
    /\ IsOption(argv, n, "--filter") => n < Len(argv)

Filters(argv) == {n \in DOMAIN argv : IsValue(argv, n) \/ argv[n].kind = "--filter="}

Wanted(argv, t) ==
  Filters(argv) # {} =>
    LET final == CHOOSE n \in Filters(argv) : \A m \in Filters(argv) : m =< n
    IN  /\ argv[final].kind = IF IsValue(argv, final) THEN "word" ELSE "--filter="
        /\ t \in Contains[argv[final].word]

(* s consists of the elements of list at the places in S, in their order.  *)
AreAt(s, list, S) ==
  \E at \in [DOMAIN s -> S] :
    /\ \A m, n \in DOMAIN s : m < n => at[m] < at[n]
    /\ \A n \in S : \E m \in DOMAIN s : at[m] = n
    /\ \A m \in DOMAIN s : s[m] = list[at[m]]

(* When u7_testing_run returns 0 its command line was valid, and every     *)
(* test of its list that the last filter selects ran and passed, once and  *)
(* in the order of the list, or none did if they were only to be listed,   *)
(* whatever the tests themselves ran meanwhile.                            *)
ZeroMeansAllPassed ==
  [][Len(stack') < Len(stack) /\ result' = "0" =>
       LET argv == Top.argv
           wanted == {n \in DOMAIN Top.tests : Wanted(argv, Top.tests[n])}
       IN  /\ Valid(argv)
           /\ Filters(argv) # {} => wanted # {}
           /\ IF \E n \in DOMAIN argv : IsOption(argv, n, "--list")
              THEN Top.passed = <<>>
              ELSE AreAt(Top.passed, Top.tests, wanted)]_vars

(* u7_testing_run_registered runs all the tests that are registered when   *)
(* it is called, unless a filter says otherwise, and in the order of their *)
(* names, whatever the order of the constructors, and whatever registers   *)
(* or runs meanwhile.                                                      *)
RunInNameOrder ==
  /\ [][Len(stack') > Len(stack) =>
          LET cases == stack'[Len(stack')].tests
          IN  Elements(cases) \cap Test # {} => Elements(cases) = Elements(registered)]_vars
  /\ [](\A f \in Elements(stack) :
          Elements(f.tests) \cap Test # {} =>
            \A m, n \in DOMAIN f.passed :
              m < n => Name[f.passed[m]] < Name[f.passed[n]])

(* An assertion that fails is never reported under the name of another     *)
(* test than the one it fails in, also after nested runs, and once the     *)
(* runner has returned the name is gone.                                   *)
NeverMisattributed ==
  /\ InTest => name \in {Running, NoTest}
  /\ Depth = 0 /\ result # "abort" => name = NoTest

(* "Assertions fail fast and report the active test name" (README.md:91):  *)
(* while a test runs it is known.  The code violates it.                   *)
ActiveNameKnown == InTest => name = Running
=============================================================================
