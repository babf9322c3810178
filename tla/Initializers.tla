---------------------------- MODULE Initializers ----------------------------
(***************************************************************************)
(* u7_init and the registry of initializers (init.c, public/init.h).       *)
(*                                                                         *)
(* One thread runs the program.  It registers initializers (constructors   *)
(* do, before main and whenever a shared object is loaded) and calls       *)
(* u7_init.  While an init_fn runs, the same thread may do either again,   *)
(* so calls of u7_init nest; stack holds the calls in progress, the        *)
(* innermost last.                                                         *)
(*                                                                         *)
(* The registry is a linked list; here it is the sequence of its records.  *)
(* Names are numbers that compare as strcmp does.                          *)
(***************************************************************************)
EXTENDS Integers, Sequences, FiniteSets

CONSTANTS
  Record,       (* the initializers of the program                        *)
  Name,         (* u7_initializer.name of each                            *)
  Precedence,   (* u7_initializer.precedence of each                      *)
  MaxDepth,     (* bound: nested calls of u7_init                         *)
  MaxFailures   (* bound: init_fns that return an error                   *)

ASSUME RecordAssumption ==
  /\ IsFiniteSet(Record)
  /\ Name \in [Record -> Int]
  /\ Precedence \in [Record -> Int]

ASSUME BoundAssumption == MaxDepth \in Nat /\ MaxFailures \in Nat

VARIABLES
  registry,    (* the list at u7_init_record_head                         *)
  stack,       (* the calls of u7_init in progress                        *)
  result,      (* what the u7_init that has just ended returned, or none  *)
  registered,  (* the initializers registered so far                      *)
  late,        (* those registered while a u7_init was in progress        *)
  executed,    (* those whose init_fn has returned without error          *)
  runs,        (* how often each init_fn has returned without error       *)
  reruns       (* how many times an init_fn has returned an error or      *)
               (* called u7_init to run initializers                      *)

history == <<registered, late, executed, runs, reruns>>
vars == <<registry, stack, result, history>>

Elements(s) == {s[i] : i \in DOMAIN s}

-----------------------------------------------------------------------------
(* Mutant of Cmp: the name decides, and the precedence breaks the tie.     *)
CmpNameFirst(r, s) ==
  \/ Name[r] < Name[s]
  \/ Name[r] = Name[s] /\ Precedence[r] < Precedence[s]

(* u7_initizlizer_cmp(r, s) < 0.                                           *)
Cmp(r, s) ==
  \/ Precedence[r] < Precedence[s]
  \/ Precedence[r] = Precedence[s] /\ Name[r] < Name[s]

(* u7_initizlizer_cmp_by_name(r, s) < 0.                                   *)
CmpByName(r, s) == Name[r] < Name[s]

(* The array is in an order in which qsort leaves it.                      *)
IsSorted(array) ==
  \A i, j \in DOMAIN array : i < j => ~Cmp(array[j], array[i])

(* Mutant of IsSortedByName: the first qsort already uses the other order. *)
IsSortedByNameNot(array) ==
  \A i, j \in DOMAIN array : i < j => ~Cmp(array[j], array[i])

IsSortedByName(array) ==
  \A i, j \in DOMAIN array : i < j => ~CmpByName(array[j], array[i])

(* Two neighbours in the array have the same name.                         *)
HasDuplicate(array) ==
  \E i \in 2 .. Len(array) : Name[array[i - 1]] = Name[array[i]]

-----------------------------------------------------------------------------
Init ==
  /\ registry = <<>>
  /\ stack = <<>>
  /\ result = "none"
  /\ registered = {} /\ late = {} /\ executed = {}
  /\ runs = [r \in Record |-> 0]
  /\ reruns = [failed |-> 0, nested |-> 0]

Depth == Len(stack)
Top == stack[Depth]
InInitFn == Depth > 0 /\ Top.pc = "inside"

(* The program's own code runs outside u7_init or in an init_fn.           *)
UserCode == Depth = 0 \/ InInitFn

(* Mutant of Link: the record becomes the list.                            *)
LinkAlone(r) == <<r>>

Link(r) == <<r>> \o registry

(* u7_initializer_register.                                                *)
Register(r) ==
  /\ registry' = Link(r)
  /\ registered' = registered \cup {r}
  /\ late' = IF Depth > 0 THEN late \cup {r} ELSE late
  /\ result' = "none"
  /\ UNCHANGED <<stack, executed, runs, reruns>>

(* The constructor that U7_REGISTER_INITIALIZER makes for a record; it     *)
(* runs once.                                                              *)
Construct(r) == UserCode /\ r \notin registered /\ Register(r)

(* What the array may hold: the records of the list, in any order.         *)
Arrays ==
  {array \in [1 .. Len(registry) -> Elements(registry)] :
     /\ Elements(array) = Elements(registry)
     /\ \A i, j \in DOMAIN array : array[i] = array[j] => i = j}

(* A call of u7_init ends before running anything: there is nothing to     *)
(* run, no memory for the array, or a name that is not unique.             *)
InitEmpty ==
  /\ UserCode /\ registry = <<>>
  /\ result' = "ok"
  /\ UNCHANGED <<registry, stack, history>>

InitRefused ==
  /\ UserCode /\ registry # <<>>
  /\ \/ result' = "ENOMEM"
     \/ /\ \E array \in Arrays : IsSortedByName(array) /\ HasDuplicate(array)
        /\ result' = "EINVAL"
  /\ UNCHANGED <<registry, stack, history>>

(* A call of u7_init collects the initializers, sorts them by name and     *)
(* finds no name twice, and sorts them by precedence and name.             *)
InitStart ==
  /\ UserCode /\ registry # <<>> /\ Depth < MaxDepth
  /\ \E array \in Arrays : IsSortedByName(array) /\ ~HasDuplicate(array)
  /\ \E array \in Arrays :
       /\ IsSorted(array)
       /\ stack' = Append(stack, [array |-> array, i |-> 1, pc |-> "loop"])
  /\ reruns' = IF Depth > 0 THEN [reruns EXCEPT !.nested = @ + 1] ELSE reruns
  /\ result' = "none"
  /\ UNCHANGED <<registry, registered, late, executed, runs>>

(* Mutant of MoreToRun: the loop runs up to i <= count.                    *)
MoreToRunPastEnd == Top.i =< Len(Top.array) + 1

MoreToRun == Top.i =< Len(Top.array)

(* The loop of u7_init calls the next init_fn.                             *)
CallInitFn ==
  /\ Depth > 0 /\ Top.pc = "loop" /\ MoreToRun
  /\ stack' = [stack EXCEPT ![Depth].pc = "inside"]
  /\ result' = "none"
  /\ UNCHANGED <<registry, history>>

NextRecord ==
  [stack EXCEPT ![Depth] = [array |-> Top.array, i |-> Top.i + 1, pc |-> "loop"]]

(* The init_fn returns without error.                                      *)
InitFnOk ==
  /\ InInitFn
  /\ LET r == Top.array[Top.i] IN
       /\ executed' = executed \cup {r}
       /\ runs' = [runs EXCEPT ![r] = @ + 1]
  /\ stack' = NextRecord
  /\ result' = "none"
  /\ UNCHANGED <<registry, registered, late, reruns>>

CallerOnly == SubSeq(stack, 1, Depth - 1)

(* Mutant of OnError: the error is dropped and the loop goes on.           *)
OnErrorIgnore == stack' = NextRecord /\ result' = "none"

(* u7_init returns the error.  The list stays.                             *)
OnError == stack' = CallerOnly /\ result' = "failed"

(* The init_fn returns an error.                                           *)
InitFnFails ==
  /\ InInitFn /\ reruns.failed < MaxFailures
  /\ reruns' = [reruns EXCEPT !.failed = @ + 1]
  /\ OnError
  /\ UNCHANGED <<registry, registered, late, executed, runs>>

(* Mutant of ListAfterSuccess: it stays.                                   *)
ListAfterSuccessKept == registry

ListAfterSuccess == <<>>

(* All have run: the list is emptied.                                      *)
InitEnd ==
  /\ Depth > 0 /\ Top.pc = "loop" /\ ~MoreToRun
  /\ registry' = ListAfterSuccess
  /\ result' = "ok"
  /\ stack' = CallerOnly
  /\ UNCHANGED history

Next ==
  \/ InitEmpty \/ InitRefused \/ InitStart
  \/ CallInitFn \/ InitFnOk \/ InitFnFails \/ InitEnd
  \/ \E r \in Record : Construct(r)

Spec == Init /\ [][Next]_vars

-----------------------------------------------------------------------------
(* Properties.                                                             *)

Frame ==
  [array : UNION {[1 .. n -> Record] : n \in 1 .. Cardinality(Record)},
   i : 1 .. Cardinality(Record) + 1,
   pc : {"loop", "inside"}]

(* Every variable has its type; the list has no cycle; the loop of u7_init *)
(* stays inside its array.                                                 *)
TypeOK ==
  /\ Elements(registry) \subseteq registered
  /\ Cardinality(Elements(registry)) = Len(registry)
  /\ Elements(stack) \subseteq Frame
  /\ \A f \in Elements(stack) : f.pc = "inside" => f.i \in DOMAIN f.array
  /\ result \in {"none", "ok", "ENOMEM", "EINVAL", "failed"}
  /\ registered \subseteq Record
  /\ late \subseteq registered
  /\ executed \subseteq registered
  /\ runs \in [Record -> Nat]
  /\ reruns \in [failed : 0 .. MaxFailures, nested : Nat]

(* Lower precedence and then lexicographically earlier names come first.   *)
Earlier(r, s) ==
  \/ Precedence[r] < Precedence[s]
  \/ Precedence[r] = Precedence[s] /\ Name[r] < Name[s]

(* While an init_fn runs, every initializer of its u7_init call that has   *)
(* to come before it has already succeeded, whatever the order of          *)
(* registration, earlier failures and nested calls.                        *)
EarlierSucceeded ==
  \A d \in DOMAIN stack :
    stack[d].pc = "inside" =>
      \A r \in Elements(stack[d].array) :
        Earlier(r, stack[d].array[stack[d].i]) => r \in executed

(* A call of u7_init that returns ok has executed all the initializers it  *)
(* collected: no error of an init_fn goes unnoticed.                       *)
OkMeansExecuted ==
  [][Len(stack') < Len(stack) /\ result' = "ok" =>
       Elements(Top.array) \subseteq executed']_vars

(* An initializer that has succeeded is run again only after some init_fn  *)
(* has failed or has called u7_init itself: at most once more each time.   *)
RunAgainOnlyWithReason ==
  \A r \in Record : runs[r] =< 1 + reruns.failed + reruns.nested

(* An initializer that was registered while no u7_init was in progress has *)
(* been executed or is still in the list, so that a later u7_init executes *)
(* it: failures and nested calls lose none.                                *)
NoneLost == registered \ late \subseteq executed \cup Elements(registry)

NamesUnique(S) == \A r, s \in S : Name[r] = Name[s] => r = s

(* No u7_init that finds two initializers of one name, wherever they are   *)
(* in the list and in the order of execution, executes anything; and it is *)
(* only then that u7_init returns EINVAL.  The code compares neighbours.   *)
CollisionsAreRefused ==
  /\ \A d \in DOMAIN stack : NamesUnique(Elements(stack[d].array))
  /\ result = "EINVAL" => ~NamesUnique(Elements(registry))

(* If u7_init is called again until it succeeds, every initializer that    *)
(* was registered while no u7_init was in progress is executed in the end, *)
(* unless two names collide in the list, and do for ever after: nothing    *)
(* else keeps it waiting, not even a name that collides with one that has  *)
(* been executed, or with one that is gone with the list it was late for.  *)
AllExecuted ==
  \A r \in Record :
    r \in registered \ late ~>
      (r \in executed \/ []~NamesUnique(Elements(registry)))

(* "Executes the registered initializers" (public/init.h:11): also one     *)
(* that was registered while u7_init was in progress is executed or waits  *)
(* for the next u7_init.  The code violates it.                            *)
RegisteredIsKept == registered \subseteq executed \cup Elements(registry)
=============================================================================
