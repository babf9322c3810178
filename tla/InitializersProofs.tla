------------------------- MODULE InitializersProofs -------------------------
(***************************************************************************)
(* Proofs about Initializers and InitErrors, for any finite set of         *)
(* initializers with any names and precedences, any depth of nesting, and  *)
(* any number of failures.                                                 *)
(***************************************************************************)
EXTENDS InitErrors, FiniteSetTheorems, SequenceTheorems, TLAPS

(* The array of a u7_init in progress is in order and has no name twice;   *)
(* what its loop has passed has been executed; and it holds every          *)
(* initializer of the program's own (not late) that has not been executed. *)
FrameOk(f, known, wanted, done) ==
  /\ f.pc = "inside" => f.i =< Len(f.array)
  /\ NamesUnique(Elements(f.array))
  /\ \A j, k \in 1 .. Len(f.array) : j < k => Cmp(f.array[j], f.array[k])
  /\ \A j \in 1 .. Len(f.array) : f.array[j] \in known
  /\ \A j \in 1 .. Len(f.array) : j < f.i => f.array[j] \in done
  /\ wanted \subseteq done \cup Elements(f.array)

(* The calls of u7_init in progress; all but the innermost are in an       *)
(* init_fn.                                                                *)
Frames ==
  /\ \A k \in 1 .. Len(stack) :
       FrameOk(stack[k], registered, registered \ late, executed)
  /\ \A k \in 1 .. Len(stack) : k < Len(stack) => stack[k].pc = "inside"

(* The variables, the two sequences with the types of their elements.      *)
Types ==
  /\ registry \in Seq(Record) /\ stack \in Seq(Frame)
  /\ Elements(registry) \subseteq registered
  /\ Cardinality(Elements(registry)) = Len(registry)
  /\ result \in {"none", "ok", "ENOMEM", "EINVAL", "failed"}
  /\ registered \subseteq Record /\ late \subseteq registered
  /\ executed \subseteq registered
  /\ runs \in [Record -> Nat]
  /\ reruns \in [failed : 0 .. MaxFailures, nested : Nat]

(* u7_init has returned EINVAL only for the list as it is.                 *)
RefusedRightly == result = "EINVAL" => ~NamesUnique(Elements(registry))

RegistryInv == Types /\ Frames /\ NoneLost /\ RefusedRightly

-----------------------------------------------------------------------------
(* Sequences, frames.                                                      *)

LEMMA ElementsOfSeq ==
  ASSUME NEW S, NEW s \in Seq(S)
  PROVE  /\ Len(s) \in Nat /\ DOMAIN s = 1 .. Len(s)
         /\ Elements(s) = {s[i] : i \in 1 .. Len(s)}
         /\ Elements(s) \subseteq S
BY LenProperties, ElementOfSeq DEF Elements

LEMMA FrameType ==
  ASSUME NEW f \in Frame
  PROVE  /\ f.array \in Seq(Record) /\ Len(f.array) \in Nat
         /\ DOMAIN f.array = 1 .. Len(f.array)
         /\ f.i \in Nat /\ f.i >= 1 /\ f.pc \in {"loop", "inside"}
<1>1. PICK n \in 1 .. Cardinality(Record) : f.array \in [1 .. n -> Record]
  BY DEF Frame
<1>2. f.array \in Seq(Record)
  <2>1. n \in Nat
    BY <1>1
  <2> QED
    BY <1>1, <2>1, SeqDef
<1>3. Len(f.array) \in Nat /\ DOMAIN f.array = 1 .. Len(f.array)
  BY <1>2, LenProperties
<1> QED
  BY <1>2, <1>3 DEF Frame

(* Stepping through the frame of a u7_init.                                *)
LEMMA FrameSteps ==
  ASSUME NEW f \in Frame
  PROVE  /\ [f EXCEPT !.pc = "inside"] \in Frame
         /\ f.i =< Len(f.array) =>
              [array |-> f.array, i |-> f.i + 1, pc |-> "loop"] \in Frame
<1>1. [f EXCEPT !.pc = "inside"] = [array |-> f.array, i |-> f.i, pc |-> "inside"]
  BY DEF Frame
<1>2. PICK n \in 1 .. Cardinality(Record) : f.array \in [1 .. n -> Record]
  BY DEF Frame
<1>3. Cardinality(Record) \in Nat
  BY RecordAssumption, FS_CardinalityType
<1>4. Len(f.array) = n
  BY <1>2, FrameType
<1>5. f.i \in 1 .. Cardinality(Record) + 1
  BY DEF Frame
<1>6. f.i =< Len(f.array) => f.i + 1 \in 1 .. Cardinality(Record) + 1
  BY <1>2, <1>3, <1>4, <1>5
<1> QED
  BY <1>1, <1>6 DEF Frame

(* What a frame says of the registry stays true as more is registered and  *)
(* executed.                                                               *)
LEMMA FrameKept ==
  ASSUME NEW f, NEW K1, NEW K2, NEW W1, NEW W2, NEW D1, NEW D2,
         FrameOk(f, K1, W1, D1), K1 \subseteq K2, W2 \subseteq W1, D1 \subseteq D2
  PROVE  FrameOk(f, K2, W2, D2)
BY DEF FrameOk

(* No initializer comes both before and after another, or before itself.   *)
LEMMA CmpAsymmetric ==
  ASSUME NEW r \in Record, NEW s \in Record, Cmp(r, s) PROVE ~Cmp(s, r)
BY RecordAssumption DEF Cmp

(* A frame whose init_fn is running steps to the next one, which has to    *)
(* find that init_fn executed.                                             *)
LEMMA FrameAdvances ==
  ASSUME NEW f \in Frame, NEW K, NEW W, NEW D,
         FrameOk(f, K, W, D), f.pc = "inside"
  PROVE  FrameOk([array |-> f.array, i |-> f.i + 1, pc |-> "loop"],
                 K, W, D \cup {f.array[f.i]})
<1> DEFINE g == [array |-> f.array, i |-> f.i + 1, pc |-> "loop"]
<1>1. g.array = f.array /\ g.i = f.i + 1 /\ g.pc = "loop"
  OBVIOUS
<1>2. f.i \in Nat /\ Len(f.array) \in Nat
  BY FrameType
<1>3. ASSUME NEW j \in 1 .. Len(f.array), j < f.i + 1
      PROVE  f.array[j] \in D \cup {f.array[f.i]}
  BY <1>2, <1>3 DEF FrameOk
<1> HIDE DEF g
<1> QED
  BY <1>1, <1>3 DEF FrameOk

(* The array into which u7_init collects the list.                         *)
LEMMA ArrayType ==
  ASSUME registry \in Seq(Record), NEW array \in Arrays
  PROVE  /\ array \in Seq(Record) /\ Len(array) = Len(registry)
         /\ Len(array) \in Nat /\ DOMAIN array = 1 .. Len(array)
         /\ Elements(array) = Elements(registry)
         /\ \A j \in 1 .. Len(array) : array[j] \in Elements(registry)
<1>1. Len(registry) \in Nat /\ Elements(registry) \subseteq Record
  BY ElementsOfSeq
<1>2. /\ array \in [1 .. Len(registry) -> Elements(registry)]
      /\ Elements(array) = Elements(registry)
  BY DEF Arrays
<1>3. array \in Seq(Elements(registry)) /\ array \in Seq(Record)
  BY <1>1, <1>2, SeqDef
<1> QED
  BY <1>1, <1>2, <1>3, LenProperties

(* After the first qsort equal names would be neighbours: to compare those *)
(* is enough.                                                              *)
LEMMA NeighboursTell ==
  ASSUME registry \in Seq(Record), NEW array \in Arrays, IsSortedByName(array)
  PROVE  HasDuplicate(array) <=> ~NamesUnique(Elements(registry))
<1> DEFINE n == Len(array)
           N(i) == Name[array[i]]
<1>1. /\ n \in Nat /\ DOMAIN array = 1 .. n /\ Elements(array) = Elements(registry)
      /\ \A i \in 1 .. n : array[i] \in Record
  BY ArrayType, ElementOfSeq
<1>2. \A i \in 1 .. n : N(i) \in Int
  BY <1>1, RecordAssumption
<1>3. \A i, j \in 1 .. n : i < j => N(i) =< N(j)
  BY <1>1, <1>2 DEF IsSortedByName, CmpByName
<1>4. ASSUME NEW i \in 1 .. n, NEW j \in 1 .. n, i < j, N(i) = N(j)
      PROVE  HasDuplicate(array)
  <2>1. i + 1 \in 2 .. n /\ i + 1 \in 1 .. n /\ (i + 1) - 1 = i /\ i < i + 1
    BY <1>1, <1>4
  <2>2. N(i) =< N(i + 1)
    BY <1>3, <2>1
  <2>3. N(i + 1) =< N(j)
    <3>1. CASE i + 1 = j
      BY <1>2, <1>4, <3>1
    <3>2. CASE i + 1 < j
      BY <1>3, <1>4, <2>1, <3>2
    <3> QED
      BY <1>1, <1>4, <3>1, <3>2
  <2>4. N(i + 1) = N(i)
    BY <1>2, <1>4, <2>1, <2>2, <2>3
  <2> QED
    BY <2>1, <2>4 DEF HasDuplicate
<1>5. ASSUME ~NamesUnique(Elements(registry)) PROVE HasDuplicate(array)
  <2>1. PICK r, s \in Elements(array) : Name[r] = Name[s] /\ r # s
    BY <1>1, <1>5 DEF NamesUnique
  <2>2. PICK i, j \in 1 .. n : r = array[i] /\ s = array[j]
    BY <1>1, <2>1 DEF Elements
  <2>3. i < j \/ j < i
    BY <2>1, <2>2
  <2> QED
    BY <1>4, <2>1, <2>2, <2>3
<1>6. ASSUME HasDuplicate(array) PROVE ~NamesUnique(Elements(registry))
  <2>1. PICK i \in 2 .. n : N(i - 1) = N(i)
    BY <1>6 DEF HasDuplicate
  <2>2. i - 1 \in 1 .. n /\ i \in 1 .. n /\ i - 1 # i
    BY <1>1, <2>1
  <2>3. array[i - 1] # array[i]
    BY <1>1, <2>2 DEF Arrays
  <2>4. array[i - 1] \in Elements(registry) /\ array[i] \in Elements(registry)
    BY <2>2, ArrayType
  <2> QED
    BY <2>1, <2>3, <2>4 DEF NamesUnique
<1> QED
  BY <1>5, <1>6

(* The array that u7_init collects and sorts for execution.                *)
LEMMA FrameStarts ==
  ASSUME registry \in Seq(Record), registry # <<>>,
         Cardinality(Elements(registry)) = Len(registry),
         NamesUnique(Elements(registry)),
         NEW array \in Arrays, IsSorted(array),
         NEW W, NEW D, W \subseteq D \cup Elements(registry),
         NEW K, Elements(registry) \subseteq K
  PROVE  LET f == [array |-> array, i |-> 1, pc |-> "loop"]
         IN  f \in Frame /\ FrameOk(f, K, W, D)
<1> DEFINE f == [array |-> array, i |-> 1, pc |-> "loop"]
<1>1. Len(registry) \in Nat \ {0} /\ Elements(registry) \subseteq Record
  BY ElementsOfSeq, EmptySeq
<1>2. Cardinality(Record) \in Nat /\ Len(registry) =< Cardinality(Record)
  BY <1>1, RecordAssumption, FS_CardinalityType, FS_Subset
<1>3. f \in Frame
  BY <1>1, <1>2 DEF Frame, Arrays
<1>4. f.array = array /\ f.i = 1 /\ f.pc = "loop"
  OBVIOUS
<1>5. /\ Len(array) \in Nat /\ DOMAIN array = 1 .. Len(array)
      /\ Elements(array) = Elements(registry)
      /\ \A j \in 1 .. Len(array) : array[j] \in Elements(registry)
  BY ArrayType
<1>6. ASSUME NEW j \in 1 .. Len(array), NEW k \in 1 .. Len(array), j < k
      PROVE  Cmp(array[j], array[k])
  <2>1. array[j] # array[k]
    BY <1>5, <1>6 DEF Arrays
  <2>2. /\ array[j] \in Record /\ array[k] \in Record
        /\ Name[array[j]] # Name[array[k]]
    BY <1>1, <1>5, <2>1 DEF NamesUnique
  <2>3. ~Cmp(array[k], array[j])
    BY <1>5, <1>6 DEF IsSorted
  <2> QED
    BY <2>2, <2>3, RecordAssumption DEF Cmp
<1> HIDE DEF f
<1>7. FrameOk(f, K, W, D)
  BY <1>4, <1>5, <1>6 DEF FrameOk
<1> QED
  BY <1>3, <1>7 DEF f

(* Everything before the place of a frame has been executed.               *)
LEMMA AllPassed ==
  ASSUME NEW f \in Frame, NEW K, NEW W, NEW D, FrameOk(f, K, W, D),
         ~(f.i =< Len(f.array))
  PROVE  Elements(f.array) \subseteq D /\ W \subseteq D
<1>1. f.i \in Nat /\ Len(f.array) \in Nat /\ DOMAIN f.array = 1 .. Len(f.array)
  BY FrameType
<1>2. Elements(f.array) \subseteq D
  BY <1>1 DEF FrameOk, Elements
<1> QED
  BY <1>2 DEF FrameOk

LEMMA SoonerInArray ==
  ASSUME NEW f \in Frame, NEW K, NEW W, NEW D, FrameOk(f, K, W, D),
         f.pc = "inside", NEW r \in Elements(f.array), Cmp(r, f.array[f.i])
  PROVE  r \in D
<1>1. /\ f.i \in 1 .. Len(f.array) /\ Len(f.array) \in Nat
      /\ DOMAIN f.array = 1 .. Len(f.array)
      /\ \A j \in 1 .. Len(f.array) : f.array[j] \in Record
  BY FrameType, ElementOfSeq DEF FrameOk
<1>2. PICK j \in 1 .. Len(f.array) : r = f.array[j]
  BY <1>1 DEF Elements
<1>3. ~(j = f.i) /\ ~(f.i < j)
  BY <1>1, <1>2, CmpAsymmetric DEF FrameOk
<1> QED
  BY <1>1, <1>2, <1>3 DEF FrameOk

-----------------------------------------------------------------------------
(* The registry and the frames: RegistryInv is inductive.                  *)

LEMMA InitRegistryInv == Init => RegistryInv
<1> SUFFICES ASSUME Init PROVE RegistryInv
  OBVIOUS
<1>1. Elements(<<>>) = {} /\ Len(<<>>) = 0 /\ <<>> \in Seq(Record) /\ <<>> \in Seq(Frame)
  BY DEF Elements
<1>2. runs \in [Record -> Nat] /\ reruns \in [failed : 0 .. MaxFailures, nested : Nat]
  BY BoundAssumption DEF Init
<1>3. Types
  BY <1>1, <1>2, FS_EmptySet DEF Init, Types
<1> QED
  BY <1>1, <1>3 DEF Init, RegistryInv, Frames, NoneLost, RefusedRightly

LEMMA StackTop ==
  ASSUME Types
  PROVE  /\ Depth \in Nat /\ Depth = Len(stack)
         /\ \A k \in 1 .. Depth : stack[k] \in Frame
         /\ Depth > 0 => Top \in Frame
BY ElementsOfSeq, ElementOfSeq DEF Types, Depth, Top

(* With the variables but one, or all, unchanged.                          *)
LEMMA FramesKept ==
  ASSUME RegistryInv, UNCHANGED stack, registered \subseteq registered',
         executed \subseteq executed',
         registered' \ late' \subseteq registered \ late
  PROVE  Frames'
<1>1. ASSUME NEW k \in 1 .. Len(stack)
      PROVE  FrameOk(stack[k], registered', registered' \ late', executed')
  BY <1>1, FrameKept, Zenon DEF RegistryInv, Frames
<1> QED
  BY <1>1 DEF RegistryInv, Frames

LEMMA Linked ==
  ASSUME Types, NEW r \in Record, r \notin registered
  PROVE  /\ Link(r) \in Seq(Record)
         /\ Elements(Link(r)) = Elements(registry) \cup {r}
         /\ Cardinality(Elements(Link(r))) = Len(Link(r))
<1>1. <<r>> \in Seq(Record) /\ Len(<<r>>) = 1 /\ <<r>>[1] = r
  OBVIOUS
<1>2. /\ Link(r) \in Seq(Record) /\ Len(Link(r)) = 1 + Len(registry)
      /\ \A i \in 1 .. 1 + Len(registry) :
           Link(r)[i] = IF i =< 1 THEN r ELSE registry[i - 1]
  <2>1. registry \in Seq(Record)
    BY DEF Types
  <2>2. /\ <<r>> \o registry \in Seq(Record)
        /\ Len(<<r>> \o registry) = Len(<<r>>) + Len(registry)
        /\ \A i \in 1 .. Len(<<r>>) + Len(registry) :
             (<<r>> \o registry)[i] =
               IF i =< Len(<<r>>) THEN <<r>>[i] ELSE registry[i - Len(<<r>>)]
    BY <1>1, <2>1, ConcatProperties
  <2> QED
    BY <1>1, <2>2 DEF Link
<1>3. /\ Len(registry) \in Nat
      /\ Elements(registry) = {registry[i] : i \in 1 .. Len(registry)}
      /\ Elements(Link(r)) = {Link(r)[i] : i \in 1 .. Len(Link(r))}
      /\ Elements(registry) \subseteq Record
  BY <1>2, ElementsOfSeq DEF Types
<1>4. Elements(Link(r)) = Elements(registry) \cup {r}
  <2>1. Link(r)[1] = r /\ 1 \in 1 .. Len(Link(r))
    BY <1>2, <1>3
  <2>2. ASSUME NEW i \in 1 .. Len(registry)
        PROVE  i + 1 \in 1 .. Len(Link(r)) /\ Link(r)[i + 1] = registry[i]
    BY <1>2, <1>3
  <2>3. ASSUME NEW i \in 1 .. Len(Link(r)), i # 1
        PROVE  i - 1 \in 1 .. Len(registry) /\ Link(r)[i] = registry[i - 1]
    BY <1>2, <1>3, <2>3
  <2>4. ASSUME NEW i \in 1 .. Len(Link(r))
        PROVE  Link(r)[i] \in Elements(registry) \cup {r}
    BY <1>3, <2>1, <2>3
  <2>5. ASSUME NEW q \in Elements(registry) PROVE q \in Elements(Link(r))
    BY <1>3, <2>2
  <2> QED
    BY <1>3, <2>1, <2>4, <2>5
<1>5. /\ r \notin Elements(registry) /\ IsFiniteSet(Elements(registry))
      /\ Cardinality(Elements(registry)) = Len(registry) /\ Len(registry) \in Nat
  BY <1>3, RecordAssumption, FS_Subset DEF Types
<1>6. Cardinality(Elements(Link(r))) = Cardinality(Elements(registry)) + 1
  BY <1>4, <1>5, FS_AddElement
<1> QED
  <2>1. Len(Link(r)) = 1 + Len(registry)
    BY <1>2
  <2>2. Cardinality(Elements(Link(r))) = Len(Link(r))
    BY <1>5, <1>6, <2>1
  <2> QED
    BY <1>2, <1>4, <2>2

LEMMA RegisterStep ==
  ASSUME RegistryInv, NEW r \in Record, Construct(r) PROVE RegistryInv'
<1>1. Types /\ r \notin registered /\ UNCHANGED <<stack, executed, runs, reruns>>
  BY DEF RegistryInv, Construct, Register
<1>2. /\ registry' = Link(r) /\ registered' = registered \cup {r}
      /\ late' = IF Depth > 0 THEN late \cup {r} ELSE late
      /\ result' = "none"
  BY DEF Construct, Register
<1>3. Types'
  BY <1>1, <1>2, Linked DEF Types
<1>4. Frames'
  <2>1. CASE Depth > 0
    BY <1>1, <1>2, <2>1, FramesKept DEF Types
  <2>2. CASE ~(Depth > 0)
    BY <1>1, <2>2, StackTop DEF Frames, Depth
  <2> QED
    BY <2>1, <2>2
<1>5. NoneLost'
  BY <1>1, <1>2, Linked DEF RegistryInv, NoneLost
<1> QED
  BY <1>2, <1>3, <1>4, <1>5 DEF RegistryInv, RefusedRightly

(* The frame that a u7_init adds to the stack.                             *)
LEMMA Started ==
  ASSUME RegistryInv, InitStart
  PROVE  \E f \in Frame :
           /\ Elements(f.array) = Elements(registry)
           /\ FrameOk(f, registered, registered \ late, executed)
           /\ stack' \in Seq(Frame) /\ Len(stack') = Len(stack) + 1
           /\ \A k \in 1 .. Len(stack) : stack'[k] = stack[k]
           /\ stack'[Len(stack) + 1] = f
<1>1. Types /\ NoneLost
  BY DEF RegistryInv
<1>2. PICK array \in Arrays :
        /\ IsSorted(array)
        /\ stack' = Append(stack, [array |-> array, i |-> 1, pc |-> "loop"])
  BY DEF InitStart
<1> DEFINE f == [array |-> array, i |-> 1, pc |-> "loop"]
<1>3. f \in Frame /\ FrameOk(f, registered, registered \ late, executed)
  <2>1. NamesUnique(Elements(registry))
    BY <1>1, NeighboursTell DEF InitStart, Types
  <2>2. /\ registry \in Seq(Record) /\ registry # <<>>
        /\ Cardinality(Elements(registry)) = Len(registry)
        /\ Elements(registry) \subseteq registered
        /\ registered \ late \subseteq executed \cup Elements(registry)
    BY <1>1 DEF InitStart, Types, NoneLost
  <2> QED
    BY <1>2, <2>1, <2>2, FrameStarts
<1>4. Elements(f.array) = Elements(registry)
  BY <1>1, <1>2, ArrayType DEF Types
<1> HIDE DEF f
<1>5. stack' = Append(stack, f)
  BY <1>2 DEF f
<1>6. /\ stack' \in Seq(Frame) /\ Len(stack') = Len(stack) + 1
      /\ \A k \in 1 .. Len(stack) : stack'[k] = stack[k]
      /\ stack'[Len(stack) + 1] = f
  BY <1>1, <1>3, <1>5, AppendProperties DEF Types
<1> QED
  BY <1>3, <1>4, <1>6

LEMMA InitStartStep ==
  ASSUME RegistryInv, InitStart PROVE RegistryInv'
<1>1. Types /\ Frames /\ NoneLost
  BY DEF RegistryInv
<1>2. PICK f \in Frame :
        /\ FrameOk(f, registered, registered \ late, executed)
        /\ stack' \in Seq(Frame) /\ Len(stack') = Len(stack) + 1
        /\ \A k \in 1 .. Len(stack) : stack'[k] = stack[k]
        /\ stack'[Len(stack) + 1] = f
  BY Started
<1>3. Len(stack) \in Nat
  BY <1>1, StackTop
<1>4. UNCHANGED <<registry, registered, late, executed, runs>> /\ result' = "none"
  BY DEF InitStart
<1>5. reruns' \in [failed : 0 .. MaxFailures, nested : Nat]
  <2>1. reruns \in [failed : 0 .. MaxFailures, nested : Nat]
    BY <1>1 DEF Types
  <2>2. [reruns EXCEPT !.nested = @ + 1]
          = [failed |-> reruns.failed, nested |-> reruns.nested + 1]
    BY <2>1
  <2>3. reruns' = reruns \/ reruns' = [reruns EXCEPT !.nested = @ + 1]
    BY DEF InitStart
  <2> QED
    BY <2>1, <2>2, <2>3
<1>6. Types' /\ NoneLost'
  BY <1>1, <1>2, <1>4, <1>5 DEF Types, NoneLost
<1>7. ASSUME NEW k \in 1 .. Len(stack')
      PROVE  /\ FrameOk(stack'[k], registered', registered' \ late', executed')
             /\ k < Len(stack') => stack'[k].pc = "inside"
  <2>1. CASE k = Len(stack) + 1
    <3>1. FrameOk(f, registered', registered' \ late', executed')
      BY <1>2, <1>4
    <3>2. stack'[k] = f /\ ~(k < Len(stack'))
      BY <1>2, <1>3, <2>1
    <3> QED
      BY <3>1, <3>2
  <2>2. CASE k \in 1 .. Len(stack)
    <3>1. stack[k].pc = "inside"
      <4>1. CASE k < Len(stack)
        BY <1>1, <2>2, <4>1 DEF Frames
      <4>2. CASE k = Len(stack)
        BY <1>3, <2>2, <4>2 DEF InitStart, UserCode, InInitFn, Top, Depth
      <4> QED
        BY <1>3, <2>2, <4>1, <4>2
    <3>2. FrameOk(stack[k], registered', registered' \ late', executed')
      BY <1>1, <1>4, <2>2 DEF Frames
    <3> QED
      BY <1>2, <2>2, <3>1, <3>2
  <2> QED
    BY <1>2, <1>3, <2>1, <2>2
<1> QED
  BY <1>4, <1>6, <1>7 DEF RegistryInv, Frames, RefusedRightly

(* The frame of the innermost u7_init is replaced by f.                    *)
Replaced(f) ==
  /\ f \in Frame /\ stack' \in Seq(Frame) /\ Len(stack') = Len(stack)
  /\ \A k \in 1 .. Len(stack) : stack'[k] = IF k = Depth THEN f ELSE stack[k]

LEMMA Replacing ==
  ASSUME Types, Depth > 0, NEW f \in Frame, stack' = [stack EXCEPT ![Depth] = f]
  PROVE  Replaced(f) /\ Depth \in 1 .. Len(stack) /\ Top = stack[Depth] /\ Top \in Frame
<1>1. Depth \in 1 .. Len(stack) /\ Top = stack[Depth] /\ Top \in Frame
  BY StackTop DEF Top
<1> QED
  BY <1>1, ExceptSeq DEF Types, Replaced

LEMMA FramesReplaced ==
  ASSUME RegistryInv, NEW f, Replaced(f), Depth > 0,
         UNCHANGED <<registered, late>>, executed \subseteq executed',
         FrameOk(f, registered, registered \ late, executed')
  PROVE  Frames'
<1>1. ASSUME NEW k \in 1 .. Len(stack')
      PROVE  /\ FrameOk(stack'[k], registered', registered' \ late', executed')
             /\ k < Len(stack') => stack'[k].pc = "inside"
  <2>1. CASE k = Depth
    <3>1. stack'[k] = f /\ ~(k < Len(stack'))
      BY <2>1, StackTop DEF RegistryInv, Replaced
    <3>2. FrameOk(f, registered', registered' \ late', executed')
      OBVIOUS
    <3> QED
      BY <3>1, <3>2
  <2>2. CASE k # Depth
    <3>1. k \in 1 .. Len(stack) /\ stack'[k] = stack[k]
      BY <2>2 DEF Replaced
    <3>2. FrameOk(stack[k], registered, registered \ late, executed)
      BY <3>1 DEF RegistryInv, Frames
    <3>3. FrameOk(stack[k], registered', registered' \ late', executed')
      BY <3>2, FrameKept
    <3> QED
      BY <3>1, <3>3 DEF RegistryInv, Frames, Replaced
  <2> QED
    BY <2>1, <2>2
<1> QED
  BY <1>1 DEF Frames

LEMMA Called ==
  ASSUME RegistryInv, CallInitFn
  PROVE  \E f \in Frame :
           /\ f.array = Top.array /\ f.i = Top.i
           /\ Replaced(f) /\ FrameOk(f, registered, registered \ late, executed)
<1>1. /\ Types /\ Frames /\ Depth > 0 /\ Top.i =< Len(Top.array)
      /\ stack' = [stack EXCEPT ![Depth].pc = "inside"]
  BY DEF RegistryInv, CallInitFn, MoreToRun
<1> DEFINE f == [Top EXCEPT !.pc = "inside"]
<1>2. Depth \in 1 .. Len(stack) /\ Top = stack[Depth] /\ Top \in Frame
  BY <1>1, StackTop DEF Top
<1>3. f \in Frame /\ f.array = Top.array /\ f.i = Top.i /\ f.pc = "inside"
  <2>1. Top = [array |-> Top.array, i |-> Top.i, pc |-> Top.pc]
    BY <1>2 DEF Frame
  <2>2. f = [array |-> Top.array, i |-> Top.i, pc |-> "inside"]
    BY <2>1
  <2> QED
    BY <1>2, <2>2, FrameSteps
<1>4. stack' = [stack EXCEPT ![Depth] = f]
  BY <1>1, <1>2
<1> HIDE DEF f
<1>5. FrameOk(f, registered, registered \ late, executed)
  BY <1>1, <1>2, <1>3 DEF Frames, FrameOk
<1>6. Replaced(f)
  BY <1>1, <1>3, <1>4, Replacing
<1> QED
  BY <1>3, <1>5, <1>6

LEMMA CallStep ==
  ASSUME RegistryInv, CallInitFn PROVE RegistryInv'
<1>1. /\ UNCHANGED <<registry, registered, late, executed, runs, reruns>>
      /\ result' = "none" /\ Depth > 0
  BY DEF CallInitFn, history
<1>2. PICK f \in Frame :
        Replaced(f) /\ FrameOk(f, registered, registered \ late, executed)
  BY Called
<1>3. Frames'
  BY <1>1, <1>2, FramesReplaced
<1> QED
  BY <1>1, <1>2, <1>3 DEF RegistryInv, Types, NoneLost, RefusedRightly, Replaced

(* The loop goes on after init_fn r.                                       *)
LEMMA Advanced ==
  ASSUME RegistryInv, InitFnOk
  PROVE  \E f \in Frame :
           /\ f.array = Top.array /\ f.i = Top.i + 1
           /\ Replaced(f) /\ FrameOk(f, registered, registered \ late, executed')
           /\ Top.i \in 1 .. Len(Top.array) /\ Top.array[Top.i] \in registered
<1>1. Types /\ Frames /\ Depth > 0 /\ Top.pc = "inside"
  BY DEF RegistryInv, InitFnOk, InInitFn
<1> DEFINE f == [array |-> Top.array, i |-> Top.i + 1, pc |-> "loop"]
<1>2. Depth \in 1 .. Len(stack) /\ Top = stack[Depth] /\ Top \in Frame
  BY <1>1, StackTop DEF Top
<1>3. FrameOk(Top, registered, registered \ late, executed)
  BY <1>1, <1>2 DEF Frames
<1>4. Top.i \in 1 .. Len(Top.array) /\ Top.array[Top.i] \in registered
  BY <1>1, <1>2, <1>3, FrameType DEF FrameOk
<1>5. f \in Frame
  <2>1. Top.i =< Len(Top.array)
    BY <1>4
  <2> QED
    BY <1>2, <2>1, FrameSteps
<1>6. FrameOk(f, registered, registered \ late, executed \cup {Top.array[Top.i]})
  BY <1>1, <1>2, <1>3, FrameAdvances
<1>7. /\ stack' = [stack EXCEPT ![Depth] = f]
      /\ executed' = executed \cup {Top.array[Top.i]}
  BY DEF InitFnOk, NextRecord
<1>8. f.array = Top.array /\ f.i = Top.i + 1
  OBVIOUS
<1> HIDE DEF f
<1>9. Replaced(f)
  BY <1>1, <1>5, <1>7, Replacing
<1> QED
  BY <1>4, <1>5, <1>6, <1>7, <1>8, <1>9

LEMMA OkStep ==
  ASSUME RegistryInv, InitFnOk PROVE RegistryInv'
<1> DEFINE r == Top.array[Top.i]
<1>1. /\ executed' = executed \cup {r} /\ runs' = [runs EXCEPT ![r] = @ + 1]
      /\ UNCHANGED <<registry, registered, late, reruns>>
      /\ result' = "none" /\ Depth > 0
  BY DEF InitFnOk, InInitFn
<1>2. PICK f \in Frame :
        /\ Replaced(f) /\ FrameOk(f, registered, registered \ late, executed')
        /\ r \in registered
  BY Advanced
<1> HIDE DEF r
<1>3. Frames'
  BY <1>1, <1>2, FramesReplaced
<1> QED
  BY <1>1, <1>2, <1>3 DEF RegistryInv, Types, NoneLost, RefusedRightly, Replaced

(* The frames of the callers, when a u7_init ends.                         *)
LEMMA Popped ==
  ASSUME Types, Depth > 0
  PROVE  /\ CallerOnly \in Seq(Frame) /\ Len(CallerOnly) = Len(stack) - 1
         /\ \A k \in 1 .. Len(stack) - 1 : CallerOnly[k] = stack[k]
<1>1. Depth \in Nat /\ Depth = Len(stack) /\ \A k \in 1 .. Depth - 1 : stack[k] \in Frame
  BY StackTop
<1>2. /\ SubSeq(stack, 1, Depth - 1) \in Seq(Frame)
      /\ Len(SubSeq(stack, 1, Depth - 1)) =
           IF 1 =< Depth - 1 THEN (Depth - 1) - 1 + 1 ELSE 0
      /\ \A k \in 1 .. (Depth - 1) - 1 + 1 :
           SubSeq(stack, 1, Depth - 1)[k] = stack[1 + k - 1]
  BY <1>1, SubSeqProperties
<1> QED
  BY <1>1, <1>2 DEF CallerOnly

LEMMA PopStep ==
  ASSUME RegistryInv, Depth > 0, stack' = CallerOnly,
         UNCHANGED <<registered, late, executed, runs>>,
         reruns' \in [failed : 0 .. MaxFailures, nested : Nat],
         result' \in {"ok", "failed"}, registry' = <<>> \/ registry' = registry,
         NoneLost'
  PROVE  RegistryInv'
<1>1. Types /\ Frames
  BY DEF RegistryInv
<1>2. Elements(<<>>) = {} /\ Len(<<>>) = 0 /\ <<>> \in Seq(Record)
  BY DEF Elements
<1>3. /\ registry' \in Seq(Record) /\ Elements(registry') \subseteq registered
      /\ Cardinality(Elements(registry')) = Len(registry')
  BY <1>1, <1>2, FS_EmptySet DEF Types
<1>4. /\ stack' \in Seq(Frame) /\ Len(stack') = Len(stack) - 1 /\ Len(stack) \in Nat
      /\ \A k \in 1 .. Len(stack) - 1 : stack'[k] = stack[k]
  BY <1>1, Popped, StackTop
<1>5. Types'
  BY <1>1, <1>3, <1>4 DEF Types
<1>6. ASSUME NEW k \in 1 .. Len(stack')
      PROVE  /\ FrameOk(stack'[k], registered', registered' \ late', executed')
             /\ k < Len(stack') => stack'[k].pc = "inside"
  <2>1. k \in 1 .. Len(stack) /\ k < Len(stack) /\ stack'[k] = stack[k]
    BY <1>4
  <2>2. FrameOk(stack[k], registered, registered \ late, executed)
    BY <1>1, <2>1 DEF Frames
  <2>3. stack[k].pc = "inside"
    BY <1>1, <2>1 DEF Frames
  <2> QED
    BY <2>1, <2>2, <2>3
<1> QED
  BY <1>5, <1>6 DEF RegistryInv, Frames, RefusedRightly

LEMMA FailsStep ==
  ASSUME RegistryInv, InitFnFails PROVE RegistryInv'
<1>1. reruns' \in [failed : 0 .. MaxFailures, nested : Nat]
  <2>1. /\ reruns \in [failed : 0 .. MaxFailures, nested : Nat]
        /\ reruns.failed < MaxFailures
    BY DEF RegistryInv, Types, InitFnFails
  <2>2. [reruns EXCEPT !.failed = @ + 1]
          = [failed |-> reruns.failed + 1, nested |-> reruns.nested]
    BY <2>1
  <2>3. reruns.failed + 1 \in 0 .. MaxFailures
    BY <2>1, BoundAssumption
  <2> QED
    BY <2>1, <2>2, <2>3 DEF InitFnFails
<1>2. NoneLost'
  BY DEF RegistryInv, NoneLost, InitFnFails
<1> QED
  BY <1>1, <1>2, PopStep DEF InitFnFails, InInitFn, OnError

(* What u7_init has passed over when its loop has ended.                   *)
LEMMA EndOfLoop ==
  ASSUME RegistryInv, InitEnd
  PROVE  Elements(Top.array) \subseteq executed /\ registered \ late \subseteq executed
<1>1. Top \in Frame /\ FrameOk(Top, registered, registered \ late, executed)
  <2>1. Depth \in 1 .. Len(stack) /\ Top = stack[Depth] /\ Top \in Frame
    BY StackTop DEF RegistryInv, InitEnd, Top
  <2> QED
    BY <2>1 DEF RegistryInv, Frames
<1>2. ~(Top.i =< Len(Top.array))
  BY DEF InitEnd, MoreToRun
<1> QED
  BY <1>1, <1>2, AllPassed

LEMMA EndStep ==
  ASSUME RegistryInv, InitEnd PROVE RegistryInv'
<1>1. NoneLost'
  BY EndOfLoop DEF NoneLost, InitEnd, history
<1> QED
  BY <1>1, PopStep DEF InitEnd, history, ListAfterSuccess, RegistryInv, Types

LEMMA NextRegistryInv == RegistryInv /\ [Next]_vars => RegistryInv'
<1> SUFFICES ASSUME RegistryInv, [Next]_vars PROVE RegistryInv'
  OBVIOUS
<1>1. CASE InitEmpty \/ InitRefused \/ UNCHANGED vars
  <2>1. /\ UNCHANGED <<registry, stack, history>>
        /\ result' \in {"none", "ok", "ENOMEM", "EINVAL", "failed"}
    BY <1>1 DEF InitEmpty, InitRefused, vars, RegistryInv, Types
  <2>2. Frames'
    BY <2>1, FramesKept DEF history
  <2>3. RefusedRightly'
    <3>1. CASE InitEmpty \/ UNCHANGED vars
      BY <2>1, <3>1 DEF InitEmpty, vars, RegistryInv, RefusedRightly
    <3>2. CASE InitRefused
      <4>1. \/ result' = "ENOMEM"
            \/ \E array \in Arrays : IsSortedByName(array) /\ HasDuplicate(array)
        BY <3>2 DEF InitRefused
      <4>2. result' = "EINVAL" => ~NamesUnique(Elements(registry))
        BY <4>1, NeighboursTell DEF RegistryInv, Types
      <4> QED
        BY <2>1, <4>2 DEF RefusedRightly
    <3> QED
      BY <1>1, <3>1, <3>2
  <2> QED
    BY <2>1, <2>2, <2>3 DEF RegistryInv, Types, NoneLost, history
<1> QED
  BY <1>1, InitStartStep, CallStep, OkStep, FailsStep, EndStep, RegisterStep DEF Next

LEMMA RegistryInvariant == Spec => []RegistryInv
BY InitRegistryInv, NextRegistryInv, PTL DEF Spec

-----------------------------------------------------------------------------
(* How often an init_fn runs.                                              *)

(* The loop of a u7_init has r still to run.                               *)
ToRun(f, r) == \E j \in 1 .. Len(f.array) : j >= f.i /\ f.array[j] = r

WaitingIn(s, r) == {k \in 1 .. Len(s) : ToRun(s[k], r)}

(* The program's own code will register r, or can call u7_init to run it.  *)
Fresh(r) ==
  IF r \notin registered \/ (stack = <<>> /\ r \in Elements(registry)) THEN 1 ELSE 0

(* The runs of r, with those that are to come unless something fails, are  *)
(* accounted for: one, and one for each init_fn that has failed or called  *)
(* u7_init.                                                                *)
BudgetOf(r) ==
  runs[r] + Cardinality(WaitingIn(stack, r)) + Fresh(r)
    =< 1 + reruns.failed + reruns.nested

Budget == \A r \in Record : BudgetOf(r)

LEMMA WaitingCount ==
  ASSUME NEW s \in Seq(Frame), NEW r
  PROVE  IsFiniteSet(WaitingIn(s, r)) /\ Cardinality(WaitingIn(s, r)) \in Nat
<1>1. Len(s) \in Nat /\ IsFiniteSet(1 .. Len(s))
  BY ElementsOfSeq, FS_Interval
<1>2. WaitingIn(s, r) \in SUBSET (1 .. Len(s))
  BY DEF WaitingIn
<1> QED
  BY <1>1, <1>2, FS_Subset, FS_CardinalityType

(* No more u7_init calls are to run r than before, or one more, or one     *)
(* less.                                                                   *)
LEMMA WaitingFewer ==
  ASSUME NEW s \in Seq(Frame), NEW t \in Seq(Frame), NEW r,
         WaitingIn(t, r) \subseteq WaitingIn(s, r)
  PROVE  Cardinality(WaitingIn(t, r)) =< Cardinality(WaitingIn(s, r))
BY WaitingCount, FS_Subset

LEMMA WaitingOneMore ==
  ASSUME NEW s \in Seq(Frame), NEW t \in Seq(Frame), NEW r, NEW k,
         WaitingIn(t, r) \subseteq WaitingIn(s, r) \cup {k}
  PROVE  Cardinality(WaitingIn(t, r)) =< Cardinality(WaitingIn(s, r)) + 1
<1>1. IsFiniteSet(WaitingIn(s, r)) /\ Cardinality(WaitingIn(s, r)) \in Nat
  BY WaitingCount
<1>2. /\ IsFiniteSet(WaitingIn(s, r) \cup {k})
      /\ Cardinality(WaitingIn(s, r) \cup {k}) =< Cardinality(WaitingIn(s, r)) + 1
  <2>1. /\ IsFiniteSet(WaitingIn(s, r) \cup {k})
        /\ Cardinality(WaitingIn(s, r) \cup {k}) =
             IF k \in WaitingIn(s, r) THEN Cardinality(WaitingIn(s, r))
             ELSE Cardinality(WaitingIn(s, r)) + 1
    BY <1>1, FS_AddElement
  <2> QED
    BY <1>1, <2>1
<1>3. /\ Cardinality(WaitingIn(t, r)) =< Cardinality(WaitingIn(s, r) \cup {k})
      /\ Cardinality(WaitingIn(s, r) \cup {k}) \in Nat
      /\ Cardinality(WaitingIn(t, r)) \in Nat
  BY <1>2, WaitingCount, FS_Subset, FS_CardinalityType
<1> QED
  BY <1>1, <1>2, <1>3

LEMMA WaitingOneLess ==
  ASSUME NEW s \in Seq(Frame), NEW t \in Seq(Frame), NEW r, NEW k \in WaitingIn(s, r),
         WaitingIn(t, r) \subseteq WaitingIn(s, r) \ {k}
  PROVE  Cardinality(WaitingIn(t, r)) + 1 =< Cardinality(WaitingIn(s, r))
<1>1. IsFiniteSet(WaitingIn(s, r)) /\ Cardinality(WaitingIn(s, r)) \in Nat
  BY WaitingCount
<1>2. /\ IsFiniteSet(WaitingIn(s, r) \ {k})
      /\ Cardinality(WaitingIn(s, r) \ {k}) = Cardinality(WaitingIn(s, r)) - 1
  BY <1>1, FS_RemoveElement
<1>3. /\ Cardinality(WaitingIn(t, r)) =< Cardinality(WaitingIn(s, r) \ {k})
      /\ Cardinality(WaitingIn(t, r)) \in Nat
  BY <1>2, WaitingCount, FS_Subset
<1> QED
  BY <1>1, <1>2, <1>3

(* The terms of the budget are numbers.                                    *)
LEMMA BudgetTypes ==
  ASSUME Types, NEW r \in Record
  PROVE  /\ runs[r] \in Nat /\ reruns.failed \in Nat /\ reruns.nested \in Nat
         /\ Cardinality(WaitingIn(stack, r)) \in Nat /\ Fresh(r) \in {0, 1}
<1>1. runs[r] \in Nat /\ reruns.failed \in Nat /\ reruns.nested \in Nat
  BY BoundAssumption DEF Types
<1>2. Cardinality(WaitingIn(stack, r)) \in Nat
  BY WaitingCount DEF Types
<1>3. Fresh(r) \in {0, 1}
  BY DEF Fresh
<1> QED
  BY <1>1, <1>2, <1>3

LEMMA InitBudget == Init => Budget
<1> SUFFICES ASSUME Init, NEW r \in Record PROVE BudgetOf(r)
  BY DEF Budget
<1>1. WaitingIn(stack, r) = {}
  BY DEF Init, WaitingIn
<1>2. Cardinality(WaitingIn(stack, r)) = 0
  BY <1>1, FS_EmptySet
<1>3. Fresh(r) = 1 /\ runs[r] = 0 /\ reruns.failed = 0 /\ reruns.nested = 0
  BY DEF Init, Fresh
<1> QED
  BY <1>2, <1>3 DEF BudgetOf

(* What a step does to the terms of the budget, and that it stays balanced *)
(* if it spends no more than it earns.                                     *)
LEMMA BudgetKept ==
  ASSUME Types, Types', NEW r \in Record, BudgetOf(r),
         NEW w \in Int, NEW f \in Int, NEW n \in Int,
         runs'[r] + w + f =< runs[r] + n,
         Cardinality(WaitingIn(stack', r)) =< Cardinality(WaitingIn(stack, r)) + w,
         Fresh(r)' =< Fresh(r) + f,
         reruns'.failed + reruns'.nested = reruns.failed + reruns.nested + n
  PROVE  BudgetOf(r)'
<1>1. /\ runs[r] \in Nat /\ reruns.failed \in Nat /\ reruns.nested \in Nat
      /\ Cardinality(WaitingIn(stack, r)) \in Nat /\ Fresh(r) \in Int
  BY BudgetTypes
<1>2. /\ runs'[r] \in Nat /\ reruns'.failed \in Nat /\ reruns'.nested \in Nat
      /\ Cardinality(WaitingIn(stack', r)) \in Nat /\ Fresh(r)' \in Int
  <2>1. /\ runs'[r] \in Nat /\ reruns'.failed \in Nat /\ reruns'.nested \in Nat
    BY BoundAssumption DEF Types
  <2>2. Cardinality(WaitingIn(stack', r)) \in Nat
    BY WaitingCount DEF Types
  <2>3. Fresh(r)' \in Int
    BY DEF Fresh
  <2> QED
    BY <2>1, <2>2, <2>3
<1>3. runs[r] + Cardinality(WaitingIn(stack, r)) + Fresh(r)
        =< 1 + reruns.failed + reruns.nested
  BY DEF BudgetOf
<1>4. runs'[r] + Cardinality(WaitingIn(stack', r)) + Fresh(r)'
        =< 1 + reruns'.failed + reruns'.nested
  BY <1>1, <1>2, <1>3
<1> QED
  BY <1>4 DEF BudgetOf

LEMMA StartBudget ==
  ASSUME RegistryInv, RegistryInv', InitStart, NEW r \in Record, BudgetOf(r)
  PROVE  BudgetOf(r)'
<1>1. Types /\ Types' /\ UNCHANGED <<registry, registered, runs>> /\ Len(stack) \in Nat
  BY StackTop DEF RegistryInv, InitStart
<1>2. PICK f \in Frame :
        /\ Elements(f.array) = Elements(registry)
        /\ stack' \in Seq(Frame) /\ Len(stack') = Len(stack) + 1
        /\ \A k \in 1 .. Len(stack) : stack'[k] = stack[k]
        /\ stack'[Len(stack) + 1] = f
  BY Started
<1>3. WaitingIn(stack', r) \subseteq WaitingIn(stack, r) \cup {Len(stack) + 1}
  BY <1>1, <1>2 DEF WaitingIn
<1>4. ToRun(f, r) => r \in Elements(registry)
  BY <1>2, FrameType DEF ToRun, Elements
<1>5. runs'[r] = runs[r] /\ runs[r] \in Nat
  BY <1>1 DEF Types
<1>6. Len(stack') # 0 /\ stack' # <<>>
  BY <1>1, <1>2
<1>7. Fresh(r) \in {0, 1} /\ Fresh(r)' \in {0, 1} /\ Fresh(r)' =< Fresh(r)
  BY <1>1, <1>6 DEF Fresh
<1>8. CASE Depth > 0
  <2>1. Cardinality(WaitingIn(stack', r)) =< Cardinality(WaitingIn(stack, r)) + 1
    BY <1>1, <1>3, WaitingOneMore DEF Types
  <2>2. reruns'.failed + reruns'.nested = reruns.failed + reruns.nested + 1
    BY <1>1, <1>8, BoundAssumption DEF InitStart, Types
  <2>3. runs'[r] + 1 + 0 =< runs[r] + 1
    BY <1>5
  <2>4. Fresh(r)' =< Fresh(r) + 0
    BY <1>7
  <2>5. 0 \in Int /\ 1 \in Int
    OBVIOUS
  <2> QED
    BY <1>1, <2>1, <2>2, <2>3, <2>4, <2>5, BudgetKept
<1>9. CASE ~(Depth > 0)
  <2>1. reruns' = reruns /\ Len(stack) = 0 /\ stack = <<>>
    BY <1>1, <1>9, EmptySeq DEF InitStart, Depth, Types
  <2>2. reruns'.failed + reruns'.nested = reruns.failed + reruns.nested + 0
    BY <1>1, <2>1, BoundAssumption DEF Types
  <2>3. CASE r \in Elements(registry)
    <3>1. r \in registered /\ Fresh(r)' = 0 /\ Fresh(r) = 1
      BY <1>1, <1>6, <2>1, <2>3 DEF Types, Fresh
    <3>2. Cardinality(WaitingIn(stack', r)) =< Cardinality(WaitingIn(stack, r)) + 1
      BY <1>1, <1>3, WaitingOneMore DEF Types
    <3>3. runs'[r] + 1 + (-1) =< runs[r] + 0 /\ Fresh(r)' =< Fresh(r) + (-1)
      BY <1>5, <3>1
    <3>4. 0 \in Int /\ 1 \in Int /\ -1 \in Int
      OBVIOUS
    <3> QED
      BY <1>1, <2>2, <3>2, <3>3, <3>4, BudgetKept
  <2>4. CASE r \notin Elements(registry)
    <3>1. WaitingIn(stack', r) \subseteq WaitingIn(stack, r)
      BY <1>1, <1>2, <1>4, <2>4 DEF WaitingIn
    <3>2. Cardinality(WaitingIn(stack', r)) =< Cardinality(WaitingIn(stack, r)) + 0
      BY <1>1, <3>1, WaitingFewer, BudgetTypes DEF Types
    <3>3. runs'[r] + 0 + 0 =< runs[r] + 0 /\ Fresh(r)' =< Fresh(r) + 0
      BY <1>5, <1>7
    <3>4. 0 \in Int
      OBVIOUS
    <3> QED
      BY <1>1, <2>2, <3>2, <3>3, <3>4, BudgetKept
  <2> QED
    BY <2>3, <2>4
<1> QED
  BY <1>8, <1>9

(* A step of which no initializer but x runs, and which starts no u7_init. *)
LEMMA QuietBudget ==
  ASSUME Types, Types', NEW r \in Record, BudgetOf(r), UNCHANGED reruns,
         runs'[r] = runs[r],
         WaitingIn(stack', r) \subseteq WaitingIn(stack, r), Fresh(r)' =< Fresh(r)
  PROVE  BudgetOf(r)'
<1>1. Cardinality(WaitingIn(stack', r)) =< Cardinality(WaitingIn(stack, r)) + 0
  BY WaitingFewer, BudgetTypes DEF Types
<1>2. runs'[r] + 0 + 0 =< runs[r] + 0 /\ Fresh(r)' =< Fresh(r) + 0
  BY BudgetTypes
<1>3. reruns'.failed + reruns'.nested = reruns.failed + reruns.nested + 0
  BY BudgetTypes
<1> QED
  BY <1>1, <1>2, <1>3, BudgetKept

LEMMA OkBudget ==
  ASSUME RegistryInv, RegistryInv', InitFnOk, NEW r \in Record, BudgetOf(r)
  PROVE  BudgetOf(r)'
<1> DEFINE x == Top.array[Top.i]
<1>1. /\ Types /\ Types' /\ UNCHANGED <<registry, registered, reruns>>
      /\ runs' = [runs EXCEPT ![x] = @ + 1] /\ Depth > 0 /\ Top.pc = "inside"
  BY DEF RegistryInv, InitFnOk, InInitFn
<1>2. PICK f \in Frame :
        /\ f.array = Top.array /\ f.i = Top.i + 1
        /\ Replaced(f) /\ FrameOk(f, registered, registered \ late, executed')
        /\ Top.i \in 1 .. Len(Top.array) /\ x \in registered
  BY Advanced
<1>3. /\ Depth \in 1 .. Len(stack) /\ Len(stack) \in Nat
      /\ Top = stack[Depth] /\ Top \in Frame /\ Len(Top.array) \in Nat
  BY <1>1, StackTop, FrameType DEF Top
<1> HIDE DEF x
<1>4. Fresh(r)' =< Fresh(r)
  <2>1. stack # <<>> /\ stack' # <<>>
    BY <1>2, <1>3 DEF Replaced
  <2>2. Fresh(r)' = Fresh(r)
    BY <1>1, <2>1 DEF Fresh
  <2> QED
    BY <1>1, <2>2, BudgetTypes
<1>5. WaitingIn(stack', r) \subseteq WaitingIn(stack, r)
  <2>1. ToRun(f, r) => ToRun(Top, r)
    BY <1>2, <1>3, FrameType DEF ToRun
  <2> QED
    BY <1>2, <1>3, <2>1 DEF WaitingIn, Replaced
<1>6. CASE r # x
  <2>1. runs'[r] = runs[r]
    BY <1>1, <1>6 DEF Types
  <2> QED
    BY <1>1, <1>4, <1>5, <2>1, QuietBudget
<1>7. CASE r = x
  <2>1. Depth \in WaitingIn(stack, r)
    BY <1>2, <1>3, <1>7 DEF WaitingIn, ToRun, x
  <2>2. ~ToRun(f, r)
    <3>1. ASSUME NEW j \in 1 .. Len(f.array), j >= f.i, f.array[j] = r PROVE FALSE
      <4>1. Top.i \in 1 .. Len(f.array) /\ Top.i < j /\ f.array[Top.i] = r
        BY <1>2, <1>3, <1>7, <3>1 DEF x
      <4>2. Cmp(r, r)
        BY <1>2, <3>1, <4>1 DEF FrameOk
      <4> QED
        BY <4>2, CmpAsymmetric
    <3> QED
      BY <3>1 DEF ToRun
  <2>3. WaitingIn(stack', r) \subseteq WaitingIn(stack, r) \ {Depth}
    BY <1>2, <1>3, <1>5, <2>2 DEF WaitingIn, Replaced
  <2>4. Cardinality(WaitingIn(stack', r)) + 1 =< Cardinality(WaitingIn(stack, r))
    BY <1>1, <2>1, <2>3, WaitingOneLess DEF Types
  <2>5. Cardinality(WaitingIn(stack', r)) =< Cardinality(WaitingIn(stack, r)) + (-1)
    BY <1>1, <2>4, WaitingCount DEF Types
  <2>6. runs'[r] = runs[r] + 1 /\ runs[r] \in Nat
    BY <1>1, <1>7 DEF Types
  <2>7. runs'[r] + (-1) + 0 =< runs[r] + 0
    BY <2>6
  <2>8. Fresh(r)' =< Fresh(r) + 0
    BY <1>1, <1>4, BudgetTypes
  <2>9. reruns'.failed + reruns'.nested = reruns.failed + reruns.nested + 0
    BY <1>1, BudgetTypes
  <2> QED
    BY <1>1, <2>5, <2>7, <2>8, <2>9, BudgetKept
<1> QED
  BY <1>6, <1>7

(* A u7_init that ends has nothing to run any more.                        *)
LEMMA WaitingPopped ==
  ASSUME Types, Depth > 0, stack' = CallerOnly, NEW r
  PROVE  WaitingIn(stack', r) \subseteq WaitingIn(stack, r)
BY Popped, StackTop DEF WaitingIn

LEMMA FailsBudget ==
  ASSUME RegistryInv, RegistryInv', InitFnFails, NEW r \in Record, BudgetOf(r)
  PROVE  BudgetOf(r)'
<1>1. /\ Types /\ Types' /\ UNCHANGED <<registry, registered, runs>>
      /\ Depth > 0 /\ stack' = CallerOnly
      /\ reruns' = [reruns EXCEPT !.failed = @ + 1]
  BY DEF RegistryInv, InitFnFails, InInitFn, OnError
<1>2. Cardinality(WaitingIn(stack', r)) =< Cardinality(WaitingIn(stack, r)) + 0
  BY <1>1, WaitingPopped, WaitingFewer, BudgetTypes DEF Types
<1>3. Fresh(r)' =< Fresh(r) + 1
  BY DEF Fresh
<1>4. runs'[r] + 0 + 1 =< runs[r] + 1
  BY <1>1, BudgetTypes
<1>5. reruns'.failed + reruns'.nested = reruns.failed + reruns.nested + 1
  BY <1>1, BoundAssumption DEF Types
<1> QED
  BY <1>1, <1>2, <1>3, <1>4, <1>5, BudgetKept

LEMMA NextBudget ==
  RegistryInv /\ RegistryInv' /\ Budget /\ [Next]_vars => Budget'
<1> SUFFICES ASSUME RegistryInv, RegistryInv', [Next]_vars,
                    NEW r \in Record, BudgetOf(r)
             PROVE  BudgetOf(r)'
  BY DEF Budget
<1>1. Types /\ Types'
  BY DEF RegistryInv
<1>2. CASE InitEmpty \/ InitRefused \/ UNCHANGED vars
  BY <1>2 DEF InitEmpty, InitRefused, vars, history, BudgetOf, Fresh
<1>3. CASE CallInitFn
  <2>1. UNCHANGED <<registry, registered, runs, reruns>>
    BY <1>3 DEF CallInitFn, history
  <2>2. PICK f \in Frame : f.array = Top.array /\ f.i = Top.i /\ Replaced(f)
    BY <1>3, Called
  <2>3. WaitingIn(stack', r) \subseteq WaitingIn(stack, r)
    BY <2>2 DEF WaitingIn, ToRun, Replaced, Top
  <2>4. stack # <<>> /\ stack' # <<>>
    BY <1>1, <1>3, <2>2, StackTop DEF CallInitFn, Replaced
  <2>5. Fresh(r)' =< Fresh(r)
    BY <2>1, <2>4 DEF Fresh
  <2> QED
    BY <1>1, <2>1, <2>3, <2>5, QuietBudget
<1>4. CASE InitEnd
  <2>1. /\ UNCHANGED <<registered, runs, reruns>> /\ Depth > 0
        /\ stack' = CallerOnly /\ registry' = <<>>
    BY <1>4 DEF InitEnd, history, ListAfterSuccess
  <2>2. r \notin Elements(registry')
    BY <2>1 DEF Elements
  <2>3. Fresh(r)' =< Fresh(r)
    BY <2>1, <2>2 DEF Fresh
  <2> QED
    BY <1>1, <2>1, <2>3, WaitingPopped, QuietBudget
<1>5. ASSUME NEW q \in Record, Construct(q) PROVE BudgetOf(r)'
  <2>1. /\ registry' = Link(q) /\ registered' = registered \cup {q}
        /\ UNCHANGED <<stack, runs, reruns>> /\ q \notin registered
    BY <1>5 DEF Construct, Register
  <2>2. Elements(registry') = Elements(registry) \cup {q}
    BY <1>1, <2>1, Linked
  <2>3. Fresh(r)' =< Fresh(r)
    BY <2>1, <2>2 DEF Fresh
  <2> QED
    BY <1>1, <2>1, <2>3, QuietBudget
<1> QED
  BY <1>2, <1>3, <1>4, <1>5, StartBudget, OkBudget, FailsBudget DEF Next

LEMMA BudgetInvariant == Spec => []Budget
BY InitBudget, NextBudget, RegistryInvariant, PTL DEF Spec

-----------------------------------------------------------------------------
(* Types; the list of initializers has no cycle, and the loop of u7_init   *)
(* stays inside its array, however calls nest and fail.                    *)
THEOREM TypeCorrect == Spec => []TypeOK
<1>1. RegistryInv => TypeOK
  <2> SUFFICES ASSUME Types, Frames PROVE TypeOK
    BY DEF RegistryInv
  <2>1. Elements(stack) \subseteq Frame
    BY ElementsOfSeq DEF Types
  <2>2. ASSUME NEW f \in Elements(stack), f.pc = "inside" PROVE f.i \in DOMAIN f.array
    <3>1. PICK k \in 1 .. Len(stack) : f = stack[k]
      BY ElementsOfSeq DEF Types
    <3>2. f.i =< Len(f.array)
      BY <2>2, <3>1 DEF Frames, FrameOk
    <3> QED
      BY <2>1, <3>2, FrameType
  <2> QED
    BY <2>1, <2>2 DEF Types, TypeOK
<1> QED
  BY <1>1, RegistryInvariant, PTL

(* u7_init runs initializers in order: by the time an init_fn runs, those  *)
(* that come before it have succeeded, in its own or in another u7_init.   *)
THEOREM EarlierFirst == Spec => []EarlierSucceeded
<1>1. RegistryInv => EarlierSucceeded
  <2> SUFFICES ASSUME RegistryInv, NEW d \in DOMAIN stack, stack[d].pc = "inside",
                      NEW r \in Elements(stack[d].array),
                      Earlier(r, stack[d].array[stack[d].i])
               PROVE  r \in executed
    BY DEF EarlierSucceeded
  <2>1. stack[d] \in Frame
    BY ElementsOfSeq, ElementOfSeq DEF RegistryInv, Types
  <2>2. FrameOk(stack[d], registered, registered \ late, executed)
    BY ElementsOfSeq DEF RegistryInv, Types, Frames
  <2>3. Cmp(r, stack[d].array[stack[d].i])
    BY DEF Earlier, Cmp
  <2> QED
    BY <2>1, <2>2, <2>3, SoonerInArray
<1> QED
  BY <1>1, RegistryInvariant, PTL

(* Failures of init_fns and nested calls of u7_init lose no initializer.   *)
THEOREM NoInitializerLost == Spec => []NoneLost
BY RegistryInvariant, PTL DEF RegistryInv

(* u7_init returns ok only when all it collected have been executed.       *)
THEOREM OkIsHonest == Spec => OkMeansExecuted
<1>1. RegistryInv /\ [Next]_vars =>
        [Len(stack') < Len(stack) /\ result' = "ok" =>
           Elements(Top.array) \subseteq executed']_vars
  <2> SUFFICES ASSUME RegistryInv, [Next]_vars, Len(stack') < Len(stack), result' = "ok"
               PROVE  Elements(Top.array) \subseteq executed'
    OBVIOUS
  <2>1. Types /\ Len(stack) \in Nat
    BY StackTop DEF RegistryInv
  <2>2. stack' # stack
    BY <2>1
  <2>3. ~InitStart /\ ~CallInitFn /\ ~InitFnOk /\ ~InitFnFails
    BY DEF InitStart, CallInitFn, InitFnOk, InitFnFails, OnError
  <2>4. ~InitEmpty /\ ~InitRefused /\ ~(UNCHANGED vars) /\ \A r \in Record : ~Construct(r)
    BY <2>2 DEF InitEmpty, InitRefused, vars, Construct, Register
  <2>5. InitEnd
    BY <2>3, <2>4 DEF Next
  <2> QED
    BY <2>5, EndOfLoop DEF InitEnd, history
<1> QED
  BY <1>1, RegistryInvariant, PTL DEF Spec, OkMeansExecuted

(* An init_fn that has succeeded runs again only as often as init_fns have *)
(* failed or called u7_init.                                               *)
THEOREM RerunsHaveReasons == Spec => []RunAgainOnlyWithReason
<1>1. RegistryInv /\ Budget => RunAgainOnlyWithReason
  <2> SUFFICES ASSUME RegistryInv, Budget, NEW r \in Record
               PROVE  runs[r] =< 1 + reruns.failed + reruns.nested
    BY DEF RunAgainOnlyWithReason
  <2>1. BudgetOf(r) /\ Types
    BY DEF Budget, RegistryInv
  <2> QED
    BY <2>1, BudgetTypes DEF BudgetOf
<1> QED
  BY <1>1, RegistryInvariant, BudgetInvariant, PTL

(* Two initializers of one name, wherever they are in the list, keep       *)
(* u7_init from executing anything, and nothing else is taken for that.    *)
THEOREM NamesAreChecked == Spec => []CollisionsAreRefused
<1>1. RegistryInv => CollisionsAreRefused
  <2>1. ASSUME RegistryInv, NEW d \in DOMAIN stack
        PROVE  NamesUnique(Elements(stack[d].array))
    BY <2>1, ElementsOfSeq DEF RegistryInv, Types, Frames, FrameOk
  <2> QED
    BY <2>1 DEF CollisionsAreRefused, RegistryInv, RefusedRightly
<1> QED
  BY <1>1, RegistryInvariant, PTL

-----------------------------------------------------------------------------
(* The composition with the errors that u7_init makes and passes on does   *)
(* nothing with the registry that Initializers does not, so that the       *)
(* theorems above hold of it too.                                          *)
THEOREM CompositionImplements == SpecAll => Spec
<1>1. InitAll => Init
  BY DEF InitAll
<1>2. [NextAll]_allVars => [Next]_vars
  <2> SUFFICES ASSUME NextAll PROVE [Next]_vars
    BY DEF allVars, vars
  <2>1. CASE Raise \/ \E e \in Error : Handle(e)
    BY <2>1 DEF Raise, Handle
  <2>2. CASE Refuse \/ Succeed \/ Fail
    BY <2>2 DEF Refuse, Succeed, Fail, Next
  <2>3. CASE Proceed
    BY <2>3 DEF Proceed, Next
  <2> QED
    BY <2>1, <2>2, <2>3 DEF NextAll
<1> QED
  BY <1>1, <1>2, PTL DEF SpecAll, Spec

(* The errors: while the loop of a u7_init is between two init_fns, there  *)
(* is nobody at its depth to own one.                                      *)
OwnersInv ==
  /\ hand \in [0 .. MaxDepth -> SUBSET Error]
  /\ owed \subseteq Error
  /\ Depth =< MaxDepth
  /\ Depth > 0 /\ Top.pc = "loop" => hand[Depth] = {}
  /\ OneOwner

LEMMA InitOwnersInv == InitAll => OwnersInv
<1> SUFFICES ASSUME InitAll PROVE OwnersInv
  OBVIOUS
<1>1. Depth = 0
  BY DEF InitAll, Init, Depth
<1> QED
  BY <1>1, BoundAssumption DEF InitAll, OwnersInv, OneOwner, Owners

(* Each error that is to be released is in the hands of the code at one of *)
(* the depths up to the current one, and of nobody else.                   *)
OneHand(h, o, depth) ==
  \A e \in Error :
    /\ e \in o => \E d \in 0 .. depth : d \in 0 .. MaxDepth /\ e \in h[d]
    /\ \A d \in 0 .. MaxDepth : e \in h[d] => e \in o /\ d \in 0 .. depth
    /\ \A c, d \in 0 .. MaxDepth : e \in h[c] /\ e \in h[d] => c = d

LEMMA OwnedOnce ==
  ASSUME hand \in [0 .. MaxDepth -> SUBSET Error]
  PROVE  OneOwner <=> OneHand(hand, owed, Depth)
<1>1. ASSUME NEW e \in Error
      PROVE  (IF e \in owed THEN \E d \in 0 .. Depth : Owners(e) = {d}
              ELSE Owners(e) = {})
             <=>
             /\ e \in owed => \E d \in 0 .. Depth : d \in 0 .. MaxDepth /\ e \in hand[d]
             /\ \A d \in 0 .. MaxDepth : e \in hand[d] => e \in owed /\ d \in 0 .. Depth
             /\ \A c, d \in 0 .. MaxDepth : e \in hand[c] /\ e \in hand[d] => c = d
  <2>1. CASE e \in owed
    <3>1. ASSUME NEW d \in 0 .. Depth, Owners(e) = {d}
          PROVE  /\ d \in 0 .. MaxDepth /\ e \in hand[d]
                 /\ \A c \in 0 .. MaxDepth : e \in hand[c] => c = d
      BY <3>1 DEF Owners
    <3>2. ASSUME NEW d \in 0 .. Depth, d \in 0 .. MaxDepth, e \in hand[d],
                 \A c \in 0 .. MaxDepth : e \in hand[c] => c = d
          PROVE  Owners(e) = {d}
      BY <3>2 DEF Owners
    <3> QED
      BY <2>1, <3>1, <3>2
  <2>2. CASE e \notin owed
    BY <2>2 DEF Owners
  <2> QED
    BY <2>1, <2>2
<1> QED
  BY <1>1 DEF OneOwner, OneHand

(* The code at a depth is given an error; has some of its errors released. *)
LEMMA OneHandGains ==
  ASSUME NEW h \in [0 .. MaxDepth -> SUBSET Error], NEW o,
         NEW D \in 0 .. MaxDepth, OneHand(h, o, D), NEW e \in Error \ o
  PROVE  OneHand([h EXCEPT ![D] = @ \cup {e}], o \cup {e}, D)
<1>1. D \in Nat /\ D \in 0 .. D
  BY BoundAssumption
<1> QED
  BY <1>1 DEF OneHand

LEMMA OneHandReleases ==
  ASSUME NEW h \in [0 .. MaxDepth -> SUBSET Error], NEW o,
         NEW D \in 0 .. MaxDepth, OneHand(h, o, D), NEW X
  PROVE  OneHand([h EXCEPT ![D] = @ \ X], o \ (h[D] \cap X), D)
BY DEF OneHand

(* An error passes to the caller.                                          *)
LEMMA OneHandReturns ==
  ASSUME NEW h \in [0 .. MaxDepth -> SUBSET Error], NEW o,
         NEW D \in 1 .. MaxDepth, OneHand(h, o, D), NEW e \in h[D]
  PROVE  OneHand([h EXCEPT ![D] = {}, ![D - 1] = @ \cup {e}], o \ (h[D] \ {e}), D - 1)
<1> DEFINE g == [h EXCEPT ![D] = {}, ![D - 1] = @ \cup {e}]
<1>1. /\ D \in 0 .. MaxDepth /\ D - 1 \in 0 .. MaxDepth /\ D # D - 1
      /\ D - 1 \in 0 .. D - 1 /\ \A d \in 0 .. D : d \in 0 .. D - 1 \/ d = D
      /\ \A d \in 0 .. D - 1 : d \in 0 .. D /\ d # D
  BY BoundAssumption
<1>2. \A d \in 0 .. MaxDepth :
        g[d] = IF d = D THEN {} ELSE IF d = D - 1 THEN h[D - 1] \cup {e} ELSE h[d]
  BY <1>1
<1> HIDE DEF g
<1>3. OneHand(g, o \ (h[D] \ {e}), D - 1)
  <2> SUFFICES ASSUME NEW x \in Error
               PROVE
        /\ x \in o \ (h[D] \ {e}) =>
             \E d \in 0 .. D - 1 : d \in 0 .. MaxDepth /\ x \in g[d]
        /\ \A d \in 0 .. MaxDepth :
             x \in g[d] => x \in o \ (h[D] \ {e}) /\ d \in 0 .. D - 1
        /\ \A c, d \in 0 .. MaxDepth : x \in g[c] /\ x \in g[d] => c = d
    BY DEF OneHand
  <2>1. /\ x \in o => \E d \in 0 .. D : d \in 0 .. MaxDepth /\ x \in h[d]
        /\ \A d \in 0 .. MaxDepth : x \in h[d] => x \in o /\ d \in 0 .. D
        /\ \A c, d \in 0 .. MaxDepth : x \in h[c] /\ x \in h[d] => c = d
    BY DEF OneHand
  <2>2. CASE x = e
    BY <1>1, <1>2, <2>1, <2>2
  <2>3. CASE x # e
    BY <1>1, <1>2, <2>1, <2>3
  <2> QED
    BY <2>2, <2>3
<1> QED
  BY <1>3 DEF g

(* A u7_init begins; one ends, at whose depth there is no error.           *)
LEMMA OneHandDeeper ==
  ASSUME NEW h \in [0 .. MaxDepth -> SUBSET Error], NEW o,
         NEW D \in 0 .. MaxDepth, OneHand(h, o, D)
  PROVE  /\ OneHand(h, o, D + 1)
         /\ D > 0 /\ h[D] = {} => OneHand(h, o, D - 1)
<1>1. /\ \A d \in 0 .. D : d \in 0 .. D + 1 /\ (d \in 0 .. D - 1 \/ d = D)
  BY BoundAssumption
<1> QED
  BY <1>1 DEF OneHand

(* Steps of the code in whose hands errors may be.                         *)
LEMMA OwnErrors ==
  ASSUME OwnersInv, Types, UserCode, UNCHANGED stack,
         hand' \in [0 .. MaxDepth -> SUBSET Error], owed' \subseteq Error,
         OneHand(hand', owed', Depth)
  PROVE  OwnersInv'
<1>1. Depth' = Depth /\ (Top.pc)' = Top.pc /\ Depth =< MaxDepth
  BY DEF Depth, Top, OwnersInv
<1>2. OneOwner'
  <2>1. OneHand(hand', owed', Depth')
    BY <1>1
  <2> QED
    BY <2>1, OwnedOnce DEF OneOwner, Owners, OneHand
<1> QED
  BY <1>1, <1>2, StackTop DEF OwnersInv, UserCode, InInitFn

LEMMA NextOwnersInv == OwnersInv /\ RegistryInv /\ [NextAll]_allVars => OwnersInv'
<1> SUFFICES ASSUME OwnersInv, RegistryInv, [NextAll]_allVars PROVE OwnersInv'
  OBVIOUS
<1>1. Types /\ Frames
  BY DEF RegistryInv
<1>2. /\ Depth = Len(stack) /\ Depth \in 0 .. MaxDepth /\ MaxDepth \in Nat
      /\ hand \in [0 .. MaxDepth -> SUBSET Error] /\ owed \subseteq Error
      /\ OneHand(hand, owed, Depth)
  BY <1>1, StackTop, BoundAssumption, OwnedOnce DEF OwnersInv
<1>3. ASSUME UserCode, UNCHANGED stack, Gain PROVE OwnersInv'
  <2> DEFINE e == CHOOSE x \in Error : x \notin owed
  <2>1. /\ hand' = [hand EXCEPT ![Depth] = @ \cup {e}] /\ owed' = owed \cup {e}
        /\ owed # Error
    BY <1>3 DEF Gain
  <2>2. e \in Error \ owed
    BY <1>2, <2>1
  <2> HIDE DEF e
  <2>3. hand' \in [0 .. MaxDepth -> SUBSET Error] /\ owed' \subseteq Error
    BY <1>2, <2>1, <2>2
  <2>4. OneHand(hand', owed', Depth)
    BY <1>2, <2>1, <2>2, OneHandGains
  <2> QED
    BY <1>1, <1>3, <2>3, <2>4, OwnErrors
<1>4. ASSUME NEW e \in Error, Handle(e) PROVE OwnersInv'
  <2>1. /\ UserCode /\ UNCHANGED stack
        /\ hand' = [hand EXCEPT ![Depth] = @ \ {e}] /\ owed' = owed \ {e}
        /\ e \in hand[Depth]
    BY <1>4 DEF Handle, vars
  <2>2. OneHand(hand', owed \ (hand[Depth] \cap {e}), Depth)
    BY <1>2, <2>1, OneHandReleases
  <2>3. owed \ (hand[Depth] \cap {e}) = owed'
    BY <2>1
  <2>4. hand' \in [0 .. MaxDepth -> SUBSET Error] /\ owed' \subseteq Error
    BY <1>2, <2>1
  <2>5. OneHand(hand', owed', Depth)
    BY <2>2, <2>3
  <2> QED
    BY <1>1, <2>1, <2>4, <2>5, OwnErrors
<1>5. CASE Succeed
  <2>1. /\ Depth > 0 /\ hand' = [hand EXCEPT ![Depth] = {}]
        /\ owed' = owed \ hand[Depth]
    BY <1>5 DEF Succeed, InitFnOk, InInitFn
  <2>2. Depth' = Depth
    BY <1>1, <1>5, Advanced DEF Succeed, Depth, Replaced
  <2>3. hand' = [hand EXCEPT ![Depth] = @ \ hand[Depth]]
    BY <2>1
  <2>4. OneHand(hand', owed \ (hand[Depth] \cap hand[Depth]), Depth)
    BY <1>2, <2>3, OneHandReleases
  <2>5. owed \ (hand[Depth] \cap hand[Depth]) = owed'
    BY <2>1
  <2>6. OneHand(hand', owed', Depth')
    BY <2>2, <2>4, <2>5
  <2>7. hand' \in [0 .. MaxDepth -> SUBSET Error] /\ owed' \subseteq Error
    BY <1>2, <2>1
  <2>8. OneOwner'
    BY <2>6, <2>7 , OwnedOnce DEF OneOwner, Owners, OneHand
  <2>9. hand'[Depth'] = {}
    BY <1>2, <2>1, <2>2
  <2> QED
    BY <1>2, <2>2, <2>7, <2>8, <2>9 DEF OwnersInv
<1>6. CASE Fail
  <2>1. PICK e \in hand[Depth] :
          /\ hand' = [hand EXCEPT ![Depth] = {}, ![Depth - 1] = @ \cup {e}]
          /\ owed' = owed \ (hand[Depth] \ {e})
    BY <1>6 DEF Fail, ReturnError
  <2>2. Depth > 0 /\ stack' = CallerOnly
    BY <1>6 DEF Fail, InitFnFails, OnError, InInitFn
  <2>3. /\ Depth' = Depth - 1 /\ Depth \in 1 .. MaxDepth
        /\ Depth - 1 \in 0 .. MaxDepth
    BY <1>1, <1>2, <2>2, Popped DEF Depth
  <2>4. OneHand(hand', owed', Depth')
    BY <1>2, <2>1, <2>3, OneHandReturns
  <2>5. hand' \in [0 .. MaxDepth -> SUBSET Error] /\ owed' \subseteq Error
    BY <1>2, <2>1, <2>3
  <2>6. OneOwner'
    BY <2>4, <2>5, OwnedOnce DEF OneOwner, Owners, OneHand
  <2>7. Depth - 1 > 0 => Top'.pc = "inside"
    <3>1. SUFFICES ASSUME Depth - 1 > 0 PROVE Top'.pc = "inside"
      OBVIOUS
    <3>2. stack'[Depth - 1] = stack[Depth - 1] /\ Depth - 1 \in 1 .. Len(stack)
      BY <1>1, <1>2, <2>2, <3>1, Popped
    <3>3. stack[Depth - 1].pc = "inside"
      BY <1>1, <1>2, <3>2 DEF Frames
    <3> QED
      BY <2>3, <3>2, <3>3 DEF Top
  <2> QED
    BY <1>2, <2>3, <2>5, <2>6, <2>7 DEF OwnersInv
<1>7. CASE Proceed /\ ~UNCHANGED stack
  <2>1. UNCHANGED <<hand, owed>>
    BY <1>7 DEF Proceed, errors
  <2>2. ASSUME Depth' \in 0 .. MaxDepth, OneHand(hand, owed, Depth'),
               Depth' > 0 /\ Top'.pc = "loop" => hand[Depth'] = {}
        PROVE  OwnersInv'
    <3>1. OneHand(hand', owed', Depth')
      BY <2>1, <2>2
    <3>2. hand' \in [0 .. MaxDepth -> SUBSET Error] /\ owed' \subseteq Error
      BY <1>2, <2>1
    <3>3. OneOwner'
      BY <3>1, <3>2, OwnedOnce DEF OneOwner, Owners, OneHand
    <3> QED
      BY <1>2, <2>1, <2>2, <3>2, <3>3 DEF OwnersInv
  <2>3. CASE InitStart
    <3>1. Depth' = Depth + 1 /\ Depth < MaxDepth
      BY <1>1, <2>3, Started DEF InitStart, Depth, RegistryInv
    <3>2. OneHand(hand, owed, Depth + 1)
      BY <1>2, OneHandDeeper
    <3>3. hand[Depth + 1] = {}
      BY <1>2, <3>1 DEF OneHand
    <3> QED
      BY <1>2, <2>2, <3>1, <3>2, <3>3
  <2>4. CASE InitEnd
    <3>1. Depth > 0 /\ Depth' = Depth - 1 /\ hand[Depth] = {} /\ stack' = CallerOnly
      BY <1>1, <1>2, <2>4, Popped DEF InitEnd, Depth, OwnersInv
    <3>2. OneHand(hand, owed, Depth - 1)
      BY <1>2, <3>1, OneHandDeeper
    <3>3. Depth - 1 > 0 => Top'.pc = "inside"
      <4>1. SUFFICES ASSUME Depth - 1 > 0 PROVE Top'.pc = "inside"
        OBVIOUS
      <4>2. stack'[Depth - 1] = stack[Depth - 1] /\ Depth - 1 \in 1 .. Len(stack)
        BY <1>1, <1>2, <3>1, <4>1, Popped
      <4>3. stack[Depth - 1].pc = "inside"
        BY <1>1, <1>2, <4>2 DEF Frames
      <4> QED
        BY <3>1, <4>2, <4>3 DEF Top
    <3> QED
      BY <1>2, <2>2, <3>1, <3>2, <3>3
  <2>5. CASE CallInitFn
    <3>1. Depth' = Depth /\ hand[Depth] = {}
      BY <1>1, <2>5, Called DEF CallInitFn, Depth, Replaced, OwnersInv
    <3> QED
      BY <1>2, <2>2, <3>1
  <2> QED
    BY <1>7, <2>3, <2>4, <2>5 DEF Proceed, InitEmpty, Construct, Register
<1>8. CASE (Proceed /\ UNCHANGED stack) \/ UNCHANGED allVars
  BY <1>8 DEF Proceed, errors, allVars, vars, OwnersInv, OneOwner, Owners, Depth, Top
<1>9. CASE Raise \/ Refuse
  BY <1>3, <1>9 DEF Raise, Refuse, InitRefused, vars
<1> QED
  BY <1>4, <1>5, <1>6, <1>7, <1>8, <1>9 DEF NextAll

(* Errors are not lost or released twice on their way out of nested        *)
(* u7_init calls: each that is to be released is owned exactly once, by    *)
(* code that still runs.                                                   *)
THEOREM ErrorsHaveOneOwner == SpecAll => []OneOwner
<1>1. SpecAll => []RegistryInv
  BY CompositionImplements, RegistryInvariant
<1>2. SpecAll => []OwnersInv
  BY <1>1, InitOwnersInv, NextOwnersInv, PTL DEF SpecAll
<1> QED
  BY <1>2, PTL DEF OwnersInv
=============================================================================
