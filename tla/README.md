# Verification of u7_init

TLA+ models of the library in this repository, model-checked with TLC, and
proofs checked with TLAPS that their safety properties hold for every value of
the constants. Line numbers refer to
the source files next to this directory.

## The system

u7_init is a small C library. Nothing in it persists and nothing communicates
over a network; what is difficult is sharing between threads, the ownership of
chains of errors, and arithmetic at the ends of ranges.

| Component | State | Operations | What makes it correct |
|---|---|---|---|
| reference counter, `public/refcount.h` | one `atomic_int` | init, increment, decrement, skewed decrement | the count is the number of references; one thread, and only one, is told to dispose; the disposal comes after every use of the object |
| errors, `error.c`, `public/error.h` | payloads on the heap, each with a counter, a message and a cause; a static fallback payload | acquire, release, clear, move, `u7_errorf*`, `u7_errnof` | nothing freed early, twice or never, in chains that threads share; whatever allocation fails, an error comes back |
| messages, `u7_verrorf_with_cause` | a buffer, its length | five ways to make a message | the whole text, terminated, within its buffer; the buffer is owned once |
| initializers, `init.c`, `public/init.h` | a global list | register, `u7_init` | order of precedence and name; each registered one is executed; an error that stops them reaches whoever called, and only them |
| spinlock, `public/spinlock.h`, `spinlock.c` | one `atomic_flag` | init, lock, trylock, unlock | one holder; each holder sees what earlier ones wrote; the backoff lets the holder run |
| checked arithmetic, `public/math.h` | the caller's sticky flag | 12 macros, in C and in C++ | one check of the flag at the end tells whether anything overflowed; both languages agree |
| test runner, `testing.c`, `public/testing.h` | a global list of tests, the current test's name | register, run, run a list, `U7_ASSERT*` | 0 means that what was asked for ran and passed; order of names; a failure is reported under its test's name |
| `U7_ASSERT_EQ` | none | tag, convert and compare two operands | numbers compare as numbers |

Interactions: error payloads embed a reference counter and are the main user
of the skewed decrement (`error.c:22`). `u7_init` makes errors
of its own and passes on those of the init_fns, which may come from a nested
`u7_init` and may be cleared on the way. The spinlock, the arithmetic and the test runner are used by nothing
else in the library. Initializers and tests are both registered by constructor
functions: before `main`, and when a shared object is loaded at any time after.

The behaviours that are hard to test, each at its line and with the properties
that would notice it going wrong, are listed under "hazards" in
`PROJECT.json`. They are, in short: interleavings of releases and stale relaxed
loads; the order between a last use and the disposal; chains of payloads taken
apart by several threads; allocations that fail half-way through making an
error; a text that changes between two calls of `vsnprintf`; lengths at
`INT_MAX`; an init_fn that fails, registers or calls `u7_init` itself, and the
error that passes through; names that collide; tests that run tests; waiters
that spin while the holder is ready to run; wrapped intermediate results; mixed
signedness; the command line of the test runner at its end.

## The modules

    Ownership  <--implements--  Refcount                         RefcountProofs
    ErrorHeap  <--implements--  ErrorChain                       ErrorChainProofs
    InitErrors  --EXTENDS-->    Initializers                     InitializersProofs
    Mutex      <--implements--  Spinlock                         SpinlockProofs
                                ErrorMessage                     ErrorMessageProofs
                                CheckedMath                      CheckedMathProofs
                                AssertEq                         AssertEqProofs
                                TestRunner                       TestRunnerProofs

The composition InitErrors counts references to errors and does not follow
their payloads: that an operation on a `u7_error` takes and gives the references
it should is shown by ErrorChain and ErrorMessage.

`MC...` modules define what the constants are replaced by, and symmetry sets;
the other runs need neither. Operators whose comment begins with "Mutant of" are
deliberately wrong versions of the definition they name; no specification uses
them. Each stands for a plausible mistake, and replacing the definition by it
makes TLC find a violation of the property it is listed with in `PROJECT.json`:
evidence that the property says something about the code.

### Refcount

The counter under the C11 memory model. `count` is the latest value in the
modification order; read-modify-write operations act on it. A relaxed load by
`t` may return any value in `readable[t]`, the values coherence has not yet
taken from `t`. Happens-before is kept as sets of threads: `u \in seen[t]` says
that the last access of `u` to the counted object happens before what `t` does
next, `u \in rel` that it happens before whatever follows an acquire of the
latest value. A relaxed read-modify-write continues a release sequence, so it
leaves `rel` alone.

One action per atomic step: `RefcountInit`, `Increment`, `Decrement`, and
`SkewedLoad` followed by `SkewedSub` unless the load showed 1. `Use`, `Send` and
`Dispose` are what the users of the counter do: they access the object while
they own a reference, pass references on by means that synchronise, and free
the object when told to. `u7_refcount_init` is used on fresh memory only. The
C++ half of the header has the same operations and orders.

`Ownership` is the specification this implements: references with owners, no
counter, and the thread that drops the last one disposes.

### ErrorChain

Threads use variables of type `u7_error`; an error is represented by its
payload, and payloads have a counter and a cause. `Acquire`, `Move`, `Clear`,
`Errorf`, `ErrorfFail` and `ErrorfZero` are the operations; those that release
something enter the loop of `u7_error_release`, one action per shared access:
`Load` and `Sub` of the counter, `ReadCause`, which copies the cause into the local
variable `next` (`error.c:23`), and `Dispose`, which frees the payload and goes on
with that copy (`error.c:25-28`). Freed memory holds zero and `Null` in the model,
so that reading the cause too late, or again, leaks the rest of the chain. `Return` completes the caller: `u7_error_clear`
assigns no error, a failed `u7_errorf_with_cause` acquires the fallback and
returns it (`error.c:208-221`). That the skewed decrement's load may be stale
is in `Load`; that it never shows a stale 1 is what Refcount proves
(`NoStaleOne`). Which operations may be called: any, by any thread, on
any variable that no other call is about to assign to (a variable is used by
one thread at a time, and the library leaves that to its users). A variable
that holds an error is not overwritten, which `__warn_unused_result__` and C's
idiom ask for.

`ErrorHeap` is the specification this implements: no counters, and a payload
is freed when no variable leads to it, never before. The refinement mapping
keeps `live` and `cause` and hides a variable's value from the moment a call
that will overwrite it begins.

### ErrorMessage

One call of `u7_verrorf_with_cause` with its `make_payload_fn`, block by block
in the order of the code, asserts compiled out. A text is its length, a buffer
its size, the number of characters of the text it starts with, and where its
terminator is. The reads of `memchr` (`Scanned`) count as accesses to the argument
like those of `memcpy`. How often the reference to the cause is released and how
often it is stored are counted, so that doing either twice, or both, shows. Every allocation may fail, and the text may have another length
when it is formatted for the second time. The two outcomes for cause and
result are those of ErrorChain's `Errorf` and `ErrorfFail`. `MessageOf` and
`MessageLengthOf` are the accessors, applied to what the call returned.

### Initializers and InitErrors

`Initializers` has the list (`registry`), a stack of calls of `u7_init` in
progress, and what the last one returned: while an init_fn runs it may register
initializers (as loading a shared object does) or call `u7_init`. One thread,
since the code takes no lock. `late`, `executed`, `runs` and `reruns` are
history variables for the properties. Names and precedences are constants. What
the two calls of `qsort` leave is described, not computed: any order of the
collected records that the comparison allows (`IsSortedByName`, `IsSorted`). That no
name occurs twice is decided as in the code, by comparing neighbours
(`HasDuplicate`), and what this means for the whole list is a property
(`CollisionsAreRefused`). `Register` is `u7_initializer_register` as it is; that no
record is registered twice, which would make the list a cycle, is the doing of
the constructors that call it (`Construct`): each runs once.

`InitErrors` composes it with the ownership of errors. An error stands for one
reference that somebody has to give back; `hand[d]` holds those that the code at
depth d of nesting owns, the program at depth 0, the init_fn which the d-th
`u7_init` runs at depth d. `owed` holds those not yet released. That code may have
several errors in hand and do anything meanwhile: make or acquire another
(`Raise`), clear one (`Handle`), register, or call `u7_init`, which makes one of its
own when it refuses (`Refuse`) and passes on the one an init_fn returns (`Fail`).
An init_fn that returns has released whatever else it had. To make an error the
cause of another takes one reference and yields one on every path
(`CauseAccounted`), so it changes nothing here.

### Spinlock and Mutex

The flag with its acquire and release (happens-before as in Refcount), and
the backoff on a scheduler with `Cpus` processors and a queue of ready threads.
A thread leaves its processor in `sched_yield`, `nanosleep`, or its own code;
in particular a holder may lose it inside the critical section. There is no
preemption inside an operation of the lock: this makes the liveness property
harder, not easier, as spinning waiters keep their processors until the backoff
gives them up.

`Mutex` is the specification this implements: a holder, waiters, and if the
lock is free while threads wait one of them acquires it. A thread that spins,
yields or sleeps is one that waits. It also stands for the Apple variant of the
header, which forwards each operation to `os_unfair_lock`.

### CheckedMath, AssertEq, TestRunner

`CheckedMath` runs chains of operations through the C dispatch and the C++
lambda side by side, together with the exact results; the value so far may be
either operand of the next operation. `AssertEq` passes every
pair of operands through the tags and conversions of `U7_TESTING_VALUE` and
compares them, with doubles of fewer significant bits than the integers, as 53
is fewer than 64. In both, plain `char` is a type of its own and of either
signedness. The powers of two are given to the modules as constants, half the
number of values of each type in `CheckedMath` and the function `Pow2` in
`AssertEq`: the prover knows nothing of exponentiation.

`TestRunner` follows the process through every order of registration and every
command line. The frames of `u7_testing_run` form a stack: main runs the
registered tests or lists of its own, any number of times, and a test may do the
same, as the runner's own tests do with lists of theirs (`test_testing_shared.h`).
Tests may be registered before, between and during runs. The
global `u7_testing_current_name` is shared by all frames. A failing assertion
ends the process. What a command line asks for is defined a second time for
`ZeroMeansAllPassed`, as a condition on the place of each argument and not as a
loop (`IsValue`, `Filters`, `Wanted`); that the two agree is part of the property.

## The runs

| Run | Module, configuration | Shows |
|---|---|---|
| `refcount` | MCRefcount, `MCRefcount.cfg` | counting, one disposer, no stale 1, order of the fetch_sub, refinement of Ownership |
| `refcount_race` | MCRefcount, `MCRefcountRace.cfg` | finding 1 |
| `error_chain` | ErrorChain, `ErrorChain.cfg` | counters exact, nothing dangling, nothing leaked, releases end, refinement of ErrorHeap |
| `message` | ErrorMessage, `ErrorMessage.cfg` | messages whole and terminated, buffer and cause accounted for |
| `message_unterminated` | ErrorMessage, `ErrorMessageUnterminated.cfg` | finding 3 |
| `init` | MCInitErrors, `MCInitErrors.cfg` | order and meaning of success with failing, registering and nested init_fns; nothing lost; colliding names found wherever they are, and nothing but them keeps retries from executing everything; one owner of every error |
| `init_lost` | MCInitErrors, `MCInitErrorsLost.cfg` | finding 2 |
| `spinlock` | Spinlock, `Spinlock.cfg` | mutual exclusion, order, the holder finishes, refinement of Mutex (with its liveness) |
| `math` | CheckedMath, `CheckedMath.cfg` | the sticky flag, agreement of C and C++ |
| `assert_eq` | MCAssertEq, `MCAssertEq.cfg` | numbers compare as numbers |
| `test_runner` | MCTestRunner, `MCTestRunner.cfg` | result 0, order of the tests, the name a failure is reported under |
| `test_name` | MCTestRunner, `MCTestRunnerName.cfg` | finding 4 |

Deadlock is checked in every run; modules whose program ends have an action
for having ended.

### Bounds

- `refcount`: three threads, so that one can release while another is between
  its load and its fetch_sub and a third shares; an int of two bits and four
  references, so that the count passes `INT_MAX` and wraps. The proofs cover
  the rest. `refcount_race` has an int that does not wrap: the race needs two
  references only.
- `error_chain`: two threads, three variables, two payloads and the
  fallback: enough for a shared payload with two different wrappers (the
  fallback as the cause of both), chains of three, a release that frees a chain
  while the other thread acquires its tail, and the reuse of a freed address.
- `spinlock`: three threads on two processors, the smallest instance in which
  two waiters can occupy every processor while the holder is ready. The limits
  16 and 32 become 1 and 3: one round of pausing, a yield, a nap, then
  sleeping. The branches below 4 and below 16 are one branch of the model: both
  keep the processor.
- `init`: three initializers: two with the same name and different precedence,
  two with the same precedence and different names; nesting of two, two
  failures; two errors at a time, so that code which calls `u7_init` can own one
  while another is passed to it. `init_lost` has the same bounds. The two
  records of one name are first and last in the order of execution, so that only
  the sorting by name makes them neighbours.
- `message`: INT_MAX is 6 and texts have up to 8 characters, the short buffer 3:
  each path and each side of each limit is reached. `MemorySafe` and
  `MessageWhole` are about texts shorter than INT_MAX (`Representable`);
  finding 3 is about the others.
- `math`: 64, 32 and 8 become 5, 4 and 2 bits (`Half64` is 16, `Half32` 8 and
  `Half8` 2), with every operand value. Nothing in the macros depends on the
  widths but through their order, and the proofs are for all of them.
- `assert_eq`: integers of 5 and 2 bits and significands of 3; ties and rounding to
  the next power of two occur. The proofs are for all widths.
- `test_runner`: three registered tests, two of the same name, command lines
  of up to three arguments, lists of up to two with command lines of up to two
  inside a test, nesting of two. Three arguments are enough for an option taken
  as the value of the `--filter` before it, followed by another option.

### Fairness

- `Spinlock`: a thread that has a processor makes progress inside the lock;
  sleeps end; critical sections end when their thread gets a processor again
  and again (strong fairness, as it may block inside them any number of times);
  and a thread outside the lock does not keep a processor for ever. Nothing is
  assumed about who gets the lock: only that someone does is claimed, and a
  test-and-set lock promises no more.
- `ErrorChain`: a thread inside `u7_error_release` goes on. No thread needs to
  make a call. The fairness of `ErrorHeap` follows.
- `Mutex`: weak fairness of "someone acquires", which the refinement derives
  from the fairness of Spinlock.
- `InitErrors` (`Retrying`): the loop of `u7_init` goes on; an init_fn that may
  succeed again and again does so in the end; and a program that wants its
  initializers tries again. malloc succeeds in the end, and failures are bounded
  by `MaxFailures`: without this no retry has to succeed. Only `AllExecuted`
  rests on it.
- `TestRunner`, `ErrorMessage`, `CheckedMath`, `AssertEq`, `Refcount`: none.

## Findings

1. `public/refcount.h:47`: the skewed decrement answers false after a relaxed
   load of 1. The thread that is told to dispose has not synchronised with the
   one that gave up the last other reference, so `u7_error_release` frees a
   payload in a race with that thread's last read of it.
   (`refcount_race`; `AcquireWouldOrder` shows, and `AcquireSuffices` proves, that an acquire
   load is enough to repair it. `SubOrders` shows that all other disposals are ordered.)
2. `init.c:60`: an initializer registered while `u7_init` runs is dropped.
   (`init_lost`.)
3. `error.c:85`: for `"%s"` and a string of more than INT_MAX characters the
   message has no terminator (and the sum passed to memcpy overflows).
   (`message_unterminated`.)
4. `testing.c:170`: `u7_testing_run` ends by setting the current test's name to
   NULL instead of restoring it. A test that has called `u7_testing_run`, as the
   runner's own tests do, has no name for the assertions that follow, although
   "assertions fail fast and report the active test name" (`README.md:91`).
   (`test_name`; `NeverMisattributed` shows that no other test's name is reported.)

Not runs, but seen on the way: `README.md` uses `U7_ASSERT_EQ_I64`, which does
not exist; `public/testing.h:222-223` promises comparisons "without the
sign/precision surprises", while `testing.c:97-107` deliberately compares an
integer with a double in double, so that 2^53 + 1 equals 2^53. `SameNumberPasses` claims one
direction only for this reason.

## What is proved

For any set of threads, any number of references up to 2^width and any width
(`RefAssumption`, `IntMaxAssumption`), in `RefcountProofs`:

- `CountInvariant`: the inductive invariant `CountInv`, with the corollaries
  `TypeCorrect`, `CountIsExact`, `DisposerIsAlone`, `LoadedOneIsCurrent`. Neither of
  the last three is inductive alone. That a loaded 1 is current needs that the
  counter is exact, and that a thread which owns a reference has seen every
  value since it was given it; that the counter stays exact needs that nobody disposes
  while references are outstanding and that a thread between load and
  fetch_sub still owns what it releases (`InReleaseOwns`). `WrapFacts` carries the
  arithmetic modulo the width.
- `AcquireSuffices`, `FetchSubDisposalOrdered`, `PlainDisposalIsOrdered`: from
  `OrderInv`, which adds that the last access of every thread is released
  through the counter or known to an owner (`Covered`).
- `RefcountImplementsOwnership`: every step is a step of Ownership or a
  stutter, from `CountInv`. `SomeoneDisposes` follows from it.

In `SpinlockProofs`, for any threads, processors and limits: `LockExcludes` and
`LockOrders`, from the invariant that the flag is set exactly when one thread is
critical, and that while it is not set every access has been released through
it. `TypeCorrect` adds the scheduler's types to it (`SchedTypes`), with the bound of
the backoff counter, and `RefinesMutex` the safety part of `ImplementsMutex`: who
obtains the flag acquires the lock, and every other step of a waiter is a
stutter.

In `ErrorChainProofs`, for any finite sets of threads, variables and addresses,
hence for chains of any length: `TypeCorrect`, `CountsAreExact`, `NothingDangles`,
`NothingLeaks`, and `RefinesHeap`, the safety part of
`ImplementsHeap`. All come from the inductive invariant `ChainInv`. Its parts
need each other: that a counter is exact (`Counted`) and stays so when a loop
goes on to a cause needs that the cause is allocated (`NoDangling`); that a freed
payload is not pointed to needs that its counter was exact; and that nothing
leaks needs, besides exact counters, that causes form no cycle (`Acyclic`): each
payload of a cycle would be referred to by the next. Between `ReadCause` and
`Dispose` the loop's copy is still the cause of the payload (`AtPlace`), since nobody
else refers to that. Counting is done with the
library's theorems on finite sets, one reference at a time (`Plus`, `Minus`).

In `InitializersProofs`, for any finite set of initializers with any names and
precedences, any depth of nesting and any number of failures: `TypeCorrect`,
`EarlierFirst`, `NoInitializerLost`, `OkIsHonest` and `NamesAreChecked`, from the invariant
`RegistryInv`. It says of every `u7_init` in progress, not of the innermost only,
what makes the next step right when the inner ones have returned (`FrameOk`): its array is
sorted, no name is in it twice, what its loop has passed has been executed, and what the program has
registered and not yet executed is in it. Without the last part `NoneLost` is not
inductive, as the outer call drops the list at its end. That comparing
neighbours finds every collision is `NeighboursTell`: in a list sorted by name
whatever lies between two records of one name has that name too.
`RerunsHaveReasons` needs an
invariant of its own, `Budget`: the runs of an initializer, the calls in
progress whose loop has still to come to it, and one if the program can yet
begin such a call, are together at most one more than the failures and nested
calls. `CompositionImplements` makes all of this true of InitErrors, and
`ErrorsHaveOneOwner` proves `OneOwner` of it: at any depth, with any number of
errors in hand, whatever the code that holds them does.

In `ErrorMessageProofs`, for any INT_MAX, any short buffer and texts of any
length: `TypeCorrect`, `AccessesAreSafe`, `MessagesAreWhole`, `BufferIsAccounted`
and `CauseIsAccounted`, from `MessageInv`, which says from block to block what
message_length tells of the buffer: when it is not negative there is one, and
if the text is representable it holds the text and its terminator (`Lengths`,
`Whole`).

In `CheckedMathProofs`, for integer types of any size and chains of any length:
`OneCheckSuffices` and `ExpansionsAgree`. The two are one induction, resting on
`Lossless`: the representation that the C dispatch selects holds every value of
the operand, also of a plain char of either signedness.

In `AssertEqProofs`, for any widths: `IntegersCompareExactly`, because the
conversions of `U7_TESTING_VALUE` lose nothing (`ValueKept`), and
`NoFalseFailure`, because rounding is idempotent: a number that a conversion to
double yields is a multiple of its own unit in the last place, also when it was
rounded up to the next power of two (`ConvertedTwice`). The facts about powers of
two are proved from their recurrence, by least counterexamples
(`PowerProduct`, `PowerMonotonic`).

In `TestRunnerProofs`, for any tests with any names, command lines and lists of
any length and any depth of nested runs: `TypeCorrect`, `InNameOrder`,
`FailuresAreAttributed` and the action property `ZeroIsHonest`, from `RunnerInv`.
Its parts are, for every call of `u7_testing_run` in progress: the options
parsed so far are those that the arguments before this place ask for
(`ParsedTo`), and the place is not the value of a `--filter`, which is decided by
the parity of the `--filter` arguments before it (`NextIsValue`); the tests passed so far are
those that the filter selects among the ones before this place, in order (`AreAt`,
`ChosenBefore`); and the list is one of the program's own or in the order of names (`ListOk`). That
it holds every test registered at the time of the call follows by counting
(`AllSorted`). The name needs `NameOk`: while the options of a nested call are
parsed it is still that of the test around it, to which a bad option returns.

Only model-checked, since liveness under fairness and ENABLED are out of the
prover's reach: `ReleaseReturns`, `HolderFinishes`, `AllExecuted`, and the fairness of
`ErrorHeap` and `Mutex` in `ImplementsHeap` and `ImplementsMutex`, whose safety parts
`RefinesHeap` and `RefinesMutex` prove. The violations of findings 1 to 4 are TLC's.

What the proofs assume is what the modules state about their constants: finite
sets of initializers, threads and addresses, the order of the widths, the
recurrence of the powers of two, and that bounds are natural numbers. No bound
has a value in a proof.

## What is not modelled

- What is inside `os_unfair_lock` (`public/spinlock.h:12-31`): `Mutex` says what
  its operations promise.
- `u7_error_category_name`, `U7_ERROR_FMT`, the text of reports and of error
  messages, `public/optimization.h`: no state.
- Error categories other than errno: user code.
- The array of `u7_init` and its release on every return: a local buffer that
  nothing shares.
- What a record registered a second time by a direct call of
  `u7_initializer_register`, which the header calls private, does to the list.
- `U7_RETURN_IF_ERROR`: it returns an error that its caller owns.
- Compile-time rejection of operand types.
- Constructors of a shared object loaded by another thread while `u7_init`
  runs: the code takes no lock, and the model has one thread.

## Plan

Every safety property that a run checks is proved. What could follow are the
steps that the liveness arguments rest on, as far as they are safety:

1. ErrorChain: a measure that every step of a `u7_error_release` lowers and no
   other thread raises, so that `ReleaseReturns` needs the fairness only.
2. Initializers: the same for the loop of `u7_init` and `AllExecuted`.
