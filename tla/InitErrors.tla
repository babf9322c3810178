----------------------------- MODULE InitErrors -----------------------------
(***************************************************************************)
(* The composition of Initializers with the ownership of errors: u7_init   *)
(* makes errors of its own, and returns those of the init_fns, which may   *)
(* themselves stem from a nested u7_init.                                  *)
(*                                                                         *)
(* What matters here of an error is the reference to it, which somebody    *)
(* has to give back: whether it is to a payload of its own, a shared one   *)
(* or the fallback is the business of ErrorChain.  In particular to make   *)
(* it the cause of another one takes one reference and yields one, whether *)
(* that succeeds or not (ErrorMessage!CauseAccounted), and leaves as many  *)
(* as there were.                                                          *)
(*                                                                         *)
(* The code at each depth of nesting (the program at depth 0, at depth d   *)
(* the init_fn that the d-th u7_init runs) may have several errors in hand *)
(* and do anything meanwhile: register, call u7_init, return.              *)
(***************************************************************************)
EXTENDS Initializers

CONSTANT Error   (* bound: the references to errors there are at a time    *)

VARIABLES
  hand,  (* the errors that the code at each depth owns                    *)
  owed   (* the errors that are to be given back by u7_error_release       *)

errors == <<hand, owed>>
allVars == <<vars, errors>>

-----------------------------------------------------------------------------
InitAll ==
  /\ Init
  /\ hand = [depth \in 0 .. MaxDepth |-> {}]
  /\ owed = {}

(* The code at the current depth is given a reference, to an error that is *)
(* new or to one that others have too.  Which of the free ones stands for  *)
(* it makes no difference.                                                 *)
Gain ==
  /\ owed # Error
  /\ LET e == CHOOSE x \in Error : x \notin owed IN
       /\ hand' = [hand EXCEPT ![Depth] = @ \cup {e}]
       /\ owed' = owed \cup {e}

(* The program or an init_fn makes or acquires an error, or clears one.    *)
Raise == UserCode /\ Gain /\ UNCHANGED vars

Handle(e) ==
  /\ UserCode /\ e \in hand[Depth]
  /\ hand' = [hand EXCEPT ![Depth] = @ \ {e}]
  /\ owed' = owed \ {e}
  /\ UNCHANGED vars

(* u7_init makes an error of its own, and returns it.                      *)
Refuse == InitRefused /\ Gain

(* The init_fn returns, and has released what it does not return.          *)
Succeed ==
  /\ InitFnOk
  /\ hand' = [hand EXCEPT ![Depth] = {}]
  /\ owed' = owed \ hand[Depth]

(* Mutant of ReturnError: u7_init releases the error that it returns.      *)
ReturnErrorReleased(e) ==
  /\ hand' = [hand EXCEPT ![Depth] = {}, ![Depth - 1] = @ \cup {e}]
  /\ owed' = owed \ hand[Depth]

(* The error of the init_fn, which has released any others, becomes one of *)
(* the code that called u7_init, next to those it had before.              *)
ReturnError(e) ==
  /\ hand' = [hand EXCEPT ![Depth] = {}, ![Depth - 1] = @ \cup {e}]
  /\ owed' = owed \ (hand[Depth] \ {e})

Fail == InitFnFails /\ \E e \in hand[Depth] : ReturnError(e)

(* The rest of u7_init and the constructors leave all errors alone.        *)
Proceed ==
  /\ \/ InitEmpty \/ InitStart \/ CallInitFn \/ InitEnd
     \/ \E r \in Record : Construct(r)
  /\ UNCHANGED errors

NextAll ==
  \/ Raise \/ Refuse \/ Succeed \/ Fail \/ Proceed
  \/ \E e \in Error : Handle(e)

SpecAll == InitAll /\ [][NextAll]_allVars

(* The loop of u7_init goes on; an init_fn ends, whatever it tries, and    *)
(* so does a program that wants its initializers try u7_init again; and    *)
(* what can succeed (an init_fn, malloc) in the end does.                  *)
Retrying ==
  /\ WF_allVars(CallInitFn /\ UNCHANGED errors)
  /\ WF_allVars(InitEnd /\ UNCHANGED errors)
  /\ SF_allVars(Succeed)
  /\ SF_allVars(InitStart /\ UNCHANGED errors)

FairSpecAll == SpecAll /\ Retrying

-----------------------------------------------------------------------------
Owners(e) == {d \in 0 .. MaxDepth : e \in hand[d]}

(* Each error that is still to be released is owned once, by code that is  *)
(* still running, however many u7_init calls it has been passed through;   *)
(* and one that was released is owned by nobody.  So an error leaks only   *)
(* if the program forgets it, and is released twice only by the program.   *)
OneOwner ==
  \A e \in Error :
    IF e \in owed THEN \E d \in 0 .. Depth : Owners(e) = {d} ELSE Owners(e) = {}
=============================================================================
