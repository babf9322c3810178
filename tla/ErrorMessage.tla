---------------------------- MODULE ErrorMessage ----------------------------
(***************************************************************************)
(* One call of u7_verrorf_with_cause and of the make_payload function it   *)
(* ends with (error.c, asserts compiled out): how the message is made on   *)
(* each path, and what becomes of its buffer and of the cause when an      *)
(* allocation or the formatting fails.                                     *)
(*                                                                         *)
(* A text is known by its length.  A buffer is known by its size, by how   *)
(* many characters of the text it starts with, and by where its zero       *)
(* terminator is.                                                          *)
(***************************************************************************)
EXTENDS Integers

CONSTANTS
  IntMax,   (* INT_MAX                                                    *)
  kN,       (* 128: the size of the buffer for a short message            *)
  MaxText   (* bound: the length of a text                                *)

ASSUME SizeAssumption ==
  /\ IntMax \in Nat /\ kN \in Nat \ {0} /\ kN =< IntMax
  /\ MaxText \in Nat

None == -1            (* no terminator; no precision *)
NoBuffer == [size |-> 0, text |-> 0, nul |-> None]

(* What a caller may pass.  length is where the terminator of the string   *)
(* argument is, or how long the formatted text is; of an array without     *)
(* terminator (extent = length) the precision is at most the extent, as    *)
(* printf demands.  again is the length when the text is formatted for the *)
(* second time: it differs if an argument's target changed meanwhile.      *)
Call ==
  {c \in [error_code : {0, 1},
          format : {"", "%s", "%.*s", "other"},
          precision : None .. MaxText,
          length : 0 .. MaxText,
          again : 0 .. MaxText,
          extent : 0 .. MaxText + 1] :
     /\ c.extent = c.length + 1
        \/ /\ c.extent = c.length /\ c.format = "%.*s"
           /\ c.precision \in 0 .. c.extent
     /\ c.precision =< IntMax
     /\ c.format # "%.*s" => c.precision = None
     /\ c.format # "other" => c.again = c.length}

VARIABLES
  call,            (* the arguments                                       *)
  pc,              (* the block that is next                              *)
  message,         (* the buffer message points to, or NoBuffer           *)
  message_length,  (* the local variable                                  *)
  buffers,         (* message buffers allocated and not freed             *)
  cause,           (* what has been done with the reference to the cause: *)
                   (* how often it was released, and stored in a payload  *)
  result,          (* what the call returns                               *)
  fault            (* an access outside an array has happened             *)

vars == <<call, pc, message, message_length, buffers, cause, result, fault>>

Least(m, n) == IF m =< n THEN m ELSE n

-----------------------------------------------------------------------------
Init ==
  /\ call \in Call
  /\ pc = "start"
  /\ message = NoBuffer
  /\ message_length = -1
  /\ buffers = 0
  /\ cause = [released |-> 0, stored |-> 0]
  /\ result = "none"
  /\ fault = FALSE

(* u7_safe_strlen(str, maxlen) for a string whose terminator is at length: *)
(* memchr looks at no more than INT_MAX characters.                        *)
SafeStrlen(length, maxlen) == Least(length, IF maxlen < 0 THEN IntMax ELSE maxlen)

(* Mutant of Scanned: a scan for the terminator, as strlen does it.        *)
ScannedAll(length, maxlen) == length + 1

(* How many characters of the string the memchr of u7_safe_strlen reads:   *)
(* it stops behind the terminator, or after maxlen of them.                *)
Scanned(length, maxlen) ==
  Least(length + 1, IF maxlen < 0 THEN IntMax ELSE maxlen)

(* malloc failed before there was a buffer, and after scanned characters   *)
(* of the argument were read.                                              *)
MallocFails(scanned) ==
  /\ fault' = (fault \/ scanned > call.extent)
  /\ pc' = "fail"
  /\ UNCHANGED <<message, buffers>>

(* malloc gave size bytes, then read bytes of the argument were copied and *)
(* a terminator was written at nul, unless nul is None.                    *)
Copied(scanned, size, read, nul) ==
  /\ message' = [size |-> size,
                 text |-> Least(read, call.length),
                 nul |-> IF nul # None THEN nul
                         ELSE IF read > call.length THEN call.length ELSE None]
  /\ buffers' = buffers + 1
  /\ fault' = (\/ fault \/ scanned > call.extent
               \/ read > call.extent \/ read > size \/ nul >= size)
  /\ pc' = "make_payload"

(* Mutant of FreeMessage: the pointer is kept.                             *)
FreeMessageDangling ==
  /\ buffers' = IF message = NoBuffer THEN buffers ELSE buffers - 1
  /\ UNCHANGED message

(* Mutant of FreeMessage: the pointer is only reset.                       *)
FreeMessageReset == message' = NoBuffer /\ UNCHANGED buffers

(* free(message), which may be NULL; nothing refers to it afterwards.      *)
FreeMessage ==
  /\ buffers' = IF message = NoBuffer THEN buffers ELSE buffers - 1
  /\ message' = NoBuffer

(* u7_error_release(cause).                                                *)
ReleaseCause == cause' = [cause EXCEPT !.released = @ + 1]

(* The sanity check: error code 0 yields no error.                         *)
ZeroCode ==
  /\ pc = "start" /\ call.error_code = 0
  /\ ReleaseCause
  /\ result' = "ok"
  /\ pc' = "done"
  /\ UNCHANGED <<call, message, message_length, buffers, fault>>

(* format = "".                                                            *)
EmptyFormat ==
  /\ pc = "start" /\ call.error_code # 0 /\ call.format = ""
  /\ message_length' = 0
  /\ MallocFails(0) \/ Copied(0, 1, 0, 0)
  /\ UNCHANGED <<call, cause, result>>

(* format = "%s".  The size passed to memcpy is an int sum; for a string   *)
(* of INT_MAX characters or more it overflows.  Of what the build may do   *)
(* then: add in size_t, as malloc's argument does, or convert the negative *)
(* sum and read far outside the string.                                    *)
StringFormat ==
  /\ pc = "start" /\ call.error_code # 0 /\ call.format = "%s"
  /\ LET n == SafeStrlen(call.length, -1)
         scanned == Scanned(call.length, -1)
     IN
       /\ message_length' = n
       /\ \/ MallocFails(scanned)
          \/ Copied(scanned, n + 1, n + 1, None)
          \/ n = IntMax /\ Copied(scanned, n + 1, call.extent + n + 1, None)
  /\ UNCHANGED <<call, cause, result>>

(* format = "%.*s".                                                        *)
PrecisionFormat ==
  /\ pc = "start" /\ call.error_code # 0 /\ call.format = "%.*s"
  /\ LET n == SafeStrlen(call.length, call.precision)
         scanned == Scanned(call.length, call.precision)
     IN
       /\ message_length' = n
       /\ MallocFails(scanned) \/ Copied(scanned, n + 1, n, n)
  /\ UNCHANGED <<call, cause, result>>

(* vsnprintf of a text of n characters into size bytes.                    *)
Formatted(size, n) ==
  message' = [size |-> size, text |-> Least(n, size - 1), nul |-> Least(n, size - 1)]

(* Any other format, first into kN bytes.  vsnprintf fails when its result *)
(* is not an int, and may fail otherwise.                                  *)
ShortFormat ==
  /\ pc = "start" /\ call.error_code # 0 /\ call.format = "other"
  /\ \/ MallocFails(0) /\ UNCHANGED message_length
     \/ /\ buffers' = buffers + 1
        /\ Formatted(kN, call.length)
        /\ \/ /\ pc' = "fail"
              /\ UNCHANGED message_length
           \/ /\ call.length =< IntMax
              /\ message_length' = call.length
              /\ pc' = IF call.length < kN THEN "make_payload" ELSE "long"
        /\ UNCHANGED fault
  /\ UNCHANGED <<call, cause, result>>

(* Mutant of AsAnnounced: the result of the second vsnprintf is trusted.   *)
AsAnnouncedAssumed == TRUE

(* n == message_length: the text did not change between the two calls.     *)
AsAnnounced == call.again = message_length

(* Again, into a buffer of the right size.  A failed realloc leaves the    *)
(* old one.  At INT_MAX the int sum overflows; adding in size_t and        *)
(* converting a negative sum, which realloc refuses, are both covered.     *)
LongFormat ==
  /\ pc = "long"
  /\ \/ pc' = "fail" /\ UNCHANGED message
     \/ /\ Formatted(message_length + 1, call.again)
        /\ pc' = IF AsAnnounced THEN "make_payload" ELSE "fail"
  /\ UNCHANGED <<call, message_length, buffers, cause, result, fault>>

(* Mutant of Fail: gives up the cause too, which make_payload releases.    *)
FailReleases ==
  /\ pc = "fail"
  /\ FreeMessage
  /\ ReleaseCause
  /\ message_length' = -1
  /\ pc' = "make_payload"
  /\ UNCHANGED <<call, result, fault>>

(* The label fail.                                                         *)
Fail ==
  /\ pc = "fail"
  /\ FreeMessage
  /\ message_length' = -1
  /\ pc' = "make_payload"
  /\ UNCHANGED <<call, cause, result, fault>>

(* u7_errno_category_make_payload_fn without a message, or without memory  *)
(* for the payload: it frees the message, releases the cause and acquires  *)
(* the fallback.                                                           *)
FallbackPayload ==
  /\ pc = "make_payload"
  /\ FreeMessage
  /\ ReleaseCause
  /\ result' = "fallback"
  /\ pc' = "done"
  /\ UNCHANGED <<call, message_length, fault>>

(* The cause is stored in the new payload.                                 *)
StoreCause == cause' = [cause EXCEPT !.stored = @ + 1]

(* The same with both: the payload takes over the message and the cause.   *)
NewPayload ==
  /\ pc = "make_payload" /\ message_length >= 0
  /\ StoreCause
  /\ result' = "payload"
  /\ pc' = "done"
  /\ UNCHANGED <<call, message, message_length, buffers, fault>>

(* A string literal of n characters.                                       *)
Literal(n) == [size |-> n + 1, text |-> n, nul |-> n]

(* u7_error_message of the result: "ok" and "<u7_error:fail>" are static.  *)
MessageOf ==
  CASE result = "ok" -> Literal(2)
    [] result = "fallback" -> Literal(15)
    [] result = "payload" -> message

(* u7_error_message_length of the result.                                  *)
MessageLengthOf ==
  CASE result = "ok" -> 2
    [] result = "fallback" -> 15
    [] result = "payload" -> message_length

(* The call has returned.                                                  *)
Done == pc = "done" /\ UNCHANGED vars

Next ==
  \/ ZeroCode \/ EmptyFormat \/ StringFormat \/ PrecisionFormat
  \/ ShortFormat \/ LongFormat \/ Fail \/ FallbackPayload \/ NewPayload \/ Done

Spec == Init /\ [][Next]_vars

-----------------------------------------------------------------------------
(* Properties.                                                             *)

Buffer == [size : Nat, text : Nat, nul : Nat \cup {None}]

(* Every variable has its type.                                            *)
TypeOK ==
  /\ call \in Call
  /\ pc \in {"start", "long", "fail", "make_payload", "done"}
  /\ message \in Buffer
  /\ message_length \in -1 .. IntMax
  /\ buffers \in {0, 1}
  /\ cause \in [released : Nat, stored : Nat]
  /\ result \in {"none", "ok", "payload", "fallback"}
  /\ fault \in BOOLEAN

(* The int length of a message and its terminator can be represented.      *)
Representable == call.length < IntMax

(* No path reads outside the string argument, be it to find its end or to  *)
(* copy it, though it need not be terminated when it has a precision; and  *)
(* no path writes outside the buffer.                                      *)
MemorySafe == Representable => ~fault

(* The length the message of the call ought to have.                       *)
TextLength ==
  CASE call.format = "" -> 0
    [] call.format = "%.*s" /\ call.precision # None ->
         Least(call.length, call.precision)
    [] OTHER -> call.length

(* What the accessors return belongs together: the message is a string,    *)
(* zero terminated at its length.  That of a payload is the whole text on  *)
(* every path: fast, short, long, and when the text changes between the    *)
(* two calls of vsnprintf.                                                 *)
MessageWhole ==
  Representable /\ pc = "done" =>
    /\ MessageOf.nul = MessageLengthOf
    /\ MessageOf.text >= MessageLengthOf
    /\ MessageOf.size = MessageLengthOf + 1 \/ MessageOf.size = kN
    /\ result = "payload" => MessageLengthOf = TextLength

(* Whatever fails, the message buffer ends up in the payload or freed.     *)
BufferAccounted ==
  pc = "done" => buffers = IF result = "payload" THEN 1 ELSE 0

(* The reference to the cause is used up exactly once, whichever of the    *)
(* paths through fail and make_payload is taken: it is stored in the new   *)
(* payload and not released, or released and not stored.  These are the    *)
(* two outcomes of Errorf and ErrorfFail in ErrorChain.                    *)
CauseAccounted ==
  pc = "done" => cause = IF result = "payload" THEN [released |-> 0, stored |-> 1]
                         ELSE [released |-> 1, stored |-> 0]

(* A message is zero terminated.                                           *)
Terminated == result = "payload" => message.nul = message_length
=============================================================================
