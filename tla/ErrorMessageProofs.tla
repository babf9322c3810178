------------------------- MODULE ErrorMessageProofs -------------------------
(***************************************************************************)
(* Proofs about ErrorMessage, for any INT_MAX, any size of the short       *)
(* buffer, and texts of any length.                                        *)
(***************************************************************************)
EXTENDS ErrorMessage, TLAPS

(* The message is the text of the call, terminated, within its buffer.     *)
Whole ==
  /\ message_length = TextLength
  /\ message.nul = message_length /\ message.text >= message_length
  /\ message.size = message_length + 1 \/ message.size = kN

(* The outcome is that of a call that has ended, and the cause has been    *)
(* passed on, once, by then and only then.                                 *)
Outcome ==
  /\ pc = "done" <=> result # "none"
  /\ cause = [released |-> IF result \in {"ok", "fallback"} THEN 1 ELSE 0,
              stored |-> IF result = "payload" THEN 1 ELSE 0]

(* message points to the one buffer there is, if any.                      *)
Buffers ==
  /\ buffers = IF message = NoBuffer THEN 0 ELSE 1
  /\ pc = "start" \/ result \in {"ok", "fallback"} => message = NoBuffer

(* What the length says of the message from block to block.                *)
Lengths ==
  /\ pc = "long" =>
       /\ call.format = "other" /\ message # NoBuffer
       /\ message_length = call.length
  /\ pc = "make_payload" \/ result = "payload" =>
       (message_length >= 0 => message # NoBuffer /\ (Representable => Whole))
  /\ result = "payload" => message_length >= 0

MessageInv == TypeOK /\ Outcome /\ Buffers /\ Lengths /\ MemorySafe

-----------------------------------------------------------------------------
LEMMA CallTypes ==
  ASSUME call \in Call
  PROVE  /\ call.length \in Nat /\ call.again \in Nat
         /\ call.precision \in Int /\ call.precision >= -1 /\ call.precision =< IntMax
         /\ call.extent = call.length + 1
            \/ /\ call.extent = call.length /\ call.format = "%.*s"
               /\ call.precision \in 0 .. call.length
         /\ call.extent \in Nat
         /\ call.format # "%.*s" => call.precision = -1
<1>1. /\ call.precision \in -1 .. MaxText /\ call.length \in 0 .. MaxText
      /\ call.again \in 0 .. MaxText /\ call.extent \in 0 .. MaxText + 1
  BY DEF Call, None
<1>2. /\ call.extent = call.length + 1
         \/ /\ call.extent = call.length /\ call.format = "%.*s"
            /\ call.precision \in 0 .. call.extent
      /\ call.precision =< IntMax
      /\ call.format # "%.*s" => call.precision = -1
  BY DEF Call, None
<1> QED
  BY <1>1, <1>2, SizeAssumption

LEMMA InitMessageInv == Init => MessageInv
<1> SUFFICES ASSUME Init PROVE MessageInv
  OBVIOUS
<1>1. NoBuffer \in Buffer
  BY DEF NoBuffer, Buffer, None
<1>2. message_length \in -1 .. IntMax
  BY SizeAssumption DEF Init
<1>3. TypeOK
  BY <1>1, <1>2 DEF Init, TypeOK
<1>4. Outcome /\ Buffers /\ Lengths /\ MemorySafe
  BY DEF Init, Outcome, Buffers, Lengths, MemorySafe
<1> QED
  BY <1>3, <1>4 DEF MessageInv

(* A step to the label fail, or to make_payload with a copy of the text,   *)
(* from the start.                                                         *)
LEMMA CopyStep ==
  ASSUME MessageInv, pc = "start",
         NEW scanned \in Nat, scanned =< call.extent,
         NEW n \in 0 .. IntMax, NEW read \in Nat, NEW nul \in Nat \cup {None},
         UNCHANGED <<call, cause, result>>, message_length' = n,
         MallocFails(scanned) \/ Copied(scanned, n + 1, read, nul),
         Representable =>
           /\ n = TextLength
           /\ read >= n /\ read =< call.extent /\ read =< n + 1 /\ call.length >= n
           /\ nul = n \/ (nul = None /\ read > call.length /\ call.length = n)
  PROVE  MessageInv'
<1> USE DEF MessageInv
<1> ~(scanned > call.extent)
  BY CallTypes DEF TypeOK
<1>1. CASE MallocFails(scanned)
  BY <1>1 DEF MallocFails, TypeOK, Outcome, Buffers, Lengths, MemorySafe, Representable
<1>2. CASE Copied(scanned, n + 1, read, nul)
  <2>1. call \in Call /\ call.length \in Nat
    BY CallTypes DEF TypeOK
  <2>2. message' \in Buffer /\ message'.size = n + 1 /\ message' # NoBuffer
    BY <1>2, <2>1 DEF Copied, Buffer, None, Least, NoBuffer
  <2>3. buffers' = 1 /\ pc' = "make_payload"
    BY <1>2 DEF Copied, Buffers
  <2>4. Representable => message'.nul = n /\ message'.text >= n /\ ~fault'
    <3> SUFFICES ASSUME Representable
                 PROVE  message'.nul = n /\ message'.text >= n /\ ~fault'
      OBVIOUS
    <3>1. /\ read >= n /\ ~(read > call.extent) /\ ~(read > n + 1) /\ call.length >= n
          /\ nul = n \/ (nul = None /\ read > call.length /\ call.length = n)
      BY <2>1, CallTypes DEF TypeOK
    <3>2. ~fault /\ ~(nul >= n + 1)
      BY <3>1 DEF MemorySafe, None
    <3>3. ~fault'
      BY <1>2, <3>1, <3>2 DEF Copied
    <3> QED
      BY <1>2, <2>1, <3>1, <3>3 DEF Copied, Least, None
  <2>5. fault' \in BOOLEAN
    BY <1>2 DEF Copied
  <2>6. TypeOK'
    BY <2>2, <2>3, <2>5 DEF TypeOK
  <2>7. Representable' = Representable /\ TextLength' = TextLength
    BY DEF Representable, TextLength
  <2>8. Lengths' /\ MemorySafe'
    BY <2>2, <2>3, <2>4, <2>7 DEF Lengths, MemorySafe, Whole, Outcome
  <2> QED
    BY <2>2, <2>3, <2>6, <2>8 DEF Outcome, Buffers
<1> QED
  BY <1>1, <1>2

LEMMA EmptyFormatStep ==
  ASSUME MessageInv, EmptyFormat PROVE MessageInv'
<1>1. call.length \in Nat /\ call.extent \in Nat
  BY CallTypes DEF MessageInv, TypeOK
<1>2. TextLength = 0 /\ 0 \in 0 .. IntMax
  <2>1. TextLength = 0
    BY DEF EmptyFormat, TextLength
  <2> QED
    BY <2>1, SizeAssumption
<1>3. MallocFails(0) \/ Copied(0, 0 + 1, 0, 0)
  <2>1. 0 + 1 = 1
    OBVIOUS
  <2> QED
    BY <2>1, Zenon DEF EmptyFormat
<1>4. /\ UNCHANGED <<call, cause, result>> /\ pc = "start" /\ message_length' = 0
  BY DEF EmptyFormat
<1>5. 0 =< call.extent
  BY <1>1
<1> QED
  BY <1>1, <1>2, <1>3, <1>4, <1>5, CopyStep

LEMMA StringFormatStep ==
  ASSUME MessageInv, StringFormat PROVE MessageInv'
<1> DEFINE n == SafeStrlen(call.length, -1)
           scanned == Scanned(call.length, -1)
<1>1. call.length \in Nat /\ call.extent = call.length + 1
  BY CallTypes DEF StringFormat, MessageInv, TypeOK
<1>2. n \in 0 .. IntMax /\ (Representable => n = call.length /\ n # IntMax)
  BY <1>1, SizeAssumption DEF SafeStrlen, Least, Representable
<1>3. TextLength = call.length
  BY DEF StringFormat, TextLength
<1>4. /\ UNCHANGED <<call, cause, result>> /\ pc = "start" /\ message_length' = n
      /\ \/ MallocFails(scanned)
         \/ Copied(scanned, n + 1, n + 1, None)
         \/ n = IntMax /\ Copied(scanned, n + 1, call.extent + n + 1, None)
  BY DEF StringFormat
<1>7. scanned \in Nat /\ scanned =< call.extent
  BY <1>1, SizeAssumption DEF Scanned, Least
<1> HIDE DEF n, scanned
<1>5. CASE MallocFails(scanned) \/ Copied(scanned, n + 1, n + 1, None)
  <2>1. n + 1 \in Nat /\ None \in Nat \cup {None}
    BY <1>2
  <2>2. Representable =>
          /\ n = TextLength
          /\ n + 1 >= n /\ n + 1 =< call.extent /\ n + 1 =< n + 1 /\ call.length >= n
          /\ None = None /\ n + 1 > call.length /\ call.length = n
    BY <1>1, <1>2, <1>3
  <2> QED
    BY <1>2, <1>4, <1>5, <1>7, <2>1, <2>2, CopyStep
<1>6. CASE n = IntMax /\ Copied(scanned, n + 1, call.extent + n + 1, None)
  <2>1. call.extent + n + 1 \in Nat /\ None \in Nat \cup {None}
    BY <1>1, <1>2
  <2>2. ~Representable
    BY <1>2, <1>6
  <2> QED
    BY <1>2, <1>4, <1>6, <1>7, <2>1, <2>2, CopyStep
<1> QED
  BY <1>4, <1>5, <1>6

LEMMA PrecisionFormatStep ==
  ASSUME MessageInv, PrecisionFormat PROVE MessageInv'
<1> DEFINE n == SafeStrlen(call.length, call.precision)
           scanned == Scanned(call.length, call.precision)
<1>1. /\ call.length \in Nat /\ call.precision \in Int
      /\ call.precision >= -1 /\ call.precision =< IntMax
      /\ call.extent \in Nat /\ call.extent >= call.length
  BY CallTypes DEF MessageInv, TypeOK
<1>2. n \in 0 .. IntMax /\ n =< call.length
  BY <1>1, SizeAssumption DEF SafeStrlen, Least
<1>3. Representable => n = TextLength
  <2>1. call.length < IntMax =>
          n = IF call.precision < 0 \/ call.length =< call.precision
              THEN call.length ELSE call.precision
    BY <1>1, SizeAssumption DEF SafeStrlen, Least
  <2>2. TextLength = IF call.precision # -1 THEN Least(call.length, call.precision)
                     ELSE call.length
    BY DEF PrecisionFormat, TextLength, None
  <2> HIDE DEF n
  <2> QED
    BY <1>1, <2>1, <2>2 DEF Representable, Least
<1>4. /\ UNCHANGED <<call, cause, result>> /\ pc = "start" /\ message_length' = n
      /\ MallocFails(scanned) \/ Copied(scanned, n + 1, n, n)
  BY DEF PrecisionFormat
<1>5. scanned \in Nat /\ scanned =< call.extent
  <2>1. \/ call.extent = call.length + 1
        \/ call.extent = call.length /\ call.precision \in 0 .. call.length
    BY CallTypes DEF MessageInv, TypeOK
  <2> QED
    BY <1>1, <2>1, SizeAssumption DEF Scanned, Least
<1> HIDE DEF n, scanned
<1> QED
  BY <1>1, <1>2, <1>3, <1>4, <1>5, CopyStep

(* vsnprintf fills a buffer with as much of the text as fits.              *)
LEMMA FormattedBuffer ==
  ASSUME NEW size \in Nat \ {0}, NEW n \in Nat, Formatted(size, n)
  PROVE  /\ message' \in Buffer /\ message' # NoBuffer /\ message'.size = size
         /\ n < size => message'.nul = n /\ message'.text = n
BY DEF Formatted, Buffer, NoBuffer, Least

LEMMA ShortFormatStep ==
  ASSUME MessageInv, ShortFormat PROVE MessageInv'
<1> USE DEF MessageInv
<1>1. call.length \in Nat /\ TextLength = call.length /\ TextLength' = TextLength
  BY CallTypes DEF ShortFormat, TypeOK, TextLength
<1>2. /\ pc = "start" /\ UNCHANGED <<call, cause, result>> /\ call.format = "other"
      /\ result = "none" /\ message = NoBuffer /\ buffers = 0
  BY DEF ShortFormat, Outcome, Buffers
<1>3. CASE MallocFails(0) /\ UNCHANGED message_length
  BY <1>2, <1>3, CallTypes
  DEF MallocFails, TypeOK, Outcome, Buffers, Lengths, MemorySafe, Representable
<1>4. CASE ~(MallocFails(0) /\ UNCHANGED message_length)
  <2>1. /\ buffers' = 1 /\ Formatted(kN, call.length) /\ UNCHANGED fault
        /\ \/ pc' = "fail" /\ UNCHANGED message_length
           \/ /\ call.length =< IntMax /\ message_length' = call.length
              /\ pc' = IF call.length < kN THEN "make_payload" ELSE "long"
    BY <1>2, <1>4 DEF ShortFormat
  <2>2. /\ message' \in Buffer /\ message' # NoBuffer /\ message'.size = kN
        /\ call.length < kN => message'.nul = call.length /\ message'.text = call.length
    BY <1>1, <2>1, SizeAssumption, FormattedBuffer
  <2>3. TypeOK'
    BY <1>1, <1>2, <2>1, <2>2 DEF TypeOK
  <2>4. Lengths'
    BY <1>1, <1>2, <2>1, <2>2 DEF Lengths, Whole
  <2> QED
    BY <1>2, <2>1, <2>2, <2>3, <2>4 DEF Outcome, Buffers, MemorySafe, Representable
<1> QED
  BY <1>3, <1>4

LEMMA LongFormatStep ==
  ASSUME MessageInv, LongFormat PROVE MessageInv'
<1> USE DEF MessageInv
<1>1. /\ pc = "long" /\ UNCHANGED <<call, message_length, buffers, cause, result, fault>>
      /\ call.format = "other" /\ message # NoBuffer /\ message_length = call.length
      /\ result = "none"
  BY DEF LongFormat, Lengths, Outcome
<1>2. /\ call.length \in Nat /\ call.again \in Nat
      /\ TextLength = call.length /\ TextLength' = TextLength
  BY <1>1, CallTypes DEF TypeOK, TextLength
<1>3. CASE pc' = "fail" /\ UNCHANGED message
  BY <1>1, <1>3 DEF TypeOK, Outcome, Buffers, Lengths, MemorySafe, Representable
<1>4. CASE /\ Formatted(message_length + 1, call.again)
           /\ pc' = IF AsAnnounced THEN "make_payload" ELSE "fail"
  <2>1. /\ message' \in Buffer /\ message' # NoBuffer
        /\ message'.size = message_length + 1
        /\ AsAnnounced => message'.nul = message_length /\ message'.text = message_length
    BY <1>1, <1>2, <1>4, FormattedBuffer DEF AsAnnounced
  <2>2. TypeOK'
    BY <1>1, <1>4, <2>1 DEF TypeOK
  <2>3. Lengths'
    BY <1>1, <1>2, <1>4, <2>1 DEF Lengths, Whole
  <2> QED
    BY <1>1, <1>4, <2>1, <2>2, <2>3 DEF Outcome, Buffers, MemorySafe, Representable
<1> QED
  BY <1>3, <1>4 DEF LongFormat

(* free(message) leaves no buffer.                                         *)
LEMMA Freed ==
  ASSUME MessageInv, FreeMessage
  PROVE  message' = NoBuffer /\ buffers' = 0 /\ NoBuffer \in Buffer
BY DEF MessageInv, TypeOK, Buffers, FreeMessage, NoBuffer, Buffer, None

LEMMA NextMessageInv == MessageInv /\ [Next]_vars => MessageInv'
<1> SUFFICES ASSUME MessageInv, [Next]_vars PROVE MessageInv'
  OBVIOUS
<1> USE DEF MessageInv
<1>1. CASE ZeroCode
  BY <1>1
  DEF ZeroCode, ReleaseCause, TypeOK, Outcome, Buffers, Lengths, MemorySafe, Representable
<1>2. CASE Fail
  BY <1>2, Freed, SizeAssumption
  DEF Fail, TypeOK, Outcome, Buffers, Lengths, MemorySafe, Representable
<1>3. CASE FallbackPayload
  BY <1>3, Freed
  DEF FallbackPayload, ReleaseCause, TypeOK, Outcome, Buffers, Lengths, MemorySafe,
      Representable
<1>4. CASE NewPayload
  <2>1. cause = [released |-> 0, stored |-> 0] /\ cause' = [released |-> 0, stored |-> 1]
    BY <1>4 DEF NewPayload, StoreCause, Outcome, TypeOK
  <2> QED
    BY <1>4, <2>1
    DEF NewPayload, TypeOK, Outcome, Buffers, Lengths, MemorySafe, Representable, Whole,
        TextLength
<1>5. CASE UNCHANGED vars
  BY <1>5
  DEF vars, TypeOK, Outcome, Buffers, Lengths, MemorySafe, Representable, Whole, TextLength
<1> QED
  BY <1>1, <1>2, <1>3, <1>4, <1>5, EmptyFormatStep, StringFormatStep,
     PrecisionFormatStep, ShortFormatStep, LongFormatStep
  DEF Next, Done

LEMMA MessageInvariant == Spec => []MessageInv
BY InitMessageInv, NextMessageInv, PTL DEF Spec

-----------------------------------------------------------------------------
(* Types; in particular there is never more than one message buffer, and   *)
(* message_length, an int, is never more than INT_MAX.                     *)
THEOREM TypeCorrect == Spec => []TypeOK
BY MessageInvariant, PTL DEF MessageInv

(* u7_verrorf_with_cause stays inside its buffer, and inside the string    *)
(* argument, on every path and for texts of any length below INT_MAX.      *)
THEOREM AccessesAreSafe == Spec => []MemorySafe
BY MessageInvariant, PTL DEF MessageInv

(* What u7_error_message and u7_error_message_length return after a call   *)
(* belongs together, and is the whole text of the call or the fallback.    *)
THEOREM MessagesAreWhole == Spec => []MessageWhole
<1>1. MessageInv => MessageWhole
  <2> SUFFICES ASSUME MessageInv, Representable, pc = "done"
               PROVE  /\ MessageOf.nul = MessageLengthOf
                      /\ MessageOf.text >= MessageLengthOf
                      /\ MessageOf.size = MessageLengthOf + 1 \/ MessageOf.size = kN
                      /\ result = "payload" => MessageLengthOf = TextLength
    BY DEF MessageWhole
  <2>1. result \in {"ok", "payload", "fallback"}
    BY DEF MessageInv, TypeOK, Outcome
  <2>2. CASE result = "payload"
    BY <2>2 DEF MessageInv, Lengths, Whole, MessageOf, MessageLengthOf
  <2>3. CASE result \in {"ok", "fallback"}
    BY <2>3 DEF MessageOf, MessageLengthOf, Literal
  <2> QED
    BY <2>1, <2>2, <2>3
<1> QED
  BY <1>1, MessageInvariant, PTL

(* Whichever allocation or formatting fails, the buffer of the message is  *)
(* freed exactly once, or is that of the payload.                          *)
THEOREM BufferIsAccounted == Spec => []BufferAccounted
<1>1. MessageInv => BufferAccounted
  BY DEF MessageInv, TypeOK, Outcome, Buffers, Lengths, BufferAccounted
<1> QED
  BY <1>1, MessageInvariant, PTL

(* Whichever fails, the reference to the cause is used up exactly once:    *)
(* released and not stored, or stored in the payload and not released.     *)
THEOREM CauseIsAccounted == Spec => []CauseAccounted
<1>1. MessageInv => CauseAccounted
  BY DEF MessageInv, TypeOK, Outcome, CauseAccounted
<1> QED
  BY <1>1, MessageInvariant, PTL
=============================================================================
