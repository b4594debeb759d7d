----------------------------- MODULE Base64Decode -----------------------------
(***************************************************************************)
(* base64_decode as it runs: the length it allocates, the accumulator that *)
(* is shifted digit by digit, the bytes it writes.                         *)
(***************************************************************************)
EXTENDS Base64

CONSTANT AccumulatorBits   \* 32

ASSUME AccumulatorAssumption ==
  AccumulatorBits \in Nat /\ AccumulatorBits >= DigitBits + ByteBits - 1

VARIABLES
  pc,               \* "idle" when it is not running
  input,
  i,
  accumulator,
  bits_collected,
  decoded_len,
  decoded           \* the bytes written so far

decoder == <<pc, input, i, accumulator, bits_collected, decoded_len, decoded>>

DecoderInit ==
  /\ pc = "idle" /\ input = <<>> /\ i = 0 /\ accumulator = 0
  /\ bits_collected = 0 /\ decoded_len = 0 /\ decoded = <<>>

Call(text) ==
  /\ pc' = "start" /\ input' = text /\ i' = 0 /\ accumulator' = 0
  /\ bits_collected' = 0 /\ decoded_len' = 0 /\ decoded' = <<>>

\* Mutant: the length is not tested.
Start_AnyLength ==
  /\ pc = "start"
  /\ pc' \in {"loop", "nomem"} /\ decoded_len' = DecodedLen(input)
  /\ UNCHANGED <<input, i, accumulator, bits_collected, decoded>>

\* The length test and the allocation, which may fail.
Start ==
  /\ pc = "start"
  /\ \/ pc' = "null" /\ Len(input) % 4 # 0 /\ UNCHANGED decoded_len
     \/ pc' \in {"loop", "nomem"} /\ Len(input) % 4 = 0 /\ decoded_len' = DecodedLen(input)
  /\ UNCHANGED <<input, i, accumulator, bits_collected, decoded>>

\* One turn of the loop.
NextDigit ==
  /\ pc = "loop" /\ i < Len(input)
  /\ LET c == input[i + 1]
         acc == (accumulator * 2^DigitBits + DigitOf(c)) % 2^AccumulatorBits
         bits == bits_collected + DigitBits
     IN IF c = Bad
        THEN pc' = "null" /\ UNCHANGED <<i, accumulator, bits_collected, decoded>>
        ELSE /\ i' = i + 1 /\ accumulator' = acc /\ UNCHANGED pc
             /\ IF bits >= ByteBits
                THEN /\ bits_collected' = bits - ByteBits
                     /\ decoded' = Append(decoded, Field(acc, bits - ByteBits, ByteBits))
                ELSE bits_collected' = bits /\ UNCHANGED decoded
  /\ UNCHANGED <<input, decoded_len>>

\* The NUL goes to decoded_len, over a byte that '=' has produced if any.
Terminate ==
  /\ pc = "loop" /\ i = Len(input)
  /\ pc' = "done"
  /\ decoded' = [j \in 1 .. Len(decoded) \cup {decoded_len + 1} |->
                  IF j = decoded_len + 1 THEN 0 ELSE decoded[j]]
  /\ UNCHANGED <<input, i, accumulator, bits_collected, decoded_len>>

base64_decode == Start \/ NextDigit \/ Terminate

\* free(decoded), when the caller has what it wanted.
Free ==
  /\ pc \in {"done", "null", "nomem"}
  /\ pc' = "idle" /\ input' = <<>> /\ i' = 0 /\ accumulator' = 0
  /\ bits_collected' = 0 /\ decoded_len' = 0 /\ decoded' = <<>>

-----------------------------------------------------------------------------
\* Properties

\* Types: no number leaves its width and no index the text, and the bytes
\* written are those of the allocation, decoded_len and the NUL's; only a text
\* that ends in two '=' has one byte more.
DecoderTypeOK ==
  /\ pc \in {"idle", "start", "loop", "done", "null", "nomem"}
  /\ input \in Seq(Symbol) /\ i \in 0 .. Len(input)
  /\ accumulator \in 0 .. 2^AccumulatorBits - 1
  /\ bits_collected \in 0 .. ByteBits - 1
  /\ decoded_len \in 0 .. 3 * (Len(input) \div 4)
  /\ decoded \in Seq(Byte)
  /\ Len(decoded) <= decoded_len + (IF PaddingOf(input) = 2 THEN 2 ELSE 1)

\* The loop computes the decoding of the whole text, with an accumulator that
\* overflows on the way, and refuses exactly the texts that have none.
LoopDecodes ==
  /\ pc = "done" => Decodes(input) /\ SubSeq(decoded, 1, decoded_len) = Decoded(input)
  /\ pc = "null" => ~Decodes(input)
=============================================================================
