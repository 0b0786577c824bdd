--------------------------- MODULE PortableCodec ----------------------------
(***************************************************************************)
(* The canonical encoding of crates/statechronicle-portable/src/codec.rs:  *)
(* an encoder over a buffer of fixed capacity and a decoder, both of which *)
(* stop at their first error (the ? of the callers).                       *)
(*                                                                         *)
(* A byte is a group of bits and a continuation bit. Group is the number   *)
(* of values of a group (2^7 in the code), Groups how many of them a       *)
(* length may take (5), LastGroup the number of values of the last of them *)
(* (2^4), and IntBytes the bytes of an integer (4).                        *)
(***************************************************************************)
EXTENDS Naturals, Sequences, FiniteSets, SequencesExt

CONSTANTS Group, Groups, LastGroup, IntBytes

Byte == 0 .. 2 * Group - 1
Int32 == 0 .. (2 * Group) ^ IntBytes - 1

(* A length is an integer of the same width as a field.                    *)
ASSUME CodecAssumption ==
    /\ {Group, Groups, LastGroup, IntBytes} \subseteq Nat \ {0}
    /\ Group ^ (Groups - 1) * LastGroup = (2 * Group) ^ IntBytes

Ok == "ok"

(* uleb_bytes: groups from the lowest up, all but the last one marked.     *)
UlebBytes(value) ==
    LET count == CHOOSE n \in 1 .. Groups :
                     value < Group ^ n /\ \A m \in 1 .. n - 1 : value >= Group ^ m
    IN [i \in 1 .. count |->
            ((value \div Group ^ (i - 1)) % Group) + (IF i < count THEN Group ELSE 0)]

(* to_le_bytes, from_le_bytes                                              *)
LittleEndian(value) == [i \in 1 .. IntBytes |-> (value \div (2 * Group) ^ (i - 1)) % (2 * Group)]
FromLittleEndian(bytes) == FoldRight(LAMBDA byte, sum : sum * 2 * Group + byte, bytes, 0)
-----------------------------------------------------------------------------
(* Encoder *)

NewEncoder(capacity) == [written |-> <<>>, capacity |-> capacity, error |-> Ok]
Stop(state, error) == [state EXCEPT !.error = error]

(* fixed: all of the bytes or none.                                        *)
Fixed(out, bytes) ==
    IF out.error # Ok THEN out
    ELSE IF Len(out.written) + Len(bytes) > out.capacity THEN Stop(out, "Capacity")
    ELSE [out EXCEPT !.written = @ \o bytes]

Boolean(out, value) == Fixed(out, <<IF value THEN 1 ELSE 0>>)
U32(out, value) == Fixed(out, LittleEndian(value))
Uleb(out, value) == Fixed(out, UlebBytes(value))

(* bytes: the room for prefix and value is asked for before either is      *)
(* written.                                                                *)
Bytes(out, value) ==
    IF out.error # Ok THEN out
    ELSE IF Len(value) \notin Int32 THEN Stop(out, "Overflow")
    ELSE IF Len(out.written) + Len(UlebBytes(Len(value))) + Len(value) > out.capacity
    THEN Stop(out, "Capacity")
    ELSE Fixed(Fixed(out, UlebBytes(Len(value))), value)
-----------------------------------------------------------------------------
(* Decoder *)

NewDecoder(bytes) == [remaining |-> bytes, value |-> <<>>, error |-> Ok]
Yield(in, value) == IF in.error # Ok THEN in ELSE [in EXCEPT !.value = value]

Finish(in) == IF in.error = Ok /\ in.remaining # <<>> THEN Stop(in, "Trailing") ELSE in

TakeFixed(in, count) ==
    IF in.error # Ok THEN in
    ELSE IF count > Len(in.remaining) THEN Stop(in, "Truncated")
    ELSE [in EXCEPT !.value = SubSeq(in.remaining, 1, count),
                    !.remaining = SubSeq(in.remaining, count + 1, Len(in.remaining))]

TakeBoolean(in) ==
    LET byte == TakeFixed(in, 1) IN
    IF byte.error = Ok /\ byte.value[1] \notin {0, 1} THEN Stop(byte, "NonCanonical")
    ELSE Yield(byte, byte.value = <<1>>)

TakeU32(in) ==
    LET field == TakeFixed(in, IntBytes) IN Yield(field, FromLittleEndian(field.value))

(* The groups of a length, up to the first byte without a mark.            *)
TakeGroups(in) ==
    LET room == IF Len(in.remaining) < Groups THEN Len(in.remaining) ELSE Groups
        ends == {i \in 1 .. room : in.remaining[i] < Group}
        count == CHOOSE i \in ends : \A j \in ends : i <= j
    IN IF in.error # Ok THEN in
       ELSE IF ends # {} THEN TakeFixed(in, count)
       ELSE Stop(in, IF room < Groups THEN "Truncated" ELSE "Overflow")

UlebValue(bytes) == FoldRight(LAMBDA byte, sum : sum * Group + (byte % Group), bytes, 0)

(* uleb: the last group may not carry more bits than fit, and is zero only *)
(* when it is the only one.                                                *)
TakeUleb(in) ==
    LET taken == TakeGroups(in)
        count == Len(taken.value)
    IN IF taken.error # Ok THEN taken
       ELSE IF count = Groups /\ taken.value[count] >= LastGroup THEN Stop(taken, "Overflow")
       ELSE IF count > 1 /\ taken.value[count] = 0 THEN Stop(taken, "NonCanonical")
       ELSE Yield(taken, UlebValue(taken.value))

TakeBytes(in, maximum) ==
    LET length == TakeUleb(in) IN
    IF length.error = Ok /\ length.value > maximum THEN Stop(length, "Capacity")
    ELSE TakeFixed(length, length.value)
-----------------------------------------------------------------------------
(* What the primitives promise, over every input of a few bytes.           *)

RoundTrips(value) ==
    LET length == TakeUleb(NewDecoder(UlebBytes(value)))
        field == TakeU32(NewDecoder(LittleEndian(value)))
    IN /\ length.error = Ok /\ length.value = value /\ Finish(length).error = Ok
       /\ field.error = Ok /\ field.value = value /\ Finish(field).error = Ok

(* A length or a sequence that is accepted is the only encoding of what it *)
(* decodes to; one that is refused is the encoding of nothing.             *)
OneEncoding(input, maximum) ==
    LET length == TakeUleb(NewDecoder(input))
        item == TakeBytes(NewDecoder(input), maximum)
        out == Bytes(NewEncoder(Len(input)), item.value)
    IN /\ length.error = Ok => UlebBytes(length.value) \o length.remaining = input
       /\ item.error = Ok =>
             out.error = Ok /\ out.written \o item.remaining = input /\ Len(item.value) <= maximum

(* "Each primitive write either succeeds completely or leaves the cursor   *)
(* and buffer unchanged": a sequence too, which is two writes.             *)
WritesAreAtomic(value, capacity) ==
    LET out == Bytes(NewEncoder(capacity), value) IN
    IF out.error = Ok THEN TakeBytes(NewDecoder(out.written), Len(value)).value = value
    ELSE out.written = <<>>

CodecIsCanonical(inputs, capacities) ==
    /\ \A value \in Int32 : RoundTrips(value)
    /\ \A input \in inputs, c \in capacities : OneEncoding(input, c) /\ WritesAreAtomic(input, c)
=============================================================================
