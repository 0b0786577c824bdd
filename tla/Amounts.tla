------------------------------ MODULE Amounts -------------------------------
(***************************************************************************)
(* Exact fixed-point amounts: crates/statechronicle-core/src/amount.rs. An *)
(* amount is a mantissa of bounded width and a scale, the number of its    *)
(* fractional digits; a string is a sequence of digits and other marks.    *)
(* The base and the width are parameters: nothing here depends on ten or   *)
(* on 128 bits.                                                            *)
(***************************************************************************)
EXTENDS Integers, Sequences, SequencesExt

CONSTANTS Base,         \* the base of the digits
          MaxMantissa,  \* u128::MAX
          MaxScale,     \* MAX_SCALE
          MaxDigits,    \* MAX_MANTISSA_DIGITS, the digits of MaxMantissa
          Invalid       \* no amount: None or an error

Point == -1  \* the one mark of a string that is not a digit

Amount(mantissa, scale) == [mantissa |-> mantissa, scale |-> scale]

(* from_mantissa                                                           *)
FromMantissa(mantissa, scale) == IF scale > MaxScale THEN Invalid ELSE Amount(mantissa, scale)
AllAmounts == {FromMantissa(m, s) : m \in 0 .. MaxMantissa, s \in 0 .. MaxScale}

(* checked_rescale: one digit at a time, and only up.                      *)
CheckedRescale(amount, scale) ==
    LET grown == amount.mantissa * Base ^ (scale - amount.scale) IN
    IF scale < amount.scale \/ grown > MaxMantissa THEN Invalid ELSE Amount(grown, scale)

Larger(x, y) == IF x > y THEN x ELSE y

(* checked_add                                                             *)
CheckedAdd(a1, a2) ==
    LET scale == Larger(a1.scale, a2.scale)
        left == CheckedRescale(a1, scale)
        right == CheckedRescale(a2, scale)
    IN IF left = Invalid \/ right = Invalid THEN Invalid
       ELSE IF left.mantissa + right.mantissa > MaxMantissa THEN Invalid
       ELSE Amount(left.mantissa + right.mantissa, scale)

(* Variant: the operands are not aligned.                                  *)
CheckedSubUnaligned(a1, a2) ==
    IF a1.mantissa < a2.mantissa THEN Invalid
    ELSE Amount(a1.mantissa - a2.mantissa, Larger(a1.scale, a2.scale))

(* checked_sub                                                             *)
CheckedSub(a1, a2) ==
    LET scale == Larger(a1.scale, a2.scale)
        left == CheckedRescale(a1, scale)
        right == CheckedRescale(a2, scale)
    IN IF left = Invalid \/ right = Invalid THEN Invalid
       ELSE IF left.mantissa < right.mantissa THEN Invalid
       ELSE Amount(left.mantissa - right.mantissa, scale)

(* The decimal string of an integer, as u128::to_string writes it.         *)
Digits[n \in 0 .. MaxMantissa] ==
    IF n < Base THEN <<n>> ELSE Digits[n \div Base] \o <<n % Base>>

Zeros(n) == [i \in 1 .. n |-> 0]

(* decimal_digits: the integer part, and a fraction of scale digits.       *)
DecimalDigits(amount) ==
    LET digits == Digits[amount.mantissa]  whole == Len(digits) - amount.scale IN
    IF whole > 0 THEN [int |-> SubSeq(digits, 1, whole), frac |-> SubSeq(digits, whole + 1, Len(digits))]
    ELSE [int |-> <<0>>, frac |-> Zeros(-whole) \o digits]

TrimStart(s) ==
    LET kept == {i \in 1 .. Len(s) : \E j \in 1 .. i : s[j] # 0} IN
    SubSeq(s, Len(s) - Cardinality(kept) + 1, Len(s))

TrimEnd(s) == Reverse(TrimStart(Reverse(s)))

(* The order of two digit strings of one length.                           *)
CmpDigits(s, t) ==
    LET differ == {i \in 1 .. Len(s) : s[i] # t[i]} IN
    IF differ = {} THEN "equal"
    ELSE LET i == CHOOSE i \in differ : \A j \in differ : i <= j IN
         IF s[i] < t[i] THEN "less" ELSE "greater"

(* cmp_unsigned: by the length of the integer parts, by their digits, and  *)
(* by the fractions, the shorter one filled with zeros. Nothing is         *)
(* multiplied, so nothing overflows.                                       *)
CmpUnsigned(d1, d2) ==
    LET int1 == TrimStart(d1.int)  int2 == TrimStart(d2.int)
        width == Larger(Len(d1.frac), Len(d2.frac))
        pad(frac) == frac \o Zeros(width - Len(frac))
    IN IF Len(int1) # Len(int2) THEN (IF Len(int1) < Len(int2) THEN "less" ELSE "greater")
       ELSE IF int1 # int2 THEN CmpDigits(int1, int2)
       ELSE CmpDigits(pad(d1.frac), pad(d2.frac))

(* Ord, and equality from it.                                              *)
Cmp(a1, a2) == CmpUnsigned(DecimalDigits(a1), DecimalDigits(a2))

(* min                                                                     *)
MinAmount(a1, a2) == IF Cmp(a1, a2) = "less" THEN a1 ELSE a2

(* try_from_str: digits only, no more than fit, no point.                  *)
TryFromStr(text) ==
    LET value == FoldLeft(LAMBDA m, d : m * Base + d, 0, text) IN
    IF Len(text) > MaxDigits \/ text = <<>> \/ (\E i \in DOMAIN text : text[i] = Point) THEN Invalid
    ELSE IF value > MaxMantissa THEN Invalid ELSE Amount(value, 0)

(* to_canonical_string, format_fixed: trailing zeros of the fraction are   *)
(* dropped, and the point with them.                                       *)
ToCanonicalString(amount) ==
    LET d == DecimalDigits(amount)  frac == TrimEnd(d.frac) IN
    IF frac = <<>> THEN d.int ELSE d.int \o <<Point>> \o frac
-----------------------------------------------------------------------------
(* The reference: an amount counted in units of the finest scale.          *)
Units(amount) == amount.mantissa * Base ^ (MaxScale - amount.scale)

(* The largest scale of two amounts at which both still fit.               *)
Aligns(a1, a2) ==
    LET finest == Base ^ (MaxScale - Larger(a1.scale, a2.scale)) IN
    Larger(Units(a1), Units(a2)) <= MaxMantissa * finest

ExactPair(a1, a2) ==
    LET sum == CheckedAdd(a1, a2)  rest == CheckedSub(a1, a2)
        order == Cmp(a1, a2)
    IN /\ order = "less" <=> Units(a1) < Units(a2)
       /\ order = "equal" <=> Units(a1) = Units(a2)
       /\ Units(MinAmount(a1, a2)) = (IF Units(a1) < Units(a2) THEN Units(a1) ELSE Units(a2))
       /\ sum # Invalid => Units(sum) = Units(a1) + Units(a2)
       /\ rest # Invalid => Units(rest) = Units(a1) - Units(a2)
       /\ rest = Invalid <=> order = "less" \/ ~Aligns(a1, a2)
       /\ sum # Invalid => CheckedSub(sum, a2) # Invalid /\ Cmp(CheckedSub(sum, a2), a1) = "equal"
       /\ ToCanonicalString(a1) = ToCanonicalString(a2) <=> order = "equal"

ExactOne(amount) ==
    LET parsed == TryFromStr(ToCanonicalString(amount)) IN
    IF Units(amount) % Base ^ MaxScale = 0
    THEN parsed # Invalid /\ Cmp(parsed, amount) = "equal"
    ELSE parsed = Invalid

AllExact == /\ \A amount \in AllAmounts : ExactOne(amount)
            /\ \A a1, a2 \in AllAmounts : ExactPair(a1, a2)
=============================================================================
