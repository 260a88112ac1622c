----------------------------- MODULE ServiceIds -----------------------------
(***************************************************************************)
(* Service ids and their three written forms (address/serviceid.go,        *)
(* address/address.go).  A UUID is a sequence of UUIDLen bytes, a string a *)
(* sequence of one-character strings.                                      *)
(***************************************************************************)
EXTENDS Integers, SequencesExt, Outcome

CONSTANTS
    UUIDLen,                    \* 16
    hyphenPositions             \* {8, 13, 18, 23}: offsets, from 0

ErrInvalid == Err("ErrInvalidServiceID")

NewACI(uuid) == [kind |-> 0, uuid |-> uuid]
NewPNI(uuid) == [kind |-> 1, uuid |-> uuid]

ServiceIDFixedWidthBinary(s) == <<s.kind>> \o s.uuid

ServiceIDBinary(s) == IF s.kind = 0 THEN s.uuid ELSE ServiceIDFixedWidthBinary(s)

ParseServiceIDFixedWidthBinary(b) ==
    CASE b[1] = 0 -> Ok(NewACI(Tail(b)))
      [] b[1] = 1 -> Ok(NewPNI(Tail(b)))
      [] OTHER    -> ErrInvalid

\* By length; a tagged ACI is refused, so that every id has one binary form.
ParseServiceIDBinary(b) ==
    LET fixed == ParseServiceIDFixedWidthBinary(b)
    IN IF Len(b) = UUIDLen THEN Ok(NewACI(b))
       ELSE IF Len(b) = UUIDLen + 1 /\ fixed.ok /\ fixed.value.kind # 0 THEN fixed
       ELSE ErrInvalid

-----------------------------------------------------------------------------
\* The string form

lowerHex == <<"0", "1", "2", "3", "4", "5", "6", "7", "8", "9",
              "a", "b", "c", "d", "e", "f">>
upperHex == <<"0", "1", "2", "3", "4", "5", "6", "7", "8", "9",
              "A", "B", "C", "D", "E", "F">>

hexVals(c) == {i - 1 : i \in {j \in 1..16 : c \in {lowerHex[j], upperHex[j]}}}
hexVal(c)  == CHOOSE v \in hexVals(c) : TRUE

hyphenatedUUIDLen == 2 * UUIDLen + Cardinality(hyphenPositions)

\* The offsets of the hex digits, in order.
DigitAt == SetToSortSeq((0..hyphenatedUUIDLen - 1) \ hyphenPositions, <)

formatUUID(uuid) ==
    [i \in 1..hyphenatedUUIDLen |->
        IF i - 1 \in hyphenPositions THEN "-"
        ELSE LET n    == CHOOSE k \in DOMAIN DigitAt : DigitAt[k] = i - 1
                 byte == uuid[(n + 1) \div 2]
             IN lowerHex[1 + (IF n % 2 = 1 THEN byte \div 16 ELSE byte % 16)]]

parseHyphenatedUUID(s) ==
    LET Digit(n) == s[DigitAt[n] + 1]
    IN IF \/ Len(s) # hyphenatedUUIDLen
          \/ \E p \in hyphenPositions : s[p + 1] # "-"
          \/ \E n \in 1..2 * UUIDLen : hexVals(Digit(n)) = {}
       THEN ErrInvalid
       ELSE Ok([i \in 1..UUIDLen |-> hexVal(Digit(2*i - 1)) * 16 + hexVal(Digit(2*i))])

PniPrefix == <<"P", "N", "I", ":">>

ServiceIDString(s) == (IF s.kind = 0 THEN <<>> ELSE PniPrefix) \o formatUUID(s.uuid)

ParseServiceIDString(input) ==
    LET pni  == IsPrefix(PniPrefix, input)
        uuid == parseHyphenatedUUID(IF pni THEN SubSeq(input, 5, Len(input)) ELSE input)
    IN IF ~uuid.ok THEN ErrInvalid
       ELSE Ok(IF pni THEN NewPNI(uuid.value) ELSE NewACI(uuid.value))

\* Compare: the order of the fixed-width forms, byte by byte.
Compare(s, other) ==
    LET a     == ServiceIDFixedWidthBinary(s)
        b     == ServiceIDFixedWidthBinary(other)
        diff  == {i \in DOMAIN a : a[i] # b[i]}
        first == CHOOSE i \in diff : \A j \in diff : i <= j
    IN IF diff = {} THEN 0 ELSE IF a[first] < b[first] THEN -1 ELSE 1

=============================================================================
