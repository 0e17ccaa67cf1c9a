------------------------------ MODULE JsonReader -------------------------------
(* The JSON reader of src/util/json.c.  A text is a sequence of symbols: the     *)
(* codes of single characters, and words, which stand for longer runs of         *)
(* ordinary characters and are greater than any code.                            *)
EXTENDS Integers, SequencesExt

CONSTANTS
    MaxU64,       \* the greatest number of json_as_u64, scaled down
    MaxDigits     \* the most digits it accepts, as many as MaxU64 has

Quote == 34
Comma == 44
Slash == 47
Colon == 58
OpenBracket == 91
Backslash == 92
CloseBracket == 93
LetterU == 117
OpenBrace == 123
CloseBrace == 125
Blanks == {9, 10, 13, 32}
Digits == 48..57
NumberCharacters == Digits \cup {43, 45, 46, 69, 101}

True == 256
False == 257
Null == 258

\* A place in a text is the index of a symbol; Fail is no place.
Fail == 0
At(text, i) == IF i \in DOMAIN text THEN text[i] ELSE 0

-------------------------------------------------------------------------------
\* Skipping

RunEnd(text, i, characters) ==
    LET end[j \in Nat] == IF At(text, j) \in characters THEN end[j + 1] ELSE j
    IN  end[i]

SkipWs(text, i) == RunEnd(text, i, Blanks)

SkipNumber(text, i) ==
    LET end == RunEnd(text, i, NumberCharacters) IN IF end > i THEN end ELSE Fail

\* Takes an escaped quote for the end of the string.
SkipString_NoEscapes(text, i) ==
    LET rest[j \in Nat] ==
            IF j > Len(text) THEN Fail
            ELSE IF text[j] = Quote THEN j + 1 ELSE rest[j + 1]
    IN  IF At(text, i) = Quote THEN rest[i + 1] ELSE Fail

\* skip_string: to the closing quote, whatever is escaped on the way.
SkipString(text, i) ==
    LET rest[j \in Nat] ==
            IF j > Len(text) THEN Fail
            ELSE IF text[j] = Backslash THEN rest[j + 2]
            ELSE IF text[j] = Quote THEN j + 1 ELSE rest[j + 1]
    IN  IF At(text, i) = Quote THEN rest[i + 1] ELSE Fail

Containers == {OpenBrace, OpenBracket}
Closing(open) == IF open = OpenBrace THEN CloseBrace ELSE CloseBracket

\* Where the value of the member starts whose key is at i.
ValueAt(text, i) ==
    LET After(colon) == IF At(text, colon) = Colon THEN SkipWs(text, colon + 1) ELSE Fail
    IN  After(SkipWs(text, SkipString(text, i)))

\* skip_value, and skip_container from any of its members: after[in, i] skips a
\* value if `in` is 0, and the rest of a container that opens with `in` if not.
SkipValue(text, start) ==
    LET after[in \in Containers \cup {0}, place \in Nat] ==
            LET Container(i, inside) ==
                    IF At(text, inside) = Closing(text[i]) THEN inside + 1
                    ELSE after[text[i], inside]
                Value(i) ==
                    CASE At(text, i) = Quote -> SkipString(text, i)
                      [] At(text, i) \in {True, False, Null} -> i + 1
                      [] At(text, i) \in Containers -> Container(i, SkipWs(text, i + 1))
                      [] OTHER -> SkipNumber(text, i)
                Rest(end) ==
                    CASE At(text, end) = Comma -> after[in, end + 1]
                      [] At(text, end) = Closing(in) -> end + 1
                      [] OTHER -> Fail
                Member(i) == after[0, IF in = OpenBrace THEN ValueAt(text, i) ELSE i]
            IN  IF in = 0 THEN Value(SkipWs(text, place))
                ELSE Rest(SkipWs(text, Member(SkipWs(text, place))))
    IN  after[0, start]

-------------------------------------------------------------------------------
\* json_obj_get: the raw value of the first member with the key.  What follows
\* that member is not looked at.

NoSlice == <<>>

\* string_equals_key: escaped forms never match.
HasKey(text, i, key) ==
    SubSeq(text, i, SkipString(text, i) - 1) = <<Quote, key, Quote>>

ObjGet(text, key) ==
    LET from[place \in Nat] ==
            LET Rest(next) == IF At(text, next) = Comma THEN from[next + 1] ELSE NoSlice
                Value(i, value, end) ==
                    IF end = Fail THEN NoSlice
                    ELSE IF HasKey(text, i, key) THEN SubSeq(text, value, end - 1)
                    ELSE Rest(SkipWs(text, end))
                Member(i, value) == Value(i, value, SkipValue(text, value))
                Key(i) == Member(i, ValueAt(text, i))
            IN  Key(SkipWs(text, place))
        Object(start) == IF At(text, start) = OpenBrace THEN from[start + 1] ELSE NoSlice
    IN  Object(SkipWs(text, 1))

BoolIsTrue(text, key) == ObjGet(text, key) = <<True>>

-------------------------------------------------------------------------------
\* json_as_u64: only digits, and no more than fits.

NoNumber == 0 - 1

AsU64(v) ==
    LET Read(n, ch) ==
            IF n = NoNumber \/ ch \notin Digits \/ n > (MaxU64 - (ch - 48)) \div 10
            THEN NoNumber
            ELSE n * 10 + (ch - 48)
    IN  IF v = NoSlice \/ Len(v) > MaxDigits THEN NoNumber ELSE FoldLeft(Read, 0, v)

-------------------------------------------------------------------------------
\* json_as_string

NoString == << 0 - 1 >>
Then(bytes, rest) == IF rest = NoString THEN NoString ELSE bytes \o rest

\* push_utf8_codepoint
Tail6(n) == 128 + (n % 64)
Utf8(cp) ==
    IF cp < 128 THEN <<cp>>
    ELSE IF cp < 2048 THEN <<192 + cp \div 64, Tail6(cp)>>
    ELSE IF cp < 65536 THEN <<224 + cp \div 4096, Tail6(cp \div 64), Tail6(cp)>>
    ELSE <<240 + cp \div 262144, Tail6(cp \div 4096), Tail6(cp \div 64), Tail6(cp)>>

\* hex_value and parse_u16_hex
HexValue ==
    [ch \in Digits |-> ch - 48] @@ [ch \in 65..70 |-> ch - 55] @@ [ch \in 97..102 |-> ch - 87]

NoUnit == 0 - 1
Hex4(text, i) ==
    IF \A j \in i..(i + 3) : At(text, j) \in DOMAIN HexValue
    THEN FoldLeft(LAMBDA n, ch : n * 16 + HexValue[ch], 0, SubSeq(text, i, i + 3))
    ELSE NoUnit

Escapes ==
    [ch \in {Quote, Backslash, Slash} |-> ch] @@
    (98 :> 8) @@ (102 :> 12) @@ (110 :> 10) @@ (114 :> 13) @@ (116 :> 9)

\* Two \u escapes that are a surrogate pair make one code point; any other one
\* stands for itself.
AsString(v) ==
    LET text == SubSeq(v, 2, Len(v) - 1)
        from[i \in Nat] ==
            LET high == Hex4(text, i + 2)
                low == IF At(text, i + 6) = Backslash /\ At(text, i + 7) = LetterU
                       THEN Hex4(text, i + 8) ELSE NoUnit
            IN  IF i > Len(text) THEN <<>>
                ELSE IF text[i] # Backslash THEN Then(<<text[i]>>, from[i + 1])
                ELSE IF At(text, i + 1) \in DOMAIN Escapes
                     THEN Then(<<Escapes[text[i + 1]]>>, from[i + 2])
                ELSE IF At(text, i + 1) # LetterU \/ high = NoUnit THEN NoString
                ELSE IF high \in 55296..56319 /\ low \in 56320..57343
                     THEN Then(Utf8(65536 + (high - 55296) * 1024 + (low - 56320)), from[i + 12])
                ELSE Then(Utf8(high), from[i + 6])
    IN  IF Len(v) < 2 \/ v[1] # Quote \/ Last(v) # Quote THEN NoString ELSE from[1]

\* The string as the C code sees it, to its first zero.  None stays none.
CString(bytes) == SubSeq(bytes, 1, RunEnd(bytes, 1, {b \in ToSet(bytes) : b # 0}) - 1)
===============================================================================
