-------------------------------- MODULE Seeding --------------------------------
(* Whether the CLI in the program's resources replaces the installed one         *)
(* (agent_bootstrap in src/agent_cli.c): the reading and comparing of versions   *)
(* and the unpacking of the gzip member (src/util/inflate.c).                    *)
EXTENDS Integers, SequencesExt

CONSTANTS
    UnsignedSize,     \* 2^32, scaled down
    TextSize          \* the 64 bytes for a version, with the zero that ends it

ASSUME SeedingConstants == UnsignedSize \in Nat \ {0} /\ TextSize \in Nat \ {0}

Blanks == {9, 10, 13, 32}
Digits == 48..57
Point == 46
LetterV == 118
Decoration == {43, 45}      \* + and -

At(text, i) == IF i \in DOMAIN text THEN text[i] ELSE 0

\* The first place from i on that is none of the characters, and all that are.
SkipAll(text, i, characters) ==
    Min({j \in i..(Len(text) + 1) : At(text, j) \notin characters})

PlacesOf(text, i, characters) == {j \in i..Len(text) : text[j] \in characters}

-------------------------------------------------------------------------------
\* parse_version3, version_less and update_semverish

NoVersion == <<>>

\* An unsigned of the build, which wraps.
Unsigned(digits) ==
    FoldLeft(LAMBDA n, ch : (n * 10 + (ch - 48)) % UnsignedSize, 0, digits)

\* The digits of the part that begins at place i, and where the next part begins:
\* behind the next dot, whatever stands before it.
DigitsAt(text, i) == SubSeq(text, i, SkipAll(text, i, Digits) - 1)

NoPlace == 0
NextPart(text, i) ==
    LET dots == PlacesOf(text, SkipAll(text, i, Digits), {Point})
    IN  IF i = NoPlace \/ dots = {} THEN NoPlace ELSE Min(dots) + 1

ParseVersion3(text) ==
    LET start == SkipAll(text, 1, Blanks)
        first == IF At(text, start) = LetterV THEN start + 1 ELSE start
        second == NextPart(text, first)
        third == NextPart(text, second)
        parts == <<DigitsAt(text, first), DigitsAt(text, second), DigitsAt(text, third)>>
    IN  IF \/ NoPlace \in {second, third} \/ <<>> \in ToSet(parts)
           \/ NextPart(text, third) # NoPlace
        THEN NoVersion
        ELSE [k \in 1..3 |-> Unsigned(parts[k])]

\* Any part that is less makes the version less.
VersionLess_AnyPart(a, b) == \E i \in 1..3 : a[i] < b[i]

VersionLess(a, b) ==
    \E i \in 1..3 : a[i] < b[i] /\ \A j \in 1..(i - 1) : a[j] = b[j]

Truncated(version) ==
    IF Len(version) < TextSize THEN version ELSE SubSeq(version, 1, TextSize - 1)

Undecorated(version) ==
    LET cuts == PlacesOf(version, 1, Decoration)
    IN  IF cuts = {} THEN version ELSE SubSeq(version, 1, Min(cuts) - 1)

Semverish(version) == ParseVersion3(Undecorated(Truncated(version))) # NoVersion

-------------------------------------------------------------------------------
\* gzip_header and gzip_inflate.  The flags byte is a set here; a byte of the
\* DEFLATE data is a stream that holds the number it is.

Flags == {"extra", "name", "comment", "crc"}
NoOffset == 0 - 1

\* Each part of the header ends before `limit`, or there is none; pos counts the
\* bytes before it, as an offset in C does.

SkipExtra(src, pos, limit) ==
    IF "extra" \notin src[4] THEN pos
    ELSE IF limit - pos < 2 THEN NoOffset
    ELSE LET end == pos + 2 + src[pos + 1] + 256 * src[pos + 2]
         IN  IF end > limit THEN NoOffset ELSE end

SkipText(src, flag, pos, limit) ==
    LET zeros == {i \in (pos + 1)..limit : src[i] = 0}
    IN  IF pos = NoOffset \/ flag \notin src[4] THEN pos
        ELSE IF zeros = {} THEN NoOffset ELSE Min(zeros)

SkipCrc(src, pos, limit) ==
    IF pos = NoOffset \/ "crc" \notin src[4] THEN pos
    ELSE IF limit - pos < 2 THEN NoOffset ELSE pos + 2

HeaderEnd(src, limit) ==
    SkipCrc(src, SkipText(src, "comment", SkipText(src, "name",
            SkipExtra(src, 10, limit), limit), limit), limit)

Magic(src) == Len(src) >= 18 /\ SubSeq(src, 1, 3) = <<31, 139, 8>>

\* The header ends before the trailer and leaves room for data.
GzipHeader(src) ==
    IF ~Magic(src) THEN NoOffset
    ELSE LET pos == HeaderEnd(src, Len(src) - 8)
         IN  IF pos >= Len(src) - 8 THEN NoOffset ELSE pos

NoContent == <<>>

\* tinfl_decompress_mem_to_heap: what the stream at the start of the data holds.
Inflated(data) == IF data # <<>> /\ data[1] \in Nat THEN <<data[1]>> ELSE NoContent

\* The CRC of the content, here the content itself, and its length.
Trailer(content) == [i \in 1..4 |-> content[1]] \o <<Len(content), 0, 0, 0>>

GzipInflate(src) ==
    LET offset == GzipHeader(src)
        content == Inflated(SubSeq(src, offset + 1, Len(src) - 8))
    IN  IF offset = NoOffset \/ content = NoContent THEN NoContent
        ELSE IF SubSeq(src, Len(src) - 7, Len(src)) = Trailer(content)
             THEN content ELSE NoContent

-------------------------------------------------------------------------------
\* agent_bootstrap.  `answer` is what the installed CLI prints for its version, if
\* it does in time; a resource that is missing is an empty text.

Newer(bundled, answer) ==
    LET current == ParseVersion3(answer)
    IN  current # NoVersion => VersionLess(current, bundled)

Seed(bundledText, present, answer, payload) ==
    LET bundled == ParseVersion3(bundledText)
    IN  IF \/ Len(bundledText) >= TextSize \/ bundled = NoVersion
           \/ present /\ ~Newer(bundled, answer)
        THEN NoContent ELSE GzipInflate(payload)
===============================================================================
