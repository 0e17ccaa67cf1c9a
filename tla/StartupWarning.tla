---------------------------- MODULE StartupWarning -----------------------------
(* How much of what a failed CLI prints reaches the user: the bytes run_cmdline  *)
(* keeps (src/agent_cli.c), cut to whole characters by utf8_truncate_chars       *)
(* (src/util/wstr.c), and again for the balloon of a failed start (src/ui/ui.c). *)
(* A byte is the width of the UTF-8 character it starts, a dot or a continuation.*)
EXTENDS Integers, SequencesExt

CONSTANTS
    DetailChars,      \* AGENT_DETAIL_CHARS
    WarningChars      \* 160, the characters of the balloon

ASSUME StartupWarningConstants ==
    WarningChars \in Nat /\ DetailChars \in Nat /\ 4 <= WarningChars /\ WarningChars < DetailChars

Widths == 1..4      \* of characters, in bytes
Dot == 5
Continuation == 0

IsStart(byte) == byte # Continuation

Starts(s) == {i \in DOMAIN s : IsStart(s[i])}

\* The place of the character with the given number, from zero.
StartOf(s, number) ==
    CHOOSE i \in Starts(s) : Cardinality({j \in Starts(s) : j < i}) = number

\* Cuts after so many bytes, whatever characters they belong to.
TruncateChars_Bytes(s, max) ==
    IF max < 4 \/ Len(s) <= max THEN s
    ELSE SubSeq(s, 1, max - 3) \o <<Dot, Dot, Dot>>

\* utf8_truncate_chars: the last three characters kept give way to the dots.
TruncateChars(s, max) ==
    IF max < 4 \/ Cardinality(Starts(s)) <= max THEN s
    ELSE SubSeq(s, 1, StartOf(s, max - 3) - 1) \o <<Dot, Dot, Dot>>

\* The detail's buffer has four bytes for a character, one of them for the zero.
DetailOf(stderr) ==
    TruncateChars(SubSeq(stderr, 1, IF Len(stderr) > 4 * DetailChars - 1
                                    THEN 4 * DetailChars - 1 ELSE Len(stderr)),
                  DetailChars)

WarningOf(stderr) == TruncateChars(DetailOf(stderr), WarningChars)

-------------------------------------------------------------------------------
\* The bytes of a text of characters of the given widths.

Encoded(char) ==
    IF char = Dot THEN <<Dot>> ELSE <<char>> \o [i \in 1..(char - 1) |-> Continuation]

Encode(chars) == FlattenSeq([i \in DOMAIN chars |-> Encoded(chars[i])])
===============================================================================
