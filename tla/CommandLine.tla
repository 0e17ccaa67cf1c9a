------------------------------ MODULE CommandLine ------------------------------
(* The command lines that src/agent_cli.c builds: one argument appended under   *)
(* the quoting rules of the C runtime, and the sync command with its provider   *)
(* directories.  The C runtime's own reading of a command line, ParseArgs, is   *)
(* the reference they are checked against.  Strings are sequences of            *)
(* characters, of which only blanks, quotes and backslashes matter.             *)
EXTENDS Naturals, SequencesExt

CONSTANTS
    Plain,          \* the other characters
    SyncWord,       \* "sync"
    Option,         \* "--provider-dir"
    LineRoom,       \* 4096
    PairRoom        \* 64

Equals == "="
Quote == "quote"
Backslash == "backslash"
Space == "space"
Tab == "tab"
Chars == Plain \union {Quote, Backslash, Space, Tab}

\* No command line: it does not fit, or there is nothing to scan.
NoLine == <<"noLine">>

ASSUME CommandLineConstants ==
    /\ Equals \in Plain /\ {Quote, Backslash, Space, Tab, NoLine[1]} \cap Plain = {}
    /\ SyncWord \in Seq(Plain) \ {<<>>} /\ Option \in Seq(Plain) \ {<<>>}
    /\ LineRoom \in Nat /\ PairRoom \in Nat

Backslashes(n) == [i \in 1..n |-> Backslash]

-------------------------------------------------------------------------------
\* cmdline_append_arg

NeedsQuotes(arg) ==
    arg = <<>> \/ \E i \in DOMAIN arg : arg[i] \in {Space, Tab, Quote}

\* One more character of the argument: `run` backslashes stand right before it.
\* They are doubled in front of a quote, which gets one of its own.
Escape(done, ch) ==
    [text |-> done.text \o
         (IF ch = Quote THEN Backslashes(done.run + 1) ELSE <<>>) \o <<ch>>,
     run |-> IF ch = Backslash THEN done.run + 1 ELSE 0]

Escaped(arg) == FoldLeft(Escape, [text |-> <<>>, run |-> 0], arg)

\* The backslashes at the end are left as they are.
Quoted_PlainEnd(arg) == <<Quote>> \o Escaped(arg).text \o <<Quote>>

\* The backslashes before the closing quote are doubled as well.
Quoted(arg) ==
    <<Quote>> \o Escaped(arg).text \o Backslashes(Escaped(arg).run) \o <<Quote>>

\* With its terminating zero the line must fit into `cap` characters.
AppendArg(line, cap, arg) ==
    LET text == IF NeedsQuotes(arg) THEN Quoted(arg) ELSE arg
        all == IF line = <<>> THEN text ELSE line \o <<Space>> \o text
    IN  IF line = NoLine \/ Len(all) + 1 > cap THEN NoLine ELSE all

-------------------------------------------------------------------------------
\* agent_build_sync_cmdline.  A provider's directory is handed over as a pair; a
\* blank one is left out.  Room is allowed for every directory.

Pair(d) == d.provider \o <<Equals>> \o d.dir

AppendDir(line, cap, d) ==
    IF d.dir = <<>> THEN line
    ELSE AppendArg(AppendArg(line, cap, Option), cap, Pair(d))

AppendDirs(start, cap, dirs) ==
    FoldLeft(LAMBDA line, d : AppendDir(line, cap, d), start, dirs)

SyncRoom(dirs) ==
    FoldLeft(LAMBDA room, d : room + 2 * Len(d.dir) + PairRoom, LineRoom, dirs)

BuildSync(exe, dirs) ==
    LET cap == SyncRoom(dirs)
        start == AppendArg(AppendArg(<<>>, cap, exe), cap, SyncWord)
    IN  IF \A i \in DOMAIN dirs : dirs[i].dir = <<>> THEN NoLine
        ELSE AppendDirs(start, cap, dirs)

-------------------------------------------------------------------------------
\* How the C runtime of the started program splits its command line.  A run of
\* backslashes is literal unless a quote follows; then two make one, and an odd
\* one makes the quote literal.  Two quotes inside quotes are one literal quote.

ParseStart ==
    [args |-> <<>>, arg |-> <<>>, inArg |-> FALSE, quotes |-> "outside", run |-> 0]

Flushed(s) == s.arg \o Backslashes(s.run)

EndArg(s) ==
    IF s.inArg
    THEN [ParseStart EXCEPT !.args = Append(s.args, Flushed(s))]
    ELSE s

ParseQuote(s) ==
    LET half == s.arg \o Backslashes(s.run \div 2)
        next == [s EXCEPT !.inArg = TRUE, !.run = 0]
    IN  IF s.run % 2 = 1 THEN [next EXCEPT !.arg = Append(half, Quote)]
        ELSE IF s.quotes = "closed" /\ s.run = 0
             THEN [next EXCEPT !.arg = Append(half, Quote), !.quotes = "inside"]
             ELSE [next EXCEPT !.arg = half,
                       !.quotes = IF s.quotes = "inside" THEN "closed" ELSE "inside"]

ParseChar(s, ch) ==
    LET open == [s EXCEPT !.inArg = TRUE,
                     !.quotes = IF s.quotes = "inside" THEN "inside" ELSE "outside"]
    IN  CASE ch = Quote -> ParseQuote(s)
          [] ch = Backslash -> [open EXCEPT !.run = s.run + 1]
          [] ch \in {Space, Tab} /\ s.quotes # "inside" -> EndArg(s)
          [] OTHER -> [open EXCEPT !.arg = Append(Flushed(s), ch), !.run = 0]

ParseArgs(line) == EndArg(FoldLeft(ParseChar, ParseStart, line)).args
===============================================================================
