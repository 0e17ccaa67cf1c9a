-------------------------------- MODULE MCParts --------------------------------
(* Parts over bounded inputs, and the function whose reference is how these      *)
(* inputs are made: Answers, of texts that mean something.  The calls of the CLI *)
(* are one more part a behaviour may be about.                                   *)
EXTENDS Parts, MCCliCalls

CONSTANT MaxLength    \* bound on the length of a directory's name

-------------------------------------------------------------------------------
\* Command lines: two directories to scan.

MCPlain == {"a", Equals}
MCSyncWord == <<"a">>
MCOption == <<"a", "a">>

Words == UNION {[1..n -> {"a", Quote, Backslash, Space, Tab}] : n \in 0..MaxLength}
Directories == [provider : {<<"a">>}, dir : Words]
Lines == [part : {"line"}, exe : {<<"a", Backslash, "a", Space, "a">>},
          dirs : Directories \X Directories]

-------------------------------------------------------------------------------
\* Provider directories: one provider like Claude, one like Goose and one like
\* Copilot, whose variable names a file.

MCTable == {
    [name |-> "claude", envSuffix |-> <<>>, trimProjects |-> TRUE,
     defaults |-> << <<"home", "claude">>, <<"config", "claude">> >>],
    [name |-> "goose", envSuffix |-> <<"db">>, trimProjects |-> FALSE,
     defaults |-> << <<"home", "goose", "db">> >>],
    [name |-> "copilot", envSuffix |-> <<>>, trimProjects |-> FALSE,
     defaults |-> << <<"home", "otel">> >>]}

NoEnv == [n \in {p.name : p \in MCTable} |-> Unset]

Tops == {<<"home">>, <<"config">>, <<"work">>}
Places == {<<"home", "claude">>, <<"config", "claude">>, <<"work", "projects">>,
           <<"home", "goose">>, <<"home", "otel">>}
FilePlaces == {<<"home", "goose", "db">>, <<"work", "db">>, <<"home", "otel">>}

FileSystems ==
    {f \in {[dirs |-> Tops \union d, files |-> e] :
                d \in SUBSET Places, e \in SUBSET FilePlaces} : FileSystem(f)}

\* The user sets nothing, or a list with a blank entry, for Claude and Goose.
Environments ==
    {[NoEnv EXCEPT !["claude"] = c, !["goose"] = g] :
        c \in {Unset, << <<>>, <<"work", "projects">> >>,
               << <<"home", "claude">>, <<"work", "projects">> >>, << <<>> >>},
        g \in {Unset, << <<"work">>, <<"home", "goose">> >>}}

\* What is left when some of it has been removed.
Remains(f) ==
    {g \in {[dirs |-> d, files |-> f.files \intersect e] :
                d \in {f.dirs \ x : x \in SUBSET (Places \intersect f.dirs)},
                e \in {f.files, {}}} : FileSystem(g)}

Scans ==
    UNION {[part : {"scan"}, env : Environments, fs : {f}, left : Remains(f)] :
               f \in FileSystems}

-------------------------------------------------------------------------------
\* Answers: an update answer has its five members, in this order or in reverse,
\* and one that is to be skipped, before or after any of them.  Each value is
\* paired with what it means.

Json == INSTANCE Answers WITH MaxU64 <- 255, MaxDigits <- 3

Q == <<Json!Quote>>
W(n) == 400 + n                       \* words without a meaning here
Means(text, meaning) == [text |-> text, means |-> meaning]

AvailableValues ==
    {Means(<<Json!True>>, "yes"), Means(<<Json!False>>, "no"),
     Means(Q \o <<Json!True>> \o Q, "unclear")}
VersionValues == {Means(Q \o <<W(1)>> \o Q, <<W(1)>>), Means(<<Json!Null>>, Json!NoString)}

\* "\/" and a word; nothing; and a surrogate pair.
Emoji == <<Json!Backslash, 117, 100, 56, 51, 68, Json!Backslash, 117, 68, 69, 48, 48>>
UrlValues ==
    {Means(Q \o <<Json!Backslash, Json!Slash, W(2)>> \o Q, <<Json!Slash, W(2)>>),
     Means(Q \o Q, <<>>),
     Means(Q \o Emoji \o Q, <<240, 159, 152, 128>>)}

SizeValues ==
    {Means(<<50, 53, 53>>, 255), Means(<<50, 53, 54>>, 0), Means(<<45, 49>>, 0),
     Means(<<48, 49, 50>>, 12)}

\* The digest "bc", in two spellings, and one that is cut by a zero.
DigestValues ==
    {Means(Q \o <<32, 310, 66, 99>> \o Q, <<98, 99>>), Means(Q \o <<98, 99>> \o Q, <<98, 99>>),
     Means(Q \o <<98, Json!Backslash, 117, 48, 48, 48, 48, 99>> \o Q, <<98>>),
     Means(<<Json!Null>>, <<>>)}

\* A string that looks like members, an object and a list that do, and empty ones.
Decoys ==
    {Q \o <<Json!Backslash, 34, 44, Json!Backslash, 34, Json!Version, Json!Backslash, 34, 58,
            Json!CloseBrace, Json!Backslash, Json!Backslash>> \o Q,
     <<Json!OpenBrace>> \o Q \o <<Json!Version>> \o Q \o <<58>> \o Q \o <<W(9)>> \o Q \o
        <<44>> \o Q \o <<Json!Available>> \o Q \o <<58, Json!False, Json!CloseBrace>>,
     <<Json!OpenBracket, Json!OpenBrace>> \o Q \o <<Json!Url>> \o Q \o
        <<58, Json!OpenBracket, Json!CloseBracket, Json!CloseBrace, 44>> \o Q \o
        <<Json!CloseBracket>> \o Q \o <<44, 45, 49, 46, 53, Json!CloseBracket>>,
     <<Json!OpenBrace, 32, Json!CloseBrace>>}

Keys == <<Json!Available, Json!Version, Json!Url, Json!Size, Json!Sha256>>
MemberText(key, text, blank) ==
    blank \o Q \o <<key>> \o Q \o blank \o <<Json!Colon>> \o blank \o text \o blank

Joined(texts) ==
    FoldLeft(LAMBDA all, t : IF all = <<>> THEN t ELSE all \o <<Json!Comma>> \o t, <<>>, texts)

AnswerText(a) ==
    LET members == [i \in 1..5 |-> MemberText(Keys[i], a.values[i].text, a.blank)]
        decoy == MemberText(W(0), a.decoy, a.blank)
    IN  a.blank \o <<Json!OpenBrace>> \o
            Joined(InsertAt(IF a.reversed THEN Reverse(members) ELSE members, a.place, decoy))
            \o <<Json!CloseBrace>>

AnswerMeans(a) ==
    LET v == [i \in 1..5 |-> a.values[i].means]
    IN  CASE v[1] = "no" -> [result |-> "up to date"]
          [] v[1] = "yes" /\ v[2] # Json!NoString /\ v[3] # <<>> ->
                [result |-> "available", version |-> v[2], url |-> v[3], size |-> v[4],
                 digest |-> v[5]]
          [] OTHER -> [result |-> "failed"]

WholeAnswers ==
    [part : {"answer"},
     values : AvailableValues \X VersionValues \X UrlValues \X SizeValues \X DigestValues,
     decoy : Decoys, place : {1, 3, 6}, reversed : {FALSE}, blank : {<<>>}, cut : {0}]

\* One offer in every layout, whole and cut off anywhere.
Typical ==
    << Means(<<Json!True>>, "yes"), Means(Q \o <<W(1)>> \o Q, <<W(1)>>),
       Means(Q \o <<W(2)>> \o Q, <<W(2)>>), Means(<<50, 53>>, 25),
       Means(Q \o <<98, 99>> \o Q, <<98, 99>>) >>
CutAnswers ==
    [part : {"answer"}, values : {Typical}, decoy : Decoys, place : 1..6,
     reversed : BOOLEAN, blank : {<<>>, <<32, 10>>}, cut : 0..100]

\* What the CLI prints, blanks around it or not, and the settings that are saved.
CliValues == {<<Json!True>>, <<Json!False>>, <<Json!Null>>}
CliOutputs == [part : {"cli"}, ok : CliValues, valid : CliValues, decoy : Decoys, blank : {<<>>, <<13, 10>>}]
CliText(c) ==
    c.blank \o <<Json!OpenBrace>> \o
        Joined(<<MemberText(W(0), c.decoy, c.blank), MemberText(Json!Ok, c.ok, <<>>),
                 MemberText(Json!Valid, c.valid, c.blank)>>)
        \o <<Json!CloseBrace>> \o c.blank

SavedFlags == [part : {"settings"}, tracking : BOOLEAN, automatic : BOOLEAN]

\* What the CLI prints for the dashboard, and the base URL the user has set.
Addresses ==
    [part : {"address"},
     printed : {<<>>, <<13, 10>>, <<32, 312, W(3), 10>>, <<311, W(3)>>, <<W(3)>>},
     base : {<<>>, <<32>>, <<47, 47>>, <<9, 312, W(4), 47, 47, 32>>, <<311, W(4), 47, W(5)>>}]

-------------------------------------------------------------------------------
\* What a failed CLI prints, and the versions and the payload of the resources.

Complaints ==
    [part : {"complaint"}, chars : UNION {[1..n -> Widths] : n \in 0..6}]

VersionParts == {1, 9, 10}
DigitsOf(n) == IF n < 10 THEN <<48 + n>> ELSE <<48 + n \div 10, 48 + (n % 10)>>
Spelled(v, before, after) ==
    before \o DigitsOf(v[1]) \o <<46>> \o DigitsOf(v[2]) \o <<46>> \o DigitsOf(v[3]) \o after

\* "v" in front, a suffix behind, and what is no version: nothing, two parts, four;
\* one with a part between, and one that has more than fits behind its suffix, or
\* before it.
Spellings == {<< <<>>, <<>> >>, << <<32, 118>>, <<45, 114, 49>> >>}
Nonsense == {<<>>, <<49, 46, 50>>, <<49, 46, 50, 46, 51, 46, 52>>, <<100, 101, 118>>}
Versions ==
    {[means |-> v, text |-> Spelled(v, s[1], s[2])] :
        v \in VersionParts \X VersionParts \X VersionParts, s \in Spellings}
    \cup {[means |-> <<>>, text |-> t] : t \in Nonsense}
    \cup {[means |-> <<9, 10, 1>>, text |-> <<57, 45, 114, 46, 49, 48, 97, 46, 49>>],
          [means |-> <<9, 1, 1>>, text |-> Spelled(<<9, 1, 1>>, <<>>, <<43, 49, 49, 49, 49, 49, 49>>)],
          [means |-> <<>>, text |-> Spelled(<<9, 1, 1>>, <<>>, <<48, 48, 48, 48, 48, 48, 46, 49>>)]}

\* The payload with any parts of a header, cut off anywhere.
PlainPayload ==
    [flags |-> {}, extra |-> <<>>, name |-> <<>>, comment |-> <<>>, crc |-> <<7, 7>>,
     content |-> 77, cut |-> 0]
Payloads ==
    [flags : SUBSET Flags, extra : {<<>>, <<0, 3>>}, name : {<<>>, <<9, 9>>},
     comment : {<<>>}, crc : {<<7, 7>>}, content : {77}, cut : 0..16]

Bundles ==
    [part : {"seed"}, present : BOOLEAN, bundled : Versions, answer : Versions,
     payload : {PlainPayload}]
    \cup [part : {"seed"}, present : {FALSE},
          bundled : {[means |-> <<9, 1, 1>>, text |-> Spelled(<<9, 1, 1>>, <<>>, <<>>)]},
          answer : {[means |-> <<>>, text |-> <<>>]}, payload : Payloads]

-------------------------------------------------------------------------------
\* Downloads of the build <<1, 2>>, whose size and digest may be published, from
\* a server that may answer with anything, to a disk that may be full.

Build == <<1, 2>>

\* A named host, this computer by name and by number, and a host whose name has a
\* first label that is a number.
Hosts == {<<300, 301>>, Localhost, <<127, 0, 0, 1>>, <<127, 301>>}
MCUrls == [scheme : {"http"}, host : Hosts] \cup [scheme : {"https"}, host : {<<300, 301>>}]

Downloads ==
    [part : {"download"},
     update : [size : {0, Len(Build)}, digest : {<<>>, Build}, url : MCUrls],
     transfer : Transfers(UNION {[1..n -> {1, 2}] : n \in 0..3}, {0, 200, 404}),
     disk : [room : {0, 1, 3}, hashes : 0..4]]

\* All the inputs

MCInputs ==
    Lines \cup Scans \cup WholeAnswers \cup CutAnswers \cup CliOutputs \cup SavedFlags
    \cup Addresses \cup Complaints \cup Bundles \cup Downloads

-------------------------------------------------------------------------------
\* The behaviours: of Parts, where no call is made, and of the calls, where the
\* desktop rests.

CallsInput == [part |-> "calls"]

MCInit ==
    /\ CallsInit
    /\ PartsInit \/ (Init /\ entry = NoEntry /\ input = CallsInput)

MCNext ==
    \/ input # CallsInput /\ PartsNext /\ UNCHANGED callVars
    \/ input = CallsInput /\ CallsNext /\ UNCHANGED <<vars, input>>

MCSpec == MCInit /\ [][MCNext]_<<vars, input, callVars>> /\ Fairness

-------------------------------------------------------------------------------
\* Properties

ReadAs(read, means) ==
    IF means.result = "available"
    THEN read.result = "available" /\ [read EXCEPT !.digest = Json!NormalizeDigest(@)] = means
    ELSE read = means
ReadInPart(read, means) ==
    \/ read.result = "failed"
    \/ /\ read.result = "available" /\ read.version = means.version
       /\ read.url = means.url /\ read.digest \in {means.digest, <<>>}

\* An update answer means what its own members say, whatever unknown members,
\* escapes and blanks stand between them (json.h:1-4); one that is cut off is
\* never taken for another release or another place to get it from.
UpdateAnswerUnderstood ==
    input.part = "answer" =>
        LET text == AnswerText(input)
        IN  IF input.cut = 0 THEN ReadAs(Json!Check(text), AnswerMeans(input))
            ELSE ReadInPart(Json!Check(SubSeq(text, 1, Len(text) - input.cut)), AnswerMeans(input))

\* The CLI's verdict on a key is taken from its own answer only, and one it could
\* not give is neither valid nor invalid (agent_cli.c:425-427); the settings file
\* says what was saved; the dashboard opens at what the CLI printed, or else at
\* a base URL to which a path can be appended.
CliAnswerUnderstood ==
    /\ input.part = "cli" =>
           Json!Verdict(CliText(input)) =
               IF input.ok # <<Json!True>> \/ input.valid = <<Json!Null>> THEN "unavailable"
               ELSE IF input.valid = <<Json!True>> THEN "valid" ELSE "invalid"
    /\ input.part = "settings" =>
           Json!LoadedSettings(Json!SavedSettings(input.tracking, input.automatic)) =
               [readable |-> TRUE, tracking_disabled |-> input.tracking,
                automatic_updates_disabled |-> input.automatic]
    /\ input.part = "address" =>
           LET target == Json!DashboardTarget(input.printed, input.base)
           IN  /\ target[1] \in Json!Schemes
               /\ IF \E s \in Json!Schemes : s \in ToSet(input.printed)
                  THEN W(3) \in ToSet(target) ELSE Last(target) # Json!Slash

\* What the program is answered, by the update server, by the CLI and by its own
\* settings file, it takes for what it says (json.h:1-7).
AnswersUnderstood == UpdateAnswerUnderstood /\ CliAnswerUnderstood
===============================================================================
