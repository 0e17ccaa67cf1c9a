--------------------------------- MODULE Parts ---------------------------------
(* The parts that no other part interacts with, in one specification: the        *)
(* desktop, and the functions of CommandLine, DataDirs, StartupWarning, Download  *)
(* and Seeding over inputs.  The variable input says which part a behaviour is      *)
(* about; an input of a function is a state of its own, where nothing happens.   *)
EXTENDS Desktop, CommandLine, DataDirs, StartupWarning, Download, Seeding

CONSTANT Inputs       \* of the functions, those of MCParts among them

VARIABLE input

-------------------------------------------------------------------------------
\* The inputs

\* The path of the CLI and the directories to scan.  The code's 4096 and 64
\* characters are enough for a path of MAX_PATH and the names of the providers.
IsLine(i) ==
    /\ i.exe \in Seq(Chars) \ {<<>>}
    /\ 2 * Len(i.exe) + Len(SyncWord) + 4 <= LineRoom
    /\ i.dirs \in Seq([provider : Seq(Plain), dir : Seq(Chars)])
    /\ \A n \in DOMAIN i.dirs : Len(Option) + Len(i.dirs[n].provider) + 5 <= PairRoom

\* The environment, the file system when the watcher starts, and what is left of
\* it when a sync does.  Paths are absolute: no file is without a directory.
Candidates(env) == UNION {ToSet(CandidatesFor(p, env)) : p \in Table}
IsScan(i) ==
    /\ IsFiniteSet(Candidates(i.env))
    /\ FileSystem(i.fs) /\ i.left.dirs \subseteq i.fs.dirs /\ i.left.files \subseteq i.fs.files
    /\ \A file \in i.fs.files : Len(file) > 1

\* The widths of the characters a failed CLI prints.
IsComplaint(i) == i.chars \in Seq(Widths)

\* The offer, the server's answer, and the disk.
Urls == [scheme : {"https", "http"}, host : Seq(Nat)]

IsDownload(i) ==
    /\ i.update.url \in Urls /\ i.update.size \in Nat
    /\ i.transfer \in Transfers(Seq(Nat \ {0}), Nat)
    /\ i.disk \in [room : Nat, hashes : Nat]

\* What a text says for a version: three numbers, which begin the fields between
\* its two dots, blanks and a v before the first one left out.
Run(s, characters) ==
    CHOOSE n \in 0..Len(s) :
        /\ \A i \in 1..n : s[i] \in characters
        /\ n = Len(s) \/ s[n + 1] \notin characters
Leading(s) == SubSeq(s, 1, Run(s, Digits))
Bare(s) ==
    LET t == SubSeq(s, Run(s, Blanks) + 1, Len(s))
    IN  IF t # <<>> /\ t[1] = LetterV THEN SubSeq(t, 2, Len(t)) ELSE t

VersionOf(text) ==
    LET dots == {i \in DOMAIN text : text[i] = Point}
        fields == <<Bare(SubSeq(text, 1, Min(dots) - 1)),
                    SubSeq(text, Min(dots) + 1, Max(dots) - 1),
                    SubSeq(text, Max(dots) + 1, Len(text))>>
    IN  IF Cardinality(dots) = 2 /\ \A k \in 1..3 : Leading(fields[k]) # <<>>
        THEN [k \in 1..3 |-> Unsigned(Leading(fields[k]))] ELSE NoVersion

Octets == 0..255

\* The versions of the bundled CLI and of the installed one, if there is one, and
\* how the bundled one is packed: the header with any of its parts, data for the content, and the
\* trailer, of which the last bytes may be cut off.
Packed(p) ==
    LET Part(flag, bytes) == IF flag \in p.flags THEN bytes ELSE <<>>
    IN  <<31, 139, 8, p.flags, 0, 0, 0, 0, 0, 0>>
            \o Part("extra", <<Len(p.extra) % 256, Len(p.extra) \div 256>> \o p.extra)
            \o Part("name", Append(p.name, 0)) \o Part("comment", Append(p.comment, 0))
            \o Part("crc", p.crc) \o <<p.content, 5>> \o Trailer(<<p.content>>)
Delivered(p) == SubSeq(Packed(p), 1, Len(Packed(p)) - p.cut)

IsVersion(v) == v.text \in Seq(Nat \ {0}) /\ v.means = VersionOf(v.text)
IsPayload(p) ==
    /\ p.flags \subseteq Flags /\ p.content \in Nat
    /\ p.extra \in Seq(Octets) /\ Len(p.extra) < 65536
    /\ p.name \in Seq(Octets \ {0}) /\ p.comment \in Seq(Octets \ {0})
    /\ p.crc \in Seq(Octets) /\ Len(p.crc) = 2
    /\ p.cut \in 0..Len(Packed(p))
IsSeed(i) ==
    /\ i.present \in BOOLEAN
    /\ IsVersion(i.bundled) /\ IsVersion(i.answer) /\ IsPayload(i.payload)

ASSUME PartsConstants ==
    \A i \in Inputs :
        /\ i.part # "desktop"
        /\ i.part = "line" => IsLine(i)
        /\ i.part = "scan" => IsScan(i)
        /\ i.part = "complaint" => IsComplaint(i)
        /\ i.part = "download" => IsDownload(i)
        /\ i.part = "seed" => IsSeed(i)

-------------------------------------------------------------------------------
\* The behaviours

DesktopInput == [part |-> "desktop"]

PartsInit ==
    /\ Init
    /\ input = DesktopInput \/ (entry = NoEntry /\ input \in Inputs)

PartsNext ==
    \/ input = DesktopInput /\ Next /\ UNCHANGED input
    \/ input # DesktopInput /\ UNCHANGED <<vars, input>>

PartsSpec == PartsInit /\ [][PartsNext]_<<vars, input>>

-------------------------------------------------------------------------------
\* Properties

\* What the CLI is to find on its command line.
SyncArgs(exe, dirs) ==
    FoldLeft(LAMBDA args, d : IF d.dir = <<>> THEN args ELSE args \o <<Option, Pair(d)>>,
             <<exe, SyncWord>>, dirs)

\* The CLI finds on its command line exactly the directories it is to scan, blank
\* ones left out, whatever blanks, quotes and backslashes they hold; the line
\* always fits, and there is none when there is nothing to scan
\* (agent_cli.h:72-77).
ArgumentsSurvive ==
    input.part = "line" =>
        LET line == BuildSync(input.exe, input.dirs)
        IN  IF \A n \in DOMAIN input.dirs : input.dirs[n].dir = <<>> THEN line = NoLine
            ELSE line # NoLine /\ ParseArgs(line) = SyncArgs(input.exe, input.dirs)

\* What a sync scans is in a directory the watcher watches, also after
\* directories have been removed since it started, when a sync falls back to
\* another candidate (data_dirs.h:34-35), as long as the user has not configured
\* more candidates than the watcher has roots.
ScannedIsWatched ==
    input.part = "scan" /\ Cardinality(Candidates(input.env)) <= MaxRoots =>
        \A r \in Resolve(input.env, input.left) :
            \A roots \in RootsOf(WatchPaths(input.env, input.fs)) :
                {r.dir, Front(r.dir)} \cap roots # {}

\* The warning of a failed start is what the CLI printed, or as much of it as
\* fits with three dots behind, and never part of a character, although the
\* bytes were cut before anyone looked at characters (wstr.h:21-24).
WarningReadable ==
    input.part = "complaint" =>
        WarningOf(Encode(input.chars)) =
            Encode(IF Len(input.chars) <= WarningChars THEN input.chars
                   ELSE SubSeq(input.chars, 1, WarningChars - 3) \o <<Dot, Dot, Dot>>)

\* What is staged for an installation is what the server sent with its 200, to the
\* end, and what it has published of the build; the same answer from a server
\* that is read in memory is whole or none.  Over https, or from this computer, it
\* is staged if nothing fails (app_update.h:13-14, 27, 41).
Loopback(host) ==
    \/ host = Localhost
    \/ Len(host) = 4 /\ host[1] = 127 /\ \A k \in 2..4 : host[k] <= 255
Private(url) == url.scheme = "https" \/ Loopback(url.host)
DownloadIsWhole ==
    input.part = "download" =>
        LET update == input.update
            body == input.transfer.blocks
            staged == Staged(update, input.transfer, input.disk)
            served == input.transfer.sent /\ input.transfer.ends /\ input.transfer.status = 200
            published == update.digest \in {<<>>, body} /\ update.size \in {0, Len(body)}
        IN  /\ staged # NoFile => served /\ staged = body /\ published
            /\ served /\ published /\ Private(update.url)
               /\ input.disk.room >= Len(body) /\ input.disk.hashes > Len(body) + 1
               => staged = body
            /\ AnswerOf(input.transfer) = IF served THEN body ELSE NoFile

\* "Cleartext downloads only ever leave loopback" (app_update.c:71): what is staged
\* has come over https or from this computer.
CleartextStaysLocal ==
    input.part = "download" =>
        (Staged(input.update, input.transfer, input.disk) # NoFile => Private(input.update.url))

\* A missing CLI is put there, and one that says its version is replaced exactly by
\* a newer one; what is put there is what was packed, whole or not at all
\* (agent_cli.h:63-64, inflate.c:15-17): no header runs into the trailer.  A
\* program checks for updates if its version, without what follows a + or -, is
\* one (app_update.h:20).  Of a version that is too long the program takes no
\* notice, of its own it reads as much as fits.
NumberOf(v) == (v[1] * UnsignedSize + v[2]) * UnsignedSize + v[3]
SeedIsNewerAndWhole ==
    input.part = "seed" =>
        LET payload == Delivered(input.payload)
            bundled == input.bundled.means
            answer == input.answer.means
            text == input.bundled.text
            seeded == Seed(text, input.present, input.answer.text, payload)
            sound == bundled # NoVersion /\ Len(text) < TextSize /\ input.payload.cut = 0
            own == IF Len(text) < TextSize THEN text ELSE SubSeq(text, 1, TextSize - 1)
        IN  /\ seeded # NoContent => sound /\ seeded = <<input.payload.content>>
            /\ ~input.present => (seeded # NoContent <=> sound)
            /\ input.present /\ answer # NoVersion =>
                   (seeded # NoContent <=> sound /\ NumberOf(bundled) > NumberOf(answer))
            /\ Semverish(text) <=>
                   \E n \in 0..Len(own) :
                       /\ \A i \in 1..n : own[i] \notin Decoration
                       /\ n = Len(own) \/ own[n + 1] \in Decoration
                       /\ VersionOf(SubSeq(own, 1, n)) # NoVersion
            /\ GzipHeader(payload) \in {NoOffset} \cup 10..(Len(payload) - 9)
===============================================================================
