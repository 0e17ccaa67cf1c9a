-------------------------------- MODULE Download -------------------------------
(* How a body gets from a server to the program: the requests of src/util/http.c *)
(* over what WinHTTP may answer, the sink that writes a download to a file, and  *)
(* the checks an installation makes of it (app_update_install in                 *)
(* src/app_update.c).  A body is a sequence of blocks; its digest is itself.     *)
EXTENDS Naturals, SequencesExt

\* No file or answer: a block no body has.
NoFile == <<0>>

\* What WinHTTP does with a request: it is opened and sent or not; a status, or
\* none that can be read; the blocks of each read, and whether the last one ends
\* the body or fails.
Transfers(bodies, statuses) ==
    [sent : BOOLEAN, status : statuses, blocks : bodies, ends : BOOLEAN]

-------------------------------------------------------------------------------
\* http_request: the body is collected in memory.  The status is the caller's to
\* look at.

HttpRequest(transfer) ==
    IF transfer.sent
    THEN [ok |-> transfer.ends, status |-> transfer.status, body |-> transfer.blocks]
    ELSE [ok |-> FALSE, status |-> 0, body |-> <<>>]

\* app_update_check reads the body of a 200 only.
AnswerOf(transfer) ==
    LET response == HttpRequest(transfer)
    IN  IF response.ok /\ response.status = 200 THEN response.body ELSE NoFile

-------------------------------------------------------------------------------
\* download_sink.  The disk has room for so many blocks, and so many calls of the
\* hash work, the first of which sets it up; the block that fails ends it all.

NewSink(disk) == [file |-> <<>>, digest |-> <<>>, written |-> 0, ok |-> disk.hashes > 0]

SinkTakes(sink, block, disk) ==
    LET filed == [sink EXCEPT !.file = Append(@, block)]
    IN  IF ~sink.ok THEN sink
        ELSE IF sink.written = disk.room THEN [sink EXCEPT !.ok = FALSE]
        ELSE IF sink.written + 1 = disk.hashes THEN [filed EXCEPT !.ok = FALSE]
        ELSE [filed EXCEPT !.digest = Append(@, block), !.written = @ + 1]

\* request_read, as long as the sink takes what comes
SinkReads(transfer, disk) ==
    FoldLeft(LAMBDA sink, block : SinkTakes(sink, block, disk), NewSink(disk),
             transfer.blocks)

\* Takes the body of an error for the file.
HttpDownload_AnyStatus(transfer, disk) ==
    LET sink == SinkReads(transfer, disk)
    IN  IF transfer.sent THEN [ok |-> transfer.ends /\ sink.ok, sink |-> sink]
        ELSE [ok |-> FALSE, sink |-> NewSink(disk)]

\* http_download: only a 200 is read.
HttpDownload(transfer, disk) ==
    LET sink == SinkReads(transfer, disk)
    IN  IF transfer.sent /\ transfer.status = 200
        THEN [ok |-> transfer.ends /\ sink.ok, sink |-> sink]
        ELSE [ok |-> FALSE, sink |-> NewSink(disk)]

-------------------------------------------------------------------------------
\* app_update_install, to the point of the swap: the staged file, or none.  A
\* size of zero and an empty digest are not looked at.

\* A host is the sequence of its labels: a number up to 255 is itself, any other
\* stands for a name.
Localhost == <<256>>

\* update_trusted_transport, on the scheme and host WinHttpCrackUrl finds: of an
\* address only the 127 and the dot behind it are looked at.
TrustedTransport(url) ==
    \/ url.scheme = "https"
    \/ url.scheme = "http" /\ url.host = Localhost
    \/ url.scheme = "http" /\ Len(url.host) > 1 /\ url.host[1] = 127

Staged(update, transfer, disk) ==
    LET download == HttpDownload(transfer, disk)
        sink == download.sink
    IN  IF /\ TrustedTransport(update.url) /\ download.ok
           /\ update.size > 0 => sink.written = update.size
           /\ update.digest # <<>> =>
                  sink.written + 1 < disk.hashes /\ sink.digest = update.digest
        THEN sink.file ELSE NoFile
===============================================================================
