------------------------------- MODULE CliCalls -------------------------------
(* run_cmdline of agent_cli.c: every operation of the program on the shared    *)
(* CLI starts one hidden child process and reads its two output streams.  The  *)
(* sync worker, the CLI-update loop, the startup check, the Settings dialog    *)
(* and its verify thread do so at the same time, and a child inherits every    *)
(* inheritable handle the program has at that moment, not only its own.  The   *)
(* two streams of a call are alike, and their pipes are made, inherited and    *)
(* closed together: one stands for both.                                       *)
EXTENDS Naturals

CONSTANTS
    Calls,              \* calls of run_cmdline, each on some thread
    App,                \* the program itself, as a holder of handles
    Leavers,            \* those whose child may leave a process behind
    Output,             \* what each child writes when it succeeds, in chunks
    Capacity            \* chunks a pipe holds before its writer blocks

ASSUME CliCallsConstants ==
    /\ App \notin Calls
    /\ Leavers \subseteq Calls
    /\ Output \in [Calls -> Nat] /\ Capacity \in Nat \ {0}

VARIABLES
    pc,                 \* where each call is in run_cmdline
    child,              \* its process: not started, running, or how it ended
    heir,               \* a process its child started lives on, with its handles
    holders,            \* who holds the write end of its pipe; a call stands
                        \* for its child and the heir
    toWrite,            \* chunks the child has still to write
    unread,             \* chunks in the pipe
    late,               \* those at its end that an heir has written
    reader,             \* the thread that reads the pipe
    result              \* AgentErr of the call, "none" until it is known

callVars == <<pc, child, heir, holders, toWrite, unread, late, reader, result>>
procVars == <<child, heir, toWrite>>
chunkVars == <<unread, late>>
pipeVars == <<holders, chunkVars, reader>>

CallsInit ==
    /\ pc = [c \in Calls |-> "idle"]
    /\ child = [c \in Calls |-> "none"]
    /\ heir = [c \in Calls |-> FALSE]
    /\ holders = [c \in Calls |-> {}]
    /\ toWrite = [c \in Calls |-> 0]
    /\ unread = [c \in Calls |-> 0]
    /\ late = [c \in Calls |-> 0]
    /\ reader = [c \in Calls |-> "none"]
    /\ result = [c \in Calls |-> "none"]

Moves(c, from, to) == pc[c] = from /\ pc' = [pc EXCEPT ![c] = to]
Goes(c, from, to) == Moves(c, from, to) /\ UNCHANGED result

Returns(c, from, err) ==
    Moves(c, from, "returned") /\ result' = [result EXCEPT ![c] = err]

-------------------------------------------------------------------------------
\* Up to the child's start

\* make_pipe, twice; when the second one fails the first is closed.
MakePipes(c) ==
    /\ \/ Goes(c, "idle", "spawn") /\ holders' = [holders EXCEPT ![c] = {App}]
       \/ Returns(c, "idle", "launch") /\ UNCHANGED holders
    /\ UNCHANGED <<procVars, chunkVars, reader>>

\* CreateProcess with inherited handles: the child gets every write end that is
\* open in the program.
Spawn(c) ==
    /\ Goes(c, "spawn", "drop")
    /\ child' = [child EXCEPT ![c] = "running"]
    /\ toWrite' = [toWrite EXCEPT ![c] = Output[c]]
    /\ holders' = [d \in Calls |-> holders[d] \cup (IF App \in holders[d] THEN {c} ELSE {})]
    /\ UNCHANGED <<heir, chunkVars, reader>>

SpawnFails(c) == Goes(c, "spawn", "drop") /\ UNCHANGED <<procVars, pipeVars>>

Drop(c, holding) ==
    /\ IF child[c] = "none" THEN Returns(c, "drop", "launch") ELSE Goes(c, "drop", "start")
    /\ holders' = [holders EXCEPT ![c] = holding]
    /\ UNCHANGED <<procVars, chunkVars, reader>>

\* The program keeps its write ends.
DropWriteEnds_Missing(c) == Drop(c, holders[c])

DropWriteEnds(c) == Drop(c, holders[c] \ {App})

StartReaders(c) ==
    /\ Goes(c, "start", "wait")
    /\ reader' \in {[reader EXCEPT ![c] = r] : r \in {"reading", "failed"}}
    /\ UNCHANGED <<procVars, holders, chunkVars>>

-------------------------------------------------------------------------------
\* pipe_reader_thread

Storing == {"storing", "storing late"}

\* CloseHandle has been called on the read end.
Closed(c) == pc[c] \in {"result", "returned"}

\* ReadFile returns with what is first in the pipe: the child's output before that
\* of an heir ...
ReaderReads(c) ==
    /\ reader[c] = "reading" /\ unread[c] > 0
    /\ unread' = [unread EXCEPT ![c] = @ - 1]
    /\ IF unread[c] > late[c]
       THEN reader' = [reader EXCEPT ![c] = "storing"] /\ UNCHANGED late
       ELSE /\ reader' = [reader EXCEPT ![c] = "storing late"]
            /\ late' = [late EXCEPT ![c] = @ - 1]
    /\ UNCHANGED <<pc, procVars, holders, result>>

Stores(c, next) ==
    /\ reader[c] \in Storing /\ reader' = [reader EXCEPT ![c] = next]
    /\ UNCHANGED <<pc, procVars, holders, chunkVars, result>>

\* ... and buf_push adds it to the buffer.  Another read needs the read end.
ReaderStores(c) == Stores(c, IF Closed(c) THEN "ended" ELSE "reading")

\* buf_push fails.
ReaderGivesUp(c) == Stores(c, "failed")

Ends(c) ==
    /\ reader[c] = "reading" /\ reader' = [reader EXCEPT ![c] = "ended"]
    /\ UNCHANGED <<pc, procVars, holders, chunkVars, result>>

\* The end of the stream: nobody holds the write end any more.
ReaderEnds(c) == unread[c] = 0 /\ holders[c] = {} /\ Ends(c)

\* ReadFile finds the read end closed; one that had begun before may go on.
ReaderFindsClosed(c) == Closed(c) /\ Ends(c)

-------------------------------------------------------------------------------
\* The child, and a process it may start and leave behind, its heir, which holds
\* the handles it inherited and may go on writing.

LetsGo(c) == holders' = [d \in Calls |-> holders[d] \ {c}]

\* TerminateProcess has been called on the child: it only ends.
Terminated(c) == result[c] = "timeout"

Writes(c) ==
    /\ unread[c] < Capacity /\ unread' = [unread EXCEPT ![c] = @ + 1]
    /\ UNCHANGED <<pc, child, heir, holders, reader, result>>

ChildWrites(c) ==
    /\ child[c] = "running" /\ ~Terminated(c)
    /\ toWrite[c] > 0 /\ toWrite' = [toWrite EXCEPT ![c] = @ - 1]
    /\ Writes(c) /\ UNCHANGED late

\* Nothing can be written once the read end is closed.
HeirWrites(c) ==
    /\ heir[c] /\ ~Closed(c)
    /\ late' = [late EXCEPT ![c] = @ + 1]
    /\ Writes(c) /\ UNCHANGED toWrite

ChildEnds(c, how) ==
    /\ child[c] = "running" /\ child' = [child EXCEPT ![c] = how]
    /\ \/ c \in Leavers /\ heir' = [heir EXCEPT ![c] = TRUE] /\ UNCHANGED holders
       \/ LetsGo(c) /\ UNCHANGED heir
    /\ UNCHANGED <<pc, toWrite, chunkVars, reader, result>>

\* It succeeds only when all its output is written.
ChildExits(c) ==
    /\ ~Terminated(c)
    /\ \E how \in {"ok", "no key", "error"} :
        (how = "ok" => toWrite[c] = 0) /\ ChildEnds(c, how)

ChildKilled(c) == Terminated(c) /\ ChildEnds(c, "killed")

HeirEnds(c) ==
    /\ heir[c] /\ heir' = [heir EXCEPT ![c] = FALSE]
    /\ LetsGo(c)
    /\ UNCHANGED <<pc, child, toWrite, chunkVars, reader, result>>

-------------------------------------------------------------------------------
\* Waiting for the child and its readers

OnlyCall == UNCHANGED <<procVars, pipeVars>>

WaitChild(c) == Goes(c, "wait", "join") /\ child[c] # "running" /\ OnlyCall

\* The time limit of the operation passes: TerminateProcess.
WaitTimesOut(c) ==
    Moves(c, "wait", "reap") /\ result' = [result EXCEPT ![c] = "timeout"] /\ OnlyCall

\* The child has ended, or five seconds have passed.
Reap(c) == Goes(c, "reap", "join") /\ OnlyCall

\* A reader that has not ended is left reading.
JoinReaders_NoWait(c) == Goes(c, "join", "close") /\ OnlyCall

\* What the child itself has written is in the buffer.
HasRead(c) == reader[c] \notin {"reading", "storing"} \/ (reader[c] = "reading" /\ unread[c] = late[c])

\* The readers have ended, or five seconds have passed, in which they had the time
\* to read what the child has left.
JoinReaders(c) == Goes(c, "join", "close") /\ HasRead(c) /\ OnlyCall

\* CloseHandle of the read ends; it may have to wait for a read in progress
\* (see Fairness).
CloseReadEnds(c) == Goes(c, "close", "result") /\ OnlyCall

\* The exit code decides, unless the time limit did.  The zero that ends the
\* output may find no memory.
ResultOf(c) ==
    CASE result[c] = "timeout"  -> {"timeout"}
      [] child[c] = "no key"    -> {"missing key"}
      [] child[c] = "ok"        -> {"ok", "launch"}
      [] OTHER                  -> {"failed"}

Return(c) == (\E err \in ResultOf(c) : Returns(c, "result", err)) /\ OnlyCall

CallStep(c) ==
    \/ Spawn(c) \/ SpawnFails(c) \/ DropWriteEnds(c) \/ StartReaders(c)
    \/ WaitChild(c) \/ WaitTimesOut(c) \/ Reap(c) \/ JoinReaders(c) \/ Return(c)

ReaderStep(c) == ReaderReads(c) \/ ReaderStores(c) \/ ReaderGivesUp(c) \/ ReaderEnds(c)

\* Every call has returned and nothing it started is left.
CallsAtRest ==
    /\ \A c \in Calls :
        /\ pc[c] = "returned" /\ child[c] # "running" /\ ~heir[c]
        /\ reader[c] \notin {"reading"} \cup Storing
    /\ UNCHANGED callVars

CallsNext ==
    \/ \E c \in Calls :
        \/ MakePipes(c) \/ CallStep(c) \/ CloseReadEnds(c) \/ ReaderStep(c)
        \/ ReaderFindsClosed(c)
        \/ ChildWrites(c) \/ ChildExits(c) \/ ChildKilled(c)
        \/ HeirWrites(c) \/ HeirEnds(c)
    \/ CallsAtRest

CallsSafety == CallsInit /\ [][CallsNext]_callVars

\* Threads run, time passes, a terminated child dies and heirs end.  A child may
\* hang.  CloseHandle returns when no read is in progress; otherwise it may.
Fairness ==
    \A c \in Calls :
        /\ WF_callVars(CallStep(c)) /\ WF_callVars(ReaderStep(c))
        /\ WF_callVars(ChildKilled(c)) /\ WF_callVars(HeirEnds(c))
        /\ WF_callVars(reader[c] # "reading" /\ CloseReadEnds(c))

CallsSpec == CallsSafety /\ Fairness

-------------------------------------------------------------------------------
\* Properties

\* A call that succeeds has all its child wrote to stdout, whoever else holds
\* the pipe, unless its reader could not be started or found no memory.
OkMeansWhole ==
    \A c \in Calls :
        result[c] = "ok" /\ reader[c] # "failed" =>
            toWrite[c] = 0 /\ unread[c] = late[c] /\ reader[c] # "storing"

\* Of what the child itself has written nothing is stored any more while
\* run_cmdline takes the answer and frees the buffers (agent_cli.c:303-328): the
\* readers have been waited for, whatever a process that was left behind adds.
AnswerSettled ==
    [][\A c \in Calls :
          reader[c] = "storing" /\ reader'[c] # "storing" =>
              pc[c] \notin {"close", "result", "returned"}]_callVars

\* The buffers belong to the caller, or are freed, once a call has returned
\* ("ownership moved", agent_cli.c:322): no reader stores into them any more.
NoWriteAfterReturn ==
    [][\A c \in Calls :
          reader[c] \in Storing /\ reader'[c] # reader[c] => pc[c] # "returned"]_callVars

\* Every call returns, whatever its child does and although another call's
\* child may hold its pipes; and every reader thread ends, because the program
\* has dropped its own write ends (agent_cli.c:266).
CallsReturn ==
    \A c \in Calls :
        /\ pc[c] # "idle" ~> pc[c] = "returned"
        /\ reader[c] = "reading" ~> reader[c] \in {"ended", "failed"}
===============================================================================
