-------------------------- MODULE SettingsDialogProofs --------------------------
(* Proofs about SettingsDialog, for any keys, any number of verify threads and   *)
(* however often the dialog is opened; and about CliCalls, the calls of the CLI   *)
(* that its saves and verifications are, for any number of calls on any threads. *)
EXTENDS SettingsDialog, CliCalls, TLAPS

Answers == {"nothing", "valid", "invalid", "unavailable"}
Verdict == [key : Texts, says : Answers]
VerifierState == [pc : {"none", "ask", "post"}, window : Nat, key : Texts, says : Answers]
Saving == {"saving", "savingLast"}

TypeOK ==
    /\ stored \in Texts /\ wanted \in Texts /\ asked \in Texts
    /\ text \in Texts /\ lastSaved \in Texts
    /\ setting \subseteq Keys
    /\ startup \in {"asking", "required", "warned", "done"}
    /\ window \in Nat
    /\ dialog \in {"closed", "reading", "open", "destroyed"} \cup Saving
    /\ canVerify \in BOOLEAN /\ setFailed \in BOOLEAN
    /\ status \in Verdict /\ inbox \subseteq Verdict
    /\ verifier \in [Verifiers -> VerifierState]

\* The dialog waits for the CLI that stores the key it wants stored, so there is
\* one such call at a time.
OneSaveAtATime ==
    /\ setting # {} => setting = {wanted} /\ dialog \in Saving
    /\ setting = {} /\ ~setFailed => stored = wanted

\* What the server may say about a key, and no verdict at all.
Truthful(verdict) ==
    /\ verdict.says = "valid" => verdict.key \in ValidKeys
    /\ verdict.says = "invalid" => verdict.key \notin ValidKeys

\* A verification of the window that is open.
Current(v) == verifier[v].pc # "none" /\ verifier[v].window = window

\* The verify threads outlive windows, and tell the truth.
VerifiersKnowTheirWindow ==
    \A v \in Verifiers :
        /\ verifier[v].window <= window
        /\ verifier[v].pc = "post" => Truthful(verifier[v])
        /\ dialog = "reading" => ~Current(v)

\* One verification of a window is under way: its thread, or its verdict in the
\* queue.  The button is disabled meanwhile.
OneVerdictAtATime ==
    /\ \A v \in Verifiers :
           Current(v) => inbox = {} /\ ~canVerify /\ verifier[v].key = asked
    /\ \A v, w \in Verifiers : Current(v) /\ Current(w) => v = w
    /\ \A verdict \in inbox :
           verdict.key = asked /\ Truthful(verdict) /\ inbox = {verdict}
    /\ dialog # "reading" /\ inbox # {} => ~canVerify
    /\ status # Nothing => status.key = asked /\ Truthful(status)

IInv ==
    /\ TypeOK /\ OneSaveAtATime /\ VerifiersKnowTheirWindow /\ OneVerdictAtATime

-------------------------------------------------------------------------------

\* The inductive invariant of the dialog, its saves and its verify threads.
THEOREM SettingsInvariant == DialogSpec => []IInv
<1>. USE SettingsAssumption DEF Texts, Saving, Answers, VerifierState
<1>1. DialogInit => IInv
  <2>. SUFFICES ASSUME DialogInit PROVE IInv
    OBVIOUS
  <2>1. TypeOK
    BY DEF DialogInit, TypeOK, Verdict, Idle, Nothing
  <2>2. OneSaveAtATime
    BY DEF DialogInit, OneSaveAtATime
  <2>3. VerifiersKnowTheirWindow /\ OneVerdictAtATime
    BY DEF DialogInit, VerifiersKnowTheirWindow, OneVerdictAtATime, Current, Idle
  <2>. QED
    BY <2>1, <2>2, <2>3 DEF IInv
<1>2. IInv /\ [DialogNext]_settingsVars => IInv'
  <2>. SUFFICES ASSUME IInv, [DialogNext]_settingsVars
                PROVE  IInv'
    OBVIOUS
  <2>. USE DEF IInv, TypeOK, OneSaveAtATime, VerifiersKnowTheirWindow, OneVerdictAtATime,
               Current, Truthful, Here
  <2>1. CASE StartupAnswered
    BY <2>1 DEF StartupAnswered, dialogVars, historyVars
  <2>2. CASE UserOpens
    BY <2>2 DEF UserOpens, OpenSettings, historyVars
  <2>3. CASE SetupOpens
    BY <2>3 DEF SetupOpens, OpenSettings, dialogVars, historyVars
  <2>4. CASE DialogShows
    BY <2>4 DEF DialogShows, Nothing, Verdict
  <2>5. ASSUME NEW key \in Texts, Type(key)
        PROVE  IInv'
    BY <2>5 DEF Type, historyVars
  <2>6. CASE FocusLeaves \/ CloseSaving
    <3>1. /\ dialog = "open" /\ dialog' \in Saving /\ text \in Keys
          /\ setting' = {text} /\ wanted' = text /\ setFailed' = FALSE /\ lastSaved' = text
      BY <2>6 DEF FocusLeaves, CloseSaving, SaveKey, Unchanged
    <3>2. UNCHANGED <<stored, startup, window, text, canVerify, status, inbox, verifier, asked>>
      BY <2>6 DEF FocusLeaves, CloseSaving, SaveKey
    <3>. QED
      BY <3>1, <3>2
  <2>7. CASE CloseAtOnce \/ SaveReturns \/ DialogEnds
    BY <2>7 DEF CloseAtOnce, SaveReturns, DialogEnds, DialogGoes, historyVars
  <2>8. ASSUME NEW key \in Keys, CliSets(key)
        PROVE  IInv'
    BY <2>8 DEF CliSets, dialogVars
  <2>9. ASSUME NEW v \in Verifiers, StartVerify(v)
        PROVE  IInv'
    <3>1. /\ dialog = "open" /\ verifier[v].pc = "none" /\ text \in Keys
          /\ inbox = {} /\ \A w \in Verifiers : ~Current(w)
          /\ status' = Nothing
          /\ UNCHANGED <<stored, startup, window, setting, dialog, text, lastSaved, inbox,
                         wanted, setFailed>>
      BY <2>9 DEF StartVerify, VerifyClicked
    <3>2. CASE UNCHANGED <<verifier, canVerify, asked>>
      BY <3>1, <3>2 DEF Nothing, Verdict
    <3>3. CASE Asking(v) /\ canVerify' = FALSE /\ asked' = text
      <4>1. /\ verifier' \in [Verifiers -> VerifierState]
            /\ verifier'[v] = [pc |-> "ask", window |-> window, key |-> text, says |-> "nothing"]
            /\ \A w \in Verifiers \ {v} : verifier'[w] = verifier[w]
        BY <3>1, <3>3 DEF Asking
      <4>2. \A w \in Verifiers : Current(w)' => w = v
        BY <3>1, <4>1
      <4>3. TypeOK' /\ OneSaveAtATime'
        BY <3>1, <3>3, <4>1 DEF Nothing, Verdict
      <4>4. VerifiersKnowTheirWindow' /\ OneVerdictAtATime'
        BY <3>1, <3>3, <4>1, <4>2
      <4>. QED
        BY <4>3, <4>4
    <3>. QED
      BY <2>9, <3>2, <3>3 DEF StartVerify
  <2>10. ASSUME NEW v \in Verifiers, VerifyAnswered(v)
         PROVE  IInv'
    <3>1. PICK says \in {"valid", "invalid", "unavailable"} :
              /\ says = "valid" => verifier[v].key \in ValidKeys
              /\ says = "invalid" => verifier[v].key \notin ValidKeys
              /\ verifier' = [verifier EXCEPT ![v].pc = "post", ![v].says = says]
      BY <2>10 DEF VerifyAnswered
    <3>2. /\ verifier[v].pc = "ask"
          /\ UNCHANGED <<stored, setting, startup, window, dialog, text, lastSaved, canVerify,
                         status, inbox, asked, wanted, setFailed>>
      BY <2>10 DEF VerifyAnswered, dialogVars, historyVars
    <3>3. /\ verifier' \in [Verifiers -> VerifierState]
          /\ verifier'[v].pc = "post" /\ verifier'[v].says = says
          /\ verifier'[v].window = verifier[v].window /\ verifier'[v].key = verifier[v].key
          /\ \A w \in Verifiers \ {v} : verifier'[w] = verifier[w]
      <4>1. verifier[v] \in VerifierState
        BY <2>10
      <4>2. \A state \in VerifierState :
                LET posting == [[state EXCEPT !.pc = "post"] EXCEPT !.says = says] IN
                /\ posting \in VerifierState
                /\ posting.pc = "post" /\ posting.says = says
                /\ posting.window = state.window /\ posting.key = state.key
        BY <3>1
      <4>3. verifier' = [verifier EXCEPT ![v] =
                            [[verifier[v] EXCEPT !.pc = "post"] EXCEPT !.says = says]]
        BY <3>1
      <4>. QED
        BY <4>1, <4>2, <4>3
    <3>4. \A w \in Verifiers : Current(w)' <=> Current(w)
      BY <3>2, <3>3
    <3>. QED
      BY <3>1, <3>2, <3>3, <3>4
  <2>11. ASSUME NEW v \in Verifiers, VerifyPosts(v)
         PROVE  IInv'
    BY <2>11 DEF VerifyPosts, Idle, Verdict, historyVars
  <2>12. CASE DialogShowsVerdict
    BY <2>12 DEF DialogShowsVerdict, historyVars
  <2>13. CASE UNCHANGED settingsVars
    BY <2>13 DEF settingsVars, dialogVars, historyVars
  <2>. QED
    BY <2>1, <2>2, <2>3, <2>4, <2>5, <2>6, <2>7, <2>8, <2>9, <2>10, <2>11, <2>12, <2>13
       DEF DialogNext, DialogAtRest
<1>. QED
  BY <1>1, <1>2, PTL DEF DialogSpec

\* Whenever no save is running, the CLI holds the key that was saved last,
\* unless that save failed (settings_dialog.c:280-283).
THEOREM KeysStoredInOrder == DialogSpec => []StoredIsLastSaved
<1>1. IInv => StoredIsLastSaved
  BY DEF IInv, OneSaveAtATime, StoredIsLastSaved
<1>. QED
  BY <1>1, SettingsInvariant, PTL

\* The verdict on the screen is the server's answer about the key this window
\* has last asked about.
THEOREM VerdictsNeverStale == DialogSpec => []VerdictIsTheLastAsked
<1>1. IInv => VerdictIsTheLastAsked
  BY DEF IInv, OneVerdictAtATime, Truthful, VerdictIsTheLastAsked
<1>. QED
  BY <1>1, SettingsInvariant, PTL

-------------------------------------------------------------------------------
\* A save and a verification believe what their call of the CLI returns, while
\* other threads call the CLI too: what such a result is worth.

CallPCs ==
    {"idle", "spawn", "drop", "start", "wait", "reap", "join", "close", "result", "returned"}
Results == {"none", "launch", "timeout", "missing key", "ok", "failed"}
Endings == {"ok", "no key", "error", "killed"}
Readers == {"none", "reading", "failed", "ended"} \cup Storing
ThreadsTypeOK == pc \in [Calls -> CallPCs] /\ result \in [Calls -> Results]
ProcessesTypeOK ==
    /\ child \in [Calls -> {"none", "running"} \cup Endings]
    /\ heir \in [Calls -> BOOLEAN] /\ toWrite \in [Calls -> Nat]
PipesTypeOK ==
    /\ holders \in [Calls -> SUBSET (Calls \cup {App})]
    /\ unread \in [Calls -> Nat] /\ late \in [Calls -> Nat]
    /\ reader \in [Calls -> Readers]
CallsTypeOK == ThreadsTypeOK /\ ProcessesTypeOK /\ PipesTypeOK

\* The program holds the write end until the child has it, and the child while
\* it runs, so no reader meets the end of the stream before.
ChildHoldsPipe(c) ==
    /\ pc[c] \in {"idle", "spawn"} => child[c] = "none"
    /\ pc[c] = "spawn" => App \in holders[c]
    /\ child[c] = "running" => c \in holders[c]
    /\ heir[c] => child[c] \notin {"none", "running"}

\* A success is the child's own, and it had written everything.
OkIsEarned(c) ==
    /\ child[c] = "ok" => toWrite[c] = 0
    /\ result[c] = "ok" => pc[c] = "returned" /\ child[c] = "ok" /\ reader[c] # "none"

\* An heir writes only after the child, so its chunks are the last ones.
HeirWritesLast(c) ==
    /\ late[c] <= unread[c]
    /\ late[c] > 0 \/ reader[c] = "storing late" =>
           child[c] # "running" /\ pc[c] \notin {"idle", "spawn"}
    /\ reader[c] = "storing late" => unread[c] = late[c]

\* Past the wait the child writes nothing any more, and past the join nothing it
\* has written is left for a reader that goes on.
Drained(c) ==
    /\ pc[c] \in {"idle", "spawn", "drop", "start"} => reader[c] = "none"
    /\ pc[c] \in {"wait", "reap", "join", "close", "result"} => reader[c] # "none"
    /\ reader[c] = "ended" =>
           unread[c] = late[c] /\ (child[c] # "running" \/ result[c] = "timeout")
    /\ pc[c] = "reap" => result[c] = "timeout"
    /\ pc[c] \in {"join", "close", "result", "returned"} =>
           child[c] # "running" \/ result[c] = "timeout"
    /\ pc[c] \in {"close", "result", "returned"} /\ reader[c] \notin {"none", "failed"} =>
           unread[c] = late[c] /\ reader[c] # "storing"

CallInvOf(c) == ChildHoldsPipe(c) /\ OkIsEarned(c) /\ HeirWritesLast(c) /\ Drained(c)

CallInv == \A c \in Calls : CallInvOf(c)

\* The steps of a call, its reader and its processes.
OneCallStep(c) ==
    \/ MakePipes(c) \/ CallStep(c) \/ CloseReadEnds(c) \/ ReaderStep(c)
    \/ ReaderFindsClosed(c)
    \/ ChildWrites(c) \/ ChildExits(c) \/ ChildKilled(c) \/ HeirWrites(c) \/ HeirEnds(c)

\* What they do to the call's thread, ...
LEMMA ThreadsTyped ==
    ASSUME CallsTypeOK, NEW c \in Calls, OneCallStep(c)
    PROVE  ThreadsTypeOK'
<1>1. /\ UNCHANGED pc \/ \E to \in CallPCs : pc' = [pc EXCEPT ![c] = to]
      /\ UNCHANGED result \/ \E err \in Results : result' = [result EXCEPT ![c] = err]
  BY DEF OneCallStep, MakePipes, CallStep, Spawn, SpawnFails, DropWriteEnds, Drop,
         StartReaders, WaitChild, WaitTimesOut, Reap, JoinReaders, Return, ResultOf,
         CloseReadEnds, ReaderStep, ReaderReads, ReaderStores, ReaderGivesUp, Stores,
         ReaderEnds, ReaderFindsClosed, Ends, ChildWrites, HeirWrites, Writes, ChildExits,
         ChildKilled, ChildEnds, HeirEnds, Goes, Returns, Moves, CallPCs, Results
<1>. QED
  BY <1>1 DEF CallsTypeOK, ThreadsTypeOK

\* ... its processes ...
LEMMA ProcessesTyped ==
    ASSUME CallsTypeOK, NEW c \in Calls, OneCallStep(c)
    PROVE  ProcessesTypeOK'
<1>1. CASE UNCHANGED procVars
  BY <1>1 DEF procVars, CallsTypeOK, ProcessesTypeOK
<1>2. CASE Spawn(c)
  BY <1>2, CliCallsConstants DEF Spawn, CallsTypeOK, ProcessesTypeOK
<1>3. CASE ChildWrites(c)
  <2>1. toWrite[c] - 1 \in Nat
    BY <1>3 DEF ChildWrites, CallsTypeOK, ProcessesTypeOK
  <2>. QED
    BY <1>3, <2>1 DEF ChildWrites, Writes, CallsTypeOK, ProcessesTypeOK
<1>4. CASE ChildExits(c) \/ ChildKilled(c) \/ HeirEnds(c)
  <2>1. /\ UNCHANGED toWrite
        /\ UNCHANGED child \/ \E how \in Endings : child' = [child EXCEPT ![c] = how]
        /\ \E lives \in BOOLEAN : UNCHANGED heir \/ heir' = [heir EXCEPT ![c] = lives]
    BY <1>4 DEF ChildExits, ChildKilled, ChildEnds, HeirEnds, Endings
  <2>. QED
    BY <2>1 DEF CallsTypeOK, ProcessesTypeOK
<1>. QED
  BY <1>1, <1>2, <1>3, <1>4 DEF OneCallStep, MakePipes, CallStep, SpawnFails, DropWriteEnds,
         Drop, StartReaders, WaitChild, WaitTimesOut, Reap, JoinReaders, Return,
         CloseReadEnds, OnlyCall, ReaderStep, ReaderReads, ReaderStores, ReaderGivesUp,
         Stores, ReaderEnds, ReaderFindsClosed, Ends, HeirWrites, Writes, procVars

\* ... and its pipe.
LEMMA PipesTyped ==
    ASSUME CallsTypeOK, NEW c \in Calls, OneCallStep(c)
    PROVE  PipesTypeOK'
<1>1. CASE UNCHANGED pipeVars
  BY <1>1 DEF pipeVars, chunkVars, CallsTypeOK, PipesTypeOK
<1>2. CASE \/ MakePipes(c) \/ DropWriteEnds(c) \/ StartReaders(c)
           \/ ReaderStores(c) \/ ReaderGivesUp(c) \/ ReaderEnds(c) \/ ReaderFindsClosed(c)
  <2>1. /\ UNCHANGED chunkVars
        /\ UNCHANGED holders \/ \E held \in SUBSET (Calls \cup {App}) :
               holders' = [holders EXCEPT ![c] = held]
        /\ UNCHANGED reader \/ \E r \in Readers : reader' = [reader EXCEPT ![c] = r]
    BY <1>2 DEF MakePipes, DropWriteEnds, Drop, StartReaders, ReaderStores, ReaderGivesUp,
           Stores, ReaderEnds, ReaderFindsClosed, Ends, Readers, CallsTypeOK, PipesTypeOK
  <2>. QED
    BY <2>1 DEF chunkVars, CallsTypeOK, PipesTypeOK
<1>3. CASE ReaderReads(c)
  <2>0. unread[c] \in Nat /\ late[c] \in Nat /\ unread[c] > 0
    BY <1>3 DEF ReaderReads, CallsTypeOK, PipesTypeOK
  <2>1. unread[c] - 1 \in Nat /\ (unread[c] > late[c] \/ late[c] - 1 \in Nat)
    BY <2>0
  <2>2. CASE unread[c] > late[c]
    BY <1>3, <2>1, <2>2 DEF ReaderReads, Readers, Storing, CallsTypeOK, PipesTypeOK
  <2>3. CASE ~(unread[c] > late[c])
    BY <1>3, <2>1, <2>3 DEF ReaderReads, Readers, Storing, CallsTypeOK, PipesTypeOK
  <2>. QED
    BY <2>2, <2>3
<1>4. CASE ChildWrites(c) \/ HeirWrites(c)
  <2>1. unread[c] + 1 \in Nat /\ late[c] + 1 \in Nat
    BY DEF CallsTypeOK, PipesTypeOK
  <2>. QED
    BY <1>4, <2>1 DEF ChildWrites, HeirWrites, Writes, CallsTypeOK, PipesTypeOK
<1>5. CASE Spawn(c) \/ ChildExits(c) \/ ChildKilled(c) \/ HeirEnds(c)
  <2>1. /\ UNCHANGED <<unread, late, reader>>
        /\ \/ UNCHANGED holders
           \/ holders' = [d \in Calls |-> holders[d] \cup (IF App \in holders[d] THEN {c} ELSE {})]
           \/ holders' = [d \in Calls |-> holders[d] \ {c}]
    BY <1>5 DEF Spawn, ChildExits, ChildKilled, ChildEnds, HeirEnds, LetsGo, chunkVars
  <2>. QED
    BY <2>1 DEF CallsTypeOK, PipesTypeOK
<1>. QED
  BY <1>1, <1>2, <1>3, <1>4, <1>5 DEF OneCallStep, CallStep, SpawnFails, WaitChild,
         WaitTimesOut, Reap, JoinReaders, Return, CloseReadEnds, OnlyCall, ReaderStep

\* What they leave alone of other calls: all but who holds the pipe, where their
\* own child may come or go.
LEMMA OtherCalls ==
    ASSUME CallsTypeOK, NEW c \in Calls, OneCallStep(c),
           NEW d \in Calls, d # c
    PROVE  /\ pc'[d] = pc[d] /\ result'[d] = result[d]
           /\ child'[d] = child[d] /\ heir'[d] = heir[d] /\ toWrite'[d] = toWrite[d]
           /\ unread'[d] = unread[d] /\ late'[d] = late[d] /\ reader'[d] = reader[d]
           /\ App \in holders'[d] <=> App \in holders[d]
           /\ d \in holders'[d] <=> d \in holders[d]
<1>1. App # c
  BY CliCallsConstants
<1>2. pc'[d] = pc[d] /\ result'[d] = result[d]
  BY DEF OneCallStep, MakePipes, CallStep, Spawn, SpawnFails, DropWriteEnds, Drop,
         StartReaders, WaitChild, WaitTimesOut, Reap, JoinReaders, Return, CloseReadEnds,
         ReaderStep, ReaderReads, ReaderStores, ReaderGivesUp, Stores, ReaderEnds,
         ReaderFindsClosed, Ends, ChildWrites, HeirWrites, Writes, ChildExits,
         ChildKilled, ChildEnds, HeirEnds, Goes, Returns, Moves, CallsTypeOK, ThreadsTypeOK
<1>3. child'[d] = child[d] /\ heir'[d] = heir[d] /\ toWrite'[d] = toWrite[d]
  BY DEF OneCallStep, MakePipes, CallStep, Spawn, SpawnFails, DropWriteEnds, Drop,
         StartReaders, WaitChild, WaitTimesOut, Reap, JoinReaders, Return, CloseReadEnds,
         ReaderStep, ReaderReads, ReaderStores, ReaderGivesUp, Stores, ReaderEnds,
         ReaderFindsClosed, Ends, ChildWrites, HeirWrites, Writes, ChildExits,
         ChildKilled, ChildEnds, HeirEnds, OnlyCall, procVars, CallsTypeOK, ProcessesTypeOK
<1>4. unread'[d] = unread[d] /\ late'[d] = late[d]
  BY DEF OneCallStep, MakePipes, CallStep, Spawn, SpawnFails, DropWriteEnds, Drop,
         StartReaders, WaitChild, WaitTimesOut, Reap, JoinReaders, Return, CloseReadEnds,
         ReaderStep, ReaderReads, ReaderStores, ReaderGivesUp, Stores, ReaderEnds,
         ReaderFindsClosed, Ends, ChildWrites, HeirWrites, Writes, ChildExits,
         ChildKilled, ChildEnds, HeirEnds, OnlyCall, pipeVars, chunkVars, CallsTypeOK,
         PipesTypeOK
<1>5. reader'[d] = reader[d]
  BY DEF OneCallStep, MakePipes, CallStep, Spawn, SpawnFails, DropWriteEnds, Drop,
         StartReaders, WaitChild, WaitTimesOut, Reap, JoinReaders, Return, CloseReadEnds,
         ReaderStep, ReaderReads, ReaderStores, ReaderGivesUp, Stores, ReaderEnds,
         ReaderFindsClosed, Ends, ChildWrites, HeirWrites, Writes, ChildExits,
         ChildKilled, ChildEnds, HeirEnds, OnlyCall, pipeVars, CallsTypeOK, PipesTypeOK
<1>6. (App \in holders'[d] <=> App \in holders[d]) /\ (d \in holders'[d] <=> d \in holders[d])
  <2>1. CASE Spawn(c) \/ ChildExits(c) \/ ChildKilled(c) \/ HeirEnds(c)
    <3>1. \/ UNCHANGED holders
          \/ holders' = [e \in Calls |-> holders[e] \cup (IF App \in holders[e] THEN {c} ELSE {})]
          \/ holders' = [e \in Calls |-> holders[e] \ {c}]
      BY <2>1 DEF Spawn, ChildExits, ChildKilled, ChildEnds, HeirEnds, LetsGo
    <3>. QED
      BY <1>1, <3>1
  <2>2. CASE ~(Spawn(c) \/ ChildExits(c) \/ ChildKilled(c) \/ HeirEnds(c))
    BY <2>2 DEF OneCallStep, MakePipes, CallStep, SpawnFails, DropWriteEnds, Drop,
           StartReaders, WaitChild, WaitTimesOut, Reap, JoinReaders, Return, CloseReadEnds,
           ReaderStep, ReaderReads, ReaderStores, ReaderGivesUp, Stores, ReaderEnds,
           ReaderFindsClosed, Ends, ChildWrites, HeirWrites, Writes, OnlyCall,
           pipeVars, CallsTypeOK, PipesTypeOK
  <2>. QED
    BY <2>1, <2>2
<1>. QED
  BY <1>2, <1>3, <1>4, <1>5, <1>6

\* What a read and a write do to the order of the chunks in a pipe.
LEMMA ReadsOrder ==
    ASSUME NEW all \in Nat, NEW last \in Nat, all > 0, last <= all
    PROVE  /\ all > last => last <= all - 1
           /\ ~(all > last) => last > 0 /\ all = last
           /\ all = last => all - 1 = last - 1 /\ last - 1 <= all - 1
  OBVIOUS

LEMMA WritesOrder ==
    ASSUME NEW all \in Nat, NEW last \in Nat, last <= all
    PROVE  last <= all + 1 /\ last + 1 <= all + 1 /\ (all = last => all + 1 = last + 1)
  OBVIOUS

\* The invariant of a call goes through its own steps.
LEMMA OwnCall ==
    ASSUME CallsTypeOK, CallInv, NEW c \in Calls, OneCallStep(c)
    PROVE  CallInvOf(c)'
<1>. USE DEF CallInvOf, ChildHoldsPipe, OkIsEarned, HeirWritesLast, Drained
<1>. DEFINE ReaderOnly == UNCHANGED <<pc, child, heir, toWrite, holders, result>>
<1>0. /\ pc[c] \in CallPCs /\ result[c] \in Results /\ child[c] \in {"none", "running"} \cup Endings
      /\ heir[c] \in BOOLEAN /\ toWrite[c] \in Nat /\ unread[c] \in Nat /\ late[c] \in Nat
      /\ reader[c] \in {"none", "reading", "failed", "ended", "storing", "storing late"}
      /\ App # c /\ CallInvOf(c)
  BY CliCallsConstants
     DEF CallsTypeOK, ThreadsTypeOK, ProcessesTypeOK, PipesTypeOK, CallInv, Readers, Storing
<1>. USE DEF CallsTypeOK, ThreadsTypeOK, ProcessesTypeOK, PipesTypeOK
<1>1. CASE MakePipes(c)
  <2>1. /\ pc[c] = "idle" /\ UNCHANGED <<child, heir, toWrite, unread, late, reader>>
        /\ \/ pc'[c] = "spawn" /\ App \in holders'[c] /\ UNCHANGED result
           \/ pc'[c] = "returned" /\ result'[c] = "launch"
    BY <1>1 DEF MakePipes, Returns, Goes, Moves, procVars, chunkVars
  <2>. QED
    BY <1>0, <2>1
<1>2. CASE Spawn(c)
  BY <1>0, <1>2 DEF Spawn, Goes, Moves, chunkVars
<1>3. CASE SpawnFails(c)
  BY <1>0, <1>3 DEF SpawnFails, Goes, Moves, procVars, pipeVars, chunkVars
<1>4. CASE DropWriteEnds(c)
  BY <1>0, <1>4 DEF DropWriteEnds, Drop, Returns, Goes, Moves, procVars, chunkVars
<1>5. CASE StartReaders(c)
  BY <1>0, <1>5 DEF StartReaders, Goes, Moves, procVars, chunkVars
<1>6. CASE WaitChild(c)
  BY <1>0, <1>6 DEF WaitChild, OnlyCall, Goes, Moves, procVars, pipeVars, chunkVars
<1>7. CASE WaitTimesOut(c)
  BY <1>0, <1>7 DEF WaitTimesOut, OnlyCall, Moves, procVars, pipeVars, chunkVars
<1>8. CASE Reap(c)
  BY <1>0, <1>8 DEF Reap, OnlyCall, Goes, Moves, procVars, pipeVars, chunkVars
<1>9. CASE JoinReaders(c)
  BY <1>0, <1>9 DEF JoinReaders, HasRead, OnlyCall, Goes, Moves, procVars, pipeVars, chunkVars
<1>10. CASE CloseReadEnds(c)
  BY <1>0, <1>10 DEF CloseReadEnds, OnlyCall, Goes, Moves, procVars, pipeVars, chunkVars
<1>11. CASE Return(c)
  BY <1>0, <1>11 DEF Return, ResultOf, Returns, OnlyCall, Moves, procVars, pipeVars, chunkVars
<1>12. CASE ReaderReads(c)
  <2>1. /\ reader[c] = "reading" /\ unread[c] > 0 /\ unread'[c] = unread[c] - 1
        /\ ReaderOnly
    BY <1>12 DEF ReaderReads, procVars
  <2>2. CASE unread[c] > late[c]
    <3>1. reader'[c] = "storing" /\ late'[c] = late[c]
      BY <1>12, <2>2 DEF ReaderReads
    <3>2. late'[c] <= unread'[c]
      BY <1>0, <2>1, <2>2, <3>1, ReadsOrder
    <3>. QED
      BY <1>0, <2>1, <2>2, <3>1, <3>2
  <2>3. CASE ~(unread[c] > late[c])
    <3>1. reader'[c] = "storing late" /\ late'[c] = late[c] - 1
      BY <1>12, <2>3 DEF ReaderReads
    <3>2. late[c] > 0 /\ unread[c] = late[c]
      BY <1>0, <2>1, <2>3, ReadsOrder
    <3>3. late'[c] <= unread'[c] /\ unread'[c] = late'[c]
      BY <1>0, <2>1, <3>1, <3>2, ReadsOrder
    <3>. QED
      BY <1>0, <2>1, <3>1, <3>2, <3>3
  <2>. QED
    BY <2>2, <2>3
<1>13. CASE ReaderStores(c) \/ ReaderGivesUp(c)
  BY <1>0, <1>13 DEF ReaderStores, ReaderGivesUp, Stores, Storing, Closed, procVars, chunkVars
<1>14. CASE ReaderEnds(c) \/ ReaderFindsClosed(c)
  <2>1. /\ reader[c] = "reading" /\ reader'[c] = "ended"
        /\ ReaderOnly /\ UNCHANGED <<unread, late>>
        /\ (unread[c] = 0 /\ holders[c] = {}) \/ pc[c] \in {"result", "returned"}
    BY <1>0, <1>14 DEF ReaderEnds, ReaderFindsClosed, Ends, Closed, procVars, chunkVars
  <2>. QED
    BY <1>0, <2>1
<1>15. CASE ChildWrites(c)
  <2>1. /\ child[c] = "running" /\ result[c] # "timeout"
        /\ unread'[c] = unread[c] + 1
        /\ UNCHANGED <<pc, child, heir, holders, late, reader, result>>
    BY <1>15 DEF ChildWrites, Writes, Terminated
  <2>2. late'[c] <= unread'[c]
    BY <1>0, <2>1, WritesOrder
  <2>. QED
    BY <1>0, <2>1, <2>2
<1>16. CASE HeirWrites(c)
  <2>1. /\ unread'[c] = unread[c] + 1 /\ late'[c] = late[c] + 1
        /\ heir[c] /\ UNCHANGED <<pc, child, heir, toWrite, holders, reader, result>>
    BY <1>16 DEF HeirWrites, Writes
  <2>2. late'[c] <= unread'[c] /\ (unread[c] = late[c] => unread'[c] = late'[c])
    <3>1. late[c] + 1 <= unread[c] + 1 /\ (unread[c] = late[c] => unread[c] + 1 = late[c] + 1)
      BY <1>0, WritesOrder
    <3>. QED
      BY <2>1, <3>1
  <2>. QED
    BY <1>0, <2>1, <2>2
<1>17. CASE ChildExits(c)
  BY <1>0, <1>17 DEF ChildExits, ChildEnds, LetsGo, chunkVars
<1>18. CASE ChildKilled(c)
  BY <1>0, <1>18 DEF ChildKilled, ChildEnds, LetsGo, chunkVars
<1>19. CASE HeirEnds(c)
  BY <1>0, <1>19 DEF HeirEnds, LetsGo, chunkVars
<1>. QED
  BY <1>1, <1>2, <1>3, <1>4, <1>5, <1>6, <1>7, <1>8, <1>9, <1>10, <1>11, <1>12, <1>13, <1>14,
     <1>15, <1>16, <1>17, <1>18, <1>19
     DEF OneCallStep, CallStep, ReaderStep

\* A step of one call keeps the invariant of every call.
LEMMA CallStepKeeps ==
    ASSUME CallsTypeOK, CallInv, NEW c \in Calls, OneCallStep(c)
    PROVE  CallsTypeOK' /\ CallInv'
<1>1. CallsTypeOK'
  BY ThreadsTyped, ProcessesTyped, PipesTyped DEF CallsTypeOK
<1>2. ASSUME NEW d \in Calls
      PROVE  CallInvOf(d)'
  <2>1. CASE d = c
    BY <2>1, OwnCall
  <2>2. CASE d # c
    <3>1. CallInvOf(d)
      BY DEF CallInv
    <3>. QED
      BY <2>2, <3>1, OtherCalls
         DEF CallInvOf, ChildHoldsPipe, OkIsEarned, HeirWritesLast, Drained
  <2>. QED
    BY <2>1, <2>2
<1>. QED
  BY <1>1, <1>2 DEF CallInv

\* The inductive invariant of run_cmdline's calls, for any number of them, of
\* chunks written and of pipe capacity.
THEOREM CallsInvariant == CallsSpec => [](CallsTypeOK /\ CallInv)
<1>1. CallsInit => CallsTypeOK /\ CallInv
  BY DEF CallsInit, CallsTypeOK, ThreadsTypeOK, ProcessesTypeOK, PipesTypeOK, CallInv,
         CallPCs, Results, Endings, Readers, CallInvOf, ChildHoldsPipe, OkIsEarned,
         HeirWritesLast, Drained
<1>2. CallsTypeOK /\ CallInv /\ [CallsNext]_callVars => CallsTypeOK' /\ CallInv'
  <2>. SUFFICES ASSUME CallsTypeOK, CallInv, [CallsNext]_callVars
                PROVE  CallsTypeOK' /\ CallInv'
    OBVIOUS
  <2>1. CASE \E c \in Calls : OneCallStep(c)
    BY <2>1, CallStepKeeps
  <2>2. CASE UNCHANGED callVars
    BY <2>2 DEF callVars, CallsTypeOK, ThreadsTypeOK, ProcessesTypeOK, PipesTypeOK, CallInv,
           CallInvOf, ChildHoldsPipe, OkIsEarned, HeirWritesLast, Drained
  <2>. QED
    BY <2>1, <2>2 DEF CallsNext, OneCallStep, CallsAtRest
<1>. QED
  BY <1>1, <1>2, PTL DEF CallsSpec, CallsSafety

\* A call that succeeds has all its child wrote to stdout, unless its reader
\* failed: the wait and the joins come before the exit code is read
\* (agent_cli.c:287-302), and whoever else holds the pipe writes after the child.
THEOREM SuccessIsWhole == CallsSpec => []OkMeansWhole
<1>1. CallsTypeOK /\ CallInv => OkMeansWhole
  BY DEF CallsTypeOK, PipesTypeOK, CallInv, CallInvOf, OkIsEarned, Drained, OkMeansWhole
<1>. QED
  BY <1>1, CallsInvariant, PTL

\* While a call takes its answer and frees the buffers, no reader stores what its
\* child has written (agent_cli.c:292-328); what a process that was left behind
\* writes is another matter, see NoWriteAfterReturn.
THEOREM AnswersAreSettled == CallsSpec => AnswerSettled
<1>. DEFINE Settled ==
        \A c \in Calls :
            reader[c] = "storing" /\ reader'[c] # "storing" =>
                pc[c] \notin {"close", "result", "returned"}
<1>1. CallsTypeOK /\ CallInv => Settled
  BY DEF CallsTypeOK, PipesTypeOK, CallInv, CallInvOf, Drained
<1>. QED
  BY <1>1, CallsInvariant, PTL DEF AnswerSettled
===============================================================================
