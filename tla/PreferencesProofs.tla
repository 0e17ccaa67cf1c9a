--------------------------- MODULE PreferencesProofs ---------------------------
(* Proofs about Preferences, for any bounds on toggles and ends of the process: *)
(* the lock, the temporary file and the rename are an atomic store, and no save *)
(* undoes a choice in a session that could read the file.                       *)
EXTENDS Preferences, TLAPS

Sessions == {"down", "loaded", "defaults"}
Files == [state : {"empty", "cut off", "whole"}, fields : SUBSET Flags]
SaverPCs == {"create", "write", "rename", "unlock"}

TypeOK ==
    /\ session \in Sessions
    /\ disabled \in SUBSET Flags /\ chosen \in SUBSET Flags
    /\ file \in Files /\ temp \in Files
    /\ lock \in Setters \cup {NoThread}
    /\ setter \in [Setters -> {"idle", "lock"} \cup SaverPCs]

\* The lock is held by the thread that saves, so there is one.
SaverHoldsLock == \A t \in Setters : setter[t] \in SaverPCs <=> lock = t

\* Nothing of a session is left once it has ended.
DownIsQuiet == ~Up => disabled = {} /\ \A t \in Setters : setter[t] = "idle"

\* The file is a whole save, and so is what is about to become it: the one of
\* the flags in memory.
SavesAreWhole ==
    /\ file.state = "whole"
    /\ \A t \in Setters : setter[t] = "rename" => temp = Whole(disabled)

\* What the user has chosen is what the file says before a session, and what
\* memory says in one that has read the file.
MemoryFollowsChoice ==
    /\ ~Up => chosen = file.fields
    /\ session = "loaded" => chosen = disabled

IInv ==
    /\ TypeOK /\ SaverHoldsLock /\ DownIsQuiet /\ SavesAreWhole /\ MemoryFollowsChoice

-------------------------------------------------------------------------------

\* The flags each change are two, and changing one twice changes nothing.
LEMMA FlagsOfSetters ==
    /\ \A t \in Setters : FlagOf(t) \in Flags
    /\ \A t \in Setters, flags \in SUBSET Flags :
          /\ Toggled(flags, t) \in SUBSET Flags
          /\ Toggled(Toggled(flags, t), t) = flags
  BY DEF Setters, FlagOf, Flags, Toggled

\* The inductive invariant of the two setters, their lock and their files.
THEOREM PreferencesInvariant == PreferencesSpec => []IInv
<1>. USE PreferencesConstants DEF Up, Sessions, Files, SaverPCs, Whole, Empty
<1>1. PreferencesInit => IInv
  BY DEF PreferencesInit, IInv, TypeOK, SaverHoldsLock, DownIsQuiet, SavesAreWhole,
         MemoryFollowsChoice, Setters
<1>2. IInv /\ [PreferencesNext]_preferencesVars => IInv'
  <2>. SUFFICES ASSUME IInv, [PreferencesNext]_preferencesVars
                PROVE  IInv'
    OBVIOUS
  <2>. USE DEF IInv, TypeOK, SaverHoldsLock, DownIsQuiet, SavesAreWhole, MemoryFollowsChoice
  <2>1. CASE Load \/ LoadFails
    BY <2>1 DEF Load, LoadFails, Starts
  <2>2. CASE End
    BY <2>2 DEF End, Setters
  <2>3. ASSUME NEW t \in Setters, Call(t)
        PROVE  IInv'
    BY <2>3 DEF Call, Moves
  <2>4. ASSUME NEW t \in Setters, ChangeFlag(t)
        PROVE  IInv'
    <3>1. disabled' \in SUBSET Flags /\ disabled' = Toggled(disabled, t)
      BY <2>4, FlagsOfSetters DEF ChangeFlag, Changes
    <3>2. chosen' \in SUBSET Flags
      BY <2>4, <3>1, FlagsOfSetters DEF ChangeFlag, Changes
    <3>3. session = "loaded" => chosen' = disabled'
      BY <2>4, <3>1 DEF ChangeFlag, Changes, Toggled
    <3>. QED
      BY <2>4, <3>1, <3>2, <3>3 DEF ChangeFlag, Changes, Moves
  <2>5. ASSUME NEW t \in Setters, CreateTemp(t) \/ WriteTemp(t) \/ Rename(t)
        PROVE  IInv'
    <3>1. lock = t /\ \A u \in Setters \ {t} : setter[u] \notin SaverPCs /\ setter'[u] = setter[u]
      BY <2>5 DEF CreateTemp, WriteTemp, Rename, Saves, Moves
    <3>2. CASE CreateTemp(t)
      BY <3>1, <3>2 DEF CreateTemp, Saves, Moves
    <3>3. CASE WriteTemp(t)
      BY <3>1, <3>3 DEF WriteTemp, Saves, Moves
    <3>4. CASE Rename(t)
      <4>1. file' = Whole(disabled) /\ temp' = Empty /\ setter' = [setter EXCEPT ![t] = "unlock"]
        BY <3>4 DEF Rename, Saves, Moves
      <4>2. UNCHANGED <<session, disabled, lock, chosen>> /\ Up
        BY <3>4 DEF Rename, Saves, Moves
      <4>3. file' \in Files /\ temp' \in Files /\ file'.state = "whole"
        BY <4>1
      <4>4. TypeOK' /\ SaverHoldsLock'
        BY <3>1, <4>1, <4>2, <4>3
      <4>. QED
        BY <3>1, <4>1, <4>2, <4>3, <4>4
    <3>. QED
      BY <2>5, <3>2, <3>3, <3>4
  <2>6. ASSUME NEW t \in Setters, SaveFails(t)
        PROVE  IInv'
    BY <2>6 DEF SaveFails, Saves, Moves
  <2>7. ASSUME NEW t \in Setters, Unlock(t)
        PROVE  IInv'
    BY <2>7 DEF Unlock, Moves
  <2>8. CASE UNCHANGED preferencesVars
    BY <2>8 DEF preferencesVars
  <2>. QED
    BY <2>1, <2>2, <2>3, <2>4, <2>5, <2>6, <2>7, <2>8
       DEF PreferencesNext, SaveStep, PreferencesAtRest
<1>. QED
  BY <1>1, <1>2, PTL DEF PreferencesSpec

\* Whatever step the process dies at, setters, lock and files are a store that
\* changes atomically (settings.h:5-6, app.c:121-123).
THEOREM PreferencesImplementStore == PreferencesSpec => ImplementsStore
<1>. USE PreferencesConstants DEF Up, Sessions, Files, SaverPCs, Whole, Empty, Seen
<1>1. PreferencesInit => Store!Init
  BY DEF PreferencesInit, Store!Init
<1>2. IInv /\ IInv' /\ [PreferencesNext]_preferencesVars => [Store!Next]_Store!store
  <2>. SUFFICES ASSUME IInv, IInv', [PreferencesNext]_preferencesVars
                PROVE  Store!Next \/ UNCHANGED Store!store
    OBVIOUS
  <2>. USE DEF IInv, TypeOK, SaverHoldsLock, DownIsQuiet, SavesAreWhole, Store!store
  <2>1. CASE Load \/ LoadFails
    <3>1. Store!Start
      BY <2>1 DEF Load, LoadFails, Starts, Store!Start
    <3>. QED
      BY <3>1 DEF Store!Next
  <2>2. CASE End
    <3>1. Store!End
      BY <2>2 DEF End, Store!End
    <3>. QED
      BY <3>1 DEF Store!Next
  <2>3. ASSUME NEW t \in Setters, Call(t) \/ CreateTemp(t) \/ WriteTemp(t) \/ Unlock(t)
        PROVE  UNCHANGED Store!store
    BY <2>3 DEF Call, CreateTemp, WriteTemp, Unlock, Saves, Moves
  <2>4. ASSUME NEW t \in Setters, ChangeFlag(t)
        PROVE  UNCHANGED Store!store
    <3>1. lock = NoThread /\ lock' = t /\ setter'[t] = "create"
      BY <2>4 DEF ChangeFlag, Changes, Moves
    <3>2. Toggled(disabled', t) = disabled
      BY <2>4, FlagsOfSetters DEF ChangeFlag, Changes
    <3>. QED
      BY <2>4, <3>1, <3>2 DEF ChangeFlag, Changes, Moves, Setters
  <2>5. ASSUME NEW t \in Setters, Rename(t)
        PROVE  Store!Next
    <3>1. lock = t /\ Seen = Toggled(disabled, t) /\ Seen' = disabled
      BY <2>5 DEF Rename, Saves, Moves, Setters
    <3>2. Seen' = Toggled(Seen, t)
      BY <3>1, FlagsOfSetters
    <3>3. file.state = "whole" /\ file' = Whole(disabled) /\ Up /\ UNCHANGED session
      BY <2>5 DEF Rename, Saves, Moves
    <3>4. Store!Set(FlagOf(t))
      BY <3>1, <3>2, <3>3 DEF Store!Set, Store!Flip, Toggled
    <3>. QED
      BY <3>4, FlagsOfSetters DEF Store!Next
  <2>6. ASSUME NEW t \in Setters, SaveFails(t)
        PROVE  Store!Next
    <3>1. lock = t /\ Seen = Toggled(disabled, t) /\ Seen' = disabled
      BY <2>6 DEF SaveFails, Saves, Moves, Setters
    <3>2. Seen' = Toggled(Seen, t)
      BY <3>1, FlagsOfSetters
    <3>3. Store!SetUnsaved(FlagOf(t))
      BY <2>6, <3>1, <3>2 DEF SaveFails, Saves, Moves, Store!SetUnsaved, Store!Flip, Toggled
    <3>. QED
      BY <3>3, FlagsOfSetters DEF Store!Next
  <2>7. CASE UNCHANGED preferencesVars
    BY <2>7 DEF preferencesVars
  <2>. QED
    BY <2>1, <2>2, <2>3, <2>4, <2>5, <2>6, <2>7
       DEF PreferencesNext, SaveStep, PreferencesAtRest
<1>. QED
  BY <1>1, <1>2, PreferencesInvariant, PTL DEF PreferencesSpec, ImplementsStore, Store!Spec

\* In a session that could read the file, a save stores the user's latest
\* choice of both flags (app.c:119-122).
THEOREM ChoicesSurviveOnceRead == PreferencesSpec => NoChoiceClobberedOnceRead
<1>1. IInv /\ [PreferencesNext]_preferencesVars =>
        [file' # file /\ session = "loaded" => file'.fields = chosen]_preferencesVars
  <2>. SUFFICES ASSUME IInv, [PreferencesNext]_preferencesVars, file' # file, session = "loaded"
                PROVE  file'.fields = chosen
    OBVIOUS
  <2>1. PICK t \in Setters : Rename(t)
    BY DEF PreferencesNext, SaveStep, PreferencesAtRest, Load, LoadFails, Starts, End, Call,
           ChangeFlag, Changes, CreateTemp, WriteTemp, SaveFails, Unlock, Saves, Moves, preferencesVars
  <2>. QED
    BY <2>1 DEF Rename, Saves, Moves, Whole, IInv, SavesAreWhole, MemoryFollowsChoice
<1>. QED
  BY <1>1, PreferencesInvariant, PTL DEF PreferencesSpec, NoChoiceClobberedOnceRead
===============================================================================
