------------------------------ MODULE PartsProofs ------------------------------
(* Proofs about Parts, for any inputs of its functions, any places the program    *)
(* is started from and any bounds on what the user, Explorer and the theme do.    *)
(* The functions are folds over sequences: each is shown to run through the       *)
(* sequence element by element (the lemmas named ...Runs), and what it computes   *)
(* is proved by induction on how far it has got.                                  *)
EXTENDS Parts, WellFoundedInduction, SequenceTheorems, FiniteSetTheorems, TLAPS

-------------------------------------------------------------------------------
\* The desktop

BeforeIcon == {"down", "reconcile", "theme", "window"}
Sessions == BeforeIcon \cup {"add", "version", "loop", "remove"}
Themes == {"dark", "light"}
Icons == [there : {TRUE}, glyph : Themes, clickable : BOOLEAN]

\* The process, the dialog and the entry.
LaunchTypeOK ==
    /\ session \in Sessions /\ looping \in BOOLEAN
    /\ entry \in Paths \cup {NoEntry, TooLong}
    /\ session # "down" => self \in Paths
    /\ box \in {"closed", "checked", "unchecked"}
    /\ wanted \in BOOLEAN /\ registryFailed \in BOOLEAN

\* The dialog belongs to a message loop, and that to a session with a window.
DialogNeedsLoop ==
    /\ box # "closed" => looping
    /\ looping => session \notin BeforeIcon

LaunchInv == LaunchTypeOK /\ DialogNeedsLoop /\ EntryFollowsUser

\* Explorer, the window and the icon.
IconTypeOK ==
    /\ session \in Sessions /\ looping \in BOOLEAN /\ taskbar \in BOOLEAN
    /\ theme \in Themes /\ known \in Themes /\ current \in Themes \cup {"none"}
    /\ shown = NoIcon \/ shown \in Icons
    /\ inbox \in [taskbarCreated : Nat, settingChange : Nat]
\* One icon, from the first NIM_ADD to tray_remove.
IconKept ==
    /\ icons = IF current = "none" THEN 0 ELSE 1
    /\ looping \/ session \in {"version", "loop", "remove"} => current # "none"
    /\ session \in BeforeIcon \cup {"add"} /\ ~looping => current = "none" /\ ~shown.there
    /\ looping => session \notin BeforeIcon
    /\ session \in {"loop", "remove"} => looping
\* A lost icon is one that a message will bring back.
IconComesBack ==
    /\ shown.there => taskbar
    /\ session \in {"version", "loop"} /\ taskbar =>
           shown.there \/ "icon" \in faults \/ inbox.taskbarCreated > 0
\* An outdated theme is one that a message will have read.
ThemeIsNoticed ==
    /\ session \in {"window", "add", "version", "loop"} =>
           \/ known = theme \/ inbox.settingChange > 0
           \/ "theme" \in faults /\ ~(session = "add" /\ looping)
    /\ session \in {"version", "loop"} /\ shown.there =>
           shown.glyph = known \/ "theme" \in faults
\* The version is set wherever an added icon is not about to have it set.
BalloonsClickable ==
    session \in {"add", "loop", "remove"} /\ shown.there =>
        shown.clickable \/ "clicks" \in faults

IconInv ==
    IconTypeOK /\ IconKept /\ IconComesBack /\ ThemeIsNoticed /\ BalloonsClickable

-------------------------------------------------------------------------------

\* The entry and the check box, over every start, click and failed write.
LEMMA LaunchInvariant == Spec => []LaunchInv
<1>. USE DEF BeforeIcon, Sessions
<1>0. \A path \in Paths : path \notin {NoEntry, TooLong}
  BY DesktopConstants
<1>1. Init => LaunchInv
  BY DEF Init, LaunchInv, LaunchTypeOK, DialogNeedsLoop, EntryFollowsUser
<1>2. LaunchInv /\ [Next]_vars => LaunchInv'
  <2>. SUFFICES ASSUME LaunchInv, [Next]_vars
                PROVE  LaunchInv'
    OBVIOUS
  <2>. USE DEF LaunchInv, LaunchTypeOK, DialogNeedsLoop, EntryFollowsUser, Readable, BoxOfEntry
  <2>1. ASSUME NEW path \in Paths, Start(path)
        PROVE  LaunchInv'
    BY <2>1 DEF Start, SessionGoes
  <2>2. CASE Reconcile \/ ReconcileFails
    <3>1. /\ session = "reconcile" /\ session' = "theme" /\ box = "closed"
          /\ UNCHANGED <<looping, self, wanted, box>>
      BY <2>2 DEF Reconcile, ReconcileFails, ReconcileGoes, SessionGoes
    <3>2. CASE Reconcile
      BY <3>1, <3>2, <1>0 DEF Reconcile
    <3>3. CASE ReconcileFails
      BY <3>1, <3>3 DEF ReconcileFails
    <3>. QED
      BY <2>2, <3>2, <3>3
  <2>3. CASE OpenDialog \/ CloseDialog
    BY <2>3 DEF OpenDialog, CloseDialog, DialogGoes
  <2>4. CASE SetEnabled \/ SetEnabledFails
    <3>1. /\ box \in {"checked", "unchecked"} /\ box' \in {"checked", "unchecked"}
          /\ UNCHANGED <<session, looping, self>>
      BY <2>4 DEF SetEnabled, SetEnabledFails, Click, DialogGoes
    <3>2. CASE SetEnabled /\ box' = "checked"
      BY <3>1, <3>2, <1>0 DEF SetEnabled
    <3>3. CASE SetEnabled /\ box' = "unchecked"
      BY <3>1, <3>3, <1>0 DEF SetEnabled
    <3>4. CASE SetEnabledFails
      BY <3>1, <3>4 DEF SetEnabledFails
    <3>. QED
      BY <2>4, <3>1, <3>2, <3>3, <3>4
  <2>5. CASE ThemeChanges \/ ExplorerEnds \/ ExplorerStarts \/ TaskbarRescaled
    <3>1. UNCHANGED <<session, looping, self, entry, box, wanted, registryFailed>>
      BY <2>5 DEF ThemeChanges, ExplorerEnds, ExplorerStarts, TaskbarRescaled, Happens,
                  launchVars
    <3>. QED
      BY <3>1
  <2>6. CASE UiStep \/ Quit
    <3>. USE DEF UiStep, ReadTheme, CreateWindow, AddIcon, AddFails, SetVersion,
                 SetVersionFails, VersionGoes, TaskbarCreated, ThemeIsKnown, RefreshIcon,
                 RefreshFails, Handles, Quit, UiGoes, SessionGoes
    <3>1. UNCHANGED <<self, entry, wanted, registryFailed, box>>
      BY <2>6
    <3>2. /\ session \in Sessions \ {"down", "reconcile"}
          /\ session' \in Sessions \ {"reconcile"}
      BY <2>6
    <3>3. \/ looping' = TRUE /\ session' = "loop"
          \/ looping' = looping /\ (looping => session' \notin BeforeIcon)
      BY <2>6
    <3>. HIDE DEF UiStep, Quit
    <3>4. LaunchTypeOK'
      BY <3>1, <3>2, <3>3
    <3>5. DialogNeedsLoop'
      BY <3>1, <3>3
    <3>6. EntryFollowsUser'
      BY <3>1, <3>2
    <3>. QED
      BY <3>4, <3>5, <3>6
  <2>7. CASE RemoveIcon
    BY <2>7 DEF RemoveIcon
  <2>8. CASE UNCHANGED vars
    BY <2>8 DEF vars, launchVars
  <2>. QED
    BY <2>1, <2>2, <2>3, <2>4, <2>5, <2>6, <2>7, <2>8 DEF Next, TurnedAway, AtRest
<1>. QED
  BY <1>1, <1>2, PTL DEF Spec

\* The login entry is what the user last asked for, and points at the running
\* copy (launch.h:13).
THEOREM LoginEntryFollowsUser == Spec => []EntryFollowsUser
  BY LaunchInvariant, PTL DEF LaunchInv

-------------------------------------------------------------------------------

\* What an icon and its absence say of themselves.
LEMMA IconFields ==
    /\ NoIcon.there = FALSE
    /\ \A icon \in Icons : icon.there = TRUE
    /\ \A glyph \in Themes, clickable \in BOOLEAN :
           /\ Icon(glyph, clickable) \in Icons
           /\ Icon(glyph, clickable).glyph = glyph
           /\ Icon(glyph, clickable).clickable = clickable
    /\ \A icon \in Icons : [icon EXCEPT !.clickable = TRUE] \in Icons
    /\ \A icon \in Icons, glyph \in Themes : [icon EXCEPT !.glyph = glyph] \in Icons
  BY DEF Icon, NoIcon, Icons, Themes

\* The icon in the taskbar, over every restart of Explorer, change of the theme
\* and failed call of the shell.
LEMMA IconInvariant == Spec => []IconInv
<1>. USE DEF BeforeIcon, Sessions, Themes
<1>1. Init => IconInv
  <2>. SUFFICES ASSUME Init PROVE IconInv
    OBVIOUS
  <2>. USE IconFields DEF Init, NoMessages
  <2>1. IconTypeOK
    BY DEF IconTypeOK
  <2>2. IconKept
    BY DEF IconKept
  <2>3. IconComesBack
    BY DEF IconComesBack
  <2>4. ThemeIsNoticed
    BY DEF ThemeIsNoticed
  <2>5. BalloonsClickable
    BY DEF BalloonsClickable
  <2>. QED
    BY <2>1, <2>2, <2>3, <2>4, <2>5 DEF IconInv
<1>2. IconInv /\ [Next]_vars => IconInv'
  <2>. SUFFICES ASSUME IconInv, [Next]_vars
                PROVE  IconInv'
    OBVIOUS
  <2>. USE IconFields DEF IconInv, IconTypeOK, IconKept, IconComesBack, ThemeIsNoticed,
                          BalloonsClickable, SessionGoes, NoMessages
  <2>1. ASSUME NEW path \in Paths, Start(path)
        PROVE  IconInv'
    BY <2>1 DEF Start, iconVars
  <2>2. CASE Reconcile \/ ReconcileFails
    BY <2>2 DEF Reconcile, ReconcileFails, ReconcileGoes, iconVars
  <2>3. CASE OpenDialog \/ CloseDialog \/ SetEnabled \/ SetEnabledFails
    BY <2>3 DEF OpenDialog, CloseDialog, SetEnabled, SetEnabledFails, Click, DialogGoes,
                shellVars, iconVars
  <2>4. CASE ThemeChanges
    BY <2>4 DEF ThemeChanges, Happens, Posted, HasWindow, iconVars
  <2>5. CASE ExplorerEnds
    BY <2>5 DEF ExplorerEnds, Happens, iconVars
  <2>6. CASE ExplorerStarts
    BY <2>6 DEF ExplorerStarts, Posted, HasWindow, iconVars
  <2>7. CASE TaskbarRescaled
    BY <2>7 DEF TaskbarRescaled, Happens, Posted, HasWindow, shellVars, iconVars
  <2>8. CASE ReadTheme
    BY <2>8 DEF ReadTheme, UiGoes
  <2>9. CASE CreateWindow
    BY <2>9 DEF CreateWindow, UiGoes, iconVars
  <2>10. CASE AddIcon
    <3>. USE <2>10 DEF AddIcon, UiGoes
    <3>1. IconTypeOK'
      OBVIOUS
    <3>2. IconKept'
      OBVIOUS
    <3>3. IconComesBack'
      OBVIOUS
    <3>4. ThemeIsNoticed'
      OBVIOUS
    <3>5. BalloonsClickable'
      OBVIOUS
    <3>. QED
      BY <3>1, <3>2, <3>3, <3>4, <3>5
  <2>11. CASE AddFails
    BY <2>11 DEF AddFails, UiGoes, iconVars
  <2>12. CASE SetVersion
    <3>. USE <2>12 DEF SetVersion, VersionGoes, UiGoes, iconVars
    <3>1. IconTypeOK'
      OBVIOUS
    <3>2. IconKept'
      OBVIOUS
    <3>3. IconComesBack'
      OBVIOUS
    <3>4. ThemeIsNoticed'
      OBVIOUS
    <3>5. BalloonsClickable'
      OBVIOUS
    <3>. QED
      BY <3>1, <3>2, <3>3, <3>4, <3>5
  <2>13. CASE SetVersionFails
    BY <2>13 DEF SetVersionFails, VersionGoes, UiGoes, iconVars
  <2>14. CASE TaskbarCreated
    BY <2>14 DEF TaskbarCreated, Handles, UiGoes
  <2>15. CASE ThemeIsKnown
    BY <2>15 DEF ThemeIsKnown, Handles, UiGoes
  <2>16. CASE RefreshIcon
    <3>. USE <2>16 DEF RefreshIcon, Handles, UiGoes
    <3>1. IconTypeOK'
      <4>1. shown' \in Icons
        OBVIOUS
      <4>2. inbox' \in [taskbarCreated : Nat, settingChange : Nat]
        OBVIOUS
      <4>. QED
        BY <4>1, <4>2
    <3>2. IconKept'
      OBVIOUS
    <3>3. IconComesBack'
      OBVIOUS
    <3>4. ThemeIsNoticed'
      OBVIOUS
    <3>5. BalloonsClickable'
      OBVIOUS
    <3>. QED
      BY <3>1, <3>2, <3>3, <3>4, <3>5
  <2>17. CASE RefreshFails
    BY <2>17 DEF RefreshFails, Handles, UiGoes
  <2>18. CASE Quit
    BY <2>18 DEF Quit, UiGoes, iconVars
  <2>19. CASE RemoveIcon
    <3>. USE <2>19 DEF RemoveIcon
    <3>1. IconTypeOK'
      OBVIOUS
    <3>2. IconKept'
      OBVIOUS
    <3>3. IconComesBack'
      OBVIOUS
    <3>4. ThemeIsNoticed'
      OBVIOUS
    <3>5. BalloonsClickable'
      OBVIOUS
    <3>. QED
      BY <3>1, <3>2, <3>3, <3>4, <3>5
  <2>20. CASE UNCHANGED vars
    BY <2>20 DEF vars, shellVars, iconVars
  <2>. QED
    BY <2>1, <2>2, <2>3, <2>4, <2>5, <2>6, <2>7, <2>8, <2>9, <2>10, <2>11, <2>12, <2>13,
       <2>14, <2>15, <2>16, <2>17, <2>18, <2>19, <2>20
       DEF Next, UiStep, TurnedAway, AtRest
<1>. QED
  BY <1>1, <1>2, PTL DEF Spec

\* With its messages handled the program has its one icon in the taskbar, in the
\* taskbar's theme and with clickable balloons, unless a call of the shell has
\* failed (tray.c:5-7, ui.c:152).
THEOREM IconServesTheUser == Spec => []IconServesUser
<1>1. IconInv => IconServesUser
  BY DEF IconInv, IconTypeOK, IconKept, IconComesBack, ThemeIsNoticed, BalloonsClickable,
         IconServesUser, NoMessages, BeforeIcon
<1>. QED
  BY <1>1, IconInvariant, PTL
-------------------------------------------------------------------------------
\* Induction and folds

\* Numbers that are there have a least one: < is well-founded.
LEMMA LeastNumber ==
    ASSUME NEW T, T \subseteq Nat, T # {}
    PROVE  \E n \in T : \A m \in T : n <= m
<1>. DEFINE R == OpToRel(<, Nat)
<1>1. IsWellFoundedOn(R, Nat)
  BY NatLessThanWellFounded
<1>2. \E n \in T : \A m \in T : <<m, n>> \notin R
  <2>. HIDE DEF R
  <2>. QED BY <1>1, WFMin
<1>3. ASSUME NEW n \in T, NEW m \in T, <<m, n>> \notin R
      PROVE n <= m
  BY <1>3 DEF OpToRel
<1>. QED
  BY <1>2, <1>3

\* Induction, over a set instead of a predicate.
LEMMA Induction ==
    ASSUME NEW T, 0 \in T, \A n \in Nat : n \in T => n + 1 \in T
    PROVE  Nat \subseteq T
<1>. SUFFICES ASSUME Nat \ T # {} PROVE FALSE
  OBVIOUS
<1>1. PICK n \in Nat \ T : \A m \in Nat \ T : n <= m
  BY LeastNumber
<1>. QED
  BY <1>1

\* The largest of some numbers up to n is one of them.
LEMMA MaxOfRange ==
    ASSUME NEW n \in Nat
    PROVE  /\ \A s \in SUBSET (1..n) : s # {} => Max(s) \in s /\ \A m \in s : m <= Max(s)
           /\ n > 0 => Max(1..n) = n
<1>1. ASSUME NEW s \in SUBSET (1..n), s # {}
      PROVE  Max(s) \in s /\ \A m \in s : m <= Max(s)
  <2>. DEFINE T == {m \in 0..n : n - m \in s}
  <2>0. \A j \in s : j \in 1..n /\ n - j \in T
    <3>. TAKE j \in s
    <3>1. j \in 1..n
      OBVIOUS
    <3>2. n - j \in 0..n /\ n - (n - j) = j
      BY <3>1
    <3>. QED
      BY <3>1, <3>2
  <2>1. T \subseteq Nat /\ T # {}
    <3>1. PICK j \in s : TRUE
      BY <1>1
    <3>2. T \subseteq Nat
      OBVIOUS
    <3>. HIDE DEF T
    <3>. QED
      BY <2>0, <3>1, <3>2
  <2>2. PICK k \in T : \A j \in T : k <= j
    <3>. HIDE DEF T
    <3>. QED
      BY <2>1, LeastNumber
  <2>3. \A j \in s : n - k >= j
    <3>. TAKE j \in s
    <3>1. j \in 1..n /\ k <= n - j /\ k \in 0..n
      BY <2>0, <2>2
    <3>. QED
      BY <3>1
  <2>4. n - k \in s
    OBVIOUS
  <2>. QED
    BY <2>3, <2>4 DEF Max
<1>2. ASSUME n > 0
      PROVE  Max(1..n) = n
  <2>1. 1..n \in SUBSET (1..n) /\ n \in 1..n
    BY <1>2
  <2>2. Max(1..n) \in 1..n /\ \A m \in 1..n : m <= Max(1..n)
    <3>. DEFINE s == 1..n
    <3>1. s # {} /\ s \in SUBSET (1..n)
      BY <2>1
    <3>. HIDE DEF s
    <3>2. Max(s) \in s /\ \A m \in s : m <= Max(s)
      BY <1>1, <3>1
    <3>. QED
      BY <3>2 DEF s
  <2>. QED
    BY <2>1, <2>2
<1>. QED
  BY <1>1, <1>2

\* F folds seq, from b on, over the subsets of its places, the largest place
\* last, as MapThenFoldSet does under FoldLeft.
FoldsOver(F, seq, b, step) ==
    \A s \in SUBSET (1..Len(seq)) :
        F[s] = IF s = {} THEN b ELSE step[<<F[s \ {Max(s)}], seq[Max(s)]>>]

\* Such a fold exists, by induction on the length of seq.
LEMMA FoldOverSets ==
    ASSUME NEW S, NEW E, NEW b \in S, NEW step \in [S \X E -> S], NEW seq \in Seq(E)
    PROVE  \E F \in [SUBSET (1..Len(seq)) -> S] : FoldsOver(F, seq, b, step)
<1>. DEFINE n == Len(seq)
<1>0. n \in Nat /\ seq \in [1..n -> E]
  OBVIOUS
<1>. HIDE DEF n
<1>. DEFINE IsFold(F, k) ==
              \A s \in SUBSET (1..k) :
                 F[s] = IF s = {} THEN b ELSE step[<<F[s \ {Max(s)}], seq[Max(s)]>>]
            Folds(k) == \E F \in [SUBSET (1..k) -> S] : IsFold(F, k)
            T == {k \in Nat : k <= n => Folds(k)}
<1>1. Folds(0)
  <2>. DEFINE F == [s \in SUBSET (1..0) |-> b]
  <2>0. \A s \in SUBSET (1..0) : s = {}
    OBVIOUS
  <2>1. F \in [SUBSET (1..0) -> S] /\ IsFold(F, 0)
    BY <2>0
  <2>. QED
    BY <2>1
<1>2. ASSUME NEW k \in Nat, Folds(k), k + 1 <= n
      PROVE  Folds(k + 1)
  <2>1. PICK F \in [SUBSET (1..k) -> S] : IsFold(F, k)
    BY <1>2
  <2>. DEFINE G == [s \in SUBSET (1..(k + 1)) |->
                       IF k + 1 \in s THEN step[<<F[s \ {k + 1}], seq[k + 1]>>] ELSE F[s]]
  <2>2. \A s \in SUBSET (1..(k + 1)) :
            /\ s \ {k + 1} \in SUBSET (1..k)
            /\ k + 1 \notin s => s \in SUBSET (1..k)
    OBVIOUS
  <2>3. k + 1 \in 1..n
    BY <1>0, <1>2
  <2>4. G \in [SUBSET (1..(k + 1)) -> S]
    <3>. SUFFICES ASSUME NEW s \in SUBSET (1..(k + 1)) PROVE G[s] \in S
      OBVIOUS
    <3>1. CASE k + 1 \in s
      <4>1. F[s \ {k + 1}] \in S /\ seq[k + 1] \in E
        BY <1>0, <2>2, <2>3
      <4>. QED
        BY <3>1, <4>1
    <3>. QED
      BY <2>2, <3>1
  <2>5. ASSUME NEW s \in SUBSET (1..(k + 1))
        PROVE  G[s] = IF s = {} THEN b ELSE step[<<G[s \ {Max(s)}], seq[Max(s)]>>]
    <3>0. s # {} => Max(s) \in s /\ \A m \in s : m <= Max(s)
      <4>1. k + 1 \in Nat
        OBVIOUS
      <4>. HIDE DEF G
      <4>. QED
        BY <4>1, MaxOfRange
    <3>1. CASE k + 1 \in s
      <4>1. Max(s) = k + 1
        <5>1. Max(s) \in 1..(k + 1) /\ k + 1 <= Max(s)
          BY <3>0, <3>1
        <5>. QED
          BY <5>1
      <4>2. G[s \ {k + 1}] = F[s \ {k + 1}]
        BY <2>2
      <4>. QED
        BY <3>1, <4>1, <4>2
    <3>2. CASE s = {}
      BY <2>1, <2>2, <3>2
    <3>3. CASE k + 1 \notin s /\ s # {}
      <4>1. s \in SUBSET (1..k) /\ s \ {Max(s)} \in SUBSET (1..k)
        BY <2>2, <3>3
      <4>2. k + 1 \notin s \ {Max(s)} /\ s \ {Max(s)} \in SUBSET (1..(k + 1))
        BY <3>3
      <4>3. G[s \ {Max(s)}] = F[s \ {Max(s)}] /\ G[s] = F[s]
        BY <4>2, <3>3
      <4>. QED
        BY <2>1, <3>3, <4>1, <4>3
    <3>. QED
      BY <3>1, <3>2, <3>3
  <2>. HIDE DEF G
  <2>. QED
    BY <2>4, <2>5
<1>. HIDE DEF Folds
<1>3. 0 \in T /\ \A k \in Nat : k \in T => k + 1 \in T
  BY <1>0, <1>1, <1>2
<1>4. n \in T
  <2>. HIDE DEF T
  <2>. QED
    BY <1>0, <1>3, Induction
<1>5. Folds(n)
  BY <1>0, <1>4
<1>. QED
  BY <1>5 DEF Folds, FoldsOver, n

\* Taking the largest place from the first k leaves the first k - 1.
LEMMA Ranges ==
    ASSUME NEW n \in Nat, NEW k \in 1..n
    PROVE  /\ 1..k \in SUBSET (1..n) /\ 1..k # {} /\ Max(1..k) = k
           /\ (1..k) \ {Max(1..k)} = 1..(k - 1)
<1>1. k \in Nat /\ k > 0
  OBVIOUS
<1>2. Max(1..k) = k
  BY <1>1, MaxOfRange
<1>. QED
  BY <1>1, <1>2
-------------------------------------------------------------------------------
\* Command lines

Text == Seq(Chars)
EscapeState == [text : Text, run : Nat]

\* n backslashes are n characters.
LEMMA BackslashesText ==
    ASSUME NEW n \in Nat
    PROVE  Backslashes(n) \in Text /\ Len(Backslashes(n)) = n
  BY DEF Backslashes, Text, Chars

\* Escaping a character keeps the state of the loop well-formed.
LEMMA EscapeTyped ==
    ASSUME NEW e \in EscapeState, NEW ch \in Chars
    PROVE  Escape(e, ch) \in EscapeState
<1>1. <<ch>> \in Text /\ <<>> \in Text
  BY DEF Text
<1>2. Backslashes(e.run + 1) \in Text
  BY BackslashesText DEF EscapeState
<1>. QED
  BY <1>1, <1>2 DEF Escape, EscapeState, Text

\* The escaped text, character by character.
LEMMA EscapeRuns ==
    ASSUME NEW b \in EscapeState, NEW seq \in Text
    PROVE  \E f : /\ f[0] = b
                  /\ \A k \in 1..Len(seq) : f[k] = Escape(f[k - 1], seq[k])
                  /\ FoldLeft(Escape, b, seq) = f[Len(seq)]
<1>. DEFINE n == Len(seq)
            step == [p \in EscapeState \X Chars |-> Escape(p[1], p[2])]
            IsFold(g) == g = [s \in SUBSET (1..n) |->
                 IF s = {} THEN b ELSE Escape(g[s \ {Max(s)}], seq[Max(s)])]
<1>1. n \in Nat /\ seq \in [1..n -> Chars] /\ DOMAIN seq = 1..n
  BY DEF Text
<1>2. step \in [EscapeState \X Chars -> EscapeState]
  BY EscapeTyped
<1>3. \E g : IsFold(g)
  <2>. HIDE DEF n, step, IsFold
  <2>1. PICK F \in [SUBSET (1..n) -> EscapeState] : FoldsOver(F, seq, b, step)
    BY <1>2, FoldOverSets DEF Text, n
  <2>2. ASSUME NEW s \in SUBSET (1..n)
        PROVE  F[s] = IF s = {} THEN b ELSE Escape(F[s \ {Max(s)}], seq[Max(s)])
    <3>1. CASE s # {}
      <4>1. F[s \ {Max(s)}] \in EscapeState
        OBVIOUS
      <4>2. seq[Max(s)] \in Chars
        BY <1>1, <3>1, MaxOfRange
      <4>. QED
        BY <2>1, <3>1, <4>1, <4>2 DEF step, FoldsOver, n
    <3>. QED
      BY <2>1, <3>1 DEF FoldsOver, n
  <2>. QED
    BY <2>2 DEF IsFold
<1>4. PICK g : IsFold(g) /\ FoldLeft(Escape, b, seq) = g[1..n]
  <2>1. FoldLeft(Escape, b, seq) = (CHOOSE g : IsFold(g))[1..n]
    BY <1>1 DEF FoldLeft, MapThenFoldSet
  <2>. QED
    BY <1>3, <2>1
<1>. DEFINE f == [k \in 0..n |-> g[1..k]]
<1>5. f[0] = b
  BY <1>1, <1>4
<1>6. \A k \in 1..n : f[k] = Escape(f[k - 1], seq[k])
  <2>. TAKE k \in 1..n
  <2>1. /\ 1..k \in SUBSET (1..n) /\ 1..k # {} /\ Max(1..k) = k
        /\ (1..k) \ {Max(1..k)} = 1..(k - 1)
    BY <1>1, Ranges
  <2>2. k \in 0..n /\ k - 1 \in 0..n
    BY <1>1
  <2>. QED
    BY <1>4, <2>1, <2>2
<1>7. FoldLeft(Escape, b, seq) = f[n]
  BY <1>1, <1>4
<1>. QED
  BY <1>5, <1>6, <1>7

ParseState ==
    [args : Seq(Text), arg : Text, inArg : BOOLEAN, quotes : {"outside", "inside", "closed"},
     run : Nat]

\* Text stays text when characters or text are appended.
LEMMA TextGrows ==
    /\ \A t \in Text, ch \in Chars : Append(t, ch) \in Text
    /\ \A t, u \in Text : t \o u \in Text
    /\ {Quote, Backslash, Space, Tab} \subseteq Chars /\ <<>> \in Text
  BY DEF Text, Chars

\* Reading a character keeps the state of the runtime well-formed.
LEMMA ParseCharTyped ==
    ASSUME NEW s \in ParseState, NEW ch \in Chars
    PROVE  ParseChar(s, ch) \in ParseState
<1>. USE DEF ParseState
<1>1. Flushed(s) \in Text
  BY TextGrows, BackslashesText DEF Flushed
<1>2. EndArg(s) \in ParseState
  <2>1. Append(s.args, Flushed(s)) \in Seq(Text)
    BY <1>1
  <2>. QED
    BY TextGrows, <2>1 DEF EndArg, ParseStart
<1>3. ParseQuote(s) \in ParseState
  <2>1. s.run \div 2 \in Nat
    OBVIOUS
  <2>2. s.arg \o Backslashes(s.run \div 2) \in Text
    BY TextGrows, <2>1, BackslashesText
  <2>. QED
    BY TextGrows, <2>2 DEF ParseQuote
<1>. DEFINE open == [s EXCEPT !.inArg = TRUE,
                       !.quotes = IF s.quotes = "inside" THEN "inside" ELSE "outside"]
<1>4. open \in ParseState
  OBVIOUS
<1>5. [open EXCEPT !.run = s.run + 1] \in ParseState
  <2>1. s.run + 1 \in Nat
    OBVIOUS
  <2>. HIDE DEF open
  <2>. QED
    BY <1>4, <2>1
<1>6. [open EXCEPT !.arg = Append(Flushed(s), ch), !.run = 0] \in ParseState
  <2>1. Append(Flushed(s), ch) \in Text
    BY TextGrows, <1>1
  <2>. HIDE DEF open
  <2>. QED
    BY <1>4, <2>1
<1>. HIDE DEF ParseState
<1>. QED
  BY <1>2, <1>3, <1>5, <1>6 DEF ParseChar

\* What the C runtime has read of a command line.
Parsed(line) == FoldLeft(ParseChar, ParseStart, line)

\* The runtime starts in a well-formed state.
LEMMA ParseStartTyped == ParseStart \in ParseState
  BY TextGrows DEF ParseStart, ParseState

\* What the runtime reads, character by character.
LEMMA ParseRuns ==
    ASSUME NEW seq \in Text
    PROVE  \E f : /\ f[0] = ParseStart
                  /\ \A k \in 1..Len(seq) : f[k] = ParseChar(f[k - 1], seq[k])
                  /\ Parsed(seq) = f[Len(seq)]
<1>. DEFINE n == Len(seq)
            b == ParseStart
            step == [p \in ParseState \X Chars |-> ParseChar(p[1], p[2])]
            IsFold(g) == g = [s \in SUBSET (1..n) |->
                 IF s = {} THEN b ELSE ParseChar(g[s \ {Max(s)}], seq[Max(s)])]
<1>1. n \in Nat /\ seq \in [1..n -> Chars] /\ DOMAIN seq = 1..n /\ b \in ParseState
  BY ParseStartTyped DEF Text
<1>2. step \in [ParseState \X Chars -> ParseState]
  BY ParseCharTyped
<1>3. \E g : IsFold(g)
  <2>. HIDE DEF n, b, step, IsFold
  <2>1. PICK F \in [SUBSET (1..n) -> ParseState] : FoldsOver(F, seq, b, step)
    BY <1>1, <1>2, FoldOverSets DEF Text, n
  <2>2. ASSUME NEW s \in SUBSET (1..n)
        PROVE  F[s] = IF s = {} THEN b ELSE ParseChar(F[s \ {Max(s)}], seq[Max(s)])
    <3>1. CASE s # {}
      <4>1. F[s \ {Max(s)}] \in ParseState
        OBVIOUS
      <4>2. seq[Max(s)] \in Chars
        BY <1>1, <3>1, MaxOfRange
      <4>. QED
        BY <2>1, <3>1, <4>1, <4>2 DEF step, FoldsOver, n
    <3>. QED
      BY <2>1, <3>1 DEF FoldsOver, n
  <2>. QED
    BY <2>2 DEF IsFold
<1>4. PICK g : IsFold(g) /\ Parsed(seq) = g[1..n]
  <2>1. Parsed(seq) = (CHOOSE g : IsFold(g))[1..n]
    BY <1>1 DEF FoldLeft, MapThenFoldSet, Parsed
  <2>. QED
    BY <1>3, <2>1
<1>. HIDE DEF b
<1>. DEFINE f == [k \in 0..n |-> g[1..k]]
<1>5. f[0] = b
  BY <1>1, <1>4
<1>6. \A k \in 1..n : f[k] = ParseChar(f[k - 1], seq[k])
  <2>. TAKE k \in 1..n
  <2>1. /\ 1..k \in SUBSET (1..n) /\ 1..k # {} /\ Max(1..k) = k
        /\ (1..k) \ {Max(1..k)} = 1..(k - 1)
    BY <1>1, Ranges
  <2>2. k \in 0..n /\ k - 1 \in 0..n
    BY <1>1
  <2>. QED
    BY <1>4, <2>1, <2>2
<1>7. Parsed(seq) = f[n]
  BY <1>1, <1>4
<1>. QED
  BY <1>5, <1>6, <1>7 DEF b

\* Reading a line and one character is reading the line, then the character.
LEMMA ParsedOneMore ==
    /\ Parsed(<<>>) = ParseStart
    /\ \A u \in Text, ch \in Chars : Parsed(Append(u, ch)) = ParseChar(Parsed(u), ch)
<1>1. Parsed(<<>>) = ParseStart
  <2>1. <<>> \in Text /\ Len(<<>>) = 0
    BY TextGrows
  <2>. QED
    BY <2>1, ParseRuns
<1>2. ASSUME NEW u \in Text, NEW ch \in Chars
      PROVE  Parsed(Append(u, ch)) = ParseChar(Parsed(u), ch)
  <2>. DEFINE n == Len(u)
              v == Append(u, ch)
  <2>1. /\ n \in Nat /\ Len(v) = n + 1 /\ v[n + 1] = ch /\ v \in Text
        /\ \A k \in 1..n : v[k] = u[k]
    BY DEF Text
  <2>2. PICK f : /\ f[0] = ParseStart
                 /\ \A k \in 1..n : f[k] = ParseChar(f[k - 1], u[k])
                 /\ Parsed(u) = f[n]
    BY ParseRuns
  <2>. HIDE DEF v
  <2>3. PICK h : /\ h[0] = ParseStart
                 /\ \A k \in 1..(n + 1) : h[k] = ParseChar(h[k - 1], v[k])
                 /\ Parsed(v) = h[n + 1]
    BY <2>1, ParseRuns
  <2>. DEFINE T == {k \in Nat : k <= n => f[k] = h[k]}
  <2>. HIDE DEF n
  <2>4. 0 \in T
    BY <2>2, <2>3
  <2>5. ASSUME NEW k \in Nat, k \in T PROVE k + 1 \in T
    <3>. SUFFICES ASSUME k + 1 <= n PROVE f[k + 1] = h[k + 1]
      OBVIOUS
    <3>1. f[k] = h[k] /\ k + 1 \in 1..n /\ k + 1 \in 1..(n + 1) /\ (k + 1) - 1 = k
      BY <2>1, <2>5
    <3>. QED
      BY <2>1, <2>2, <2>3, <3>1
  <2>6. n \in T
    <3>. HIDE DEF T
    <3>. QED
      BY <2>1, <2>4, <2>5, Induction
  <2>7. f[n] = h[n] /\ n + 1 \in 1..(n + 1) /\ (n + 1) - 1 = n
    BY <2>1, <2>6
  <2>. QED
    BY <2>1, <2>2, <2>3, <2>7 DEF v
<1>. QED
  BY <1>1, <1>2

\* Appending to a concatenation is appending to its last part.
LEMMA AppendToConcat ==
    ASSUME NEW t \in Text, NEW u \in Text, NEW ch \in Chars
    PROVE  t \o Append(u, ch) = Append(t \o u, ch)
  BY DEF Text

\* n + 1 backslashes are n and one more.
LEMMA OneMoreBackslash ==
    ASSUME NEW n \in Nat
    PROVE  Backslashes(n + 1) = Append(Backslashes(n), Backslash)
  BY DEF Backslashes

\* No backslashes are nothing.
LEMMA NoBackslash ==
    /\ Backslashes(0) = <<>>
    /\ \A t \in Text : t \o Backslashes(0) = t
  BY DEF Backslashes, Text

\* Whatever the runtime has read, its state is well-formed.
LEMMA ParsedTyped ==
    ASSUME NEW u \in Text
    PROVE  Parsed(u) \in ParseState
<1>. DEFINE n == Len(u)
<1>1. PICK f : /\ f[0] = ParseStart
               /\ \A k \in 1..n : f[k] = ParseChar(f[k - 1], u[k])
               /\ Parsed(u) = f[n]
  BY ParseRuns
<1>. DEFINE T == {k \in Nat : k <= n => f[k] \in ParseState}
<1>2. n \in Nat /\ \A k \in 1..n : u[k] \in Chars
  BY DEF Text
<1>. HIDE DEF n
<1>3. 0 \in T
  BY <1>1, ParseStartTyped
<1>4. ASSUME NEW k \in Nat, k \in T PROVE k + 1 \in T
  <2>. SUFFICES ASSUME k + 1 <= n PROVE f[k + 1] \in ParseState
    OBVIOUS
  <2>1. f[k] \in ParseState /\ k + 1 \in 1..n /\ (k + 1) - 1 = k
    BY <1>2, <1>4
  <2>. QED
    BY <1>1, <1>2, <2>1, ParseCharTyped
<1>5. n \in T
  <2>. HIDE DEF T
  <2>. QED
    BY <1>2, <1>3, <1>4, Induction
<1>. QED
  BY <1>1, <1>2, <1>5

\* One more character between quotes.
LEMMA ParseInside ==
    ASSUME NEW s \in ParseState, s.inArg, s.quotes = "inside"
    PROVE  /\ ParseChar(s, Backslash) = [s EXCEPT !.run = @ + 1]
           /\ \A ch \in Chars \ {Quote, Backslash} :
                  ParseChar(s, ch) = [s EXCEPT !.arg = Append(Flushed(s), ch), !.run = 0]
           /\ s.run % 2 = 1 => ParseChar(s, Quote) =
                  [s EXCEPT !.arg = Append(s.arg \o Backslashes(s.run \div 2), Quote), !.run = 0]
           /\ s.run % 2 = 0 => ParseChar(s, Quote) =
                  [s EXCEPT !.arg = s.arg \o Backslashes(s.run \div 2), !.quotes = "closed",
                            !.run = 0]
<1>0. [s EXCEPT !.inArg = TRUE,
                     !.quotes = IF s.quotes = "inside" THEN "inside" ELSE "outside"] = s
  BY DEF ParseState
<1>1. [s EXCEPT !.inArg = TRUE, !.run = 0] = [s EXCEPT !.run = 0]
  BY DEF ParseState
<1>. DEFINE next == [s EXCEPT !.run = 0]
            half == s.arg \o Backslashes(s.run \div 2)
<1>2. ParseChar(s, Backslash) = [s EXCEPT !.run = @+1]
  BY <1>0 DEF ParseChar, Quote, Backslash
<1>3. \A ch \in Chars \ {Quote, Backslash}: ParseChar(s,ch) = [s EXCEPT !.arg = Append(Flushed(s), ch), !.run = 0]
  BY <1>0 DEF ParseChar, Quote, Backslash
<1>8. ParseChar(s, Quote) = ParseQuote(s)
  BY DEF ParseChar, Quote, Backslash, Space, Tab
<1>9. next = [s EXCEPT !.inArg = TRUE, !.run = 0]
  BY <1>1
<1>. HIDE DEF next
<1>4. s.run%2=1 => ParseChar(s,Quote) = [next EXCEPT !.arg = Append(half, Quote)]
  BY <1>8, <1>9 DEF ParseQuote
<1>5. s.run%2=0 => ParseChar(s,Quote) = [next EXCEPT !.arg = half, !.quotes = "closed"]
  BY <1>8, <1>9 DEF ParseQuote
<1>6. [next EXCEPT !.arg = half, !.quotes = "closed"] = [s EXCEPT !.arg = half, !.quotes="closed", !.run=0]
  BY DEF ParseState, next
<1>7. [next EXCEPT !.arg = Append(half, Quote)] = [s EXCEPT !.arg = Append(half, Quote), !.run=0]
  BY DEF ParseState, next
<1>. QED BY <1>2, <1>3, <1>4, <1>5, <1>6, <1>7

\* Backslashes inside quotes are counted.
LEMMA ParsedBackslashes ==
    ASSUME NEW u \in Text, Parsed(u).inArg, Parsed(u).quotes = "inside", NEW n \in Nat
    PROVE  Parsed(u \o Backslashes(n)) = [Parsed(u) EXCEPT !.run = @ + n]
<1>. DEFINE s == Parsed(u)
            T == {k \in Nat : Parsed(u \o Backslashes(k)) = [s EXCEPT !.run = @ + k]}
<1>0. s \in ParseState
  BY ParsedTyped
<1>1. 0 \in T
  <2>1. [s EXCEPT !.run = @ + 0] = s
    BY <1>0 DEF ParseState
  <2>. QED
    BY <2>1, NoBackslash
<1>2. ASSUME NEW k \in Nat, k \in T PROVE k + 1 \in T
  <2>. DEFINE v == u \o Backslashes(k)
              r == [s EXCEPT !.run = @ + k]
  <2>1. v \in Text /\ Backslashes(k) \in Text /\ Backslash \in Chars
    BY BackslashesText, TextGrows
  <2>2. u \o Backslashes(k + 1) = Append(v, Backslash)
    BY <2>1, OneMoreBackslash, AppendToConcat
  <2>3. Parsed(v) = r
    BY <1>2
  <2>4. Parsed(Append(v, Backslash)) = ParseChar(r, Backslash)
    BY <2>1, <2>3, ParsedOneMore
  <2>5. ParseChar(r, Backslash) = [s EXCEPT !.run = @ + (k + 1)]
    <3>1. r \in ParseState /\ r.inArg /\ r.quotes = "inside"
      BY <1>0 DEF ParseState
    <3>2. [r EXCEPT !.run = @ + 1] = [s EXCEPT !.run = @ + (k + 1)]
      <4>1. r.run = s.run + k /\ s.run \in Nat
        BY <1>0 DEF ParseState
      <4>2. r.run + 1 = s.run + (k + 1)
        BY <4>1
      <4>3. [r EXCEPT !.run = s.run + (k + 1)] = [s EXCEPT !.run = s.run + (k + 1)]
        BY <1>0 DEF ParseState
      <4>. HIDE DEF r, s
      <4>. QED
        BY <4>2, <4>3
    <3>. HIDE DEF r
    <3>. QED
      BY <3>1, <3>2, ParseInside
  <2>6. Parsed(u \o Backslashes(k + 1)) = [s EXCEPT !.run = @ + (k + 1)]
    <3>. HIDE DEF v, r, s
    <3>. QED
      BY <2>2, <2>4, <2>5
  <2>. QED
    BY <2>6
<1>. HIDE DEF T
<1>3. n \in T
  BY <1>1, <1>2, Induction
<1>. QED
  BY <1>3 DEF T

\* What the C runtime has read inside quotes: of the arguments args the last one
\* is open, and its characters are those of arg.
Inside(s, args, arg) ==
    /\ s \in ParseState /\ s.inArg /\ s.quotes = "inside"
    /\ s.args = args /\ Flushed(s) = arg

\* How text is put together.
LEMMA TextConcat ==
    /\ \A t, u, v \in Text : (t \o u) \o v = t \o (u \o v)
    /\ \A t \in Text : <<>> \o t = t /\ t \o <<>> = t
    /\ \A ch \in Chars : <<ch>> \in Text
    /\ \A t \in Text, ch \in Chars : t \o <<ch>> = Append(t, ch)
    /\ \A t, u \in Text, ch \in Chars : t \o Append(u, ch) = Append(t \o u, ch)
<1>1. \A t \in Text, ch \in Chars : t \o <<ch>> = Append(t, ch)
  BY DEF Text
<1>2. \A t, u, v \in Text : (t \o u) \o v = t \o (u \o v)
  BY ConcatAssociative DEF Text
<1>3. \A ch \in Chars : <<ch>> \in Text
  BY DEF Text
<1>4. \A t \in Text : <<>> \o t = t /\ t \o <<>> = t
  BY DEF Text
<1>. QED
  BY <1>1, <1>2, <1>3, <1>4, AppendToConcat

\* Concatenation of text is associative.
LEMMA ConcatText ==
    ASSUME NEW t \in Text, NEW u \in Text, NEW v \in Text
    PROVE  (t \o u) \o v = t \o (u \o v)
  BY TextConcat

\* Escaping one more character: the runtime reads it back.
LEMMA EscapeStepRead ==
    ASSUME NEW v \in Text, NEW e \in EscapeState, NEW ch \in Chars, NEW args, NEW arg \in Text,
           Inside(Parsed(v \o e.text), args, arg), Parsed(v \o e.text).run = e.run
    PROVE  LET e2 == Escape(e, ch)
               s2 == Parsed(v \o e2.text)
           IN  Inside(s2, args, Append(arg, ch)) /\ s2.run = e2.run
<1>. DEFINE w == v \o e.text
            s == Parsed(w)
            e2 == Escape(e, ch)
<1>1. /\ e.text \in Text /\ e.run \in Nat /\ w \in Text /\ s \in ParseState
      /\ s.inArg /\ s.quotes = "inside" /\ s.run = e.run /\ s.args = args
      /\ s.arg \o Backslashes(s.run) = arg /\ s.arg \in Text
  BY TextGrows DEF EscapeState, Inside, Flushed, ParseState
<1>2. CASE ch = Quote
  <2>. DEFINE run == e.run + 1
              x == w \o Backslashes(run)
              r == [s EXCEPT !.run = @ + run]
  <2>1. /\ run \in Nat /\ Backslashes(run) \in Text /\ x \in Text /\ <<ch>> \in Text
        /\ e.text \o Backslashes(run) \in Text /\ Quote \in Chars
    BY <1>1, BackslashesText, TextGrows DEF Text
  <2>2. e2.text = Append(e.text \o Backslashes(run), Quote) /\ e2.run = 0
    <3>1. /\ e2.text = (e.text \o Backslashes(run)) \o <<Quote>>
          /\ e2.run = 0
      BY <1>1, <1>2, <2>1, TextConcat DEF Escape, Quote, Backslash
    <3>. QED
      BY <2>1, <3>1, TextConcat
  <2>3. v \o e2.text = Append(x, Quote)
    <3>1. v \o (e.text \o Backslashes(run)) = x
      <4>. HIDE DEF run
      <4>1. (v \o e.text) \o Backslashes(run) = v \o (e.text \o Backslashes(run))
        <5>1. v \in Text /\ e.text \in Text /\ Backslashes(run) \in Text
          BY <1>1, <2>1
        <5>. QED
          BY <5>1, ConcatText
      <4>. QED
        BY <4>1
    <3>2. /\ v \in Text /\ e.text \o Backslashes(run) \in Text /\ Quote \in Chars
          /\ e2.text = Append(e.text \o Backslashes(run), Quote)
      BY <2>1, <2>2
    <3>. HIDE DEF e2, x, run, w
    <3>3. v \o Append(e.text \o Backslashes(run), Quote)
              = Append(v \o (e.text \o Backslashes(run)), Quote)
      BY <3>2, AppendToConcat
    <3>. QED
      BY <3>1, <3>2, <3>3
  <2>4. Parsed(x) = r
    <3>. HIDE DEF w, run
    <3>. QED
      BY <1>1, <2>1, ParsedBackslashes
  <2>5. /\ r \in ParseState /\ r.inArg /\ r.quotes = "inside" /\ r.arg = s.arg /\ r.args = args
        /\ r.run = 2 * e.run + 1
    BY <1>1 DEF ParseState
  <2>6. r.run % 2 = 1 /\ r.run \div 2 = e.run
    BY <1>1, <2>5
  <2>. DEFINE s2 == [r EXCEPT !.arg = Append(arg, Quote), !.run = 0]
  <2>7. ParseChar(r, Quote) = s2
    <3>1. s.arg \o Backslashes(r.run \div 2) = arg
      BY <1>1, <2>6
    <3>. HIDE DEF r
    <3>. QED
      BY <2>5, <2>6, <3>1, ParseInside
  <2>8. Inside(s2, args, Append(arg, Quote)) /\ s2.run = 0
    <3>. HIDE DEF r
    <3>1. Append(arg, Quote) \in Text
      BY TextGrows
    <3>2. s2 \in ParseState /\ s2.inArg /\ s2.quotes = "inside" /\ s2.args = args
          /\ s2.arg = Append(arg, Quote) /\ s2.run = 0
      BY <2>5, <3>1 DEF ParseState
    <3>. HIDE DEF s2
    <3>. QED
      BY <3>1, <3>2, NoBackslash DEF Inside, Flushed
  <2>9. Parsed(v \o e2.text) = s2
    <3>. HIDE DEF e2, x, r, s2
    <3>. QED
      BY <2>1, <2>3, <2>4, <2>7, ParsedOneMore
  <2>. HIDE DEF e2, s2
  <2>. QED
    BY <1>2, <2>2, <2>8, <2>9 DEF e2
<1>3. CASE ch # Quote
  <2>1. e2.text = Append(e.text, ch) /\ e2.run = IF ch = Backslash THEN e.run + 1 ELSE 0
    BY <1>1, <1>3, TextConcat DEF Escape
  <2>2. Parsed(v \o e2.text) = ParseChar(s, ch)
    <3>. HIDE DEF e2
    <3>1. v \o Append(e.text, ch) = Append(w, ch)
      BY <1>1, AppendToConcat
    <3>2. Parsed(Append(w, ch)) = ParseChar(s, ch)
      BY <1>1, ParsedOneMore
    <3>. QED
      BY <2>1, <3>1, <3>2
  <2>3. CASE ch = Backslash
    <3>. DEFINE s2 == [s EXCEPT !.run = @ + 1]
    <3>1. ParseChar(s, ch) = s2
      <4>. HIDE DEF s
      <4>. QED
        BY <1>1, <2>3, ParseInside
    <3>2. /\ s2 \in ParseState /\ s2.inArg /\ s2.quotes = "inside" /\ s2.args = args
          /\ s2.arg = s.arg /\ s2.run = e.run + 1
      BY <1>1 DEF ParseState
    <3>3. s.arg \o Backslashes(e.run + 1) = Append(arg, Backslash)
      <4>1. Backslashes(e.run) \in Text /\ Backslash \in Chars
        BY <1>1, BackslashesText, TextGrows
      <4>2. Backslashes(e.run + 1) = Append(Backslashes(e.run), Backslash)
        BY <1>1, OneMoreBackslash
      <4>3. s.arg \in Text /\ s.arg \o Backslashes(e.run) = arg
        BY <1>1
      <4>. HIDE DEF s
      <4>4. s.arg \o Append(Backslashes(e.run), Backslash)
                = Append(s.arg \o Backslashes(e.run), Backslash)
        BY <4>1, <4>3, AppendToConcat
      <4>. QED
        BY <4>2, <4>3, <4>4
    <3>. HIDE DEF e2, s2, s
    <3>. QED
      BY <2>1, <2>2, <2>3, <3>1, <3>2, <3>3 DEF Inside, Flushed, e2
  <2>4. CASE ch # Backslash
    <3>. DEFINE s2 == [s EXCEPT !.arg = Append(arg, ch), !.run = 0]
    <3>1. ParseChar(s, ch) = s2
      <4>. HIDE DEF s
      <4>. QED
        BY <1>1, <1>3, <2>4, ParseInside DEF Flushed
    <3>2. Append(arg, ch) \in Text
      BY TextGrows
    <3>3. /\ s2 \in ParseState /\ s2.inArg /\ s2.quotes = "inside" /\ s2.args = args
          /\ s2.arg = Append(arg, ch) /\ s2.run = 0
      BY <1>1, <3>2 DEF ParseState
    <3>. HIDE DEF e2, s2, s
    <3>. QED
      BY <2>1, <2>2, <2>4, <3>1, <3>2, <3>3, NoBackslash DEF Inside, Flushed, e2
  <2>. QED
    BY <2>3, <2>4
<1>. QED
  BY <1>2, <1>3

\* The C runtime stands between two arguments, with args read.
Between(args) == [ParseStart EXCEPT !.args = args]

\* With the end of the line it has read args.
Complete(line, args) ==
    /\ line \in Text /\ Parsed(line).inArg /\ Parsed(line).quotes # "inside"
    /\ EndArg(Parsed(line)) = Between(args)

\* A prefix of a text grows by its next character.
LEMMA TextPrefixes ==
    ASSUME NEW t \in Text
    PROVE  /\ Len(t) \in Nat /\ SubSeq(t, 1, 0) = <<>> /\ SubSeq(t, 1, Len(t)) = t
           /\ \A k \in 1..Len(t) : t[k] \in Chars
           /\ \A k \in Nat : k + 1 <= Len(t) =>
                  /\ SubSeq(t, 1, k) \in Text
                  /\ SubSeq(t, 1, k + 1) = Append(SubSeq(t, 1, k), t[k + 1])
<1>1. SubSeq(t, 1, 0) = <<>>
  BY DEF Text
<1>2. SubSeq(t, 1, Len(t)) = t
  BY DEF Text
<1>3. Len(t) \in Nat /\ \A k \in 1..Len(t) : t[k] \in Chars
  BY DEF Text
<1>4. ASSUME NEW k \in Nat, k + 1 <= Len(t)
      PROVE  /\ SubSeq(t, 1, k) \in Text
             /\ SubSeq(t, 1, k + 1) = Append(SubSeq(t, 1, k), t[k + 1])
  BY <1>4 DEF Text
<1>. QED
  BY <1>1, <1>2, <1>3, <1>4

\* The escaped characters are read back.
LEMMA EscapedRead ==
    ASSUME NEW v \in Text, NEW args, NEW arg \in Text,
           Inside(Parsed(v), args, <<>>), Parsed(v).run = 0
    PROVE  /\ Escaped(arg) \in EscapeState
           /\ Inside(Parsed(v \o Escaped(arg).text), args, arg)
           /\ Parsed(v \o Escaped(arg).text).run = Escaped(arg).run
<1>. DEFINE n == Len(arg)
            b == [text |-> <<>>, run |-> 0]
<1>0. b \in EscapeState
  BY TextGrows DEF EscapeState
<1>1. PICK f : /\ f[0] = b
               /\ \A k \in 1..n : f[k] = Escape(f[k - 1], arg[k])
               /\ Escaped(arg) = f[n]
  BY <1>0, EscapeRuns DEF Escaped
<1>. DEFINE Read(k) == /\ f[k] \in EscapeState
                       /\ Inside(Parsed(v \o f[k].text), args, SubSeq(arg, 1, k))
                       /\ Parsed(v \o f[k].text).run = f[k].run
            T == {k \in Nat : k <= n => Read(k)}
<1>2. /\ n \in Nat /\ SubSeq(arg, 1, 0) = <<>> /\ SubSeq(arg, 1, n) = arg
      /\ \A k \in 1..n : arg[k] \in Chars
      /\ \A k \in Nat : k + 1 <= n =>
             /\ SubSeq(arg, 1, k) \in Text
             /\ SubSeq(arg, 1, k + 1) = Append(SubSeq(arg, 1, k), arg[k + 1])
  BY TextPrefixes
<1>. HIDE DEF n
<1>3. Read(0)
  <2>1. v \o b.text = v /\ b.run = 0
    BY TextConcat
  <2>. HIDE DEF b
  <2>. QED
    BY <1>0, <1>1, <1>2, <2>1
<1>4. ASSUME NEW k \in Nat, Read(k), k + 1 <= n
      PROVE  Read(k + 1)
  <2>. DEFINE e == f[k]
              ch == arg[k + 1]
              e2 == Escape(e, ch)
  <2>1. k + 1 \in 1..n /\ (k + 1) - 1 = k
    BY <1>2, <1>4
  <2>2. f[k + 1] = e2
    BY <1>1, <2>1
  <2>3. e \in EscapeState /\ ch \in Chars /\ SubSeq(arg, 1, k) \in Text
        /\ Inside(Parsed(v \o e.text), args, SubSeq(arg, 1, k))
        /\ Parsed(v \o e.text).run = e.run
    BY <1>2, <1>4, <2>1
  <2>. HIDE DEF e, ch
  <2>4. e2 \in EscapeState
    BY <2>3, EscapeTyped
  <2>5. Inside(Parsed(v \o e2.text), args, Append(SubSeq(arg, 1, k), ch))
        /\ Parsed(v \o e2.text).run = e2.run
    BY <2>3, EscapeStepRead
  <2>6. SubSeq(arg, 1, k + 1) = Append(SubSeq(arg, 1, k), ch)
    BY <1>2, <1>4 DEF ch
  <2>. HIDE DEF e2
  <2>. QED
    BY <2>2, <2>4, <2>5, <2>6
<1>. HIDE DEF Read
<1>5. 0 \in T /\ \A k \in Nat : k \in T => k + 1 \in T
  BY <1>2, <1>3, <1>4
<1>6. n \in T
  <2>. HIDE DEF T
  <2>. QED
    BY <1>2, <1>5, Induction
<1>7. Read(n)
  BY <1>2, <1>6
<1>. QED
  BY <1>1, <1>2, <1>7 DEF Read

\* What the state between two arguments holds.
LEMMA BetweenTyped ==
    ASSUME NEW args \in Seq(Text)
    PROVE  /\ Between(args) \in ParseState /\ Between(args).args = args
           /\ Between(args).arg = <<>> /\ ~Between(args).inArg
           /\ Between(args).quotes = "outside" /\ Between(args).run = 0
  BY TextGrows DEF Between, ParseStart, ParseState

\* A quoted argument is read back.
LEMMA QuotedRead ==
    ASSUME NEW u \in Text, NEW args \in Seq(Text), NEW arg \in Text, Parsed(u) = Between(args)
    PROVE  Complete(u \o Quoted(arg), Append(args, arg))
<1>. DEFINE v == Append(u, Quote)
            e == Escaped(arg)
            w == v \o e.text
            x == w \o Backslashes(e.run)
            s == Parsed(w)
            r == [s EXCEPT !.run = @ + e.run]
            z == [r EXCEPT !.arg = arg, !.quotes = "closed", !.run = 0]
<1>1. v \in Text /\ Quote \in Chars
  BY TextGrows
<1>2. Inside(Parsed(v), args, <<>>) /\ Parsed(v).run = 0
  <2>1. Parsed(v) = ParseChar(Between(args), Quote)
    BY <1>1, ParsedOneMore
  <2>2. ParseChar(Between(args), Quote) = ParseQuote(Between(args))
    BY DEF ParseChar, Quote, Backslash, Space, Tab
  <2>. DEFINE t == [Between(args) EXCEPT !.inArg = TRUE, !.run = 0, !.arg = <<>>,
                                         !.quotes = "inside"]
  <2>3. ParseQuote(Between(args)) = t
    <3>1. Between(args).run % 2 = 0 /\ Between(args).run \div 2 = 0
      BY BetweenTyped
    <3>2. Between(args).arg \o Backslashes(0) = <<>>
      BY BetweenTyped, NoBackslash, TextGrows
    <3>. DEFINE next == [Between(args) EXCEPT !.inArg = TRUE, !.run = 0]
    <3>3. ParseQuote(Between(args)) = [next EXCEPT !.arg = <<>>, !.quotes = "inside"]
      <4>. DEFINE q == Between(args)
      <4>1. q.quotes = "outside" /\ q.run % 2 = 0 /\ q.arg \o Backslashes(q.run \div 2) = <<>>
            /\ next = [q EXCEPT !.inArg = TRUE, !.run = 0]
        BY <3>1, <3>2, BetweenTyped
      <4>. DEFINE half == q.arg \o Backslashes(q.run \div 2)
      <4>. HIDE DEF next, q
      <4>2. ParseQuote(q) = [next EXCEPT !.arg = half, !.quotes = "inside"]
        BY <4>1 DEF ParseQuote
      <4>3. half = <<>>
        BY <4>1
      <4>. HIDE DEF half
      <4>. QED
        BY <4>2, <4>3 DEF q
    <3>4. [next EXCEPT !.arg = <<>>, !.quotes = "inside"] = t
      BY BetweenTyped DEF ParseState
    <3>. QED
      BY <3>3, <3>4
  <2>4. t \in ParseState /\ t.inArg /\ t.quotes = "inside" /\ t.args = args /\ t.arg = <<>>
        /\ t.run = 0
    BY BetweenTyped, TextGrows DEF ParseState
  <2>. HIDE DEF t
  <2>5. Flushed(t) = <<>>
    BY <2>4, NoBackslash, TextGrows DEF Flushed
  <2>. QED
    BY <2>1, <2>2, <2>3, <2>4, <2>5 DEF Inside
<1>. HIDE DEF v
<1>3. e \in EscapeState /\ Inside(s, args, arg) /\ s.run = e.run
  BY <1>1, <1>2, EscapedRead
<1>. HIDE DEF e
<1>4. /\ e.text \in Text /\ e.run \in Nat /\ Backslashes(e.run) \in Text
      /\ w \in Text /\ x \in Text
  BY <1>1, <1>3, BackslashesText, TextGrows DEF EscapeState
<1>5. /\ s \in ParseState /\ s.inArg /\ s.quotes = "inside" /\ s.args = args
      /\ s.arg \o Backslashes(s.run) = arg
  BY <1>3 DEF Inside, Flushed
<1>6. Parsed(x) = r
  <2>. HIDE DEF w
  <2>. QED
    BY <1>4, <1>5, ParsedBackslashes
<1>. HIDE DEF s
<1>7. /\ r \in ParseState /\ r.inArg /\ r.quotes = "inside" /\ r.args = args /\ r.arg = s.arg
      /\ r.run = 2 * e.run
  BY <1>3, <1>4, <1>5 DEF ParseState
<1>8. r.run % 2 = 0 /\ r.run \div 2 = e.run
  BY <1>4, <1>7
<1>. HIDE DEF r
<1>9. ParseChar(r, Quote) = z
  <2>1. r.arg \o Backslashes(r.run \div 2) = arg
    BY <1>3, <1>5, <1>7, <1>8
  <2>. QED
    BY <1>7, <1>8, <2>1, ParseInside
<1>10. z \in ParseState /\ z.inArg /\ z.quotes = "closed" /\ z.args = args /\ z.arg = arg
       /\ z.run = 0
  BY <1>7 DEF ParseState
<1>. HIDE DEF z
<1>11. u \o Quoted(arg) = Append(x, Quote)
  <2>. DEFINE q == <<Quote>>
              c == Backslashes(e.run)
              t == e.text
  <2>1. q \in Text /\ c \in Text /\ t \in Text /\ u \o q = v
    BY <1>1, <1>4, TextConcat DEF v
  <2>2. Quoted(arg) = ((q \o t) \o c) \o q
    BY DEF Quoted, e
  <2>3. x = (v \o t) \o c /\ x \in Text
    BY <1>4
  <2>. HIDE DEF q, c, t, x, w
  <2>4. q \o t \in Text /\ (q \o t) \o c \in Text
    BY <2>1, TextGrows
  <2>5. u \o (((q \o t) \o c) \o q) = (u \o ((q \o t) \o c)) \o q
    BY <2>1, <2>4, ConcatText
  <2>6. u \o ((q \o t) \o c) = (u \o (q \o t)) \o c
    BY <2>1, <2>4, ConcatText
  <2>7. u \o (q \o t) = (u \o q) \o t
    BY <2>1, ConcatText
  <2>8. u \o Quoted(arg) = x \o q
    BY <2>1, <2>2, <2>3, <2>5, <2>6, <2>7
  <2>. QED
    BY <1>1, <2>3, <2>8, TextConcat DEF q
<1>12. Append(x, Quote) \in Text /\ Parsed(Append(x, Quote)) = z
  <2>. HIDE DEF x
  <2>. QED
    BY <1>1, <1>4, <1>6, <1>9, ParsedOneMore, TextGrows
<1>13. EndArg(z) = Between(Append(args, arg))
  <2>1. Flushed(z) = arg
    BY <1>10, NoBackslash DEF Flushed
  <2>. QED
    BY <1>10, <2>1 DEF EndArg, Between
<1>. HIDE DEF x
<1>. QED
  BY <1>10, <1>11, <1>12, <1>13 DEF Complete

\* One more character outside of quotes, neither a blank nor a quote.
LEMMA ParseOutside ==
    ASSUME NEW s \in ParseState, s.quotes = "outside",
           NEW ch \in Chars \ {Space, Tab, Quote}
    PROVE  LET s2 == ParseChar(s, ch)
           IN  /\ s2 \in ParseState /\ s2.inArg /\ s2.quotes = "outside" /\ s2.args = s.args
               /\ Flushed(s2) = Append(Flushed(s), ch)
<1>. DEFINE open == [s EXCEPT !.inArg = TRUE,
                        !.quotes = IF s.quotes = "inside" THEN "inside" ELSE "outside"]
            s2 == ParseChar(s, ch)
<1>1. /\ open \in ParseState /\ open.inArg /\ open.quotes = "outside" /\ open.args = s.args
      /\ open.arg = s.arg
  BY DEF ParseState
<1>2. s2 \in ParseState
  BY ParseCharTyped
<1>3. /\ s.arg \in Text /\ s.run \in Nat /\ Backslashes(s.run) \in Text /\ Flushed(s) \in Text
      /\ Append(Flushed(s), ch) \in Text
  BY BackslashesText, TextGrows DEF ParseState, Flushed
<1>4. CASE ch = Backslash
  <2>1. s2 = [open EXCEPT !.run = s.run + 1]
    BY <1>4 DEF ParseChar, Quote, Backslash
  <2>2. /\ s2.inArg /\ s2.quotes = "outside" /\ s2.args = s.args /\ s2.arg = s.arg
        /\ s2.run = s.run + 1
    <3>. HIDE DEF open, s2
    <3>. QED
      BY <1>1, <1>3, <2>1 DEF ParseState
  <2>3. s.arg \o Append(Backslashes(s.run), Backslash)
          = Append(s.arg \o Backslashes(s.run), Backslash)
    BY <1>3, AppendToConcat, TextGrows
  <2>. HIDE DEF open, s2
  <2>. QED
    BY <1>2, <1>3, <1>4, <2>2, <2>3, OneMoreBackslash DEF Flushed, s2
<1>5. CASE ch # Backslash
  <2>1. s2 = [open EXCEPT !.arg = Append(Flushed(s), ch), !.run = 0]
    BY <1>5 DEF ParseChar, Quote, Backslash
  <2>2. /\ s2.inArg /\ s2.quotes = "outside" /\ s2.args = s.args
        /\ s2.arg = Append(Flushed(s), ch) /\ s2.run = 0
    <3>. HIDE DEF open, s2
    <3>. QED
      BY <1>1, <1>3, <2>1 DEF ParseState
  <2>. HIDE DEF s2
  <2>3. Flushed(s2) = Append(Flushed(s), ch)
    <3>1. Flushed(s2) = s2.arg \o Backslashes(0) /\ s2.arg \in Text
      BY <1>3, <2>2 DEF Flushed
    <3>. QED
      BY <2>2, <3>1, NoBackslash
  <2>. QED
    BY <1>2, <2>2, <2>3 DEF s2
<1>. QED
  BY <1>4, <1>5

\* An argument that needs no quotes is read back.
LEMMA PlainRead ==
    ASSUME NEW u \in Text, NEW args \in Seq(Text), NEW arg \in Text, Parsed(u) = Between(args),
           ~NeedsQuotes(arg)
    PROVE  Complete(u \o arg, Append(args, arg))
<1>. DEFINE n == Len(arg)
            Read(k) == LET s == Parsed(u \o SubSeq(arg, 1, k))
                       IN  /\ s \in ParseState /\ s.quotes = "outside" /\ s.args = args
                           /\ Flushed(s) = SubSeq(arg, 1, k) /\ (k > 0 => s.inArg)
            T == {k \in Nat : k <= n => Read(k)}
<1>1. /\ n \in Nat /\ SubSeq(arg, 1, 0) = <<>> /\ SubSeq(arg, 1, n) = arg
      /\ \A k \in 1..n : arg[k] \in Chars
      /\ \A k \in Nat : k + 1 <= n =>
             /\ SubSeq(arg, 1, k) \in Text
             /\ SubSeq(arg, 1, k + 1) = Append(SubSeq(arg, 1, k), arg[k + 1])
  BY TextPrefixes
<1>2. arg # <<>> /\ \A k \in 1..n : arg[k] \notin {Space, Tab, Quote}
  BY DEF NeedsQuotes, Text
<1>2a. n > 0
  BY <1>2 DEF Text
<1>. HIDE DEF n
<1>3. Read(0)
  <2>. DEFINE s == Parsed(u \o SubSeq(arg, 1, 0))
  <2>1. s = Between(args)
    BY <1>1, TextConcat
  <2>2. Flushed(Between(args)) = <<>>
    BY BetweenTyped, NoBackslash, TextGrows DEF Flushed
  <2>. HIDE DEF s
  <2>3. /\ s \in ParseState /\ s.quotes = "outside" /\ s.args = args
        /\ Flushed(s) = SubSeq(arg, 1, 0)
    BY <1>1, <2>1, <2>2, BetweenTyped
  <2>. QED
    BY <2>3 DEF s
<1>4. ASSUME NEW k \in Nat, Read(k), k + 1 <= n
      PROVE  Read(k + 1)
  <2>. DEFINE p == SubSeq(arg, 1, k)
              s == Parsed(u \o p)
              ch == arg[k + 1]
  <2>1. k + 1 \in 1..n
    BY <1>1, <1>4
  <2>2. p \in Text /\ SubSeq(arg, 1, k + 1) = Append(p, ch) /\ ch \in Chars \ {Space, Tab, Quote}
    BY <1>1, <1>2, <1>4, <2>1
  <2>3. s \in ParseState /\ s.quotes = "outside" /\ s.args = args /\ Flushed(s) = p
    BY <1>4
  <2>. HIDE DEF p, ch
  <2>4. u \o p \in Text /\ u \o Append(p, ch) = Append(u \o p, ch)
    BY <2>2, AppendToConcat, TextGrows
  <2>5. Parsed(u \o SubSeq(arg, 1, k + 1)) = ParseChar(s, ch)
    BY <2>2, <2>4, ParsedOneMore
  <2>. HIDE DEF s
  <2>6. LET s2 == ParseChar(s, ch)
        IN  /\ s2 \in ParseState /\ s2.inArg /\ s2.quotes = "outside" /\ s2.args = args
            /\ Flushed(s2) = Append(p, ch)
    BY <2>2, <2>3, ParseOutside
  <2>. QED
    BY <2>2, <2>5, <2>6
<1>. HIDE DEF Read
<1>5. 0 \in T /\ \A k \in Nat : k \in T => k + 1 \in T
  BY <1>1, <1>3, <1>4
<1>6. n \in T
  <2>. HIDE DEF T
  <2>. QED
    BY <1>1, <1>5, Induction
<1>7. Read(n)
  BY <1>1, <1>6
<1>8. LET s == Parsed(u \o arg)
      IN  /\ s \in ParseState /\ s.quotes = "outside" /\ s.args = args
          /\ Flushed(s) = arg /\ s.inArg
  BY <1>1, <1>2a, <1>7 DEF Read
<1>9. u \o arg \in Text
  BY TextGrows
<1>. QED
  BY <1>8, <1>9 DEF Complete, EndArg, Between

\* Lengths add up.
LEMMA TextLengths ==
    /\ \A t \in Text : Len(t) \in Nat
    /\ \A t, u \in Text : t \o u \in Text /\ Len(t \o u) = Len(t) + Len(u)
    /\ \A ch \in Chars : <<ch>> \in Text /\ Len(<<ch>>) = 1
  BY DEF Text

\* The length of a concatenation.
LEMMA ConcatLength ==
    ASSUME NEW t \in Text, NEW u \in Text
    PROVE  t \o u \in Text /\ Len(t \o u) = Len(t) + Len(u)
  BY DEF Text

\* What is written of an argument.
ArgText(arg) == IF NeedsQuotes(arg) THEN Quoted(arg) ELSE arg

\* How long it can be: its first m characters are plain.
LEMMA ArgLength ==
    ASSUME NEW arg \in Text, NEW m \in Nat, m <= Len(arg), \A k \in 1..m : arg[k] \in Plain
    PROVE  /\ ArgText(arg) \in Text /\ Len(ArgText(arg)) <= 2 * Len(arg) - m + 2
<1>. DEFINE n == Len(arg)
            b == [text |-> <<>>, run |-> 0]
            cost(k) == IF k <= m THEN k ELSE 2 * k - m
<1>0. b \in EscapeState
  BY TextGrows DEF EscapeState
<1>1. PICK f : /\ f[0] = b
               /\ \A k \in 1..n : f[k] = Escape(f[k - 1], arg[k])
               /\ Escaped(arg) = f[n]
  BY <1>0, EscapeRuns DEF Escaped
<1>2. n \in Nat /\ m <= n /\ \A k \in 1..n : arg[k] \in Chars
  BY DEF Text
<1>. DEFINE Short(k) == f[k] \in EscapeState /\ Len(f[k].text) + f[k].run <= cost(k)
            T == {k \in Nat : k <= n => Short(k)}
<1>. HIDE DEF n
<1>3. Short(0)
  <2>1. Len(b.text) = 0 /\ b.run = 0 /\ 0 <= cost(0)
    OBVIOUS
  <2>. QED
    BY <1>0, <1>1, <2>1
<1>4. ASSUME NEW k \in Nat, Short(k), k + 1 <= n
      PROVE  Short(k + 1)
  <2>. DEFINE e == f[k]
              ch == arg[k + 1]
              e2 == Escape(e, ch)
  <2>1. k + 1 \in 1..n /\ (k + 1) - 1 = k
    BY <1>2, <1>4
  <2>2. f[k + 1] = e2
    BY <1>1, <2>1
  <2>3. e \in EscapeState /\ ch \in Chars /\ Len(e.text) + e.run <= cost(k)
    BY <1>2, <1>4, <2>1
  <2>4. k + 1 <= m => ch \in Plain
    BY <2>1
  <2>. HIDE DEF e, ch
  <2>5. e2 \in EscapeState
    BY <2>3, EscapeTyped
  <2>6. /\ e.text \in Text /\ e.run \in Nat /\ Backslashes(e.run + 1) \in Text
        /\ Len(Backslashes(e.run + 1)) = e.run + 1 /\ <<ch>> \in Text /\ Len(<<ch>>) = 1
        /\ Len(e.text) \in Nat
    <3>1. e.text \in Text /\ e.run \in Nat /\ e.run + 1 \in Nat
      BY <2>3 DEF EscapeState
    <3>. QED
      BY <2>3, <3>1, BackslashesText, TextLengths
  <2>7. CASE ch = Quote
    <3>1. e2.text = (e.text \o Backslashes(e.run + 1)) \o <<ch>> /\ e2.run = 0
      BY <2>7 DEF Escape, Quote, Backslash
    <3>2. Len((e.text \o Backslashes(e.run + 1)) \o <<ch>>) = Len(e.text) + (e.run + 1) + 1
      <4>. DEFINE c == Backslashes(e.run + 1)
                  x == e.text \o c
      <4>1. x \in Text /\ Len(x) = Len(e.text) + (e.run + 1)
        <5>1. e.text \in Text /\ c \in Text /\ Len(c) = e.run + 1
          BY <2>6
        <5>. HIDE DEF c
        <5>. QED
          BY <5>1, ConcatLength
      <4>. HIDE DEF x
      <4>2. Len(x \o <<ch>>) = Len(x) + Len(<<ch>>)
        BY <2>6, <4>1, ConcatLength
      <4>. QED
        BY <2>6, <4>1, <4>2 DEF x
    <3>3. ch \notin Plain
      BY <2>7, CommandLineConstants
    <3>4. cost(k + 1) >= cost(k) + 2
      BY <2>4, <3>3
    <3>. DEFINE c1 == cost(k + 1)
                c == cost(k)
    <3>5. c1 \in Int /\ c \in Int
      BY <1>4
    <3>6. Len(e2.text) + e2.run <= c1
      <4>1. Len(e2.text) = Len(e.text) + e.run + 2 /\ e2.run = 0
        <5>. DEFINE y == (e.text \o Backslashes(e.run + 1)) \o <<ch>>
        <5>1. e2.text = y /\ Len(y) = Len(e.text) + (e.run + 1) + 1 /\ e2.run = 0
          BY <3>1, <3>2
        <5>2. Len(e.text) \in Nat /\ e.run \in Nat
          BY <2>6
        <5>. HIDE DEF y, e2
        <5>. QED
          BY <5>1, <5>2
      <4>2. Len(e.text) + e.run <= c /\ c + 2 <= c1
        BY <2>3, <3>4
      <4>3. Len(e.text) \in Nat /\ e.run \in Nat
        BY <2>6
      <4>. HIDE DEF c1, c, e2
      <4>. QED
        BY <3>5, <4>1, <4>2, <4>3
    <3>. QED
      BY <2>2, <2>5, <3>6
  <2>8. CASE ch # Quote
    <3>1. e2.text = e.text \o <<>> \o <<ch>> /\ e2.run = IF ch = Backslash THEN e.run + 1 ELSE 0
      BY <2>8 DEF Escape
    <3>2. e2.text = e.text \o <<ch>>
      BY <2>6, <3>1, TextConcat
    <3>3. Len(e.text \o <<ch>>) = Len(e.text) + 1
      BY <2>6, TextLengths
    <3>4. /\ ch = Backslash => cost(k + 1) >= cost(k) + 2
          /\ cost(k + 1) >= cost(k) + 1
      <4>1. ch = Backslash => ch \notin Plain
        BY CommandLineConstants
      <4>. QED
        BY <2>4, <4>1
    <3>. DEFINE c1 == cost(k + 1)
                c == cost(k)
    <3>5. c1 \in Int /\ c \in Int
      BY <1>4
    <3>6. Len(e2.text) + e2.run <= c1
      <4>1. /\ Len(e2.text) = Len(e.text) + 1
            /\ e2.run = IF ch = Backslash THEN e.run + 1 ELSE 0
        BY <3>1, <3>2, <3>3
      <4>2. Len(e.text) + e.run <= c /\ c + 1 <= c1 /\ (ch = Backslash => c + 2 <= c1)
        BY <2>3, <3>4
      <4>3. Len(e.text) \in Nat /\ e.run \in Nat
        BY <2>6
      <4>. HIDE DEF c1, c, e2
      <4>. QED
        BY <3>5, <4>1, <4>2, <4>3
    <3>. QED
      BY <2>2, <2>5, <3>6
  <2>. QED
    BY <2>7, <2>8
<1>. HIDE DEF Short
<1>5. 0 \in T /\ \A k \in Nat : k \in T => k + 1 \in T
  BY <1>2, <1>3, <1>4
<1>6. n \in T
  <2>. HIDE DEF T
  <2>. QED
    BY <1>2, <1>5, Induction
<1>7. Short(n)
  BY <1>2, <1>6
<1>. DEFINE e == Escaped(arg)
<1>8. e \in EscapeState /\ Len(e.text) + e.run <= 2 * n - m
  BY <1>1, <1>2, <1>7 DEF Short
<1>9. Quoted(arg) \in Text /\ Len(Quoted(arg)) = Len(e.text) + e.run + 2
  <2>. HIDE DEF e
  <2>1. /\ e.text \in Text /\ Backslashes(e.run) \in Text /\ Len(Backslashes(e.run)) = e.run
        /\ <<Quote>> \in Text /\ e.run \in Nat
    BY <1>8, BackslashesText, TextConcat, TextGrows, TextLengths DEF EscapeState
  <2>. DEFINE q == <<Quote>>
              c == Backslashes(e.run)
  <2>2. Quoted(arg) = ((q \o e.text) \o c) \o q
    BY DEF Quoted, e
  <2>3. q \in Text /\ c \in Text /\ Len(q) = 1 /\ Len(c) = e.run
    BY <2>1, TextLengths, TextGrows
  <2>. HIDE DEF q, c
  <2>. DEFINE t == e.text
              x == q \o t
              y == x \o c
  <2>4. t \in Text /\ Len(t) \in Nat
    BY <2>1, TextLengths
  <2>. HIDE DEF t
  <2>5. x \in Text /\ Len(x) = 1 + Len(t)
    BY <2>3, <2>4, ConcatLength
  <2>. HIDE DEF x
  <2>6. y \in Text /\ Len(y) = 1 + Len(t) + e.run
    BY <2>3, <2>5, ConcatLength
  <2>. HIDE DEF y
  <2>7. y \o q \in Text /\ Len(y \o q) = Len(y) + 1
    BY <2>3, <2>6, ConcatLength
  <2>8. Quoted(arg) = y \o q
    BY <2>2 DEF y, x, t
  <2>9. Len(y \o q) = Len(t) + e.run + 2
    BY <2>1, <2>4, <2>6, <2>7
  <2>. QED
    BY <2>7, <2>8, <2>9 DEF t
<1>. HIDE DEF e
<1>10. Len(arg) \in Nat /\ Len(Quoted(arg)) \in Nat /\ Len(e.text) + e.run \in Int
  BY <1>8, <1>9, TextLengths DEF EscapeState
<1>11. Len(Quoted(arg)) <= 2 * Len(arg) - m + 2 /\ Len(arg) <= 2 * Len(arg) - m + 2
  BY <1>8, <1>9, <1>10 DEF n
<1>. QED
  BY <1>9, <1>11 DEF ArgText

\* A text is a line, and one with arguments is not empty.
LEMMA TextIsLine ==
    /\ NoLine \notin Text
    /\ \A line, args : Complete(line, args) => line # <<>>
<1>1. NoLine[1] \notin Chars
  BY CommandLineConstants DEF Chars, NoLine, Quote, Backslash, Space, Tab
<1>2. NoLine \notin Text
  BY <1>1 DEF NoLine, Text
<1>3. ASSUME NEW line, NEW args, Complete(line, args) PROVE line # <<>>
  BY <1>3, ParsedOneMore DEF Complete, ParseStart
<1>. QED
  BY <1>2, <1>3

\* How long a line is with one more argument.
LongerBy(line, arg) == Len(ArgText(arg)) + (IF line = <<>> THEN 0 ELSE Len(line) + 1)

\* An argument that has room is read back, and the line grows by its length.
LEMMA ArgAppended ==
    ASSUME NEW args \in Seq(Text), NEW arg \in Text, NEW cap \in Nat, NEW line \in Text,
           (line = <<>> /\ args = <<>>) \/ Complete(line, args),
           ArgText(arg) \in Text, LongerBy(line, arg) + 1 <= cap
    PROVE  LET line2 == AppendArg(line, cap, arg)
           IN  Complete(line2, Append(args, arg)) /\ Len(line2) = LongerBy(line, arg)
<1>. DEFINE text == ArgText(arg)
            start == IF line = <<>> THEN <<>> ELSE Append(line, Space)
            all == IF line = <<>> THEN text ELSE line \o <<Space>> \o text
<1>1. /\ start \in Text /\ Space \in Chars /\ <<Space>> \in Text
      /\ line \o <<Space>> = Append(line, Space)
      /\ Len(line \o <<Space>>) = Len(line) + 1 /\ line \o <<Space>> \in Text
  BY TextGrows, TextConcat, TextLengths, ConcatLength
<1>2. Parsed(start) = Between(args)
  <2>1. CASE line = <<>>
    <3>1. args = <<>>
      BY <2>1, TextIsLine
    <3>2. Between(<<>>) = ParseStart
      BY DEF Between, ParseStart
    <3>. QED
      BY <2>1, <3>1, <3>2, ParsedOneMore
  <2>2. CASE line # <<>>
    <3>1. Complete(line, args)
      BY <2>2
    <3>2. Parsed(Append(line, Space)) = ParseChar(Parsed(line), Space)
      BY <1>1, ParsedOneMore
    <3>3. ParseChar(Parsed(line), Space) = EndArg(Parsed(line))
      BY <3>1 DEF Complete, ParseChar, Space, Quote, Backslash, Tab
    <3>. QED
      BY <2>2, <3>1, <3>2, <3>3 DEF Complete
  <2>. QED
    BY <2>1, <2>2
<1>3. all = start \o text
  <2>1. text \in Text
    OBVIOUS
  <2>. HIDE DEF text
  <2>. QED
    BY <1>1, <2>1, TextConcat
<1>. HIDE DEF start
<1>4. Complete(start \o text, Append(args, arg))
  BY <1>1, <1>2, PlainRead, QuotedRead DEF ArgText
<1>5. Len(all) = LongerBy(line, arg)
  <2>1. CASE line = <<>>
    <3>1. Len(text) \in Nat
      BY TextLengths
    <3>. QED
      BY <2>1, <3>1 DEF LongerBy
  <2>2. CASE line # <<>>
    <3>. DEFINE l == line \o <<Space>>
    <3>1. l \in Text /\ Len(l) = Len(line) + 1 /\ text \in Text
      BY <1>1
    <3>2. LongerBy(line, arg) = Len(text) + (Len(line) + 1) /\ all = l \o text
      BY <2>2 DEF LongerBy
    <3>3. Len(line) \in Nat /\ Len(text) \in Nat
      BY TextLengths
    <3>. HIDE DEF l, text, all
    <3>4. Len(l \o text) = Len(l) + Len(text)
      BY <3>1, ConcatLength
    <3>. QED
      BY <3>1, <3>2, <3>3, <3>4
  <2>. QED
    BY <2>1, <2>2
<1>6. AppendArg(line, cap, arg) = all
  <2>1. AppendArg(line, cap, arg) =
            IF line = NoLine \/ Len(all) + 1 > cap THEN NoLine ELSE all
    BY DEF AppendArg, ArgText
  <2>2. LongerBy(line, arg) \in Nat /\ line # NoLine
    <3>1. Len(line) \in Nat /\ Len(text) \in Nat
      BY TextLengths
    <3>. QED
      BY <3>1, TextIsLine DEF LongerBy
  <2>. HIDE DEF all
  <2>. QED
    BY <1>5, <2>1, <2>2
<1>. HIDE DEF all
<1>. QED
  BY <1>3, <1>4, <1>5, <1>6

\* A word of plain characters stands as it is.
LEMMA WordText ==
    ASSUME NEW word \in Seq(Plain) \ {<<>>}
    PROVE  word \in Text /\ ArgText(word) = word
<1>1. word \in Text
  BY DEF Text, Chars
<1>2. ~NeedsQuotes(word)
  <2>1. \A k \in DOMAIN word : word[k] \in Plain
    OBVIOUS
  <2>. QED
    BY <2>1, CommandLineConstants DEF NeedsQuotes
<1>. QED
  BY <1>1, <1>2 DEF ArgText

\* A pair of a provider and its directory.
Dirs == [provider : Seq(Plain), dir : Text]

\* How long a pair can be: the name of the provider is plain.
LEMMA PairText ==
    ASSUME NEW d \in Dirs
    PROVE  /\ Pair(d) \in Text /\ ArgText(Pair(d)) \in Text
           /\ Len(ArgText(Pair(d))) <= Len(d.provider) + 2 * Len(d.dir) + 3
<1>. DEFINE p == d.provider
            q == p \o <<Equals>>
            m == Len(q)
            arg == Pair(d)
<1>1. p \in Seq(Plain) /\ Len(p) \in Nat /\ Equals \in Plain /\ d.dir \in Text
  BY CommandLineConstants DEF Dirs
<1>2. q \in Seq(Plain) /\ m = Len(p) + 1
  BY <1>1
<1>. HIDE DEF p
<1>3. q \in Text /\ arg = q \o d.dir
  BY <1>2 DEF Text, Chars, Pair, p
<1>. HIDE DEF q
<1>4. arg \in Text /\ Len(arg) = m + Len(d.dir) /\ Len(d.dir) \in Nat
  BY <1>1, <1>3, ConcatLength, TextLengths
<1>5. \A k \in 1..m : arg[k] \in Plain
  <2>1. \A k \in 1..m : arg[k] = q[k]
    BY <1>1, <1>3 DEF Text
  <2>. QED
    BY <1>2, <2>1
<1>. HIDE DEF arg
<1>. DEFINE lp == Len(p)
            ld == Len(d.dir)
            la == Len(arg)
            lt == Len(ArgText(arg))
<1>6. lp \in Nat /\ ld \in Nat /\ m = lp + 1 /\ la = m + ld
  BY <1>1, <1>2, <1>4
<1>. HIDE DEF lp, ld, la, m
<1>7. m \in Nat /\ m <= la /\ 2 * la - m + 2 = lp + 2 * ld + 3
  BY <1>6
<1>8. ArgText(arg) \in Text /\ lt <= 2 * la - m + 2
  BY <1>4, <1>5, <1>7, ArgLength DEF la
<1>9. lt <= lp + 2 * ld + 3
  <2>. HIDE DEF lt
  <2>. QED
    BY <1>7, <1>8
<1>. QED
  BY <1>4, <1>8, <1>9 DEF arg, lp, ld, lt, p

\* The room that is allowed for a command line, directory by directory.
LEMMA RoomRuns ==
    ASSUME NEW seq \in Seq(Dirs)
    PROVE  \E f : /\ f[0] = LineRoom
                  /\ \A k \in 1..Len(seq) : f[k] = f[k - 1] + 2 * Len(seq[k].dir) + PairRoom
                  /\ SyncRoom(seq) = f[Len(seq)]
<1>. DEFINE n == Len(seq)
            b == LineRoom
            step == [p \in Nat \X Dirs |-> p[1] + 2 * Len(p[2].dir) + PairRoom]
            IsFold(g) == g = [s \in SUBSET (1..n) |->
                 IF s = {} THEN b ELSE g[s \ {Max(s)}] + 2 * Len(seq[Max(s)].dir) + PairRoom]
<1>1. n \in Nat /\ seq \in [1..n -> Dirs] /\ DOMAIN seq = 1..n /\ b \in Nat
  BY CommandLineConstants
<1>2. step \in [Nat \X Dirs -> Nat]
  <2>1. \A d \in Dirs : Len(d.dir) \in Nat
    BY TextLengths DEF Dirs
  <2>. QED
    BY <2>1, CommandLineConstants
<1>3. \E g : IsFold(g)
  <2>. HIDE DEF n, b, step, IsFold
  <2>1. PICK F \in [SUBSET (1..n) -> Nat] : FoldsOver(F, seq, b, step)
    BY <1>1, <1>2, FoldOverSets DEF n
  <2>2. ASSUME NEW s \in SUBSET (1..n)
        PROVE  F[s] = IF s = {} THEN b ELSE F[s \ {Max(s)}] + 2 * Len(seq[Max(s)].dir) + PairRoom
    <3>1. CASE s # {}
      <4>1. F[s \ {Max(s)}] \in Nat
        OBVIOUS
      <4>2. seq[Max(s)] \in Dirs
        BY <1>1, <3>1, MaxOfRange
      <4>. QED
        BY <2>1, <3>1, <4>1, <4>2 DEF step, FoldsOver, n
    <3>. QED
      BY <2>1, <3>1 DEF FoldsOver, n
  <2>. QED
    BY <2>2 DEF IsFold
<1>4. PICK g : IsFold(g) /\ SyncRoom(seq) = g[1..n]
  <2>1. SyncRoom(seq) = (CHOOSE g : IsFold(g))[1..n]
    BY <1>1 DEF FoldLeft, MapThenFoldSet, SyncRoom
  <2>. QED
    BY <1>3, <2>1
<1>. HIDE DEF b
<1>. DEFINE f == [k \in 0..n |-> g[1..k]]
<1>5. f[0] = b
  BY <1>1, <1>4
<1>6. \A k \in 1..n : f[k] = f[k - 1] + 2 * Len(seq[k].dir) + PairRoom
  <2>. TAKE k \in 1..n
  <2>1. /\ 1..k \in SUBSET (1..n) /\ 1..k # {} /\ Max(1..k) = k
        /\ (1..k) \ {Max(1..k)} = 1..(k - 1)
    BY <1>1, Ranges
  <2>2. k \in 0..n /\ k - 1 \in 0..n
    BY <1>1
  <2>. QED
    BY <1>4, <2>1, <2>2
<1>7. SyncRoom(seq) = f[n]
  BY <1>1, <1>4
<1>. QED
  BY <1>5, <1>6, <1>7 DEF b

\* What the CLI is to find, with one more directory.
AddPair(args, d) == IF d.dir = <<>> THEN args ELSE args \o <<Option, Pair(d)>>

\* The arguments, directory by directory.
LEMMA ArgsRuns ==
    ASSUME NEW seq \in Seq(Dirs), NEW exe \in Text
    PROVE  \E f : /\ f[0] = <<exe, SyncWord>>
                  /\ \A k \in 1..Len(seq) : f[k] = AddPair(f[k - 1], seq[k])
                  /\ SyncArgs(exe, seq) = f[Len(seq)]
<1>. DEFINE n == Len(seq)
            b == <<exe, SyncWord>>
            step == [p \in Seq(Text) \X Dirs |-> AddPair(p[1], p[2])]
            IsFold(g) == g = [s \in SUBSET (1..n) |->
                 IF s = {} THEN b ELSE AddPair(g[s \ {Max(s)}], seq[Max(s)])]
<1>1. n \in Nat /\ seq \in [1..n -> Dirs] /\ DOMAIN seq = 1..n /\ b \in Seq(Text)
  BY WordText, CommandLineConstants
<1>2. step \in [Seq(Text) \X Dirs -> Seq(Text)]
  <2>1. \A d \in Dirs : <<Option, Pair(d)>> \in Seq(Text)
    <3>. TAKE d \in Dirs
    <3>1. Option \in Text /\ Pair(d) \in Text
      BY PairText, WordText, CommandLineConstants
    <3>. QED
      BY <3>1
  <2>. QED
    BY <2>1 DEF AddPair
<1>3. \E g : IsFold(g)
  <2>. HIDE DEF n, b, step, IsFold
  <2>1. PICK F \in [SUBSET (1..n) -> Seq(Text)] : FoldsOver(F, seq, b, step)
    BY <1>1, <1>2, FoldOverSets DEF n
  <2>2. ASSUME NEW s \in SUBSET (1..n)
        PROVE  F[s] = IF s = {} THEN b ELSE AddPair(F[s \ {Max(s)}], seq[Max(s)])
    <3>1. CASE s # {}
      <4>1. F[s \ {Max(s)}] \in Seq(Text)
        OBVIOUS
      <4>2. seq[Max(s)] \in Dirs
        BY <1>1, <3>1, MaxOfRange
      <4>. QED
        BY <2>1, <3>1, <4>1, <4>2 DEF step, FoldsOver, n
    <3>. QED
      BY <2>1, <3>1 DEF FoldsOver, n
  <2>. QED
    BY <2>2 DEF IsFold
<1>4. PICK g : IsFold(g) /\ SyncArgs(exe, seq) = g[1..n]
  <2>1. SyncArgs(exe, seq) = (CHOOSE g : IsFold(g))[1..n]
    BY <1>1 DEF FoldLeft, MapThenFoldSet, SyncArgs, AddPair
  <2>. QED
    BY <1>3, <2>1
<1>. HIDE DEF b
<1>. DEFINE f == [k \in 0..n |-> g[1..k]]
<1>5. f[0] = b
  BY <1>1, <1>4
<1>6. \A k \in 1..n : f[k] = AddPair(f[k - 1], seq[k])
  <2>. TAKE k \in 1..n
  <2>1. /\ 1..k \in SUBSET (1..n) /\ 1..k # {} /\ Max(1..k) = k
        /\ (1..k) \ {Max(1..k)} = 1..(k - 1)
    BY <1>1, Ranges
  <2>2. k \in 0..n /\ k - 1 \in 0..n
    BY <1>1
  <2>. QED
    BY <1>4, <2>1, <2>2
<1>7. SyncArgs(exe, seq) = f[n]
  BY <1>1, <1>4
<1>. QED
  BY <1>5, <1>6, <1>7 DEF b

\* The lines that are built.
Lines == Text \union {NoLine}

\* A directory makes a line of a line.
LEMMA LinesTyped ==
    ASSUME NEW line \in Lines, NEW cap \in Nat, NEW d \in Dirs
    PROVE  AppendDir(line, cap, d) \in Lines
<1>1. ASSUME NEW l \in Lines, NEW arg \in Text, ArgText(arg) \in Text
      PROVE  AppendArg(l, cap, arg) \in Lines
  <2>1. CASE l = NoLine
    BY <2>1 DEF AppendArg, Lines
  <2>2. CASE l \in Text
    <3>1. l \o <<Space>> \in Text
      BY <2>2, TextLengths, TextGrows, ConcatLength
    <3>. DEFINE m == l \o <<Space>>
    <3>2. m \o ArgText(arg) \in Text
      <4>. HIDE DEF m
      <4>. QED
        BY <1>1, <3>1, ConcatLength DEF m
    <3>. QED
      BY <1>1, <3>2 DEF AppendArg, ArgText, Lines
  <2>. QED
    BY <1>1, <2>1, <2>2 DEF Lines
<1>. QED
  BY <1>1, PairText, WordText, CommandLineConstants DEF AppendDir

\* The line, directory by directory.
LEMMA LineRuns ==
    ASSUME NEW seq \in Seq(Dirs), NEW cap \in Nat, NEW start \in Lines
    PROVE  \E f : /\ f[0] = start
                  /\ \A k \in 1..Len(seq) : f[k] = AppendDir(f[k - 1], cap, seq[k])
                  /\ AppendDirs(start, cap, seq) = f[Len(seq)]
<1>. DEFINE n == Len(seq)
            b == start
            step == [p \in Lines \X Dirs |-> AppendDir(p[1], cap, p[2])]
            IsFold(g) == g = [s \in SUBSET (1..n) |->
                 IF s = {} THEN b ELSE AppendDir(g[s \ {Max(s)}], cap, seq[Max(s)])]
<1>1. n \in Nat /\ seq \in [1..n -> Dirs] /\ DOMAIN seq = 1..n /\ b \in Lines
  OBVIOUS
<1>2. step \in [Lines \X Dirs -> Lines]
  BY LinesTyped
<1>3. \E g : IsFold(g)
  <2>. HIDE DEF n, b, step, IsFold
  <2>1. PICK F \in [SUBSET (1..n) -> Lines] : FoldsOver(F, seq, b, step)
    BY <1>1, <1>2, FoldOverSets DEF n
  <2>2. ASSUME NEW s \in SUBSET (1..n)
        PROVE  F[s] = IF s = {} THEN b ELSE AppendDir(F[s \ {Max(s)}], cap, seq[Max(s)])
    <3>1. CASE s # {}
      <4>1. F[s \ {Max(s)}] \in Lines
        OBVIOUS
      <4>2. seq[Max(s)] \in Dirs
        BY <1>1, <3>1, MaxOfRange
      <4>. QED
        BY <2>1, <3>1, <4>1, <4>2 DEF step, FoldsOver, n
    <3>. QED
      BY <2>1, <3>1 DEF FoldsOver, n
  <2>. QED
    BY <2>2 DEF IsFold
<1>4. PICK g : IsFold(g) /\ AppendDirs(start, cap, seq) = g[1..n]
  <2>1. AppendDirs(start, cap, seq) = (CHOOSE g : IsFold(g))[1..n]
    BY <1>1 DEF FoldLeft, MapThenFoldSet, AppendDirs
  <2>. QED
    BY <1>3, <2>1
<1>. HIDE DEF b
<1>. DEFINE f == [k \in 0..n |-> g[1..k]]
<1>5. f[0] = b
  BY <1>1, <1>4
<1>6. \A k \in 1..n : f[k] = AppendDir(f[k - 1], cap, seq[k])
  <2>. TAKE k \in 1..n
  <2>1. /\ 1..k \in SUBSET (1..n) /\ 1..k # {} /\ Max(1..k) = k
        /\ (1..k) \ {Max(1..k)} = 1..(k - 1)
    BY <1>1, Ranges
  <2>2. k \in 0..n /\ k - 1 \in 0..n
    BY <1>1
  <2>. QED
    BY <1>4, <2>1, <2>2
<1>7. AppendDirs(start, cap, seq) = f[n]
  BY <1>1, <1>4
<1>. QED
  BY <1>5, <1>6, <1>7 DEF b

\* A path and directories that the code's room is enough for.
FitsRoom(exe, dirs) ==
    /\ exe \in Text /\ 2 * Len(exe) + Len(SyncWord) + 4 <= LineRoom
    /\ dirs \in Seq(Dirs)
    /\ \A n \in DOMAIN dirs : Len(Option) + Len(dirs[n].provider) + 5 <= PairRoom

\* Two arguments, one after the other.
LEMMA TwoArguments ==
    ASSUME NEW S, NEW x \in S, NEW y \in S
    PROVE  <<x>> \in Seq(S) /\ Append(<<x>>, y) = <<x, y>>
<1>1. <<x>> \in Seq(S)
  OBVIOUS
<1>2. Append(<<x>>, y) = <<x, y>>
  <2>. DEFINE a == Append(<<x>>, y)
              b == <<x, y>>
  <2>1. b \in Seq(S) /\ Len(b) = 2 /\ b[1] = x /\ b[2] = y
    OBVIOUS
  <2>2. a \in Seq(S) /\ Len(a) = 2 /\ a[1] = x /\ a[2] = y
    BY <1>1, AppendProperties
  <2>. HIDE DEF a, b
  <2>3. Len(a) = Len(b) /\ \A i \in 1..Len(a) : a[i] = b[i]
    BY <2>1, <2>2
  <2>4. a = b
    BY <2>1, <2>2, <2>3, SeqEqual
  <2>. QED
    BY <2>4 DEF a, b
<1>. QED
  BY <1>1, <1>2

\* The line that every directory is appended to.
LEMMA StartOfLine ==
    ASSUME NEW exe \in Text, 2 * Len(exe) + Len(SyncWord) + 4 <= LineRoom,
           NEW cap \in Nat, LineRoom <= cap
    PROVE  LET start == AppendArg(AppendArg(<<>>, cap, exe), cap, SyncWord)
           IN  Complete(start, <<exe, SyncWord>>) /\ Len(start) + 1 <= LineRoom
<1>. DEFINE line == AppendArg(<<>>, cap, exe)
            start == AppendArg(line, cap, SyncWord)
            le == Len(exe)
            lt == Len(ArgText(exe))
            ls == Len(SyncWord)
            ll == Len(line)
<1>1. /\ SyncWord \in Text /\ ArgText(SyncWord) = SyncWord /\ <<>> \in Text /\ LineRoom \in Nat
      /\ le \in Nat /\ ls \in Nat /\ 2 * le + ls + 4 <= LineRoom
  BY CommandLineConstants, WordText, TextGrows, TextLengths
<1>2. ArgText(exe) \in Text /\ lt \in Nat /\ lt <= 2 * le + 2
  <2>1. ArgText(exe) \in Text /\ Len(ArgText(exe)) <= 2 * Len(exe) - 0 + 2
    <3>1. 0 <= Len(exe) /\ \A k \in 1..0 : exe[k] \in Plain
      BY <1>1
    <3>. QED
      BY <3>1, ArgLength
  <2>2. lt \in Nat
    BY <2>1, TextLengths
  <2>. HIDE DEF lt, le
  <2>. QED
    BY <1>1, <2>1, <2>2 DEF lt, le
<1>. HIDE DEF le, lt, ls
<1>3. LongerBy(<<>>, exe) = lt
  BY <1>2 DEF LongerBy, lt
<1>4. lt + 1 <= cap
  BY <1>1, <1>2
<1>5. Complete(line, <<exe>>) /\ ll = lt
  <2>1. <<>> \in Seq(Text) /\ Append(<<>>, exe) = <<exe>> /\ LongerBy(<<>>, exe) + 1 <= cap
    BY <1>3, <1>4
  <2>2. Complete(line, Append(<<>>, exe)) /\ Len(line) = LongerBy(<<>>, exe)
    BY <1>1, <1>2, <2>1, ArgAppended
  <2>. QED
    BY <1>3, <2>1, <2>2
<1>. HIDE DEF line, ll
<1>6. LongerBy(line, SyncWord) = ls + (ll + 1) /\ line \in Text
  <2>1. line # <<>> /\ line \in Text
    BY <1>5, TextIsLine DEF Complete
  <2>. QED
    BY <1>1, <2>1 DEF LongerBy, ls, ll
<1>7. ls + (ll + 1) + 1 <= LineRoom /\ ls + (ll + 1) + 1 <= cap
  BY <1>1, <1>2, <1>5
<1>8. Complete(start, <<exe, SyncWord>>) /\ Len(start) = ls + (ll + 1)
  <2>1. <<exe>> \in Seq(Text) /\ Append(<<exe>>, SyncWord) = <<exe, SyncWord>>
        /\ LongerBy(line, SyncWord) + 1 <= cap
    <3>1. LongerBy(line, SyncWord) + 1 <= cap
      BY <1>6, <1>7
    <3>2. <<exe>> \in Seq(Text) /\ Append(<<exe>>, SyncWord) = <<exe, SyncWord>>
      BY <1>1, TwoArguments
    <3>. QED
      BY <3>1, <3>2
  <2>2. Complete(start, Append(<<exe>>, SyncWord)) /\ Len(start) = LongerBy(line, SyncWord)
    BY <1>1, <1>5, <1>6, <2>1, ArgAppended
  <2>. QED
    BY <1>6, <2>1, <2>2
<1>. QED
  BY <1>7, <1>8 DEF line

\* One more directory.
LEMMA DirAppended ==
    ASSUME NEW args \in Seq(Text), NEW line, Complete(line, args), NEW d \in Dirs,
           Len(Option) + Len(d.provider) + 5 <= PairRoom,
           NEW room \in Nat, Len(line) + 1 <= room,
           NEW cap \in Nat, room + 2 * Len(d.dir) + PairRoom <= cap
    PROVE  /\ AddPair(args, d) \in Seq(Text)
           /\ Complete(AppendDir(line, cap, d), AddPair(args, d))
           /\ Len(AppendDir(line, cap, d)) + 1 <= room + 2 * Len(d.dir) + PairRoom
<1>. DEFINE l == Len(line)
            lo == Len(Option)
            lp == Len(d.provider)
            ld == Len(d.dir)
            pair == Pair(d)
            lt == Len(ArgText(pair))
<1>1. /\ Option \in Text /\ ArgText(Option) = Option /\ PairRoom \in Nat
      /\ line \in Text /\ line # <<>> /\ pair \in Text /\ ArgText(pair) \in Text
      /\ d.dir \in Text /\ d.provider \in Text
  <2>1. d.provider \in Text
    BY DEF Dirs, Text, Chars
  <2>. QED
    BY <2>1, CommandLineConstants, WordText, PairText, TextIsLine DEF Complete, Dirs
<1>2. l \in Nat /\ lo \in Nat /\ lp \in Nat /\ ld \in Nat /\ lt \in Nat
  BY <1>1, TextLengths
<1>3. l + 1 <= room /\ lo + lp + 5 <= PairRoom /\ room + 2 * ld + PairRoom <= cap
      /\ lt <= lp + 2 * ld + 3
  BY PairText
<1>. HIDE DEF l, lo, lp, ld, pair, lt
<1>4. CASE d.dir = <<>>
  <2>1. AddPair(args, d) = args /\ AppendDir(line, cap, d) = line
    BY <1>4 DEF AddPair, AppendDir
  <2>2. l + 1 <= room + 2 * ld + PairRoom
    BY <1>1, <1>2, <1>3
  <2>. QED
    BY <2>1, <2>2 DEF l, ld
<1>5. CASE d.dir # <<>>
  <2>. DEFINE line1 == AppendArg(line, cap, Option)
              line2 == AppendArg(line1, cap, pair)
              l1 == Len(line1)
              l2 == Len(line2)
              args1 == Append(args, Option)
              args2 == Append(args1, pair)
  <2>1. LongerBy(line, Option) = lo + (l + 1)
    BY <1>1, <1>2 DEF LongerBy, lo, l
  <2>2. lo + (l + 1) + 1 <= cap /\ lt + (lo + (l + 1) + 1) + 1 <= room + 2 * ld + PairRoom
    BY <1>1, <1>2, <1>3
  <2>3. Complete(line1, args1) /\ l1 = lo + (l + 1) /\ args1 \in Seq(Text)
    <3>1. Complete(line1, args1) /\ l1 = LongerBy(line, Option)
      BY <1>1, <2>1, <2>2, ArgAppended
    <3>. QED
      BY <1>1, <2>1, <3>1
  <2>4. line1 \in Text /\ line1 # <<>>
    BY <2>3, TextIsLine DEF Complete
  <2>. HIDE DEF line1, l1, args1
  <2>5. LongerBy(line1, pair) = lt + (l1 + 1)
    BY <1>2, <2>3, <2>4 DEF LongerBy, lt, l1
  <2>6. lt + (l1 + 1) + 1 <= room + 2 * ld + PairRoom /\ lt + (l1 + 1) + 1 <= cap
    BY <1>1, <1>2, <1>3, <2>2, <2>3
  <2>7. Complete(line2, args2) /\ l2 = lt + (l1 + 1) /\ args2 \in Seq(Text)
    <3>1. Complete(line2, args2) /\ l2 = LongerBy(line1, pair)
      BY <1>1, <2>3, <2>4, <2>5, <2>6, ArgAppended
    <3>. QED
      BY <1>1, <2>3, <2>5, <3>1
  <2>8. AddPair(args, d) = args2 /\ AppendDir(line, cap, d) = line2
    <3>1. AddPair(args, d) = args \o <<Option, pair>>
      BY <1>5 DEF AddPair, pair
    <3>2. args \o <<Option, pair>> = Append(Append(args, Option), pair)
      BY <1>1
    <3>. QED
      BY <1>5, <3>1, <3>2 DEF AppendDir, line1, pair, args1
  <2>. HIDE DEF line2, args2
  <2>9. l2 + 1 <= room + 2 * ld + PairRoom
    BY <2>6, <2>7
  <2>. QED
    BY <2>7, <2>8, <2>9 DEF l2, ld
<1>. QED
  BY <1>4, <1>5

\* The room grows.
LEMMA RoomGrows ==
    ASSUME NEW dirs \in Seq(Dirs), NEW room, room[0] = LineRoom,
           \A k \in 1..Len(dirs) : room[k] = room[k - 1] + 2 * Len(dirs[k].dir) + PairRoom
    PROVE  \A k \in 0..Len(dirs) : /\ room[k] \in Nat /\ room[k] <= room[Len(dirs)]
                                   /\ LineRoom <= room[k]
<1>. DEFINE n == Len(dirs)
            Grown(k) == room[k] \in Nat /\ \A j \in 0..k : room[j] \in Nat /\ room[j] <= room[k]
            T == {k \in Nat : k <= n => Grown(k)}
<1>1. n \in Nat /\ LineRoom \in Nat /\ PairRoom \in Nat
      /\ \A k \in 1..n : Len(dirs[k].dir) \in Nat
  <2>1. \A k \in 1..n : dirs[k].dir \in Text
    <3>1. \A k \in 1..n : dirs[k] \in Dirs
      OBVIOUS
    <3>. QED
      BY <3>1 DEF Dirs
  <2>. QED
    BY <2>1, CommandLineConstants, TextLengths
<1>. HIDE DEF n
<1>2. Grown(0)
  BY <1>1
<1>3. ASSUME NEW k \in Nat, Grown(k), k + 1 <= n PROVE Grown(k + 1)
  <2>. DEFINE more == 2 * Len(dirs[k + 1].dir) + PairRoom
  <2>1. k + 1 \in 1..n /\ (k + 1) - 1 = k
    BY <1>1, <1>3
  <2>2. more \in Nat
    BY <1>1, <2>1
  <2>3. room[k + 1] = room[k] + more
    <3>1. room[k + 1] = room[k] + 2 * Len(dirs[k + 1].dir) + PairRoom
      BY <2>1 DEF n
    <3>2. Len(dirs[k + 1].dir) \in Nat /\ room[k] \in Nat
      BY <1>1, <1>3, <2>1
    <3>. QED
      BY <1>1, <3>1, <3>2
  <2>. HIDE DEF more
  <2>4. \A j \in 0..(k + 1) : j \in 0..k \/ j = k + 1
    OBVIOUS
  <2>. QED
    BY <1>3, <2>2, <2>3, <2>4
<1>. HIDE DEF Grown
<1>4. 0 \in T /\ \A k \in Nat : k \in T => k + 1 \in T
  BY <1>1, <1>2, <1>3
<1>5. Nat \subseteq T
  <2>. HIDE DEF T
  <2>. QED
    BY <1>4, Induction
<1>6. \A k \in 0..n : Grown(k)
  BY <1>1, <1>5
<1>. QED
  BY <1>1, <1>6 DEF Grown, n

\* The whole line.
LEMMA LineSurvives ==
    ASSUME NEW exe, NEW dirs, FitsRoom(exe, dirs)
    PROVE  LET line == BuildSync(exe, dirs)
           IN  IF \A n \in DOMAIN dirs : dirs[n].dir = <<>> THEN line = NoLine
               ELSE line # NoLine /\ ParseArgs(line) = SyncArgs(exe, dirs)
<1>. DEFINE n == Len(dirs)
            cap == SyncRoom(dirs)
            start == AppendArg(AppendArg(<<>>, cap, exe), cap, SyncWord)
<1>1. /\ exe \in Text /\ dirs \in Seq(Dirs) /\ n \in Nat /\ dirs \in [1..n -> Dirs]
      /\ 2 * Len(exe) + Len(SyncWord) + 4 <= LineRoom
      /\ \A k \in 1..n : Len(Option) + Len(dirs[k].provider) + 5 <= PairRoom
  BY DEF FitsRoom
<1>2. PICK room : /\ room[0] = LineRoom
                  /\ \A k \in 1..n : room[k] = room[k - 1] + 2 * Len(dirs[k].dir) + PairRoom
                  /\ cap = room[n]
  BY <1>1, RoomRuns
<1>3. PICK args : /\ args[0] = <<exe, SyncWord>>
                  /\ \A k \in 1..n : args[k] = AddPair(args[k - 1], dirs[k])
                  /\ SyncArgs(exe, dirs) = args[n]
  BY <1>1, ArgsRuns
<1>4. \A k \in 0..n : room[k] \in Nat /\ room[k] <= cap /\ LineRoom <= room[k]
  BY <1>1, <1>2, RoomGrows
<1>. HIDE DEF cap
<1>5. cap \in Nat /\ LineRoom <= cap
  BY <1>1, <1>2, <1>4
<1>6. Complete(start, <<exe, SyncWord>>) /\ Len(start) + 1 <= LineRoom
  BY <1>1, <1>5, StartOfLine
<1>. HIDE DEF start
<1>7. start \in Lines
  BY <1>6 DEF Complete, Lines
<1>8. PICK line : /\ line[0] = start
                  /\ \A k \in 1..n : line[k] = AppendDir(line[k - 1], cap, dirs[k])
                  /\ AppendDirs(start, cap, dirs) = line[n]
  BY <1>1, <1>5, <1>7, LineRuns
<1>. DEFINE Read(k) == args[k] \in Seq(Text) /\ Complete(line[k], args[k])
                       /\ Len(line[k]) + 1 <= room[k]
            T == {k \in Nat : k <= n => Read(k)}
<1>. HIDE DEF n
<1>9. Read(0)
  <2>1. <<exe, SyncWord>> \in Seq(Text)
    BY <1>1, WordText, CommandLineConstants
  <2>. QED
    BY <1>2, <1>3, <1>6, <1>8, <2>1
<1>10. ASSUME NEW k \in Nat, Read(k), k + 1 <= n PROVE Read(k + 1)
  <2>. DEFINE d == dirs[k + 1]
              r == room[k]
              l == line[k]
              a == args[k]
  <2>1. k + 1 \in 1..n /\ (k + 1) - 1 = k /\ k \in 0..n /\ k + 1 \in 0..n
    BY <1>1, <1>10
  <2>2. d \in Dirs /\ Len(Option) + Len(d.provider) + 5 <= PairRoom
    BY <1>1, <2>1
  <2>3. /\ room[k + 1] = r + 2 * Len(d.dir) + PairRoom /\ args[k + 1] = AddPair(a, d)
        /\ line[k + 1] = AppendDir(l, cap, d)
    BY <1>2, <1>3, <1>8, <2>1
  <2>4. r \in Nat /\ room[k + 1] <= cap
    BY <1>4, <2>1
  <2>5. a \in Seq(Text) /\ Complete(l, a) /\ Len(l) + 1 <= r
    BY <1>10
  <2>. HIDE DEF d, r, l, a
  <2>6. r + 2 * Len(d.dir) + PairRoom <= cap
    BY <2>3, <2>4
  <2>7. /\ AddPair(a, d) \in Seq(Text) /\ Complete(AppendDir(l, cap, d), AddPair(a, d))
        /\ Len(AppendDir(l, cap, d)) + 1 <= r + 2 * Len(d.dir) + PairRoom
    BY <1>5, <2>2, <2>4, <2>5, <2>6, DirAppended
  <2>. QED
    BY <2>3, <2>7
<1>. HIDE DEF Read
<1>11. 0 \in T /\ \A k \in Nat : k \in T => k + 1 \in T
  BY <1>1, <1>9, <1>10
<1>12. n \in T
  <2>. HIDE DEF T
  <2>. QED
    BY <1>1, <1>11, Induction
<1>13. Complete(line[n], args[n])
  BY <1>1, <1>12 DEF Read
<1>14. line[n] # NoLine /\ ParseArgs(line[n]) = args[n]
  <2>1. line[n] # NoLine
    BY <1>13, TextIsLine DEF Complete
  <2>2. ParseArgs(line[n]) = Between(args[n]).args
    BY <1>13 DEF Complete, ParseArgs, Parsed
  <2>. QED
    BY <2>1, <2>2 DEF Between, ParseStart
<1>15. BuildSync(exe, dirs) = IF \A k \in DOMAIN dirs : dirs[k].dir = <<>> THEN NoLine
                              ELSE AppendDirs(start, cap, dirs)
  BY DEF BuildSync, start, cap
<1>. QED
  BY <1>3, <1>8, <1>14, <1>15
-------------------------------------------------------------------------------
\* Provider directories

\* A candidate that exists is in a directory that is watched: the watcher asks for
\* every candidate, and takes the directory of a file.
LEMMA ScanWatched ==
    ASSUME NEW i, IsScan(i), NEW r \in Resolve(i.env, i.left)
    PROVE  {r.dir, Front(r.dir)} \cap WatchPaths(i.env, i.fs) # {}
<1>1. PICK p \in Table :
          \E k \in FirstExisting(CandidatesFor(p, i.env), i.left) :
              r = [provider |-> p.name, dir |-> CandidatesFor(p, i.env)[k]]
  BY DEF Resolve
<1>. DEFINE c == CandidatesFor(p, i.env)
            dir == r.dir
<1>2. PICK k \in FirstExisting(c, i.left) : r = [provider |-> p.name, dir |-> c[k]]
  BY <1>1
<1>2a. k \in DOMAIN c /\ dir = c[k] /\ dir \in i.fs.dirs \cup i.fs.files
  BY <1>2 DEF FirstExisting, PathExists, IsScan
<1>3. dir \in ToSet(c)
  BY <1>2a DEF ToSet
<1>. HIDE DEF c
<1>4. WatchableDir(dir, i.fs) \subseteq WatchPaths(i.env, i.fs)
  BY <1>3 DEF WatchPaths, c
<1>5. dir \in WatchableDir(dir, i.fs) \/ Front(dir) \in WatchableDir(dir, i.fs)
  BY <1>2a DEF WatchableDir, IsScan
<1>. QED
  BY <1>4, <1>5

\* Each candidate is watched by one directory at most, so the roots are enough for
\* as many candidates.
LEMMA RootsSuffice ==
    ASSUME NEW i, IsScan(i), Cardinality(Candidates(i.env)) <= MaxRoots
    PROVE  RootsOf(WatchPaths(i.env, i.fs)) = {WatchPaths(i.env, i.fs)}
<1>. DEFINE all == Candidates(i.env)
            watched == WatchPaths(i.env, i.fs)
            of == [dir \in watched |-> CHOOSE c \in all : dir \in WatchableDir(c, i.fs)]
<1>1. IsFiniteSet(all) /\ Cardinality(all) \in Nat
  BY FS_CardinalityType DEF IsScan
<1>2. ASSUME NEW dir \in watched
      PROVE  of[dir] \in all /\ dir \in WatchableDir(of[dir], i.fs)
  <2>1. \E c \in all : dir \in WatchableDir(c, i.fs)
    BY <1>2 DEF WatchPaths, Candidates
  <2>. QED
    BY <2>1
<1>3. ASSUME NEW one \in watched, NEW other \in watched, of[one] = of[other]
      PROVE  one = other
  <2>. HIDE DEF of
  <2>1. one \in WatchableDir(of[one], i.fs) /\ other \in WatchableDir(of[one], i.fs)
    BY <1>2, <1>3
  <2>. QED
    BY <2>1 DEF WatchableDir
<1>. HIDE DEF watched, all
<1>4. of \in Injection(watched, all)
  <2>1. of \in [watched -> all]
    BY <1>2
  <2>. HIDE DEF of
  <2>2. \A one, other \in watched : of[one] = of[other] => one = other
    BY <1>3
  <2>. QED
    BY <2>1, <2>2 DEF Injection, IsInjective
<1>5. Cardinality(watched) <= Cardinality(all) /\ Cardinality(watched) \in Nat
  BY <1>1, <1>4, FS_Injection, FS_CardinalityType
<1>6. Cardinality(watched) <= MaxRoots
  BY <1>1, <1>5, DataDirsConstants DEF all
<1>. QED
  BY <1>6 DEF RootsOf, watched
-------------------------------------------------------------------------------
\* Downloads

Numbers == Nat \ {0}
Sinks == [file : Seq(Numbers), digest : Seq(Numbers), written : Nat, ok : BOOLEAN]

\* A block keeps the sink well-formed.
LEMMA SinkTyped ==
    ASSUME NEW sink \in Sinks, NEW block \in Numbers, NEW disk
    PROVE  SinkTakes(sink, block, disk) \in Sinks
<1>1. Append(sink.file, block) \in Seq(Numbers) /\ Append(sink.digest, block) \in Seq(Numbers)
  BY DEF Sinks
<1>. DEFINE filed == [sink EXCEPT !.file = Append(@, block)]
<1>2. filed \in Sinks /\ filed.digest = sink.digest /\ filed.written = sink.written
  BY <1>1 DEF Sinks
<1>3. [sink EXCEPT !.ok = FALSE] \in Sinks
  BY DEF Sinks
<1>4. SinkTakes(sink, block, disk) =
          IF ~sink.ok THEN sink
          ELSE IF sink.written = disk.room THEN [sink EXCEPT !.ok = FALSE]
          ELSE IF sink.written + 1 = disk.hashes THEN [filed EXCEPT !.ok = FALSE]
          ELSE [filed EXCEPT !.digest = Append(@, block), !.written = @ + 1]
  BY DEF SinkTakes
<1>. HIDE DEF filed
<1>5. [filed EXCEPT !.ok = FALSE] \in Sinks
  BY <1>2 DEF Sinks
<1>6. [filed EXCEPT !.digest = Append(@, block), !.written = @ + 1] \in Sinks
  <2>. DEFINE digest == Append(filed.digest, block)
              written == filed.written + 1
  <2>1. digest \in Seq(Numbers) /\ written \in Nat
    BY <1>1, <1>2 DEF Sinks
  <2>. HIDE DEF digest, written
  <2>2. [filed EXCEPT !.digest = digest, !.written = written] \in Sinks
    BY <1>2, <2>1 DEF Sinks
  <2>. QED
    BY <2>2 DEF digest, written
<1>. QED
  BY <1>3, <1>4, <1>5, <1>6

\* The blocks that the sink takes, one by one.
LEMMA SinkRuns ==
    ASSUME NEW seq \in Seq(Numbers), NEW transfer, transfer.blocks = seq,
           NEW disk \in [room : Nat, hashes : Nat]
    PROVE  \E f : /\ f[0] = NewSink(disk)
                  /\ \A k \in 1..Len(seq) : f[k] = SinkTakes(f[k - 1], seq[k], disk)
                  /\ SinkReads(transfer, disk) = f[Len(seq)]
<1>. DEFINE n == Len(seq)
            b == NewSink(disk)
            step == [p \in Sinks \X Numbers |-> SinkTakes(p[1], p[2], disk)]
            IsFold(g) == g = [s \in SUBSET (1..n) |->
                 IF s = {} THEN b ELSE SinkTakes(g[s \ {Max(s)}], seq[Max(s)], disk)]
<1>1. n \in Nat /\ seq \in [1..n -> Numbers] /\ DOMAIN seq = 1..n /\ b \in Sinks
  BY DEF NewSink, Sinks
<1>2. step \in [Sinks \X Numbers -> Sinks]
  BY SinkTyped
<1>3. \E g : IsFold(g)
  <2>. HIDE DEF n, b, step, IsFold
  <2>1. PICK F \in [SUBSET (1..n) -> Sinks] : FoldsOver(F, seq, b, step)
    BY <1>1, <1>2, FoldOverSets DEF n
  <2>2. ASSUME NEW s \in SUBSET (1..n)
        PROVE  F[s] = IF s = {} THEN b ELSE SinkTakes(F[s \ {Max(s)}], seq[Max(s)], disk)
    <3>1. CASE s # {}
      <4>1. F[s \ {Max(s)}] \in Sinks
        OBVIOUS
      <4>2. seq[Max(s)] \in Numbers
        BY <1>1, <3>1, MaxOfRange
      <4>. QED
        BY <2>1, <3>1, <4>1, <4>2 DEF step, FoldsOver, n
    <3>. QED
      BY <2>1, <3>1 DEF FoldsOver, n
  <2>. QED
    BY <2>2 DEF IsFold
<1>4. PICK g : IsFold(g) /\ SinkReads(transfer, disk) = g[1..n]
  <2>1. SinkReads(transfer, disk) = (CHOOSE g : IsFold(g))[1..n]
    BY <1>1 DEF FoldLeft, MapThenFoldSet, SinkReads
  <2>. QED
    BY <1>3, <2>1
<1>. HIDE DEF b
<1>. DEFINE f == [k \in 0..n |-> g[1..k]]
<1>5. f[0] = b
  BY <1>1, <1>4
<1>6. \A k \in 1..n : f[k] = SinkTakes(f[k - 1], seq[k], disk)
  <2>. TAKE k \in 1..n
  <2>1. /\ 1..k \in SUBSET (1..n) /\ 1..k # {} /\ Max(1..k) = k
        /\ (1..k) \ {Max(1..k)} = 1..(k - 1)
    BY <1>1, Ranges
  <2>2. k \in 0..n /\ k - 1 \in 0..n
    BY <1>1
  <2>. QED
    BY <1>4, <2>1, <2>2
<1>7. SinkReads(transfer, disk) = f[n]
  BY <1>1, <1>4
<1>. QED
  BY <1>5, <1>6, <1>7 DEF b

\* The sink has filed and hashed everything, or it has failed, and it does not
\* fail when the disk has room and the hash works.
LEMMA SinkWhole ==
    ASSUME NEW transfer, transfer.blocks \in Seq(Numbers), NEW disk \in [room : Nat, hashes : Nat]
    PROVE  LET body == transfer.blocks
               sink == SinkReads(transfer, disk)
           IN  /\ sink.ok => sink.file = body /\ sink.digest = body /\ sink.written = Len(body)
               /\ disk.room >= Len(body) /\ disk.hashes > Len(body) + 1 => sink.ok
<1>. DEFINE seq == transfer.blocks
            n == Len(seq)
            room == disk.room
            hashes == disk.hashes
<1>1. PICK f : /\ f[0] = NewSink(disk)
               /\ \A k \in 1..n : f[k] = SinkTakes(f[k - 1], seq[k], disk)
               /\ SinkReads(transfer, disk) = f[n]
  BY SinkRuns
<1>2. /\ n \in Nat /\ SubSeq(seq, 1, 0) = <<>> /\ SubSeq(seq, 1, n) = seq
      /\ \A k \in 1..n : seq[k] \in Numbers
      /\ \A k \in Nat : k + 1 <= n =>
             /\ SubSeq(seq, 1, k) \in Seq(Numbers)
             /\ SubSeq(seq, 1, k + 1) = Append(SubSeq(seq, 1, k), seq[k + 1])
  <2>1. SubSeq(seq, 1, 0) = <<>> /\ SubSeq(seq, 1, n) = seq /\ n \in Nat
    OBVIOUS
  <2>2. \A k \in 1..n : seq[k] \in Numbers
    OBVIOUS
  <2>3. ASSUME NEW k \in Nat, k + 1 <= n
        PROVE  /\ SubSeq(seq, 1, k) \in Seq(Numbers)
               /\ SubSeq(seq, 1, k + 1) = Append(SubSeq(seq, 1, k), seq[k + 1])
    BY <2>3
  <2>. QED
    BY <2>1, <2>2, <2>3
<1>3. room \in Nat /\ hashes \in Nat
  OBVIOUS
<1>. DEFINE Whole(k) ==
              /\ f[k] \in Sinks
              /\ f[k].ok => /\ f[k].file = SubSeq(seq, 1, k) /\ f[k].digest = SubSeq(seq, 1, k)
                            /\ f[k].written = k
              /\ room >= n /\ hashes > n + 1 => f[k].ok
            T == {k \in Nat : k <= n => Whole(k)}
<1>. HIDE DEF n, seq
<1>4. Whole(0)
  <2>1. NewSink(disk) \in Sinks
    BY DEF NewSink, Sinks
  <2>2. NewSink(disk).file = <<>> /\ NewSink(disk).digest = <<>> /\ NewSink(disk).written = 0
        /\ NewSink(disk).ok = (hashes > 0)
    BY DEF NewSink
  <2>3. hashes > n + 1 => hashes > 0
    BY <1>2, <1>3
  <2>. DEFINE s == NewSink(disk)
  <2>. HIDE DEF s, room, hashes
  <2>. QED
    BY <1>1, <1>2, <2>1, <2>2, <2>3 DEF s
<1>5. ASSUME NEW k \in Nat, Whole(k), k + 1 <= n PROVE Whole(k + 1)
  <2>. DEFINE s == f[k]
              ch == seq[k + 1]
              p == SubSeq(seq, 1, k)
              filed == [s EXCEPT !.file = Append(@, ch)]
              s2 == SinkTakes(s, ch, disk)
  <2>1. k + 1 \in 1..n /\ (k + 1) - 1 = k
    <3>1. k + 1 <= n
      BY <1>5
    <3>2. n \in Nat
      BY <1>2
    <3>. QED
      BY <3>1, <3>2
  <2>2. f[k + 1] = s2 /\ ch \in Numbers
    BY <1>1, <1>2, <2>1
  <2>3. /\ s \in Sinks /\ (s.ok => s.file = p /\ s.digest = p /\ s.written = k)
        /\ (room >= n /\ hashes > n + 1 => s.ok)
    BY <1>5
  <2>4. p \in Seq(Numbers) /\ SubSeq(seq, 1, k + 1) = Append(p, ch)
    BY <1>2, <1>5
  <2>. HIDE DEF s, ch, p
  <2>5. s2 \in Sinks
    BY <2>2, <2>3, SinkTyped
  <2>6. /\ s2.ok => s2.file = Append(p, ch) /\ s2.digest = Append(p, ch) /\ s2.written = k + 1
        /\ room >= n /\ hashes > n + 1 => s2.ok
    <3>1. CASE ~s.ok
      BY <2>3, <3>1 DEF SinkTakes
    <3>2. CASE s.ok /\ s.written = room
      <4>1. s2 = [s EXCEPT !.ok = FALSE]
        BY <3>2 DEF SinkTakes
      <4>2. room < n
        BY <1>2, <1>3, <1>5, <2>3, <3>2
      <4>. QED
        BY <1>2, <1>3, <2>3, <4>1, <4>2 DEF Sinks
    <3>3. CASE s.ok /\ s.written # room /\ s.written + 1 = hashes
      <4>1. s2 = [filed EXCEPT !.ok = FALSE]
        BY <3>3 DEF SinkTakes
      <4>2. hashes <= n
        BY <1>2, <1>3, <1>5, <2>3, <3>3
      <4>. QED
        BY <1>2, <1>3, <2>3, <4>1, <4>2 DEF Sinks
    <3>4. CASE s.ok /\ s.written # room /\ s.written + 1 # hashes
      <4>1. s2 = [filed EXCEPT !.digest = Append(@, ch), !.written = @ + 1]
        BY <3>4 DEF SinkTakes
      <4>2. s2.file = Append(s.file, ch) /\ s2.digest = Append(s.digest, ch)
            /\ s2.written = s.written + 1 /\ s2.ok = s.ok
        BY <2>3, <4>1 DEF Sinks
      <4>. QED
        BY <2>3, <3>4, <4>2
    <3>. QED
      BY <2>3, <3>1, <3>2, <3>3, <3>4 DEF Sinks
  <2>. HIDE DEF s2
  <2>. QED
    BY <2>2, <2>4, <2>5, <2>6
<1>. HIDE DEF Whole
<1>6. 0 \in T /\ \A k \in Nat : k \in T => k + 1 \in T
  BY <1>2, <1>4, <1>5
<1>7. n \in T
  <2>. HIDE DEF T
  <2>. QED
    BY <1>2, <1>6, Induction
<1>8. Whole(n)
  BY <1>2, <1>7
<1>. QED
  BY <1>1, <1>2, <1>8 DEF Whole, n, seq

\* What is staged is what the server sent and has published.
LEMMA StagedIsWhole ==
    ASSUME NEW i, IsDownload(i)
    PROVE  LET update == i.update
               body == i.transfer.blocks
               staged == Staged(update, i.transfer, i.disk)
               served == i.transfer.sent /\ i.transfer.ends /\ i.transfer.status = 200
               published == update.digest \in {<<>>, body} /\ update.size \in {0, Len(body)}
           IN  /\ staged # NoFile => served /\ staged = body /\ published
               /\ served /\ published /\ Private(update.url)
                  /\ i.disk.room >= Len(body) /\ i.disk.hashes > Len(body) + 1
                  => staged = body
               /\ AnswerOf(i.transfer) = IF served THEN body ELSE NoFile
<1>. DEFINE update == i.update
            transfer == i.transfer
            disk == i.disk
            body == transfer.blocks
            n == Len(body)
            sink == SinkReads(transfer, disk)
            staged == Staged(update, transfer, disk)
            served == transfer.sent /\ transfer.ends /\ transfer.status = 200
            published == update.digest \in {<<>>, body} /\ update.size \in {0, n}
<1>1. /\ transfer.sent \in BOOLEAN /\ transfer.ends \in BOOLEAN /\ transfer.status \in Nat
      /\ body \in Seq(Numbers) /\ disk \in [room : Nat, hashes : Nat] /\ n \in Nat
      /\ update.size \in Nat /\ update.url \in Urls
  BY DEF IsDownload, Transfers, Numbers
<1>2. /\ sink.ok => sink.file = body /\ sink.digest = body /\ sink.written = n
      /\ disk.room >= n /\ disk.hashes > n + 1 => sink.ok
  BY <1>1, SinkWhole
<1>3. Private(update.url) => TrustedTransport(update.url)
  BY <1>1 DEF TrustedTransport, Urls, Private, Loopback
<1>4. body # NoFile
  <2>1. ASSUME body = NoFile PROVE FALSE
    <3>1. Len(body) = 1 /\ body[1] = 0
      BY <2>1 DEF NoFile
    <3>2. body[1] \in Numbers
      BY <1>1, <3>1
    <3>. QED
      BY <3>1, <3>2 DEF Numbers
  <2>. QED
    BY <2>1
<1>. DEFINE download == HttpDownload(transfer, disk)
            fits == update.size > 0 => sink.written = update.size
            same == update.digest # <<>> =>
                        sink.written + 1 < disk.hashes /\ sink.digest = update.digest
<1>5. download.ok => served /\ sink.ok /\ download.sink = sink
  BY DEF HttpDownload
<1>6. served => download.sink = sink /\ (download.ok <=> sink.ok)
  <2>. HIDE DEF sink
  <2>. QED
    BY DEF HttpDownload, sink
<1>7. staged = IF /\ TrustedTransport(update.url) /\ download.ok
                  /\ update.size > 0 => download.sink.written = update.size
                  /\ update.digest # <<>> =>
                        download.sink.written + 1 < disk.hashes
                        /\ download.sink.digest = update.digest
               THEN download.sink.file ELSE NoFile
  BY DEF Staged
<1>8. AnswerOf(transfer) = IF served THEN body ELSE NoFile
  BY <1>1 DEF AnswerOf, HttpRequest
<1>. HIDE DEF update, transfer, disk, body, n, sink, staged, download
<1>9. staged # NoFile => served /\ staged = body /\ published
  BY <1>1, <1>2, <1>3, <1>5, <1>7
<1>10. served /\ published /\ Private(update.url) /\ disk.room >= n /\ disk.hashes > n + 1
       => staged = body
  BY <1>1, <1>2, <1>3, <1>6, <1>7
<1>. QED
  BY <1>8, <1>9, <1>10 DEF update, transfer, disk, body, n, staged
-------------------------------------------------------------------------------
\* Warnings

\* A character or a dot, and how many bytes it has.
Characters == Widths \cup {Dot}
Bytes == Seq(Nat)
Begins(s, u) == Len(u) <= Len(s) /\ \A j \in 1..Len(u) : s[j] = u[j]

\* The bytes of a concatenation.
LEMMA BytesConcat ==
    ASSUME NEW s \in Bytes, NEW u \in Bytes
    PROVE  /\ Len(s) \in Nat /\ Len(u) \in Nat
           /\ s \o u \in Bytes /\ Len(s \o u) = Len(s) + Len(u)
           /\ \A j \in 1..Len(s) : (s \o u)[j] = s[j]
           /\ \A j \in (Len(s) + 1)..(Len(s) + Len(u)) : (s \o u)[j] = u[j - Len(s)]
  BY DEF Bytes

\* A character starts with a byte of its own, and has no other such byte.
LEMMA EncodedTyped ==
    ASSUME NEW x \in Characters
    PROVE  /\ Encoded(x) \in Bytes /\ Len(Encoded(x)) \in 1..4 /\ Encoded(x)[1] = x
           /\ IsStart(x) /\ x \in Nat
           /\ \A j \in 2..Len(Encoded(x)) : ~IsStart(Encoded(x)[j])
<1>. USE DEF IsStart, Continuation, Dot
<1>1. CASE x = Dot
  BY <1>1 DEF Encoded, Bytes
<1>2. CASE x \in Widths /\ x # Dot
  <2>. DEFINE a == <<x>>
              c == [i \in 1..(x - 1) |-> 0]
              b == a \o c
  <2>1. x \in 1..4 /\ x \in Nat
    BY <1>2 DEF Widths
  <2>2. a \in Bytes /\ Len(a) = 1 /\ a[1] = x
    BY <2>1 DEF Bytes
  <2>3. x - 1 \in Nat /\ c \in Bytes /\ Len(c) = x - 1 /\ \A j \in 1..(x - 1) : c[j] = 0
    BY <2>1 DEF Bytes
  <2>4. Encoded(x) = b
    BY <1>2 DEF Encoded
  <2>. HIDE DEF a, c
  <2>5. /\ b \in Bytes /\ Len(b) = Len(a) + Len(c)
        /\ \A j \in 1..Len(a) : b[j] = a[j]
        /\ \A j \in (Len(a) + 1)..(Len(a) + Len(c)) : b[j] = c[j - Len(a)]
    BY <2>2, <2>3, BytesConcat
  <2>. HIDE DEF b
  <2>6. Len(b) = x /\ b[1] = x
    BY <2>1, <2>2, <2>3, <2>5
  <2>7. ASSUME NEW j \in 2..x PROVE b[j] = 0
    <3>1. j - 1 \in 1..(x - 1) /\ j \in 2..(1 + (x - 1))
      BY <2>1
    <3>. QED
      BY <2>2, <2>3, <2>5, <3>1
  <2>. QED
    BY <2>1, <2>4, <2>5, <2>6, <2>7
<1>. QED
  BY <1>1, <1>2 DEF Characters

\* The flattening of the bytes of each character exists, and goes on from the one
\* before.
LEMMA Flattened ==
    ASSUME NEW seqs \in Seq(Bytes), Len(seqs) > 0
    PROVE  \E f : /\ f[1] = seqs[1]
                  /\ \A k \in 2..Len(seqs) : f[k] = f[k - 1] \o seqs[k]
                  /\ FlattenSeq(seqs) = f[Len(seqs)]
<1>. DEFINE n == Len(seqs)
            Flat(f, k) == f = [i \in 1..k |-> IF i = 1 THEN seqs[i] ELSE f[i - 1] \o seqs[i]]
            T == {k \in Nat : \E f : Flat(f, k)}
<1>1. n \in Nat /\ n > 0
  OBVIOUS
<1>2. \E f : Flat(f, 0)
  <2>. DEFINE e == [i \in 1..0 |-> seqs[i]]
  <2>1. Flat(e, 0)
    OBVIOUS
  <2>. QED
    BY <2>1
<1>3. ASSUME NEW k \in Nat, \E f : Flat(f, k) PROVE \E f : Flat(f, k + 1)
  <2>1. PICK f : Flat(f, k)
    BY <1>3
  <2>. DEFINE g == [i \in 1..(k + 1) |-> IF i = k + 1
                                         THEN IF i = 1 THEN seqs[i] ELSE f[k] \o seqs[i]
                                         ELSE f[i]]
  <2>2. ASSUME NEW i \in 1..(k + 1)
        PROVE  g[i] = IF i = 1 THEN seqs[i] ELSE g[i - 1] \o seqs[i]
    <3>1. CASE i = k + 1
      <4>1. i # 1 => g[k] = f[k] /\ i - 1 = k
        BY <3>1
      <4>. QED
        BY <3>1, <4>1
    <3>2. CASE i # k + 1
      <4>1. i \in 1..k
        BY <3>2
      <4>2. f[i] = IF i = 1 THEN seqs[i] ELSE f[i - 1] \o seqs[i]
        BY <2>1, <4>1
      <4>3. g[i] = f[i] /\ (i # 1 => g[i - 1] = f[i - 1])
        BY <3>2, <4>1
      <4>. QED
        BY <4>2, <4>3
    <3>. QED
      BY <3>1, <3>2
  <2>3. g = [i \in 1..(k + 1) |-> IF i = 1 THEN seqs[i] ELSE g[i - 1] \o seqs[i]]
    <3>1. g = [i \in 1..(k + 1) |-> g[i]]
      OBVIOUS
    <3>. HIDE DEF g
    <3>. QED
      BY <2>2, <3>1
  <2>. HIDE DEF g
  <2>4. Flat(g, k + 1)
    BY <2>3
  <2>. HIDE DEF Flat
  <2>. QED
    BY <2>4
<1>4. n \in T
  <2>. HIDE DEF Flat
  <2>1. 0 \in T /\ \A k \in Nat : k \in T => k + 1 \in T
    BY <1>2, <1>3
  <2>. HIDE DEF T, n
  <2>. QED
    BY <1>1, <2>1, Induction
<1>5. PICK f : Flat(f, n) /\ FlattenSeq(seqs) = f[n]
  <2>1. FlattenSeq(seqs) = (CHOOSE f : Flat(f, n))[n]
    BY <1>1 DEF FlattenSeq
  <2>2. \E f : Flat(f, n)
    BY <1>4
  <2>. HIDE DEF Flat
  <2>. QED
    BY <2>1, <2>2
<1>. HIDE DEF n
<1>6. \A k \in 1..n : f[k] = IF k = 1 THEN seqs[k] ELSE f[k - 1] \o seqs[k]
  <2>1. f = [i \in 1..n |-> IF i = 1 THEN seqs[i] ELSE f[i - 1] \o seqs[i]]
    BY <1>5
  <2>. QED
    BY <2>1
<1>7. f[1] = seqs[1]
  BY <1>1, <1>6
<1>8. ASSUME NEW k \in 2..n PROVE f[k] = f[k - 1] \o seqs[k]
  <2>1. k \in 1..n /\ k # 1
    BY <1>1
  <2>. QED
    BY <1>6, <2>1
<1>. QED
  BY <1>5, <1>7, <1>8 DEF n

Strings == Seq(Characters)

\* A prefix of a string grows by its next character.
LEMMA StringPrefixes ==
    ASSUME NEW c \in Strings
    PROVE  /\ Len(c) \in Nat /\ SubSeq(c, 1, 0) = <<>> /\ SubSeq(c, 1, Len(c)) = c
           /\ \A k \in 1..Len(c) : c[k] \in Characters
           /\ \A k \in 0..Len(c) : SubSeq(c, 1, k) \in Strings /\ Len(SubSeq(c, 1, k)) = k
           /\ \A k \in Nat : k + 1 <= Len(c) =>
                  SubSeq(c, 1, k + 1) = Append(SubSeq(c, 1, k), c[k + 1])
<1>1. SubSeq(c, 1, 0) = <<>> /\ SubSeq(c, 1, Len(c)) = c /\ Len(c) \in Nat
  BY DEF Strings
<1>2. \A k \in 1..Len(c) : c[k] \in Characters
  BY DEF Strings
<1>3. ASSUME NEW k \in 0..Len(c)
      PROVE  SubSeq(c, 1, k) \in Strings /\ Len(SubSeq(c, 1, k)) = k
  BY DEF Strings
<1>4. ASSUME NEW k \in Nat, k + 1 <= Len(c)
      PROVE  SubSeq(c, 1, k + 1) = Append(SubSeq(c, 1, k), c[k + 1])
  BY <1>4 DEF Strings
<1>. QED
  BY <1>1, <1>2, <1>3, <1>4

\* The bytes of a text, character by character.
LEMMA EncodeRuns ==
    ASSUME NEW c \in Strings
    PROVE  \E f : /\ f[0] = <<>>
                  /\ \A k \in 1..Len(c) : f[k] = f[k - 1] \o Encoded(c[k])
                  /\ Encode(c) = f[Len(c)]
<1>. DEFINE n == Len(c)
            seqs == [i \in DOMAIN c |-> Encoded(c[i])]
<1>1. n \in Nat /\ DOMAIN c = 1..n /\ \A k \in 1..n : c[k] \in Characters
  BY DEF Strings
<1>2. seqs \in Seq(Bytes) /\ Len(seqs) = n /\ \A k \in 1..n : seqs[k] = Encoded(c[k])
  <2>1. \A k \in 1..n : Encoded(c[k]) \in Bytes
    BY <1>1, EncodedTyped
  <2>. HIDE DEF n
  <2>. QED
    BY <1>1, <2>1
<1>3. Encode(c) = FlattenSeq(seqs)
  BY DEF Encode
<1>. HIDE DEF n, seqs
<1>4. CASE n = 0
  <2>. DEFINE f == [k \in {0} |-> <<>>]
  <2>1. FlattenSeq(seqs) = seqs
    BY <1>2, <1>4 DEF FlattenSeq
  <2>2. seqs = <<>>
    BY <1>2, <1>4 DEF Bytes
  <2>3. f[0] = <<>> /\ Encode(c) = f[n] /\ \A k \in 1..n : f[k] = f[k - 1] \o Encoded(c[k])
    BY <1>3, <1>4, <2>1, <2>2
  <2>. QED
    BY <2>3 DEF n
<1>5. CASE n > 0
  <2>1. PICK h : /\ h[1] = seqs[1]
                 /\ \A k \in 2..n : h[k] = h[k - 1] \o seqs[k]
                 /\ FlattenSeq(seqs) = h[n]
    BY <1>2, <1>5, Flattened
  <2>. DEFINE f == [k \in 0..n |-> IF k = 0 THEN <<>> ELSE h[k]]
  <2>2. f[0] = <<>> /\ f[n] = Encode(c)
    BY <1>1, <1>3, <1>5, <2>1
  <2>3. ASSUME NEW k \in 1..n PROVE f[k] = f[k - 1] \o Encoded(c[k])
    <3>1. seqs[k] = Encoded(c[k]) /\ Encoded(c[k]) \in Bytes
      BY <1>1, <1>2, EncodedTyped
    <3>2. CASE k = 1
      <4>1. f[k] = seqs[1] /\ f[k - 1] = <<>>
        BY <1>1, <2>1, <3>2
      <4>2. \A b \in Bytes : <<>> \o b = b
        BY DEF Bytes
      <4>. QED
        BY <3>1, <3>2, <4>1, <4>2
    <3>3. CASE k # 1
      <4>1. k \in 2..n /\ f[k] = h[k] /\ f[k - 1] = h[k - 1]
        BY <1>1, <3>3
      <4>. QED
        BY <2>1, <3>1, <4>1
    <3>. QED
      BY <3>2, <3>3
  <2>. HIDE DEF f
  <2>. QED
    BY <2>2, <2>3 DEF n
<1>6. n = 0 \/ n > 0
  BY <1>1
<1>. QED
  BY <1>4, <1>5, <1>6

\* One more character adds its bytes.
LEMMA EncodeOneMore ==
    /\ Encode(<<>>) = <<>>
    /\ \A c \in Strings, x \in Characters : Encode(Append(c, x)) = Encode(c) \o Encoded(x)
<1>1. Encode(<<>>) = <<>>
  <2>1. <<>> \in Strings /\ Len(<<>>) = 0
    BY DEF Strings
  <2>. QED
    BY <2>1, EncodeRuns
<1>2. ASSUME NEW c \in Strings, NEW x \in Characters
      PROVE  Encode(Append(c, x)) = Encode(c) \o Encoded(x)
  <2>. DEFINE n == Len(c)
              v == Append(c, x)
  <2>1. /\ n \in Nat /\ Len(v) = n + 1 /\ v[n + 1] = x /\ v \in Strings
        /\ \A k \in 1..n : v[k] = c[k]
    BY DEF Strings
  <2>2. PICK f : /\ f[0] = <<>>
                 /\ \A k \in 1..n : f[k] = f[k - 1] \o Encoded(c[k])
                 /\ Encode(c) = f[n]
    BY EncodeRuns
  <2>. HIDE DEF v
  <2>3. PICK h : /\ h[0] = <<>>
                 /\ \A k \in 1..(n + 1) : h[k] = h[k - 1] \o Encoded(v[k])
                 /\ Encode(v) = h[n + 1]
    BY <2>1, EncodeRuns
  <2>. DEFINE T == {k \in Nat : k <= n => f[k] = h[k]}
  <2>. HIDE DEF n
  <2>4. 0 \in T
    BY <2>2, <2>3
  <2>5. ASSUME NEW k \in Nat, k \in T PROVE k + 1 \in T
    <3>. SUFFICES ASSUME k + 1 <= n PROVE f[k + 1] = h[k + 1]
      OBVIOUS
    <3>1. f[k] = h[k] /\ k + 1 \in 1..n /\ k + 1 \in 1..(n + 1) /\ (k + 1) - 1 = k
      BY <2>1, <2>5
    <3>2. f[k + 1] = f[k] \o Encoded(c[k + 1]) /\ h[k + 1] = h[k] \o Encoded(v[k + 1])
      BY <2>2, <2>3, <3>1
    <3>. QED
      BY <2>1, <3>1, <3>2
  <2>6. n \in T
    <3>. HIDE DEF T
    <3>. QED
      BY <2>1, <2>4, <2>5, Induction
  <2>7. f[n] = h[n] /\ n + 1 \in 1..(n + 1) /\ (n + 1) - 1 = n
    BY <2>1, <2>6
  <2>8. h[n + 1] = h[n] \o Encoded(v[n + 1])
    BY <2>3, <2>7
  <2>. QED
    BY <2>1, <2>2, <2>3, <2>7, <2>8 DEF v
<1>. QED
  BY <1>1, <1>2

\* A text begins where its characters do.
LEMMA StartsOneMore ==
    ASSUME NEW s \in Bytes, NEW x \in Characters
    PROVE  Starts(s \o Encoded(x)) = Starts(s) \cup {Len(s) + 1} /\ Len(s) + 1 \notin Starts(s)
<1>. DEFINE e == Encoded(x)
            b == s \o e
            l == Len(s)
            m == Len(e)
<1>1. /\ e \in Bytes /\ m \in 1..4 /\ IsStart(e[1]) /\ \A j \in 2..m : ~IsStart(e[j])
  BY EncodedTyped
<1>2. /\ l \in Nat /\ b \in Bytes /\ Len(b) = l + m
      /\ \A j \in 1..l : b[j] = s[j]
      /\ \A j \in (l + 1)..(l + m) : b[j] = e[j - l]
  BY <1>1, BytesConcat
<1>3. DOMAIN b = 1..(l + m) /\ DOMAIN s = 1..l
  BY <1>2 DEF Bytes
<1>. HIDE DEF e, b, l, m
<1>4. \A j \in 1..(l + m) : IsStart(b[j]) <=> (j \in 1..l /\ IsStart(s[j])) \/ j = l + 1
  <2>. TAKE j \in 1..(l + m)
  <2>1. CASE j \in 1..l
    BY <1>2, <2>1
  <2>2. CASE j = l + 1
    <3>1. j - l = 1 /\ j \in (l + 1)..(l + m)
      BY <1>1, <1>2, <2>2
    <3>. QED
      BY <1>1, <1>2, <2>2, <3>1
  <2>3. CASE j > l + 1
    <3>1. j - l \in 2..m /\ j \in (l + 1)..(l + m)
      BY <1>1, <1>2, <2>3
    <3>. QED
      BY <1>1, <1>2, <2>3, <3>1
  <2>. QED
    BY <1>1, <1>2, <2>1, <2>2, <2>3
<1>5. Starts(b) = Starts(s) \cup {l + 1} /\ l + 1 \notin Starts(s)
  <2>1. l + 1 \in 1..(l + m) /\ 1..l \subseteq 1..(l + m) /\ l + 1 \notin 1..l
    BY <1>1, <1>2
  <2>. QED
    BY <1>3, <1>4, <2>1 DEF Starts
<1>. QED
  BY <1>5 DEF b, e, l

\* A string has as many starts as characters, of up to four bytes each.
LEMMA EncodeTyped ==
    ASSUME NEW c \in Strings
    PROVE  /\ Encode(c) \in Bytes /\ Len(Encode(c)) <= 4 * Len(c)
           /\ IsFiniteSet(Starts(Encode(c))) /\ Cardinality(Starts(Encode(c))) = Len(c)
<1>. DEFINE n == Len(c)
            B(k) == Encode(SubSeq(c, 1, k))
            Good(k) == /\ B(k) \in Bytes /\ Len(B(k)) <= 4 * k
                       /\ IsFiniteSet(Starts(B(k))) /\ Cardinality(Starts(B(k))) = k
            T == {k \in Nat : k <= n => Good(k)}
<1>1. /\ n \in Nat /\ SubSeq(c, 1, 0) = <<>> /\ SubSeq(c, 1, n) = c
      /\ \A k \in 1..n : c[k] \in Characters
      /\ \A k \in 0..n : SubSeq(c, 1, k) \in Strings
      /\ \A k \in Nat : k + 1 <= n => SubSeq(c, 1, k + 1) = Append(SubSeq(c, 1, k), c[k + 1])
  BY StringPrefixes
<1>. HIDE DEF n
<1>2. Good(0)
  <2>1. B(0) = <<>>
    BY <1>1, EncodeOneMore
  <2>2. <<>> \in Bytes /\ Len(<<>>) = 0 /\ Starts(<<>>) = {}
    BY DEF Bytes, Starts
  <2>. QED
    BY <2>1, <2>2, FS_EmptySet
<1>3. ASSUME NEW k \in Nat, Good(k), k + 1 <= n PROVE Good(k + 1)
  <2>. DEFINE s == B(k)
              x == c[k + 1]
              e == Encoded(x)
              b == s \o e
  <2>1. k + 1 \in 1..n /\ k \in 0..n
    BY <1>1, <1>3
  <2>2. B(k + 1) = b /\ x \in Characters
    BY <1>1, <1>3, <2>1, EncodeOneMore
  <2>3. s \in Bytes /\ Len(s) <= 4 * k /\ IsFiniteSet(Starts(s)) /\ Cardinality(Starts(s)) = k
    BY <1>3
  <2>. HIDE DEF s, x
  <2>4. e \in Bytes /\ Len(e) \in 1..4
    BY <2>2, EncodedTyped
  <2>5. Starts(b) = Starts(s) \cup {Len(s) + 1} /\ Len(s) + 1 \notin Starts(s)
    BY <2>2, <2>3, StartsOneMore
  <2>. HIDE DEF e
  <2>6. b \in Bytes /\ Len(b) = Len(s) + Len(e) /\ Len(s) \in Nat
    BY <2>3, <2>4, BytesConcat
  <2>. HIDE DEF b
  <2>7. Len(b) <= 4 * (k + 1)
    <3>. DEFINE ls == Len(s)
                le == Len(e)
                lb == Len(b)
    <3>1. lb = ls + le /\ ls \in Nat /\ le \in 1..4 /\ ls <= 4 * k
      BY <2>3, <2>4, <2>6
    <3>. HIDE DEF ls, le, lb
    <3>2. lb <= 4 * (k + 1)
      BY <3>1
    <3>. QED
      BY <3>2 DEF lb
  <2>8. IsFiniteSet(Starts(b)) /\ Cardinality(Starts(b)) = k + 1
    BY <2>3, <2>5, FS_AddElement
  <2>. QED
    BY <2>2, <2>6, <2>7, <2>8
<1>. HIDE DEF Good
<1>4. 0 \in T /\ \A k \in Nat : k \in T => k + 1 \in T
  BY <1>1, <1>2, <1>3
<1>5. n \in T
  <2>. HIDE DEF T
  <2>. QED
    BY <1>1, <1>4, Induction
<1>6. Good(n)
  BY <1>1, <1>5
<1>. QED
  BY <1>1, <1>6 DEF Good, n

\* After the text u the bytes s go on with another character.
GoesOn(s, u) == Begins(s, u) /\ Len(u) < Len(s) /\ IsStart(s[Len(u) + 1])

\* The bytes of a string go on after those of its prefixes.
LEMMA EncodeGoesOn ==
    ASSUME NEW c \in Strings, NEW m \in Nat, m < Len(c)
    PROVE  GoesOn(Encode(c), Encode(SubSeq(c, 1, m)))
<1>. DEFINE n == Len(c)
            B(k) == Encode(SubSeq(c, 1, k))
            u == B(m)
            T == {k \in Nat : k <= n /\ k > m => GoesOn(B(k), u)}
<1>1. /\ n \in Nat /\ SubSeq(c, 1, n) = c /\ m < n
      /\ \A k \in 1..n : c[k] \in Characters
      /\ \A k \in 0..n : SubSeq(c, 1, k) \in Strings
      /\ \A k \in Nat : k + 1 <= n => SubSeq(c, 1, k + 1) = Append(SubSeq(c, 1, k), c[k + 1])
  BY StringPrefixes
<1>. HIDE DEF n
<1>2. \A k \in 0..n : B(k) \in Bytes
  BY <1>1, EncodeTyped
<1>3. u \in Bytes
  BY <1>1, <1>2
<1>4. ASSUME NEW k \in Nat, k + 1 <= n, NEW s, s = B(k), NEW b, b = B(k + 1)
      PROVE  /\ s \in Bytes /\ b \in Bytes /\ Len(s) \in Nat /\ Len(b) \in Nat /\ Len(s) < Len(b)
             /\ IsStart(b[Len(s) + 1])
             /\ \A j \in 1..Len(s) : b[j] = s[j]
  <2>. DEFINE x == c[k + 1]
              e == Encoded(x)
  <2>1. k + 1 \in 1..n /\ k \in 0..n
    BY <1>1, <1>4
  <2>2. b = s \o e /\ x \in Characters /\ s \in Bytes
    BY <1>1, <1>2, <1>4, <2>1, EncodeOneMore
  <2>. HIDE DEF x
  <2>3. e \in Bytes /\ Len(e) \in 1..4 /\ IsStart(e[1])
    BY <2>2, EncodedTyped
  <2>. HIDE DEF e
  <2>4. /\ Len(s) \in Nat /\ Len(e) \in Nat /\ b \in Bytes /\ Len(b) = Len(s) + Len(e)
        /\ \A j \in 1..Len(s) : b[j] = s[j]
        /\ \A j \in (Len(s) + 1)..(Len(s) + Len(e)) : b[j] = e[j - Len(s)]
    BY <2>2, <2>3, BytesConcat
  <2>. DEFINE ls == Len(s)
              le == Len(e)
              lb == Len(b)
  <2>5. /\ ls \in Nat /\ le \in 1..4 /\ lb = ls + le
        /\ \A j \in (ls + 1)..(ls + le) : b[j] = e[j - ls]
    BY <2>3, <2>4
  <2>. HIDE DEF ls, le, lb
  <2>6. lb \in Nat /\ ls < lb /\ b[ls + 1] = e[1]
    <3>1. ls + 1 \in (ls + 1)..(ls + le) /\ (ls + 1) - ls = 1
      BY <2>5
    <3>. QED
      BY <2>5, <3>1
  <2>. QED
    BY <2>2, <2>3, <2>4, <2>6 DEF ls, lb
<1>. HIDE DEF B, u
<1>5. 0 \in T
  OBVIOUS
<1>6. ASSUME NEW k \in Nat, k \in T, k + 1 <= n, k + 1 > m PROVE GoesOn(B(k + 1), u)
  <2>. DEFINE s == B(k)
              b == B(k + 1)
              lu == Len(u)
              ls == Len(s)
              lb == Len(b)
  <2>1. /\ s \in Bytes /\ b \in Bytes /\ ls \in Nat /\ lb \in Nat /\ ls < lb
        /\ IsStart(b[ls + 1])
        /\ \A j \in 1..ls : b[j] = s[j]
    BY <1>4, <1>6
  <2>2. CASE k = m
    <3>1. s = u /\ ls = lu
      BY <2>2 DEF u
    <3>. HIDE DEF s, b
    <3>. QED
      BY <2>1, <3>1 DEF GoesOn, Begins, b
  <2>3. CASE k > m
    <3>1. GoesOn(s, u)
      <4>1. k <= n
        BY <1>1, <1>6
      <4>. QED
        BY <1>6, <2>3, <4>1
    <3>2. lu <= ls /\ lu < ls /\ IsStart(s[lu + 1]) /\ \A j \in 1..lu : s[j] = u[j]
      BY <3>1 DEF GoesOn, Begins
    <3>3. lu \in Nat
      BY <1>3 DEF Bytes
    <3>. HIDE DEF s, b, lu, ls, lb
    <3>4. lu <= lb /\ lu < lb /\ \A j \in 1..lu : j \in 1..ls
      BY <2>1, <3>2, <3>3
    <3>5. IsStart(b[lu + 1])
      <4>1. lu + 1 \in 1..ls
        BY <2>1, <3>2, <3>3
      <4>. QED
        BY <2>1, <3>2, <4>1
    <3>6. \A j \in 1..lu : b[j] = u[j]
      BY <2>1, <3>2, <3>4
    <3>. QED
      BY <3>4, <3>5, <3>6 DEF GoesOn, Begins, b, lu, lb
  <2>. QED
    BY <1>6, <2>2, <2>3
<1>7. \A k \in Nat : k \in T => k + 1 \in T
  BY <1>6
<1>8. n \in T
  <2>. HIDE DEF T
  <2>. QED
    BY <1>1, <1>5, <1>7, Induction
<1>9. GoesOn(B(n), u)
  BY <1>1, <1>8
<1>10. B(n) = Encode(c) /\ u = Encode(SubSeq(c, 1, m))
  BY <1>1 DEF B, u
<1>. QED
  BY <1>9, <1>10

\* Bytes that go on after a text have the characters of the text, and more.
LEMMA StartsOfCut ==
    ASSUME NEW s \in Bytes, NEW u \in Bytes, GoesOn(s, u), IsFiniteSet(Starts(u))
    PROVE  LET i == Len(u) + 1
           IN  /\ i \in Starts(s) /\ {j \in Starts(s) : j < i} = Starts(u)
               /\ IsFiniteSet(Starts(s)) /\ Cardinality(Starts(s)) > Cardinality(Starts(u))
<1>. DEFINE ls == Len(s)
            lu == Len(u)
<1>1. /\ ls \in Nat /\ lu \in Nat /\ lu < ls /\ IsStart(s[lu + 1])
      /\ \A j \in 1..lu : s[j] = u[j]
      /\ DOMAIN s = 1..ls /\ DOMAIN u = 1..lu
  BY DEF GoesOn, Begins, Bytes
<1>. HIDE DEF ls, lu
<1>2. lu + 1 \in Starts(s)
  BY <1>1 DEF Starts
<1>3. {j \in Starts(s) : j < lu + 1} = Starts(u)
  BY <1>1 DEF Starts
<1>4. IsFiniteSet(Starts(s))
  <2>1. IsFiniteSet(1..ls)
    BY <1>1, FS_Interval
  <2>2. Starts(s) \in SUBSET (1..ls)
    BY <1>1 DEF Starts
  <2>. QED
    BY <2>1, <2>2, FS_Subset
<1>5. Cardinality(Starts(s)) > Cardinality(Starts(u))
  <2>. DEFINE a == Starts(s)
              b == Starts(u)
  <2>1. b \in SUBSET a /\ lu + 1 \in a /\ lu + 1 \notin b
    BY <1>1, <1>2, <1>3 DEF Starts
  <2>2. IsFiniteSet(a) /\ IsFiniteSet(b)
    BY <1>4
  <2>. HIDE DEF a, b
  <2>3. Cardinality(b) <= Cardinality(a) /\ (Cardinality(a) = Cardinality(b) => a = b)
    BY <2>1, <2>2, FS_Subset
  <2>4. Cardinality(a) \in Nat /\ Cardinality(b) \in Nat /\ a # b
    BY <2>1, <2>2, FS_CardinalityType
  <2>5. Cardinality(a) > Cardinality(b)
    BY <2>3, <2>4
  <2>. QED
    BY <2>5 DEF a, b
<1>. QED
  BY <1>2, <1>3, <1>4, <1>5 DEF lu

\* The character with a number starts at one place.
LEMMA StartOfNext ==
    ASSUME NEW s \in Bytes, NEW u \in Bytes, GoesOn(s, u), IsFiniteSet(Starts(u))
    PROVE  StartOf(s, Cardinality(Starts(u))) = Len(u) + 1
<1>. DEFINE i == Len(u) + 1
            before(k) == {j \in Starts(s) : j < k}
            number == Cardinality(Starts(u))
<1>1. i \in Starts(s) /\ Cardinality(before(i)) = number /\ IsFiniteSet(Starts(s))
  BY StartsOfCut
<1>2. Starts(s) \subseteq Nat
  BY DEF Starts, Bytes
<1>3. ASSUME NEW k \in Starts(s), NEW l \in Starts(s), k < l
      PROVE  Cardinality(before(k)) # Cardinality(before(l))
  <2>. DEFINE a == before(l)
              b == before(k)
  <2>1. b \in SUBSET a /\ k \in a /\ k \notin b
    BY <1>2, <1>3
  <2>2. a \in SUBSET Starts(s)
    OBVIOUS
  <2>. HIDE DEF a, b
  <2>3. IsFiniteSet(a)
    BY <1>1, <2>2, FS_Subset
  <2>4. Cardinality(a) = Cardinality(b) => a = b
    BY <2>1, <2>3, FS_Subset
  <2>5. Cardinality(b) # Cardinality(a)
    BY <2>1, <2>4
  <2>. QED
    BY <2>5 DEF a, b
<1>. HIDE DEF before
<1>4. \A k \in Starts(s) : Cardinality(before(k)) = number => k = i
  <2>. HIDE DEF i, number
  <2>. TAKE k \in Starts(s)
  <2>1. k < i \/ i < k \/ k = i
    BY <1>1, <1>2
  <2>. QED
    BY <1>1, <1>3, <2>1
<1>5. StartOf(s, number) = CHOOSE k \in Starts(s) : Cardinality(before(k)) = number
  BY DEF StartOf, before
<1>. HIDE DEF i, number
<1>6. StartOf(s, number) = i
  BY <1>1, <1>4, <1>5
<1>. QED
  BY <1>6 DEF i, number

\* What is cut is whole characters, and three dots.
LEMMA CutToCharacters ==
    ASSUME NEW s \in Bytes, NEW d \in Strings, NEW max \in Nat, max >= 4, Len(d) = max - 3,
           GoesOn(s, Encode(d)), Cardinality(Starts(s)) > max
    PROVE  TruncateChars(s, max) = Encode(d \o <<Dot, Dot, Dot>>)
<1>. DEFINE u == Encode(d)
            three == <<Dot, Dot, Dot>>
<1>1. u \in Bytes /\ IsFiniteSet(Starts(u)) /\ Cardinality(Starts(u)) = max - 3
  BY EncodeTyped
<1>2. StartOf(s, max - 3) = Len(u) + 1
  <2>. HIDE DEF u
  <2>1. GoesOn(s, u)
    BY DEF u
  <2>2. StartOf(s, Cardinality(Starts(u))) = Len(u) + 1
    BY <1>1, <2>1, StartOfNext
  <2>. QED
    BY <1>1, <2>2
<1>3. SubSeq(s, 1, Len(u)) = u
  <2>1. Begins(s, u)
    BY DEF GoesOn
  <2>. HIDE DEF u
  <2>. DEFINE p == SubSeq(s, 1, Len(u))
  <2>2. Len(u) <= Len(s) /\ \A j \in 1..Len(u) : s[j] = u[j]
    BY <2>1 DEF Begins
  <2>3. p \in Seq(Nat) /\ Len(p) = Len(u) /\ \A j \in 1..Len(u) : p[j] = s[j]
    BY <1>1, <2>2 DEF Bytes
  <2>4. u \in Seq(Nat) /\ \A j \in 1..Len(p) : p[j] = u[j]
    BY <1>1, <2>2, <2>3 DEF Bytes
  <2>. HIDE DEF p
  <2>5. p = u
    BY <2>3, <2>4, SeqEqual
  <2>. QED
    BY <2>5 DEF p
<1>4. TruncateChars(s, max) = u \o three
  <2>1. Cardinality(Starts(s)) \in Nat
    <3>1. IsFiniteSet(Starts(s))
      BY <1>1, StartsOfCut
    <3>. QED
      BY <3>1, FS_CardinalityType
  <2>2. ~(max < 4 \/ Cardinality(Starts(s)) <= max)
    BY <2>1
  <2>3. TruncateChars(s, max) = SubSeq(s, 1, StartOf(s, max - 3) - 1) \o three
    BY <2>2 DEF TruncateChars
  <2>. HIDE DEF u, three
  <2>4. Len(u) \in Nat
    BY <1>1 DEF Bytes
  <2>5. StartOf(s, max - 3) - 1 = Len(u)
    BY <1>2, <2>4
  <2>. QED
    BY <1>3, <2>3, <2>5
<1>5. Encode(d \o three) = u \o three
  <2>1. Dot \in Characters /\ Encoded(Dot) = <<Dot>> /\ Dot \in Nat
    BY DEF Characters, Encoded, Dot
  <2>. DEFINE d1 == Append(d, Dot)
              d2 == Append(d1, Dot)
              d3 == Append(d2, Dot)
  <2>2. d \o three = d3 /\ d1 \in Strings /\ d2 \in Strings
    BY <2>1 DEF Strings
  <2>3. Encode(d1) = u \o <<Dot>>
    BY <2>1, EncodeOneMore
  <2>4. Encode(d2) = Encode(d1) \o <<Dot>>
    BY <2>1, <2>2, EncodeOneMore
  <2>5. Encode(d3) = Encode(d2) \o <<Dot>>
    BY <2>1, <2>2, EncodeOneMore
  <2>. HIDE DEF d1, d2, d3, u
  <2>6. ((u \o <<Dot>>) \o <<Dot>>) \o <<Dot>> = u \o three
    BY <1>1, <2>1 DEF Bytes
  <2>. QED
    BY <2>2, <2>3, <2>4, <2>5, <2>6
<1>. QED
  BY <1>4, <1>5

\* The characters of a concatenation.
LEMMA StringsConcat ==
    ASSUME NEW s \in Strings, NEW u \in Strings
    PROVE  /\ s \o u \in Strings /\ Len(s \o u) = Len(s) + Len(u)
           /\ \A j \in 1..Len(s) : (s \o u)[j] = s[j]
  BY DEF Strings

\* A warning is whole characters, whether the bytes had to be cut or not.
LEMMA WarningWhole ==
    ASSUME NEW c \in Seq(Widths)
    PROVE  WarningOf(Encode(c)) =
               Encode(IF Len(c) <= WarningChars THEN c
                      ELSE SubSeq(c, 1, WarningChars - 3) \o <<Dot, Dot, Dot>>)
<1>. DEFINE n == Len(c)
            W == WarningChars
            D == DetailChars
            b == Encode(c)
            lb == Len(b)
            limit == 4 * D - 1
            s == SubSeq(b, 1, IF lb > limit THEN limit ELSE lb)
            detail == TruncateChars(s, D)
            P(m) == SubSeq(c, 1, m)
            cut == P(W - 3) \o <<Dot, Dot, Dot>>
<1>1. W \in Nat /\ D \in Nat /\ 4 <= W /\ W < D
  BY StartupWarningConstants
<1>2. c \in Strings
  BY DEF Strings, Characters
<1>3. n \in Nat /\ \A m \in 0..n : P(m) \in Strings /\ Len(P(m)) = m
  BY <1>2, StringPrefixes
<1>4. /\ b \in Bytes /\ lb \in Nat /\ lb <= 4 * n
      /\ IsFiniteSet(Starts(b)) /\ Cardinality(Starts(b)) = n
  BY <1>2, EncodeTyped DEF Bytes
<1>. HIDE DEF b, P, n
<1>5. WarningOf(b) = TruncateChars(detail, W) /\ limit \in Nat
  BY <1>1 DEF WarningOf, DetailOf
<1>. HIDE DEF W, D
<1>6. lb <= limit => s = b
  <2>1. SubSeq(b, 1, Len(b)) = b
    BY <1>4 DEF Bytes
  <2>. QED
    BY <1>4, <1>5, <2>1
<1>7. lb > limit => /\ s \in Bytes /\ Len(s) = limit /\ DOMAIN s = 1..limit /\ DOMAIN b = 1..lb
                    /\ \A j \in 1..limit : s[j] = b[j]
  BY <1>4, <1>5 DEF Bytes
<1>. HIDE DEF s, lb, limit
<1>8. s \in Bytes
  BY <1>4, <1>5, <1>6, <1>7
\* The cut bytes go on after every text of fewer characters.
<1>9. ASSUME NEW m \in Nat, m < n, m < D PROVE GoesOn(s, Encode(P(m)))
  <2>. DEFINE u == Encode(P(m))
              lu == Len(u)
  <2>1. GoesOn(b, u)
    BY <1>2, <1>9, EncodeGoesOn DEF b, P, n
  <2>2. lu \in Nat /\ lu <= 4 * m
    <3>1. m \in 0..n
      BY <1>3, <1>9
    <3>2. P(m) \in Strings /\ Len(P(m)) = m
      BY <1>3, <3>1
    <3>3. u \in Bytes /\ Len(u) <= 4 * Len(P(m))
      BY <3>2, EncodeTyped
    <3>. QED
      BY <3>2, <3>3 DEF Bytes
  <2>. HIDE DEF u
  <2>3. lu <= lb /\ lu < lb /\ IsStart(b[lu + 1]) /\ \A j \in 1..lu : b[j] = u[j]
    BY <2>1 DEF GoesOn, Begins, lb
  <2>. HIDE DEF lu
  <2>4. CASE lb <= limit
    BY <1>6, <2>1, <2>4 DEF u
  <2>5. CASE lb > limit
    <3>1. lu < limit /\ lu + 1 \in 1..limit /\ 1..lu \subseteq 1..limit
      BY <1>1, <1>5, <1>9, <2>2 DEF limit
    <3>2. IsStart(s[lu + 1]) /\ \A j \in 1..lu : s[j] = u[j]
      BY <1>7, <2>3, <2>5, <3>1
    <3>3. lu <= limit /\ Len(s) = limit
      BY <1>5, <1>7, <2>2, <2>5, <3>1
    <3>. QED
      BY <3>1, <3>2, <3>3 DEF GoesOn, Begins, lu, u
  <2>. QED
    BY <1>4, <1>5, <2>4, <2>5
<1>10. IsFiniteSet(Starts(s)) /\ Cardinality(Starts(s)) <= n /\ Cardinality(Starts(s)) \in Nat
  <2>1. Starts(s) \subseteq Starts(b)
    <3>1. CASE lb <= limit
      BY <1>6, <3>1
    <3>2. CASE lb > limit
      <4>1. 1..limit \subseteq 1..lb
        BY <1>4, <1>5, <3>2
      <4>. QED
        BY <1>7, <3>2, <4>1 DEF Starts
    <3>. QED
      BY <1>4, <1>5, <3>1, <3>2
  <2>. DEFINE x == Starts(s)
              y == Starts(b)
  <2>2. x \in SUBSET y /\ IsFiniteSet(y) /\ Cardinality(y) = n
    BY <1>4, <2>1
  <2>. HIDE DEF x, y
  <2>3. IsFiniteSet(x) /\ Cardinality(x) <= n
    BY <2>2, FS_Subset
  <2>4. Cardinality(x) \in Nat
    BY <2>3, FS_CardinalityType
  <2>. QED
    BY <2>3, <2>4 DEF x
<1>11. CASE n <= W
  <2>1. lb <= limit
    BY <1>1, <1>3, <1>4, <1>11 DEF limit
  <2>2. s = b /\ Cardinality(Starts(s)) <= W /\ Cardinality(Starts(s)) <= D
    BY <1>1, <1>3, <1>4, <1>6, <1>11, <2>1
  <2>3. TruncateChars(s, D) = s /\ TruncateChars(s, W) = s
    BY <2>2 DEF TruncateChars
  <2>. QED
    BY <1>5, <1>11, <2>2, <2>3 DEF b, n, W
<1>12. CASE n > W
  <2>1. W - 3 \in Nat /\ W - 3 < n /\ W - 3 < D /\ W - 3 \in 0..n /\ W \in 0..n
    BY <1>1, <1>3, <1>12
  <2>2. P(W - 3) \in Strings /\ Len(P(W - 3)) = W - 3 /\ P(W) \in Strings /\ Len(P(W)) = W
    BY <1>3, <2>1
  <2>3. Cardinality(Starts(s)) > W
    <3>. DEFINE u == Encode(P(W))
    <3>1. GoesOn(s, u)
      BY <1>1, <1>9, <1>12
    <3>2. u \in Bytes /\ IsFiniteSet(Starts(u)) /\ Cardinality(Starts(u)) = W
      BY <2>2, EncodeTyped
    <3>. HIDE DEF u
    <3>. QED
      BY <1>8, <3>1, <3>2, StartsOfCut
  <2>4. TruncateChars(detail, W) = Encode(cut)
    <3>1. CASE Cardinality(Starts(s)) <= D
      <4>1. detail = s
        BY <3>1 DEF TruncateChars
      <4>2. GoesOn(s, Encode(P(W - 3)))
        BY <1>9, <2>1
      <4>. QED
        BY <1>1, <1>8, <2>2, <2>3, <4>1, <4>2, CutToCharacters
    <3>2. CASE Cardinality(Starts(s)) > D
      <4>. DEFINE three == <<Dot, Dot, Dot>>
                  d == P(D - 3)
                  e == d \o three
      <4>1. D \in Nat /\ D >= 4 /\ D - 3 \in Nat /\ D - 3 < n /\ D - 3 < D /\ D - 3 \in 0..n
        BY <1>1, <1>3, <1>10, <3>2
      <4>2. d \in Strings /\ Len(d) = D - 3
        BY <1>3, <4>1
      <4>3. GoesOn(s, Encode(d))
        BY <1>9, <4>1
      <4>. HIDE DEF d
      <4>4. detail = Encode(e)
        BY <1>8, <3>2, <4>1, <4>2, <4>3, CutToCharacters
      <4>5. e \in Strings /\ Len(e) = D /\ \A j \in 1..(D - 3) : e[j] = d[j]
        <5>1. three \in Strings /\ Len(three) = 3
          BY DEF Strings, Characters
        <5>. HIDE DEF three
        <5>2. /\ d \o three \in Strings /\ Len(d \o three) = Len(d) + Len(three)
              /\ \A j \in 1..Len(d) : (d \o three)[j] = d[j]
          BY <4>2, <5>1, StringsConcat
        <5>3. Len(d) + Len(three) = D
          <6>. DEFINE ld == Len(d)
                      lt == Len(three)
          <6>1. ld = D - 3 /\ lt = 3
            BY <4>2, <5>1
          <6>. HIDE DEF ld, lt
          <6>2. ld + lt = D
            BY <4>1, <6>1
          <6>. QED
            BY <6>2 DEF ld, lt
        <5>. QED
          BY <4>2, <5>2, <5>3
      <4>6. SubSeq(e, 1, W - 3) = P(W - 3)
        <5>. DEFINE p == SubSeq(e, 1, W - 3)
                    q == P(W - 3)
        <5>1. W - 3 <= D - 3
          BY <1>1
        <5>. HIDE DEF e
        <5>2. p \in Strings /\ Len(p) = W - 3 /\ \A j \in 1..(W - 3) : p[j] = e[j]
          BY <1>1, <2>1, <4>5, <5>1 DEF Strings
        <5>3. \A j \in 1..(W - 3) : e[j] = c[j] /\ q[j] = c[j]
          <6>1. \A j \in 1..(D - 3) : d[j] = c[j]
            BY <1>2, <4>1 DEF d, P, Strings, n
          <6>2. \A j \in 1..(W - 3) : q[j] = c[j]
            BY <1>2, <2>1 DEF P, Strings, n
          <6>3. \A j \in 1..(W - 3) : j \in 1..(D - 3)
            BY <1>1, <2>1, <4>1, <5>1
          <6>. HIDE DEF q
          <6>. QED
            BY <4>5, <6>1, <6>2, <6>3
        <5>4. q \in Strings /\ Len(q) = W - 3
          BY <2>2
        <5>. HIDE DEF p, q
        <5>5. Len(p) = Len(q) /\ \A j \in 1..Len(p) : p[j] = q[j]
          BY <5>2, <5>3, <5>4
        <5>6. p = q
          BY <5>2, <5>4, <5>5, SeqEqual DEF Strings
        <5>. QED
          BY <5>6 DEF p, q
      <4>. HIDE DEF e
      <4>7. GoesOn(Encode(e), Encode(P(W - 3)))
        <5>1. W - 3 < Len(e)
          BY <1>1, <4>5
        <5>. QED
          BY <2>1, <4>5, <4>6, <5>1, EncodeGoesOn
      <4>8. Encode(e) \in Bytes /\ Cardinality(Starts(Encode(e))) > W
        BY <1>1, <4>5, EncodeTyped
      <4>. QED
        BY <1>1, <2>2, <4>4, <4>7, <4>8, CutToCharacters
    <3>. QED
      BY <1>1, <1>10, <3>1, <3>2
  <2>5. ~(n <= W)
    BY <1>1, <1>3, <1>12
  <2>. QED
    BY <1>5, <2>4, <2>5 DEF b, n, W, P
<1>. QED
  BY <1>1, <1>3, <1>11, <1>12
-------------------------------------------------------------------------------
\* The versions of the CLI

\* A text, a string of C: no zero in it.
VersionTexts == Seq(Nat \ {0})

\* The least of some numbers.
LEMMA MinOfNumbers ==
    ASSUME NEW T, T \subseteq Nat, T # {}
    PROVE  Min(T) \in T /\ \A m \in T : Min(T) <= m
  BY LeastNumber DEF Min

\* The part of a text between two places.
LEMMA PartOfText ==
    ASSUME NEW text \in VersionTexts, NEW i \in 1..(Len(text) + 1), NEW e \in (i - 1)..Len(text)
    PROVE  /\ Len(text) \in Nat
           /\ SubSeq(text, i, e) \in VersionTexts /\ Len(SubSeq(text, i, e)) = e - i + 1
           /\ \A k \in 1..(e - i + 1) : SubSeq(text, i, e)[k] = text[i + k - 1]
  BY DEF VersionTexts

\* Texts are the same if their characters are.
LEMMA SameText ==
    ASSUME NEW s \in VersionTexts, NEW t \in VersionTexts, Len(s) = Len(t),
           \A k \in 1..Len(s) : s[k] = t[k]
    PROVE  s = t
  BY DEF VersionTexts

\* Skipping stops at the first place that is none of the characters.
LEMMA SkipsTo ==
    ASSUME NEW text \in VersionTexts, NEW chars \in SUBSET (Nat \ {0}),
           NEW i \in 1..(Len(text) + 1), NEW j \in i..(Len(text) + 1),
           \A k \in i..(j - 1) : text[k] \in chars,
           j = Len(text) + 1 \/ text[j] \notin chars
    PROVE  SkipAll(text, i, chars) = j
<1>1. Len(text) \in Nat /\ DOMAIN text = 1..Len(text)
  BY DEF VersionTexts
<1>. DEFINE T == {k \in i..(Len(text) + 1) : At(text, k) \notin chars}
<1>2. j \in T
  BY <1>1 DEF At
<1>3. \A m \in T : j <= m
  BY <1>1 DEF At
<1>4. T \subseteq Nat
  BY <1>1
<1>5. Min(T) \in T /\ Min(T) <= j /\ j <= Min(T)
  <2>. HIDE DEF T
  <2>. QED BY <1>2, <1>3, <1>4, MinOfNumbers
<1>6. Min(T) = j
  BY <1>1, <1>5
<1>. QED
  BY <1>6 DEF SkipAll

\* As many characters as Run says, and no more, are of the kind it is given.
LEMMA RunStops ==
    ASSUME NEW s \in VersionTexts, NEW chars
    PROVE  /\ Run(s, chars) \in 0..Len(s)
           /\ \A k \in 1..Run(s, chars) : s[k] \in chars
           /\ Run(s, chars) = Len(s) \/ s[Run(s, chars) + 1] \notin chars
<1>1. Len(s) \in Nat
  BY DEF VersionTexts
<1>. DEFINE T == {k \in 0..Len(s) : k = Len(s) \/ s[k + 1] \notin chars}
<1>2. PICK n \in T : \A m \in T : n <= m
  <2>1. T \subseteq Nat /\ Len(s) \in T
    BY <1>1
  <2>. HIDE DEF T
  <2>. QED BY <2>1, LeastNumber
<1>3. ASSUME NEW k \in 1..n PROVE s[k] \in chars
  <2>1. k - 1 \in 0..Len(s) /\ k - 1 < n /\ (k - 1) + 1 = k
    BY <1>1
  <2>. QED
    BY <1>2, <2>1
<1>4. n \in 0..Len(s) /\ (n = Len(s) \/ s[n + 1] \notin chars)
  BY <1>1
<1>. QED
  BY <1>3, <1>4 DEF Run

\* The digits from a place on are those its field begins with.
LEMMA FieldDigits ==
    ASSUME NEW text \in VersionTexts, NEW i \in 1..(Len(text) + 1), NEW e \in (i - 1)..Len(text),
           e = Len(text) \/ text[e + 1] = Point
    PROVE  /\ DigitsAt(text, i) = Leading(SubSeq(text, i, e))
           /\ SkipAll(text, i, Digits) \in i..(e + 1)
           /\ \A k \in i..(SkipAll(text, i, Digits) - 1) : text[k] # Point
<1>. DEFINE f == SubSeq(text, i, e)
            r == Run(f, Digits)
            n == Len(text)
<1>1. n \in Nat /\ f \in VersionTexts /\ Len(f) = e - i + 1
      /\ \A k \in 1..(e - i + 1) : f[k] = text[i + k - 1]
  BY PartOfText
<1>. HIDE DEF n, f
<1>2. /\ r \in 0..Len(f) /\ \A k \in 1..r : f[k] \in Digits
      /\ r = Len(f) \/ f[r + 1] \notin Digits
  BY <1>1, RunStops
<1>. HIDE DEF r
<1>. DEFINE j == i + r
<1>3. j \in i..(n + 1) /\ j \in i..(e + 1) /\ e \in Int /\ i \in Nat /\ r \in Nat /\ j - i = r
  BY <1>1, <1>2 DEF n
<1>4. \A k \in i..(j - 1) : text[k] \in Digits
  <2>. TAKE k \in i..(j - 1)
  <2>1. k - i + 1 \in 1..r /\ k - i + 1 \in 1..(e - i + 1) /\ i + (k - i + 1) - 1 = k
    BY <1>1, <1>2, <1>3
  <2>2. f[k - i + 1] \in Digits /\ f[k - i + 1] = text[i + (k - i + 1) - 1]
    BY <1>1, <1>2, <2>1
  <2>. QED
    BY <2>1, <2>2
<1>5. j = n + 1 \/ text[j] \notin Digits
  <2>1. CASE r = Len(f)
    BY <1>1, <1>3, <2>1 DEF n, Point, Digits
  <2>2. CASE r # Len(f) /\ f[r + 1] \notin Digits
    <3>1. r + 1 \in 1..(e - i + 1) /\ i + (r + 1) - 1 = i + r
      BY <1>1, <1>2, <1>3, <2>2
    <3>. QED
      BY <1>1, <2>2, <3>1
  <2>. QED
    BY <1>2, <2>1, <2>2
<1>. HIDE DEF j
<1>6. SkipAll(text, i, Digits) = j
  <2>1. Digits \in SUBSET (Nat \ {0})
    BY DEF Digits
  <2>2. j \in i..(Len(text) + 1) /\ (j = Len(text) + 1 \/ text[j] \notin Digits)
    BY <1>3, <1>5 DEF n
  <2>. QED
    BY <1>4, <2>1, <2>2, SkipsTo
<1>7. /\ Leading(f) \in VersionTexts /\ Len(Leading(f)) = r
      /\ \A k \in 1..r : Leading(f)[k] = f[k]
  <2>1. 1 \in 1..(Len(f) + 1) /\ r \in (1 - 1)..Len(f)
    BY <1>1, <1>2, <1>3
  <2>2. /\ SubSeq(f, 1, r) \in VersionTexts /\ Len(SubSeq(f, 1, r)) = r - 1 + 1
        /\ \A k \in 1..(r - 1 + 1) : SubSeq(f, 1, r)[k] = f[1 + k - 1]
    BY <1>1, <2>1, PartOfText
  <2>3. r - 1 + 1 = r /\ \A k \in 1..r : 1 + k - 1 = k
    BY <1>1, <1>2, <1>3
  <2>. QED
    BY <2>2, <2>3 DEF Leading, r
<1>8. /\ DigitsAt(text, i) \in VersionTexts /\ Len(DigitsAt(text, i)) = r
      /\ \A k \in 1..r : DigitsAt(text, i)[k] = text[i + k - 1]
  <2>1. j - 1 \in (i - 1)..Len(text) /\ j - 1 - i + 1 = r
    BY <1>1, <1>3 DEF n
  <2>2. /\ SubSeq(text, i, j - 1) \in VersionTexts
        /\ Len(SubSeq(text, i, j - 1)) = j - 1 - i + 1
        /\ \A k \in 1..(j - 1 - i + 1) : SubSeq(text, i, j - 1)[k] = text[i + k - 1]
    BY <2>1, PartOfText
  <2>. QED
    BY <1>6, <2>1, <2>2 DEF DigitsAt
<1>9. \A k \in 1..r : f[k] = text[i + k - 1]
  BY <1>1, <1>2
<1>10. DigitsAt(text, i) = Leading(f)
  BY <1>7, <1>8, <1>9, SameText
<1>11. \A k \in i..(j - 1) : text[k] # Point
  BY <1>4 DEF Point, Digits
<1>. QED
  BY <1>3, <1>6, <1>10, <1>11 DEF f

\* Where the first part begins.
First(text) ==
    LET start == SkipAll(text, 1, Blanks)
    IN  IF At(text, start) = LetterV THEN start + 1 ELSE start

\* The dots from a place on.
PointsFrom(text, i) == {j \in i..Len(text) : text[j] = Point}

\* The next part begins behind the first dot that follows, if there is one.
LEMMA NextPartIs ==
    ASSUME NEW text \in VersionTexts, NEW i \in 1..(Len(text) + 1)
    PROVE  /\ PointsFrom(text, i) = {} => NextPart(text, i) = NoPlace
           /\ PointsFrom(text, i) # {} =>
                  /\ NextPart(text, i) = Min(PointsFrom(text, i)) + 1
                  /\ Min(PointsFrom(text, i)) \in PointsFrom(text, i)
                  /\ \A j \in PointsFrom(text, i) : Min(PointsFrom(text, i)) <= j
<1>. DEFINE n == Len(text)
            s == SkipAll(text, i, Digits)
<1>1. n \in Nat
  BY DEF VersionTexts
<1>2. s \in i..(n + 1) /\ \A k \in i..(s - 1) : text[k] # Point
  <2>1. Len(text) \in (i - 1)..Len(text)
    BY <1>1
  <2>. QED
    BY <2>1, FieldDigits
<1>. HIDE DEF s
<1>3. PlacesOf(text, s, {Point}) = PointsFrom(text, i)
  <2>1. ASSUME NEW j \in PointsFrom(text, i) PROVE j \in PlacesOf(text, s, {Point})
    BY <1>1, <1>2 DEF PlacesOf, PointsFrom
  <2>2. ASSUME NEW j \in PlacesOf(text, s, {Point}) PROVE j \in PointsFrom(text, i)
    BY <1>1, <1>2 DEF PlacesOf, PointsFrom
  <2>. QED
    BY <2>1, <2>2
<1>4. PointsFrom(text, i) \subseteq Nat
  BY <1>1 DEF PointsFrom
<1>5. i # NoPlace
  BY <1>1 DEF NoPlace
<1>. QED
  BY <1>3, <1>4, <1>5, MinOfNumbers DEF NextPart, s

\* The first field without blanks and v begins where the first part does.
LEMMA FirstField ==
    ASSUME NEW text \in VersionTexts, NEW d \in 1..Len(text), text[d] = Point,
           \A k \in 1..(d - 1) : text[k] # Point
    PROVE  First(text) \in 1..d /\ Bare(SubSeq(text, 1, d - 1)) = SubSeq(text, First(text), d - 1)
<1>. DEFINE f == SubSeq(text, 1, d - 1)
            r == Run(f, Blanks)
            t == SubSeq(f, r + 1, Len(f))
            n == Len(text)
<1>1. n \in Nat /\ f \in VersionTexts /\ Len(f) = d - 1 /\ \A k \in 1..(d - 1) : f[k] = text[k]
  <2>1. Len(text) \in Nat
    BY DEF VersionTexts
  <2>2. d - 1 \in (1 - 1)..Len(text) /\ 1 \in 1..(Len(text) + 1) /\ d - 1 - 1 + 1 = d - 1
    BY <2>1
  <2>3. \A k \in 1..(d - 1) : 1 + k - 1 = k
    BY <2>1
  <2>. QED
    BY <2>1, <2>2, <2>3, PartOfText
<1>. HIDE DEF f, n
<1>2. /\ r \in 0..Len(f) /\ \A k \in 1..r : f[k] \in Blanks
      /\ r = Len(f) \/ f[r + 1] \notin Blanks
  BY <1>1, RunStops
<1>. HIDE DEF r
<1>3. /\ r + 1 \in 1..d /\ r + 1 \in 1..(n + 1) /\ r \in Nat /\ d \in 1..n
      /\ \A k \in 1..r : text[k] \in Blanks
  BY <1>1, <1>2 DEF n
<1>4. text[r + 1] \notin Blanks
  BY <1>1, <1>2, <1>3 DEF Blanks, Point
<1>5. SkipAll(text, 1, Blanks) = r + 1
  <2>1. Blanks \in SUBSET (Nat \ {0}) /\ 1 \in 1..(Len(text) + 1)
    BY <1>1 DEF Blanks, n
  <2>2. \A k \in 1..(r + 1 - 1) : text[k] \in Blanks
    BY <1>3
  <2>. DEFINE j == r + 1
  <2>3. /\ j \in 1..(Len(text) + 1) /\ text[j] \notin Blanks
        /\ \A k \in 1..(j - 1) : text[k] \in Blanks
    BY <1>3, <1>4, <2>2 DEF n
  <2>. HIDE DEF j
  <2>4. SkipAll(text, 1, Blanks) = j
    BY <2>1, <2>3, SkipsTo
  <2>. QED
    BY <2>4 DEF j
<1>6. At(text, r + 1) = text[r + 1]
  <2>1. DOMAIN text = 1..n /\ r + 1 \in 1..n
    BY <1>1, <1>3 DEF n, VersionTexts
  <2>. QED
    BY <2>1 DEF At
<1>7. /\ t \in VersionTexts /\ Len(t) = d - 1 - r
      /\ \A k \in 1..(d - 1 - r) : t[k] = text[r + k]
  <2>1. r + 1 \in 1..(Len(f) + 1) /\ Len(f) \in (r + 1 - 1)..Len(f)
        /\ Len(f) - (r + 1) + 1 = d - 1 - r
    BY <1>1, <1>2, <1>3
  <2>. DEFINE j == r + 1
              m == Len(f)
  <2>2. /\ SubSeq(f, j, m) \in VersionTexts /\ Len(SubSeq(f, j, m)) = m - j + 1
        /\ \A k \in 1..(m - j + 1) : SubSeq(f, j, m)[k] = f[j + k - 1]
    <3>1. j \in 1..(Len(f) + 1) /\ m \in (j - 1)..Len(f)
      BY <2>1
    <3>. HIDE DEF j, m
    <3>. QED
      BY <1>1, <3>1, PartOfText
  <2>3. \A k \in 1..(d - 1 - r) : j + k - 1 = r + k /\ r + k \in 1..(d - 1)
    BY <1>1, <1>3
  <2>4. m - j + 1 = d - 1 - r /\ t = SubSeq(f, j, m)
    BY <2>1
  <2>. HIDE DEF t, j, m
  <2>. QED
    BY <1>1, <2>2, <2>3, <2>4
<1>. HIDE DEF t
<1>8. t # <<>> /\ t[1] = LetterV <=> text[r + 1] = LetterV
  <2>1. CASE d - 1 - r = 0
    <3>1. text[r + 1] = Point /\ t = <<>>
      BY <1>1, <1>3, <1>7, <2>1 DEF VersionTexts
    <3>. QED
      BY <3>1 DEF Point, LetterV
  <2>2. CASE d - 1 - r > 0
    <3>1. t[1] = text[r + 1] /\ t # <<>>
      BY <1>1, <1>3, <1>7, <2>2 DEF VersionTexts
    <3>. QED
      BY <3>1
  <2>. QED
    BY <1>3, <2>1, <2>2
<1>9. CASE text[r + 1] # LetterV
  <2>. DEFINE j == r + 1
              u == SubSeq(text, j, d - 1)
  <2>1. First(text) = j /\ Bare(f) = t
    BY <1>5, <1>6, <1>8, <1>9 DEF First, Bare, t, r
  <2>2. j \in 1..(Len(text) + 1) /\ d - 1 \in (j - 1)..Len(text) /\ d - 1 - j + 1 = d - 1 - r
        /\ \A k \in 1..(d - 1 - r) : j + k - 1 = r + k
    BY <1>1, <1>3 DEF n
  <2>. HIDE DEF j
  <2>3. u \in VersionTexts /\ Len(u) = d - 1 - j + 1
        /\ \A k \in 1..(d - 1 - j + 1) : u[k] = text[j + k - 1]
    BY <2>2, PartOfText
  <2>. HIDE DEF u
  <2>4. t = u
    BY <1>7, <2>2, <2>3, SameText
  <2>5. j \in 1..d
    BY <1>3 DEF j
  <2>. QED
    BY <2>1, <2>4, <2>5 DEF u, f
<1>10. CASE text[r + 1] = LetterV
  <2>. DEFINE j == r + 2
              u == SubSeq(text, j, d - 1)
              w == SubSeq(t, 2, Len(t))
  <2>0. r + 1 # d
    BY <1>10 DEF Point, LetterV
  <2>1. First(text) = j /\ Bare(f) = w
    <3>1. First(text) = r + 1 + 1
      BY <1>5, <1>6, <1>10 DEF First
    <3>2. Bare(f) = IF t # <<>> /\ t[1] = LetterV THEN w ELSE t
      BY DEF Bare, t, r
    <3>. HIDE DEF w
    <3>. QED
      BY <1>3, <1>8, <1>10, <3>1, <3>2
  <2>2. j \in 1..(Len(text) + 1) /\ d - 1 \in (j - 1)..Len(text) /\ d - 1 - j + 1 = d - 2 - r
        /\ j \in 1..d /\ \A k \in 1..(d - 2 - r) : j + k - 1 = r + (k + 1)
    BY <1>1, <1>3, <2>0 DEF n
  <2>. HIDE DEF j
  <2>3. u \in VersionTexts /\ Len(u) = d - 1 - j + 1
        /\ \A k \in 1..(d - 1 - j + 1) : u[k] = text[j + k - 1]
    BY <2>2, PartOfText
  <2>4. w \in VersionTexts /\ Len(w) = d - 2 - r /\ \A k \in 1..(d - 2 - r) : w[k] = t[k + 1]
    <3>. DEFINE m == Len(t)
    <3>1. m \in Nat /\ 2 \in 1..(m + 1) /\ m \in (2 - 1)..m /\ m - 2 + 1 = d - 2 - r
          /\ \A k \in 1..(d - 2 - r) : 2 + k - 1 = k + 1
      BY <1>3, <1>7, <2>0
    <3>. HIDE DEF m
    <3>2. SubSeq(t, 2, m) \in VersionTexts /\ Len(SubSeq(t, 2, m)) = m - 2 + 1
          /\ \A k \in 1..(m - 2 + 1) : SubSeq(t, 2, m)[k] = t[2 + k - 1]
      BY <1>7, <3>1, PartOfText DEF m
    <3>. QED
      BY <3>1, <3>2 DEF m
  <2>5. \A k \in 1..(d - 2 - r) : k + 1 \in 1..(d - 1 - r)
    BY <1>3
  <2>. HIDE DEF u, w
  <2>6. w = u
    <3>1. \A k \in 1..(d - 2 - r) : w[k] = text[r + (k + 1)] /\ u[k] = text[r + (k + 1)]
      BY <1>7, <2>2, <2>3, <2>4, <2>5
    <3>2. w \in VersionTexts /\ u \in VersionTexts /\ Len(w) = Len(u)
      BY <2>2, <2>3, <2>4
    <3>3. \A k \in 1..Len(w) : w[k] = u[k]
      BY <2>4, <3>1
    <3>. QED
      BY <3>2, <3>3, SameText
  <2>. QED
    BY <2>1, <2>2, <2>6 DEF u, f
<1>. QED
  BY <1>9, <1>10

\* The first part begins in the text or at its end.
LEMMA FirstPlace ==
    ASSUME NEW text \in VersionTexts
    PROVE  First(text) \in 1..(Len(text) + 1)
<1>. DEFINE T == {j \in 1..(Len(text) + 1) : At(text, j) \notin Blanks}
<1>1. Len(text) \in Nat /\ DOMAIN text = 1..Len(text)
  BY DEF VersionTexts
<1>2. Min(T) \in T
  <2>1. T \subseteq Nat /\ Len(text) + 1 \in T
    BY <1>1 DEF At, Blanks
  <2>. HIDE DEF T
  <2>. QED
    BY <2>1, MinOfNumbers
<1>3. At(text, Min(T)) = LetterV => Min(T) \in 1..Len(text)
  BY <1>1 DEF At, LetterV
<1>4. SkipAll(text, 1, Blanks) = Min(T)
  BY DEF SkipAll
<1>. HIDE DEF T
<1>5. Min(T) \in 1..(Len(text) + 1)
  BY <1>2 DEF T
<1>. QED
  BY <1>1, <1>3, <1>4, <1>5 DEF First

\* What it is for a set to have two elements.
LEMMA OneOrTwo ==
    ASSUME NEW D, IsFiniteSet(D), NEW a \in D
    PROVE  /\ Cardinality({}) # 2
           /\ D = {a} => Cardinality(D) # 2
           /\ \A b \in D \ {a} : Cardinality(D) = 2 <=> D = {a, b}
<1>1. Cardinality({}) = 0 /\ Cardinality({a}) = 1
  BY FS_EmptySet, FS_Singleton
<1>2. ASSUME NEW b \in D \ {a} PROVE Cardinality(D) = 2 <=> D = {a, b}
  <2>1. IsFiniteSet(D \ {a}) /\ Cardinality(D \ {a}) = Cardinality(D) - 1
    BY FS_RemoveElement
  <2>2. IsFiniteSet((D \ {a}) \ {b}) /\ Cardinality((D \ {a}) \ {b}) = Cardinality(D \ {a}) - 1
    BY <2>1, FS_RemoveElement
  <2>3. Cardinality(D) \in Nat /\ Cardinality(D \ {a}) \in Nat
    BY <2>1, FS_CardinalityType
  <2>4. Cardinality((D \ {a}) \ {b}) = 0 <=> (D \ {a}) \ {b} = {}
    BY <2>2, FS_EmptySet
  <2>. QED
    BY <2>1, <2>2, <2>3, <2>4
<1>. QED
  BY <1>1, <1>2

\* A version is read, from left to right, as what its text says as a whole.
LEMMA VersionRead ==
    ASSUME NEW text \in VersionTexts
    PROVE  ParseVersion3(text) = VersionOf(text)
<1>. DEFINE n == Len(text)
            D == {i \in DOMAIN text : text[i] = Point}
            first == First(text)
            second == NextPart(text, first)
            third == NextPart(text, second)
            parts == <<DigitsAt(text, first), DigitsAt(text, second), DigitsAt(text, third)>>
            fields == <<Bare(SubSeq(text, 1, Min(D) - 1)),
                        SubSeq(text, Min(D) + 1, Max(D) - 1),
                        SubSeq(text, Max(D) + 1, n)>>
<1>1. n \in Nat /\ DOMAIN text = 1..n
  BY DEF VersionTexts
<1>2. ParseVersion3(text) =
          IF \/ NoPlace \in {second, third} \/ <<>> \in ToSet(parts)
             \/ NextPart(text, third) # NoPlace
          THEN NoVersion ELSE [k \in 1..3 |-> Unsigned(parts[k])]
  BY DEF ParseVersion3, First
<1>3. VersionOf(text) =
          IF Cardinality(D) = 2 /\ \A k \in 1..3 : Leading(fields[k]) # <<>>
          THEN [k \in 1..3 |-> Unsigned(Leading(fields[k]))] ELSE NoVersion
  BY DEF VersionOf
<1>4. D \subseteq 1..n /\ D \subseteq Nat /\ IsFiniteSet(D)
  <2>1. IsFiniteSet(1..n)
    BY <1>1, FS_Interval
  <2>2. D \subseteq 1..n
    BY <1>1
  <2>. QED
    BY <1>1, <2>1, <2>2, FS_Subset
<1>5. first \in 1..(n + 1)
  BY FirstPlace
<1>6. \A i \in 1..(n + 1) : PointsFrom(text, i) = {j \in D : i <= j}
  BY <1>1 DEF PointsFrom
<1>7. \A i \in D : text[i] = Point
  OBVIOUS
<1>8. \A i \in 1..n : i \notin D => text[i] # Point
  BY <1>1
<1>. HIDE DEF D, n, first, second, third, parts, fields
<1>9. \A i \in 1..(n + 1) :
          /\ {j \in D : i <= j} = {} => NextPart(text, i) = NoPlace
          /\ \A d \in D : i <= d /\ (\A j \in D : i <= j => d <= j) => NextPart(text, i) = d + 1
  <2>. TAKE i \in 1..(n + 1)
  <2>1. {j \in D : i <= j} = {} => NextPart(text, i) = NoPlace
    BY <1>6, NextPartIs DEF n
  <2>2. ASSUME NEW d \in D, i <= d, \A j \in D : i <= j => d <= j
        PROVE  NextPart(text, i) = d + 1
    <3>1. PointsFrom(text, i) = {j \in D : i <= j} /\ d \in PointsFrom(text, i)
      BY <1>6, <2>2
    <3>2. /\ NextPart(text, i) = Min(PointsFrom(text, i)) + 1
          /\ Min(PointsFrom(text, i)) \in PointsFrom(text, i)
          /\ Min(PointsFrom(text, i)) <= d
      BY <3>1, NextPartIs DEF n
    <3>3. d <= Min(PointsFrom(text, i)) /\ Min(PointsFrom(text, i)) \in Nat /\ d \in Nat
      BY <1>4, <2>2, <3>1, <3>2
    <3>. QED
      BY <3>2, <3>3
  <2>. QED
    BY <2>1, <2>2
<1>10. CASE D = {}
  <2>1. second = NoPlace
    BY <1>5, <1>9, <1>10 DEF second
  <2>2. Cardinality(D) # 2
    BY <1>10, FS_EmptySet
  <2>. QED
    BY <1>2, <1>3, <2>1, <2>2
<1>11. CASE D # {}
  <2>1. PICK d1 \in D : \A j \in D : d1 <= j
    BY <1>4, <1>11, LeastNumber
  <2>2. d1 \in 1..n /\ text[d1] = Point /\ \A k \in 1..(d1 - 1) : text[k] # Point
    BY <1>1, <1>4, <1>7, <1>8, <2>1
  <2>3. Min(D) = d1
    <3>1. Min(D) \in D /\ \A j \in D : Min(D) <= j
      BY <1>4, <1>11, MinOfNumbers
    <3>2. Min(D) <= d1 /\ d1 <= Min(D) /\ Min(D) \in Nat /\ d1 \in Nat
      BY <1>4, <2>1, <3>1
    <3>. QED
      BY <3>2
  <2>4. first \in 1..d1 /\ Bare(SubSeq(text, 1, d1 - 1)) = SubSeq(text, first, d1 - 1)
    BY <2>2, FirstField DEF first, n
  <2>5. second = d1 + 1 /\ d1 + 1 \in 1..(n + 1)
    BY <1>1, <1>5, <1>9, <2>1, <2>2, <2>4 DEF second
  <2>6. \A j \in D : d1 + 1 <= j <=> j # d1
    BY <1>4, <2>1
  <2>7. CASE D = {d1}
    <3>1. third = NoPlace
      BY <1>9, <2>5, <2>6, <2>7 DEF third
    <3>2. Cardinality(D) # 2
      BY <1>4, <2>7, OneOrTwo
    <3>. QED
      BY <1>2, <1>3, <3>1, <3>2
  <2>8. CASE D # {d1}
    <3>1. PICK d2 \in D \ {d1} : \A j \in D \ {d1} : d2 <= j
      BY <1>4, <2>1, <2>8, LeastNumber
    <3>2. d2 \in 1..n /\ d1 < d2 /\ text[d2] = Point
      BY <1>4, <1>7, <2>1, <2>6, <3>1
    <3>3. third = d2 + 1 /\ d2 + 1 \in 1..(n + 1)
      BY <1>1, <1>9, <2>5, <2>6, <3>1, <3>2 DEF third
    <3>4. \A j \in D : d2 + 1 <= j <=> j \notin {d1, d2}
      BY <1>4, <2>1, <3>1, <3>2
    <3>5. Cardinality(D) = 2 <=> D = {d1, d2}
      BY <1>4, <2>1, <3>1, OneOrTwo
    <3>6. CASE D # {d1, d2}
      <4>. DEFINE E == D \ {d1, d2}
      <4>1. E # {} /\ E \subseteq Nat
        BY <1>4, <2>1, <3>1, <3>6
      <4>2. PICK d3 \in E : \A j \in E : d3 <= j
        <5>. HIDE DEF E
        <5>. QED
          BY <4>1, LeastNumber
      <4>3. NextPart(text, third) = d3 + 1 /\ d3 \in Nat
        BY <1>4, <1>9, <3>3, <3>4, <4>2
      <4>4. NextPart(text, third) # NoPlace
        BY <4>3 DEF NoPlace
      <4>. QED
        BY <1>2, <1>3, <3>5, <3>6, <4>4
    <3>7. CASE D = {d1, d2}
      <4>1. Max(D) = d2
        <5>1. d2 \in D /\ \A j \in D : d2 >= j
          BY <2>2, <3>2, <3>7
        <5>2. Max(D) \in D /\ \A j \in D : Max(D) >= j
          BY <5>1 DEF Max
        <5>3. Max(D) >= d2 /\ d2 >= Max(D) /\ Max(D) \in Nat /\ d2 \in Nat
          BY <1>4, <5>1, <5>2
        <5>. QED
          BY <5>3
      <4>2. NextPart(text, third) = NoPlace
        BY <1>9, <3>3, <3>4, <3>7
      <4>3. second # NoPlace /\ third # NoPlace
        BY <2>5, <3>3 DEF NoPlace
      <4>4. DigitsAt(text, first) = Leading(fields[1])
        <5>1. d1 - 1 \in (first - 1)..n /\ text[d1 - 1 + 1] = Point
          BY <1>1, <2>2, <2>4
        <5>2. DigitsAt(text, first) = Leading(SubSeq(text, first, d1 - 1))
          BY <1>5, <5>1, FieldDigits DEF n
        <5>. QED
          BY <2>3, <2>4, <5>2 DEF fields
      <4>5. DigitsAt(text, second) = Leading(fields[2])
        <5>1. d2 - 1 \in (second - 1)..n /\ text[d2 - 1 + 1] = Point /\ second \in 1..(n + 1)
          BY <1>1, <2>2, <2>5, <3>2
        <5>2. DigitsAt(text, second) = Leading(SubSeq(text, second, d2 - 1))
          BY <5>1, FieldDigits DEF n
        <5>. QED
          BY <2>3, <2>5, <4>1, <5>2 DEF fields
      <4>6. DigitsAt(text, third) = Leading(fields[3])
        <5>1. n \in (third - 1)..n /\ third \in 1..(n + 1)
          BY <1>1, <3>2, <3>3
        <5>2. DigitsAt(text, third) = Leading(SubSeq(text, third, n))
          BY <5>1, FieldDigits DEF n
        <5>. QED
          BY <3>3, <4>1, <5>2 DEF fields
      <4>7. \A k \in 1..3 : parts[k] = Leading(fields[k])
        BY <4>4, <4>5, <4>6 DEF parts
      <4>8. <<>> \in ToSet(parts) <=> \E k \in 1..3 : parts[k] = <<>>
        BY DEF ToSet, parts
      <4>9. [k \in 1..3 |-> Unsigned(parts[k])] = [k \in 1..3 |-> Unsigned(Leading(fields[k]))]
        BY <4>7
      <4>. QED
        BY <1>2, <1>3, <3>5, <3>7, <4>2, <4>3, <4>7, <4>8, <4>9
    <3>. QED
      BY <3>6, <3>7
  <2>. QED
    BY <2>7, <2>8
<1>. QED
  BY <1>10, <1>11

\* Numbers of two digits compare by the first digit, then by the second.
LEMMA Carry ==
    ASSUME NEW S \in Nat, NEW x \in Nat, NEW y \in Nat, NEW r \in 0..(S - 1), NEW s \in 0..(S - 1)
    PROVE  x * S + r > y * S + s <=> x > y \/ (x = y /\ r > s)
<1>1. ASSUME NEW u \in Nat, NEW v \in Nat, u > v
      PROVE  u * S >= v * S + S
  <2>. DEFINE d == u - v - 1
  <2>1. d \in Nat /\ u = v + 1 + d
    BY <1>1
  <2>2. \A e \in Nat : (v + 1 + e) * S = v * S + S + e * S
    BY SMT
  <2>3. \A e \in Nat : e * S >= 0
    BY SMT
  <2>. HIDE DEF d
  <2>4. u * S = v * S + S + d * S /\ d * S >= 0
    BY <2>1, <2>2, <2>3
  <2>. DEFINE p == u * S
              q == v * S
              w == d * S
  <2>5. p \in Nat /\ q \in Nat /\ w \in Nat
    BY <2>1
  <2>. HIDE DEF p, q, w
  <2>6. p = q + S + w
    BY <2>4 DEF p, q, w
  <2>7. p >= q + S
    BY <2>5, <2>6
  <2>. QED
    BY <2>7 DEF p, q
<1>. DEFINE p == x * S
            q == y * S
<1>2. p \in Nat /\ q \in Nat
  OBVIOUS
<1>3. /\ x > y => p >= q + S
      /\ y > x => q >= p + S
      /\ x = y => p = q
  BY <1>1
<1>. HIDE DEF p, q
<1>4. p + r > q + s <=> x > y \/ (x = y /\ r > s)
  BY <1>2, <1>3
<1>. QED
  BY <1>4 DEF p, q

\* Versions, as three unsigned numbers.
Triples == [1..3 -> 0..(UnsignedSize - 1)]

\* A version is less exactly if its parts make a smaller number.
LEMMA NewerIsLarger ==
    ASSUME NEW a \in Triples, NEW b \in Triples
    PROVE  VersionLess(a, b) <=> NumberOf(b) > NumberOf(a)
<1>. DEFINE p == a[1] * UnsignedSize + a[2]
            q == b[1] * UnsignedSize + b[2]
<1>1. /\ UnsignedSize \in Nat
      /\ \A v \in Triples : \A i \in 1..3 : v[i] \in 0..(UnsignedSize - 1) /\ v[i] \in Nat
  BY SeedingConstants DEF Triples
<1>2. /\ a[1] \in Nat /\ a[2] \in 0..(UnsignedSize - 1) /\ a[3] \in 0..(UnsignedSize - 1)
      /\ b[1] \in Nat /\ b[2] \in 0..(UnsignedSize - 1) /\ b[3] \in 0..(UnsignedSize - 1)
  BY <1>1
<1>3. q > p <=> b[1] > a[1] \/ (b[1] = a[1] /\ b[2] > a[2])
  BY <1>1, <1>2, Carry
<1>4. p > q <=> a[1] > b[1] \/ (a[1] = b[1] /\ a[2] > b[2])
  BY <1>1, <1>2, Carry
<1>5. p \in Nat /\ q \in Nat
  BY <1>1, <1>2
<1>6. NumberOf(a) = p * UnsignedSize + a[3] /\ NumberOf(b) = q * UnsignedSize + b[3]
  BY DEF NumberOf
<1>. HIDE DEF p, q
<1>7. NumberOf(b) > NumberOf(a) <=> q > p \/ (q = p /\ b[3] > a[3])
  <2>1. q * UnsignedSize + b[3] > p * UnsignedSize + a[3] <=>
            q > p \/ (q = p /\ b[3] > a[3])
    BY <1>1, <1>2, <1>5, Carry
  <2>. QED
    BY <1>6, <2>1
<1>8. VersionLess(a, b) <=> \/ a[1] < b[1] \/ (a[1] = b[1] /\ a[2] < b[2])
                            \/ (a[1] = b[1] /\ a[2] = b[2] /\ a[3] < b[3])
  <2>1. 1..(1 - 1) = {} /\ 1..(2 - 1) = {1} /\ 1..(3 - 1) = {1, 2} /\ 1..3 = {1, 2, 3}
    OBVIOUS
  <2>. QED
    BY <2>1 DEF VersionLess
<1>. QED
  BY <1>2, <1>3, <1>4, <1>5, <1>7, <1>8

\* One more digit keeps an unsigned one.
LEMMA NextDigit ==
    ASSUME NEW v \in 0..(UnsignedSize - 1), NEW ch \in Digits
    PROVE  (v * 10 + (ch - 48)) % UnsignedSize \in 0..(UnsignedSize - 1)
<1>1. v * 10 + (ch - 48) \in Int /\ UnsignedSize \in Nat /\ UnsignedSize > 0
  BY SeedingConstants DEF Digits
<1>2. \A x \in Int : x % UnsignedSize \in 0..(UnsignedSize - 1)
  BY <1>1
<1>. QED
  BY <1>1, <1>2

\* What digits say is an unsigned.
LEMMA UnsignedTyped ==
    ASSUME NEW seq \in Seq(Digits)
    PROVE  Unsigned(seq) \in 0..(UnsignedSize - 1)
<1>. DEFINE n == Len(seq)
            S == 0..(UnsignedSize - 1)
            step == [p \in S \X Digits |-> (p[1] * 10 + (p[2] - 48)) % UnsignedSize]
            IsFold(g) == g = [s \in SUBSET (1..n) |->
                 IF s = {} THEN 0 ELSE (g[s \ {Max(s)}] * 10 + (seq[Max(s)] - 48)) % UnsignedSize]
<1>1. n \in Nat /\ seq \in [1..n -> Digits] /\ DOMAIN seq = 1..n /\ 0 \in S
  BY SeedingConstants
<1>2. step \in [S \X Digits -> S]
  BY NextDigit
<1>3. \E g : IsFold(g)
  <2>. HIDE DEF n, S, step, IsFold
  <2>1. PICK F \in [SUBSET (1..n) -> S] : FoldsOver(F, seq, 0, step)
    BY <1>1, <1>2, FoldOverSets DEF n
  <2>2. ASSUME NEW s \in SUBSET (1..n)
        PROVE  F[s] = IF s = {} THEN 0
                      ELSE (F[s \ {Max(s)}] * 10 + (seq[Max(s)] - 48)) % UnsignedSize
    <3>1. CASE s # {}
      <4>1. F[s \ {Max(s)}] \in S
        OBVIOUS
      <4>2. seq[Max(s)] \in Digits
        BY <1>1, <3>1, MaxOfRange
      <4>. QED
        BY <2>1, <3>1, <4>1, <4>2 DEF step, FoldsOver, n
    <3>. QED
      BY <2>1, <3>1 DEF FoldsOver, n
  <2>. QED
    BY <2>2 DEF IsFold
<1>4. PICK g : IsFold(g) /\ Unsigned(seq) = g[1..n]
  <2>1. Unsigned(seq) = (CHOOSE g : IsFold(g))[1..n]
    BY <1>1 DEF FoldLeft, MapThenFoldSet, Unsigned
  <2>. QED
    BY <1>3, <2>1
<1>. DEFINE T == {k \in Nat : k <= n => g[1..k] \in S}
<1>5. 0 \in T
  <2>1. 1..0 = {} /\ {} \in SUBSET (1..n)
    OBVIOUS
  <2>. QED
    BY <1>1, <1>4, <2>1
<1>6. ASSUME NEW k \in Nat, k \in T PROVE k + 1 \in T
  <2>. SUFFICES ASSUME k + 1 <= n PROVE g[1..(k + 1)] \in S
    OBVIOUS
  <2>1. /\ 1..(k + 1) \in SUBSET (1..n) /\ 1..(k + 1) # {} /\ Max(1..(k + 1)) = k + 1
        /\ (1..(k + 1)) \ {Max(1..(k + 1))} = 1..k
    <3>1. k + 1 \in 1..n /\ k + 1 - 1 = k
      BY <1>1
    <3>. HIDE DEF n
    <3>. QED
      BY <1>1, <3>1, Ranges
  <2>2. g[1..k] \in S /\ seq[k + 1] \in Digits
    BY <1>1, <1>6
  <2>3. g[1..(k + 1)] = (g[1..k] * 10 + (seq[k + 1] - 48)) % UnsignedSize
    BY <1>4, <2>1
  <2>. QED
    BY <2>2, <2>3, NextDigit
<1>. HIDE DEF T
<1>7. n \in T
  BY <1>1, <1>5, <1>6, Induction
<1>. QED
  BY <1>4, <1>7 DEF T

\* What a field begins with is digits.
LEMMA LeadingTyped ==
    ASSUME NEW s \in VersionTexts
    PROVE  Leading(s) \in Seq(Digits)
<1>. DEFINE n == Run(s, Digits)
            t == SubSeq(s, 1, n)
<1>1. Len(s) \in Nat
  BY DEF VersionTexts
<1>2. n \in 0..Len(s) /\ \A k \in 1..n : s[k] \in Digits
  BY RunStops
<1>3. Leading(s) = t
  BY DEF Leading
<1>. HIDE DEF n
<1>4. t \in VersionTexts /\ Len(t) = n - 1 + 1 /\ \A k \in 1..(n - 1 + 1) : t[k] = s[1 + k - 1]
  <2>1. 1 \in 1..(Len(s) + 1) /\ n \in (1 - 1)..Len(s)
    BY <1>1, <1>2
  <2>. QED
    BY <2>1, PartOfText
<1>. HIDE DEF t
<1>5. n \in Nat /\ Len(t) = n /\ t \in [1..n -> Nat \ {0}]
  <2>1. n \in Nat /\ n - 1 + 1 = n
    BY <1>1, <1>2
  <2>2. t \in [1..Len(t) -> Nat \ {0}]
    BY <1>4 DEF VersionTexts
  <2>. QED
    BY <1>4, <2>1, <2>2
<1>6. \A k \in 1..n : t[k] \in Digits
  <2>. TAKE k \in 1..n
  <2>1. k \in 1..(n - 1 + 1) /\ 1 + k - 1 = k
    BY <1>5
  <2>. QED
    BY <1>2, <1>4, <2>1
<1>7. t \in [1..n -> Digits]
  BY <1>5, <1>6
<1>8. t \in Seq(Digits)
  BY <1>5, <1>7
<1>. QED
  BY <1>3, <1>8

\* The part at any place is an unsigned.
LEMMA DigitsTyped ==
    ASSUME NEW text \in VersionTexts, NEW i \in 1..(Len(text) + 1)
    PROVE  Unsigned(DigitsAt(text, i)) \in 0..(UnsignedSize - 1)
<1>. DEFINE n == Len(text)
<1>1. n \in Nat
  BY DEF VersionTexts
<1>2. n \in (i - 1)..Len(text)
  BY <1>1
<1>3. DigitsAt(text, i) = Leading(SubSeq(text, i, n)) /\ SubSeq(text, i, n) \in VersionTexts
  BY <1>2, FieldDigits, PartOfText
<1>. QED
  BY <1>3, LeadingTyped, UnsignedTyped

\* What is read is a version or none.
LEMMA VersionTyped ==
    ASSUME NEW text \in VersionTexts
    PROVE  /\ VersionOf(text) \in Triples \cup {NoVersion}
           /\ NoVersion \notin Triples
<1>. DEFINE n == Len(text)
            first == First(text)
            second == NextPart(text, first)
            third == NextPart(text, second)
            parts == <<DigitsAt(text, first), DigitsAt(text, second), DigitsAt(text, third)>>
            numbers == [k \in 1..3 |-> Unsigned(parts[k])]
<1>1. n \in Nat
  BY DEF VersionTexts
<1>2. ParseVersion3(text) =
          IF \/ NoPlace \in {second, third} \/ <<>> \in ToSet(parts)
             \/ NextPart(text, third) # NoPlace
          THEN NoVersion ELSE numbers
  BY DEF ParseVersion3, First
<1>3. ASSUME NEW i \in 1..(n + 1), NextPart(text, i) # NoPlace
      PROVE  NextPart(text, i) \in 1..(n + 1)
  <2>1. PointsFrom(text, i) # {}
    BY <1>3, NextPartIs
  <2>2. /\ NextPart(text, i) = Min(PointsFrom(text, i)) + 1
        /\ Min(PointsFrom(text, i)) \in PointsFrom(text, i)
    BY <2>1, NextPartIs
  <2>3. PointsFrom(text, i) \subseteq 1..n
    BY <1>1 DEF PointsFrom
  <2>. QED
    BY <1>1, <2>2, <2>3
<1>4. first \in 1..(n + 1)
  BY FirstPlace
<1>5. ASSUME NoPlace \notin {second, third}
      PROVE  numbers \in Triples
  <2>1. second \in 1..(n + 1)
    BY <1>3, <1>4, <1>5
  <2>2. third \in 1..(n + 1)
    BY <1>3, <1>5, <2>1
  <2>. DEFINE u1 == Unsigned(DigitsAt(text, first))
              u2 == Unsigned(DigitsAt(text, second))
              u3 == Unsigned(DigitsAt(text, third))
  <2>. HIDE DEF n, first, second, third
  <2>3. u1 \in 0..(UnsignedSize - 1) /\ u2 \in 0..(UnsignedSize - 1) /\ u3 \in 0..(UnsignedSize - 1)
    BY <1>4, <2>1, <2>2, DigitsTyped DEF n
  <2>4. \A k \in 1..3 : Unsigned(parts[k]) \in 0..(UnsignedSize - 1)
    <3>1. Unsigned(parts[1]) = u1 /\ Unsigned(parts[2]) = u2 /\ Unsigned(parts[3]) = u3
      OBVIOUS
    <3>2. 1..3 = {1, 2, 3}
      OBVIOUS
    <3>. HIDE DEF parts, u1, u2, u3
    <3>. QED
      BY <2>3, <3>1, <3>2
  <2>. QED
    BY <2>4 DEF Triples
<1>6. NoVersion \notin Triples
  <2>1. \A v \in Triples : 1 \in DOMAIN v
    BY DEF Triples
  <2>2. 1 \notin DOMAIN NoVersion
    BY DEF NoVersion
  <2>. QED
    BY <2>1, <2>2
<1>7. ParseVersion3(text) \in Triples \cup {NoVersion}
  <2>. HIDE DEF numbers, second, third, parts
  <2>. QED
    BY <1>2, <1>5
<1>. QED
  BY <1>6, <1>7, VersionRead

\* A text is a version up to its first + or -.
LEMMA UndecoratedIs ==
    ASSUME NEW text \in VersionTexts
    PROVE  ParseVersion3(Undecorated(text)) # NoVersion <=>
               \E n \in 0..Len(text) :
                   /\ \A i \in 1..n : text[i] \notin Decoration
                   /\ n = Len(text) \/ text[n + 1] \in Decoration
                   /\ VersionOf(SubSeq(text, 1, n)) # NoVersion
<1>. DEFINE len == Len(text)
            cuts == PlacesOf(text, 1, Decoration)
            c == IF cuts = {} THEN len ELSE Min(cuts) - 1
            Ends(n) == /\ \A i \in 1..n : text[i] \notin Decoration
                       /\ n = len \/ text[n + 1] \in Decoration
<1>1. len \in Nat
  BY DEF VersionTexts
<1>2. cuts = {i \in 1..len : text[i] \in Decoration}
  BY DEF PlacesOf
<1>3. c \in 0..len /\ Ends(c)
  <2>. HIDE DEF cuts
  <2>1. CASE cuts = {}
    BY <1>1, <1>2, <2>1
  <2>2. CASE cuts # {}
    <3>1. Min(cuts) \in cuts /\ \A m \in cuts : Min(cuts) <= m
      <4>1. cuts \subseteq Nat
        BY <1>1, <1>2
      <4>. QED
        BY <2>2, <4>1, MinOfNumbers
    <3>. DEFINE m == Min(cuts)
    <3>. HIDE DEF m
    <3>2. m \in 1..len /\ text[m] \in Decoration /\ \A i \in 1..(m - 1) : text[i] \notin Decoration
      <4>1. m \in cuts /\ \A x \in cuts : m <= x
        BY <3>1 DEF m
      <4>2. m \in 1..len /\ text[m] \in Decoration
        BY <1>2, <4>1
      <4>3. ASSUME NEW i \in 1..(m - 1)
            PROVE  text[i] \notin Decoration
        <5>1. i \in 1..len /\ ~(m <= i)
          BY <1>1, <4>2
        <5>2. i \notin cuts
          BY <4>1, <5>1
        <5>. QED
          BY <1>2, <5>1, <5>2
      <4>. QED
        BY <4>2, <4>3
    <3>3. c = m - 1
      BY <2>2 DEF m
    <3>. QED
      BY <1>1, <3>2, <3>3
  <2>. QED
    BY <2>1, <2>2
<1>4. ASSUME NEW n \in 0..len, Ends(n)
      PROVE  n = c
  <2>. HIDE DEF c, len
  <2>1. n \in Nat /\ c \in Nat /\ n <= len /\ c <= len
    BY <1>1, <1>3
  <2>2. ~(n < c)
    <3>. SUFFICES ASSUME n < c PROVE FALSE
      OBVIOUS
    <3>1. n # len /\ n + 1 \in 1..c
      BY <1>1, <2>1
    <3>. QED
      BY <1>3, <1>4, <3>1
  <2>3. ~(c < n)
    <3>. SUFFICES ASSUME c < n PROVE FALSE
      OBVIOUS
    <3>1. c # len /\ c + 1 \in 1..n
      BY <1>1, <2>1
    <3>. QED
      BY <1>3, <1>4, <3>1
  <2>. QED
    BY <2>1, <2>2, <2>3
<1>5. Undecorated(text) = SubSeq(text, 1, c)
  <2>1. CASE cuts = {}
    <3>1. SubSeq(text, 1, len) = text
      <4>. DEFINE t == SubSeq(text, 1, len)
      <4>1. 1 \in 1..(Len(text) + 1) /\ len \in (1 - 1)..Len(text)
        BY <1>1
      <4>2. /\ t \in VersionTexts /\ Len(t) = len - 1 + 1
            /\ \A k \in 1..(len - 1 + 1) : t[k] = text[1 + k - 1]
        BY <4>1, PartOfText
      <4>3. len - 1 + 1 = len /\ \A k \in 1..len : 1 + k - 1 = k
        BY <1>1
      <4>. HIDE DEF t
      <4>4. Len(t) = Len(text) /\ \A k \in 1..Len(t) : t[k] = text[k]
        BY <4>2, <4>3
      <4>5. t = text
        BY <4>2, <4>4, SameText
      <4>. QED
        BY <4>5 DEF t
    <3>. QED
      BY <2>1, <3>1 DEF Undecorated
  <2>2. CASE cuts # {}
    BY <2>2 DEF Undecorated
  <2>. QED
    BY <2>1, <2>2
<1>6. ParseVersion3(SubSeq(text, 1, c)) = VersionOf(SubSeq(text, 1, c))
  <2>1. 1 \in 1..(Len(text) + 1) /\ c \in (1 - 1)..Len(text)
    <3>. HIDE DEF c
    <3>. QED
      BY <1>1, <1>3
  <2>. HIDE DEF c
  <2>. QED
    BY <2>1, PartOfText, VersionRead
<1>. HIDE DEF c
<1>7. ParseVersion3(Undecorated(text)) # NoVersion <=>
          \E n \in 0..len : Ends(n) /\ VersionOf(SubSeq(text, 1, n)) # NoVersion
  <2>. HIDE DEF Ends
  <2>. QED
    BY <1>3, <1>4, <1>5, <1>6
<1>. QED
  BY <1>7

\* A program checks for updates if what fits of its version is one.
LEMMA SemverishIs ==
    ASSUME NEW text \in VersionTexts
    PROVE  LET own == IF Len(text) < TextSize THEN text ELSE SubSeq(text, 1, TextSize - 1)
           IN  Semverish(text) <=>
                   \E n \in 0..Len(own) :
                       /\ \A i \in 1..n : own[i] \notin Decoration
                       /\ n = Len(own) \/ own[n + 1] \in Decoration
                       /\ VersionOf(SubSeq(own, 1, n)) # NoVersion
<1>. DEFINE own == IF Len(text) < TextSize THEN text ELSE SubSeq(text, 1, TextSize - 1)
<1>1. own \in VersionTexts
  <2>1. CASE Len(text) < TextSize
    BY <2>1
  <2>2. CASE ~(Len(text) < TextSize)
    <3>1. Len(text) \in Nat
      BY DEF VersionTexts
    <3>2. 1 \in 1..(Len(text) + 1) /\ TextSize - 1 \in (1 - 1)..Len(text)
      BY <2>2, <3>1, SeedingConstants
    <3>. QED
      BY <2>2, <3>2, PartOfText
  <2>. QED
    BY <2>1, <2>2
<1>2. Semverish(text) <=> ParseVersion3(Undecorated(own)) # NoVersion
  BY DEF Semverish, Truncated
<1>. HIDE DEF own
<1>3. Semverish(text) <=>
          \E n \in 0..Len(own) :
              /\ \A i \in 1..n : own[i] \notin Decoration
              /\ n = Len(own) \/ own[n + 1] \in Decoration
              /\ VersionOf(SubSeq(own, 1, n)) # NoVersion
  BY <1>1, <1>2, UndecoratedIs
<1>. QED
  BY <1>3 DEF own

-------------------------------------------------------------------------------
\* The gzip member with the CLI

\* A cell of a member: a byte, or the flags.
Cells == Nat \cup SUBSET Flags

\* The cells of a concatenation.
LEMMA CellsConcat ==
    ASSUME NEW s \in Seq(Cells), NEW u \in Seq(Cells)
    PROVE  /\ Len(s) \in Nat /\ Len(u) \in Nat
           /\ s \o u \in Seq(Cells) /\ Len(s \o u) = Len(s) + Len(u)
           /\ \A j \in 1..Len(s) : (s \o u)[j] = s[j]
           /\ \A j \in 1..Len(u) : (s \o u)[Len(s) + j] = u[j]
  OBVIOUS

\* The cells of a part.
LEMMA PartOfCells ==
    ASSUME NEW s \in Seq(Cells), NEW i \in 1..(Len(s) + 1), NEW e \in (i - 1)..Len(s)
    PROVE  /\ SubSeq(s, i, e) \in Seq(Cells) /\ Len(SubSeq(s, i, e)) = e - i + 1
           /\ \A k \in 1..(e - i + 1) : SubSeq(s, i, e)[k] = s[i + k - 1]
  OBVIOUS

\* The extra field is skipped to its end, or ends too late.
LEMMA ExtraSkipped ==
    ASSUME NEW src \in Seq(Cells), NEW limit \in 10..Len(src), NEW len \in Nat,
           "extra" \in src[4] /\ limit >= 12 => src[11] = len % 256 /\ src[12] = len \div 256
    PROVE  LET end == IF "extra" \in src[4] THEN 12 + len ELSE 10
           IN  SkipExtra(src, 10, limit) = IF end <= limit THEN end ELSE NoOffset
<1>1. Len(src) \in Nat /\ limit \in Nat
  OBVIOUS
<1>2. len = (len % 256) + 256 * (len \div 256)
  OBVIOUS
<1>3. CASE "extra" \notin src[4]
  BY <1>1, <1>3 DEF SkipExtra
<1>4. CASE "extra" \in src[4] /\ limit < 12
  BY <1>1, <1>4 DEF SkipExtra
<1>5. CASE "extra" \in src[4] /\ limit >= 12
  <2>1. 10 + 2 + src[10 + 1] + 256 * src[10 + 2] = 12 + len
    BY <1>2, <1>5
  <2>2. SkipExtra(src, 10, limit) = IF 12 + len > limit THEN NoOffset ELSE 12 + len
    BY <1>1, <1>5, <2>1 DEF SkipExtra
  <2>. QED
    BY <1>1, <1>5, <2>2
<1>. QED
  BY <1>1, <1>3, <1>4, <1>5

\* A name or comment is skipped to its zero, or the zero is too late.
LEMMA TextSkipped ==
    ASSUME NEW src, NEW flag, NEW limit \in Nat, NEW pos \in Nat, NEW end \in Nat,
           flag \notin src[4] => end = pos,
           flag \in src[4] =>
               /\ pos < end /\ \A j \in (pos + 1)..(end - 1) : j <= limit => src[j] # 0
               /\ end <= limit => src[end] = 0
    PROVE  SkipText(src, flag, IF pos <= limit THEN pos ELSE NoOffset, limit) =
               IF end <= limit THEN end ELSE NoOffset
<1>0. NoOffset \notin Nat
  BY DEF NoOffset
<1>1. CASE flag \notin src[4]
  BY <1>1 DEF SkipText
<1>2. CASE flag \in src[4] /\ pos > limit
  BY <1>2 DEF SkipText
<1>3. CASE flag \in src[4] /\ pos <= limit
  <2>. DEFINE zeros == {i \in (pos + 1)..limit : src[i] = 0}
  <2>1. SkipText(src, flag, pos, limit) = IF zeros = {} THEN NoOffset ELSE Min(zeros)
    BY <1>0, <1>3 DEF SkipText
  <2>2. CASE end <= limit
    <3>1. end \in zeros /\ zeros \subseteq Nat /\ \A i \in zeros : end <= i
      BY <1>3, <2>2
    <3>. HIDE DEF zeros
    <3>2. Min(zeros) \in zeros /\ Min(zeros) <= end
      BY <3>1, MinOfNumbers
    <3>3. Min(zeros) \in Nat /\ end <= Min(zeros)
      BY <3>1, <3>2
    <3>4. Min(zeros) = end
      BY <3>2, <3>3
    <3>. QED
      BY <1>3, <2>1, <2>2, <3>1, <3>4
  <2>3. CASE end > limit
    <3>1. zeros = {}
      BY <1>3, <2>3
    <3>. QED
      BY <1>3, <2>1, <2>3, <3>1
  <2>. QED
    BY <2>2, <2>3
<1>. QED
  BY <1>1, <1>2, <1>3

\* The header's CRC is skipped, or ends too late.
LEMMA CrcSkipped ==
    ASSUME NEW src, NEW limit \in Nat, NEW pos \in Nat
    PROVE  LET end == IF "crc" \in src[4] THEN pos + 2 ELSE pos
           IN  SkipCrc(src, IF pos <= limit THEN pos ELSE NoOffset, limit) =
                   IF end <= limit THEN end ELSE NoOffset
<1>0. NoOffset \notin Nat
  BY DEF NoOffset
<1>1. CASE "crc" \notin src[4]
  BY <1>1 DEF SkipCrc
<1>2. CASE "crc" \in src[4] /\ pos > limit
  BY <1>2 DEF SkipCrc
<1>3. CASE "crc" \in src[4] /\ pos <= limit
  BY <1>0, <1>3 DEF SkipCrc
<1>. QED
  BY <1>1, <1>2, <1>3

\* A header of five parts and what follows it.
Joined(s0, e, m, c, r, d) == s0 \o e \o m \o c \o r \o d

\* Where each of them is in the whole.
Pieces(s0, e, m, c, r, d) ==
    LET all == Joined(s0, e, m, c, r, d)
        h0 == Len(s0)
        h1 == h0 + Len(e)
        h2 == h1 + Len(m)
        h3 == h2 + Len(c)
        h4 == h3 + Len(r)
    IN  /\ all \in Seq(Cells) /\ Len(all) = h4 + Len(d)
        /\ h0 \in Nat /\ h1 \in Nat /\ h2 \in Nat /\ h3 \in Nat /\ h4 \in Nat
        /\ h0 <= h1 /\ h1 <= h2 /\ h2 <= h3 /\ h3 <= h4
        /\ \A j \in 1..h0 : all[j] = s0[j]
        /\ \A j \in 1..Len(e) : all[h0 + j] = e[j]
        /\ \A j \in 1..Len(m) : all[h1 + j] = m[j]
        /\ \A j \in 1..Len(c) : all[h2 + j] = c[j]
        /\ \A j \in 1..Len(d) : all[h4 + j] = d[j]

\* They are where their lengths say.
LEMMA FivePieces ==
    ASSUME NEW s0 \in Seq(Cells), NEW e \in Seq(Cells), NEW m \in Seq(Cells), NEW c \in Seq(Cells),
           NEW r \in Seq(Cells), NEW d \in Seq(Cells)
    PROVE  Pieces(s0, e, m, c, r, d)
<1>. DEFINE s1 == s0 \o e
            s2 == s1 \o m
            s3 == s2 \o c
            s4 == s3 \o r
            all == s4 \o d
            ne == Len(e)
            nm == Len(m)
            nc == Len(c)
            nr == Len(r)
            nd == Len(d)
            h0 == Len(s0)
            h1 == h0 + ne
            h2 == h1 + nm
            h3 == h2 + nc
            h4 == h3 + nr
<1>0. ne \in Nat /\ nm \in Nat /\ nc \in Nat /\ nr \in Nat /\ nd \in Nat /\ h0 \in Nat
  BY CellsConcat
<1>. HIDE DEF ne, nm, nc, nr, nd, h0, s1, s2, s3, s4, all
<1>6. /\ h0 \in Nat /\ h1 \in Nat /\ h2 \in Nat /\ h3 \in Nat /\ h4 \in Nat
      /\ h0 <= h1 /\ h1 <= h2 /\ h2 <= h3 /\ h3 <= h4
      /\ h1 = h0 + ne /\ h2 = h1 + nm /\ h3 = h2 + nc /\ h4 = h3 + nr
  BY <1>0
<1>. HIDE DEF h1, h2, h3, h4
<1>7. s0 \in Seq(Cells) /\ Len(s0) = h0
  BY DEF h0
<1>8. /\ s1 \in Seq(Cells) /\ Len(s1) = h1
      /\ \A j \in 1..h0 : s1[j] = s0[j]
      /\ \A j \in 1..ne : s1[h0 + j] = e[j]
  <2>1. /\ s0 \o e \in Seq(Cells) /\ Len(s0 \o e) = Len(s0) + Len(e)
        /\ \A j \in 1..Len(s0) : (s0 \o e)[j] = s0[j]
        /\ \A j \in 1..Len(e) : (s0 \o e)[Len(s0) + j] = e[j]
    BY <1>7, CellsConcat
  <2>2. s1 = s0 \o e /\ ne = Len(e)
    BY DEF s1, ne
  <2>. QED
    BY <1>6, <1>7, <2>1, <2>2
<1>9. s1 \in Seq(Cells) /\ Len(s1) = h1
  BY <1>8
<1>10. /\ s2 \in Seq(Cells) /\ Len(s2) = h2
       /\ \A j \in 1..h1 : s2[j] = s1[j]
       /\ \A j \in 1..nm : s2[h1 + j] = m[j]
  <2>1. /\ s1 \o m \in Seq(Cells) /\ Len(s1 \o m) = Len(s1) + Len(m)
        /\ \A j \in 1..Len(s1) : (s1 \o m)[j] = s1[j]
        /\ \A j \in 1..Len(m) : (s1 \o m)[Len(s1) + j] = m[j]
    BY <1>9, CellsConcat
  <2>2. s2 = s1 \o m /\ nm = Len(m)
    BY DEF s2, nm
  <2>. QED
    BY <1>6, <1>9, <2>1, <2>2
<1>11. s2 \in Seq(Cells) /\ Len(s2) = h2
  BY <1>10
<1>12. /\ s3 \in Seq(Cells) /\ Len(s3) = h3
       /\ \A j \in 1..h2 : s3[j] = s2[j]
       /\ \A j \in 1..nc : s3[h2 + j] = c[j]
  <2>1. /\ s2 \o c \in Seq(Cells) /\ Len(s2 \o c) = Len(s2) + Len(c)
        /\ \A j \in 1..Len(s2) : (s2 \o c)[j] = s2[j]
        /\ \A j \in 1..Len(c) : (s2 \o c)[Len(s2) + j] = c[j]
    BY <1>11, CellsConcat
  <2>2. s3 = s2 \o c /\ nc = Len(c)
    BY DEF s3, nc
  <2>. QED
    BY <1>6, <1>11, <2>1, <2>2
<1>13. s3 \in Seq(Cells) /\ Len(s3) = h3
  BY <1>12
<1>14. /\ s4 \in Seq(Cells) /\ Len(s4) = h4
       /\ \A j \in 1..h3 : s4[j] = s3[j]
       /\ \A j \in 1..nr : s4[h3 + j] = r[j]
  <2>1. /\ s3 \o r \in Seq(Cells) /\ Len(s3 \o r) = Len(s3) + Len(r)
        /\ \A j \in 1..Len(s3) : (s3 \o r)[j] = s3[j]
        /\ \A j \in 1..Len(r) : (s3 \o r)[Len(s3) + j] = r[j]
    BY <1>13, CellsConcat
  <2>2. s4 = s3 \o r /\ nr = Len(r)
    BY DEF s4, nr
  <2>. QED
    BY <1>6, <1>13, <2>1, <2>2
<1>15. s4 \in Seq(Cells) /\ Len(s4) = h4
  BY <1>14
<1>16. /\ all \in Seq(Cells) /\ Len(all) = h4 + nd
       /\ \A j \in 1..h4 : all[j] = s4[j]
       /\ \A j \in 1..nd : all[h4 + j] = d[j]
  <2>1. /\ s4 \o d \in Seq(Cells) /\ Len(s4 \o d) = Len(s4) + Len(d)
        /\ \A j \in 1..Len(s4) : (s4 \o d)[j] = s4[j]
        /\ \A j \in 1..Len(d) : (s4 \o d)[Len(s4) + j] = d[j]
    BY <1>15, CellsConcat
  <2>2. all = s4 \o d /\ nd = Len(d)
    BY DEF all, nd
  <2>. QED
    BY <1>6, <1>15, <2>1, <2>2
<1>17. all \in Seq(Cells) /\ Len(all) = h4 + nd
  BY <1>16
<1>18. \A j \in 1..h4 : all[j] = s4[j]
  BY <1>16
<1>19. \A j \in 1..h3 : all[j] = s3[j]
  <2>. TAKE j \in 1..h3
  <2>1. j \in 1..h4
    BY <1>6
  <2>2. s4[j] = s3[j]
    BY <1>14
  <2>. QED
    BY <1>18, <2>1, <2>2
<1>20. \A j \in 1..h2 : all[j] = s2[j]
  <2>. TAKE j \in 1..h2
  <2>1. j \in 1..h3
    BY <1>6
  <2>2. s3[j] = s2[j]
    BY <1>12
  <2>. QED
    BY <1>19, <2>1, <2>2
<1>21. \A j \in 1..h1 : all[j] = s1[j]
  <2>. TAKE j \in 1..h1
  <2>1. j \in 1..h2
    BY <1>6
  <2>2. s2[j] = s1[j]
    BY <1>10
  <2>. QED
    BY <1>20, <2>1, <2>2
<1>22. \A j \in 1..h0 : all[j] = s0[j]
  <2>. TAKE j \in 1..h0
  <2>1. j \in 1..h1
    BY <1>6
  <2>2. s1[j] = s0[j]
    BY <1>8
  <2>. QED
    BY <1>21, <2>1, <2>2
<1>23. \A j \in 1..ne : all[h0 + j] = e[j]
  <2>. TAKE j \in 1..ne
  <2>1. h0 + j \in 1..h1
    BY <1>0, <1>6
  <2>2. s1[h0 + j] = e[j]
    BY <1>8
  <2>. QED
    BY <1>21, <2>1, <2>2
<1>24. \A j \in 1..nm : all[h1 + j] = m[j]
  <2>. TAKE j \in 1..nm
  <2>1. h1 + j \in 1..h2
    BY <1>0, <1>6
  <2>2. s2[h1 + j] = m[j]
    BY <1>10
  <2>. QED
    BY <1>20, <2>1, <2>2
<1>25. \A j \in 1..nc : all[h2 + j] = c[j]
  <2>. TAKE j \in 1..nc
  <2>1. h2 + j \in 1..h3
    BY <1>0, <1>6
  <2>2. s3[h2 + j] = c[j]
    BY <1>12
  <2>. QED
    BY <1>19, <2>1, <2>2
<1>. QED
  BY <1>6, <1>16, <1>22, <1>23, <1>24, <1>25
     DEF h0, h1, h2, h3, h4, ne, nm, nc, nr, nd, s1, s2, s3, s4, all, Pieces, Joined

\* Bytes are cells.
LEMMA CellsOf ==
    ASSUME NEW S \in SUBSET Nat, NEW s \in Seq(S)
    PROVE  s \in Seq(Cells) /\ Len(s) \in Nat /\ \A j \in 1..Len(s) : s[j] \in S
<1>1. Len(s) \in Nat /\ s \in [1..Len(s) -> S]
  OBVIOUS
<1>2. S \subseteq Cells
  BY DEF Cells
<1>3. s \in [1..Len(s) -> Cells]
  BY <1>1, <1>2
<1>. QED
  BY <1>1, <1>3

\* Bytes are numbers.
LEMMA OctetsAreNumbers == Octets \in SUBSET Nat /\ Octets \ {0} \in SUBSET Nat
  BY DEF Octets

\* The extra field begins with its two bytes of length.
LEMMA ExtraPart ==
    ASSUME NEW extra \in Seq(Cells), NEW lo \in Cells, NEW hi \in Cells
    PROVE  LET u == <<lo, hi>> \o extra
           IN  /\ u \in Seq(Cells) /\ Len(extra) \in Nat /\ Len(u) = 2 + Len(extra)
               /\ u[1] = lo /\ u[2] = hi
<1>. DEFINE v == <<lo, hi>>
<1>1. v \in Seq(Cells) /\ Len(v) = 2 /\ v[1] = lo /\ v[2] = hi
  OBVIOUS
<1>. HIDE DEF v
<1>2. /\ v \o extra \in Seq(Cells) /\ Len(v \o extra) = Len(v) + Len(extra)
      /\ \A j \in 1..Len(v) : (v \o extra)[j] = v[j]
  BY <1>1, CellsConcat
<1>3. (v \o extra)[1] = lo /\ (v \o extra)[2] = hi
  BY <1>1, <1>2
<1>. QED
  BY <1>1, <1>2, <1>3 DEF v

\* The two bytes of a length are cells.
LEMMA LengthCells ==
    ASSUME NEW n \in Nat
    PROVE  n % 256 \in Cells /\ n \div 256 \in Cells
<1>1. n % 256 \in Nat /\ n \div 256 \in Nat
  OBVIOUS
<1>. QED
  BY <1>1 DEF Cells

\* A name or comment has one zero, at its end.
LEMMA TextPart ==
    ASSUME NEW text \in Seq(Octets \ {0})
    PROVE  LET t == Append(text, 0)
           IN  /\ t \in Seq(Cells) /\ Len(t) \in Nat /\ Len(t) > 0 /\ t[Len(t)] = 0
               /\ \A j \in 1..(Len(t) - 1) : t[j] # 0
<1>1. /\ text \in Seq(Cells) /\ 0 \in Cells /\ Len(text) \in Nat
      /\ \A j \in 1..Len(text) : text[j] # 0
  <2>1. 0 \notin Octets \ {0}
    OBVIOUS
  <2>. QED
    BY <2>1, OctetsAreNumbers, CellsOf DEF Cells
<1>. QED
  BY <1>1

\* The stream, here its content and a byte more, and the trailer.
Ending(content) ==
    <<content, 5, content, content, content, content, 1, 0, 0, 0>>

\* It is the two of them in a row.
LEMMA EndingIs ==
    ASSUME NEW content \in Nat
    PROVE  /\ <<content, 5>> \o Trailer(<<content>>) = Ending(content)
           /\ <<content, 5>> \in Seq(Cells) /\ Trailer(<<content>>) \in Seq(Cells)
           /\ Ending(content) \in Seq(Cells) /\ Len(Ending(content)) = 10
           /\ Trailer(<<content>>) = <<content, content, content, content, 1, 0, 0, 0>>
<1>. DEFINE crc == [i \in 1..4 |-> content]
            z == <<content, content, content, content, 1, 0, 0, 0>>
            d == <<content, 5>>
<1>1. content \in Cells /\ 5 \in Cells /\ 1 \in Cells /\ 0 \in Cells
  BY DEF Cells
<1>2. crc = <<content, content, content, content>>
  OBVIOUS
<1>3. Trailer(<<content>>) = crc \o <<1, 0, 0, 0>>
  BY DEF Trailer
<1>4. Trailer(<<content>>) = z
  BY <1>2, <1>3
<1>. HIDE DEF crc
<1>5. z \in Seq(Cells) /\ d \in Seq(Cells)
  BY <1>1
<1>6. Ending(content) \in Seq(Cells) /\ Len(Ending(content)) = 10
  BY <1>1 DEF Ending
<1>7. Len(d) = 2 /\ Len(z) = 8
  OBVIOUS
<1>8. \A j \in 1..10 : Ending(content)[j] = IF j <= 2 THEN d[j] ELSE z[j - 2]
  <2>1. 1..10 = {1, 2, 3, 4, 5, 6, 7, 8, 9, 10}
    OBVIOUS
  <2>. QED
    BY <2>1 DEF Ending
<1>. HIDE DEF d, z
<1>. DEFINE dz == d \o z
<1>9. /\ dz \in Seq(Cells) /\ Len(dz) = 10
      /\ \A j \in 1..2 : dz[j] = d[j]
      /\ \A j \in 1..8 : dz[2 + j] = z[j]
  <2>1. /\ d \o z \in Seq(Cells) /\ Len(d \o z) = Len(d) + Len(z)
        /\ \A j \in 1..Len(d) : (d \o z)[j] = d[j]
        /\ \A j \in 1..Len(z) : (d \o z)[Len(d) + j] = z[j]
    BY <1>5, CellsConcat
  <2>. HIDE DEF dz
  <2>2. /\ dz \in Seq(Cells) /\ Len(dz) = Len(d) + Len(z)
        /\ \A j \in 1..Len(d) : dz[j] = d[j]
        /\ \A j \in 1..Len(z) : dz[Len(d) + j] = z[j]
    BY <2>1 DEF dz
  <2>. QED
    BY <1>7, <2>2
<1>. HIDE DEF dz
<1>10. \A j \in 1..10 : dz[j] = Ending(content)[j]
  <2>. TAKE j \in 1..10
  <2>1. CASE j <= 2
    BY <1>8, <1>9, <2>1
  <2>2. CASE j > 2
    <3>1. PICK i \in 1..8 : j = 2 + i
      <4>1. j - 2 \in 1..8 /\ j = 2 + (j - 2)
        BY <2>2
      <4>. QED
        BY <4>1
    <3>2. Ending(content)[j] = z[j - 2]
      BY <1>8, <2>2
    <3>3. j - 2 = i
      BY <3>1
    <3>4. dz[2 + i] = z[i]
      BY <1>9
    <3>. QED
      BY <3>1, <3>2, <3>3, <3>4
  <2>3. j <= 2 \/ j > 2
    OBVIOUS
  <2>. QED
    BY <2>1, <2>2, <2>3
<1>11. dz = Ending(content)
  BY <1>6, <1>9, <1>10, SeqEqual
<1>. QED
  BY <1>4, <1>5, <1>6, <1>11 DEF d, z, dz

\* Where the parts of the header end.
ExtraEnd(p) == IF "extra" \in p.flags THEN 12 + Len(p.extra) ELSE 10
NameEnd(p) == ExtraEnd(p) + (IF "name" \in p.flags THEN Len(p.name) + 1 ELSE 0)
CommentEnd(p) == NameEnd(p) + (IF "comment" \in p.flags THEN Len(p.comment) + 1 ELSE 0)
DataBegin(p) == CommentEnd(p) + (IF "crc" \in p.flags THEN 2 ELSE 0)

\* Concatenations of cells associate.
LEMMA CellsAssociate ==
    ASSUME NEW s \in Seq(Cells), NEW t \in Seq(Cells), NEW u \in Seq(Cells)
    PROVE  (s \o t) \o u = s \o (t \o u)
  BY ConcatAssociative

\* The parts of the header, those that are left out empty.
FixedPart(p) == <<31, 139, 8, p.flags, 0, 0, 0, 0, 0, 0>>
ExtraBytes(p) ==
    IF "extra" \in p.flags THEN <<Len(p.extra) % 256, Len(p.extra) \div 256>> \o p.extra ELSE <<>>
NameBytes(p) == IF "name" \in p.flags THEN Append(p.name, 0) ELSE <<>>
CommentBytes(p) == IF "comment" \in p.flags THEN Append(p.comment, 0) ELSE <<>>
CrcBytes(p) == IF "crc" \in p.flags THEN p.crc ELSE <<>>

\* What is in them, and that they end where they are said to.
HeaderParts(p) ==
    LET s0 == FixedPart(p)
        e == ExtraBytes(p)
        m == NameBytes(p)
        c == CommentBytes(p)
        r == CrcBytes(p)
    IN  /\ s0 \in Seq(Cells) /\ Len(s0) = 10
        /\ s0[1] = 31 /\ s0[2] = 139 /\ s0[3] = 8 /\ s0[4] = p.flags
        /\ e \in Seq(Cells) /\ Len(e) \in Nat /\ 10 + Len(e) = ExtraEnd(p)
        /\ "extra" \in p.flags =>
               Len(e) >= 2 /\ e[1] = Len(p.extra) % 256 /\ e[2] = Len(p.extra) \div 256
        /\ m \in Seq(Cells) /\ Len(m) \in Nat /\ ExtraEnd(p) + Len(m) = NameEnd(p)
        /\ "name" \in p.flags =>
               Len(m) > 0 /\ m[Len(m)] = 0 /\ \A j \in 1..(Len(m) - 1) : m[j] # 0
        /\ c \in Seq(Cells) /\ Len(c) \in Nat /\ NameEnd(p) + Len(c) = CommentEnd(p)
        /\ "comment" \in p.flags =>
               Len(c) > 0 /\ c[Len(c)] = 0 /\ \A j \in 1..(Len(c) - 1) : c[j] # 0
        /\ r \in Seq(Cells) /\ Len(r) \in Nat /\ CommentEnd(p) + Len(r) = DataBegin(p)
        /\ Len(p.extra) \in Nat

\* That is how they are packed.
LEMMA PartsOfHeader ==
    ASSUME NEW p, IsPayload(p)
    PROVE  HeaderParts(p)
<1>. DEFINE u == <<Len(p.extra) % 256, Len(p.extra) \div 256>> \o p.extra
            a == Append(p.name, 0)
            b == Append(p.comment, 0)
            e == IF "extra" \in p.flags THEN u ELSE <<>>
            m == IF "name" \in p.flags THEN a ELSE <<>>
            c == IF "comment" \in p.flags THEN b ELSE <<>>
            q == p.crc
            r == IF "crc" \in p.flags THEN q ELSE <<>>
            n == Len(p.extra)
            s0 == <<31, 139, 8, p.flags, 0, 0, 0, 0, 0, 0>>
<1>1. /\ p.flags \subseteq Flags /\ p.extra \in Seq(Octets) /\ Len(p.extra) < 65536
      /\ p.name \in Seq(Octets \ {0}) /\ p.comment \in Seq(Octets \ {0})
      /\ p.crc \in Seq(Octets) /\ Len(p.crc) = 2
  BY DEF IsPayload
<1>2. /\ u \in Seq(Cells) /\ Len(p.extra) \in Nat /\ Len(u) = 2 + Len(p.extra)
      /\ u[1] = Len(p.extra) % 256 /\ u[2] = Len(p.extra) \div 256
  <2>. DEFINE x == p.extra
              lo == Len(p.extra) % 256
              hi == Len(p.extra) \div 256
              v == <<lo, hi>> \o x
  <2>1. x \in Seq(Cells) /\ Len(p.extra) \in Nat
    <3>1. x \in Seq(Octets)
      BY <1>1
    <3>2. x \in Seq(Cells) /\ Len(x) \in Nat
      <4>. HIDE DEF x
      <4>. QED
        BY <3>1, OctetsAreNumbers, CellsOf
    <3>. QED
      BY <3>2
  <2>2. lo \in Cells /\ hi \in Cells
    BY <2>1, LengthCells
  <2>3. u = v /\ x = p.extra
    OBVIOUS
  <2>. HIDE DEF x, lo, hi, u
  <2>4. /\ v \in Seq(Cells) /\ Len(x) \in Nat /\ Len(v) = 2 + Len(x)
        /\ v[1] = lo /\ v[2] = hi
    BY <2>1, <2>2, ExtraPart
  <2>. HIDE DEF v
  <2>5. /\ u \in Seq(Cells) /\ Len(p.extra) \in Nat /\ Len(u) = 2 + Len(p.extra)
        /\ u[1] = lo /\ u[2] = hi
    BY <2>3, <2>4
  <2>. QED
    BY <2>5 DEF lo, hi
<1>3. /\ a \in Seq(Cells) /\ Len(a) \in Nat /\ Len(a) > 0 /\ a[Len(a)] = 0
      /\ \A j \in 1..(Len(a) - 1) : a[j] # 0
  BY <1>1, TextPart
<1>4. /\ b \in Seq(Cells) /\ Len(b) \in Nat /\ Len(b) > 0 /\ b[Len(b)] = 0
      /\ \A j \in 1..(Len(b) - 1) : b[j] # 0
  BY <1>1, TextPart
<1>5. Len(a) = Len(p.name) + 1 /\ Len(b) = Len(p.comment) + 1
  BY <1>1
<1>6. q \in Seq(Cells) /\ Len(q) = 2
  BY <1>1, OctetsAreNumbers, CellsOf
<1>7. s0 \in Seq(Cells) /\ Len(s0) = 10 /\ s0[1] = 31 /\ s0[2] = 139 /\ s0[3] = 8 /\ s0[4] = p.flags
  <2>1. p.flags \in Cells
    BY <1>1 DEF Cells
  <2>2. 31 \in Cells /\ 139 \in Cells /\ 8 \in Cells /\ 0 \in Cells
    BY DEF Cells
  <2>. QED
    BY <2>1, <2>2
<1>8. <<>> \in Seq(Cells) /\ Len(<<>>) = 0
  OBVIOUS
<1>9. n \in Nat
  BY <1>2
<1>. HIDE DEF u, a, b, q, s0
<1>10. /\ e \in Seq(Cells) /\ Len(e) \in Nat /\ 10 + Len(e) = ExtraEnd(p)
       /\ "extra" \in p.flags =>
              /\ Len(e) >= 2
              /\ e[1] = n % 256 /\ e[2] = n \div 256
  <2>1. /\ u \in Seq(Cells) /\ n \in Nat /\ Len(u) = 2 + n
        /\ u[1] = n % 256 /\ u[2] = n \div 256
        /\ ExtraEnd(p) = IF "extra" \in p.flags THEN 12 + n ELSE 10
    BY <1>2 DEF ExtraEnd
  <2>. HIDE DEF n
  <2>2. CASE "extra" \in p.flags
    BY <2>1, <2>2
  <2>3. CASE "extra" \notin p.flags
    BY <1>8, <2>1, <2>3
  <2>. QED
    BY <2>2, <2>3
<1>11. ExtraEnd(p) \in Nat
  BY <1>10
<1>12. /\ m \in Seq(Cells) /\ Len(m) \in Nat /\ ExtraEnd(p) + Len(m) = NameEnd(p)
       /\ "name" \in p.flags =>
              Len(m) > 0 /\ m[Len(m)] = 0 /\ \A j \in 1..(Len(m) - 1) : m[j] # 0
  BY <1>3, <1>5, <1>8, <1>11 DEF NameEnd
<1>13. NameEnd(p) \in Nat
  BY <1>11, <1>12
<1>14. /\ c \in Seq(Cells) /\ Len(c) \in Nat /\ NameEnd(p) + Len(c) = CommentEnd(p)
       /\ "comment" \in p.flags =>
              Len(c) > 0 /\ c[Len(c)] = 0 /\ \A j \in 1..(Len(c) - 1) : c[j] # 0
  BY <1>4, <1>5, <1>8, <1>13 DEF CommentEnd
<1>15. CommentEnd(p) \in Nat
  BY <1>13, <1>14
<1>16. r \in Seq(Cells) /\ Len(r) \in Nat /\ CommentEnd(p) + Len(r) = DataBegin(p)
  <2>1. DataBegin(p) = CommentEnd(p) + (IF "crc" \in p.flags THEN 2 ELSE 0)
    BY DEF DataBegin
  <2>2. CASE "crc" \in p.flags
    <3>1. r = q /\ DataBegin(p) = CommentEnd(p) + 2
      BY <2>1, <2>2
    <3>2. r \in Seq(Cells) /\ Len(r) = 2
      BY <1>6, <3>1
    <3>. HIDE DEF r
    <3>3. Len(r) \in Nat /\ CommentEnd(p) + Len(r) = DataBegin(p)
      BY <1>15, <3>1, <3>2
    <3>. QED
      BY <3>2, <3>3
  <2>3. CASE "crc" \notin p.flags
    <3>1. r = <<>> /\ DataBegin(p) = CommentEnd(p)
      BY <1>15, <2>1, <2>3
    <3>2. r \in Seq(Cells) /\ Len(r) = 0
      BY <1>8, <3>1
    <3>. HIDE DEF r
    <3>3. Len(r) \in Nat /\ CommentEnd(p) + Len(r) = DataBegin(p)
      BY <1>15, <3>1, <3>2
    <3>. QED
      BY <3>2, <3>3
  <2>. QED
    BY <2>2, <2>3
<1>. QED
  <2>1. /\ s0 = FixedPart(p) /\ e = ExtraBytes(p) /\ m = NameBytes(p)
        /\ c = CommentBytes(p) /\ r = CrcBytes(p)
    BY DEF u, a, b, q, s0, FixedPart, ExtraBytes, NameBytes, CommentBytes, CrcBytes
  <2>. HIDE DEF s0, e, m, c, r
  <2>2. /\ s0 \in Seq(Cells) /\ Len(s0) = 10
        /\ s0[1] = 31 /\ s0[2] = 139 /\ s0[3] = 8 /\ s0[4] = p.flags
    BY <1>7
  <2>3. /\ e \in Seq(Cells) /\ Len(e) \in Nat /\ 10 + Len(e) = ExtraEnd(p)
        /\ "extra" \in p.flags =>
               Len(e) >= 2 /\ e[1] = Len(p.extra) % 256 /\ e[2] = Len(p.extra) \div 256
    BY <1>10
  <2>4. Len(p.extra) \in Nat
    BY <1>9
  <2>. QED
    BY <1>12, <1>14, <1>16, <2>1, <2>2, <2>3, <2>4, Zenon DEF HeaderParts

\* The whole member, place by place.
LEMMA PackedIs ==
    ASSUME NEW p, IsPayload(p)
    PROVE  LET all == Packed(p)
           IN  /\ all \in Seq(Cells) /\ Len(all) = DataBegin(p) + 10
               /\ ExtraEnd(p) \in Nat /\ NameEnd(p) \in Nat /\ CommentEnd(p) \in Nat
               /\ DataBegin(p) \in Nat
               /\ 10 <= ExtraEnd(p) /\ ExtraEnd(p) <= NameEnd(p)
               /\ NameEnd(p) <= CommentEnd(p) /\ CommentEnd(p) <= DataBegin(p)
               /\ all[1] = 31 /\ all[2] = 139 /\ all[3] = 8 /\ all[4] = p.flags
               /\ Len(p.extra) \in Nat
               /\ "extra" \in p.flags =>
                      all[11] = Len(p.extra) % 256 /\ all[12] = Len(p.extra) \div 256
               /\ "name" \in p.flags =>
                      /\ ExtraEnd(p) < NameEnd(p) /\ all[NameEnd(p)] = 0
                      /\ \A j \in (ExtraEnd(p) + 1)..(NameEnd(p) - 1) : all[j] # 0
               /\ "comment" \in p.flags =>
                      /\ NameEnd(p) < CommentEnd(p) /\ all[CommentEnd(p)] = 0
                      /\ \A j \in (NameEnd(p) + 1)..(CommentEnd(p) - 1) : all[j] # 0
               /\ \A j \in 1..10 : all[DataBegin(p) + j] = Ending(p.content)[j]
<1>. DEFINE s0 == FixedPart(p)
            e == ExtraBytes(p)
            m == NameBytes(p)
            c == CommentBytes(p)
            r == CrcBytes(p)
            front == s0 \o e \o m \o c \o r
            d == <<p.content, 5>>
            z == Trailer(<<p.content>>)
            w == Ending(p.content)
            lo == Len(p.extra) % 256
            hi == Len(p.extra) \div 256
            ne == Len(e)
            nm == Len(m)
            nc == Len(c)
            nr == Len(r)
            h1 == ExtraEnd(p)
            h2 == NameEnd(p)
            h3 == CommentEnd(p)
            h4 == DataBegin(p)
            all == Packed(p)
<1>1. /\ s0 \in Seq(Cells) /\ Len(s0) = 10
      /\ s0[1] = 31 /\ s0[2] = 139 /\ s0[3] = 8 /\ s0[4] = p.flags
      /\ e \in Seq(Cells) /\ ne \in Nat /\ 10 + ne = h1
      /\ "extra" \in p.flags => ne >= 2 /\ e[1] = lo /\ e[2] = hi
      /\ m \in Seq(Cells) /\ nm \in Nat /\ h1 + nm = h2
      /\ "name" \in p.flags => nm > 0 /\ m[nm] = 0 /\ \A j \in 1..(nm - 1) : m[j] # 0
      /\ c \in Seq(Cells) /\ nc \in Nat /\ h2 + nc = h3
      /\ "comment" \in p.flags => nc > 0 /\ c[nc] = 0 /\ \A j \in 1..(nc - 1) : c[j] # 0
      /\ r \in Seq(Cells) /\ nr \in Nat /\ h3 + nr = h4
      /\ Len(p.extra) \in Nat
  BY PartsOfHeader DEF HeaderParts
<1>2. p.content \in Nat
  BY DEF IsPayload
<1>3. /\ d \o z = w /\ d \in Seq(Cells) /\ z \in Seq(Cells)
      /\ w \in Seq(Cells) /\ Len(w) = 10
  BY <1>2, EndingIs
<1>4. Packed(p) = front \o d \o z
  BY DEF Packed, FixedPart, ExtraBytes, NameBytes, CommentBytes, CrcBytes
<1>. HIDE DEF s0, e, m, c, r, d, z, w, lo, hi
<1>. HIDE DEF ne, nm, nc, nr, h1, h2, h3, h4
<1>5. /\ s0 \in Seq(Cells) /\ e \in Seq(Cells) /\ m \in Seq(Cells) /\ c \in Seq(Cells)
      /\ r \in Seq(Cells) /\ w \in Seq(Cells)
  BY <1>1, <1>3
<1>6. Pieces(s0, e, m, c, r, w)
  BY <1>5, FivePieces
<1>7. front \in Seq(Cells)
  BY <1>1
<1>8. all = front \o w
  <2>. HIDE DEF front
  <2>. QED
    BY <1>3, <1>4, <1>7, CellsAssociate
<1>9. all = Joined(s0, e, m, c, r, w)
  BY <1>8 DEF Joined
<1>. HIDE DEF all, front
<1>10. Len(s0) = 10 /\ 10 + Len(e) = h1 /\ h1 + Len(m) = h2 /\ h2 + Len(c) = h3 /\ h3 + Len(r) = h4
  BY <1>1 DEF ne, nm, nc, nr
<1>11. /\ all \in Seq(Cells) /\ Len(all) = h4 + 10
       /\ h1 \in Nat /\ h2 \in Nat /\ h3 \in Nat /\ h4 \in Nat
       /\ 10 <= h1 /\ h1 <= h2 /\ h2 <= h3 /\ h3 <= h4
       /\ \A j \in 1..10 : all[j] = s0[j]
       /\ \A j \in 1..ne : all[10 + j] = e[j]
       /\ \A j \in 1..nm : all[h1 + j] = m[j]
       /\ \A j \in 1..nc : all[h2 + j] = c[j]
       /\ \A j \in 1..10 : all[h4 + j] = w[j]
  <2>1. LET g0 == Len(s0)
            g1 == g0 + Len(e)
            g2 == g1 + Len(m)
            g3 == g2 + Len(c)
            g4 == g3 + Len(r)
        IN  /\ all \in Seq(Cells) /\ Len(all) = g4 + Len(w)
            /\ g0 \in Nat /\ g1 \in Nat /\ g2 \in Nat /\ g3 \in Nat /\ g4 \in Nat
            /\ g0 <= g1 /\ g1 <= g2 /\ g2 <= g3 /\ g3 <= g4
            /\ \A j \in 1..g0 : all[j] = s0[j]
            /\ \A j \in 1..Len(e) : all[g0 + j] = e[j]
            /\ \A j \in 1..Len(m) : all[g1 + j] = m[j]
            /\ \A j \in 1..Len(c) : all[g2 + j] = c[j]
            /\ \A j \in 1..Len(w) : all[g4 + j] = w[j]
    BY <1>6, <1>9 DEF Pieces
  <2>2. Len(s0) = 10 /\ Len(w) = 10
    BY <1>3, <1>10
  <2>3. 10 + Len(e) = h1
    BY <1>10
  <2>4. h1 + Len(m) = h2
    BY <1>10
  <2>5. h2 + Len(c) = h3
    BY <1>10
  <2>6. h3 + Len(r) = h4
    BY <1>10
  <2>7. ne = Len(e) /\ nm = Len(m) /\ nc = Len(c)
    BY DEF ne, nm, nc
  <2>. QED
    BY <2>1, <2>2, <2>3, <2>4, <2>5, <2>6, <2>7, Zenon
<1>12. all[1] = 31 /\ all[2] = 139 /\ all[3] = 8 /\ all[4] = p.flags
  <2>1. \A j \in 1..10 : all[j] = s0[j]
    BY <1>11
  <2>2. all[1] = s0[1] /\ all[2] = s0[2] /\ all[3] = s0[3] /\ all[4] = s0[4]
    BY <2>1
  <2>3. s0[1] = 31 /\ s0[2] = 139 /\ s0[3] = 8 /\ s0[4] = p.flags
    BY <1>1
  <2>. QED
    BY <2>2, <2>3
<1>13. "extra" \in p.flags => all[11] = lo /\ all[12] = hi
  <2>. HAVE "extra" \in p.flags
  <2>1. 1 \in 1..ne /\ 2 \in 1..ne
    BY <1>1
  <2>2. all[10 + 1] = e[1] /\ all[10 + 2] = e[2]
    BY <1>11, <2>1
  <2>. QED
    BY <1>1, <2>2
<1>14. "name" \in p.flags =>
           h1 < h2 /\ all[h2] = 0 /\ \A j \in (h1 + 1)..(h2 - 1) : all[j] # 0
  <2>. HAVE "name" \in p.flags
  <2>1. nm > 0 /\ m[nm] = 0 /\ \A j \in 1..(nm - 1) : m[j] # 0
    BY <1>1
  <2>2. h1 < h2 /\ nm \in 1..nm /\ h1 + nm = h2
    BY <1>1, <1>11, <2>1
  <2>3. all[h2] = 0
    <3>1. all[h1 + nm] = m[nm]
      BY <1>11, <2>2
    <3>. QED
      BY <2>1, <2>2, <3>1
  <2>4. ASSUME NEW j \in (h1 + 1)..(h2 - 1)
        PROVE  all[j] # 0
    <3>1. j - h1 \in 1..nm /\ j - h1 \in 1..(nm - 1) /\ h1 + (j - h1) = j
      BY <1>1, <1>11, <2>2
    <3>2. all[h1 + (j - h1)] = m[j - h1]
      BY <1>11, <3>1
    <3>. QED
      BY <2>1, <3>1, <3>2
  <2>. QED
    BY <2>2, <2>3, <2>4
<1>15. "comment" \in p.flags =>
           h2 < h3 /\ all[h3] = 0 /\ \A j \in (h2 + 1)..(h3 - 1) : all[j] # 0
  <2>. HAVE "comment" \in p.flags
  <2>1. nc > 0 /\ c[nc] = 0 /\ \A j \in 1..(nc - 1) : c[j] # 0
    BY <1>1
  <2>2. h2 < h3 /\ nc \in 1..nc /\ h2 + nc = h3
    BY <1>1, <1>11, <2>1
  <2>3. all[h3] = 0
    <3>1. all[h2 + nc] = c[nc]
      BY <1>11, <2>2
    <3>. QED
      BY <2>1, <2>2, <3>1
  <2>4. ASSUME NEW j \in (h2 + 1)..(h3 - 1)
        PROVE  all[j] # 0
    <3>1. j - h2 \in 1..nc /\ j - h2 \in 1..(nc - 1) /\ h2 + (j - h2) = j
      BY <1>1, <1>11, <2>2
    <3>2. all[h2 + (j - h2)] = c[j - h2]
      BY <1>11, <3>1
    <3>. QED
      BY <2>1, <3>1, <3>2
  <2>. QED
    BY <2>2, <2>3, <2>4
<1>. QED
  BY <1>1, <1>11, <1>12, <1>13, <1>14, <1>15 DEF all, h1, h2, h3, h4, w, lo, hi

\* What arrives is the member up to where it is cut off.
LEMMA DeliveredIs ==
    ASSUME NEW p, IsPayload(p)
    PROVE  /\ p.cut \in Nat /\ p.cut <= DataBegin(p) + 10
           /\ Delivered(p) \in Seq(Cells) /\ Len(Delivered(p)) = DataBegin(p) + 10 - p.cut
           /\ \A j \in 1..(DataBegin(p) + 10 - p.cut) : Delivered(p)[j] = Packed(p)[j]
<1>. DEFINE all == Packed(p)
            h == DataBegin(p)
            k == p.cut
<1>1. all \in Seq(Cells) /\ Len(all) = h + 10 /\ h \in Nat
  BY PackedIs
<1>2. k \in 0..Len(all)
  BY DEF IsPayload
<1>3. Delivered(p) = SubSeq(all, 1, Len(all) - k)
  BY DEF Delivered
<1>. HIDE DEF all, h, k
<1>4. k \in Nat /\ k <= h + 10
  BY <1>1, <1>2
<1>5. 1 \in 1..(Len(all) + 1) /\ Len(all) - k \in (1 - 1)..Len(all)
  BY <1>1, <1>2
<1>6. /\ SubSeq(all, 1, Len(all) - k) \in Seq(Cells)
      /\ Len(SubSeq(all, 1, Len(all) - k)) = Len(all) - k - 1 + 1
      /\ \A i \in 1..(Len(all) - k - 1 + 1) : SubSeq(all, 1, Len(all) - k)[i] = all[1 + i - 1]
  BY <1>1, <1>5, PartOfCells
<1>7. Len(all) - k - 1 + 1 = h + 10 - k
  BY <1>1, <1>4
<1>8. \A i \in 1..(h + 10 - k) : 1 + i - 1 = i
  BY <1>1, <1>4
<1>. DEFINE src == SubSeq(all, 1, Len(all) - k)
<1>9. src \in Seq(Cells) /\ Len(src) = h + 10 - k /\ \A i \in 1..(h + 10 - k) : src[i] = all[i]
  <2>. HIDE DEF src
  <2>1. /\ src \in Seq(Cells) /\ Len(src) = Len(all) - k - 1 + 1
        /\ \A i \in 1..(Len(all) - k - 1 + 1) : src[i] = all[1 + i - 1]
    BY <1>6 DEF src
  <2>. QED
    BY <1>7, <1>8, <2>1
<1>. QED
  BY <1>3, <1>4, <1>9 DEF all, h, k

\* Skipping the header part by part ends where its parts do, or not at all.
LEMMA HeaderSkipped ==
    ASSUME NEW p, IsPayload(p), NEW src \in Seq(Cells), NEW limit \in Nat,
           10 <= limit, limit <= Len(src), limit <= DataBegin(p) + 2,
           \A j \in 1..limit : src[j] = Packed(p)[j]
    PROVE  HeaderEnd(src, limit) = IF DataBegin(p) <= limit THEN DataBegin(p) ELSE NoOffset
<1>. DEFINE all == Packed(p)
            h1 == ExtraEnd(p)
            h2 == NameEnd(p)
            h3 == CommentEnd(p)
            h4 == DataBegin(p)
            n == Len(p.extra)
            f == p.flags
<1>1. /\ h1 \in Nat /\ h2 \in Nat /\ h3 \in Nat /\ h4 \in Nat
      /\ 10 <= h1 /\ h1 <= h2 /\ h2 <= h3 /\ h3 <= h4 /\ n \in Nat /\ all[4] = f
  BY PackedIs
<1>2. "extra" \in f => all[11] = n % 256 /\ all[12] = n \div 256
  BY PackedIs
<1>3. "name" \in f => h1 < h2 /\ all[h2] = 0 /\ \A j \in (h1 + 1)..(h2 - 1) : all[j] # 0
  BY PackedIs
<1>4. "comment" \in f => h2 < h3 /\ all[h3] = 0 /\ \A j \in (h2 + 1)..(h3 - 1) : all[j] # 0
  BY PackedIs
<1>5. /\ h1 = IF "extra" \in f THEN 12 + n ELSE 10
      /\ "name" \notin f => h2 = h1 + 0
      /\ "comment" \notin f => h3 = h2 + 0
      /\ h4 = IF "crc" \in f THEN h3 + 2 ELSE h3 + 0
  BY DEF ExtraEnd, NameEnd, CommentEnd, DataBegin
<1>6. \A j \in 1..limit : src[j] = all[j]
  OBVIOUS
<1>. HIDE DEF all, h1, h2, h3, h4, n, f
<1>7. src[4] = f
  <2>1. 4 \in 1..limit
    OBVIOUS
  <2>. QED
    BY <1>1, <1>6, <2>1
<1>8. SkipExtra(src, 10, limit) = IF h1 <= limit THEN h1 ELSE NoOffset
  <2>1. ASSUME "extra" \in src[4] /\ limit >= 12
        PROVE  src[11] = n % 256 /\ src[12] = n \div 256
    <3>1. 11 \in 1..limit /\ 12 \in 1..limit
      BY <2>1
    <3>2. src[11] = all[11] /\ src[12] = all[12]
      BY <1>6, <3>1
    <3>. QED
      BY <1>2, <1>7, <2>1, <3>2
  <2>2. limit \in 10..Len(src)
    OBVIOUS
  <2>3. SkipExtra(src, 10, limit) =
            LET end == IF "extra" \in src[4] THEN 12 + n ELSE 10
            IN  IF end <= limit THEN end ELSE NoOffset
    BY <1>1, <2>1, <2>2, ExtraSkipped
  <2>. QED
    BY <1>5, <1>7, <2>3
<1>9. SkipText(src, "name", IF h1 <= limit THEN h1 ELSE NoOffset, limit) =
          IF h2 <= limit THEN h2 ELSE NoOffset
  <2>1. "name" \notin src[4] => h2 = h1
    BY <1>1, <1>5, <1>7
  <2>2. ASSUME "name" \in src[4]
        PROVE  /\ h1 < h2 /\ \A j \in (h1 + 1)..(h2 - 1) : j <= limit => src[j] # 0
               /\ h2 <= limit => src[h2] = 0
    <3>1. h1 < h2 /\ all[h2] = 0 /\ \A j \in (h1 + 1)..(h2 - 1) : all[j] # 0
      BY <1>3, <1>7, <2>2
    <3>2. ASSUME NEW j \in (h1 + 1)..(h2 - 1), j <= limit
          PROVE  src[j] # 0
      <4>1. j \in 1..limit
        BY <1>1, <3>2
      <4>. QED
        BY <1>6, <3>1, <4>1
    <3>3. h2 <= limit => src[h2] = 0
      <4>1. h2 <= limit => h2 \in 1..limit
        BY <1>1
      <4>. QED
        BY <1>6, <3>1, <4>1
    <3>. QED
      BY <3>1, <3>2, <3>3
  <2>. QED
    BY <1>1, <2>1, <2>2, TextSkipped
<1>10. SkipText(src, "comment", IF h2 <= limit THEN h2 ELSE NoOffset, limit) =
           IF h3 <= limit THEN h3 ELSE NoOffset
  <2>1. "comment" \notin src[4] => h3 = h2
    BY <1>1, <1>5, <1>7
  <2>2. ASSUME "comment" \in src[4]
        PROVE  /\ h2 < h3 /\ \A j \in (h2 + 1)..(h3 - 1) : j <= limit => src[j] # 0
               /\ h3 <= limit => src[h3] = 0
    <3>1. h2 < h3 /\ all[h3] = 0 /\ \A j \in (h2 + 1)..(h3 - 1) : all[j] # 0
      BY <1>4, <1>7, <2>2
    <3>2. ASSUME NEW j \in (h2 + 1)..(h3 - 1), j <= limit
          PROVE  src[j] # 0
      <4>1. j \in 1..limit
        BY <1>1, <3>2
      <4>. QED
        BY <1>6, <3>1, <4>1
    <3>3. h3 <= limit => src[h3] = 0
      <4>1. h3 <= limit => h3 \in 1..limit
        BY <1>1
      <4>. QED
        BY <1>6, <3>1, <4>1
    <3>. QED
      BY <3>1, <3>2, <3>3
  <2>. QED
    BY <1>1, <2>1, <2>2, TextSkipped
<1>11. SkipCrc(src, IF h3 <= limit THEN h3 ELSE NoOffset, limit) =
           IF h4 <= limit THEN h4 ELSE NoOffset
  <2>1. h4 = IF "crc" \in src[4] THEN h3 + 2 ELSE h3
    BY <1>1, <1>5, <1>7
  <2>2. SkipCrc(src, IF h3 <= limit THEN h3 ELSE NoOffset, limit) =
            LET end == IF "crc" \in src[4] THEN h3 + 2 ELSE h3
            IN  IF end <= limit THEN end ELSE NoOffset
    BY <1>1, CrcSkipped
  <2>. QED
    BY <2>1, <2>2
<1>12. HeaderEnd(src, limit) = IF h4 <= limit THEN h4 ELSE NoOffset
  BY <1>8, <1>9, <1>10, <1>11 DEF HeaderEnd
<1>. QED
  BY <1>12 DEF h4

\* The header of what arrives is read if only the last byte is missing, or none.
LEMMA HeaderOf ==
    ASSUME NEW p, IsPayload(p)
    PROVE  GzipHeader(Delivered(p)) = IF p.cut < 2 THEN DataBegin(p) ELSE NoOffset
<1>. DEFINE src == Delivered(p)
            h == DataBegin(p)
            k == p.cut
            all == Packed(p)
            n == Len(src)
<1>1. /\ k \in Nat /\ k <= h + 10 /\ src \in Seq(Cells) /\ n = h + 10 - k
      /\ \A j \in 1..(h + 10 - k) : src[j] = all[j]
  BY DeliveredIs
<1>2. h \in Nat /\ 10 <= h /\ all[1] = 31 /\ all[2] = 139 /\ all[3] = 8
  <2>1. /\ ExtraEnd(p) \in Nat /\ NameEnd(p) \in Nat /\ CommentEnd(p) \in Nat
        /\ DataBegin(p) \in Nat
        /\ 10 <= ExtraEnd(p) /\ ExtraEnd(p) <= NameEnd(p)
        /\ NameEnd(p) <= CommentEnd(p) /\ CommentEnd(p) <= DataBegin(p)
    BY PackedIs
  <2>2. all[1] = 31 /\ all[2] = 139 /\ all[3] = 8
    BY PackedIs
  <2>. QED
    BY <2>1, <2>2
<1>. HIDE DEF src, h, k, all
<1>3. n \in Nat
  BY <1>1
<1>4. CASE n < 18
  <2>1. ~Magic(src)
    BY <1>3, <1>4 DEF Magic
  <2>2. k >= 2
    <3>. HIDE DEF n
    <3>. QED
      BY <1>1, <1>2, <1>4
  <2>. QED
    BY <1>1, <2>1, <2>2 DEF GzipHeader, src, h, k
<1>5. CASE n >= 18
  <2>1. src[1] = 31 /\ src[2] = 139 /\ src[3] = 8
    <3>1. 1 \in 1..(h + 10 - k) /\ 2 \in 1..(h + 10 - k) /\ 3 \in 1..(h + 10 - k)
      <4>. HIDE DEF n
      <4>. QED
        BY <1>1, <1>2, <1>5
    <3>. QED
      BY <1>1, <1>2, <3>1
  <2>2. SubSeq(src, 1, 3) = <<31, 139, 8>>
    <3>1. 1 \in 1..(Len(src) + 1) /\ 3 \in (1 - 1)..Len(src)
      BY <1>3, <1>5
    <3>. DEFINE t == SubSeq(src, 1, 3)
    <3>2. t \in Seq(Cells) /\ Len(t) = 3 - 1 + 1 /\ \A i \in 1..(3 - 1 + 1) : t[i] = src[1 + i - 1]
      BY <1>1, <3>1, PartOfCells
    <3>. HIDE DEF t
    <3>3. t \in Seq(Cells) /\ Len(t) = 3 /\ t[1] = src[1] /\ t[2] = src[2] /\ t[3] = src[3]
      BY <3>2
    <3>4. t = <<t[1], t[2], t[3]>>
      BY <3>3
    <3>. QED
      BY <2>1, <3>3, <3>4 DEF t
  <2>3. Magic(src)
    BY <1>5, <2>2 DEF Magic
  <2>. DEFINE limit == n - 8
  <2>4. /\ limit \in Nat /\ 10 <= limit /\ limit <= Len(src) /\ limit <= h + 2
        /\ \A j \in 1..limit : src[j] = all[j]
    BY <1>1, <1>2, <1>3, <1>5
  <2>5. HeaderEnd(src, limit) = IF h <= limit THEN h ELSE NoOffset
    <3>. HIDE DEF limit
    <3>. QED
      BY <1>1, <2>4, HeaderSkipped DEF h, all
  <2>6. GzipHeader(src) = LET pos == HeaderEnd(src, limit)
                          IN  IF pos >= limit THEN NoOffset ELSE pos
    BY <2>3 DEF GzipHeader
  <2>7. limit = h + 2 - k
    BY <1>1, <1>2
  <2>. HIDE DEF limit, n
  <2>8. GzipHeader(src) = IF h < limit THEN h ELSE NoOffset
    <3>1. CASE h < limit
      BY <1>2, <2>4, <2>5, <2>6, <3>1
    <3>2. CASE h >= limit
      <4>1. NoOffset < limit
        BY <2>4 DEF NoOffset
      <4>. QED
        BY <1>2, <2>4, <2>5, <2>6, <3>2, <4>1
    <3>3. h < limit \/ h >= limit
      BY <1>2, <2>4
    <3>. QED
      BY <3>1, <3>2, <3>3
  <2>9. h < limit <=> k < 2
    BY <1>1, <1>2, <2>7
  <2>. QED
    BY <2>8, <2>9 DEF src, h, k
<1>. QED
  BY <1>3, <1>4, <1>5

\* The last bytes of a member and of its trailer.
LEMMA EndingPlaces ==
    ASSUME NEW content \in Nat
    PROVE  LET w == Ending(content)
               z == <<content, content, content, content, 1, 0, 0, 0>>
           IN  /\ w[1] = content /\ w[7] = 1
               /\ z \in Seq(Cells) /\ Len(z) = 8 /\ z[6] = 0
               /\ \A i \in 1..8 : w[2 + i] = z[i]
<1>1. content \in Cells /\ 1 \in Cells /\ 0 \in Cells
  BY DEF Cells
<1>. DEFINE z == <<content, content, content, content, 1, 0, 0, 0>>
<1>2. z \in Seq(Cells) /\ Len(z) = 8 /\ z[6] = 0
  BY <1>1
<1>3. Ending(content)[1] = content /\ Ending(content)[7] = 1
  BY DEF Ending
<1>4. \A i \in 1..8 : Ending(content)[2 + i] = z[i]
  <2>1. 1..8 = {1, 2, 3, 4, 5, 6, 7, 8}
    OBVIOUS
  <2>. QED
    BY <2>1 DEF Ending
<1>. QED
  BY <1>2, <1>3, <1>4

\* What was packed comes out whole or not at all, and no header runs into the trailer.
LEMMA InflatedIs ==
    ASSUME NEW p, IsPayload(p)
    PROVE  /\ GzipInflate(Delivered(p)) = IF p.cut = 0 THEN <<p.content>> ELSE NoContent
           /\ GzipHeader(Delivered(p)) \in {NoOffset} \cup 10..(Len(Delivered(p)) - 9)
<1>. DEFINE src == Delivered(p)
            h == DataBegin(p)
            k == p.cut
            all == Packed(p)
            n == Len(src)
            content == p.content
            w == Ending(content)
            z == <<content, content, content, content, 1, 0, 0, 0>>
<1>1. /\ k \in Nat /\ k <= h + 10 /\ src \in Seq(Cells) /\ n = h + 10 - k
      /\ \A j \in 1..(h + 10 - k) : src[j] = all[j]
  BY DeliveredIs
<1>2. h \in Nat /\ 10 <= h /\ \A j \in 1..10 : all[h + j] = w[j]
  <2>1. /\ ExtraEnd(p) \in Nat /\ NameEnd(p) \in Nat /\ CommentEnd(p) \in Nat
        /\ DataBegin(p) \in Nat
        /\ 10 <= ExtraEnd(p) /\ ExtraEnd(p) <= NameEnd(p)
        /\ NameEnd(p) <= CommentEnd(p) /\ CommentEnd(p) <= DataBegin(p)
    BY PackedIs
  <2>2. \A j \in 1..10 : all[h + j] = w[j]
    BY PackedIs, Zenon
  <2>. QED
    BY <2>1, <2>2
<1>3. GzipHeader(src) = IF k < 2 THEN h ELSE NoOffset
  BY HeaderOf
<1>4. content \in Nat
  BY DEF IsPayload
<1>5. /\ w[1] = content /\ w[7] = 1
      /\ z \in Seq(Cells) /\ Len(z) = 8 /\ z[6] = 0 /\ \A i \in 1..8 : w[2 + i] = z[i]
  BY <1>4, EndingPlaces
<1>6. Trailer(<<content>>) = z
  BY <1>4, EndingIs
<1>. HIDE DEF src, h, k, all, content, w, z
<1>7. n \in Nat
  BY <1>1
<1>8. CASE k >= 2
  <2>1. GzipHeader(src) = NoOffset
    BY <1>1, <1>3, <1>8
  <2>2. GzipInflate(src) = NoContent
    BY <2>1 DEF GzipInflate
  <2>3. k # 0
    BY <1>8
  <2>. QED
    BY <2>1, <2>2, <2>3 DEF src, k
<1>9. CASE k < 2
  <2>. HIDE DEF n
  <2>1. GzipHeader(src) = h /\ h \in 10..(n - 9) /\ h # NoOffset
    BY <1>1, <1>2, <1>3, <1>9 DEF NoOffset
  <2>. DEFINE data == SubSeq(src, h + 1, n - 8)
              tail == SubSeq(src, n - 7, n)
  <2>2. Inflated(data) = <<content>>
    <3>1. /\ h + 1 \in 1..(Len(src) + 1) /\ n - 8 \in (h + 1 - 1)..Len(src)
          /\ 1 \in 1..(n - 8 - (h + 1) + 1)
      BY <1>1, <1>2, <1>7, <1>9 DEF n
    <3>2. /\ Len(data) = n - 8 - (h + 1) + 1
          /\ \A i \in 1..(n - 8 - (h + 1) + 1) : data[i] = src[h + 1 + i - 1]
      BY <1>1, <3>1, PartOfCells
    <3>. HIDE DEF data
    <3>3. Len(data) # 0 /\ data[1] = src[h + 1 + 1 - 1]
      BY <1>1, <1>2, <1>9, <3>1, <3>2
    <3>4. data # <<>>
      BY <3>3
    <3>5. h + 1 + 1 - 1 = h + 1 /\ h + 1 \in 1..(h + 10 - k) /\ 1 \in 1..10
      BY <1>1, <1>2, <1>9
    <3>6. data[1] = content
      BY <1>1, <1>2, <1>5, <3>3, <3>5
    <3>. QED
      BY <1>4, <3>4, <3>6 DEF Inflated
  <2>3. tail \in Seq(Cells) /\ Len(tail) = 8 /\ \A i \in 1..8 : tail[i] = w[2 + i - k]
    <3>1. n - 7 \in 1..(Len(src) + 1) /\ n \in (n - 7 - 1)..Len(src) /\ n - (n - 7) + 1 = 8
      BY <1>1, <1>2, <1>7, <1>9 DEF n
    <3>2. /\ tail \in Seq(Cells) /\ Len(tail) = n - (n - 7) + 1
          /\ \A i \in 1..(n - (n - 7) + 1) : tail[i] = src[n - 7 + i - 1]
      BY <1>1, <3>1, PartOfCells
    <3>. HIDE DEF tail
    <3>3. tail \in Seq(Cells) /\ Len(tail) = 8 /\ \A i \in 1..8 : tail[i] = src[n - 7 + i - 1]
      BY <3>1, <3>2
    <3>4. ASSUME NEW i \in 1..8
          PROVE  tail[i] = w[2 + i - k]
      <4>1. /\ n - 7 + i - 1 = h + (2 + i - k) /\ h + (2 + i - k) \in 1..(h + 10 - k)
            /\ 2 + i - k \in 1..10
        BY <1>1, <1>2, <1>9
      <4>2. tail[i] = src[h + (2 + i - k)]
        BY <3>3, <4>1
      <4>3. src[h + (2 + i - k)] = all[h + (2 + i - k)]
        BY <1>1, <4>1
      <4>4. all[h + (2 + i - k)] = w[2 + i - k]
        BY <1>2, <4>1
      <4>. QED
        BY <4>2, <4>3, <4>4
    <3>. QED
      BY <3>3, <3>4
  <2>4. GzipInflate(src) = IF tail = z THEN <<content>> ELSE NoContent
    <3>1. <<content>> # NoContent
      BY DEF NoContent
    <3>2. n - 7 = Len(src) - 7 /\ n = Len(src) /\ n - 8 = Len(src) - 8
      BY DEF n
    <3>. QED
      BY <1>6, <2>1, <2>2, <3>1, <3>2 DEF GzipInflate
  <2>. HIDE DEF tail
  <2>5. CASE k = 0
    <3>1. \A i \in 1..8 : tail[i] = z[i]
      <4>. TAKE i \in 1..8
      <4>1. 2 + i - k = 2 + i
        BY <2>5
      <4>2. tail[i] = w[2 + i - k]
        BY <2>3
      <4>3. w[2 + i] = z[i]
        BY <1>5
      <4>. QED
        BY <4>1, <4>2, <4>3
    <3>2. Len(tail) = Len(z) /\ tail \in Seq(Cells) /\ z \in Seq(Cells)
      BY <1>5, <2>3
    <3>3. \A i \in 1..Len(tail) : tail[i] = z[i]
      BY <2>3, <3>1
    <3>4. tail = z
      BY <3>2, <3>3, SeqEqual
    <3>. QED
      BY <2>1, <2>4, <2>5, <3>4 DEF src, k, content, n
  <2>6. CASE k = 1
    <3>1. tail[6] = w[2 + 6 - k] /\ 2 + 6 - k = 7
      <4>1. 6 \in 1..8
        OBVIOUS
      <4>2. tail[6] = w[2 + 6 - k]
        BY <2>3, <4>1
      <4>3. 2 + 6 - k = 7
        BY <2>6
      <4>. QED
        BY <4>2, <4>3
    <3>2. tail[6] = 1
      BY <1>5, <3>1
    <3>3. tail # z /\ k # 0
      BY <1>5, <2>6, <3>2
    <3>. QED
      BY <2>1, <2>4, <3>3 DEF src, k, content, n
  <2>7. k = 0 \/ k = 1
    BY <1>1, <1>9
  <2>. QED
    BY <2>5, <2>6, <2>7
<1>10. k >= 2 \/ k < 2
  BY <1>1
<1>. QED
  BY <1>8, <1>9, <1>10

\* What agent_bootstrap does with a bundled CLI.
LEMMA SeedIs ==
    ASSUME NEW i, IsSeed(i)
    PROVE  LET payload == Delivered(i.payload)
               bundled == i.bundled.means
               answer == i.answer.means
               text == i.bundled.text
               seeded == Seed(text, i.present, i.answer.text, payload)
               sound == bundled # NoVersion /\ Len(text) < TextSize /\ i.payload.cut = 0
           IN  /\ seeded # NoContent => sound /\ seeded = <<i.payload.content>>
               /\ ~i.present => (seeded # NoContent <=> sound)
               /\ i.present /\ answer # NoVersion =>
                      (seeded # NoContent <=> sound /\ NumberOf(bundled) > NumberOf(answer))
               /\ GzipHeader(payload) \in {NoOffset} \cup 10..(Len(payload) - 9)
<1>. DEFINE text == i.bundled.text
            other == i.answer.text
            present == i.present
            bundled == i.bundled.means
            answer == i.answer.means
            p == i.payload
            payload == Delivered(p)
            seeded == Seed(text, present, other, payload)
            sound == bundled # NoVersion /\ Len(text) < TextSize /\ p.cut = 0
<1>1. /\ text \in VersionTexts /\ bundled = VersionOf(text)
      /\ other \in VersionTexts /\ answer = VersionOf(other) /\ IsPayload(p)
  BY DEF IsSeed, IsVersion, VersionTexts
<1>. HIDE DEF text, other, present, bundled, answer, p
<1>2. ParseVersion3(text) = bundled /\ ParseVersion3(other) = answer
  BY <1>1, VersionRead
<1>3. /\ bundled \in Triples \cup {NoVersion} /\ answer \in Triples \cup {NoVersion}
      /\ NoVersion \notin Triples
  BY <1>1, VersionTyped
<1>4. /\ GzipInflate(payload) = IF p.cut = 0 THEN <<p.content>> ELSE NoContent
      /\ GzipHeader(payload) \in {NoOffset} \cup 10..(Len(payload) - 9)
  BY <1>1, InflatedIs
<1>5. ASSUME bundled # NoVersion, answer # NoVersion
      PROVE  Newer(bundled, other) <=> NumberOf(bundled) > NumberOf(answer)
  <2>1. answer \in Triples /\ bundled \in Triples
    BY <1>3, <1>5
  <2>2. VersionLess(answer, bundled) <=> NumberOf(bundled) > NumberOf(answer)
    BY <2>1, NewerIsLarger
  <2>. QED
    BY <1>2, <1>5, <2>2 DEF Newer
<1>. HIDE DEF payload
<1>6. <<p.content>> # NoContent
  BY DEF NoContent
<1>7. Len(text) \in Nat /\ (Len(text) >= TextSize <=> ~(Len(text) < TextSize))
  BY <1>1, SeedingConstants DEF VersionTexts
<1>8. seeded = IF sound /\ (present => Newer(bundled, other)) THEN <<p.content>> ELSE NoContent
  BY <1>2, <1>4, <1>7 DEF Seed
<1>. HIDE DEF seeded, sound
<1>9. /\ seeded # NoContent => sound /\ seeded = <<p.content>>
      /\ ~present => (seeded # NoContent <=> sound)
  BY <1>6, <1>8
<1>10. present /\ answer # NoVersion =>
           (seeded # NoContent <=> sound /\ NumberOf(bundled) > NumberOf(answer))
  BY <1>5, <1>6, <1>8 DEF sound
<1>. QED
  BY <1>4, <1>9, <1>10 DEF text, other, present, bundled, answer, p, payload, seeded, sound

-------------------------------------------------------------------------------
\* The functions and the desktop

\* An input is never another one: a behaviour is about one part.
LEMMA InputStays == PartsSpec => [](input = DesktopInput \/ input \in Inputs)
<1>1. PartsInit => input = DesktopInput \/ input \in Inputs
  BY DEF PartsInit
<1>2. /\ input = DesktopInput \/ input \in Inputs
      /\ [PartsNext]_<<vars, input>>
      => (input = DesktopInput \/ input \in Inputs)'
  BY DEF PartsNext
<1>. QED
  BY <1>1, <1>2, PTL DEF PartsSpec

\* The inputs are what the code can be given.
LEMMA InputsFit ==
    ASSUME input = DesktopInput \/ input \in Inputs
    PROVE  /\ input.part = "line" => IsLine(input)
           /\ input.part = "scan" => IsScan(input)
           /\ input.part = "complaint" => IsComplaint(input)
           /\ input.part = "download" => IsDownload(input)
           /\ input.part = "seed" => IsSeed(input)
<1>1. DesktopInput.part = "desktop"
  BY DEF DesktopInput
<1>. QED
  BY <1>1, PartsConstants

\* The CLI finds on its command line exactly the directories it is to scan,
\* whatever they hold, and the line always fits (agent_cli.h:72-77).
THEOREM ArgumentsAreRead == PartsSpec => []ArgumentsSurvive
<1>1. ASSUME input = DesktopInput \/ input \in Inputs
      PROVE  ArgumentsSurvive
  <2>. SUFFICES ASSUME input.part = "line"
                PROVE  LET line == BuildSync(input.exe, input.dirs)
                       IN  IF \A n \in DOMAIN input.dirs : input.dirs[n].dir = <<>>
                           THEN line = NoLine
                           ELSE line # NoLine /\ ParseArgs(line) = SyncArgs(input.exe, input.dirs)
    BY DEF ArgumentsSurvive
  <2>1. IsLine(input)
    BY <1>1, InputsFit
  <2>. DEFINE exe == input.exe
              dirs == input.dirs
  <2>2. FitsRoom(exe, dirs)
    BY <2>1 DEF IsLine, FitsRoom, Dirs, Text
  <2>. HIDE DEF exe, dirs
  <2>3. LET line == BuildSync(exe, dirs)
        IN  IF \A n \in DOMAIN dirs : dirs[n].dir = <<>> THEN line = NoLine
            ELSE line # NoLine /\ ParseArgs(line) = SyncArgs(exe, dirs)
    BY <2>2, LineSurvives
  <2>. QED
    BY <2>3 DEF exe, dirs
<1>. QED
  BY <1>1, InputStays, PTL

\* What a sync scans is in a directory the watcher watches, also after directories
\* have been removed since it started (data_dirs.h:34-35), as long as there are no
\* more candidates than the watcher has roots.
THEOREM ScansAreWatched == PartsSpec => []ScannedIsWatched
<1>1. ASSUME input = DesktopInput \/ input \in Inputs
      PROVE  ScannedIsWatched
  BY <1>1, InputsFit, ScanWatched, RootsSuffice DEF ScannedIsWatched
<1>. QED
  BY <1>1, InputStays, PTL

\* The warning of a failed start is never part of a character (wstr.h:21-24).
THEOREM WarningsAreReadable == PartsSpec => []WarningReadable
<1>1. ASSUME input = DesktopInput \/ input \in Inputs
      PROVE  WarningReadable
  <2>1. input.part = "complaint" => input.chars \in Seq(Widths)
    BY <1>1, InputsFit DEF IsComplaint
  <2>. QED
    BY <2>1, WarningWhole DEF WarningReadable
<1>. QED
  BY <1>1, InputStays, PTL

\* What is staged for an installation is what the server sent, to the end, and what
\* it has published of the build (app_update.h:13-14, 27, 41).
THEOREM DownloadsAreWhole == PartsSpec => []DownloadIsWhole
<1>1. ASSUME input = DesktopInput \/ input \in Inputs
      PROVE  DownloadIsWhole
  <2>1. input.part = "download" => IsDownload(input)
    BY <1>1, InputsFit
  <2>. QED
    BY <2>1, StagedIsWhole DEF DownloadIsWhole
<1>. QED
  BY <1>1, InputStays, PTL

\* A missing CLI is put there, and one that says its version is replaced exactly by
\* a newer one, by what was packed, whole or not at all (agent_cli.h:63-64,
\* inflate.c:15-17); a program checks for updates if what fits of its version is
\* one (app_update.h:20).
THEOREM SeedsAreNewerAndWhole == PartsSpec => []SeedIsNewerAndWhole
<1>1. ASSUME input = DesktopInput \/ input \in Inputs
      PROVE  SeedIsNewerAndWhole
  <2>1. input.part = "seed" => IsSeed(input)
    BY <1>1, InputsFit
  <2>. QED
    BY <2>1, SeedIs, SemverishIs DEF SeedIsNewerAndWhole, IsSeed, IsVersion, VersionTexts
<1>. QED
  BY <1>1, InputStays, PTL

\* What is proved of the desktop holds where the functions are beside it.
THEOREM PartsImplementDesktop == PartsSpec => Spec
<1>1. PartsInit => Init
  BY DEF PartsInit
<1>2. [PartsNext]_<<vars, input>> => [Next]_vars
  BY DEF PartsNext
<1>. QED
  BY <1>1, <1>2, PTL DEF PartsSpec, Spec
===============================================================================
