----------------------------- MODULE UpdaterProofs ------------------------------
(* Proofs about Updater, for any number of releases, of manual checks and of     *)
(* install threads.                                                              *)
EXTENDS Updater, FiniteSetTheorems, TLAPS

Known == 0..MaxVersion
LoopPCs == {"sleep", "ask", "compare", "post", "gone"}

ChecksTypeOK ==
    /\ latest \in Known
    /\ loop \in [pc : LoopPCs, found : Known]
    /\ loop.pc \in {"compare", "post"} => loop.found \in Versions
    /\ manual \in [Checkers -> [pc : {"none", "ask", "store"}, found : Known]]
    /\ pendingUpdate \in Known /\ offered \in Known
    /\ announced \subseteq Versions
ScreenTypeOK ==
    /\ posts \in Nat /\ balloon \in Known /\ menu \in Known \cup {NoMenu}
    /\ ui \in {"running", "closing", "gone"}
InstallTypeOK ==
    /\ installer \in [Installers -> [pc : InstallPCs, update : Known]]
    /\ onDisk \in Known
TypeOK == ChecksTypeOK /\ ScreenTypeOK /\ InstallTypeOK

\* The background check sees releases in the order they are published, and has
\* announced none that is newer than the one it offered last.
OffersGrow ==
    /\ offered <= latest /\ loop.found <= latest
    /\ loop.pc = "compare" => offered <= loop.found
    /\ \A version \in announced : version <= offered
    /\ loop.pc = "post" =>
           loop.found = offered /\ \A version \in announced : version < loop.found

\* An install thread is at work exactly while the guard is taken, and one only.
AtWork(i) == installer[i].pc # "none"
GuardIsHeld ==
    /\ \A i, j \in Installers : AtWork(i) /\ AtWork(j) => i = j
    /\ installing <=> \E i \in Installers : AtWork(i)

-------------------------------------------------------------------------------

\* What any step may do to the background check and what it has offered.
LEMMA WhoOffers ==
    ASSUME [Next]_vars
    PROVE  \/ LoopStep
           \/ /\ UNCHANGED <<loop, offered, announced>>
              /\ latest' = latest \/ Publish
<1>1. ASSUME NEW i \in Installers, InstallStep(i)
      PROVE  UNCHANGED <<loop, offered, announced, latest>>
  BY <1>1 DEF InstallStep, InstallReads, InstallFindsNothing, InstallDeclined, InstallAccepted,
         InstallFails, ErrorDismissed, InstallSucceeds, InstallClears, RestartLater,
         RestartNow, RestartCloses, RestartEnds, InstallEnds, InstallGoesOn, InstallGoes,
         Succeeds, world
<1>2. ASSUME NEW k \in Checkers,
             \/ ManualStarts(k) \/ ManualAnswered(k)
             \/ ManualFindsNothing(k) \/ ManualStores(k)
      PROVE  UNCHANGED <<loop, offered, announced, latest>>
  BY <1>2 DEF ManualStarts, ManualAnswered, ManualFindsNothing, ManualStores, ManualGoes,
              world, slot
<1>3. CASE UiAnnounces \/ UiOpensMenu \/ UiDismisses \/ UiInstalls \/ UiQuits
  BY <1>3 DEF UiAnnounces, UiOpensMenu, UiDismisses, UiInstalls, UiQuits, UiOnly, world, slot
<1>4. CASE Publish \/ SetAutomatic
  BY <1>4 DEF Publish, SetAutomatic, WorldOnly, slot
<1>5. CASE UNCHANGED vars
  BY <1>5 DEF vars, world, slot
<1>. QED
  BY <1>1, <1>2, <1>3, <1>4, <1>5 DEF Next, Ended

\* What any step may do to the guard and the threads that install.
LEMMA WhoInstalls ==
    ASSUME [Next]_vars
    PROVE  \/ UNCHANGED installVars
           \/ \E i \in Installers : InstallStep(i) \/ OfferInstall(i)
<1>1. CASE LoopStep
  BY <1>1 DEF LoopStep, LoopWakes, LoopIsDevBuild, LoopAnswered, LoopCheckFails, LoopOffers,
              Offers, LoopPosts, LoopGoes, installVars
<1>2. ASSUME NEW k \in Checkers,
             \/ ManualStarts(k) \/ ManualAnswered(k)
             \/ ManualFindsNothing(k) \/ ManualStores(k)
      PROVE  UNCHANGED installVars
  BY <1>2 DEF ManualStarts, ManualAnswered, ManualFindsNothing, ManualStores, ManualGoes,
              installVars
<1>3. CASE UiAnnounces \/ UiOpensMenu \/ UiDismisses \/ UiInstalls \/ UiQuits
  BY <1>3 DEF UiAnnounces, UiOpensMenu, UiDismisses, UiInstalls, UiQuits, OfferIgnored,
              installVars
<1>4. CASE Publish \/ SetAutomatic
  BY <1>4 DEF Publish, SetAutomatic, WorldOnly, installVars
<1>5. CASE UNCHANGED vars
  BY <1>5 DEF vars, installVars
<1>. QED
  BY <1>1, <1>2, <1>3, <1>4, <1>5 DEF Next, Ended

\* A step of install_main moves its thread, and gives the guard back at the end.
LEMMA InstallStepMoves ==
    ASSUME NEW i \in Installers, InstallStep(i)
    PROVE  /\ installer[i].pc # "none"
           /\ \E to \in InstallPCs, update \in {0, pendingUpdate, installer[i].update} :
                  /\ installer' = [installer EXCEPT ![i] = [pc |-> to, update |-> update]]
                  /\ IF to = "none" THEN installing' = FALSE ELSE installing' = installing
<1>1. CASE \E from \in InstallPCs \ {"none"} : InstallEnds(i, from)
  BY <1>1 DEF InstallEnds, InstallGoes, InstallPCs
<1>2. CASE \E from, to \in InstallPCs \ {"none"} : InstallGoesOn(i, from, to)
  BY <1>2 DEF InstallGoesOn, InstallGoes, InstallPCs
<1>3. CASE InstallReads(i)
  BY <1>3 DEF InstallReads, InstallGoes, InstallPCs
<1>4. CASE InstallSucceeds(i) \/ InstallClears(i) \/ RestartNow(i) \/ RestartCloses(i)
  BY <1>4 DEF InstallSucceeds, Succeeds, InstallClears, RestartNow, RestartCloses, InstallGoes,
              InstallPCs
<1>. QED
  BY <1>1, <1>2, <1>3, <1>4
     DEF InstallStep, InstallFindsNothing, InstallDeclined, InstallAccepted, InstallFails,
         ErrorDismissed, RestartLater, RestartEnds, InstallPCs

\* What a step of install_main may do to the rest of the state.
LEMMA InstallStepFrame ==
    ASSUME NEW i \in Installers, InstallStep(i)
    PROVE  /\ UNCHANGED <<world, loop, manual, pendingUpdate, offered, announced, posts, balloon,
                          menu>>
           /\ ui' \in {ui, "closing"}
           /\ onDisk' \in {onDisk, installer[i].update}
  BY DEF InstallStep, InstallReads, InstallFindsNothing, InstallDeclined, InstallAccepted,
         InstallFails, ErrorDismissed, InstallSucceeds, InstallClears, RestartLater,
         RestartNow, RestartCloses, RestartEnds, InstallEnds, InstallGoesOn, InstallGoes,
         Succeeds

\* Every step keeps the checks, and what they offer, of their types.
LEMMA ChecksTyped ==
    ASSUME TypeOK, [Next]_vars
    PROVE  ChecksTypeOK'
<1>0. ChecksTypeOK
  BY DEF TypeOK
<1>1. CASE Publish \/ SetAutomatic
  <2>1. latest' \in Known
    BY <1>0, <1>1, UpdaterAssumption DEF Publish, SetAutomatic, ChecksTypeOK, Known
  <2>2. UNCHANGED <<loop, manual, pendingUpdate, offered, announced>>
    BY <1>1 DEF Publish, SetAutomatic, WorldOnly, slot
  <2>. QED
    BY <1>0, <2>1, <2>2 DEF ChecksTypeOK
<1>2. CASE LoopWakes \/ LoopIsDevBuild \/ LoopAnswered \/ LoopCheckFails
  <2>1. UNCHANGED <<latest, manual, pendingUpdate, offered, announced>>
    BY <1>2 DEF LoopWakes, LoopIsDevBuild, LoopAnswered, LoopCheckFails, LoopGoes, NoOffer, world,
                slot
  <2>2. /\ loop' \in [pc : LoopPCs, found : Known]
        /\ loop'.pc \in {"compare", "post"} => loop'.found \in Versions
    <3>1. latest \in Known
      BY <1>0 DEF ChecksTypeOK
    <3>. QED
      BY <1>2, <3>1, UpdaterAssumption
         DEF LoopWakes, LoopIsDevBuild, LoopAnswered, LoopCheckFails, LoopGoes, LoopPCs, Known,
             Versions
  <2>. QED
    BY <1>0, <2>1, <2>2 DEF ChecksTypeOK
<1>3. CASE LoopOffers \/ LoopPosts
  <2>1. loop.found \in Versions /\ loop.found \in Known
    <3>1. loop.pc \in {"compare", "post"}
      BY <1>3 DEF LoopOffers, Offers, LoopPosts, LoopGoes
    <3>. QED
      BY <1>0, <3>1 DEF ChecksTypeOK
  <2>2. /\ UNCHANGED <<latest, manual>>
        /\ loop' = [pc |-> "sleep", found |-> 0] \/ loop' = [pc |-> "post", found |-> loop.found]
        /\ announced' \in {announced, announced \cup {loop.found}}
        /\ \/ UNCHANGED <<pendingUpdate, offered>>
           \/ pendingUpdate' = loop.found /\ offered' = loop.found
    <3>1. CASE LoopOffers
      BY <3>1 DEF LoopOffers, Offers, LoopGoes, NoOffer, slot, world
    <3>2. CASE LoopPosts
      BY <3>2 DEF LoopPosts, LoopGoes, slot, world
    <3>. QED
      BY <1>3, <3>1, <3>2
  <2>3. /\ loop' \in [pc : LoopPCs, found : Known]
        /\ loop'.pc \in {"compare", "post"} => loop'.found \in Versions
    BY <2>1, <2>2, UpdaterAssumption DEF LoopPCs, Known
  <2>4. announced' \subseteq Versions
    BY <1>0, <2>1, <2>2 DEF ChecksTypeOK
  <2>5. pendingUpdate' \in Known /\ offered' \in Known
    BY <1>0, <2>1, <2>2 DEF ChecksTypeOK
  <2>. QED
    BY <1>0, <2>2, <2>3, <2>4, <2>5 DEF ChecksTypeOK
<1>4. ASSUME NEW k \in Checkers,
             \/ ManualStarts(k) \/ ManualAnswered(k)
             \/ ManualFindsNothing(k) \/ ManualStores(k)
      PROVE  ChecksTypeOK'
  <2>1. UNCHANGED <<latest, loop, offered, announced>>
    BY <1>4 DEF ManualStarts, ManualAnswered, ManualFindsNothing, ManualStores, ManualGoes, world
  <2>2. manual' \in [Checkers -> [pc : {"none", "ask", "store"}, found : Known]]
    <3>1. PICK to \in {"none", "ask", "store"}, found \in Known :
              manual' = [manual EXCEPT ![k] = [pc |-> to, found |-> found]]
      BY <1>0, <1>4, UpdaterAssumption
         DEF ManualStarts, ManualAnswered, ManualFindsNothing, ManualStores, ManualGoes,
             ChecksTypeOK, Known
    <3>. QED
      BY <1>0, <3>1 DEF ChecksTypeOK
  <2>3. pendingUpdate' \in Known
    <3>1. pendingUpdate' = pendingUpdate \/ pendingUpdate' = manual[k].found
      BY <1>4 DEF ManualStarts, ManualAnswered, ManualFindsNothing, ManualStores, ManualGoes, slot
    <3>. QED
      BY <1>0, <3>1 DEF ChecksTypeOK
  <2>. QED
    BY <1>0, <2>1, <2>2, <2>3 DEF ChecksTypeOK
<1>5. CASE UiAnnounces \/ UiOpensMenu \/ UiDismisses \/ UiInstalls \/ UiQuits
  BY <1>0, <1>5 DEF UiAnnounces, UiOpensMenu, UiDismisses, UiInstalls, UiQuits, UiOnly, world,
                    slot, ChecksTypeOK
<1>6. ASSUME NEW i \in Installers, InstallStep(i)
      PROVE  ChecksTypeOK'
  <2>1. UNCHANGED <<world, loop, manual, pendingUpdate, offered, announced>>
    BY <1>6, InstallStepFrame
  <2>. QED
    BY <1>0, <2>1 DEF world, ChecksTypeOK
<1>7. CASE UNCHANGED vars
  BY <1>0, <1>7 DEF vars, world, slot, ChecksTypeOK
<1>. QED
  BY <1>1, <1>2, <1>3, <1>4, <1>5, <1>6, <1>7 DEF Next, LoopStep, Ended

\* Every step keeps the window, its balloon and its menu of their types.
LEMMA ScreenTyped ==
    ASSUME TypeOK, [Next]_vars
    PROVE  ScreenTypeOK'
<1>. USE UpdaterAssumption DEF Known
<1>0. ScreenTypeOK /\ pendingUpdate \in Known
  BY DEF TypeOK, ChecksTypeOK
<1>1. CASE Publish \/ SetAutomatic \/ UNCHANGED vars
  BY <1>0, <1>1 DEF Publish, SetAutomatic, WorldOnly, uiVars, vars, ScreenTypeOK, NoMenu
<1>2. CASE LoopStep
  <2>1. UNCHANGED <<balloon, menu, ui>> /\ (posts' = posts \/ posts' = posts + 1)
    BY <1>2 DEF LoopStep, LoopWakes, LoopIsDevBuild, LoopAnswered, LoopCheckFails, LoopOffers,
                Offers, LoopPosts, LoopGoes, NoOffer
  <2>. QED
    BY <1>0, <2>1 DEF ScreenTypeOK, NoMenu
<1>3. ASSUME NEW k \in Checkers,
             \/ ManualStarts(k) \/ ManualAnswered(k)
             \/ ManualFindsNothing(k) \/ ManualStores(k)
      PROVE  ScreenTypeOK'
  BY <1>0, <1>3 DEF ManualStarts, ManualAnswered, ManualFindsNothing, ManualStores, ManualGoes,
                    uiVars, ScreenTypeOK, NoMenu
<1>4. CASE UiAnnounces
  BY <1>0, <1>4 DEF UiAnnounces, ScreenTypeOK, NoMenu
<1>5. CASE UiOpensMenu
  BY <1>0, <1>5 DEF UiOpensMenu, ScreenTypeOK, NoMenu, NoEntry
<1>6. CASE UiDismisses
  BY <1>0, <1>6 DEF UiDismisses, ScreenTypeOK, NoMenu
<1>7. CASE UiInstalls
  BY <1>0, <1>7 DEF UiInstalls, ScreenTypeOK, NoMenu
<1>8. CASE UiQuits
  BY <1>0, <1>8 DEF UiQuits, ScreenTypeOK, NoMenu
<1>9. ASSUME NEW i \in Installers, InstallStep(i)
      PROVE  ScreenTypeOK'
  <2>1. UNCHANGED <<posts, balloon, menu>> /\ ui' \in {ui, "closing"}
    BY <1>9, InstallStepFrame
  <2>. QED
    BY <1>0, <2>1 DEF ScreenTypeOK, NoMenu
<1>. QED
  BY <1>1, <1>2, <1>3, <1>4, <1>5, <1>6, <1>7, <1>8, <1>9 DEF Next, Ended

\* Every step keeps the install threads, and the installed version, of their types.
LEMMA InstallTyped ==
    ASSUME TypeOK, [Next]_vars
    PROVE  InstallTypeOK'
<1>. USE UpdaterAssumption DEF Known
<1>0. InstallTypeOK /\ pendingUpdate \in Known
  BY DEF TypeOK, ChecksTypeOK
<1>1. CASE UNCHANGED installVars
  BY <1>0, <1>1 DEF installVars, InstallTypeOK
<1>2. ASSUME NEW i \in Installers, OfferInstall(i)
      PROVE  InstallTypeOK'
  BY <1>0, <1>2 DEF OfferInstall, InstallPCs, InstallTypeOK
<1>3. ASSUME NEW i \in Installers, InstallStep(i)
      PROVE  InstallTypeOK'
  <2>1. installer' \in [Installers -> [pc : InstallPCs, update : Known]]
    <3>1. PICK to \in InstallPCs, update \in {0, pendingUpdate, installer[i].update} :
              installer' = [installer EXCEPT ![i] = [pc |-> to, update |-> update]]
      BY <1>3, InstallStepMoves
    <3>2. update \in Known
      BY <1>0 DEF InstallTypeOK
    <3>. QED
      BY <1>0, <3>1, <3>2 DEF InstallTypeOK
  <2>2. onDisk' \in Known
    <3>1. onDisk' \in {onDisk, installer[i].update}
      BY <1>3, InstallStepFrame
    <3>. QED
      BY <1>0, <3>1 DEF InstallTypeOK
  <2>. QED
    BY <2>1, <2>2 DEF InstallTypeOK
<1>. QED
  BY <1>1, <1>2, <1>3, WhoInstalls

\* Type correctness.
THEOREM UpdaterTypeOK == Spec => []TypeOK
<1>1. Init => TypeOK
  <2>. SUFFICES ASSUME Init PROVE TypeOK
    OBVIOUS
  <2>. USE UpdaterAssumption DEF Init, Known, LoopPCs, Versions, InstallPCs
  <2>1. ChecksTypeOK
    BY DEF ChecksTypeOK
  <2>2. ScreenTypeOK
    BY DEF ScreenTypeOK
  <2>3. InstallTypeOK
    BY DEF InstallTypeOK
  <2>. QED
    BY <2>1, <2>2, <2>3 DEF TypeOK
<1>2. TypeOK /\ [Next]_vars => TypeOK'
  BY ChecksTyped, ScreenTyped, InstallTyped DEF TypeOK
<1>. QED
  BY <1>1, <1>2, PTL DEF Spec

\* The guard and the threads it keeps out.
LEMMA GuardInvariant == Spec => []GuardIsHeld
<1>1. Init => GuardIsHeld
  BY DEF Init, GuardIsHeld, AtWork
<1>2. TypeOK /\ GuardIsHeld /\ [Next]_vars => GuardIsHeld'
  <2>. SUFFICES ASSUME TypeOK, GuardIsHeld, [Next]_vars
                PROVE  GuardIsHeld'
    OBVIOUS
  <2>0. installer \in [Installers -> [pc : InstallPCs, update : Known]]
    BY DEF TypeOK, InstallTypeOK
  <2>1. CASE UNCHANGED installVars
    BY <2>1 DEF installVars, GuardIsHeld, AtWork
  <2>2. ASSUME NEW i \in Installers, OfferInstall(i)
        PROVE  GuardIsHeld'
    <3>1. /\ \A j \in Installers : ~AtWork(j)
          /\ installing' = TRUE /\ AtWork(i)'
          /\ \A j \in Installers \ {i} : installer'[j] = installer[j]
      BY <2>0, <2>2 DEF OfferInstall, GuardIsHeld, AtWork
    <3>. QED
      BY <3>1 DEF GuardIsHeld, AtWork
  <2>3. ASSUME NEW i \in Installers, InstallStep(i)
        PROVE  GuardIsHeld'
    <3>1. PICK to \in InstallPCs, update \in {0, pendingUpdate, installer[i].update} :
              /\ installer' = [installer EXCEPT ![i] = [pc |-> to, update |-> update]]
              /\ IF to = "none" THEN installing' = FALSE ELSE installing' = installing
      BY <2>3, InstallStepMoves
    <3>2. /\ installer[i].pc # "none" /\ installer'[i].pc = to
          /\ \A j \in Installers \ {i} : installer'[j] = installer[j] /\ ~AtWork(j)
          /\ installing
      BY <2>0, <2>3, <3>1, InstallStepMoves DEF GuardIsHeld, AtWork
    <3>3. /\ AtWork(i)' <=> to # "none"
          /\ \A j \in Installers \ {i} : ~AtWork(j)'
      BY <3>2 DEF AtWork
    <3>4. installing' <=> to # "none"
      BY <3>1, <3>2
    <3>. QED
      BY <3>3, <3>4 DEF GuardIsHeld
  <2>. QED
    BY <2>1, <2>2, <2>3, WhoInstalls
<1>. QED
  BY <1>1, <1>2, UpdaterTypeOK, PTL DEF Spec

\* What the background check has found, offered and announced only grows.
LEMMA OffersInvariant == Spec => []OffersGrow
<1>1. Init => OffersGrow
  BY DEF Init, OffersGrow
<1>2. TypeOK /\ OffersGrow /\ [Next]_vars => OffersGrow'
  <2>. SUFFICES ASSUME TypeOK, OffersGrow, [Next]_vars
                PROVE  OffersGrow'
    OBVIOUS
  <2>0. /\ loop \in [pc : LoopPCs, found : Known] /\ latest \in Nat /\ offered \in Nat
        /\ loop.found \in Nat /\ \A version \in announced : version \in Nat
    BY UpdaterAssumption DEF TypeOK, ChecksTypeOK, Known, Versions
  <2>1. CASE UNCHANGED <<loop, offered, announced>> /\ (latest' = latest \/ Publish)
    <3>1. latest' = latest \/ latest' = latest + 1
      BY <2>1 DEF Publish
    <3>. QED
      BY <2>0, <2>1, <3>1 DEF OffersGrow
  <2>2. CASE LoopWakes \/ LoopIsDevBuild \/ LoopAnswered \/ LoopCheckFails
    <3>1. /\ UNCHANGED <<latest, offered, announced>>
          /\ \/ loop' \in [pc : {"sleep", "ask", "gone"}, found : {0}]
             \/ loop' \in [pc : {"sleep", "compare"}, found : {latest}]
      BY <2>2 DEF LoopWakes, LoopIsDevBuild, LoopAnswered, LoopCheckFails, LoopGoes, NoOffer,
                  world, slot
    <3>. QED
      BY <2>0, <3>1 DEF OffersGrow
  <2>3. CASE LoopOffers
    <3>1. /\ loop.pc = "compare" /\ UNCHANGED <<latest, announced>>
          /\ \/ /\ loop' = [pc |-> "sleep", found |-> 0] /\ offered' = offered
             \/ /\ loop' = [pc |-> "post", found |-> loop.found] /\ offered' = loop.found
                /\ offered # loop.found
      BY <2>3 DEF LoopOffers, Offers, LoopGoes, NoOffer, world, slot
    <3>. QED
      BY <2>0, <3>1 DEF OffersGrow
  <2>4. CASE LoopPosts
    <3>1. /\ loop.pc = "post" /\ UNCHANGED <<latest, offered>>
          /\ loop' = [pc |-> "sleep", found |-> 0] /\ announced' = announced \cup {loop.found}
      BY <2>4 DEF LoopPosts, LoopGoes, world, slot
    <3>. QED
      BY <2>0, <3>1 DEF OffersGrow
  <2>. QED
    BY <2>1, <2>2, <2>3, <2>4, WhoOffers DEF LoopStep
<1>. QED
  BY <1>1, <1>2, UpdaterTypeOK, PTL DEF Spec

\* The guard is taken exactly while one install thread is at work
\* (updater.c:75, 89, 97, 121, 126).
THEOREM GuardMeansOneInstall == Spec => []GuardIsTheInstaller
<1>1. GuardIsHeld => GuardIsTheInstaller
  <2>. SUFFICES ASSUME GuardIsHeld PROVE GuardIsTheInstaller
    OBVIOUS
  <2>. DEFINE working == {i \in Installers : installer[i].pc # "none"}
  <2>1. CASE installing
    <3>1. PICK i \in Installers : working = {i}
      BY <2>1 DEF GuardIsHeld, AtWork
    <3>. QED
      BY <2>1, <3>1, FS_Singleton DEF GuardIsTheInstaller
  <2>2. CASE ~installing
    <3>1. working = {}
      BY <2>2 DEF GuardIsHeld, AtWork
    <3>. QED
      BY <2>2, <3>1, FS_EmptySet DEF GuardIsTheInstaller
  <2>. QED
    BY <2>1, <2>2
<1>. QED
  BY <1>1, GuardInvariant, PTL

\* While releases only get newer, the background check posts each at most once
\* (updater.c:3-4).
THEOREM NeverAnnouncedTwice == Spec => AnnouncedAtMostOnce
<1>1. TypeOK /\ OffersGrow /\ [Next]_vars =>
          [posts' > posts => loop.found \notin announced]_vars
  <2>. SUFFICES ASSUME TypeOK, OffersGrow, [Next]_vars, posts' > posts
                PROVE  loop.found \notin announced
    OBVIOUS
  <2>1. posts \in Nat
    BY DEF TypeOK, ScreenTypeOK
  <2>2. LoopPosts
    <3>1. CASE LoopStep
      BY <2>1, <3>1 DEF LoopStep, LoopWakes, LoopIsDevBuild, LoopAnswered, LoopCheckFails,
                  LoopOffers, Offers, NoOffer
    <3>2. CASE UiAnnounces \/ UiOpensMenu \/ UiDismisses \/ UiInstalls \/ UiQuits
      BY <2>1, <3>2 DEF UiAnnounces, UiOpensMenu, UiDismisses, UiInstalls, UiQuits
    <3>3. CASE Publish \/ SetAutomatic \/ UNCHANGED vars
      BY <2>1, <3>3 DEF Publish, SetAutomatic, WorldOnly, uiVars, vars
    <3>4. ASSUME NEW k \in Checkers,
                 \/ ManualStarts(k) \/ ManualAnswered(k)
                 \/ ManualFindsNothing(k) \/ ManualStores(k)
          PROVE  FALSE
      BY <2>1, <3>4 DEF ManualStarts, ManualAnswered, ManualFindsNothing, ManualStores,
                        ManualGoes, uiVars
    <3>5. ASSUME NEW i \in Installers, InstallStep(i)
          PROVE  FALSE
      BY <2>1, <3>5 DEF InstallStep, InstallReads, InstallFindsNothing, InstallDeclined,
           InstallAccepted, InstallFails, ErrorDismissed, InstallSucceeds, InstallClears,
           RestartLater, RestartNow, RestartCloses, RestartEnds, InstallEnds, InstallGoesOn, InstallGoes,
           Succeeds
    <3>. QED
      BY <3>1, <3>2, <3>3, <3>4, <3>5 DEF Next, Ended
  <2>3. loop.pc = "post"
    BY <2>2 DEF LoopPosts, LoopGoes
  <2>. QED
    BY <2>3, UpdaterAssumption DEF OffersGrow, TypeOK, ChecksTypeOK, Known, Versions
<1>. QED
  BY <1>1, UpdaterTypeOK, OffersInvariant, PTL DEF Spec, AnnouncedAtMostOnce

\* What comes to the executable's path is the version the user was asked about
\* (updater.c:72, 93).
THEOREM InstalledAsOffered == Spec => InstallsWhatWasOffered
<1>1. [Next]_vars =>
          [onDisk' # onDisk =>
              \E i \in Installers :
                  installer[i].pc = "install" /\ onDisk' = installer[i].update]_vars
  <2>. SUFFICES ASSUME [Next]_vars, onDisk' # onDisk
                PROVE  \E i \in Installers :
                           installer[i].pc = "install" /\ onDisk' = installer[i].update
    OBVIOUS
  <2>1. PICK i \in Installers : InstallStep(i)
    BY WhoInstalls DEF installVars, OfferInstall
  <2>2. InstallSucceeds(i)
    BY <2>1 DEF InstallStep, InstallReads, InstallFindsNothing, InstallDeclined, InstallAccepted,
           InstallFails, ErrorDismissed, InstallClears, RestartLater, RestartNow, RestartCloses,
           RestartEnds, InstallEnds, InstallGoesOn
  <2>. QED
    BY <2>2 DEF InstallSucceeds, Succeeds, InstallGoes
<1>. QED
  BY <1>1, PTL DEF Spec, InstallsWhatWasOffered
===============================================================================
