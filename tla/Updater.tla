------------------------------- MODULE Updater --------------------------------
(* Update announcements and the install flow of the front end: the background
   check of ui/updater.c, the manual check of the settings dialog, the shared
   pending slot, the balloon and the menu that lead to an install, the install
   thread with its re-entry guard, and the restart it may ask for.  The install
   itself, one step here, is SelfUpdate. *)
EXTENDS Naturals, FiniteSets

CONSTANTS
    Checkers,      \* workers of manual checks, check_main
    Installers,    \* install threads, install_main
    MaxVersion     \* bound: releases the server publishes in a session

ASSUME UpdaterAssumption == MaxVersion \in Nat \ {0}

VARIABLES
    release,       \* this build has an x.y.z version, it is not a dev build
    latest,        \* newest release the server publishes; 0: what is running
    automatic,     \* app_automatic_updates_enabled
    loop,          \* updater_main: what it does and the version it found
    manual,        \* the manual checks: what each does and what it found
    pendingUpdate, \* g_ui.pending_update, its version
    hasPending,    \* g_ui.has_pending_update
    offered,       \* g_ui.offered_version
    announced,     \* versions the background check has posted
    posts,         \* WM_UPDATE_AVAILABLE messages in the queue
    balloon,       \* version the last balloon named, 0 when it is gone
    menu,          \* version of the open menu's install entry; NoMenu, NoEntry
    installing,    \* g_ui.installing
    installer,     \* the install threads: where each is, the update it copied
    onDisk,        \* version at the executable's path
    restart,       \* g_ui.restart_requested
    ui             \* the message loop: running, closing (WM_CLOSE posted), gone

slot == <<pendingUpdate, hasPending, offered>>
uiVars == <<posts, balloon, menu, ui, restart>>
installVars == <<installing, installer, onDisk>>
world == <<release, latest, automatic>>
vars == <<world, loop, manual, slot, announced, uiVars, installVars>>

Versions == 1..MaxVersion
NoMenu == MaxVersion + 1
NoEntry == 0
InstallPCs ==
    {"none", "read", "offer", "install", "failed", "clear", "choose", "close", "end"}

Init ==
    /\ release \in BOOLEAN
    /\ latest = 0
    /\ automatic \in BOOLEAN
    /\ loop = [pc |-> "sleep", found |-> 0]
    /\ manual = [k \in Checkers |-> [pc |-> "none", found |-> 0]]
    /\ pendingUpdate = 0 /\ hasPending = FALSE /\ offered = 0
    /\ announced = {}
    /\ posts = 0 /\ balloon = 0 /\ menu = NoMenu
    /\ installing = FALSE
    /\ installer = [i \in Installers |-> [pc |-> "none", update |-> 0]]
    /\ onDisk = 0
    /\ restart = FALSE
    /\ ui = "running"

\* The process runs: its threads can take steps.
Up == ui # "gone"

-------------------------------------------------------------------------------
\* The server publishes a release; the user changes the automatic updates.
WorldOnly == Up /\ UNCHANGED <<release, loop, manual, slot, announced, uiVars, installVars>>

Publish == WorldOnly /\ latest < MaxVersion /\ latest' = latest + 1 /\ UNCHANGED automatic

SetAutomatic == WorldOnly /\ automatic' = ~automatic /\ UNCHANGED latest

-------------------------------------------------------------------------------
\* updater_main and check_once

LoopGoes(from, to, found) ==
    /\ Up /\ loop.pc = from /\ loop' = [pc |-> to, found |-> found]
    /\ UNCHANGED <<world, manual, balloon, menu, ui, restart, installVars>>

\* The loop neither offers nor posts.
NoOffer == UNCHANGED <<slot, posts, announced>>

\* The loop takes "off" for a reason to end.
LoopWakes_OffEnds == LoopGoes("sleep", IF automatic THEN "ask" ELSE "gone", 0) /\ NoOffer

\* A sleep has ended: check when automatic updates are on, else sleep again.
LoopWakes == LoopGoes("sleep", IF automatic THEN "ask" ELSE "sleep", 0) /\ NoOffer

\* A dev build ends the loop before it asks the server.
LoopIsDevBuild == ~release /\ LoopGoes("ask", "gone", 0) /\ NoOffer

LoopAnswered ==
    release /\ LoopGoes("ask", IF latest > 0 THEN "compare" ELSE "sleep", latest) /\ NoOffer

LoopCheckFails == release /\ LoopGoes("ask", "sleep", 0) /\ NoOffer

Offers(known) ==
    IF known = loop.found
    THEN LoopGoes("compare", "sleep", 0) /\ NoOffer
    ELSE /\ LoopGoes("compare", "post", loop.found)
         /\ pendingUpdate' = loop.found /\ hasPending' = TRUE /\ offered' = loop.found
         /\ UNCHANGED <<posts, announced>>

\* Tells a new version by the slot, which the manual check writes too.
LoopOffers_ComparingSlot == Offers(pendingUpdate)

LoopOffers == Offers(offered)

LoopPosts ==
    /\ LoopGoes("post", "sleep", 0)
    /\ posts' = posts + 1 /\ announced' = announced \union {loop.found}
    /\ UNCHANGED slot

LoopStep ==
    LoopWakes \/ LoopIsDevBuild \/ LoopAnswered \/ LoopCheckFails \/ LoopOffers \/ LoopPosts

-------------------------------------------------------------------------------
\* check_main, the worker of the dialog's "Check for Updates"

ManualGoes(k, from, to, found) ==
    /\ Up /\ manual[k].pc = from
    /\ manual' = [manual EXCEPT ![k] = [pc |-> to, found |-> found]]
    /\ UNCHANGED <<world, loop, offered, announced, uiVars, installVars>>

ManualStarts(k) == ManualGoes(k, "none", "ask", 0) /\ UNCHANGED slot

ManualAnswered(k) ==
    ManualGoes(k, "ask", "store", latest) /\ release /\ latest > 0 /\ UNCHANGED slot

\* Up to date, a dev build or a failed check.
ManualFindsNothing(k) == ManualGoes(k, "ask", "none", 0) /\ UNCHANGED slot

ManualStores(k) ==
    /\ ManualGoes(k, "store", "none", 0)
    /\ pendingUpdate' = manual[k].found /\ hasPending' = TRUE

-------------------------------------------------------------------------------
\* The UI thread

UiOnly == UNCHANGED <<world, loop, manual, slot, announced, restart>>

\* The balloon names what the slot holds when the message is handled.
UiAnnounces ==
    /\ Up /\ posts > 0 /\ posts' = posts - 1
    /\ balloon' = pendingUpdate
    /\ UiOnly /\ UNCHANGED <<menu, ui, installVars>>

UiOpensMenu ==
    /\ Up /\ menu = NoMenu
    /\ menu' = IF hasPending THEN pendingUpdate ELSE NoEntry
    /\ UiOnly /\ UNCHANGED <<posts, balloon, ui, installVars>>

UiDismisses ==
    /\ Up /\ menu # NoMenu /\ menu' = NoMenu
    /\ UiOnly /\ UNCHANGED <<posts, balloon, ui, installVars>>

\* updater_offer_install with its thread created.
OfferInstall(i) ==
    /\ installer[i].pc = "none"
    /\ ~installing /\ installing' = TRUE
    /\ installer' = [installer EXCEPT ![i].pc = "read"]
    /\ UNCHANGED onDisk

\* The guard is taken, or the thread cannot be created.
OfferIgnored == UNCHANGED installVars

UiInstalls ==
    /\ Up
    /\ \/ balloon # 0 /\ balloon' = 0 /\ UNCHANGED menu
       \/ menu \in Versions /\ menu' = NoMenu /\ UNCHANGED balloon
    /\ OfferIgnored \/ \E i \in Installers : OfferInstall(i)
    /\ UiOnly /\ UNCHANGED <<posts, ui>>

\* The menu's Quit, or the WM_CLOSE of a restart, ends the message loop.
UiQuits ==
    /\ ui = "closing" \/ (Up /\ menu # NoMenu)
    /\ ui' = "gone"
    /\ UiOnly /\ UNCHANGED <<posts, balloon, menu, installVars>>

-------------------------------------------------------------------------------
\* install_main

InstallGoes(i, from, to, update) ==
    /\ Up /\ installer[i].pc = from
    /\ installer' = [installer EXCEPT ![i] = [pc |-> to, update |-> update]]
    /\ UNCHANGED <<world, loop, manual, pendingUpdate, offered, announced, posts, balloon, menu>>

\* A step that goes on with the update and changes nothing that is shared.
InstallGoesOn(i, from, to) ==
    /\ InstallGoes(i, from, to, installer[i].update)
    /\ UNCHANGED <<hasPending, ui, restart, installing, onDisk>>

\* The thread ends and gives the guard back.
InstallEnds(i, from) ==
    /\ InstallGoes(i, from, "none", 0)
    /\ installing' = FALSE
    /\ UNCHANGED <<hasPending, ui, restart, onDisk>>

InstallReads(i) ==
    /\ hasPending /\ InstallGoes(i, "read", "offer", pendingUpdate)
    /\ UNCHANGED <<hasPending, ui, restart, installing, onDisk>>

\* Returns at once, as any other early return does.
InstallFindsNothing_KeepingGuard(i) ==
    /\ ~hasPending /\ InstallGoes(i, "read", "none", 0)
    /\ UNCHANGED <<hasPending, ui, restart, installing, onDisk>>

\* The menu was open, or the balloon shown, while the update was installed.
InstallFindsNothing(i) == ~hasPending /\ InstallEnds(i, "read")

InstallDeclined(i) == InstallEnds(i, "offer")
InstallAccepted(i) == InstallGoesOn(i, "offer", "install")
InstallFails(i) == InstallGoesOn(i, "install", "failed")
ErrorDismissed(i) == InstallEnds(i, "failed")

Succeeds(i, version) ==
    /\ InstallGoes(i, "install", "clear", installer[i].update)
    /\ onDisk = 0 /\ onDisk' = version
    /\ UNCHANGED <<hasPending, ui, restart, installing>>

\* Installs from the slot, not from the copy that was offered.
InstallSucceeds_FromSlot(i) == Succeeds(i, pendingUpdate)

\* Only one install of a process succeeds: afterwards the file it would move the
\* executable to is the running image (SelfUpdate).
InstallSucceeds(i) == Succeeds(i, installer[i].update)

InstallClears(i) ==
    /\ InstallGoes(i, "clear", "choose", installer[i].update)
    /\ hasPending' = FALSE
    /\ UNCHANGED <<ui, restart, installing, onDisk>>

RestartLater(i) == InstallEnds(i, "choose")

RestartNow(i) ==
    /\ InstallGoes(i, "choose", "close", installer[i].update)
    /\ restart' = TRUE
    /\ UNCHANGED <<hasPending, ui, installing, onDisk>>

RestartCloses(i) ==
    /\ InstallGoes(i, "close", "end", installer[i].update)
    /\ ui' = "closing"
    /\ UNCHANGED <<hasPending, restart, installing, onDisk>>

RestartEnds(i) == InstallEnds(i, "end")

InstallStep(i) ==
    \/ InstallReads(i) \/ InstallFindsNothing(i)
    \/ InstallDeclined(i) \/ InstallAccepted(i)
    \/ InstallFails(i) \/ ErrorDismissed(i)
    \/ InstallSucceeds(i) \/ InstallClears(i)
    \/ RestartLater(i) \/ RestartNow(i) \/ RestartCloses(i) \/ RestartEnds(i)

-------------------------------------------------------------------------------
Ended == ~Up /\ UNCHANGED vars

Next ==
    \/ Publish \/ SetAutomatic \/ LoopStep
    \/ \E k \in Checkers :
           ManualStarts(k) \/ ManualAnswered(k) \/ ManualFindsNothing(k) \/ ManualStores(k)
    \/ UiAnnounces \/ UiOpensMenu \/ UiDismisses \/ UiInstalls \/ UiQuits
    \/ \E i \in Installers : InstallStep(i)
    \/ Ended

\* Sleeps end and requests are bounded by their timeouts; checks that are made
\* again and again do not fail for ever; the message loop pumps; the user
\* answers the dialogs.  Nothing makes the server publish or the user act
\* otherwise.
Fairness ==
    /\ WF_vars(LoopStep)
    /\ SF_vars(LoopAnswered)
    /\ WF_vars(UiAnnounces)
    /\ WF_vars(ui = "closing" /\ UiQuits)
    /\ \A i \in Installers : WF_vars(InstallStep(i))

Spec == Init /\ [][Next]_vars /\ Fairness

-------------------------------------------------------------------------------
\* Properties

\* The guard is taken exactly while one install thread is at work: two clicks
\* never start two installs, and no early return leaves later clicks without
\* effect (updater.c:75, 89, 97, 121, 126).
GuardIsTheInstaller ==
    Cardinality({i \in Installers : installer[i].pc # "none"}) =
        IF installing THEN 1 ELSE 0

\* What comes to the executable's path is the version the user was asked about,
\* whatever the checks have put into the slot since (updater.c:72, 93).
InstallsWhatWasOffered ==
    [][onDisk' # onDisk =>
        \E i \in Installers : installer[i].pc = "install" /\ onDisk' = installer[i].update]_vars

\* While releases only get newer, the background check announces each at most
\* once, whatever manual checks store in between (updater.c:3-4).
AnnouncedAtMostOnce ==
    [][posts' > posts => loop.found \notin announced]_vars

\* A release that stays the newest is announced when automatic updates are on
\* from some time on, however often they were off before (updater.c:1-3).
NewestIsAnnounced ==
    \A v \in Versions :
        <>[](release /\ automatic /\ latest = v /\ Up) => <>(v \in announced)

\* An update that was announced can be installed from the menu, until it or a
\* newer one is on disk (settings_dialog.c:349-351).
AnnouncedHasInstallPath ==
    Up /\ ~installing => \A v \in announced : v > onDisk => hasPending
===============================================================================
