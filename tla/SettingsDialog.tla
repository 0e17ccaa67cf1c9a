---------------------------- MODULE SettingsDialog -----------------------------
(* The API key in the settings dialog (ui/settings_dialog.c): reading it when   *)
(* the dialog opens, saving it when the field loses the focus or the dialog     *)
(* closes, and verifying it on worker threads whose verdicts come back as       *)
(* messages, to a window that may be gone by then.  The dialog opens on a click *)
(* or because the startup check (ui/ui.c) found no key.                         *)
EXTENDS Naturals

CONSTANTS
    Keys,        \* API keys the user has
    ValidKeys,   \* those the server accepts
    NoKey,       \* an empty field, or no key stored
    Verifiers,   \* verify threads, verify_main
    MaxWindows   \* bound: times the dialog is opened

ASSUME SettingsAssumption == ValidKeys \subseteq Keys /\ NoKey \notin Keys

VARIABLES
    stored,      \* the key in the CLI's configuration
    setting,     \* the keys that running "set key" calls of the CLI carry
    startup,     \* startup_check_thread and the message it posted
    window,      \* number of the dialog's window, the last one if it is closed
    dialog,      \* the settings thread; "closed": g_ui.settings_open is 0
    text,        \* the key in the edit field
    lastSaved,   \* last_saved_key
    canVerify,   \* the Verify button is enabled
    status,      \* the verdict shown: the key it is about and what it says
    inbox,       \* verdicts posted to the window and not handled yet
    verifier,    \* verify threads: what they do, for which window and key
    asked,       \* history: the key of the window's last verification
    wanted,      \* history: the key last handed to app_set_api_key
    setFailed    \* history: and that call failed

dialogVars == <<window, dialog, text, lastSaved, canVerify, status, inbox>>
historyVars == <<asked, wanted, setFailed>>
settingsVars == <<stored, setting, startup, dialogVars, verifier, historyVars>>

Texts == Keys \union {NoKey}
Idle == [pc |-> "none", window |-> 0, key |-> NoKey, says |-> "nothing"]
Nothing == [key |-> NoKey, says |-> "nothing"]

DialogInit ==
    /\ stored \in Texts
    /\ setting = {}
    /\ startup = "asking"
    /\ window = 0 /\ dialog = "closed"
    /\ text = NoKey /\ lastSaved = NoKey
    /\ canVerify = TRUE /\ status = Nothing /\ inbox = {}
    /\ verifier = [v \in Verifiers |-> Idle]
    /\ asked = NoKey /\ wanted = stored /\ setFailed = FALSE

-------------------------------------------------------------------------------
\* Opening

\* Steps of the dialog that leave the CLI, the startup check and the window alone.
Here == UNCHANGED <<stored, startup, window>>

\* app_get_api_key: no key, some other trouble, or all is well.
StartupAnswered ==
    /\ startup = "asking"
    /\ startup' \in IF stored = NoKey THEN {"required", "warned"} ELSE {"done", "warned"}
    /\ UNCHANGED <<stored, setting, dialogVars, verifier, historyVars>>

\* ui_open_settings with its guard and its thread.
OpenSettings ==
    /\ dialog = "closed" /\ dialog' = "reading"
    /\ window < MaxWindows /\ window' = window + 1
    /\ UNCHANGED <<text, lastSaved, canVerify, status, inbox>>

\* The user clicks the icon; if the dialog is open nothing happens.
UserOpens ==
    OpenSettings /\ UNCHANGED <<stored, setting, startup, verifier, historyVars>>

\* WM_SETUP_REQUIRED
SetupOpens ==
    /\ startup = "required" /\ startup' = "done"
    /\ OpenSettings \/ UNCHANGED dialogVars
    /\ UNCHANGED <<stored, setting, verifier, historyVars>>

\* settings_dialog_show: the key is read, or not, before the window exists.
DialogShows ==
    /\ dialog = "reading" /\ dialog' = "open"
    /\ text' \in {stored, NoKey} /\ lastSaved' = text'
    /\ canVerify' = TRUE /\ status' = Nothing /\ inbox' = {}
    /\ asked' = NoKey
    /\ Here /\ UNCHANGED <<setting, verifier, wanted, setFailed>>

-------------------------------------------------------------------------------
\* Saving

Type(key) ==
    /\ dialog = "open" /\ text' = key
    /\ Here
    /\ UNCHANGED <<setting, dialog, lastSaved, canVerify, status, inbox, verifier, historyVars>>

Unchanged == text = NoKey \/ text = lastSaved

\* save_key_if_changed, up to the start of the CLI; `blocked` is where the dialog
\* thread waits for it.
SaveKey(blocked) ==
    /\ dialog = "open" /\ dialog' = blocked
    /\ ~Unchanged
    /\ lastSaved' = text /\ setting' = setting \union {text}
    /\ wanted' = text /\ setFailed' = FALSE
    /\ Here /\ UNCHANGED <<text, canVerify, status, inbox, verifier, asked>>

\* EN_KILLFOCUS
FocusLeaves == SaveKey("saving")

\* Esc or the close button
CloseSaving == SaveKey("savingLast")

DialogGoes(from, to) ==
    /\ dialog = from /\ dialog' = to
    /\ Here
    /\ UNCHANGED <<setting, text, lastSaved, canVerify, status, inbox, verifier, historyVars>>

CloseAtOnce == Unchanged /\ DialogGoes("open", "destroyed")

\* The CLI: "set key" stores the key, or fails, or is killed at its timeout
\* before or after it did.
CliSets(key) ==
    /\ key \in setting /\ setting' = setting \ {key}
    /\ \/ stored' = key /\ UNCHANGED setFailed
       \/ stored' \in {stored, key} /\ setFailed' = TRUE
    /\ UNCHANGED <<startup, dialogVars, verifier, asked, wanted>>

\* Fire and forget: the dialog does not wait for the CLI.
SaveReturns_AtOnce ==
    DialogGoes("saving", "open") \/ DialogGoes("savingLast", "destroyed")

\* app_set_api_key returns; a failure is not looked at and not retried.
SaveReturns ==
    /\ setting = {}
    /\ DialogGoes("saving", "open") \/ DialogGoes("savingLast", "destroyed")

\* The message loop ends, settings_thread lets the dialog be opened again.
DialogEnds == DialogGoes("destroyed", "closed")

-------------------------------------------------------------------------------
\* Verifying

Asking(v) ==
    verifier' = [verifier EXCEPT ![v] =
        [pc |-> "ask", window |-> window, key |-> text, says |-> "nothing"]]

VerifyClicked(v) ==
    /\ dialog = "open" /\ canVerify /\ text # NoKey /\ verifier[v].pc = "none"
    /\ status' = Nothing
    /\ Here /\ UNCHANGED <<setting, dialog, text, lastSaved, inbox, wanted, setFailed>>

\* The button stays enabled while the verdict is awaited.
StartVerify_Enabled(v) ==
    VerifyClicked(v) /\ Asking(v) /\ asked' = text /\ UNCHANGED canVerify

\* start_verify: the thread gets its own copy of the key.  If it cannot be created
\* the button is enabled again at once.
StartVerify(v) ==
    /\ VerifyClicked(v)
    /\ \/ Asking(v) /\ canVerify' = FALSE /\ asked' = text
       \/ UNCHANGED <<verifier, canVerify, asked>>

\* agent_verify_key: a definite answer, or none.
VerifyAnswered(v) ==
    /\ verifier[v].pc = "ask"
    /\ \E says \in {IF verifier[v].key \in ValidKeys THEN "valid" ELSE "invalid",
                    "unavailable"} :
           verifier' = [verifier EXCEPT ![v].pc = "post", ![v].says = says]
    /\ UNCHANGED <<stored, setting, startup, dialogVars, historyVars>>

\* A message to a window that is gone goes nowhere.
VerifyPosts(v) ==
    /\ verifier[v].pc = "post" /\ verifier' = [verifier EXCEPT ![v] = Idle]
    /\ inbox' =
           IF verifier[v].window = window /\ dialog \in {"open", "saving", "savingLast"}
           THEN inbox \union {[key |-> verifier[v].key, says |-> verifier[v].says]}
           ELSE inbox
    /\ Here /\ UNCHANGED <<setting, dialog, text, lastSaved, canVerify, status, historyVars>>

\* WM_VERIFY_RESULT, handled when the dialog thread is not saving.
DialogShowsVerdict ==
    /\ dialog = "open"
    /\ \E verdict \in inbox : status' = verdict /\ inbox' = inbox \ {verdict}
    /\ canVerify' = TRUE
    /\ Here /\ UNCHANGED <<setting, dialog, text, lastSaved, verifier, historyVars>>

-------------------------------------------------------------------------------
\* The dialog has been opened as often as the bound allows.
DialogAtRest ==
    /\ dialog = "closed"
    /\ UNCHANGED settingsVars

DialogNext ==
    \/ StartupAnswered \/ UserOpens \/ SetupOpens \/ DialogShows
    \/ \E key \in Texts : Type(key)
    \/ FocusLeaves \/ CloseSaving \/ CloseAtOnce
    \/ \E key \in Keys : CliSets(key)
    \/ SaveReturns \/ DialogEnds
    \/ \E v \in Verifiers : StartVerify(v) \/ VerifyAnswered(v) \/ VerifyPosts(v)
    \/ DialogShowsVerdict
    \/ DialogAtRest

DialogSpec == DialogInit /\ [][DialogNext]_settingsVars

-------------------------------------------------------------------------------
\* Properties

\* The keys are stored in the order they were entered: whenever no save is
\* running, the CLI holds the key that was saved last, unless that save failed
\* (settings_dialog.c:280-283).
StoredIsLastSaved == setting = {} /\ ~setFailed => stored = wanted

\* A verdict on the screen is about the key that was last sent to be verified
\* from this very window, however slow an earlier verification was and whichever
\* dialogs were closed meanwhile; and it is the server's answer.
VerdictIsTheLastAsked ==
    dialog = "open" /\ status # Nothing =>
        /\ status.key = asked
        /\ status.says = "valid" => asked \in ValidKeys
        /\ status.says = "invalid" => asked \notin ValidKeys
===============================================================================
