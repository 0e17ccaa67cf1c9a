-------------------------------- MODULE Answers --------------------------------
(* What the program makes of the text it is answered with: the update server's   *)
(* answer (src/app_update.c), the CLI's output (src/agent_cli.c, src/app.c) and  *)
(* its own settings file (src/settings.c).  Words stand for the keys, for the    *)
(* schemes of a URL and for runs of other text.                                  *)
EXTENDS JsonReader

Available == 300
Version == 301
Url == 302
Size == 303
Sha256 == 304
Ok == 305
Valid == 306
TrackingDisabled == 307
AutomaticUpdatesDisabled == 308
DigestPrefixes == {309, 310}     \* "sha256:" in whatever case
Schemes == {311, 312}            \* "https://" and "http://"
DefaultBaseUrl == <<311, 313>>

-------------------------------------------------------------------------------
\* app_update_check, once the server has answered 200

Failed == [result |-> "failed"]
UpToDate == [result |-> "up to date"]

StringOf(text, key) == CString(AsString(ObjGet(text, key)))

Otherwise(value, none, default) == IF value = none THEN default ELSE value

\* A size that is not a number that fits, or a digest that is not a string, is none.
Offer(text) ==
    [result |-> "available",
     version |-> StringOf(text, Version),
     url |-> StringOf(text, Url),
     size |-> Otherwise(AsU64(ObjGet(text, Size)), NoNumber, 0),
     digest |-> Otherwise(StringOf(text, Sha256), NoString, <<>>)]

IfComplete(offer) ==
    IF offer.version = NoString \/ offer.url \in {NoString, <<>>} THEN Failed ELSE offer

Check(text) ==
    CASE BoolIsTrue(text, Available) -> IfComplete(Offer(text))
      [] ObjGet(text, Available) = <<False>> -> UpToDate
      [] OTHER -> Failed

\* update_normalize_digest
LowerCase(ch) == IF ch \in 65..90 THEN ch + 32 ELSE ch

NormalizeDigest(digest) ==
    LET start == RunEnd(digest, 1, {9, 32})
        rest == SubSeq(digest, start, Len(digest))
        bare == IF At(rest, 1) \in DigestPrefixes THEN Tail(rest) ELSE rest
    IN  [i \in DOMAIN bare |-> LowerCase(bare[i])]

-------------------------------------------------------------------------------
\* run_shared_ok and agent_verify_key, on what the CLI has printed

\* utf8_trim
Trim(text) ==
    LET printed == {i \in DOMAIN text : text[i] \notin Blanks}
    IN  IF printed = {} THEN <<>> ELSE SubSeq(text, Min(printed), Max(printed))

SharedOk(text) == BoolIsTrue(Trim(text), Ok)

Verdict(text) ==
    LET valid == ObjGet(Trim(text), Valid)
    IN  CASE SharedOk(text) /\ valid = <<True>> -> "valid"
          [] SharedOk(text) /\ valid = <<False>> -> "invalid"
          [] OTHER -> "unavailable"

\* agent_base_url: the blanks around the variable go, then its last slashes.
BaseUrl(value) ==
    LET start == RunEnd(value, 1, {9, 32})
        ends == {i \in start..Len(value) : value[i] \notin {9, 32}}
        bare == SubSeq(value, start, IF ends = {} THEN 0 ELSE Max(ends))
        kept == {i \in DOMAIN bare : bare[i] # Slash}
    IN  IF kept = {} THEN DefaultBaseUrl ELSE SubSeq(bare, 1, Max(kept))

\* agent_get_dashboard_url and app_dashboard_target
DashboardTarget(text, value) ==
    IF At(Trim(text), 1) \in Schemes THEN Trim(text) ELSE BaseUrl(value)

-------------------------------------------------------------------------------
\* settings_load and settings_save, on the text of the file

Unreadable == [readable |-> FALSE]

LoadedSettings(text) ==
    IF OpenBrace \notin ToSet(text) THEN Unreadable
    ELSE [readable |-> TRUE,
          tracking_disabled |-> BoolIsTrue(text, TrackingDisabled),
          automatic_updates_disabled |-> BoolIsTrue(text, AutomaticUpdatesDisabled)]

SavedSettings(tracking, automatic) ==
    LET line(key) == <<10, 32, 32, Quote, key, Quote, Colon, 32, True>>
        lines == (IF tracking THEN <<line(TrackingDisabled)>> ELSE <<>>) \o
                 (IF automatic THEN <<line(AutomaticUpdatesDisabled)>> ELSE <<>>)
    IN  CASE Len(lines) = 0 -> <<OpenBrace, CloseBrace, 10>>
          [] Len(lines) = 1 -> <<OpenBrace>> \o lines[1] \o <<10, CloseBrace, 10>>
          [] OTHER -> <<OpenBrace>> \o lines[1] \o <<Comma>> \o lines[2] \o <<10, CloseBrace, 10>>
===============================================================================
