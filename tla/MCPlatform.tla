----------------------------- MODULE MCPlatform -----------------------------
(***************************************************************************)
(* The components that share nothing with each other, each on a small      *)
(* instance: the daily profit over days, the rate limit, the caches, the   *)
(* files, the settings, the listings and the accounts.  A behaviour is one *)
(* of the component in `focus`, with the others at rest: their product     *)
(* would only add the interleavings of steps that cannot interfere.        *)
(***************************************************************************)
EXTENDS DailyProfit, RateLimit, Caches, Files, Settings, Listing, Accounts

CONSTANTS r1, r2, i1, i2, rate, bonus

VARIABLE focus

MCInstanceOf == [r \in {r1, r2} |-> IF r = r1 THEN i1 ELSE i2]

MCSchemaDefaults == [f \in {rate, bonus} |-> 0]
MCConfigDefaults == [f \in {rate, bonus} |-> IF f = rate THEN 1 ELSE 0]

MCVars == <<vars, rateVars, cacheVars, fileVars, settingVars, listingVars, accountVars, focus>>

\* One initial state for each component at rest.
MCRest ==
    /\ focus # "files" => enabled
    /\ focus # "settings" => settings = <<>>
    /\ focus # "listing" => listed = {} /\ walk.limit = 1 /\ walk.ascending

MCInit ==
    /\ focus \in {"daily", "rate", "caches", "files", "settings", "listing", "accounts"}
    /\ Init /\ RateInit /\ CacheInit /\ FileInit /\ SettingsInit /\ ListingInit /\ AccountsInit
    /\ MCRest

DailyFocus ==
    /\ focus = "daily"
    /\ Next
    /\ UNCHANGED <<rateVars, cacheVars, fileVars, settingVars, listingVars, accountVars, focus>>

RateFocus ==
    /\ focus = "rate"
    /\ RateNext
    /\ UNCHANGED <<vars, cacheVars, fileVars, settingVars, listingVars, accountVars, focus>>

CachesFocus ==
    /\ focus = "caches"
    /\ CacheNext
    /\ UNCHANGED <<vars, rateVars, fileVars, settingVars, listingVars, accountVars, focus>>

FilesFocus ==
    /\ focus = "files"
    /\ FilesNext
    /\ UNCHANGED <<vars, rateVars, cacheVars, settingVars, listingVars, accountVars, focus>>

SettingsFocus ==
    /\ focus = "settings"
    /\ SettingsNext
    /\ UNCHANGED <<vars, rateVars, cacheVars, fileVars, listingVars, accountVars, focus>>

ListingFocus ==
    /\ focus = "listing"
    /\ ListingNext
    /\ UNCHANGED <<vars, rateVars, cacheVars, fileVars, settingVars, accountVars, focus>>

AccountsFocus ==
    /\ focus = "accounts"
    /\ AccountsNext
    /\ UNCHANGED <<vars, rateVars, cacheVars, fileVars, settingVars, listingVars, focus>>

MCNext ==
    \/ DailyFocus
    \/ RateFocus
    \/ CachesFocus
    \/ FilesFocus
    \/ SettingsFocus
    \/ ListingFocus
    \/ AccountsFocus

\* The fairness of each component, for the behaviours it is in focus.
MCSpec ==
    /\ MCInit
    /\ [][MCNext]_MCVars
    /\ WF_vars(focus = "daily" /\ Tick)
    /\ \A r \in Requests : WF_vars(focus = "daily" /\ Claim(r))
    /\ RateFairness
    /\ CacheFairness

\* Type invariant: that of every component.
PlatformTypeOK ==
    /\ TypeOK
    /\ RateTypeOK
    /\ CacheTypeOK
    /\ FilesTypeOK
    /\ SettingsTypeOK
    /\ ListingTypeOK
    /\ AccountsTypeOK
=============================================================================
