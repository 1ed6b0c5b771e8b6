------------------------------ MODULE Settings ------------------------------
(***************************************************************************)
(* The settings document.  AdminService, WalletService and ReferralService *)
(* each look for it with findOne and create it when there is none;         *)
(* AdminService.updateSettings saves the fields an admin sends.  findOne   *)
(* answers the document inserted first.                                    *)
(***************************************************************************)
EXTENDS Naturals, Sequences

CONSTANTS
    Fields,         \* dailyProfitRate, signupReferralBonus, ...
    Values,
    SchemaDefaults, \* what the schema, AdminService and WalletService give
    ConfigDefaults, \* what ReferralService gives: the configuration
    Clerks          \* requests that may be in flight

ASSUME SettingsAssumption ==
    /\ SchemaDefaults \in [Fields -> Values]
    /\ ConfigDefaults \in [Fields -> Values]

VARIABLES
    settings,       \* the documents, in the order of their insertion
    desk,           \* what each request is doing
    latest,         \* history: the value last given to each field by an update
                    \*   that was carried out, or by the first creation
    lost            \* history: fields whose latest value is not in force

settingVars == <<settings, desk, latest, lost>>

Document == [Fields -> Values]

\* A PATCH body: values for some of the fields.
Bodies == UNION {[F -> Values] : F \in SUBSET Fields \ {{}}}

NoDesk == [at |-> "none", copy |-> SchemaDefaults, body |-> <<>>]

SettingsInit ==
    /\ settings \in {<<>>, <<SchemaDefaults>>}
    /\ desk = [d \in Clerks |-> NoDesk]
    /\ latest = SchemaDefaults
    /\ lost = {}

\* d takes the fields it has from b, and the others from a.
Merge(a, b) == [f \in Fields |-> IF f \in DOMAIN b THEN b[f] ELSE a[f]]

\* What every service works with.
InForce == settings[1]

-----------------------------------------------------------------------------
Writing(d, step) == desk[d].at = step

\* findOne finds none, and the request goes on to create one.
FindNone(d, defaults) ==
    /\ desk[d] = NoDesk
    /\ settings = <<>>
    /\ desk' = [desk EXCEPT ![d] = [at |-> "create", copy |-> defaults, body |-> <<>>]]
    /\ UNCHANGED <<settings, latest, lost>>

\* getSettings of the three services, each with its own defaults.
AdminGetSettings(d) == FindNone(d, SchemaDefaults)

WalletGetSettings(d) == FindNone(d, SchemaDefaults)

ReferralGetSettings(d) == FindNone(d, ConfigDefaults)

\* updateSettings: findOne.
UpdateFind(d) ==
    /\ desk[d] = NoDesk
    /\ \E b \in Bodies :
          desk' = [desk EXCEPT ![d] =
              IF settings = <<>>
                THEN [at |-> "create", copy |-> SchemaDefaults, body |-> b]
                ELSE [at |-> "save", copy |-> InForce, body |-> b]]
    /\ UNCHANGED <<settings, latest, lost>>

\* create(updates), with the schema's defaults for the rest.  A document that
\* is not the first is never read again.
Create(d) ==
    LET b == desk[d].body
        doc == Merge(desk[d].copy, b)
    IN  /\ Writing(d, "create")
        /\ settings' = Append(settings, doc)
        /\ IF settings = <<>>
             THEN latest' = doc /\ UNCHANGED lost
             ELSE /\ latest' = Merge(latest, b)
                  /\ lost' = lost \cup DOMAIN b
        /\ desk' = [desk EXCEPT ![d] = NoDesk]

\* Mutant of UpdateSave: the document is saved as it was read, the admin's
\* fields in it.
UpdateSaveWhole(d) ==
    /\ Writing(d, "save")
    /\ settings' = [settings EXCEPT ![1] = Merge(desk[d].copy, desk[d].body)]
    /\ latest' = Merge(latest, desk[d].body)
    /\ desk' = [desk EXCEPT ![d] = NoDesk]
    /\ UNCHANGED lost

\* Object.assign and save: only the fields that differ from the copy are sent,
\* so a field that is set to what the copy said is left as it is by now.
UpdateSave(d) ==
    LET b == desk[d].body
        sent == {f \in DOMAIN b : b[f] # desk[d].copy[f]}
    IN  /\ Writing(d, "save")
        /\ settings' = [settings EXCEPT ![1] = Merge(@, [f \in sent |-> b[f]])]
        /\ latest' = Merge(latest, b)
        /\ lost' = (lost \ DOMAIN b) \cup {f \in DOMAIN b \ sent : InForce[f] # b[f]}
        /\ desk' = [desk EXCEPT ![d] = NoDesk]

\* The request breaks off.
DropDesk(d) ==
    /\ desk[d] # NoDesk
    /\ desk' = [desk EXCEPT ![d] = NoDesk]
    /\ UNCHANGED <<settings, latest, lost>>

SettingsNext ==
    \E d \in Clerks :
        \/ AdminGetSettings(d) \/ WalletGetSettings(d) \/ ReferralGetSettings(d)
        \/ UpdateFind(d) \/ Create(d) \/ UpdateSave(d) \/ DropDesk(d)

SettingsSpec == SettingsInit /\ [][SettingsNext]_settingVars
-----------------------------------------------------------------------------
\* Type invariant: documents and requests.
SettingsTypeOK ==
    /\ settings \in Seq(Document)
    /\ desk \in [Clerks -> [at : {"none", "create", "save"}, copy : Document,
                            body : Bodies \cup {<<>>}]]
    /\ latest \in Document
    /\ lost \in SUBSET Fields

\* Whatever two admins and the first readers do at once, each field in force
\* has the value an update gave it last, unless that update created a
\* second document, or set the field to what it had read while somebody else
\* changed it.
LatestInForce ==
    settings # <<>> =>
        \A f \in Fields \ lost : InForce[f] = latest[f]
=============================================================================
