--------------------------- MODULE GatewayAccounts ---------------------------
(***************************************************************************)
(* The gateway's configuration, users and login sessions                   *)
(* (ConfigurationStore.cpp, UserManagement.cpp, AuthenticationService.cpp  *)
(* and the web handlers that change them).                                 *)
(*                                                                         *)
(* Web handlers run one after another in one task.  Any save can fail, and *)
(* the gateway can restart between any two saves; initial setup makes      *)
(* three of them, so it is three steps.  A session remembers the user as   *)
(* of the login.  Time is the order of last use: sessions are listed with  *)
(* the longest unused first, the one that expires and is evicted first.    *)
(***************************************************************************)
EXTENDS DualSlotStore, SequencesExt

CONSTANTS
  Name,         \* user names
  Key,          \* installation keys
  NoKey,        \* secrets that hold no installation key yet
  Setting,      \* settings
  Defaults,     \* defaultSettings()
  MaxUserId,    \* UINT32_MAX, as a user ID
  MaxTokenId,   \* UINT32_MAX, as a token ID
  MaximumUsers,
  MaximumSessions,
  MaxKeyGeneration  \* bound: no reset of the network saves past this generation

ASSUME KeyAssumption == NoKey \notin Key
ASSUME DefaultsAssumption == Defaults \in Setting
ASSUME LimitsAssumption ==
  /\ MaxUserId \in Nat \ {0, 1} /\ MaxTokenId \in Nat \ {0, 1}
  /\ MaximumUsers \in Nat \ {0} /\ MaximumSessions \in Nat \ {0}

VARIABLES
  secrets, settings, accounts,  \* the three stores
  ready,     \* initialized: every store was loaded
  radioKey,  \* the key the radio runs with, or NoKey
  network,   \* since the boot, a reset of the radio network saved a key
             \* ("renewed") or reported that it could not ("doubtful")
  sessions,  \* login sessions, longest unused first
  window,    \* the physical setup window is open
  setup      \* handleInitialSetup(): what it still has to save

radioVars == <<radioKey, network>>

vars == <<secrets, settings, accounts, ready, radioVars, sessions, window, setup>>

Role == {"Admin", "Viewer"}
UserId == 1 .. MaxUserId
User == [id : UserId, name : Name, role : Role, enabled : BOOLEAN]
Accounts == [users : SUBSET User, nextUserId : 0 .. MaxUserId,
             tokens : SUBSET (1 .. MaxTokenId), nextTokenId : 0 .. MaxTokenId]
NoAccounts == [users |-> {}, nextUserId |-> 0, tokens |-> {}, nextTokenId |-> 0]
Session == [user : UserId, name : Name, role : Role]

HasEnabledAdmin(users) == \E user \in users : user.enabled /\ user.role = "Admin"

ASSUME MarksAssumption ==
  MarksApart(Key \cup {NoKey}) /\ MarksApart(Setting) /\ MarksApart(Accounts)

\* validateAuthentication(): other values are neither saved nor loaded.
ValidAccounts(value) ==
  /\ value \in Accounts
  /\ Cardinality(value.users) <= MaximumUsers
  /\ \A u, v \in value.users : u # v => u.id # v.id /\ u.name # v.name
  /\ value.users # {} => HasEnabledAdmin(value.users)
  /\ \A user \in value.users : user.id < value.nextUserId
  /\ \A id \in value.tokens : id < value.nextTokenId

NoSetup == [stage |-> "none"]

TypeOK ==
  /\ secrets \in StoreOf(Key \cup {NoKey})
  /\ settings \in StoreOf(Setting)
  /\ \A slot \in Slot : LET content == accounts.slots[slot] IN
       Decodes(content) => ValidAccounts(content.value)
  /\ ready \in BOOLEAN
  /\ radioKey \in Key \cup {NoKey}
  /\ network \in {"kept", "renewed", "doubtful"}
  /\ sessions \in Seq(Session) /\ Len(sessions) <= MaximumSessions
  /\ window \in BOOLEAN
  /\ setup.stage \in {"none", "secrets", "settings", "accounts"}

Erased == [s \in Slot |-> Missing]

\* begin() of the stores, the radio and the sessions.  Secrets that were never
\* saved are bootstrapped, without an installation key.
Boot(secretSlots, settingSlots, accountSlots) ==
  LET found == Load(secretSlots, NoKey) IN
  /\ ready' = ~(IsCorrupt(secretSlots) \/ IsCorrupt(settingSlots) \/ IsCorrupt(accountSlots))
  /\ secrets' = IF LoadsNothing(secretSlots) /\ ready' THEN Saved(found, NoKey) ELSE found
  /\ settings' = Load(settingSlots, Defaults)
  /\ accounts' = Load(accountSlots, NoAccounts)
  /\ radioKey' = IF ready' THEN secrets'.value ELSE NoKey
  /\ network' = "kept"
  /\ sessions' = << >>
  /\ window' = FALSE
  /\ setup' = NoSetup

\* The first boot of a gateway.
Init ==
  /\ secrets = Saved(Load(Erased, NoKey), NoKey)
  /\ settings = Load(Erased, Defaults)
  /\ accounts = Load(Erased, NoAccounts)
  /\ ready = TRUE
  /\ radioKey = NoKey
  /\ network = "kept"
  /\ sessions = << >>
  /\ window = FALSE
  /\ setup = NoSetup

Users == accounts.value.users
SetupRequired == Users = {}

\* No handler is between two of its saves.
WebIdle == ready /\ setup.stage = "none"

-----------------------------------------------------------------------------
(* Initial setup *)

\* A short press of the button, with no handler holding the recovery guard.
ToggleSetup ==
  /\ WebIdle
  /\ SetupRequired
  /\ window' = ~window
  /\ UNCHANGED <<secrets, settings, accounts, ready, radioVars, sessions, setup>>

\* GatewayStatus loop() closes the window when its time is up.
SetupExpires ==
  /\ window
  /\ window' = FALSE
  /\ UNCHANGED <<secrets, settings, accounts, ready, radioVars, sessions, setup>>

\* POST /setup: a key that an earlier attempt saved is kept.
BeginSetup(name, key, setting) ==
  /\ WebIdle
  /\ SetupRequired /\ window
  /\ secrets.value # NoKey => key = secrets.value
  /\ setup' = [stage |-> "secrets", name |-> name, key |-> key, settings |-> setting]
  /\ UNCHANGED <<secrets, settings, accounts, ready, radioVars, sessions, window>>

\* Mutant: setup goes on whether the value was saved or not.
SetupSavesUnchecked(store, value, next) ==
  /\ store' \in IF store.value = value THEN {store}
                ELSE {Saved(store, value)} \cup NotSaved(store, value)
  /\ setup' = [setup EXCEPT !.stage = next]

\* A save in the middle of setup: it goes on if the value is saved or no change.
SetupSaves(store, value, next) ==
  \/ /\ IF store.value = value
        THEN UNCHANGED store
        ELSE store' = Saved(store, value)
     /\ setup' = [setup EXCEPT !.stage = next]
  \/ /\ store.value # value
     /\ store' \in NotSaved(store, value)
     /\ setup' = NoSetup

SetupSecrets ==
  /\ setup.stage = "secrets"
  /\ SetupSaves(secrets, setup.key, "settings")
  /\ UNCHANGED <<settings, accounts, ready, radioVars, sessions, window>>

SetupSettings ==
  /\ setup.stage = "settings"
  /\ SetupSaves(settings, setup.settings, "accounts")
  /\ UNCHANGED <<secrets, accounts, ready, radioVars, sessions, window>>

\* A session is created in the place of the longest unused one if none is free.
Open(list, session) ==
  Append(IF Len(list) = MaximumSessions THEN Tail(list) ELSE list, session)

FirstAdmin(name) == [id |-> 1, name |-> name, role |-> "Admin", enabled |-> TRUE]

SessionOf(user) == [user |-> user.id, name |-> user.name, role |-> user.role]

\* The last save; then the radio takes the key, unless its queue is full, and the
\* admin is logged in.
SetupAccounts ==
  LET admin == FirstAdmin(setup.name)
      value == [users |-> {admin}, nextUserId |-> 2, tokens |-> {}, nextTokenId |-> 0]
  IN
  /\ setup.stage = "accounts"
  /\ \/ /\ accounts' = Saved(accounts, value)
        /\ radioKey' \in {setup.key, radioKey}
        /\ window' = FALSE
        /\ sessions' = Open(sessions, SessionOf(admin))
     \/ /\ accounts' \in NotSaved(accounts, value)
        /\ UNCHANGED <<radioKey, window, sessions>>
  /\ setup' = NoSetup
  /\ UNCHANGED <<secrets, settings, ready, network>>

-----------------------------------------------------------------------------
(* Sessions *)

CanLogIn(user) == user \in Users /\ user.enabled

Login(user) ==
  /\ WebIdle
  /\ CanLogIn(user)
  /\ sessions' = Open(sessions, SessionOf(user))
  /\ UNCHANGED <<secrets, settings, accounts, ready, radioVars, window, setup>>

\* authorize(): session i is the one used last.
Touched(i) == Append(RemoveAt(sessions, i), sessions[i])

UseSession(i) ==
  /\ WebIdle
  /\ sessions' = Touched(i)
  /\ UNCHANGED <<secrets, settings, accounts, ready, radioVars, window, setup>>

Logout(i) ==
  /\ WebIdle
  /\ sessions' = RemoveAt(sessions, i)
  /\ UNCHANGED <<secrets, settings, accounts, ready, radioVars, window, setup>>

\* Twelve hours after its last use.
SessionExpires ==
  /\ sessions # << >>
  /\ sessions' = Tail(sessions)
  /\ UNCHANGED <<secrets, settings, accounts, ready, radioVars, window, setup>>

\* The p-th of some positions, in their order.
Nth(positions, p) ==
  CHOOSE i \in positions : Cardinality({j \in positions : j <= i}) = p

\* invalidateUserSessions(): the sessions of the other users stay as they are.
Invalidated(list, id) ==
  LET others == {i \in DOMAIN list : list[i].user # id}
  IN  [p \in 1 .. Cardinality(others) |-> list[Nth(others, p)]]

-----------------------------------------------------------------------------
(* Users *)

\* authorizeAdmin(): by the role the session was opened with.
AsAdmin(i) == WebIdle /\ sessions[i].role = "Admin"

\* Mutant: names of disabled users are free.
NameTakenEnabled(name, exceptId) ==
  \E user \in Users : user.name = name /\ user.id # exceptId /\ user.enabled

NameTaken(name, exceptId) == \E user \in Users : user.name = name /\ user.id # exceptId

\* What an admin's session i changes is saved; list is what sessions remain.
Mutates(i, value, list) ==
  /\ AsAdmin(i)
  /\ value # accounts.value
  /\ \/ accounts' = Saved(accounts, value) /\ sessions' = list
     \/ accounts' \in NotSaved(accounts, value) /\ sessions' = Touched(i)
  /\ UNCHANGED <<secrets, settings, ready, radioVars, window, setup>>

CreateUser(i, name, role, enabled) ==
  LET id == IF accounts.value.nextUserId = 0 THEN 1 ELSE accounts.value.nextUserId
      user == [id |-> id, name |-> name, role |-> role, enabled |-> enabled]
  IN
  /\ Cardinality(Users) < MaximumUsers
  /\ accounts.value.nextUserId # MaxUserId
  /\ ~NameTaken(name, 0)
  /\ Mutates(i, [accounts.value EXCEPT !.users = @ \cup {user}, !.nextUserId = id + 1],
             Touched(i))

\* Mutant: sessions of a changed user go on.
SessionsKept(i, id) == Touched(i)

SessionsAfter(i, id) == Invalidated(Touched(i), id)

\* An update that changes nothing is answered as one that was saved.
UpdateUser(i, user, name, role, enabled) ==
  LET changed == [user EXCEPT !.name = name, !.role = role, !.enabled = enabled]
      value == [accounts.value EXCEPT !.users = (@ \ {user}) \cup {changed}]
  IN
  /\ user \in Users
  /\ ~NameTaken(name, user.id)
  /\ HasEnabledAdmin(value.users)
  /\ \/ Mutates(i, value, SessionsAfter(i, user.id))
     \/ /\ AsAdmin(i)
        /\ changed = user
        /\ sessions' = SessionsAfter(i, user.id)
        /\ UNCHANGED <<secrets, settings, accounts, ready, radioVars, window, setup>>

DeleteUser(i, user) ==
  /\ user \in Users
  /\ HasEnabledAdmin(Users \ {user})
  /\ Mutates(i, [accounts.value EXCEPT !.users = @ \ {user}], SessionsAfter(i, user.id))

CreateToken(i) ==
  LET id == IF accounts.value.nextTokenId = 0 THEN 1 ELSE accounts.value.nextTokenId IN
  /\ accounts.value.nextTokenId # MaxTokenId
  /\ Mutates(i, [accounts.value EXCEPT !.tokens = @ \cup {id}, !.nextTokenId = id + 1],
             Touched(i))

DeleteToken(i, id) ==
  Mutates(i, [accounts.value EXCEPT !.tokens = @ \ {id}], Touched(i))

\* PUT /ui/settings.  A value equal to the one in RAM is answered as saved.
UpdateSettings(i, setting) ==
  /\ AsAdmin(i)
  /\ IF setting = settings.value
     THEN UNCHANGED settings
     ELSE \/ settings' = Saved(settings, setting)
          \/ settings' \in NotSaved(settings, setting)
  /\ sessions' = Touched(i)
  /\ UNCHANGED <<secrets, accounts, ready, radioVars, window, setup>>

\* POST /ui/radio/reset: a new key is saved and a restart is due, until which
\* the radio keeps its own; none is due if the save is reported as failed.  What
\* it does to the nodes is in Maintenance.
ResetRadioNetwork(i, key) ==
  /\ AsAdmin(i)
  /\ key # secrets.value
  /\ secrets.generation < MaxKeyGeneration
  /\ \/ /\ secrets' = Saved(secrets, key)
        /\ network' = "renewed"
     \/ /\ secrets' \in NotSaved(secrets, key)
        /\ network' = IF network = "renewed" THEN "renewed" ELSE "doubtful"
  /\ sessions' = Touched(i)
  /\ UNCHANGED <<settings, accounts, ready, radioKey, window, setup>>

-----------------------------------------------------------------------------
\* Power loss or restart, also between two saves of initial setup.
Restart == Boot(secrets.slots, settings.slots, accounts.slots)

\* The button, held: every store is erased.
FactoryReset ==
  /\ setup.stage = "none"
  /\ Boot(Erased, Erased, Erased)

Next ==
  \/ ToggleSetup
  \/ SetupExpires
  \/ \E name \in Name, key \in Key, setting \in Setting : BeginSetup(name, key, setting)
  \/ SetupSecrets
  \/ SetupSettings
  \/ SetupAccounts
  \/ \E user \in Users : Login(user)
  \/ SessionExpires
  \/ \E i \in DOMAIN sessions :
       \/ UseSession(i)
       \/ Logout(i)
       \/ \E name \in Name, role \in Role, enabled \in BOOLEAN :
            \/ CreateUser(i, name, role, enabled)
            \/ \E user \in Users : UpdateUser(i, user, name, role, enabled)
       \/ \E user \in Users : DeleteUser(i, user)
       \/ CreateToken(i)
       \/ \E id \in accounts.value.tokens : DeleteToken(i, id)
       \/ \E setting \in Setting : UpdateSettings(i, setting)
       \/ \E key \in Key : ResetRadioNetwork(i, key)
  \/ Restart
  \/ FactoryReset

Spec == Init /\ [][Next]_vars

-----------------------------------------------------------------------------
(* Properties *)

\* However saves fail and whenever the gateway restarts, a boot loads what was
\* visible, or the one value whose save was reported as failed since; an older
\* value never comes back, also when generations wrap (DualSlotStore::save).
BootLoadsCurrent ==
  /\ LoadsCurrentOrFailed(secrets)
  /\ LoadsCurrentOrFailed(settings)
  /\ LoadsCurrentOrFailed(accounts)

\* Nobody acts under a role, a name or an account that is gone: every session
\* is that of an enabled user as he is now (invalidateUserSessions, login).
SessionsMatchAccounts ==
  \A i \in DOMAIN sessions :
    \E user \in Users : user.enabled /\ SessionOf(user) = sessions[i]

\* A gateway that would boot with users would boot with an installation key and
\* an enabled admin: setup is never half done, and nobody locks everybody out
\* (handleInitialSetup, hasEnabledAdmin).
SetupIsWhole ==
  LET users == Load(accounts.slots, NoAccounts).value.users IN
  users # {} =>
    /\ HasEnabledAdmin(users)
    /\ ~IsCorrupt(secrets.slots) => Load(secrets.slots, NoKey).value # NoKey

\* The radio runs with the key that the next boot loads, whatever fails in setup
\* (handleInitialSetup).  Only a reset of the network changes that: one that
\* saved a new key, until the restart that is then due, and one that reports a
\* failure, after which the next boot may load the key it tried to save while
\* gateway and radio go on with the old one (handleResetRadioNetwork).
RadioKeyIsDurable ==
  radioKey # NoKey /\ network # "renewed" =>
    /\ radioKey = secrets.value
    /\ network = "kept" => Load(secrets.slots, NoKey).value = radioKey

=============================================================================
