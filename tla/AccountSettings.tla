-------------------------- MODULE AccountSettings ---------------------------
(***************************************************************************)
(* The settings of one AgAccount: the changes a client has not stored yet, *)
(* the copies in memory, the rows and columns of the database, the watches *)
(* and the AgAccountService objects that follow the account.               *)
(*                                                                         *)
(* Settings belong to a service or are global; they are read from the      *)
(* database when the service is selected for the first time.  The global   *)
(* "name" and "enabled" are kept twice in the database, in columns of the  *)
(* Accounts table and as rows of the Settings table, and in memory in      *)
(* fields of their own.  Transactions succeed and signals arrive in order: *)
(* failures are the subject of AccountStore, order of ChangeNotification.  *)
(***************************************************************************)
EXTENDS Naturals, Sequences, FiniteSets

CONSTANTS
  Services,     (* AgService objects the account can be used with.          *)
  Global,       (* The NULL service.                                        *)
  Env,          (* {} or {"unset_columns"}: the client also unsets the      *)
                (* global "name" and "enabled".                             *)
  MaxPending,   (* Bound: settings changed between two stores.              *)
  MaxWatches,   (* Bound: watches installed at a time.                      *)
  MaxFollowers  (* Bound: AgAccountService objects at a time.               *)

ASSUME ConstantsAssumption ==
  /\ Global \notin Services
  /\ IsFiniteSet(Services)
  /\ Env \subseteq {"unset_columns"}
  /\ MaxPending \in Nat
  /\ MaxWatches \in Nat
  /\ MaxFollowers \in Nat

VARIABLES
  stored,       (* account->id is not 0.                                    *)
  live,         (* The row of the account is in the database.               *)
  nameColumn,   (* Accounts.name.                                           *)
  enabledColumn,(* Accounts.enabled.                                        *)
  table,        (* The rows of Settings.                                    *)
  changes,      (* priv->changes.                                           *)
  deleting,     (* priv->changes->deleted.                                  *)
  service,      (* priv->service, the selected one.                         *)
  loaded,       (* Services that have AgServiceSettings in priv->services.  *)
  settings,     (* The settings in them, but for the global name and        *)
                (* enabled: update_settings() keeps those in the fields.    *)
  displayName,  (* priv->display_name.                                      *)
  enabled,      (* priv->enabled.                                           *)
  deleted,      (* priv->deleted.                                           *)
  message,      (* Changes of another process, not yet received.            *)
  watches,      (* Settings with a watch installed by the client.           *)
  followers,    (* Services (or Global) with an AgAccountService object.    *)
  isEnabled,    (* priv->enabled of the AgAccountService objects.           *)
  invoked,      (* History: watches invoked in the last step.               *)
  noticed       (* History: services whose object emitted "changed" in it.  *)

dbVars       == <<live, nameColumn, enabledColumn, table>>
editVars     == <<changes, deleting>>
memVars      == <<loaded, settings, displayName, enabled, deleted>>
followerVars == <<followers, isEnabled>>
vars == <<stored, dbVars, editVars, service, memVars, message, watches,
          followerVars, invoked, noticed>>

\* No watch is invoked, no AgAccountService emits "changed".
Quiet == invoked' = {} /\ noticed' = {}
-----------------------------------------------------------------------------
Owners == Services \cup {Global}

\* A setting, named by its service and key.
Setting(s, k) == [service |-> s, key |-> k]
GlobalName    == Setting(Global, "name")
GlobalEnabled == Setting(Global, "enabled")
InColumns     == {GlobalName, GlobalEnabled}
InServices    == {Setting(s, k) : s \in Services, k \in {"enabled", "opt"}}

\* Other global settings are like those of a service that is always loaded,
\* and left out.
Settings == InColumns \cup InServices

\* "none" is a missing value; in changes it unsets, and "same" is no entry.
Of(x)      == IF x.key = "enabled" THEN {"true", "false"} ELSE {"value"}
Values     == {"none", "value", "true", "false"}
Nothing    == [x \in Settings |-> "none"]
NotRead    == [x \in InServices |-> "none"]
NoChange   == [x \in Settings |-> "same"]
NoMessage  == [vals |-> NoChange, deleted |-> FALSE]

Changed(ch) == {x \in Settings : ch[x] # "same"}

TypeOK ==
  /\ stored \in BOOLEAN
  /\ live \in BOOLEAN
  /\ nameColumn \in Values
  /\ enabledColumn \in BOOLEAN
  /\ table \in [Settings -> Values]
  /\ changes \in [Settings -> Values \cup {"same"}]
  /\ deleting \in BOOLEAN
  /\ service \in Owners
  /\ loaded \subseteq Owners
  /\ settings \in [InServices -> Values]
  /\ displayName \in Values
  /\ enabled \in BOOLEAN
  /\ deleted \in BOOLEAN
  /\ message \in [vals : [Settings -> Values \cup {"same"}],
                  deleted : BOOLEAN]
  /\ watches \subseteq Settings
  /\ followers \subseteq Owners
  /\ isEnabled \in [Owners -> BOOLEAN]
  /\ invoked \subseteq Settings
  /\ noticed \subseteq Owners

\* ag_manager_create_account(): the global settings are selected.
Init ==
  /\ stored = FALSE /\ live = FALSE
  /\ nameColumn = "none" /\ enabledColumn = FALSE
  /\ table = Nothing
  /\ changes = NoChange /\ deleting = FALSE
  /\ service = Global
  /\ loaded = {Global}
  /\ settings = NotRead
  /\ displayName = "none" /\ enabled = FALSE /\ deleted = FALSE
  /\ message = NoMessage
  /\ watches = {}
  /\ followers = {} /\ isEnabled = [s \in Owners |-> FALSE]
  /\ invoked = {} /\ noticed = {}
-----------------------------------------------------------------------------
(* Selecting and changing settings.                                        *)

\* What the settings in memory become when those of the services ss are read.
Read(ss) == [x \in InServices |-> IF x.service \in ss THEN table[x]
                                  ELSE settings[x]]

\* ag_account_select_service() for the services ss; s is the last of them.
\* A new account has nothing to read.
Select(ss, s) ==
  /\ service' = s
  /\ loaded' = loaded \cup ss
  /\ settings' = IF stored THEN Read(ss \ loaded) ELSE settings
  /\ UNCHANGED <<displayName, enabled, deleted>>

SelectService(s) ==
  /\ Select({s}, s)
  /\ UNCHANGED <<stored, dbVars, editVars, message, watches, followerVars>>
  /\ Quiet

Change(x, v) ==
  /\ Cardinality(Changed(changes) \cup {x}) <= MaxPending
  /\ changes' = [changes EXCEPT ![x] = v]
  /\ UNCHANGED <<stored, dbVars, deleting, service, memVars, message,
                 watches, followerVars>>
  /\ Quiet

\* ag_account_set_variant() and ag_account_set_enabled() on the selected
\* service; a NULL value unsets.
SetVariant(k, v) ==
  LET x == Setting(service, k)
  IN  /\ x \in Settings
      /\ v \in Of(x) \cup {"none"}
      /\ v = "none" /\ x \in InColumns => "unset_columns" \in Env
      /\ Change(x, v)

\* ag_account_set_display_name(), whatever is selected.
SetDisplayName(v) == Change(GlobalName, v)

\* ag_account_delete() of a stored account.
Delete ==
  /\ stored
  /\ deleting' = TRUE
  /\ UNCHANGED <<stored, dbVars, changes, service, memVars, message,
                 watches, followerVars>>
  /\ Quiet
-----------------------------------------------------------------------------
(***************************************************************************)
(* _ag_account_get_store_sql(): the columns hold what is set, never what   *)
(* is unset; the rows of Settings follow every change.                     *)
(***************************************************************************)
\* Mutant: "enabled" is only written along with the name.
WriteColumns_together(ch) ==
  /\ nameColumn' = IF ch[GlobalName] \in Of(GlobalName) THEN ch[GlobalName]
                   ELSE nameColumn
  /\ enabledColumn' = IF {ch[GlobalName], ch[GlobalEnabled]} \cap {"same"} = {}
                      THEN ch[GlobalEnabled] = "true" ELSE enabledColumn

WriteColumns(ch) ==
  /\ nameColumn' = IF ch[GlobalName] \in Of(GlobalName) THEN ch[GlobalName]
                   ELSE nameColumn
  /\ enabledColumn' = IF ch[GlobalEnabled] \in Of(GlobalEnabled)
                      THEN ch[GlobalEnabled] = "true" ELSE enabledColumn

WriteRows(ch) ==
  table' = [x \in Settings |-> IF ch[x] = "same" THEN table[x] ELSE ch[x]]

\* Mutant: there is no such trigger.
DeleteRows_noTrigger ==
  /\ live' = FALSE
  /\ nameColumn' = "none" /\ enabledColumn' = FALSE
  /\ UNCHANGED table

\* The trigger of the Accounts table deletes the settings.
DeleteRows ==
  /\ live' = FALSE
  /\ nameColumn' = "none" /\ enabledColumn' = FALSE
  /\ table' = Nothing

Write(ch, del) ==
  IF del THEN DeleteRows ELSE live' = TRUE /\ WriteColumns(ch) /\ WriteRows(ch)
-----------------------------------------------------------------------------
(***************************************************************************)
(* _ag_account_done_changes() for the changes ch, with the callbacks and   *)
(* handlers that run inside it.                                            *)
(***************************************************************************)

\* Mutant: a setting that was removed stays in memory.
Updated_noRemovals(ch) ==
  {x \in Changed(ch) \cap InServices : x.service \in loaded /\ ch[x] # "none"}

\* Settings update_settings() puts in memory: those of services in memory,
\* the global name and enabled excepted.
Updated(ch) == {x \in Changed(ch) \cap InServices : x.service \in loaded}

\* Mutant: the name is taken from changes that have none.
UpdateSettings_anyName(ch) ==
  /\ settings' = [x \in InServices |-> IF x \in Updated(ch) THEN ch[x]
                                       ELSE settings[x]]
  /\ displayName' = ch[GlobalName]
  /\ UNCHANGED loaded

UpdateSettings(ch) ==
  /\ settings' = [x \in InServices |-> IF x \in Updated(ch) THEN ch[x]
                                       ELSE settings[x]]
  /\ displayName' = IF ch[GlobalName] = "same" THEN displayName
                    ELSE ch[GlobalName]
  /\ UNCHANGED loaded

\* Mutant: a watch is not told of a removal.
InvokeWatches_noRemovals(ch) ==
  invoked' = {x \in watches \cap Updated(ch) : ch[x] # "none"}

\* The watches on what was put in memory are invoked.
InvokeWatches(ch) == invoked' = watches \cap Updated(ch)

\* account_watch_cb(): an AgAccountService emits "changed".
NoticeChanges(ch) ==
  noticed' = {s \in followers : \E x \in Updated(ch) : x.service = s}

\* check_enabled() of the AgAccountService for s.
Enabled(s, on, vals) ==
  on /\ (s = Global \/ vals[Setting(s, "enabled")] = "true")

\* update_settings() emits "enabled" once for each of these, when it has put
\* it in memory, in the order of hash tables.
EnabledIn(ch) == {x \in Changed(ch) : x.key = "enabled"}

Orders(S) == {q \in [1..Cardinality(S) -> S] : \A x \in S :
                \E i \in DOMAIN q : q[i] = x}

\* Mutant: the signal is emitted before the setting is put in memory.
Applied_before(order, i) == {order[j] : j \in 1..i - 1}

\* What is in memory when the i-th signal is emitted.
Applied(order, i) == {order[j] : j \in 1..i}

\* The flag that a handler computes when the settings A are in memory.
FlagWith(ch, A, s) ==
  Enabled(s, IF GlobalEnabled \in A THEN ch[GlobalEnabled] = "true" ELSE enabled,
          [x \in InServices |-> IF x \in A \cap Updated(ch) THEN ch[x]
                                ELSE settings[x]])

\* The flags of s, first to last.  A deletion emits "enabled" once more.
Flags(ch, del, order, s) ==
  <<isEnabled[s]>>
    \o [i \in DOMAIN order |-> FlagWith(ch, Applied(order, i), s)]
    \o IF del THEN <<FALSE>> ELSE <<>>

\* on_account_enabled() of every AgAccountService, for every signal: it
\* selects its service, and the one that runs last decides what is left
\* selected.
FollowEnabled(ch, del) ==
  \E order \in Orders(EnabledIn(ch)) :
    LET flags == [s \in followers |-> Flags(ch, del, order, s)]
    IN  /\ isEnabled' = [s \in Owners |->
                           IF s \in followers THEN flags[s][Len(flags[s])]
                           ELSE isEnabled[s]]
        /\ IF (del \/ EnabledIn(ch) # {}) /\ followers # {}
           THEN service' \in followers ELSE UNCHANGED service

DoneChanges(ch, del) ==
  /\ UpdateSettings(ch)
  /\ enabled' = IF del THEN FALSE
                ELSE IF ch[GlobalEnabled] = "same" THEN enabled
                ELSE ch[GlobalEnabled] = "true"
  /\ deleted' = (deleted \/ del)
  /\ InvokeWatches(ch)
  /\ NoticeChanges(ch)
  /\ FollowEnabled(ch, del)
  /\ UNCHANGED <<watches, followers>>

\* ag_account_store_blocking() of a transaction that succeeds.
Store ==
  /\ ~deleted
  /\ ~stored \/ deleting \/ changes # NoChange
  /\ message = NoMessage
  /\ stored' = TRUE
  /\ Write(changes, deleting)
  /\ DoneChanges(changes, deleting)
  /\ changes' = NoChange /\ deleting' = FALSE
  /\ UNCHANGED message
-----------------------------------------------------------------------------
(* Another process changes a setting or deletes the account; its signal    *)
(* arrives later.                                                          *)

RemoteStore(x, v) ==
  /\ live /\ message = NoMessage
  /\ v \in Of(x) \cup {"none"}
  /\ v = "none" /\ x \in InColumns => "unset_columns" \in Env
  /\ message' = [NoMessage EXCEPT !.vals = [NoChange EXCEPT ![x] = v]]
  /\ Write(message'.vals, FALSE)
  /\ UNCHANGED <<stored, editVars, service, memVars, watches, followerVars>>
  /\ Quiet

RemoteDelete ==
  /\ live /\ message = NoMessage
  /\ message' = [NoMessage EXCEPT !.deleted = TRUE]
  /\ Write(NoChange, TRUE)
  /\ UNCHANGED <<stored, editVars, service, memVars, watches, followerVars>>
  /\ Quiet

\* Mutant: the deleted flag of the signal is not passed on.
Receive_noDeletion ==
  /\ message # NoMessage
  /\ DoneChanges(message.vals, FALSE)
  /\ message' = NoMessage
  /\ UNCHANGED <<stored, dbVars, editVars>>

\* dbus_filter_callback() for the account.
Receive ==
  /\ message # NoMessage
  /\ DoneChanges(message.vals, message.deleted)
  /\ message' = NoMessage
  /\ UNCHANGED <<stored, dbVars, editVars>>
-----------------------------------------------------------------------------
(* Watches, AgAccountService objects, and loading the account again.       *)

\* ag_account_watch_key() on a key of the selected service.
WatchKey(k) ==
  LET x == Setting(service, k)
  IN  /\ x \in Settings \ watches
      /\ Cardinality(watches) < MaxWatches
      /\ watches' = watches \cup {x}
      /\ UNCHANGED <<stored, dbVars, editVars, service, memVars, message,
                     followerVars>>
  /\ Quiet

\* ag_account_remove_watch().
RemoveWatch(x) ==
  /\ x \in watches
  /\ watches' = watches \ {x}
  /\ UNCHANGED <<stored, dbVars, editVars, service, memVars, message,
                 followerVars>>
  /\ Quiet

\* ag_account_service_new(): it watches all keys of its service, and leaves
\* that service selected.
NewFollower(s) ==
  /\ s \notin followers
  /\ Cardinality(followers) < MaxFollowers
  /\ Select({Global, s}, s)
  /\ followers' = followers \cup {s}
  /\ isEnabled' = [isEnabled EXCEPT ![s] = Enabled(s, enabled, settings')]
  /\ UNCHANGED <<stored, dbVars, editVars, message, watches>>
  /\ Quiet

\* ag_account_service_dispose().
DropFollower(s) ==
  /\ s \in followers
  /\ followers' = followers \ {s}
  /\ isEnabled' = [isEnabled EXCEPT ![s] = FALSE]
  /\ UNCHANGED <<stored, dbVars, editVars, service, memVars, message,
                 watches>>
  /\ Quiet

\* The client drops the account and loads it again: ag_account_load() and
\* ag_account_select_service() for the global settings.
Reload ==
  /\ live /\ message = NoMessage
  /\ changes' = NoChange /\ deleting' = FALSE
  /\ service' = Global
  /\ loaded' = {Global}
  /\ settings' = NotRead
  /\ displayName' = nameColumn /\ enabled' = enabledColumn
  /\ watches' = {}
  /\ followers' = {} /\ isEnabled' = [s \in Owners |-> FALSE]
  /\ Quiet
  /\ UNCHANGED <<stored, dbVars, deleted, message>>
-----------------------------------------------------------------------------
Client ==
  \/ \E s \in Owners : SelectService(s) \/ NewFollower(s) \/ DropFollower(s)
  \/ \E k \in {"name", "enabled", "opt"} :
       WatchKey(k) \/ \E v \in Values : SetVariant(k, v)
  \/ \E v \in Of(GlobalName) : SetDisplayName(v)
  \/ \E x \in Settings : RemoveWatch(x)
  \/ Delete
  \/ Store
  \/ Reload

Other == RemoteDelete \/ \E x \in Settings, v \in Values : RemoteStore(x, v)

Next == Client \/ Other \/ Receive

Spec == Init /\ [][Next]_vars
-----------------------------------------------------------------------------
(* Properties.                                                             *)

AtRest == stored /\ live /\ message = NoMessage

\* The settings in memory are those of the database, whichever process wrote
\* them and whenever the service was selected.
SettingsMatchDatabase ==
  AtRest => \A x \in InServices :
              x.service \in loaded => settings[x] = table[x]

\* The account is enabled and named as the database says, so that the next
\* process to load it sees the same.
FieldsMatchDatabase ==
  AtRest => displayName = nameColumn /\ enabled = enabledColumn

\* The columns of an account never contradict its rows of Settings: both are
\* read back, by different functions.
ColumnsMatchRows ==
  /\ table[GlobalName] = nameColumn
  /\ enabledColumn <=> table[GlobalEnabled] = "true"

\* The enabled flag of an AgAccountService is kept by handlers of signals,
\* which run while a change is half applied: after the last of them it is that
\* of the account and of the service, and false once the account is deleted.
FollowersAreRight ==
  \A s \in followers :
    isEnabled[s] = Enabled(s, enabled /\ ~deleted, settings)

\* An account that is deleted, here or elsewhere, is seen as deleted once the
\* signal has arrived.
DeletionIsSeen == stored /\ ~live /\ message = NoMessage => deleted /\ ~enabled

\* "Installs a watch on key: callback will be invoked whenever the value of
\* key changes (or the key is removed)", for a key of a service.
ServiceWatchesAreTold ==
  [][\A x \in watches \cap watches' \cap InServices :
       settings'[x] # settings[x] => x \in invoked']_vars
=============================================================================
