--------------------------- MODULE AccountListings --------------------------
(***************************************************************************)
(* What ag_manager_get_enabled_account_services() and the other functions  *)
(* that list accounts and services return.                                 *)
(*                                                                         *)
(* A listing is many queries: one for the ids of the accounts, one for     *)
(* each account, one or more for each service, or the reading of           *)
(* directories; other managers store accounts in between.  Lists are       *)
(* abstracted to sets: their order and repetitions are left out.           *)
(*                                                                         *)
(* A manager that a signal has told of a new account keeps what signals    *)
(* say about the services of that account, and lists from memory what is   *)
(* enabled in it.  Signals arrive in the order of the stores; the time     *)
(* between a COMMIT and its signal is left to ChangeNotification, and so   *)
(* are signals about accounts that are not kept this way.                  *)
(***************************************************************************)
EXTENDS ServiceRegistry

CONSTANTS
  Accounts,     (* Ids of accounts.                                         *)
  AnyAccount,   (* The listing is not that of an account.                   *)
  Types,        (* Service types.                                           *)
  AnyType,      (* No service type: a manager for all services.             *)
  TypeOf,       (* Of a service.                                            *)
  ProviderOf,   (* Of a service or an account.                              *)
  ServiceType,  (* priv->service_type of a manager, or AnyType.             *)
  AppServices,  (* The services an AgApplication names,                     *)
  AppTypes      (* and its service types.                                   *)

ASSUME ListingsAssumption ==
  /\ AnyType \notin Types /\ AnyAccount \notin Accounts
  /\ TypeOf \in [Services -> Types]
  /\ Services \cup Accounts = DOMAIN ProviderOf
  /\ ServiceType \in [Managers -> Types \cup {AnyType}]
  /\ AppServices \subseteq Services /\ AppTypes \subseteq Types

VARIABLES
  account,      (* "unborn", "absent" when deleted, or Accounts.enabled.    *)
  enabledRows,  (* The settings "enabled" = "true" of services.             *)
  listing,      (* The function a manager is in, and its local variables.   *)
  during,       (* History: what the database held during that call.        *)
  foreign,      (* The accounts of a manager that are priv->foreign,        *)
  memory,       (* the services it knows to be enabled in them,             *)
  news          (* and the signals about accounts on the way to it.         *)

foreignVars == <<foreign, memory, news>>
listingVars == <<account, enabledRows, listing, during, foreignVars>>
allVars     == <<openVars, locks, registryVars, listingVars>>
-----------------------------------------------------------------------------
NoListing == [op |-> "none", ids |-> {}, of |-> AnyAccount, dirs |-> <<>>,
              names |-> {}, loaded |-> {}, out |-> {}, failed |-> FALSE]

\* A service, or the NULL in place of one, in the list of an account.
Entries == (Accounts \cup {AnyAccount}) \X (Services \cup {NoService})

\* What a signal says about services: who stored which account, whether it is
\* a new one, the services it names and those of them it says are enabled.
News == [by : Managers, account : Accounts, created : BOOLEAN,
         names : SUBSET Services, on : SUBSET Services]

ListingTypeOK ==
  /\ account \in [Accounts -> {"unborn", "absent", "disabled", "enabled"}]
  /\ enabledRows \subseteq Accounts \X Services
  /\ listing \in [Managers ->
       [op : {"none", "enabled", "all", "services", "application", "named"},
        ids : SUBSET Accounts, of : Accounts \cup {AnyAccount},
        dirs : {SubSeq(PlacesToList(e), i, Len(PlacesToList(e))) :
                  e \in BOOLEAN, i \in 1..Len(SystemPlaces) + 2},
        names : SUBSET Services, loaded : SUBSET Services,
        out : SUBSET Entries, failed : BOOLEAN]]
  /\ foreign \in [Managers -> SUBSET Accounts]
  /\ memory \in [Managers -> SUBSET (Accounts \X Services)]
  /\ news \in [Managers -> Seq(News)]

NotWatched == [accounts |-> {}, rows |-> {}, always |-> {}, unheard |-> {}]

TypeOK == ServicesTypeOK /\ ListingTypeOK

ListingInit ==
  /\ account = [a \in Accounts |-> "unborn"]
  /\ enabledRows = {}
  /\ listing = [m \in Managers |-> NoListing]
  /\ during = [m \in Managers |-> NotWatched]
  /\ foreign = [m \in Managers |-> {}]
  /\ memory = [m \in Managers |-> {}]
  /\ news = [m \in Managers |-> <<>>]

Init == OpenInit /\ RegistryInit /\ ListingInit

\* Services of type t, or of any.
OfType(t) == {s \in Services : t = AnyType \/ TypeOf[s] = t}

EnabledAccounts(on) == {a \in Accounts : on[a] = "enabled"}

Enabled(on, rows) == {e \in rows : e[1] \in EnabledAccounts(on)}
-----------------------------------------------------------------------------
(* Accounts and settings change.                                           *)

\* The calls under way see the database with "on" and "rows" from now on.
Change(on, rows) ==
  /\ account' = on /\ enabledRows' = rows
  /\ during' = [m \in Managers |->
       IF listing[m].op # "enabled" THEN NotWatched
       ELSE [accounts |-> during[m].accounts \cup EnabledAccounts(on),
             rows     |-> during[m].rows \cup rows,
             always   |-> during[m].always \cap Enabled(on, rows),
             unheard  |-> during[m].unheard]]
  /\ UNCHANGED <<row, lastId, files, services, call, listing, openVars,
                 locks>>

Storing(m) == Free(m) /\ listing[m].op = "none" /\ m \notin ReadOnly
Exists(a)  == account[a] \in {"disabled", "enabled"}

\* The signal of a new account holds all of its settings.
Concerns(c, e) == c.account = e[1] /\ (c.created \/ e[2] \in c.names)

\* update_settings() of a foreign account.
Updated(known, c) ==
  {e \in known : ~Concerns(c, e)} \cup ({c.account} \X c.on)

\* The signal c is about an account that n has, or may get, as a foreign one.
Matters(n, c) ==
  \/ c.created /\ c.by # n
  \/ c.account \in foreign[n]
  \/ \E i \in DOMAIN news[n] : news[n][i].account = c.account

\* The manager that stores has the changes at once, and again with its own
\* signal when that follows others; see ChangeNotification.
Announce(m, c) ==
  \E again \in BOOLEAN :
    /\ news[m] # <<>> => again
    /\ memory' = [memory EXCEPT ![m] = IF c.account \in foreign[m]
                                      THEN Updated(@, c) ELSE @]
    /\ news' = [n \in Managers |->
         IF phase[n] = "open" /\ Matters(n, c) /\ (n # m \/ again)
         THEN Append(news[n], c) ELSE news[n]]
    /\ UNCHANGED foreign

\* ag_account_set_enabled() of a service, and a store; the changed setting is
\* written under the id of the service, and told to others.
StoreService(m, a, s, on) ==
  /\ Storing(m) /\ Has(m, s) /\ Exists(a)
  /\ Change(account, IF on THEN enabledRows \cup {<<a, s>>}
                     ELSE enabledRows \ {<<a, s>>})
  /\ Announce(m, [by |-> m, account |-> a, created |-> FALSE, names |-> {s},
                  on |-> IF on THEN {s} ELSE {}])
  /\ Tell(m, s)

\* The store of a new account, in which one service at most is enabled.
CreateAccount(m, a, on, enabled) ==
  /\ Storing(m) /\ account[a] = "unborn" /\ on \in {"disabled", "enabled"}
  /\ Change([account EXCEPT ![a] = on], enabledRows \cup ({a} \X enabled))
  /\ Announce(m, [by |-> m, account |-> a, created |-> TRUE,
                  names |-> enabled, on |-> enabled])
  /\ \/ enabled = {} /\ UNCHANGED inbox
     \/ \E s \in Services : enabled = {s} /\ Has(m, s) /\ Tell(m, s)

\* The account is enabled, disabled or deleted, which says nothing about its
\* services.
StoreAccount(m, a, on) ==
  /\ Storing(m) /\ Exists(a)
  /\ Change([account EXCEPT ![a] = on],
            IF on = "absent" THEN {e \in enabledRows : e[1] # a}
            ELSE enabledRows)
  /\ UNCHANGED <<inbox, foreignVars>>

\* The services that a signal names are looked up, or made, first, if they
\* have not been for another signal.
HandleServices(m, c) ==
  \/ \E msg \in inbox[m] : msg.name \in c.names /\ HandleMessage(m, msg)
  \/ /\ \A msg \in inbox[m] : msg.name \notin c.names
     /\ Free(m) /\ UNCHANGED <<registryVars, openVars, locks>>

\* Mutant: the account that is made for a signal is not updated by it.
Receive_emptyForeign(m) ==
  LET c == Head(news[m])
  IN  /\ listing[m].op = "none" /\ news[m] # <<>>
      /\ HandleServices(m, c)
      /\ \/ UNCHANGED foreign
         \/ /\ c.created /\ c.by # m
            /\ foreign' = [foreign EXCEPT ![m] = @ \cup {c.account}]
      /\ memory' = [memory EXCEPT ![m] = IF c.account \in foreign[m]
                                        THEN Updated(@, c) ELSE @]
      /\ news' = [news EXCEPT ![m] = Tail(@)]
      /\ UNCHANGED <<account, enabledRows, listing, during>>

\* dbus_filter_callback(): a new account of another manager is put in the
\* hash as a foreign one, unless it has been loaded already.
Receive(m) ==
  LET c == Head(news[m])
  IN  /\ listing[m].op = "none" /\ news[m] # <<>>
      /\ HandleServices(m, c)
      /\ \/ UNCHANGED foreign
         \/ /\ c.created /\ c.by # m
            /\ foreign' = [foreign EXCEPT ![m] = @ \cup {c.account}]
      /\ memory' = [memory EXCEPT ![m] = IF c.account \in foreign'[m]
                                        THEN Updated(@, c) ELSE @]
      /\ news' = [news EXCEPT ![m] = Tail(@)]
      /\ UNCHANGED <<account, enabledRows, listing, during>>

\* Nobody has a reference on the account any more: not before two seconds
\* have passed, or longer when the application has one.
Release(m, a) ==
  /\ listing[m].op = "none" /\ Free(m) /\ a \in foreign[m]
  /\ foreign' = [foreign EXCEPT ![m] = @ \ {a}]
  /\ memory' = [memory EXCEPT ![m] = {e \in @ : e[1] # a}]
  /\ UNCHANGED <<news, account, enabledRows, listing, during, registryVars,
                 openVars, locks>>
-----------------------------------------------------------------------------
(* Listing.                                                                *)

Listing(m, op) == Free(m) /\ listing[m].op = op

\* The local variables of the function, when its next step is not a query.
Locals(m, l) ==
  /\ listing' = [listing EXCEPT ![m] = l]
  /\ UNCHANGED <<account, enabledRows, during, foreignVars, row, lastId,
                 files, services, call, inbox, openVars>>

\* Accounts whose provider has services of the type in the Services table:
\* ag_manager_list_by_service_type().
IdsByType(t) ==
  {a \in Accounts : /\ Exists(a)
                    /\ \E s \in OfType(t) : /\ InTable(s)
                                            /\ ProviderOf[s] = ProviderOf[a]}

\* ag_manager_list_enabled_by_service_type().
EnabledIdsByType(t) ==
  {a \in Accounts : /\ account[a] = "enabled"
                    /\ \E s \in OfType(t) : <<a, s>> \in enabledRows}

\* ag_manager_list() and ag_manager_list_enabled().
ListIds(m, op) ==
  CASE op = "all" /\ ServiceType[m] = AnyType ->
         {a \in Accounts : Exists(a)}
    [] op = "all" /\ ServiceType[m] # AnyType -> IdsByType(ServiceType[m])
    [] op = "enabled" /\ ServiceType[m] = AnyType ->
         {a \in Accounts : account[a] = "enabled"}
    [] op = "enabled" /\ ServiceType[m] # AnyType ->
         EnabledIdsByType(ServiceType[m])

\* ag_manager_get_account_services() and
\* ag_manager_get_enabled_account_services() ask for the accounts.
BeginListing(m, op) ==
  LET l == [NoListing EXCEPT !.op = op]
  IN  /\ Listing(m, "none") /\ op \in {"all", "enabled"}
      /\ \/ NotLocked
            /\ listing' = [listing EXCEPT ![m] =
                             [l EXCEPT !.ids = ListIds(m, op)]]
         \/ m \notin Aborting /\ Locked
            /\ listing' = [listing EXCEPT ![m] = [l EXCEPT !.failed = TRUE]]
      /\ during' = [during EXCEPT ![m] =
           IF op = "all" THEN NotWatched
           ELSE [accounts |-> EnabledAccounts(account), rows |-> enabledRows,
                 always   |-> Enabled(account, enabledRows),
                 unheard  |-> {a \in foreign[m] : \E i \in DOMAIN news[m] :
                                                   news[m][i].account = a}]]
      /\ UNCHANGED <<account, enabledRows, foreignVars, registryVars, openVars>>

\* ag_manager_list_services(), and ag_application_list_supported_services(),
\* read the directories at once.
BeginReading(m, op) ==
  /\ Listing(m, "none") /\ op \in {"services", "application"}
  /\ Locals(m, [NoListing EXCEPT !.op = op,
                                 !.dirs = PlacesToList(m \in WithEnv)])
  /\ UNCHANGED locks

\* Nothing is left to ask for the account that is looked at.
Between(l) == l.dirs = <<>> /\ l.names = {}

\* The entries that the services loaded from data files make in the list:
\* ag_account_list_services() and ag_manager_list_services_by_type().
Chosen(m, l) ==
  LET ofMine == l.loaded \cap OfType(ServiceType[m])
  IN  CASE l.op = "all" ->
             {l.of} \X {s \in ofMine : /\ services[m][s].names # NoPlace
                                       /\ ProviderOf[s] = ProviderOf[l.of]}
        [] l.op = "services" -> {AnyAccount} \X ofMine
        [] l.op = "application" ->
             {AnyAccount} \X {s \in l.loaded : TypeOf[s] \in AppTypes}
        [] OTHER -> {}

\* The query of ag_account_list_enabled_services(); a service that is not in
\* the table has no settings.
EnabledServices(m, a) ==
  {s \in OfType(ServiceType[m]) : <<a, s>> \in enabledRows}

\* list_enabled_services_from_memory().
FromMemory(m, a) ==
  {s \in OfType(ServiceType[m]) : <<a, s>> \in memory[m]}

\* get_account_services_from_accounts() turns to account a.  A foreign one
\* needs no query.  One that has been deleted is skipped, unless the manager
\* has it in its hash; loading it and asking for its services are one step,
\* since one that is deleted in between has none.
NextAccount(m, a) ==
  LET l    == listing[m]
      rest == [l EXCEPT !.ids = @ \ {a}, !.of = a, !.loaded = {},
                        !.out = @ \cup Chosen(m, l)]
  IN  /\ Free(m) /\ Between(l) /\ a \in l.ids
      /\ \/ NotLocked /\ a \in foreign[m] /\ l.op = "enabled"
            /\ Locals(m, [rest EXCEPT !.out = @ \cup ({a} \X FromMemory(m, a))])
         \/ NotLocked /\ a \notin foreign[m] /\ l.op = "enabled"
            /\ Locals(m, [rest EXCEPT !.names = EnabledServices(m, a)])
         \/ NotLocked /\ l.op = "all"
            /\ Locals(m, [rest EXCEPT !.dirs = PlacesToList(m \in WithEnv)])
         \/ NotLocked /\ a \notin foreign[m] /\ account[a] = "absent"
            /\ Locals(m, rest)
         \/ m \notin Aborting /\ Locked /\ a \notin foreign[m]
            /\ Locals(m, [rest EXCEPT !.failed = TRUE])

\* add_data_files_from_dir(): names that have been loaded are skipped.
ReadDirectory(m) ==
  LET l == listing[m]
  IN  /\ Free(m) /\ l.dirs # <<>> /\ l.names = {}
      /\ Locals(m, [l EXCEPT !.dirs = Tail(@),
                             !.names = {s \in Services : Head(l.dirs) \in files[s]}
                                         \ l.loaded])
      /\ UNCHANGED locks

\* Mutant: a data file that could not be loaded is put in the hash as NULL.
Took_nullLoaded(l, s, found) ==
  LET t == [l EXCEPT !.names = @ \ {s}]
      o == IF found THEN s ELSE NoService
  IN  CASE l.op = "enabled" -> [t EXCEPT !.out = @ \cup {<<l.of, o>>}]
        [] l.op = "named" /\ found -> [t EXCEPT !.out = @ \cup {<<l.of, s>>}]
        [] l.op \notin {"enabled", "named"} -> [t EXCEPT !.loaded = @ \cup {o}]
        [] OTHER -> t

\* ag_manager_get_service() has returned for s.  For ids from the database, a
\* NULL goes in the list like any other; a data file that could not be loaded
\* is skipped.
Took(l, s, found) ==
  LET t == [l EXCEPT !.names = @ \ {s}]
  IN  CASE l.op = "enabled" ->
             [t EXCEPT !.out = @ \cup {<<l.of, IF found THEN s ELSE NoService>>}]
        [] l.op = "named" /\ found -> [t EXCEPT !.out = @ \cup {<<l.of, s>>}]
        [] l.op \notin {"enabled", "named"} /\ found ->
             [t EXCEPT !.loaded = @ \cup {s}]
        [] OTHER -> t

\* priv->services has it.  One that a message has created is asked for its
\* provider by the listing of an account, and reads its data file.
TakeService(m, s) ==
  LET l    == listing[m]
      read == l.op = "all" /\ Lacks(services[m][s], "names")
  IN  /\ Free(m) /\ s \in l.names /\ Has(m, s)
      /\ listing' = [listing EXCEPT ![m] = Took(l, s, TRUE)]
      /\ services' = IF read
                     THEN [services EXCEPT ![m][s] = LoadFromFile(m, @, s)]
                     ELSE services
      /\ UNCHANGED <<account, enabledRows, during, foreignVars, row, lastId,
                     files, call, inbox, openVars, locks>>

AskForService(m, s) ==
  /\ s \in listing[m].names
  /\ GetService(m, s)
  /\ UNCHANGED listingVars

\* A query of ag_manager_get_service() ends, and with it, perhaps, the call,
\* be it of the application or of a listing.
Answer(m) ==
  LET s == call[m].name
      l == [listing[m] EXCEPT
              !.failed = @ \/ (listing[m].op # "none" /\ locks' # locks)]
  IN  /\ SelectRow(m) \/ InsertRow(m) \/ SelectId(m)
      /\ listing' = [listing EXCEPT ![m] =
           IF call'[m].step = "idle" /\ s \in l.names
           THEN Took(l, s, services'[m][s] # NoService) ELSE l]
      /\ UNCHANGED <<account, enabledRows, during, foreignVars>>

\* _ag_application_list_supported_services() goes on with the services that
\* the application names, unless they are in the list for their types.
AddNamed(m) ==
  LET l      == listing[m]
      chosen == Chosen(m, l)
  IN  /\ Listing(m, "application") /\ Between(l)
      /\ Locals(m, [l EXCEPT !.op = "named", !.out = chosen,
                             !.names = {s \in AppServices :
                                          <<AnyAccount, s>> \notin chosen}])
      /\ UNCHANGED locks

Complete(m) ==
  LET l == listing[m]
  IN  /\ Free(m) /\ Between(l) /\ l.ids = {}
      /\ l.op \in {"enabled", "all", "services", "named"}

\* What the listing of a manager returns when it is complete.
Result(m) == listing[m].out \cup Chosen(m, listing[m])

EndListing(m) ==
  /\ Complete(m)
  /\ listing' = [listing EXCEPT ![m] = NoListing]
  /\ during' = [during EXCEPT ![m] = NotWatched]
  /\ UNCHANGED <<account, enabledRows, foreignVars, registryVars, openVars,
                 locks>>
-----------------------------------------------------------------------------
\* What happens between calls: the application asks for a service, or the main
\* loop delivers a signal about other accounts.
BetweenCalls(m) ==
  /\ listing[m].op = "none"
  /\ \/ \E s \in Services : GetService(m, s) \/ Consult(m, s)
     \/ \E msg \in inbox[m] : HandleMessage(m, msg)
  /\ UNCHANGED listingVars

Gone(m) ==
  /\ CloseManager(m) \/ AbortOnTimeout(m)
  /\ listing' = [listing EXCEPT ![m] = NoListing]
  /\ during' = [during EXCEPT ![m] = NotWatched]
  /\ foreign' = [foreign EXCEPT ![m] = {}]
  /\ memory' = [memory EXCEPT ![m] = {}]
  /\ news' = [news EXCEPT ![m] = <<>>]
  /\ UNCHANGED <<account, enabledRows>>

Next ==
  \/ \E m \in Managers :
       \/ Opening(m) /\ UNCHANGED <<registryVars, listingVars>>
       \/ BetweenCalls(m) \/ Answer(m) \/ Gone(m) \/ Receive(m)
       \/ \E a \in Accounts : Release(m, a)
       \/ \E op \in {"enabled", "all"} : BeginListing(m, op)
       \/ \E op \in {"services", "application"} : BeginReading(m, op)
       \/ \E a \in Accounts : NextAccount(m, a)
       \/ \E s \in Services : TakeService(m, s) \/ AskForService(m, s)
       \/ ReadDirectory(m) \/ AddNamed(m) \/ EndListing(m)
       \/ \E a \in Accounts, s \in Services, on \in BOOLEAN :
            StoreService(m, a, s, on)
       \/ \E a \in Accounts, on \in {"absent", "disabled", "enabled"} :
            StoreAccount(m, a, on)
       \/ \E a \in Accounts, on \in {"disabled", "enabled"} :
            \E enabled \in SUBSET Services : CreateAccount(m, a, on, enabled)
  \/ \E s \in Services, in \in Installed : Install(s, in) /\ UNCHANGED listingVars

Spec == Init /\ [][Next]_allVars
-----------------------------------------------------------------------------
(* Properties.                                                             *)

\* A listing of what is enabled, of a manager whose queries find the database
\* unlocked, is about to return.
Returns(m) == Complete(m) /\ listing[m].op = "enabled" /\ ~listing[m].failed

\* What was enabled, in its account and of the type of the manager, during the
\* whole call.
Throughout(m) == {e \in during[m].always : e[2] \in OfType(ServiceType[m])}

\* ag_manager_get_enabled_account_services(): what was enabled during the
\* whole call is in the list, without the NULL that stands for a service that
\* could not be loaded; and what is in the list was enabled at some time of
\* the call, whoever stores, creates or deletes accounts or replaces data
\* files meanwhile.  This holds of the accounts that the manager looks up in
\* the database, and of foreign ones when no signal about them was on its way
\* as the call began.
EnabledListingIsRight ==
  \A m \in Managers : Returns(m) =>
    /\ \A e \in Throughout(m) : e[1] \in during[m].unheard \/ e \in Result(m)
    /\ \A e \in Result(m) : /\ e[1] \in during[m].accounts
                            /\ e[1] \in during[m].unheard
                                 \/ e \in during[m].rows
=============================================================================
