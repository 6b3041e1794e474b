---------------------------- MODULE AccountTool -----------------------------
(***************************************************************************)
(* The ag-tool command line program, beside programs that store accounts   *)
(* with ag_account_store_async() in a read-only manager.                   *)
(*                                                                         *)
(* A command is a few calls of the library in a process of its own.  Any   *)
(* other process may do something between two of them, and every call may  *)
(* fail: the command then prints an error, and goes on with the next       *)
(* account or ends.  Its exit status is 0 all the same.  A query of a      *)
(* database that stays locked gives no rows, which is no error of the      *)
(* call.  What commands print besides errors is left out, except whether   *)
(* they find a setting.                                                    *)
(***************************************************************************)
EXTENDS RemoteStore

CONSTANTS
  Tools,        (* Processes that run ag-tool, and                          *)
  Clients       (* those that keep an account and store it now and then.    *)

ASSUME ToolAssumption ==
  /\ Tools \cup Clients = Processes /\ Tools \cap Clients = {}
  /\ Clients \subseteq ReadOnly

VARIABLE tool   (* The command of a process and its local variables.        *)

vars == <<remoteVars, tool>>
-----------------------------------------------------------------------------
\* The calls of each command; those after a "list" are made for every account
\* of it.  To this model, list-services and list-enabled of an account are
\* list-settings, and list-services without one is list-providers.
Steps ==
  [create_account         |-> <<"open", "store">>,
   delete_account         |-> <<"open", "load", "store">>,
   delete_all             |-> <<"open", "list", "load", "store">>,
   enable_disable_account |-> <<"open", "load", "store">>,
   update_account         |-> <<"open", "load", "store">>,
   enable_disable_service |-> <<"open", "load", "service", "store">>,
   update_service         |-> <<"open", "load", "service", "store">>,
   get_account            |-> <<"open", "load", "read">>,
   get_service            |-> <<"open", "load", "service", "read">>,
   list_settings          |-> <<"open", "load", "print">>,
   list_accounts          |-> <<"open", "list", "load", "print">>,
   list_providers         |-> <<"open", "print">>]

Commands == DOMAIN Steps
Errors   == {"INVALID_INPUT", "INVALID_ACC_ID", "INVALID_SERVICE_NAME",
             "ERROR_GENERIC"}
Running  == {"open", "list", "load", "service", "store", "storing", "read",
             "print"}

NoTool == [command |-> "none", step |-> "done", ids |-> {},
           section |-> Global, given |-> {}, shown |-> {}]

ToolTypeOK ==
  tool \in [Tools ->
    [command : Commands \cup {"none"}, step : Running \cup {"done"},
     ids : SUBSET Ids, section : Sections, given : SUBSET Ids,
     shown : SUBSET Errors]]

TypeOK == RemoteTypeOK /\ ToolTypeOK

Init == RemoteInit /\ tool = [p \in Tools |-> NoTool]

Deletes(t) == t.command \in {"delete_account", "delete_all"}

\* What a command does to the account it has loaded or made.
Change(t) ==
  CASE t.command = "create_account" -> Created
    [] Deletes(t) -> Deletion
    [] t.command = "enable_disable_account" -> Enabling
    [] OTHER -> Setting(t.section)
-----------------------------------------------------------------------------
At(p, step) == tool[p].step = step

\* The command after the call it is at.
After(t) ==
  LET steps == Steps[t.command]
      i     == CHOOSE j \in DOMAIN steps : steps[j] = t.step
  IN  IF i < Len(steps) THEN steps[i + 1] ELSE "done"

\* What is left of a process: its errors, and what it went to delete.
Over(t) == [command |-> t.command, step |-> "done", ids |-> {},
            section |-> Global, shown |-> t.shown,
            given |-> IF Deletes(t) THEN t.given ELSE {}]

Looping(t) == "list" \in Range(Steps[t.command])

\* The body of the loop is over: the next account, if any.
NextAccount(t) == IF Looping(t) /\ t.ids # {}
                  THEN [t EXCEPT !.step = "load"]
                  ELSE Over(t)

Becomes(p, t) == tool' = [tool EXCEPT ![p] = t]
GoOn(p, t) == Becomes(p, IF After(t) = "done" THEN NextAccount(t)
                         ELSE [t EXCEPT !.step = After(t)])

\* show_error().
Shows(t, e) == [t EXCEPT !.shown = @ \cup {e}]
Stop(p, e) == Becomes(p, Over(Shows(tool[p], e)))

Quiet == UNCHANGED remoteVars
-----------------------------------------------------------------------------
(* A process, from its arguments to its manager.                           *)

\* A command at one of its calls, with the accounts it is for.
Command(command, step, accounts, s) ==
  [command |-> command, step |-> step, ids |-> accounts, section |-> s,
   given |-> accounts, shown |-> {}]

\* The account among the arguments.
Named(command, i) ==
  IF {"list", "load"} \cap Range(Steps[command]) = {"load"} THEN {i} ELSE {}

\* A new process, whose arguments may be wrong: parse() and the checks before
\* ag_manager_new().
Start(p, command, i, s) ==
  /\ At(p, "done")
  /\ (s # Global) <=> ("service" \in Range(Steps[command]))
  /\ \/ Becomes(p, Command(command, "open", Named(command, i), s))
     \/ Becomes(p, Over(Shows(Command(command, "open", {}, s),
                              "INVALID_INPUT")))
  /\ Has(p, Nobody) /\ Return(p, "none")
  /\ UNCHANGED <<tableVars, callVars>>

\* ag_manager_new().
OpenManager(p) ==
  /\ At(p, "open")
  /\ GoOn(p, tool[p]) \/ Stop(p, "ERROR_GENERIC")
  /\ Quiet

\* ag_manager_list(), in delete-account all and list-accounts: the accounts,
\* or none of them when the query times out.
List(p) ==
  /\ At(p, "list")
  /\ \E found \in {Live, {}} :
       Becomes(p, IF found = {} THEN Over(tool[p])
                  ELSE Command(tool[p].command, "load", found, Global))
  /\ Quiet
-----------------------------------------------------------------------------
(* An account.                                                             *)

\* ag_manager_get_account() finds it,
LoadAccount(p, i) ==
  /\ At(p, "load") /\ i \in tool[p].ids /\ Load(p, i)
  /\ GoOn(p, [tool[p] EXCEPT !.ids = @ \ {i}])
  /\ UNCHANGED <<tableVars, callVars, result>>

\* or does not: it is not there, or the query times out.
NoSuchAccount(p, i) ==
  /\ At(p, "load") /\ i \in tool[p].ids
  /\ LET t == [tool[p] EXCEPT !.ids = @ \ {i}] IN
     Becomes(p, IF tool[p].command = "list_accounts" THEN NextAccount(t)
                ELSE NextAccount(Shows(t, "INVALID_ACC_ID")))
  /\ Quiet

\* ag_manager_get_service() finds it or not; see ServiceRegistry.
GetService(p) ==
  /\ At(p, "service")
  /\ GoOn(p, tool[p]) \/ Stop(p, "INVALID_SERVICE_NAME")
  /\ Quiet

\* ag_account_get_value() gives AG_SETTING_SOURCE_NONE when there is neither
\* a row nor a default, or the query of the rows has timed out.
ReadSetting(p) ==
  /\ At(p, "read")
  /\ GoOn(p, tool[p]) \/ Stop(p, "INVALID_INPUT")
  /\ Quiet

PrintAccount(p) == At(p, "print") /\ GoOn(p, tool[p]) /\ Quiet
-----------------------------------------------------------------------------
(* Storing it.                                                             *)

\* The changes of the command and ag_account_store_blocking().
StoreAccount(p) ==
  /\ At(p, "store")
  /\ StoreBlocking(p, Changed(p, Change(tool[p])))
  /\ Becomes(p, [tool[p] EXCEPT !.step = "storing"])

\* Mutant: only an error of the database is shown.
Reported_localOnly(t, r) ==
  IF r = "db" THEN Shows(t, "ERROR_GENERIC") ELSE t

\* An error of the store is shown, and the object released.
Reported(t, r) == IF r = "ok" THEN t ELSE Shows(t, "ERROR_GENERIC")

Stored(p) ==
  /\ At(p, "storing") /\ result[p] # "none"
  /\ Becomes(p, NextAccount(Reported(tool[p], result[p])))
  /\ Has(p, Nobody) /\ Return(p, "none")
  /\ UNCHANGED <<tableVars, callVars>>

Run(p) ==
  \/ \E c \in Commands, i \in Ids, s \in Sections : Start(p, c, i, s)
  \/ OpenManager(p) \/ List(p)
  \/ \E i \in Ids : LoadAccount(p, i) \/ NoSuchAccount(p, i)
  \/ GetService(p) \/ ReadSetting(p) \/ PrintAccount(p)
  \/ StoreAccount(p) \/ Stored(p)
-----------------------------------------------------------------------------
(* A program with an account.                                              *)

Idle(p) == ~Calling(p) /\ UNCHANGED tool

Create(p) ==
  /\ Idle(p) /\ ~object[p].held /\ Has(p, Object(0, 0, Created))
  /\ UNCHANGED <<tableVars, callVars, result>>

Open(p, i) ==
  /\ Idle(p) /\ ~object[p].held /\ Load(p, i)
  /\ UNCHANGED <<tableVars, callVars, result>>

\* It changes its account and stores it, or stores what it could not store.
Store(p, d) ==
  /\ Idle(p) /\ object[p].held
  /\ StoreAsync(p, Changed(p, d))

StoreWaiting(p, d) ==
  /\ Idle(p) /\ object[p].held
  /\ StoreBlocking(p, Changed(p, d))

\* It deletes only what is stored.
Edits(p) == {NoChanges} \cup {Setting(s) : s \in Sections}
              \cup IF object[p].id # 0 THEN {Deletion} ELSE {}

\* It may go on changing the account during an asynchronous call.
Edit(p, d) ==
  /\ object[p].held /\ Calling(p) /\ p \notin blocked
  /\ Has(p, Changed(p, d)) /\ UNCHANGED <<tableVars, callVars, result, tool>>

Work(p) ==
  \/ Create(p) \/ \E i \in Ids : Open(p, i)
  \/ \E d \in Edits(p) : Store(p, d) \/ StoreWaiting(p, d) \/ Edit(p, d)

Next ==
  \/ \E p \in Tools : Run(p)
  \/ \E p \in Clients : Work(p)
  \/ (\E p \in Processes : Library(p)) /\ UNCHANGED tool
  \/ Service /\ UNCHANGED tool

Spec == Init /\ [][Next]_vars
-----------------------------------------------------------------------------
(* Properties.                                                             *)

\* An account never shows what was written for another one.  A store of an
\* account that somebody else has deleted meanwhile leaves rows in Settings,
\* as nothing checks Settings.account; so does a remote store that is served
\* late.  No account created afterwards may have the id of those rows.
NoInheritedSettings ==
  \A i \in Live :
    /\ rows[i].by = rows[i].nth
    /\ \A r \in settings : r.account = i => r.by = rows[i].nth

\* When delete-account has ended and printed no error, the account that was
\* named, or every account that ag_manager_list() has returned to it, is
\* gone: whoever stores or deletes the same accounts at the same time, whether
\* the command deletes through D-Bus or not, and although each query of it
\* may time out.
QuietMeansGone ==
  \A p \in Tools :
    Deletes(tool[p]) /\ At(p, "done") /\ tool[p].shown = {}
    => tool[p].given \cap Live = {}
=============================================================================
